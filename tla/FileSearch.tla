----------------------------- MODULE FileSearch -----------------------------
(***************************************************************************)
(* The file_search tool                                                   *)
(* (src/crates/assistant_tools/src/file_search_tool.rs)                    *)
(* as it scopes its remote search by the synced task context.              *)
(*                                                                         *)
(* Tool::run validates the input, snapshots IdeContext into a context      *)
(* filter, and spawns perform_search twice on the background executor:    *)
(* once for the card (FileSearchToolCard) and once for the tool output.   *)
(* Each perform_search acquires the LLM token, merges the caller's filter  *)
(* with the snapshot, and POSTs the request.  Meanwhile the sync side may  *)
(* set or clear IdeContext (StoreWrite), which the composition with        *)
(* TaskSync replaces by the real writers.                                  *)
(*                                                                         *)
(* query, limit and search_type are passed through untouched and are left  *)
(* out; a search response is success or failure, and a successful one     *)
(* carries results reduced to their contents (Utf8Text strings), which    *)
(* the output task and the expanded card cut to a byte limit.             *)
(***************************************************************************)
EXTENDS IdeContext, Utf8Text

CONSTANTS
    Calls,          \* tool-use ids
    CallerFilters,  \* filters the model may pass in FileSearchToolInput
    StoreValues,    \* TaskSyncData values the sync side may write
    Invalid,        \* input JSON that does not deserialize
    NotSent,        \* no HTTP request sent (yet)
    Contents,       \* result contents a search response may carry
    MaxResults,     \* bound on the results of one response
    OutputLimit,    \* bytes of a result's content in the tool output (200)
    CardLimit       \* bytes of a result's content in the expanded card (300)

\* The two perform_search tasks of one tool call.
Tasks == {"card", "output"}

\* SearchFilter { content_type, thread_id, account_id, product_id,
\* board_id, task_id }, every field an Option.
SearchFilterFields ==
    {"content_type", "thread_id", "account_id", "product_id", "board_id",
     "task_id"}

\* FileSearchToolInput { query: Option<String>, filter: Option<SearchFilter> }
Inputs == [query : BOOLEAN, filter : CallerFilters \cup {None}]

\* The SearchFilter with every field None (unwrap_or_else in perform_search).
EmptyFilter == [f \in SearchFilterFields |-> None]

\* The filter field f of an Option<SearchFilter>.
FieldOf(filter, f) == IF filter = None THEN None ELSE filter[f]

\* The context filter Tool::run derives from the synced data: content_type
\* "auto", the three required ids always (even when ""), task_id only when
\* present.
ContextFilter(data) ==
    IF data = NoSync THEN None
    ELSE [content_type |-> "auto", thread_id |-> None,
          account_id |-> data.account_id, product_id |-> data.product_id,
          board_id |-> data.board_id, task_id |-> data.task_id]

\* Mutation: the merged filter is built from the ids alone, dropping the
\* caller's other fields.
MergeFiltersIdsOnly(inFilter, contextFilter) ==
    IF contextFilter = None THEN inFilter
    ELSE LET base == IF inFilter = None THEN EmptyFilter ELSE inFilter
         IN [f \in IdKeys |->
               IF base[f] = None THEN contextFilter[f] ELSE base[f]]

\* The merge in perform_search: without a context filter the caller's filter
\* is sent as is; otherwise each id field the caller left None is taken
\* from the context filter, and every other field is the caller's.
MergeFilters(inFilter, contextFilter) ==
    IF contextFilter = None THEN inFilter
    ELSE LET base == IF inFilter = None THEN EmptyFilter ELSE inFilter
         IN [f \in SearchFilterFields |->
               IF f \in IdKeys /\ base[f] = None THEN contextFilter[f]
                                                ELSE base[f]]

\* The results of a FileSearchResponse, reduced to their contents.
ResultLists == BoundedSeq(Contents, MaxResults)

\* A result's content as the tool shows it within n bytes:
\* `if content.len() > n { format!("{}...", &content[..n]) } else
\* { content.clone() }`.  ok is FALSE where the slice panics: n falls
\* inside a multi-byte character.
Truncated(s, n) ==
    IF ByteLen(s) <= n THEN [ok |-> TRUE, text |-> s, ellipsis |-> FALSE]
    ELSE IF n \in CharBoundaries(s)
         THEN [ok |-> TRUE, text |-> BytePrefix(s, n), ellipsis |-> TRUE]
         ELSE [ok |-> FALSE, text |-> <<>>, ellipsis |-> FALSE]

\* The line of the output message for one result.
OutputEntry(s) == Truncated(s, OutputLimit)

\* The label of the expanded card for one result.
CardLabel(s) == Truncated(s, CardLimit)

VARIABLES
    call,        \* call[t]: phase, input and context-filter snapshot
    task,        \* task[t][k]: where perform_search k of call t is
    sent,        \* sent[t][k]: the filter in the request body, or NotSent
    dispatched,  \* dispatched[t]: IdeContext when t ran (history)
    card,        \* card[t]: the FileSearchToolCard of call t
    output       \* output[t]: the ToolResultOutput task of call t

fsVars == <<call, task, sent, dispatched, card, output>>
vars == <<store, call, task, sent, dispatched, card, output>>

TaskStates == {"idle", "pending", "acquired", "ok", "failed"}

\* FileSearchToolCard.response: None while searching, Some(Err(..)), or
\* Some(Ok(..)) with its results.
CardResponses ==
    [kind : {"none", "err"}, results : {<<>>}]
    \cup [kind : {"ok"}, results : ResultLists]

\* The card before its search has finished.
NoResponse == [kind |-> "none", results |-> <<>>]

\* Where the output task is: awaiting its search, ended with the search's
\* error, panicked while formatting, or done with the message's lines for
\* the results it received.
OutputStates == {"none", "err", "panicked", "done"}

TypeOK ==
    /\ StoreTypeOK
    /\ \A t \in Calls :
          /\ call[t].phase \in {"idle", "rejected", "running"}
          /\ call[t].input \in Inputs \cup {Invalid}
    /\ task \in [Calls -> [Tasks -> TaskStates]]
    /\ \A t \in Calls, k \in Tasks :
          sent[t][k] = NotSent \/ sent[t][k] = None
          \/ DOMAIN sent[t][k] = SearchFilterFields
    /\ dispatched \in [Calls -> SyncDataSet \cup {NoSync}]
    /\ card \in [Calls -> [response : CardResponses, expanded : BOOLEAN]]
    /\ \A t \in Calls :
          /\ output[t].state \in OutputStates
          /\ output[t].results \in ResultLists

Init ==
    /\ InitStore
    /\ call = [t \in Calls |-> [phase |-> "idle", input |-> Invalid,
                                snapshot |-> None]]
    /\ task = [t \in Calls |-> [k \in Tasks |-> "idle"]]
    /\ sent = [t \in Calls |-> [k \in Tasks |-> NotSent]]
    /\ dispatched = [t \in Calls |-> NoSync]
    /\ card = [t \in Calls |-> [response |-> NoResponse, expanded |-> FALSE]]
    /\ output = [t \in Calls |-> [state |-> "none", results |-> <<>>,
                                  message |-> <<>>]]

\* Tool::run with input `in`: a deserialization error or a missing query
\* and thread_id returns an error task at once; otherwise IdeContext is
\* read once, into the context filter both searches share, and both
\* perform_search tasks are spawned; the card is created with no response.
Run(t, in) ==
    /\ call[t].phase = "idle"
    /\ \/ /\ in = Invalid
          /\ call' = [call EXCEPT ![t].phase = "rejected", ![t].input = in]
          /\ UNCHANGED <<task, dispatched, card>>
       \/ /\ in # Invalid
          /\ ~in.query /\ FieldOf(in.filter, "thread_id") = None
          /\ call' = [call EXCEPT ![t].phase = "rejected", ![t].input = in]
          /\ UNCHANGED <<task, dispatched, card>>
       \/ /\ in # Invalid
          /\ in.query \/ FieldOf(in.filter, "thread_id") # None
          /\ call' = [call EXCEPT ![t] = [phase |-> "running", input |-> in,
                                 snapshot |-> ContextFilter(GetSyncData)]]
          /\ task' = [task EXCEPT ![t] = [k \in Tasks |-> "pending"]]
          /\ dispatched' = [dispatched EXCEPT ![t] = store]
          /\ card' = [card EXCEPT ![t] = [response |-> NoResponse,
                                           expanded |-> FALSE]]
    /\ UNCHANGED <<store, sent, output>>

\* llm_api_token.acquire(&client) in perform_search: Err ends the search.
AcquireToken(t, k) ==
    /\ task[t][k] = "pending"
    /\ \/ task' = [task EXCEPT ![t][k] = "failed"]
       \/ task' = [task EXCEPT ![t][k] = "acquired"]
    /\ UNCHANGED <<store, call, sent, dispatched, card, output>>

\* Mutation: perform_search reads IdeContext again instead of using the
\* snapshot taken by Tool::run.
SendSearchLiveStore(t, k) ==
    /\ task[t][k] = "acquired"
    /\ \/ /\ task' = [task EXCEPT ![t][k] = "failed"]
          /\ UNCHANGED sent
       \/ /\ sent' = [sent EXCEPT ![t][k] =
                MergeFilters(call[t].input.filter, ContextFilter(store))]
          /\ task' \in {[task EXCEPT ![t][k] = "ok"],
                        [task EXCEPT ![t][k] = "failed"]}
    /\ UNCHANGED <<store, call, dispatched, card, output>>

\* The rest of perform_search: the filters are merged and the request body
\* built; build_zed_llm_url may fail before anything is sent; otherwise
\* the request is sent, and a send error, a non-success status or an
\* unparsable body fails the search, else it succeeds.
SendSearch(t, k) ==
    /\ task[t][k] = "acquired"
    /\ \/ /\ task' = [task EXCEPT ![t][k] = "failed"]
          /\ UNCHANGED sent
       \/ /\ sent' = [sent EXCEPT ![t][k] =
                MergeFilters(call[t].input.filter, call[t].snapshot)]
          /\ task' \in {[task EXCEPT ![t][k] = "ok"],
                        [task EXCEPT ![t][k] = "failed"]}
    /\ UNCHANGED <<store, call, dispatched, card, output>>

\* The card's task: when the card's perform_search finishes, its result
\* becomes the card's response (this.update(..).ok()).  Which results a
\* successful search returned is the server's choice.
CardReceive(t) ==
    /\ card[t].response.kind = "none"
    /\ \/ /\ task[t]["card"] = "failed"
          /\ card' = [card EXCEPT ![t].response = [kind |-> "err",
                                                   results |-> <<>>]]
       \/ /\ task[t]["card"] = "ok"
          /\ \E rs \in ResultLists :
                card' = [card EXCEPT ![t].response = [kind |-> "ok",
                                                     results |-> rs]]
    /\ UNCHANGED <<store, call, task, sent, dispatched, output>>

\* The card's disclosure: disabled unless the response is Ok with results;
\* a click negates expanded.
ToggleCard(t) ==
    /\ card[t].response.kind = "ok"
    /\ card[t].response.results # <<>>
    /\ card' = [card EXCEPT ![t].expanded = ~@]
    /\ UNCHANGED <<store, call, task, sent, dispatched, output>>

\* The output task: perform_search(..).await? ends it with the search's
\* error; otherwise the message "Found {total} results" gets one line per
\* result, its content cut to 200 bytes, and the response is serialised
\* into the output.  A slice inside a character panics the task.
Output(t) ==
    /\ output[t].state = "none"
    /\ \/ /\ task[t]["output"] = "failed"
          /\ output' = [output EXCEPT ![t].state = "err"]
       \/ /\ task[t]["output"] = "ok"
          /\ \E rs \in ResultLists :
                LET lines == [i \in DOMAIN rs |-> OutputEntry(rs[i])]
                IN  output' = [output EXCEPT ![t] =
                       [state |-> IF \A i \in DOMAIN rs : lines[i].ok
                                  THEN "done" ELSE "panicked",
                        results |-> rs, message |-> lines]]
    /\ UNCHANGED <<store, call, task, sent, dispatched, card>>

\* The sync side writes IdeContext (set_sync_data or clear_sync_data).
StoreWrite ==
    /\ \/ \E d \in StoreValues : SetSyncData(d)
       \/ ClearSyncData
    /\ UNCHANGED fsVars

\* The steps of the tool itself.
ToolNext ==
    \E t \in Calls :
        \/ \E in \in Inputs \cup {Invalid} : Run(t, in)
        \/ \E k \in Tasks : AcquireToken(t, k) \/ SendSearch(t, k)
        \/ CardReceive(t) \/ ToggleCard(t) \/ Output(t)

Next == ToolNext \/ StoreWrite

Spec == Init /\ [][Next]_vars

(***************************************************************************)
(* Properties                                                              *)
(***************************************************************************)

\* Every request either search of a tool call sends is scoped by the caller
\* where the caller gave an id, and otherwise by the synced context as it
\* was when the tool was run, however IdeContext changed while the token
\* was being acquired: both searches of a call, the card's and the
\* output's, carry the same scope.
SentFilterScopedToDispatch ==
    \A t \in Calls, k \in Tasks :
        sent[t][k] # NotSent =>
            \A f \in IdKeys :
                LET given == FieldOf(call[t].input.filter, f)
                    ambient == IF dispatched[t] = NoSync THEN None
                               ELSE dispatched[t][f]
                IN FieldOf(sent[t][k], f) = IF given # None THEN given
                                                           ELSE ambient

\* spec.md 4.6, the ContextFilterMerger: an id the caller gave non-empty is
\* kept and any other is filled from the synced context, where spec.md 3
\* makes a synced "" unset and so brings nothing in; content_type
\* is "auto" when the merge brought in an ambient id and the caller gave no
\* content_type.  perform_search fills an id only when the caller's is
\* None, so a caller's "" survives and overrides the synced id, and it
\* never sets content_type, and it copies a synced "" (a callback without
\* board_id) into the filter as Some("").
SentFilterIsSpecMerge ==
    \A t \in Calls, k \in Tasks :
        LET in == call[t].input.filter
            amb == dispatched[t]
            Brought(f) == FieldOf(in, f) \in {None, Empty} /\ amb[f] \notin {None, Empty}
        IN  sent[t][k] # NotSent /\ amb # NoSync =>
              /\ \A f \in IdKeys :
                    FieldOf(sent[t][k], f) =
                        IF Brought(f) THEN amb[f] ELSE FieldOf(in, f)
              /\ FieldOf(in, "content_type") = None /\ \E f \in IdKeys : Brought(f)
                 => FieldOf(sent[t][k], "content_type") = "auto"

\* The reference for showing a result's content within n bytes: the whole
\* content, or its longest prefix of whole characters followed by "...".
ShownWithin(s, n) ==
    IF ByteLen(s) <= n THEN [ok |-> TRUE, text |-> s, ellipsis |-> FALSE]
    ELSE [ok |-> TRUE, text |-> FloorCharPrefix(s, n), ellipsis |-> TRUE]

\* Every result's content reaches the model, and the expanded card, whole
\* or cut to whole characters within the byte limit.  The output task
\* and the card's render cut with &content[..200] and &content[..300],
\* which panics when the offset falls inside a multi-byte character: a
\* result with non-ASCII text across the limit panics the output task, or
\* panics the card's render once the user expands it.
ResultTextCutAtCharBoundary ==
    \A t \in Calls :
        /\ output[t].state \in {"done", "panicked"} =>
              output[t].message =
                  [i \in DOMAIN output[t].results |->
                      ShownWithin(output[t].results[i], OutputLimit)]
        /\ card[t].expanded =>
              \A i \in DOMAIN card[t].response.results :
                  LET r == card[t].response.results[i]
                  IN  CardLabel(r) = ShownWithin(r, CardLimit)

=============================================================================
