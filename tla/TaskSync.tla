------------------------------ MODULE TaskSync ------------------------------
(***************************************************************************)
(* The task-context sync of the agent configuration panel                  *)
(* (src/crates/agent_ui/src/agent_configuration.rs):                       *)
(*                                                                         *)
(*  - AgentConfiguration entities, one per window at a time, each with its *)
(*    own task_sync_data / task_sync_expanded (the panel state);           *)
(*  - sync attempts started by sync_task: acquire the LLM token, bind a    *)
(*    tiny_http server on 127.0.0.1:0, open the browser, poll              *)
(*    recv_timeout(1s) up to Budget times on the background executor,      *)
(*    parse the first request into a TaskSyncData, respond, and hand the   *)
(*    result back to the foreground, which calls update_sync_data on the   *)
(*    panel if its weak handle still upgrades;                             *)
(*  - the IdeContext global the panel writes (module IdeContext).          *)
(*                                                                         *)
(* Requests reaching the listener come from the browser or from any other  *)
(* local client: the model lets any request of Requests arrive, in any     *)
(* order, while the listener is bound.                                     *)
(***************************************************************************)
EXTENDS Naturals, Sequences, IdeContext

CONSTANTS
    Attempts,   \* ids of sync_task invocations (a finite pool)
    Windows,    \* windows, each hosting at most one AgentConfiguration
    MaxGen,     \* bound on AgentConfiguration entities created per window
    Budget,     \* iterations of the recv_timeout loop (300 in the code)
    MaxInbox,   \* bound on requests queued at one listener
    Queries     \* decoded query strings a request can carry

ASSUME MaxGen \in Nat /\ Budget \in Nat \ {0} /\ MaxInbox \in Nat \ {0}

\* A request reaching the callback server: one whose URL parses (carrying
\* a query), or one whose path makes Url::parse fail.
Requests ==
    [kind : {"query"}, query : Queries] \cup [kind : {"malformed"}]

\* Program points of one sync attempt.
AttemptStates ==
    {"idle", "token", "listening", "returned", "done",
     "auth_failed", "panicked", "parse_failed", "respond_failed", "timeout"}
Terminal ==
    {"done", "auth_failed", "panicked", "parse_failed", "respond_failed",
     "timeout"}

NoPanel == <<>>

VARIABLES
    pc,      \* pc[a]: where attempt a is
    owner,   \* owner[a]: <<window, generation>> of the entity that started a
    iter,    \* iter[a]: recv_timeout iterations consumed by a's loop
    waited,  \* waited[a]: seconds a's loop has spent waiting in recv_timeout
    inbox,   \* inbox[a]: requests queued at a's server, in arrival order
    result,  \* result[a]: the TaskSyncData a's listener parsed
    panel    \* panel[w]: the AgentConfiguration entity of window w

vars == <<store, pc, owner, iter, waited, inbox, result, panel>>

PanelState ==
    [gen : 0..MaxGen, alive : BOOLEAN,
     data : SyncDataSet \cup {NoSync}, expanded : BOOLEAN]

TypeOK ==
    /\ StoreTypeOK
    /\ pc \in [Attempts -> AttemptStates]
    /\ owner \in [Attempts -> (Windows \X (1..MaxGen)) \cup {NoPanel}]
    /\ iter \in [Attempts -> 0..Budget]
    /\ waited \in [Attempts -> 0..Budget]
    /\ inbox \in [Attempts -> Seq(Requests)]
    /\ \A a \in Attempts : Len(inbox[a]) <= MaxInbox
    /\ result \in [Attempts -> SyncDataSet \cup {NoSync}]
    /\ panel \in [Windows -> PanelState]

Init ==
    /\ InitStore
    /\ pc = [a \in Attempts |-> "idle"]
    /\ owner = [a \in Attempts |-> NoPanel]
    /\ iter = [a \in Attempts |-> 0]
    /\ waited = [a \in Attempts |-> 0]
    /\ inbox = [a \in Attempts |-> <<>>]
    /\ result = [a \in Attempts |-> NoSync]
    /\ panel = [w \in Windows |->
                  [gen |-> 0, alive |-> FALSE, data |-> NoSync,
                   expanded |-> TRUE]]

(***************************************************************************)
(* Panel entities                                                          *)
(***************************************************************************)

\* AgentConfiguration::new: a fresh entity replaces the window's previous
\* one (which is dropped); it starts with no task data and expanded,
\* whatever IdeContext holds.
NewConfiguration(w) ==
    /\ panel[w].gen < MaxGen
    /\ panel' = [panel EXCEPT ![w] = [gen |-> @.gen + 1, alive |-> TRUE,
                                      data |-> NoSync, expanded |-> TRUE]]
    /\ UNCHANGED <<store, pc, owner, iter, waited, inbox, result>>

\* The window drops its configuration entity (environment).
DropConfiguration(w) ==
    /\ panel[w].alive
    /\ panel' = [panel EXCEPT ![w].alive = FALSE]
    /\ UNCHANGED <<store, pc, owner, iter, waited, inbox, result>>

\* The disclosure's on_click in render_task_sync_section.
ToggleTaskSyncSection(w) ==
    /\ panel[w].alive
    /\ panel' = [panel EXCEPT ![w].expanded = ~@]
    /\ UNCHANGED <<store, pc, owner, iter, waited, inbox, result>>

\* The entity's weak handle still upgrades (this.upgrade() is Some).
OwnerAlive(a) ==
    /\ panel[owner[a][1]].alive
    /\ panel[owner[a][1]].gen = owner[a][2]

(***************************************************************************)
(* One sync attempt                                                        *)
(***************************************************************************)

\* sync_task: the attempt is spawned on the foreground executor on behalf
\* of the entity that called it.
SyncTask(w, a) ==
    /\ pc[a] = "idle"
    /\ pc' = [pc EXCEPT ![a] = "token"]
    /\ owner' = [owner EXCEPT ![a] = <<w, panel[w].gen>>]
    /\ UNCHANGED <<store, iter, waited, inbox, result, panel>>

\* The "Sync Your Task" button, rendered while expanded and no data shown.
ClickSyncYourTask(w, a) ==
    /\ panel[w].alive /\ panel[w].expanded /\ panel[w].data = NoSync
    /\ SyncTask(w, a)

\* The "Sync Latest Information" button (sync_latest_task), rendered while
\* expanded and data shown: the same flow as sync_task.
ClickSyncLatest(w, a) ==
    /\ panel[w].alive /\ panel[w].expanded /\ panel[w].data # NoSync
    /\ SyncTask(w, a)

\* client.request(GetLlmToken) returns Ok: tiny_http::Server::http on
\* 127.0.0.1:0 is bound, and its .expect panics if binding fails; else
\* the URL with token and port is built and opened in the browser (a
\* failure to open is only logged), and the listening loop is spawned on
\* the background executor.
TokenAcquired(a) ==
    /\ pc[a] = "token"
    /\ \/ pc' = [pc EXCEPT ![a] = "panicked"]
       \/ pc' = [pc EXCEPT ![a] = "listening"]
    /\ UNCHANGED <<store, owner, iter, waited, inbox, result, panel>>

\* client.request(GetLlmToken) returns Err: the error is logged, a toast
\* with a "Sign In" action is shown, and the attempt ends.
TokenFailed(a) ==
    /\ pc[a] = "token"
    /\ pc' = [pc EXCEPT ![a] = "auth_failed"]
    /\ UNCHANGED <<store, owner, iter, waited, inbox, result, panel>>

\* A request reaches a's bound port (environment: the browser redirect or
\* any local client).
Deliver(a, r) ==
    /\ pc[a] = "listening"
    /\ Len(inbox[a]) < MaxInbox
    /\ inbox' = [inbox EXCEPT ![a] = Append(@, r)]
    /\ UNCHANGED <<store, pc, owner, iter, waited, result, panel>>

\* recv_timeout(1s) waits its full second and returns Ok(None).
RecvTimedOut(a) ==
    /\ inbox[a] = <<>>
    /\ waited' = [waited EXCEPT ![a] = @ + 1]
    /\ UNCHANGED <<pc, inbox, result>>

\* recv_timeout returns Err at once (the accept failed); .ok().flatten()
\* turns it into None like a timeout, but no second has passed.
RecvError(a) ==
    UNCHANGED <<waited, pc, inbox, result>>

\* recv_timeout returns the first queued request: its URL is parsed (`?`
\* returns Err on failure), its query fills a TaskSyncData, and it is
\* responded to (`?` returns Err if respond fails) before Ok(sync_data)
\* is returned.
RecvRequest(a) ==
    /\ inbox[a] # <<>>
    /\ inbox' = [inbox EXCEPT ![a] = Tail(@)]
    /\ UNCHANGED waited
    /\ \/ /\ Head(inbox[a]).kind = "malformed"
          /\ pc' = [pc EXCEPT ![a] = "parse_failed"]
          /\ UNCHANGED result
       \/ /\ Head(inbox[a]).kind = "query"
          /\ result' = [result EXCEPT ![a] = ParseQuery(Head(inbox[a]).query)]
          /\ \/ pc' = [pc EXCEPT ![a] = "returned"]
             \/ pc' = [pc EXCEPT ![a] = "respond_failed"]

\* Mutation: a `loop` without the iteration bound, a poll that yields
\* nothing costing nothing.
PollUnbounded(a) ==
    /\ pc[a] = "listening"
    /\ iter[a] < Budget
    /\ \/ /\ inbox[a] = <<>>
          /\ UNCHANGED <<iter, waited, pc, inbox, result>>
       \/ /\ iter' = [iter EXCEPT ![a] = @ + 1]
          /\ RecvRequest(a)
    /\ UNCHANGED <<store, owner, panel>>

\* Mutation: the loop bound off by one (`0..=300`).
PollOffByOne(a) ==
    /\ pc[a] = "listening"
    /\ iter[a] <= Budget
    /\ iter' = [iter EXCEPT ![a] = @ + 1]
    /\ RecvTimedOut(a) \/ RecvError(a) \/ RecvRequest(a)
    /\ UNCHANGED <<store, owner, panel>>

\* Mutation: the background loop writes IdeContext itself as soon as the
\* query is parsed, before responding.
PollPublishEarly(a) ==
    /\ pc[a] = "listening"
    /\ iter[a] < Budget
    /\ iter' = [iter EXCEPT ![a] = @ + 1]
    /\ \/ (RecvTimedOut(a) \/ RecvError(a)) /\ UNCHANGED store
       \/ /\ RecvRequest(a)
          /\ store' = IF Head(inbox[a]).kind = "query"
                      THEN ParseQuery(Head(inbox[a]).query) ELSE store
    /\ UNCHANGED <<owner, panel>>

\* One iteration of `for _ in 0..300`: recv_timeout(1s) times out, fails,
\* or yields a request.
Poll(a) ==
    /\ pc[a] = "listening"
    /\ iter[a] < Budget
    /\ iter' = [iter EXCEPT ![a] = @ + 1]
    /\ RecvTimedOut(a) \/ RecvError(a) \/ RecvRequest(a)
    /\ UNCHANGED <<store, owner, panel>>

\* The loop ran out: anyhow::bail!("Sync timeout").  The Err is dropped by
\* the foreground (`if let Ok(..)`), so nothing else changes.
Timeout(a) ==
    /\ pc[a] = "listening"
    /\ iter[a] = Budget
    /\ pc' = [pc EXCEPT ![a] = "timeout"]
    /\ UNCHANGED <<store, owner, iter, waited, inbox, result, panel>>

\* update_sync_data on the entity of window w: the data is kept in the
\* panel and written to IdeContext (initialising the global if missing),
\* and the section is collapsed.
UpdateSyncData(w, data) ==
    /\ panel' = [panel EXCEPT ![w].data = data, ![w].expanded = FALSE]
    /\ SetSyncData(data)

\* Back on the foreground after the loop returned Ok: if the starting
\* entity is still alive its update_sync_data runs, otherwise the result
\* is dropped.
Publish(a) ==
    /\ pc[a] = "returned"
    /\ pc' = [pc EXCEPT ![a] = "done"]
    /\ \/ /\ OwnerAlive(a)
          /\ UpdateSyncData(owner[a][1], result[a])
       \/ /\ ~OwnerAlive(a)
          /\ UNCHANGED <<panel, store>>
    /\ UNCHANGED <<owner, iter, waited, inbox, result>>

\* clear_task_sync, from the "Clear Sync" button (rendered while expanded
\* and data is shown): panel data and IdeContext are cleared and the
\* section is expanded.  In-flight attempts are not cancelled.
ClearTaskSync(w) ==
    /\ panel[w].alive /\ panel[w].expanded /\ panel[w].data # NoSync
    /\ panel' = [panel EXCEPT ![w].data = NoSync, ![w].expanded = TRUE]
    /\ ClearSyncData
    /\ UNCHANGED <<pc, owner, iter, waited, inbox, result>>

Next ==
    \/ \E w \in Windows :
          \/ NewConfiguration(w)
          \/ DropConfiguration(w)
          \/ ToggleTaskSyncSection(w)
          \/ ClearTaskSync(w)
          \/ \E a \in Attempts :
                ClickSyncYourTask(w, a) \/ ClickSyncLatest(w, a)
    \/ \E a \in Attempts :
          \/ TokenAcquired(a)
          \/ TokenFailed(a)
          \/ \E r \in Requests : Deliver(a, r)
          \/ Poll(a)
          \/ Timeout(a)
          \/ Publish(a)

\* The background executor runs the loop to its end, and the foreground
\* executor runs the continuation once the loop has returned.  Nothing is
\* assumed of the token RPC, the browser, or the user.
Fairness ==
    \A a \in Attempts :
        WF_vars(Poll(a)) /\ WF_vars(Timeout(a)) /\ WF_vars(Publish(a))

Spec == Init /\ [][Next]_vars
FairSpec == Spec /\ Fairness

(***************************************************************************)
(* Refinement of the orchestrator's promised state machine                 *)
(***************************************************************************)

\* The spec's phase of an attempt: a bound listener and a result waiting
\* for the foreground both count as AwaitingCallback; every error exit,
\* the panic included, counts as Failed.
AbstractPhase(a) ==
    CASE pc[a] = "idle"                   -> "Idle"
      [] pc[a] = "token"                  -> "AcquiringToken"
      [] pc[a] \in {"listening", "returned"} -> "AwaitingCallback"
      [] pc[a] = "done"                   -> "Completed"
      [] OTHER                            -> "Failed"

\* The callback an attempt has accepted: the parsed data, once the
\* listener has returned it successfully.
AbstractCallback(a) ==
    IF pc[a] \in {"returned", "done"} THEN result[a] ELSE NoSync

Orchestrator == INSTANCE SyncOrchestrator WITH
    phase <- [a \in Attempts |-> AbstractPhase(a)],
    callback <- [a \in Attempts |-> AbstractCallback(a)]

\* sync_task, the listener loop, update_sync_data and clear_task_sync
\* together implement the spec's state machine: token before listener
\* before callback, the store written only by the completion of an
\* attempt with the data that attempt's own listener accepted, and never
\* by a failing attempt.
SyncOrchestratorRefinement == Orchestrator!Spec

(***************************************************************************)
(* Liveness                                                                *)
(***************************************************************************)

\* Once its listener is bound, an attempt always ends: the polling loop is
\* bounded by Budget iterations and the foreground continuation runs, so
\* no attempt holds its port forever or hangs between the background and
\* the foreground.
ListeningAttemptEnds ==
    \A a \in Attempts : pc[a] = "listening" ~> pc[a] \in Terminal

(***************************************************************************)
(* What spec.md says and the code does not do (checked for violation)      *)
(***************************************************************************)

\* spec.md 4.2, 7 and 8: every attempt that has ended did so with an
\* AuthError, a published context, or a Timeout after its whole budget of
\* seconds ("only the final determination is timeout or success", and a
\* timeout comes "not before" the budget): an unparsable request is logged
\* and the wait goes on, a failed HTML response still publishes the
\* captured context, and nothing panics.  sync_task panics when the bind
\* fails (.expect), returns Err on the `?` of Url::parse and of
\* req.respond, and counts recv_timeout calls, of which a failing one
\* returns at once.
AttemptEndsInSpecOutcome ==
    \A a \in Attempts :
        pc[a] \in Terminal =>
            \/ pc[a] \in {"auth_failed", "done"}
            \/ pc[a] = "timeout" /\ waited[a] = Budget

\* spec.md 1, 2: the UI renders the synced-context store's current
\* value.  Each AgentConfiguration keeps its own copy, starting empty.
PanelShowsStore ==
    \A w \in Windows : panel[w].alive => panel[w].data = store

=============================================================================
