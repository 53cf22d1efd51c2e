---------------------------- MODULE ContextSystem ----------------------------
(***************************************************************************)
(* The sync flow and the file_search tool sharing the IdeContext global:   *)
(* TaskSync is the only writer of the store, and every tool call reads it  *)
(* at dispatch.  Each component's steps leave the other's state alone.    *)
(* Two history variables record what the handshake has delivered: the   *)
(* data of the latest sync whose listener returned Ok (or NoSync after a  *)
(* Clear), and its value when each tool call was dispatched.             *)
(***************************************************************************)
EXTENDS TaskSyncData

CONSTANTS
    Attempts, Windows, MaxGen, Budget, MaxInbox, Queries,
    Calls, CallerFilters, Invalid, NotSent

VARIABLES
    store,
    pc, owner, iter, waited, inbox, result, panel,
    call, task, sent, dispatched, card, output,
    completed,  \* data of the latest completed sync, NoSync after Clear
    expected    \* expected[t]: completed when tool call t was dispatched

syncVars == <<pc, owner, iter, waited, inbox, result, panel>>
toolVars == <<call, task, sent, dispatched, card, output>>
histVars == <<completed, expected>>
vars == <<store, syncVars, toolVars, histVars>>

Sync == INSTANCE TaskSync
\* Search results play no part in how a search is scoped: one ASCII result.
Tool == INSTANCE FileSearch WITH StoreValues <- {}, Contents <- {<<1>>},
                                 MaxResults <- 1, OutputLimit <- 200,
                                 CardLimit <- 300

TypeOK ==
    /\ Sync!TypeOK /\ Tool!TypeOK
    /\ completed \in SyncDataSet \cup {NoSync}
    /\ expected \in [Calls -> SyncDataSet \cup {NoSync}]

Init ==
    /\ Sync!Init /\ Tool!Init
    /\ completed = NoSync
    /\ expected = [t \in Calls |-> NoSync]

\* The foreground continuation of an attempt whose loop returned Ok: the
\* handshake is complete whether or not the panel is still there.
SyncCompletes ==
    \E a \in Attempts :
        /\ Sync!Publish(a)
        /\ completed' = result[a]

\* Clear Sync empties the store on purpose.
SyncClears ==
    \E w \in Windows :
        /\ Sync!ClearTaskSync(w)
        /\ completed' = NoSync

\* Every other step of the sync flow.
SyncOther ==
    /\ \/ \E w \in Windows :
             \/ Sync!NewConfiguration(w) \/ Sync!DropConfiguration(w)
             \/ Sync!ToggleTaskSyncSection(w)
             \/ \E a \in Attempts :
                   Sync!ClickSyncYourTask(w, a) \/ Sync!ClickSyncLatest(w, a)
       \/ \E a \in Attempts :
             \/ Sync!TokenAcquired(a) \/ Sync!TokenFailed(a)
             \/ \E r \in Sync!Requests : Sync!Deliver(a, r)
             \/ Sync!Poll(a) \/ Sync!Timeout(a)
    /\ UNCHANGED completed

\* A tool call is dispatched: the handshake's latest result is recorded.
ToolDispatch ==
    \E t \in Calls, in \in Tool!Inputs \cup {Invalid} :
        /\ Tool!Run(t, in)
        /\ expected' = [expected EXCEPT ![t] = completed]

\* Every other step of the tool.
ToolOther ==
    /\ \E t \in Calls :
          \/ \E k \in Tool!Tasks : Tool!AcquireToken(t, k) \/ Tool!SendSearch(t, k)
          \/ Tool!CardReceive(t) \/ Tool!ToggleCard(t) \/ Tool!Output(t)
    /\ UNCHANGED expected

Next ==
    \/ (SyncCompletes \/ SyncClears \/ SyncOther)
          /\ UNCHANGED <<toolVars, expected>>
    \/ (ToolDispatch \/ ToolOther) /\ UNCHANGED <<syncVars, completed>>

Spec == Init /\ [][Next]_vars

\* spec.md 4.4: the completion of the callback wait drives the attempt to
\* Completed, which publishes to the SyncedContextStore, and every search
\* merges against the store's snapshot (spec.md 5).  So a search that runs
\* (a call with a query or a thread_id) should be
\* scoped by the latest sync the browser was told was complete, or by
\* nothing after a Clear.  The foreground continuation applies the result
\* only through the panel's weak handle (agent_configuration.rs:686): if
\* the panel was closed meanwhile the result is dropped, IdeContext keeps
\* the previous context, and searches stay scoped by it.  spec.md 5 only
\* asks that teardown stop the work from affecting UI state.
SearchScopedByLatestCompletedSync ==
    \A t \in Calls : call[t].phase = "running" => dispatched[t] = expected[t]

=============================================================================
