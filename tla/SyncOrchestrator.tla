-------------------------- MODULE SyncOrchestrator --------------------------
(***************************************************************************)
(* What a sync attempt promises (spec.md 4.4, 4.5, 5): each attempt goes   *)
(* AcquiringToken -> AwaitingCallback -> Completed | Failed, in that       *)
(* order; the store changes only when an attempt completes, and then to    *)
(* the context that attempt's callback delivered (or not at all, when the  *)
(* panel that started it is gone), or when the user clears it.  Attempts   *)
(* run concurrently, with last-write-wins on the store.                    *)
(***************************************************************************)
EXTENDS TaskSyncData

CONSTANT Attempts

VARIABLES
    phase,     \* phase[a]: the attempt's state in the spec's state machine
    callback,  \* callback[a]: the context a's callback delivered, or NoSync
    store      \* the synced-context store

Phases == {"Idle", "AcquiringToken", "AwaitingCallback", "Completed", "Failed"}

Init ==
    /\ phase = [a \in Attempts |-> "Idle"]
    /\ callback = [a \in Attempts |-> NoSync]
    /\ store = NoSync

Start(a) ==
    /\ phase[a] = "Idle"
    /\ phase' = [phase EXCEPT ![a] = "AcquiringToken"]
    /\ UNCHANGED <<callback, store>>

HandOff(a) ==
    /\ phase[a] = "AcquiringToken"
    /\ phase' = [phase EXCEPT ![a] = "AwaitingCallback"]
    /\ UNCHANGED <<callback, store>>

CallbackReceived(a) ==
    /\ phase[a] = "AwaitingCallback"
    /\ callback[a] = NoSync
    /\ \E c \in SyncDataSet : callback' = [callback EXCEPT ![a] = c]
    /\ UNCHANGED <<phase, store>>

Complete(a) ==
    /\ phase[a] = "AwaitingCallback"
    /\ callback[a] # NoSync
    /\ phase' = [phase EXCEPT ![a] = "Completed"]
    /\ store' \in {callback[a], store}
    /\ UNCHANGED callback

Fail(a) ==
    /\ phase[a] \in {"AcquiringToken", "AwaitingCallback"}
    /\ phase' = [phase EXCEPT ![a] = "Failed"]
    /\ UNCHANGED <<callback, store>>

Clear ==
    /\ store' = NoSync
    /\ UNCHANGED <<phase, callback>>

Next ==
    \/ Clear
    \/ \E a \in Attempts :
          Start(a) \/ HandOff(a) \/ CallbackReceived(a) \/ Complete(a) \/ Fail(a)

Spec == Init /\ [][Next]_<<phase, callback, store>>

=============================================================================
