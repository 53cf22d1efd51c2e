----------------------------- MODULE IdeContext -----------------------------
(***************************************************************************)
(* The process-wide IdeContext global: an RwLock<Option<TaskSyncData>>.    *)
(* Every write replaces the whole value under the write lock, so a reader  *)
(* (get_sync_data clones under the read lock) sees either the old or the   *)
(* new value; each operation is one atomic step.  A missing global         *)
(* (try_global returning None before IdeContext::init) reads as NoSync,    *)
(* which is what get_sync_data returns after init.                         *)
(***************************************************************************)
EXTENDS TaskSyncData

VARIABLE store

StoreTypeOK == store \in SyncDataSet \cup {NoSync}

\* IdeContext::init: sync_data = RwLock::new(None).
InitStore == store = NoSync

\* IdeContext::get_sync_data: a clone of the current value.
GetSyncData == store

\* IdeContext::set_sync_data: replace the value under the write lock.
SetSyncData(data) == store' = data

\* IdeContext::clear_sync_data: reset to None under the write lock.
ClearSyncData == store' = NoSync

\* IdeContext::get_context_filter: None without synced data (the `?`);
\* otherwise the JSON object {"type": "tasks"} with account_id, product_id
\* and board_id inserted as strings (even when ""), and task_id only when
\* the data has one.
ContextFilterJson(data) ==
    IF data = NoSync THEN None
    ELSE LET keys == {"type"} \cup RequiredIdKeys
                     \cup (IF data.task_id # None THEN {"task_id"} ELSE {})
         IN [k \in keys |-> IF k = "type" THEN "tasks" ELSE data[k]]

GetContextFilter == ContextFilterJson(GetSyncData)

=============================================================================
