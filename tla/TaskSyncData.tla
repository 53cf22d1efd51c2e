---------------------------- MODULE TaskSyncData ----------------------------
(***************************************************************************)
(* The data of the task-context sync: the TaskSyncData record that the     *)
(* callback listener builds from the query string of the browser's         *)
(* request (src/crates/agent_ui/src/agent_configuration.rs).               *)
(*                                                                         *)
(* Only the four identifier fields are kept: they are the ones the search  *)
(* tool reads.  The display fields (account_name, product_name, big_bet,   *)
(* work_item and their descriptions) and synced_at are only rendered and   *)
(* are abstracted away.  A string is a model value of IdValues, or Empty   *)
(* for SharedString::default(); an absent Option is None.                  *)
(***************************************************************************)
EXTENDS Sequences, SequencesExt

CONSTANTS
    IdValues,   \* identifiers the web app can send back (model values)
    Empty,      \* the empty string "" (SharedString::default())
    None,       \* Option::None
    NoSync      \* IdeContext holding no TaskSyncData

ASSUME Empty \notin IdValues /\ None \notin IdValues /\ NoSync \notin IdValues

\* Strings a callback query value can decode to: an identifier or "".
Str == IdValues \cup {Empty}

\* The identifier fields of TaskSyncData.  account_id, product_id and
\* board_id are SharedString; task_id is Option<SharedString>.
RequiredIdKeys == {"account_id", "product_id", "board_id"}
IdKeys == RequiredIdKeys \cup {"task_id"}

\* Every TaskSyncData value the listener can build.
SyncDataSet ==
    [account_id : Str, product_id : Str, board_id : Str,
     task_id : Str \cup {None}]

\* A query key the listener does not recognise ("board_name",
\* "task_description", ... are display fields and are ignored by the model
\* just as unknown keys are ignored by the code).
Other == "other"
QueryKeys == IdKeys \cup {Other}

\* The record initialised before the query pairs are read: required fields
\* default to "", task_id to None, whatever the query holds.
DefaultSyncData ==
    [account_id |-> Empty, product_id |-> Empty, board_id |-> Empty,
     task_id |-> None]

\* One iteration of the `for (key, value) in url.query_pairs()` match: a
\* recognised key overwrites its field (so a repeated key keeps its last
\* value), any other key is skipped.
ApplyQueryPair(data, pair) ==
    IF pair[1] \in IdKeys THEN [data EXCEPT ![pair[1]] = pair[2]] ELSE data

\* The TaskSyncData built from a decoded query string, a sequence of
\* <<key, value>> pairs in the order they appear in the URL.
ParseQuery(query) == FoldLeft(ApplyQueryPair, DefaultSyncData, query)

=============================================================================
