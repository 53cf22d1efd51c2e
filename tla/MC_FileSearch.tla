---------------------------- MODULE MC_FileSearch ----------------------------
(***************************************************************************)
(* FileSearch instantiated for TLC: one tool call, caller filters that     *)
(* leave every id to the sync or pin the board and content_type, and a     *)
(* sync side that can write a task-level context, a board-level one, or    *)
(* clear it while the searches run.                                        *)
(***************************************************************************)
EXTENDS FileSearch, TLC

CONSTANTS v1, v2

MCIdValues == {v1, v2}

\* A caller filter giving thread_id only, and one pinning board_id and
\* content_type "work_item".
MCCallerFilters ==
    { [content_type |-> None, thread_id |-> v1, account_id |-> None,
       product_id |-> None, board_id |-> None, task_id |-> None],
      [content_type |-> "work_item", thread_id |-> None, account_id |-> None,
       product_id |-> None, board_id |-> v2, task_id |-> None] }

\* The same, plus a caller that passes board_id "" with a thread_id.
MCCallerFiltersEmptyId ==
    MCCallerFilters \cup
    { [content_type |-> None, thread_id |-> v1, account_id |-> None,
       product_id |-> None, board_id |-> Empty, task_id |-> None] }

\* Result contents as UTF-8 character widths, against the limits 2 and 3
\* that stand for 200 and 300: ASCII text longer than both; a 2-byte
\* character across byte 2 ("aéa"); two 2-byte characters, whose
\* boundary misses byte 3 ("éé").
MCContents == {<<1, 1, 1, 1>>, <<1, 2, 1>>, <<2, 2>>}

\* The synced contexts: task-level (all ids v1) and board-level (account
\* and board v2 in product v1).
MCStoreValues ==
    { [account_id |-> v1, product_id |-> v1, board_id |-> v1, task_id |-> v1],
      [account_id |-> v2, product_id |-> v1, board_id |-> v2, task_id |-> None] }

\* The same, plus the context of a callback that carried no board_id, which
\* parse_oauth_callback_url leaves "" in TaskSyncData.
MCStoreValuesEmptyId ==
    MCStoreValues \cup
    { [account_id |-> v2, product_id |-> v1, board_id |-> Empty, task_id |-> None] }

=============================================================================
