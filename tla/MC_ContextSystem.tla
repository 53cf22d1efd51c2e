-------------------------- MODULE MC_ContextSystem --------------------------
(***************************************************************************)
(* ContextSystem for TLC: the browser callbacks and probe of MC_TaskSync,  *)
(* and the caller filters of MC_FileSearch.                                *)
(***************************************************************************)
EXTENDS ContextSystem, TLC

CONSTANTS v1, v2

MCIdValues == {v1, v2}

\* ?account_id=v1&product_id=v1&board_id=v1&task_id=v1
TaskCallback ==
    << <<"account_id", v1>>, <<"product_id", v1>>, <<"board_id", v1>>,
       <<"task_id", v1>> >>

\* ?account_id=v2&product_id=v2 (no board chosen)
ProductCallback == << <<"account_id", v2>>, <<"product_id", v2>> >>

MCQueries == {TaskCallback, ProductCallback}

\* A caller filter giving thread_id only.
MCCallerFilters ==
    { [content_type |-> None, thread_id |-> v1, account_id |-> None,
       product_id |-> None, board_id |-> None, task_id |-> None] }

=============================================================================
