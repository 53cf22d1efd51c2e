---------------------------- MODULE MC_TaskSync ----------------------------
(***************************************************************************)
(* TaskSync instantiated for TLC.  Two identifiers tell two synced         *)
(* contexts apart; the queries are the browser's full task-level          *)
(* callback, a board-level callback without task_id (with an unknown key), *)
(* and a bare GET / as a local probe would send.                           *)
(***************************************************************************)
EXTENDS TaskSync, TLC

CONSTANTS v1, v2

MCIdValues == {v1, v2}

\* ?account_id=v1&product_id=v1&board_id=v1&task_id=v1
TaskCallback ==
    << <<"account_id", v1>>, <<"product_id", v1>>, <<"board_id", v1>>,
       <<"task_id", v1>> >>

\* ?account_id=v2&product_id=v2&board_id=v2&board_name=v2 (no task)
BoardCallback ==
    << <<"account_id", v2>>, <<"product_id", v2>>, <<"board_id", v2>>,
       <<Other, v2>> >>

\* GET / with no query string
Probe == << >>

MCQueries == {TaskCallback, BoardCallback, Probe}

\* Attempt ids are interchangeable.
AttemptSymmetry == Permutations(Attempts)

=============================================================================
