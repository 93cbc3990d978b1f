-------------------------- MODULE MCTestProcesses ---------------------------
(***************************************************************************)
(* Instances of TestProcesses for TLC: two files, one of them with two     *)
(* lines, so that lines of one process meet in different batches.          *)
(***************************************************************************)
EXTENDS RunCapture

CONSTANT f1   \* model value that the definition below names

TwoThenNone == [f \in Tags |-> IF f = f1 THEN 2 ELSE IF f = All THEN 1 ELSE 0]
=============================================================================
