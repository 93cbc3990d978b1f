---------------------------- MODULE MCRunService ----------------------------
(***************************************************************************)
(* Instances of RunService for TLC: the requests of each run, one resource *)
(* for all of them or for some.                                            *)
(***************************************************************************)
EXTENDS RunService, TLC

CONSTANTS r1, r2, lab   \* model values that the definitions below name

Locked    == [r \in Runs |-> lab]
OneFree   == [r \in Runs |-> IF r = r1 THEN NoResource ELSE lab]
AllTests  == [r \in Runs |-> "test"]
LastIsCli == [r \in Runs |-> IF r = r2 THEN "cli" ELSE "test"]

Symmetry == Permutations(Tasks)
=============================================================================
