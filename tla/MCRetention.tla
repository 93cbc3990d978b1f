---------------------------- MODULE MCRetention -----------------------------
(***************************************************************************)
(* Instances of Retention for TLC: the runs of one client.                 *)
(***************************************************************************)
EXTENDS Retention

CONSTANT alice

OneClient == [r \in Runs |-> alice]
=============================================================================
