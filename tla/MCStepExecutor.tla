--------------------------- MODULE MCStepExecutor ---------------------------
(***************************************************************************)
(* Instances of StepExecutor for TLC: a list that can end early, a list    *)
(* that cannot, and one step of the third policy.                          *)
(***************************************************************************)
EXTENDS StepExecutor

ThreeLists == {<<"fail", "skip">>, <<"skip", "fail">>, <<"continue">>}
=============================================================================
