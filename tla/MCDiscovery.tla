---------------------------- MODULE MCDiscovery -----------------------------
(***************************************************************************)
(* Instances of Discovery for TLC.  The scanners are checked on every file *)
(* of at most MaxLines lines, the rest with a file of one test.            *)
(***************************************************************************)
EXTENDS Discovery

OneTest == {<<[kind |-> "test", depth |-> 0]>>}

\* The second breaks off while it is extracted.
TwoZips ==
  {[tests |-> <<<<1, 2>>>>, sound |-> TRUE],
   [tests |-> <<<<0, 1>>>>, sound |-> FALSE]}
=============================================================================
