----------------------------- MODULE LogChannel -----------------------------
(***************************************************************************)
(* What the capture of a run promises about its log, whatever threads,     *)
(* queues and batches lie in between: every source is a FIFO channel into  *)
(* the log.  Nothing is invented, lost in the middle, repeated or          *)
(* reordered within a source, and the log is closed once.                  *)
(***************************************************************************)
EXTENDS Naturals, Sequences

CONSTANT Sources

VARIABLES
  written,   \* how many lines each source has written
  log,       \* the log: <<source, number of the line within its source>>
  open       \* nothing is logged once this is FALSE

lcvars == <<written, log, open>>

\* In s the lines of each source are numbered 1, 2, 3...: they rise, and none
\* but the first comes without the one before it.
InOrder(s) ==
  /\ \A i, j \in DOMAIN s : i < j /\ s[i][1] = s[j][1] => s[i][2] < s[j][2]
  /\ \A i \in DOMAIN s :
       s[i][2] = 1 \/ \E j \in DOMAIN s : s[j] = <<s[i][1], s[i][2] - 1>>

Init ==
  /\ written = [f \in Sources |-> 0]
  /\ log = <<>>
  /\ open = TRUE

Write ==
  /\ \E f \in Sources : written' = [written EXCEPT ![f] = @ + 1]
  /\ UNCHANGED <<log, open>>

Commit ==
  /\ open
  /\ Len(log) <= Len(log')
  /\ SubSeq(log', 1, Len(log)) = log
  /\ InOrder(log')
  /\ \A i \in DOMAIN log' : log'[i][2] <= written[log'[i][1]]
  /\ UNCHANGED <<written, open>>

Close == open /\ open' = FALSE /\ UNCHANGED <<written, log>>

Spec == Init /\ [][Write \/ Commit \/ Close]_lcvars
=============================================================================
