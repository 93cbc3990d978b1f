------------------------ MODULE TestProcessesProofs -------------------------
(***************************************************************************)
(* Proofs about TestProcesses, for any files and any number of lines: the  *)
(* outcome of a run is what its processes did, its final reports agree,    *)
(* the readers, the queue and the batches are a FIFO channel into the log  *)
(* (the refinement of LogChannel), no line is lost, and the whole capture  *)
(* is one task of RunService with its cancel request (RunCapture).         *)
(*                                                                         *)
(* Outcome: a return code, once polled, is how the process ended (Codes),  *)
(* and whoever leaves the loop has polled every process that ended by      *)
(* itself (Ending).  Channel: the log, the batch on its way to it and the  *)
(* queue are one sequence (Pipe), which a commit does not change.  Lines:  *)
(* a joined reader has read everything (Drained), and the lines of a       *)
(* process are numbered 1 to read[f] in the log without a gap.  Task: what *)
(* RunService has of the run is a tuple (mapped); one lemma per step of    *)
(* RunService says which change of the tuple is that step, and the steps   *)
(* of the capture make these changes because what lives is registered and  *)
(* only what the timeout killed is not polled (Attached).                  *)
(***************************************************************************)
EXTENDS RunCapture, FiniteSetTheorems, SequenceTheorems, TLAPS

Left == {"leave", "flush", "settle", "refresh", "save", "finalize", "done"}

\* Only processes of the run live, and none after the loop.
Lives ==
  /\ \A f \in Tags : Live(f) => f \in procs /\ pc \notin {"start", "launch"}
  /\ pc \in Left \/ verdict # "none" => \A f \in Tags : ~Live(f)
  /\ pc \in {"start", "launch"} => active = {}

\* What was polled, and what was written, is final.
Codes ==
  \A f \in Tags :
    /\ code[f] # "none" => /\ code[f] = exit[f]
                           /\ pc \notin {"start", "launch"}
    /\ junit[f] # "none" => /\ f \in procs /\ ~Live(f)
                            /\ pc \notin {"start", "launch"}

Ending ==
  /\ pc \in {"leave", "flush", "settle"} =>
       \A f \in procs : exit[f] = "ok" => code[f] = "ok"
  /\ inCancelled => cpc \in {"save", "answered"}
  /\ verdict # "none" =>
       pc \in {"refresh", "save", "finalize", "done", "raised"}
  /\ pc \in {"refresh", "save", "finalize"} => verdict # "none"
  /\ pc = "finalize" => verdict # "cancelled"

IInv == TypeOK /\ Lives /\ Codes /\ Ending /\ OutcomeIsTrue /\ ReportsAgree

Rest == Lives /\ Codes /\ Ending /\ OutcomeIsTrue /\ ReportsAgree

USE DEF os, pipes, loop, outcome, registry, Goes

-----------------------------------------------------------------------------
LEMMA InitInv == Init => IInv
<1> SUFFICES ASSUME Init PROVE IInv
  OBVIOUS
<1>1. procs \subseteq Tags
  BY DEF Init, Tags
<1>2. /\ lineQueue \in Seq(Tags \X Nat) /\ batch \in Seq(Tags \X Nat)
      /\ log \in Seq(Tags \X Nat)
  BY DEF Init
<1>3. /\ status \in {"running"} \cup Terminal
      /\ seen \in {"running"} \cup Terminal
      /\ cpc \in {"idle", "kill", "save", "answered", "refused"}
      /\ inCancelled \in BOOLEAN
  BY DEF Init, Terminal
<1>4. TypeOK
  BY <1>1, <1>2, <1>3 DEF Init, TypeOK
<1>5. Rest
  BY <1>1 DEF Init, Rest, Lives, Live, Codes, Ending, OutcomeIsTrue,
              ReportsAgree
<1> QED BY <1>4, <1>5 DEF IInv, Rest

\* What a kill changes.
LEMMA KillFacts ==
  ASSUME TypeOK, NEW fs \in SUBSET Tags, Kill(fs)
  PROVE  /\ Polled(fs)
         /\ exit' \in [Tags -> {"none", "live", "ok", "failed", "signal"}]
         /\ junit' \in [Tags -> {"none", "partial", "full"}]
         /\ \A f \in Tags :
              /\ f \in fs /\ Live(f) => exit'[f] = "signal"
              /\ f \notin fs \/ ~Live(f) => UNCHANGED <<exit[f], junit[f]>>
         /\ written' = written
BY DEF Kill, TypeOK, Live

\* What the outcome depends on.
LEMMA RestStays ==
  ASSUME Rest, UNCHANGED <<pc, procs, exit, code, junit, active, inCancelled,
                           verdict, cpc, merged, index>>
  PROVE  Rest'
BY DEF Rest, Lives, Live, Codes, Ending, OutcomeIsTrue, ReportsAgree

-----------------------------------------------------------------------------
\* The processes and the readers.
LEMMA ProcessInv ==
  ASSUME IInv, NEW f \in Tags, WriteLine(f) \/ ReadLine(f) \/ Ends(f)
  PROVE  IInv'
<1> USE DEF IInv
<1>1. CASE WriteLine(f)
  <2>1. Rest'
    BY <1>1, RestStays DEF WriteLine, Rest
  <2>2. written' \in [Tags -> Nat]
    BY <1>1 DEF WriteLine, TypeOK
  <2> QED BY <1>1, <2>1, <2>2 DEF WriteLine, TypeOK, Rest
<1>2. CASE ReadLine(f)
  <2>1. lineQueue' \in Seq(Tags \X Nat) /\ read' \in [Tags -> Nat]
    BY <1>2 DEF ReadLine, TypeOK
  <2>2. Rest'
    BY <1>2, RestStays DEF ReadLine, Rest
  <2> QED BY <1>2, <2>1, <2>2 DEF ReadLine, TypeOK, Rest
<1>3. CASE Ends(f)
  <2>1. PICK e \in {"ok", "failed"}, j \in {"none", "full"} :
          /\ exit' = [exit EXCEPT ![f] = e] /\ junit' = [junit EXCEPT ![f] = j]
    <3>1. PICK e \in {<<"ok", "full">>, <<"failed", "full">>,
                       <<"failed", "none">>} :
            /\ exit' = [exit EXCEPT ![f] = e[1]]
            /\ junit' = [junit EXCEPT ![f] = e[2]]
      BY <1>3 DEF Ends
    <3>2. e[1] \in {"ok", "failed"} /\ e[2] \in {"none", "full"}
      OBVIOUS
    <3> QED BY <3>1, <3>2
  <2>2. Live(f) /\ f \in procs /\ pc \notin Left /\ verdict = "none"
    BY <1>3 DEF Ends, Lives, TypeOK
  <2>3. UNCHANGED <<pc, procs, code, written, pipes, loop, registry, outcome>>
    BY <1>3 DEF Ends
  <2>4. TypeOK'
    BY <2>1, <2>3 DEF TypeOK
  <2>5. /\ \A g \in Tags : g # f => UNCHANGED <<exit[g], junit[g]>>
        /\ exit'[f] # "live" /\ exit'[f] # "none" /\ code[f] = "none"
    BY <2>1, <2>2 DEF TypeOK, Codes, Live
  <2>6. Lives' /\ Codes'
    BY <2>2, <2>3, <2>5 DEF Lives, Codes, Live, Left
  <2>7. Ending' /\ OutcomeIsTrue' /\ ReportsAgree'
    BY <2>2, <2>3 DEF Ending, OutcomeIsTrue, ReportsAgree, Left
  <2> QED BY <2>4, <2>6, <2>7
<1> QED BY <1>1, <1>2, <1>3

LEMMA StartInv ==
  ASSUME IInv, StartRun \/ Launch \/ LaunchFails \/ DatabaseFails
  PROVE  IInv'
<1> USE DEF IInv
<1>1. CASE StartRun
  BY <1>1 DEF StartRun, TypeOK, Lives, Live, Codes, Ending, OutcomeIsTrue,
              ReportsAgree, Left
<1>2. CASE Launch
  BY <1>2 DEF Launch, Started, TypeOK, Lives, Live, Codes, Ending,
              OutcomeIsTrue, ReportsAgree, Left
<1>3. CASE LaunchFails
  <2>1. PICK fs \in SUBSET procs : Started(fs)
    BY <1>3 DEF LaunchFails
  <2> QED BY <1>3, <2>1 DEF LaunchFails, Started, TypeOK, Lives, Live, Codes,
             Ending, OutcomeIsTrue, ReportsAgree, Left
<1>4. CASE DatabaseFails
  BY <1>4 DEF DatabaseFails, TypeOK, Lives, Live, Codes, Ending,
              OutcomeIsTrue, ReportsAgree, Left
<1> QED BY <1>1, <1>2, <1>3, <1>4

\* The batches.
LEMMA BatchInv ==
  ASSUME IInv, Drain \/ CommitBatch \/ LeaveLoop
  PROVE  IInv'
<1> USE DEF IInv
<1>1. CASE Drain
  <2>1. batch' \in Seq(Tags \X Nat) /\ lineQueue' \in Seq(Tags \X Nat)
    BY <1>1 DEF Drain, TakeBatch, TypeOK
  <2> QED BY <1>1, <2>1 DEF Drain, TakeBatch, TypeOK, Lives, Live, Codes,
             Ending, OutcomeIsTrue, ReportsAgree, Left
<1>2. CASE CommitBatch
  <2>1. log' \in Seq(Tags \X Nat)
    BY <1>2 DEF CommitBatch, TypeOK
  <2> QED BY <1>2, <2>1 DEF CommitBatch, TypeOK, Lives, Live, Codes, Ending,
             OutcomeIsTrue, ReportsAgree, Left
<1>3. CASE LeaveLoop
  <2>1. batch' \in Seq(Tags \X Nat) /\ lineQueue' \in Seq(Tags \X Nat)
    BY <1>3 DEF LeaveLoop, TakeBatch, TypeOK
  <2>2. slow' \subseteq Tags
    BY <1>3 DEF LeaveLoop, Join, TypeOK
  <2> QED BY <1>3, <2>1, <2>2 DEF LeaveLoop, TakeBatch, TypeOK, Lives, Live,
             Codes, Ending, OutcomeIsTrue, ReportsAgree, Left
<1> QED BY <1>1, <1>2, <1>3

-----------------------------------------------------------------------------
\* Polls and kills that leave the place of the capture alone or go on to the
\* check: a poll outside the loop finds what a kill or an end has left.
LEMMA CodeType ==
  ASSUME IInv, NEW fs \in SUBSET procs, Polled(fs),
         pc \notin {"start", "launch"} \/ fs = {}
  PROVE  /\ code' \in [Tags -> {"none", "ok", "failed", "signal"}]
         /\ \A f \in Tags : code'[f] # "none" => code'[f] = exit[f]
         /\ \A f \in fs : ~Live(f) => code'[f] = exit[f]
         /\ \A f \in Tags : code[f] # "none" => code'[f] = code[f]
         /\ \A f \in Tags \ fs : code'[f] = code[f]
BY DEF IInv, TypeOK, Polled, Live, Codes

LEMMA PollInv ==
  ASSUME IInv, PollProcesses \/ CheckDone \/ TimeUp
  PROVE  IInv'
<1> USE DEF IInv
<1>1. CASE PollProcesses
  <2>1. code' \in [Tags -> {"none", "ok", "failed", "signal"}]
    BY <1>1, CodeType DEF PollProcesses
  <2>2. \A f \in Tags : code'[f] # "none" => code'[f] = exit[f]
    BY <1>1, CodeType DEF PollProcesses
  <2> QED BY <1>1, <2>1, <2>2 DEF PollProcesses, TypeOK, Lives, Live, Codes,
             Ending, OutcomeIsTrue, ReportsAgree, Left
<1>2. FileReports /\ Join(joining) =>
        /\ index' \subseteq Tags /\ joining' = {} /\ slow' \subseteq Tags
        /\ UNCHANGED <<completed, merged>>
  BY DEF FileReports, Join, TypeOK
<1>3. CASE CheckDone
  <2>1. /\ code' \in [Tags -> {"none", "ok", "failed", "signal"}]
        /\ \A f \in Tags : code'[f] # "none" => code'[f] = exit[f]
        /\ \A f \in procs : ~Live(f) => code'[f] = exit[f]
    BY <1>3, CodeType DEF CheckDone
  <2>2. /\ pc = "check" /\ pc' \in {"leave", "drain"}
        /\ pc' = "leave" => \A f \in Tags : ~Live(f)
    BY <1>3 DEF CheckDone, AllDone, Lives
  <2>3. TypeOK'
    BY <1>2, <1>3, <2>1, <2>2 DEF CheckDone, TypeOK
  <2> QED BY <1>3, <2>1, <2>2, <2>3 DEF CheckDone, TypeOK, Lives, Live, Codes,
             Ending, OutcomeIsTrue, ReportsAgree, Left
<1>4. CASE TimeUp
  <2>1. /\ pc = "check" /\ pc' = "leave" /\ Kill(procs)
        /\ timedOut' \subseteq procs
        /\ UNCHANGED <<procs, read, lineQueue, batch, log, registry, verdict,
                       status, cpc>>
    BY <1>4 DEF TimeUp
  <2>2. procs \in SUBSET Tags
    BY DEF TypeOK
  <2>3. /\ Polled(procs)
        /\ exit' \in [Tags -> {"none", "live", "ok", "failed", "signal"}]
        /\ junit' \in [Tags -> {"none", "partial", "full"}]
        /\ \A f \in Tags :
             /\ f \in procs /\ Live(f) => exit'[f] = "signal"
             /\ f \notin procs \/ ~Live(f) => UNCHANGED <<exit[f], junit[f]>>
        /\ written' = written
    BY <2>1, <2>2, KillFacts
  <2>4. /\ code' \in [Tags -> {"none", "ok", "failed", "signal"}]
        /\ \A f \in Tags : code'[f] # "none" => code'[f] = exit[f]
        /\ \A f \in procs : ~Live(f) => code'[f] = exit[f]
        /\ \A f \in Tags : code[f] # "none" => code'[f] = code[f]
    BY <2>1, <2>3, CodeType
  <2>5. \A f \in Tags : Live(f) => code'[f] = "none" /\ exit'[f] = "signal"
    BY <2>3, <2>4 DEF Lives, Live, TypeOK
  <2>6. TypeOK'
    BY <1>2, <1>4, <2>1, <2>3, <2>4 DEF TimeUp, TypeOK
  <2>7. \A f \in Tags : exit'[f] # "live"
    BY <2>3 DEF Lives, Live, TypeOK
  <2>8. Lives'
    BY <2>1, <2>7 DEF Lives, Live
  <2>9. Codes'
    BY <2>1, <2>3, <2>4, <2>5, <2>7 DEF Codes, Lives, Live, TypeOK
  <2>10. Ending'
    BY <2>1, <2>3, <2>4, <2>5 DEF Ending, Live, TypeOK
  <2>11. OutcomeIsTrue' /\ ReportsAgree'
    BY <2>1 DEF OutcomeIsTrue, Ending, ReportsAgree
  <2> QED BY <2>6, <2>8, <2>9, <2>10, <2>11
<1> QED BY <1>1, <1>3, <1>4

\* The outcome.
LEMMA EndInv ==
  ASSUME IInv, Settle \/ Refresh \/ SaveStatus \/ Finalize
  PROVE  IInv'
<1> USE DEF IInv
<1>1. CASE Settle
  <2>1. TypeOK'
    BY <1>1 DEF Settle, TypeOK, Terminal
  <2>2. /\ verdict' = "completed" => \A f \in procs : exit[f] = "ok"
        /\ verdict' = "failed" => \E f \in procs : exit[f] # "ok"
        /\ verdict' = "cancelled" => \/ \E f \in procs : exit[f] = "signal"
                                     \/ cpc \in {"save", "answered"}
    BY <1>1 DEF Settle, Cancelled, AnyFailed, Codes, Ending, TypeOK
  <2> QED BY <1>1, <2>1, <2>2 DEF Settle, TypeOK, Lives, Live, Codes,
             Ending, OutcomeIsTrue, ReportsAgree, Left
<1>2. CASE SaveStatus
  <2>1. /\ pc = "save"
        /\ pc' = IF verdict = "cancelled" THEN "done" ELSE "finalize"
        /\ UNCHANGED <<procs, code, os, pipes, loop, registry, verdict, cpc>>
    BY <1>2 DEF SaveStatus
  <2>3. TypeOK'
    BY <1>2, <2>1 DEF SaveStatus, TypeOK, Ending, Terminal
  <2>4. Lives' /\ Codes'
    BY <2>1 DEF Lives, Live, Codes, Left
  <2>5. Ending' /\ OutcomeIsTrue' /\ ReportsAgree'
    BY <2>1 DEF Ending, OutcomeIsTrue, Live, ReportsAgree
  <2> QED BY <2>3, <2>4, <2>5
<1>3. CASE Refresh
  BY <1>3 DEF Refresh, TypeOK, Lives, Live, Codes, Ending, OutcomeIsTrue,
              ReportsAgree, Left
<1>4. CASE Finalize
  BY <1>4 DEF Finalize, TypeOK, Lives, Live, Codes, Ending, OutcomeIsTrue,
              ReportsAgree, Left
<1> QED BY <1>1, <1>2, <1>3, <1>4

\* Requests.
LEMMA RequestInv ==
  ASSUME IInv, \/ CancelLoad \/ CancelKill \/ CancelSave \/ ActiveFiles
               \/ \E f \in Tags : CancelFile(f)
  PROVE  IInv'
<1> USE DEF IInv
<1>1. CASE CancelLoad \/ CancelSave
  BY <1>1 DEF CancelLoad, CancelSave, CancelGoes, TypeOK, Terminal, Lives,
              Live, Codes, Ending, OutcomeIsTrue, ReportsAgree, Left
<1>2. CASE ActiveFiles
  <2>1. /\ code' \in [Tags -> {"none", "ok", "failed", "signal"}]
        /\ \A f \in Tags : code'[f] # "none" => code'[f] = exit[f]
        /\ \A f \in Tags : code[f] # "none" => code'[f] = code[f]
        /\ pc \in {"start", "launch"} => code' = code
    BY <1>2, CodeType DEF ActiveFiles, TypeOK, Lives, Polled
  <2>2. UNCHANGED <<pc, procs, os, pipes, loop, registry, outcome>>
    BY <1>2 DEF ActiveFiles
  <2>3. TypeOK'
    BY <2>1, <2>2 DEF TypeOK
  <2>4. Lives' /\ OutcomeIsTrue' /\ ReportsAgree'
    BY <2>2 DEF Lives, Live, OutcomeIsTrue, ReportsAgree
  <2>5. Codes' /\ Ending'
    BY <2>1, <2>2 DEF Codes, Live, Ending, TypeOK
  <2> QED BY <2>3, <2>4, <2>5
<1>3. ASSUME NEW fs \in SUBSET active, Kill(fs),
             active' \subseteq active,
             inCancelled' => cpc' \in {"save", "answered"},
             cpc \in {"save", "answered"} => cpc' \in {"save", "answered"},
             cpc' \in {"idle", "kill", "save", "answered", "refused"},
             registered' \in BOOLEAN, inCancelled' \in BOOLEAN,
             UNCHANGED <<pc, procs, pipes, loop, verdict, status, seen,
                         timedOut>>
      PROVE  IInv'
  <2>1. fs \in SUBSET Tags /\ fs \in SUBSET procs
    BY <1>3 DEF TypeOK
  <2>2. /\ Polled(fs)
        /\ exit' \in [Tags -> {"none", "live", "ok", "failed", "signal"}]
        /\ junit' \in [Tags -> {"none", "partial", "full"}]
        /\ \A f \in Tags :
             /\ f \in fs /\ Live(f) => exit'[f] = "signal"
             /\ f \notin fs \/ ~Live(f) => UNCHANGED <<exit[f], junit[f]>>
        /\ written' = written
    BY <1>3, <2>1, KillFacts
  <2>3. pc \notin {"start", "launch"} \/ fs = {}
    BY <1>3 DEF Lives
  <2>4. /\ code' \in [Tags -> {"none", "ok", "failed", "signal"}]
        /\ \A f \in Tags : code'[f] # "none" => code'[f] = exit[f]
        /\ \A f \in Tags : code[f] # "none" => code'[f] = code[f]
        /\ \A f \in Tags \ fs : code'[f] = code[f]
    BY <2>1, <2>2, <2>3, CodeType
  <2>5. \A f \in Tags : Live(f) => code'[f] = code[f]
    BY <2>2 DEF Polled
  <2>6. \A f \in Tags :
          \/ UNCHANGED <<exit[f], junit[f]>> /\ (code'[f] = "none"
                                                  \/ code'[f] = exit[f])
          \/ /\ Live(f) /\ f \in procs /\ exit'[f] = "signal"
             /\ code'[f] = code[f] /\ code[f] = "none"
             /\ pc \notin Left /\ verdict = "none"
             /\ pc \notin {"start", "launch"}
    BY <2>1, <2>2, <2>4, <2>5, <1>3 DEF Lives, Live, Codes, TypeOK
  <2>7. TypeOK'
    BY <1>3, <2>2, <2>4 DEF TypeOK
  <2>8. Lives'
    BY <1>3, <2>6, <2>7 DEF Lives, Live, TypeOK, Left
  <2>9. Codes'
    BY <1>3, <2>1, <2>3, <2>4, <2>6, <2>7 DEF Codes, Live, TypeOK, Left
  <2>10. Ending'
    BY <1>3, <2>4, <2>6, <2>7 DEF Ending, TypeOK, Left
  <2>11. OutcomeIsTrue'
    BY <1>3, <2>6, <2>7 DEF OutcomeIsTrue, Lives, Live, TypeOK
  <2>12. ReportsAgree'
    BY <1>3, <2>6, <2>7 DEF ReportsAgree, TypeOK, Left
  <2> QED BY <2>7, <2>8, <2>9, <2>10, <2>11, <2>12
<1>4. CASE CancelKill
  BY <1>3, <1>4 DEF CancelKill, CancelGoes
<1>5. ASSUME NEW f \in Tags, CancelFile(f) PROVE IInv'
  BY <1>3, <1>5 DEF CancelFile, Ending, TypeOK
<1> QED BY <1>1, <1>2, <1>4, <1>5

LEMMA Step == IInv /\ [Next]_vars => IInv'
<1> SUFFICES ASSUME IInv, [Next]_vars PROVE IInv'
  OBVIOUS
<1>1. CASE StartRun \/ Launch \/ LaunchFails \/ DatabaseFails
  BY <1>1, StartInv
<1>2. CASE Drain \/ CommitBatch \/ LeaveLoop
  BY <1>2, BatchInv
<1>3. CASE PollProcesses \/ CheckDone \/ TimeUp
  BY <1>3, PollInv
<1>4. CASE Settle \/ Refresh \/ SaveStatus \/ Finalize
  BY <1>4, EndInv
<1>5. CASE \/ CancelLoad \/ CancelKill \/ CancelSave \/ ActiveFiles
           \/ \E f \in Tags : CancelFile(f)
  BY <1>5, RequestInv
<1>6. CASE \E f \in Tags : WriteLine(f) \/ ReadLine(f) \/ Ends(f)
  BY <1>6, ProcessInv
<1>7. CASE UNCHANGED vars
  <2>1. Rest'
    BY <1>7, RestStays DEF vars, IInv, Rest
  <2> QED BY <1>7, <2>1 DEF vars, IInv, Rest, TypeOK
<1> QED BY <1>1, <1>2, <1>3, <1>4, <1>5, <1>6, <1>7 DEF Next, Capture

THEOREM Invariance == Spec => []IInv
  BY InitInv, Step, PTL DEF Spec

\* TestProcesses!TypeOK: no process is listed that the run does not have, no
\* file is complete that was not started, the log holds lines of processes.
THEOREM TypeCorrect == Spec => []TypeOK
  BY Invariance, PTL DEF IInv

\* TestProcesses!OutcomeIsTrue: when the status of a run is decided all its
\* processes are over, and it tells what they did.
THEOREM OutcomeTold == Spec => []OutcomeIsTrue
  BY Invariance, PTL DEF IInv

\* TestProcesses!ReportsAgree: merged report and index of a run that was not
\* cancelled hold the files whose process left a whole report, no other.
THEOREM ReportsMerged == Spec => []ReportsAgree
  BY Invariance, PTL DEF IInv

-----------------------------------------------------------------------------
(* The channel *)

\* s holds the lines that were read, those of one process in their order.
Fifo(s, rd) ==
  /\ Channel!InOrder(s)
  /\ \A i \in DOMAIN s : 1 <= s[i][2] /\ s[i][2] <= rd[s[i][1]]
  /\ \A f \in Tags : \A n \in 1..rd[f] : \E i \in DOMAIN s : s[i] = <<f, n>>

\* The batch is on its way between TakeBatch and CommitBatch.
Taken == IF pc \in {"commit", "flush"} THEN batch ELSE <<>>
Pipe == (log \o Taken) \o lineQueue

\* A capture that raised logs no more, so its pipe does not matter.
Flow ==
  /\ \A f \in Tags : read[f] <= written[f]
  /\ pc # "raised" => Fifo(Pipe, read)

\* A reader adds the next line of its process.
LEMMA FifoAppend ==
  ASSUME NEW s \in Seq(Tags \X Nat), NEW rd \in [Tags -> Nat],
         NEW f \in Tags, Fifo(s, rd)
  PROVE  Fifo(Append(s, <<f, rd[f] + 1>>), [rd EXCEPT ![f] = @ + 1])
<1> DEFINE t == Append(s, <<f, rd[f] + 1>>)
           q == [rd EXCEPT ![f] = @ + 1]
<1>1. /\ DOMAIN s = 1..Len(s) /\ DOMAIN t = 1..(Len(s) + 1) /\ Len(s) \in Nat
      /\ \A i \in DOMAIN s : i \in DOMAIN t /\ t[i] = s[i]
                             /\ s[i] \in Tags \X Nat /\ i < Len(s) + 1
      /\ \A i \in DOMAIN t : i \in DOMAIN s \/ i = Len(s) + 1
      /\ Len(s) + 1 \in DOMAIN t /\ t[Len(s) + 1] = <<f, rd[f] + 1>>
  OBVIOUS
<1>2. /\ \A g \in Tags : q[g] = IF g = f THEN rd[f] + 1 ELSE rd[g]
      /\ \A g \in Tags : q[g] \in Nat /\ rd[g] \in Nat
  OBVIOUS
<1> HIDE DEF t, q
<1>3. \A i, j \in DOMAIN t : i < j /\ t[i][1] = t[j][1] => t[i][2] < t[j][2]
  <2> SUFFICES ASSUME NEW i \in DOMAIN t, NEW j \in DOMAIN t,
                      i < j, t[i][1] = t[j][1]
               PROVE  t[i][2] < t[j][2]
    OBVIOUS
  <2>1. i \in DOMAIN s
    BY <1>1
  <2>2. CASE j \in DOMAIN s
    BY <1>1, <2>1, <2>2 DEF Fifo, Channel!InOrder
  <2>3. CASE j = Len(s) + 1
    BY <1>1, <1>2, <2>1, <2>3 DEF Fifo
  <2> QED BY <1>1, <2>2, <2>3
<1>4. \A i \in DOMAIN t :
        t[i][2] = 1 \/ \E j \in DOMAIN t : t[j] = <<t[i][1], t[i][2] - 1>>
  <2> SUFFICES ASSUME NEW i \in DOMAIN t
               PROVE  \/ t[i][2] = 1
                      \/ \E j \in DOMAIN t : t[j] = <<t[i][1], t[i][2] - 1>>
    OBVIOUS
  <2>1. CASE i \in DOMAIN s
    BY <1>1, <2>1 DEF Fifo, Channel!InOrder
  <2>2. CASE i = Len(s) + 1 /\ rd[f] # 0
    <3>1. rd[f] \in 1..rd[f]
      BY <1>2, <2>2
    <3>2. PICK j \in DOMAIN s : s[j] = <<f, rd[f]>>
      BY <3>1 DEF Fifo
    <3>3. t[i][1] = f /\ t[i][2] = rd[f] + 1 /\ t[i][2] - 1 = rd[f]
      <4>1. t[i] = <<f, rd[f] + 1>>
        BY <1>1, <2>2
      <4>2. PICK m \in Nat : m = rd[f]
        BY <1>2
      <4> QED BY <4>1, <4>2
    <3>4. j \in DOMAIN t /\ t[j] = <<t[i][1], t[i][2] - 1>>
      BY <1>1, <3>2, <3>3
    <3> QED BY <3>4
  <2> QED BY <1>1, <1>2, <2>1, <2>2
<1>5. \A i \in DOMAIN t : 1 <= t[i][2] /\ t[i][2] <= q[t[i][1]]
  <2>1. \A i \in DOMAIN s : 1 <= s[i][2] /\ s[i][2] <= rd[s[i][1]]
    BY DEF Fifo
  <2>2. \A i \in DOMAIN s : s[i][1] \in Tags /\ s[i][2] \in Nat
    BY <1>1
  <2>3. ASSUME NEW i \in DOMAIN s
        PROVE  1 <= t[i][2] /\ t[i][2] <= q[t[i][1]]
    <3>1. t[i] = s[i]
      BY <1>1
    <3>2. PICK g \in Tags, n \in Nat : g = s[i][1] /\ n = s[i][2]
      BY <2>2
    <3>3. 1 <= n /\ n <= rd[g]
      BY <2>1, <3>2
    <3>4. n <= q[g]
      <4>1. q[g] \in Nat /\ rd[g] \in Nat /\ rd[g] <= q[g]
        BY <1>2
      <4> QED BY <3>3, <4>1
    <3> QED BY <3>1, <3>2, <3>3, <3>4
  <2>4. LET e == t[Len(s) + 1] IN 1 <= e[2] /\ e[2] <= q[e[1]]
    BY <1>1, <1>2
  <2> QED BY <1>1, <2>3, <2>4
<1>6. ASSUME NEW g \in Tags, NEW n \in 1..q[g]
      PROVE  \E i \in DOMAIN t : t[i] = <<g, n>>
  <2>1. CASE g = f /\ n = rd[f] + 1
    BY <1>1, <2>1
  <2>2. CASE ~(g = f /\ n = rd[f] + 1)
    <3>1. n \in 1..rd[g]
      BY <1>2, <2>2
    <3>2. PICK i \in DOMAIN s : s[i] = <<g, n>>
      BY <3>1 DEF Fifo
    <3> QED BY <1>1, <3>2
  <2> QED BY <2>1, <2>2
<1> QED BY <1>3, <1>4, <1>5, <1>6 DEF Fifo, Channel!InOrder, t, q

\* What is ahead in an orderly sequence is orderly.
LEMMA FifoPrefix ==
  ASSUME NEW s \in Seq(Tags \X Nat), NEW t \in Seq(Tags \X Nat),
         Channel!InOrder(s \o t)
  PROVE  Channel!InOrder(s)
<1> DEFINE u == s \o t
<1>1. /\ DOMAIN s = 1..Len(s) /\ DOMAIN u = 1..(Len(s) + Len(t))
      /\ Len(s) \in Nat /\ Len(t) \in Nat
      /\ \A i \in DOMAIN s : i \in DOMAIN u /\ u[i] = s[i]
                             /\ s[i] \in Tags \X Nat
      /\ \A i \in DOMAIN u : u[i] \in Tags \X Nat
  BY ConcatProperties
<1> HIDE DEF u
<1>2. Channel!InOrder(u)
  BY DEF u
<1>3. \A i, j \in DOMAIN s : i < j /\ s[i][1] = s[j][1] => s[i][2] < s[j][2]
  BY <1>1, <1>2 DEF Channel!InOrder
<1>4. ASSUME NEW i \in DOMAIN s, s[i][2] # 1
      PROVE  \E j \in DOMAIN s : s[j] = <<s[i][1], s[i][2] - 1>>
  <2>1. PICK j \in DOMAIN u : u[j] = <<u[i][1], u[i][2] - 1>>
    BY <1>1, <1>2, <1>4 DEF Channel!InOrder
  <2>2. /\ u[j][1] = u[i][1] /\ i \in DOMAIN u
        /\ u[j][2] < u[i][2] /\ ~(u[i][2] < u[j][2])
    <3>1. u[i] \in Tags \X Nat /\ i \in DOMAIN u
      BY <1>1
    <3>2. u[j][1] = u[i][1] /\ u[j][2] = u[i][2] - 1 /\ u[i][2] \in Nat
      BY <2>1, <3>1
    <3> QED BY <3>1, <3>2
  <2>3. ~(i < j)
    BY <1>2, <2>2 DEF Channel!InOrder
  <2>4. j \in DOMAIN s
    BY <1>1, <2>3
  <2>5. u[j] = s[j] /\ u[i] = s[i]
    BY <1>1, <2>4
  <2> QED BY <2>1, <2>4, <2>5
<1> QED BY <1>3, <1>4 DEF Channel!InOrder

LEMMA FlowInit == Init => Flow
BY DEF Init, Flow, Fifo, Pipe, Taken, Channel!InOrder, Tags

\* A step that leaves the lines where they are.
LEMMA FlowStays ==
  ASSUME Flow, UNCHANGED <<read, log, lineQueue>>,
         pc' = "raised" \/ (pc # "raised" /\ Taken' = Taken)
                       \/ UNCHANGED <<pc, batch>>,
         IInv, IInv',
         \A f \in Tags : written'[f] >= written[f]
  PROVE  Flow'
<1>1. \A f \in Tags : read'[f] <= written'[f]
  BY DEF Flow, IInv, TypeOK
<1>2. pc' # "raised" => pc # "raised" /\ Taken' = Taken
  BY DEF Taken
<1>3. pc' # "raised" => Fifo(Pipe, read)'
  BY <1>2 DEF Flow, Pipe
<1> QED BY <1>1, <1>3 DEF Flow

LEMMA FlowStep == IInv /\ IInv' /\ Flow /\ [Next]_vars => Flow'
<1> SUFFICES ASSUME IInv, IInv', Flow, [Next]_vars PROVE Flow'
  OBVIOUS
<1> USE DEF Capture
<1>0. /\ log \in Seq(Tags \X Nat) /\ batch \in Seq(Tags \X Nat)
      /\ lineQueue \in Seq(Tags \X Nat) /\ Taken \in Seq(Tags \X Nat)
      /\ read \in [Tags -> Nat] /\ written \in [Tags -> Nat]
  <2>1. /\ log \in Seq(Tags \X Nat) /\ batch \in Seq(Tags \X Nat)
        /\ lineQueue \in Seq(Tags \X Nat)
        /\ read \in [Tags -> Nat] /\ written \in [Tags -> Nat]
    BY DEF IInv, TypeOK
  <2> QED BY <2>1 DEF Taken
<1>1. ASSUME NEW f \in Tags, ReadLine(f) PROVE Flow'
  <2> DEFINE e == <<f, read[f] + 1>>
  <2>1. /\ read' = [read EXCEPT ![f] = @ + 1] /\ read[f] < written[f]
        /\ lineQueue' = Append(lineQueue, e)
        /\ UNCHANGED <<pc, written, log, batch>>
    BY <1>1 DEF ReadLine
  <2>2. e \in Tags \X Nat
    BY <1>0
  <2>3. Pipe \in Seq(Tags \X Nat) /\ log \o Taken \in Seq(Tags \X Nat)
    BY <1>0, ConcatProperties DEF Pipe
  <2>4. Pipe' = (log \o Taken) \o (lineQueue \o <<e>>)
    BY <1>0, <2>1, <2>2, AppendIsConcat DEF Pipe, Taken
  <2>5. <<e>> \in Seq(Tags \X Nat)
    BY <2>2
  <2> HIDE DEF e
  <2>6. Pipe' = Pipe \o <<e>>
    <3>1. PICK s \in Seq(Tags \X Nat) : s = log \o Taken
      BY <2>3
    <3>2. (s \o lineQueue) \o <<e>> = s \o (lineQueue \o <<e>>)
      <4>1. \A q, r \in Seq(Tags \X Nat) : (s \o q) \o r = s \o (q \o r)
        BY ConcatAssociative, SMTT(20)
      <4> QED BY <1>0, <2>5, <4>1
    <3>3. Pipe = s \o lineQueue
      BY <3>1 DEF Pipe
    <3>4. Pipe' = s \o (lineQueue \o <<e>>)
      BY <2>4, <3>1
    <3> QED BY <3>2, <3>3, <3>4
  <2>7. Pipe' = Append(Pipe, e)
    BY <2>2, <2>3, <2>6, AppendIsConcat
  <2>8. pc # "raised" => Fifo(Append(Pipe, e), [read EXCEPT ![f] = @ + 1])
    BY <1>0, <2>3, FifoAppend DEF Flow, e
  <2>9. pc' # "raised" => Fifo(Pipe, read)'
    BY <2>1, <2>7, <2>8 DEF Fifo
  <2>10. \A g \in Tags : read'[g] <= written'[g]
    BY <1>0, <2>1 DEF Flow
  <2> QED BY <2>9, <2>10 DEF Flow
<1>2. CASE Drain \/ LeaveLoop
  <2>1. /\ pc \in {"drain", "leave"} /\ batch' = lineQueue /\ lineQueue' = <<>>
        /\ IF lineQueue = <<>> THEN pc' \in {"poll", "settle"}
                              ELSE pc' \in {"commit", "flush"}
        /\ UNCHANGED <<log, read, written>>
    BY <1>2 DEF Drain, LeaveLoop, TakeBatch
  <2>2. Taken = <<>> /\ Taken' = lineQueue
    BY <2>1 DEF Taken
  <2>3. Pipe = log \o lineQueue /\ Pipe' = (log \o lineQueue) \o <<>>
    BY <1>0, <2>1, <2>2, ConcatEmptySeq DEF Pipe
  <2>4. log \o lineQueue \in Seq(Tags \X Nat)
    BY <1>0, ConcatProperties
  <2>5. Pipe' = Pipe
    BY <2>3, <2>4, ConcatEmptySeq
  <2>6. Fifo(Pipe, read)'
    BY <2>1, <2>5 DEF Flow
  <2>7. \A g \in Tags : read'[g] <= written'[g]
    BY <2>1 DEF Flow
  <2> QED BY <2>6, <2>7 DEF Flow
<1>3. CASE CommitBatch
  <2>1. /\ pc \in {"commit", "flush"} /\ pc' \in {"poll", "settle"}
        /\ log' = log \o batch
        /\ UNCHANGED <<lineQueue, read, written>>
    BY <1>3 DEF CommitBatch
  <2>2. Taken = batch /\ Taken' = <<>>
    BY <2>1 DEF Taken
  <2>3. log \o batch \in Seq(Tags \X Nat)
    BY <1>0, ConcatProperties
  <2>4. Pipe' = Pipe
    BY <2>1, <2>2, <2>3, ConcatEmptySeq DEF Pipe
  <2>5. Fifo(Pipe, read)'
    BY <2>1, <2>4 DEF Flow
  <2>6. \A g \in Tags : read'[g] <= written'[g]
    BY <2>1 DEF Flow
  <2> QED BY <2>5, <2>6 DEF Flow
<1>4. CASE \E f \in Tags : WriteLine(f)
  <2>1. PICK f \in Tags : WriteLine(f)
    BY <1>4
  <2>2. \A g \in Tags : written'[g] >= written[g]
    BY <1>0, <2>1 DEF WriteLine
  <2> QED BY <2>1, <2>2, FlowStays DEF WriteLine
<1>5. CASE \/ StartRun \/ Launch \/ LaunchFails \/ DatabaseFails
           \/ PollProcesses \/ CheckDone \/ TimeUp
           \/ Settle \/ Refresh \/ SaveStatus \/ Finalize
  <2>1. UNCHANGED <<read, log, lineQueue, batch, written>>
    BY <1>5 DEF StartRun, Launch, LaunchFails, DatabaseFails, PollProcesses,
                CheckDone, TimeUp, Kill, Settle, Refresh, SaveStatus, Finalize
  <2>2. \/ pc' = "raised"
        \/ /\ pc \notin {"raised", "commit", "flush"}
           /\ pc' \notin {"commit", "flush"}
    BY <1>5 DEF StartRun, Launch, LaunchFails, DatabaseFails, PollProcesses,
                CheckDone, TimeUp, Settle, Refresh, SaveStatus, Finalize
  <2>3. pc' = "raised" \/ (pc # "raised" /\ Taken' = Taken)
    BY <2>2 DEF Taken
  <2>4. \A f \in Tags : written'[f] >= written[f]
    BY <1>0, <2>1
  <2> QED BY <2>1, <2>3, <2>4, FlowStays
<1>6. CASE \/ CancelLoad \/ CancelKill \/ CancelSave \/ ActiveFiles
           \/ \E f \in Tags : Ends(f) \/ CancelFile(f)
           \/ UNCHANGED vars
  <2>1. UNCHANGED <<pc, read, log, lineQueue, batch, written>>
    BY <1>6 DEF CancelLoad, CancelKill, CancelSave, CancelGoes, ActiveFiles,
                Ends, CancelFile, Kill, vars
  <2>2. \A f \in Tags : written'[f] >= written[f]
    BY <1>0, <2>1
  <2> QED BY <2>1, <2>2, FlowStays
<1> QED BY <1>1, <1>2, <1>3, <1>4, <1>5, <1>6 DEF Next

LEMMA FlowInvariance == Spec => []Flow
  BY Invariance, FlowInit, FlowStep, PTL DEF Spec

\* Every step writes a line, commits some in order, closes or is nothing.
LEMMA ChannelStep ==
  ASSUME IInv, IInv', Flow, [Next]_vars
  PROVE  [Channel!Write \/ Channel!Commit \/ Channel!Close]_(Channel!lcvars)
<1> DEFINE open == pc \notin {"refresh", "save", "finalize", "done", "raised"}
<1> USE DEF Capture
<1>0. /\ log \in Seq(Tags \X Nat) /\ batch \in Seq(Tags \X Nat)
      /\ lineQueue \in Seq(Tags \X Nat)
      /\ read \in [Tags -> Nat] /\ written \in [Tags -> Nat]
  BY DEF IInv, TypeOK
<1>1. CASE CommitBatch
  <2>1. /\ pc \in {"commit", "flush"} /\ pc' \in {"poll", "settle"}
        /\ log' = log \o batch /\ UNCHANGED written
    BY <1>1 DEF CommitBatch
  <2>2. log' \in Seq(Tags \X Nat) /\ Pipe = log' \o lineQueue
    BY <1>0, <2>1, ConcatProperties DEF Pipe, Taken
  <2>3. Fifo(Pipe, read)
    BY <2>1 DEF Flow
  <2>4. Channel!InOrder(log')
    <3>1. PICK s \in Seq(Tags \X Nat) : s = log'
      BY <2>2
    <3>2. Channel!InOrder(s)
      BY <1>0, <2>2, <2>3, <3>1, FifoPrefix DEF Fifo
    <3> QED BY <3>1, <3>2 DEF Channel!InOrder
  <2>5. \A i \in DOMAIN log' : log'[i][2] <= written[log'[i][1]]
    <3>1. \A i \in DOMAIN log' : /\ i \in DOMAIN Pipe /\ Pipe[i] = log'[i]
                                 /\ log'[i] \in Tags \X Nat
      BY <1>0, <2>2, ConcatProperties
    <3> QED BY <1>0, <2>3, <3>1 DEF Fifo, Flow
  <2>6. Len(log) <= Len(log') /\ SubSeq(log', 1, Len(log)) = log
    <3>1. PICK s \in Seq(Tags \X Nat) : s = log'
      BY <2>2
    <3>2. s = log \o batch /\ Len(s) = Len(log) + Len(batch)
      BY <1>0, <2>1, <3>1, ConcatProperties
    <3>3. \A i \in 1..Len(log) : s[i] = log[i]
      BY <1>0, <3>2, ConcatProperties
    <3>4. SubSeq(s, 1, Len(log)) = log
      BY <1>0, <3>2, <3>3, SubSeqProperties, SeqEqual
    <3> QED BY <1>0, <3>1, <3>2, <3>4
  <2> QED BY <2>1, <2>4, <2>5, <2>6 DEF Channel!Commit
<1>2. CASE \E f \in Tags : WriteLine(f)
  BY <1>2 DEF WriteLine, Channel!Write
<1>3. CASE Settle \/ LaunchFails \/ DatabaseFails
  <2>1. UNCHANGED <<written, log>> /\ ~open'
    BY <1>3 DEF Settle, LaunchFails, DatabaseFails
  <2> QED BY <2>1 DEF Channel!Close, Channel!lcvars
<1>4. CASE \/ StartRun \/ Launch \/ Drain \/ LeaveLoop \/ PollProcesses
           \/ CheckDone \/ TimeUp \/ Refresh \/ SaveStatus \/ Finalize
  <2>1. UNCHANGED <<written, log>> /\ open' = open
    BY <1>4 DEF StartRun, Launch, Drain, LeaveLoop, TakeBatch, PollProcesses,
                CheckDone, TimeUp, Kill, Refresh, SaveStatus, Finalize
  <2> QED BY <2>1 DEF Channel!lcvars
<1>5. CASE \/ CancelLoad \/ CancelKill \/ CancelSave \/ ActiveFiles
           \/ \E f \in Tags : ReadLine(f) \/ Ends(f) \/ CancelFile(f)
           \/ UNCHANGED vars
  <2>1. UNCHANGED <<pc, written, log>>
    BY <1>5 DEF CancelLoad, CancelKill, CancelSave, CancelGoes, ActiveFiles,
                ReadLine, Ends, CancelFile, Kill, vars
  <2> QED BY <2>1 DEF Channel!lcvars
<1> QED BY <1>1, <1>2, <1>3, <1>4, <1>5 DEF Next

\* TestProcesses!ImplementsChannel: the reader threads, the queue, the batches
\* and the last drain are a FIFO channel from every process into the log.
THEOREM CaptureIsChannel == Spec => ImplementsChannel
<1>1. Init => Channel!Init
  BY DEF Init, Channel!Init
<1>2. IInv /\ IInv' /\ Flow /\ [Next]_vars
        => [Channel!Write \/ Channel!Commit \/ Channel!Close]_(Channel!lcvars)
  BY ChannelStep
<1> QED BY <1>1, <1>2, Invariance, FlowInvariance, PTL
        DEF Spec, ImplementsChannel, Channel!Spec

-----------------------------------------------------------------------------
(* No line is lost *)

Over == {"flush", "settle", "refresh", "save", "finalize", "done"}

\* A reader that was joined in time has read everything; after the last join
\* only the others can still put lines on the queue.
Drained ==
  /\ pc \in {"start", "launch"} => completed = {}
  /\ pc # "check" => joining = {}
  /\ \A f \in completed : ~Live(f)
  /\ \A f \in (completed \ joining) \ slow : read[f] = written[f]
  /\ pc \in Over =>
       /\ \A f \in procs \ slow : read[f] = written[f]
       /\ \A i \in DOMAIN lineQueue : lineQueue[i][1] \notin procs \ slow

\* No reader has read what was not written, nor counts below zero.
Counted ==
  /\ read \in [Tags -> Nat] /\ written \in [Tags -> Nat]
  /\ \A f \in Tags : read[f] <= written[f]

LEMMA DrainedInit == Init => Drained
BY DEF Init, Drained, Over

LEMMA DrainedStep ==
  ASSUME IInv, Counted, Counted', Drained, [Next]_vars
  PROVE  Drained'
<1> USE DEF Capture
<1>0. /\ procs \subseteq Tags /\ completed \subseteq procs
      /\ lineQueue \in Seq(Tags \X Nat)
      /\ pc \in Left => \A f \in Tags : ~Live(f)
      /\ exit \in [Tags -> {"none", "live", "ok", "failed", "signal"}]
  BY DEF IInv, TypeOK, Lives
<1>1. ASSUME NEW f \in Tags, WriteLine(f) PROVE Drained'
  <2>1. /\ Live(f) /\ written' = [written EXCEPT ![f] = @ + 1]
        /\ UNCHANGED <<pc, procs, exit, completed, joining, slow, read,
                       lineQueue>>
    BY <1>1 DEF WriteLine
  <2>2. f \notin completed /\ pc \notin Over
    BY <1>0, <2>1 DEF Drained, Over, Left
  <2> QED BY <2>1, <2>2 DEF Drained, Live, Counted
<1>2. ASSUME NEW f \in Tags, ReadLine(f) PROVE Drained'
  <2>1. /\ read[f] < written[f] /\ read' = [read EXCEPT ![f] = @ + 1]
        /\ lineQueue' = Append(lineQueue, <<f, read[f] + 1>>)
        /\ UNCHANGED <<pc, procs, exit, completed, joining, slow, written>>
    BY <1>2 DEF ReadLine
  <2>2. /\ f \notin (completed \ joining) \ slow
        /\ pc \in Over => f \notin procs \ slow
    BY <2>1 DEF Drained, Counted
  <2>3. \A i \in DOMAIN lineQueue' :
          \/ i \in DOMAIN lineQueue /\ lineQueue'[i] = lineQueue[i]
          \/ lineQueue'[i][1] = f
    BY <1>0, <2>1
  <2> QED BY <2>1, <2>2, <2>3 DEF Drained, Live, Counted
<1>3. CASE Drain
  <2>1. /\ pc = "drain" /\ pc' \in {"poll", "commit"}
        /\ UNCHANGED <<procs, exit, completed, joining, slow, read, written>>
    BY <1>3 DEF Drain, TakeBatch
  <2> QED BY <2>1 DEF Drained, Live, Over
<1>4. CASE PollProcesses
  <2>1. /\ pc = "poll" /\ pc' = "check"
        /\ joining' = {f \in procs \ completed : ~Live(f)}
        /\ completed' = completed \cup joining'
        /\ UNCHANGED <<procs, exit, slow, read, written>>
    BY <1>4 DEF PollProcesses
  <2>2. completed' \ joining' = completed \ joining
    BY <2>1 DEF Drained
  <2> QED BY <2>1, <2>2 DEF Drained, Live, Over
<1>5. CASE CheckDone \/ TimeUp
  <2>1. /\ pc = "check" /\ pc' \in {"leave", "drain"} /\ Join(joining)
        /\ joining' = {}
        /\ UNCHANGED <<procs, completed, read, written>>
    BY <1>5 DEF CheckDone, TimeUp, FileReports, Kill
  <2>2. \A f \in completed : ~Live(f)'
    BY <1>0, <1>5 DEF CheckDone, TimeUp, Kill, Live, Drained
  <2>3. \A f \in completed \ slow' : read[f] = written[f]
    BY <1>0, <2>1 DEF Join, Drained, Counted
  <2> QED BY <2>1, <2>2, <2>3 DEF Drained, Live, Over
<1>6. CASE LeaveLoop
  <2>1. /\ pc = "leave" /\ pc' \in {"settle", "flush"}
        /\ Join(procs \ completed)
        /\ lineQueue' = <<>>
        /\ UNCHANGED <<procs, exit, completed, joining, read, written>>
    BY <1>6 DEF LeaveLoop, TakeBatch
  <2>2. \A f \in procs \ slow' : read[f] = written[f]
    BY <1>0, <2>1 DEF Join, Drained, Counted
  <2> QED BY <1>0, <2>1, <2>2 DEF Drained, Live, Over
<1>7. CASE \/ CommitBatch \/ StartRun \/ Settle \/ Refresh \/ SaveStatus
           \/ Finalize
  <2>1. /\ UNCHANGED <<procs, exit, completed, joining, slow, read, written,
                       lineQueue>>
        /\ \/ pc = "commit" /\ pc' = "poll"
           \/ pc = "flush" /\ pc' = "settle"
           \/ pc = "start" /\ pc' = "launch"
           \/ pc = "settle" /\ pc' = "refresh"
           \/ pc = "refresh" /\ pc' = "save"
           \/ pc = "save" /\ pc' \in {"done", "finalize"}
           \/ pc = "finalize" /\ pc' = "done"
    BY <1>7 DEF CommitBatch, StartRun, Settle, Refresh, SaveStatus, Finalize
  <2> QED BY <2>1 DEF Drained, Live, Over
<1>8. CASE Launch \/ LaunchFails
  <2>1. /\ pc = "launch" /\ pc' \in {"drain", "raised"}
        /\ UNCHANGED <<procs, completed, joining, slow, read, written>>
    BY <1>8 DEF Launch, LaunchFails
  <2> QED BY <2>1 DEF Drained, Over
<1>9. CASE DatabaseFails
  <2>1. /\ pc # "check" /\ pc' = "raised"
        /\ UNCHANGED <<procs, exit, completed, joining, slow, read, written>>
    BY <1>9 DEF DatabaseFails
  <2> QED BY <2>1 DEF Drained, Live, Over
<1>10. CASE \/ CancelLoad \/ CancelKill \/ CancelSave \/ ActiveFiles
            \/ \E f \in Tags : Ends(f) \/ CancelFile(f)
            \/ UNCHANGED vars
  <2>1. UNCHANGED <<pc, procs, completed, joining, slow, read, written,
                    lineQueue>>
    BY <1>10 DEF CancelLoad, CancelKill, CancelSave, CancelGoes, ActiveFiles,
                 Ends, CancelFile, Kill, vars
  <2>2. \A f \in completed : ~Live(f)'
    <3>1. CASE \E g \in Tags : Ends(g)
      BY <1>0, <3>1 DEF Ends, Live, Drained
    <3>2. CASE CancelKill \/ \E g \in Tags : CancelFile(g)
      BY <1>0, <3>2 DEF CancelKill, CancelFile, Kill, Live, Drained
    <3>3. CASE UNCHANGED exit
      BY <3>3 DEF Live, Drained
    <3> QED BY <1>10, <3>1, <3>2, <3>3
            DEF CancelLoad, CancelSave, ActiveFiles, vars
  <2> QED BY <2>1, <2>2 DEF Drained, Live
<1> QED BY <1>1, <1>2, <1>3, <1>4, <1>5, <1>6, <1>7, <1>8, <1>9, <1>10
        DEF Next

\* If no line of f is on the queue, the log has as many lines of f as were
\* read: their numbers are a bijection.
LEMMA LinesCounted ==
  ASSUME NEW s \in Seq(Tags \X Nat), NEW q \in Seq(Tags \X Nat),
         NEW rd \in [Tags -> Nat], NEW f \in Tags, Fifo(s \o q, rd),
         \A i \in DOMAIN q : q[i][1] # f
  PROVE  Cardinality({i \in DOMAIN s : s[i][1] = f}) = rd[f]
<1> DEFINE u == s \o q
           S == {i \in DOMAIN s : s[i][1] = f}
           Place(n) == CHOOSE i \in DOMAIN s : s[i] = <<f, n>>
           B == [n \in 1..rd[f] |-> Place(n)]
<1>1. /\ DOMAIN s = 1..Len(s) /\ DOMAIN q = 1..Len(q)
      /\ DOMAIN u = 1..(Len(s) + Len(q)) /\ Len(s) \in Nat /\ Len(q) \in Nat
      /\ \A i \in DOMAIN u : u[i] = IF i <= Len(s) THEN s[i] ELSE q[i - Len(s)]
      /\ \A i \in DOMAIN s : i \in DOMAIN u /\ u[i] = s[i]
                             /\ s[i] \in Tags \X Nat
  BY ConcatProperties
<1>2. Fifo(u, rd)
  OBVIOUS
<1> HIDE DEF u
<1>3. \A n \in 1..rd[f] : \E i \in DOMAIN s : s[i] = <<f, n>>
  <2> SUFFICES ASSUME NEW n \in 1..rd[f]
               PROVE  \E i \in DOMAIN s : s[i] = <<f, n>>
    OBVIOUS
  <2>1. PICK i \in DOMAIN u : u[i] = <<f, n>>
    BY <1>2 DEF Fifo
  <2>2. CASE i <= Len(s)
    <3>1. i \in DOMAIN s /\ u[i] = s[i]
      BY <1>1, <2>2
    <3> QED BY <2>1, <3>1
  <2>3. CASE ~(i <= Len(s))
    <3>1. i - Len(s) \in DOMAIN q /\ u[i] = q[i - Len(s)]
      BY <1>1, <2>3
    <3> QED BY <2>1, <3>1
  <2> QED BY <2>2, <2>3
<1>4. \A n \in 1..rd[f] : Place(n) \in DOMAIN s /\ s[Place(n)] = <<f, n>>
  BY <1>3
<1> HIDE DEF Place
<1>5. \A i, j \in S : s[i][2] = s[j][2] => i = j
  <2> SUFFICES ASSUME NEW i \in S, NEW j \in S, s[i][2] = s[j][2]
               PROVE  i = j
    OBVIOUS
  <2>1. /\ i \in DOMAIN u /\ j \in DOMAIN u /\ u[i] = s[i] /\ u[j] = s[j]
        /\ i \in Nat /\ j \in Nat /\ s[i][2] \in Nat
    BY <1>1
  <2>2. u[i][1] = u[j][1] /\ u[i][2] = u[j][2] /\ u[i][2] \in Nat
    BY <2>1
  <2>3. \A k, l \in DOMAIN u : k < l /\ u[k][1] = u[l][1] => u[k][2] < u[l][2]
    BY <1>2 DEF Fifo, Channel!InOrder
  <2>4. PICK m \in Nat : u[i][2] = m /\ u[j][2] = m
    BY <2>2
  <2>5. ~(i < j)
    <3>1. i < j => u[i][2] < u[j][2]
      BY <2>1, <2>2, <2>3, Zenon
    <3> QED BY <2>4, <3>1
  <2>6. ~(j < i)
    <3>1. j < i => u[j][2] < u[i][2]
      BY <2>1, <2>2, <2>3, Zenon
    <3> QED BY <2>4, <3>1
  <2> QED BY <2>1, <2>5, <2>6
<1>6. \A i \in S : s[i][2] \in 1..rd[f]
  <2> SUFFICES ASSUME NEW i \in S PROVE s[i][2] \in 1..rd[f]
    OBVIOUS
  <2>1. i \in DOMAIN u /\ u[i] = s[i] /\ s[i][2] \in Nat /\ s[i][1] = f
    BY <1>1
  <2>2. 1 <= u[i][2] /\ u[i][2] <= rd[u[i][1]]
    BY <1>2, <2>1 DEF Fifo
  <2> QED BY <2>1, <2>2
<1>7. B \in [1..rd[f] -> S]
  <2>1. \A n \in 1..rd[f] : Place(n) \in S
    BY <1>4
  <2> HIDE DEF S
  <2> QED BY <2>1
<1>8. \A n, m \in 1..rd[f] : B[n] = B[m] => n = m
  <2> SUFFICES ASSUME NEW n \in 1..rd[f], NEW m \in 1..rd[f], B[n] = B[m]
               PROVE  n = m
    OBVIOUS
  <2>1. Place(n) = Place(m)
    OBVIOUS
  <2>2. <<f, n>> = <<f, m>>
    BY <1>4, <2>1
  <2> QED BY <2>2
<1>9. \A i \in S : \E n \in 1..rd[f] : B[n] = i
  <2> SUFFICES ASSUME NEW i \in S PROVE B[s[i][2]] = i
    BY <1>6
  <2>1. PICK n \in 1..rd[f] : n = s[i][2]
    BY <1>6
  <2>2. B[n] \in S /\ s[B[n]][2] = n
    <3>1. B[n] = Place(n)
      OBVIOUS
    <3> QED BY <1>4, <3>1
  <2> QED BY <1>5, <2>1, <2>2
<1>10. DOMAIN B = 1..rd[f]
  BY <1>7
<1> HIDE DEF S, B
<1>11. B \in Bijection(1..rd[f], S)
  BY <1>7, <1>8, <1>9, <1>10
     DEF Bijection, Injection, Surjection, IsInjective
<1>12. rd[f] \in Nat /\ ExistsBijection(1..rd[f], S)
  BY <1>11 DEF ExistsBijection
<1> QED BY <1>12, FS_CountingElements DEF S

LEMMA NothingMissing ==
  ASSUME IInv, Flow, Drained
  PROVE  AllLinesLogged
<1> SUFFICES ASSUME pc \in {"settle", "refresh", "save", "finalize", "done"},
                    NEW f \in procs \ slow
             PROVE  Logged(f) = written[f]
  BY DEF AllLinesLogged
<1>1. /\ log \in Seq(Tags \X Nat) /\ lineQueue \in Seq(Tags \X Nat)
      /\ read \in [Tags -> Nat] /\ f \in Tags
  BY DEF IInv, TypeOK
<1>2. Pipe = log \o lineQueue
  BY <1>1, ConcatEmptySeq DEF Pipe, Taken
<1>3. Fifo(log \o lineQueue, read)
  BY <1>2 DEF Flow
<1>4. read[f] = written[f] /\ \A i \in DOMAIN lineQueue : lineQueue[i][1] # f
  BY DEF Drained, Over
<1>5. Cardinality({i \in DOMAIN log : log[i][1] = f}) = read[f]
  BY <1>1, <1>3, <1>4, LinesCounted
<1> QED BY <1>4, <1>5 DEF Logged

\* TestProcesses!AllLinesLogged: once the readers were joined every line of a
\* process is in the log, whatever ended it; only a reader that outlives its
\* join can lose lines.
THEOREM NoLineLost == Spec => []AllLinesLogged
<1>1. IInv /\ Flow => Counted
  BY DEF IInv, TypeOK, Flow, Counted
<1>2. /\ IInv /\ Counted /\ Counted' /\ Drained /\ [Next]_vars => Drained'
      /\ IInv /\ Flow /\ Drained => AllLinesLogged
  BY DrainedStep, NothingMissing
<1> QED BY <1>1, <1>2, DrainedInit, Invariance, FlowInvariance, PTL DEF Spec

-----------------------------------------------------------------------------
(* Registrations *)

\* While the loop runs every live process can be cancelled; what the timeout
\* killed is only in doubt until it is polled, and the rest has been polled.
Attached ==
  /\ pc \in {"start", "launch", "refresh", "save", "finalize", "done"}
       => ~registered
  /\ active # {} => registered
  /\ InLoop => \A f \in Tags : Live(f) => f \in active
  /\ timedOut # {} => pc \in Left \cup {"raised"}
  /\ \A f \in timedOut : exit[f] = "signal"
  /\ pc \in {"leave", "flush", "settle"} =>
       \A f \in procs \ timedOut : code[f] = exit[f]

LEMMA AttachedInit == Init => Attached
BY DEF Init, Attached, InLoop

\* A step that leaves the operating system alone.
LEMMA AttachedStays ==
  ASSUME IInv, Attached,
         UNCHANGED <<procs, exit, active, timedOut, registered>>,
         \/ pc' = pc
         \/ InLoop /\ pc' \in {"drain", "commit", "poll", "check"}
              /\ pc \notin Left
         \/ pc \in {"leave", "flush"} /\ pc' \in {"flush", "settle"}
         \/ pc' = "raised"
         \/ pc = "start" /\ pc' = "launch"
         \/ pc \in {"refresh", "save", "finalize"}
              /\ pc' \in {"save", "finalize", "done"},
         pc \in {"leave", "flush", "settle"} =>
           \A f \in procs : code[f] = exit[f] => code'[f] = code[f]
  PROVE  Attached'
BY DEF Attached, InLoop, Left, Live, IInv, TypeOK

\* A step that polls and kills some of the registered processes.
LEMMA AttachedKill ==
  ASSUME IInv, Attached, NEW fs \in SUBSET active, Kill(fs),
         active' \subseteq active, \A f \in active \ active' : f \in fs,
         active' # {} => registered', registered' => registered,
         UNCHANGED <<pc, procs, timedOut>>
  PROVE  Attached'
<1>1. fs \in SUBSET Tags /\ fs \in SUBSET procs /\ timedOut \subseteq Tags
  BY DEF IInv, TypeOK
<1>2. /\ Polled(fs)
      /\ \A f \in Tags :
           /\ f \in fs /\ Live(f) => exit'[f] = "signal"
           /\ f \notin fs \/ ~Live(f) => exit'[f] = exit[f]
  BY <1>1, KillFacts DEF IInv
<1>3. \A f \in Tags : Live(f)' => Live(f) /\ f \notin fs
  BY <1>2 DEF Live
<1>4. InLoop' => \A f \in Tags : Live(f)' => f \in active'
  BY <1>3 DEF Attached, InLoop
<1>5. \A f \in timedOut' : exit'[f] = "signal"
  BY <1>1, <1>2 DEF Attached, Live
<1>6. pc \in {"leave", "flush", "settle"} =>
        \A f \in procs \ timedOut : code'[f] = exit'[f]
  <2> SUFFICES ASSUME pc \in {"leave", "flush", "settle"},
                      NEW f \in procs \ timedOut
               PROVE  code'[f] = exit'[f]
    OBVIOUS
  <2>1. f \in Tags /\ ~Live(f) /\ code[f] = exit[f]
    BY DEF IInv, TypeOK, Lives, Left, Attached
  <2>2. exit'[f] = exit[f]
    BY <1>2, <2>1
  <2> QED BY <1>2, <2>1, <2>2 DEF Polled
<1> QED BY <1>4, <1>5, <1>6 DEF Attached

LEMMA AttachedStep ==
  ASSUME IInv, Attached, [Next]_vars
  PROVE  Attached'
<1> USE DEF Capture
<1>0. /\ procs \subseteq Tags /\ timedOut \subseteq procs
      /\ active \subseteq procs
      /\ exit \in [Tags -> {"none", "live", "ok", "failed", "signal"}]
      /\ code \in [Tags -> {"none", "ok", "failed", "signal"}]
  BY DEF IInv, TypeOK
<1>1. CASE \/ UNCHANGED vars
           \/ \E f \in Tags : WriteLine(f) \/ ReadLine(f)
           \/ CancelLoad \/ CancelSave
  <2>1. UNCHANGED <<pc, procs, exit, code, active, timedOut, registered>>
    BY <1>1 DEF vars, WriteLine, ReadLine, CancelLoad, CancelSave, CancelGoes
  <2> QED BY <2>1, AttachedStays
<1>2. CASE Drain \/ CommitBatch \/ LeaveLoop
  <2>1. /\ UNCHANGED <<procs, exit, code, active, timedOut, registered>>
        /\ \/ pc \in {"drain", "commit"} /\ pc' \in {"commit", "poll"}
           \/ pc \in {"leave", "flush"} /\ pc' \in {"flush", "settle"}
    BY <1>2 DEF Drain, CommitBatch, LeaveLoop, TakeBatch
  <2> QED BY <2>1, AttachedStays DEF InLoop, Left
<1>3. CASE StartRun \/ Refresh \/ SaveStatus \/ Finalize \/ DatabaseFails
  <2>1. /\ UNCHANGED <<procs, exit, code, active, timedOut, registered>>
        /\ \/ pc = "start" /\ pc' = "launch"
           \/ pc' = "raised"
           \/ pc \in {"refresh", "save", "finalize"}
                /\ pc' \in {"save", "finalize", "done"}
    BY <1>3 DEF StartRun, Refresh, SaveStatus, Finalize, DatabaseFails
  <2> QED BY <2>1, AttachedStays
<1>4. CASE Launch \/ LaunchFails
  BY <1>0, <1>4 DEF Launch, LaunchFails, Started, Attached, InLoop, Live,
                    Left, IInv, Lives
<1>5. CASE PollProcesses
  <2>1. /\ UNCHANGED <<procs, exit, active, timedOut, registered>>
        /\ pc = "poll" /\ pc' = "check"
    BY <1>5 DEF PollProcesses
  <2> QED BY <2>1, AttachedStays DEF InLoop, Left
<1>6. CASE CheckDone
  <2>1. /\ UNCHANGED <<procs, exit, active, timedOut, registered>>
        /\ pc = "check" /\ pc' \in {"leave", "drain"} /\ Polled(procs)
        /\ pc' = "leave" => \A f \in procs : ~Live(f)
    BY <1>6 DEF CheckDone, AllDone
  <2>2. CASE pc' = "drain"
    BY <2>1, <2>2, AttachedStays DEF InLoop, Left
  <2>3. CASE pc' = "leave"
    <3>1. \A f \in procs : code'[f] = exit'[f]
      BY <1>0, <2>1, <2>3 DEF Polled
    <3> QED BY <1>0, <2>1, <2>3, <3>1 DEF Attached, InLoop, Live, Left
  <2> QED BY <2>1, <2>2, <2>3
<1>7. CASE TimeUp
  <2>1. /\ pc = "check" /\ pc' = "leave" /\ Kill(procs)
        /\ timedOut' = {f \in procs : Live(f)}
        /\ UNCHANGED <<procs, active, registered>>
    BY <1>7 DEF TimeUp
  <2>2. /\ Polled(procs)
        /\ \A f \in Tags :
             /\ f \in procs /\ Live(f) => exit'[f] = "signal"
             /\ f \notin procs \/ ~Live(f) => exit'[f] = exit[f]
    BY <1>0, <2>1, KillFacts DEF IInv
  <2>3. \A f \in Tags : ~Live(f)'
    BY <2>2 DEF Live, IInv, Lives
  <2>4. \A f \in procs \ timedOut' : code'[f] = exit'[f]
    BY <1>0, <2>1, <2>2 DEF Polled
  <2> QED BY <1>0, <2>1, <2>2, <2>3, <2>4 DEF Attached, InLoop, Left
<1>8. CASE Settle
  BY <1>0, <1>8 DEF Settle, Attached, InLoop, Left, Live
<1>9. CASE CancelKill \/ \E f \in Tags : CancelFile(f)
  <2>1. CASE CancelKill
    BY <2>1, AttachedKill DEF CancelKill
  <2>2. ASSUME NEW f \in Tags, CancelFile(f) PROVE Attached'
    <3>1. {f} \in SUBSET active /\ Kill({f})
      BY <2>2 DEF CancelFile
    <3> QED BY <2>2, <3>1, AttachedKill DEF CancelFile, Attached
  <2> QED BY <1>9, <2>1, <2>2
<1>10. CASE ActiveFiles
  <2>1. /\ UNCHANGED <<pc, procs, exit, active, timedOut, registered>>
        /\ Polled(active)
    BY <1>10 DEF ActiveFiles
  <2> QED BY <1>0, <2>1, AttachedStays DEF Polled
<1>11. ASSUME NEW f \in Tags, Ends(f) PROVE Attached'
  <2>1. /\ Live(f) /\ UNCHANGED <<pc, procs, code, active, timedOut,
                                  registered>>
        /\ \A g \in Tags : g # f => exit'[g] = exit[g]
        /\ exit'[f] # "live"
    BY <1>0, <1>11 DEF Ends
  <2>2. pc \notin Left
    BY <2>1 DEF IInv, Lives
  <2> QED BY <1>0, <2>1, <2>2 DEF Attached, InLoop, Live, Left
<1> QED BY <1>1, <1>2, <1>3, <1>4, <1>5, <1>6, <1>7, <1>8, <1>9, <1>10, <1>11
        DEF Next

-----------------------------------------------------------------------------
(* The refinement of RunService *)

\* What RunService has of the run: its task, its cancel request, its row.
mapped ==
  <<TaskPC, CancelPC, Proc, ActiveTask, Final, status, seen, inCancelled>>

\* RunService has no more of it, and its steps are determined by these.
LEMMA Stutter == ASSUME UNCHANGED mapped PROVE UNCHANGED Task!vars
BY DEF mapped, OfRun, OfTask, OfBoth, Task!vars, Task!tables, Task!creators,
       Task!workers, Task!memory, Task!admins, Task!server

LEMMA ActiveTaskType == ActiveTask \in {"task", "no task"}
BY DEF ActiveTask

USE DEF OfRun, OfTask, OfBoth, Handlers, Task!tables, Task!creators,
        Task!workers, Task!memory, Task!admins, Task!server,
        Task!Goes, Task!TaskLocals, Task!Unregistered

\* The steps of the task that do not fail.
LEMMA TaskSteps ==
  ASSUME \/ Task!StartCapture("task") \/ Task!Launch("task")
         \/ Task!TimeoutKill("task") \/ Task!LeaveLoop("task")
         \/ Task!RefreshRun("task") \/ Task!CommitOutcome("task")
         \/ Task!TaskFails("task"),
         UNCHANGED <<Task!admins, Task!server>>
  PROVE  Task!Next
BY DEF Task!Next, Task!Serve, Task!TaskStep, Task!TaskProgress

LEMMA StartMaps ==
  ASSUME TaskPC = "launch", TaskPC' = "start", seen' = "running",
         status' = IF seen = "running" THEN status ELSE "running",
         UNCHANGED <<CancelPC, Proc, ActiveTask, Final, inCancelled>>
  PROVE  Task!Next
<1>1. Task!StartCapture("task")
  BY DEF Task!StartCapture, Task!WriteStatus
<1> QED BY <1>1, TaskSteps

LEMMA LaunchMaps ==
  ASSUME TaskPC = "start",
         \/ TaskPC' = "loop" /\ Proc' \in {"live", "ok"} /\ ActiveTask' = "task"
         \/ TaskPC' = "except" /\ UNCHANGED <<Proc, ActiveTask>>,
         UNCHANGED <<CancelPC, Final, status, seen, inCancelled>>
  PROVE  Task!Next
<1>1. CASE TaskPC' = "loop"
  <2>1. PICK p \in {"live", "ok"} : p = Proc'
    BY <1>1
  <2>2. Task!Launch("task")
    BY <1>1, <2>1 DEF Task!Launch
  <2> QED BY <2>2, TaskSteps
<1>2. CASE TaskPC' = "except"
  <2>1. Task!Launch("task")
    BY <1>2 DEF Task!Launch
  <2> QED BY <2>1, TaskSteps
<1> QED BY <1>1, <1>2

LEMMA TimeoutMaps ==
  ASSUME TaskPC = "loop", Proc = "live", Proc' = "timedout",
         UNCHANGED <<TaskPC, CancelPC, ActiveTask, Final, status, seen,
                     inCancelled>>
  PROVE  Task!Next
<1>1. Task!TimeoutKill("task")
  BY DEF Task!TimeoutKill
<1> QED BY <1>1, TaskSteps

LEMMA FailMaps ==
  ASSUME TaskPC \in {"loop", "refresh"}, TaskPC' = "except",
         seen' = IF TaskPC = "refresh" THEN status ELSE seen, Final' = "none",
         IF Proc = "live" THEN UNCHANGED <<Proc, ActiveTask>>
                          ELSE Proc' = "none" /\ ActiveTask' = "no task",
         UNCHANGED <<CancelPC, status, inCancelled>>
  PROVE  Task!Next
<1>1. CASE Proc = "live"
  <2>1. Task!TaskFails("task")
    BY <1>1 DEF Task!TaskFails
  <2> QED BY <2>1, TaskSteps
<1>2. CASE Proc # "live"
  <2>1. OfRun(ActiveTask)' = [r \in {"run"} |->
           IF OfRun(ActiveTask)[r] = "task" THEN "no task"
           ELSE OfRun(ActiveTask)[r]]
    BY <1>2, ActiveTaskType
  <2>2. OfTask(Proc)' = [OfTask(Proc) EXCEPT !["task"] = "none"]
    BY <1>2
  <2>3. OfBoth(seen, "none")' =
          IF TaskPC = "refresh" THEN [OfBoth(seen, "none") EXCEPT
                                        !["task"] = status]
          ELSE OfBoth(seen, "none")
    OBVIOUS
  <2>9. Task!TaskFails("task")
    BY <1>2, <2>1, <2>2, <2>3 DEF Task!TaskFails
  <2> QED BY <2>9, TaskSteps
<1> QED BY <1>1, <1>2

LEMMA LeaveMaps ==
  ASSUME TaskPC = "loop", TaskPC' = "refresh", Proc # "live", Proc' = "none",
         ActiveTask' = "no task", ~inCancelled',
         Final' = IF Proc = "killed" \/ inCancelled THEN "cancelled"
                  ELSE IF Proc = "ok" THEN "completed" ELSE "failed",
         UNCHANGED <<CancelPC, status, seen>>
  PROVE  Task!Next
<1>1. Task!LeaveLoop("task")
  BY DEF Task!LeaveLoop, Task!Outcome
<1> QED BY <1>1, TaskSteps

LEMMA RefreshMaps ==
  ASSUME TaskPC = "refresh", TaskPC' = "commit", seen' = status,
         Final' = IF status = "cancelled" THEN status ELSE Final,
         UNCHANGED <<CancelPC, Proc, ActiveTask, status, inCancelled>>
  PROVE  Task!Next
<1>1. Task!RefreshRun("task")
  BY DEF Task!RefreshRun
<1> QED BY <1>1, TaskSteps

LEMMA SaveMaps ==
  ASSUME TaskPC = "commit", TaskPC' = "teardown", Final' = "none",
         status' = IF seen = Final THEN status ELSE Final,
         UNCHANGED <<CancelPC, Proc, ActiveTask, seen, inCancelled>>
  PROVE  Task!Next
<1>1. Task!CommitOutcome("task")
  BY DEF Task!CommitOutcome, Task!WriteStatus
<1> QED BY <1>1, TaskSteps

\* The processes end, or are found dead.
LEMMA ExitMaps ==
  ASSUME Proc = "live",
         IF TaskPC = "loop"
         THEN Proc' \in {"ok", "failed", "killed"} /\ UNCHANGED ActiveTask
         ELSE Proc' = "none" /\ ActiveTask' = "no task",
         UNCHANGED <<TaskPC, CancelPC, Final, status, seen, inCancelled>>
  PROVE  Task!Next
<1>1. Task!ProcessExits("task")
  <2>1. CASE TaskPC = "loop"
    <3>1. PICK code_ \in {"ok", "failed", "killed"} : code_ = Proc'
      BY <2>1
    <3>2. OfTask(Proc)' = [OfTask(Proc) EXCEPT !["task"] = code_]
      BY <3>1
    <3> QED BY <2>1, <3>1, <3>2 DEF Task!ProcessExits
  <2>2. CASE TaskPC # "loop"
    <3>1. OfRun(ActiveTask)' = [r \in {"run"} |->
             IF OfRun(ActiveTask)[r] = "task" THEN "no task"
             ELSE OfRun(ActiveTask)[r]]
      BY <2>2, ActiveTaskType
    <3>2. OfTask(Proc)' = [OfTask(Proc) EXCEPT !["task"] = "none"]
      BY <2>2
    <3> QED BY <2>2, <3>1, <3>2 DEF Task!ProcessExits
  <2> QED BY <2>1, <2>2
<1> QED BY <1>1 DEF Task!Next

LEMMA PollMaps ==
  ASSUME Proc = "timedout", Proc' = "killed", ActiveTask = "task",
         UNCHANGED <<TaskPC, CancelPC, ActiveTask, Final, status, seen,
                     inCancelled>>
  PROVE  Task!Next
<1>1. Task!PollActiveFiles("run")
  BY DEF Task!PollActiveFiles
<1> QED BY <1>1 DEF Task!Next, Task!Serve

\* The request to cancel.
LEMMA CancelSteps ==
  ASSUME \/ Task!CancelLoad("cancel") \/ Task!CancelKill("cancel")
         \/ Task!CancelCommit("cancel"),
         UNCHANGED <<Task!admins, Task!server>>
  PROVE  Task!Next
BY DEF Task!Next, Task!Serve, Task!CancelStep, Task!CancelProgress

LEMMA CancelLoadMaps ==
  ASSUME status \in {"pending", "queued", "running"},
         CancelPC = "idle", CancelPC' = "kill",
         UNCHANGED <<TaskPC, Proc, ActiveTask, Final, status, seen,
                     inCancelled>>
  PROVE  Task!Next
<1>1. Task!CancelLoad("cancel")
  BY DEF Task!CancelLoad, Task!Active
<1> QED BY <1>1, CancelSteps

LEMMA CancelKillMaps ==
  ASSUME CancelPC = "kill", CancelPC' = "cancel", inCancelled',
         ActiveTask' = "no task",
         \/ ActiveTask = "task" /\ Proc = "live"
              /\ Proc' = IF TaskPC = "loop" THEN "killed" ELSE "none"
         \/ ActiveTask = "task" /\ Proc = "timedout" /\ TaskPC = "loop"
              /\ Proc' = "killed"
         \/ ~(ActiveTask = "task" /\ Proc = "live") /\ Proc' = Proc,
         UNCHANGED <<TaskPC, Final, status, seen>>
  PROVE  Task!Next
<1>1. Task!CancelKill("cancel")
  BY DEF Task!CancelKill
<1> QED BY <1>1, CancelSteps

LEMMA CancelSaveMaps ==
  ASSUME CancelPC = "cancel", CancelPC' = "done", status' = "cancelled",
         UNCHANGED <<TaskPC, Proc, ActiveTask, Final, seen, inCancelled>>
  PROVE  Task!Next
<1>1. Task!CancelCommit("cancel")
  BY DEF Task!CancelCommit
<1> QED BY <1>1, CancelSteps

HIDE DEF OfRun, OfTask, OfBoth, Handlers, Task!tables, Task!creators,
         Task!workers, Task!memory, Task!admins, Task!server,
         Task!Goes, Task!TaskLocals, Task!Unregistered

-----------------------------------------------------------------------------
\* Nothing that RunService has of the run changes.
LEMMA MappedStays ==
  ASSUME UNCHANGED <<pc, procs, exit, timedOut, active, registered,
                     inCancelled, verdict, status, seen, cpc>>,
         \A f \in timedOut : code'[f] = code[f]
  PROVE  UNCHANGED Task!vars
<1>1. \A f \in procs : Signalled(f)' <=> Signalled(f)
  BY DEF Signalled
<1>2. UNCHANGED <<InLoop, TaskPC, CancelPC, Final, status, seen, inCancelled>>
  BY DEF InLoop, TaskPC, CancelPC, Final
<1>3. UNCHANGED Proc
  BY <1>1, <1>2 DEF Proc, Live
<1>4. UNCHANGED ActiveTask
  BY <1>3 DEF ActiveTask
<1> QED BY <1>2, <1>3, <1>4, Stutter DEF mapped

\* The loop goes from one await to the next.
LEMMA GoesOn ==
  ASSUME InLoop, InLoop',
         UNCHANGED <<procs, exit, timedOut, registered, inCancelled, status,
                     seen, cpc>>,
         \A f \in timedOut : code'[f] = code[f]
  PROVE  UNCHANGED Task!vars
<1>1. \A f \in procs : Signalled(f)' <=> Signalled(f)
  BY DEF Signalled
<1>2. UNCHANGED <<TaskPC, CancelPC, Final, status, seen, inCancelled>>
  BY DEF InLoop, TaskPC, CancelPC, Final
<1>3. UNCHANGED Proc
  BY <1>1 DEF Proc, Live
<1>4. UNCHANGED ActiveTask
  BY <1>3 DEF ActiveTask, InLoop
<1> QED BY <1>2, <1>3, <1>4, Stutter DEF mapped

\* A request polls: what the timeout killed may be found dead.
LEMMA PollRefines ==
  ASSUME IInv, Attached, NEW fs \in SUBSET active, Polled(fs),
         UNCHANGED <<pc, procs, exit, timedOut, active, registered,
                     inCancelled, verdict, status, seen, cpc>>
  PROVE  Task!Next \/ UNCHANGED Task!vars
<1>0. procs \subseteq Tags /\ active \subseteq procs /\ timedOut \subseteq procs
  BY DEF IInv, TypeOK
<1>1. CASE \A f \in timedOut : code'[f] = code[f]
  BY <1>1, MappedStays
<1>2. CASE \E f \in timedOut : code'[f] # code[f]
  <2>1. PICK f \in timedOut : code'[f] # code[f]
    BY <1>2
  <2>2. f \in active /\ f \in procs /\ exit[f] = "signal" /\ code'[f] = exit[f]
    BY <1>0, <2>1 DEF Polled, Attached
  <2>3. registered /\ Signalled(f)'
    BY <2>2 DEF Attached, Signalled
  <2>4. UNCHANGED <<InLoop, TaskPC, CancelPC, Final>>
    BY DEF InLoop, TaskPC, CancelPC, Final
  <2>5. CASE ~InLoop
    <3>1. UNCHANGED Proc
      BY <2>4, <2>5 DEF Proc, Live
    <3>2. UNCHANGED ActiveTask
      BY <3>1 DEF ActiveTask
    <3> QED BY <2>4, <3>1, <3>2, Stutter DEF mapped
  <2>6. CASE InLoop
    <3>1. pc \in Left /\ \A g \in procs : ~Live(g)
      BY <1>0, <2>1, <2>6 DEF Attached, InLoop, IInv, Lives
    <3>2. Proc' = "killed"
      BY <2>2, <2>3, <2>4, <2>6, <3>1 DEF Proc, Live
    <3>3. Proc \in {"killed", "timedout"}
      BY <2>1, <2>6, <3>1 DEF Proc
    <3>4. ActiveTask = "task" /\ UNCHANGED ActiveTask
      BY <2>3, <2>6 DEF ActiveTask, InLoop
    <3>5. CASE Proc = "killed"
      BY <2>4, <3>2, <3>4, <3>5, Stutter DEF mapped
    <3>6. CASE Proc = "timedout"
      BY <2>4, <3>2, <3>4, <3>6, PollMaps
    <3> QED BY <3>3, <3>5, <3>6
  <2> QED BY <2>5, <2>6
<1> QED BY <1>1, <1>2

\* One process ends, or is killed.
LEMMA EndRefines ==
  ASSUME IInv, Attached, NEW f \in Tags, Live(f),
         NEW e \in {"ok", "failed", "signal"}, exit' = [exit EXCEPT ![f] = e],
         active' = active \/ active' = active \ {f},
         UNCHANGED <<pc, procs, timedOut, registered, inCancelled, verdict,
                     status, seen, cpc>>
  PROVE  Task!Next \/ UNCHANGED Task!vars
<1>0. /\ procs \subseteq Tags /\ active \subseteq procs
      /\ exit \in [Tags -> {"none", "live", "ok", "failed", "signal"}]
  BY DEF IInv, TypeOK
<1>1. /\ pc \in {"drain", "commit", "poll", "check", "raised"}
      /\ f \in procs
  BY DEF IInv, TypeOK, Lives, Left
<1>2. \A g \in Tags : Live(g)' <=> Live(g) /\ g # f
  BY <1>0 DEF Live
<1>3. UNCHANGED <<InLoop, TaskPC, CancelPC, Final>>
  BY DEF InLoop, TaskPC, CancelPC, Final
<1>4. CASE InLoop
  <2>1. timedOut = {} /\ pc # "raised"
    BY <1>1, <1>4 DEF Attached, Left, InLoop
  <2>2. Proc = "live" /\ TaskPC = "loop" /\ UNCHANGED ActiveTask
    BY <1>1, <1>4 DEF Proc, TaskPC, ActiveTask, InLoop
  <2>3. Proc' \in {"live", "ok", "failed", "killed"}
    BY <1>3, <1>4, <2>1 DEF Proc
  <2>4. CASE Proc' = "live"
    BY <1>3, <2>2, <2>4, Stutter DEF mapped
  <2>5. CASE Proc' # "live"
    BY <1>3, <2>2, <2>3, <2>5, ExitMaps
  <2> QED BY <2>4, <2>5
<1>5. CASE ~InLoop
  <2>1. pc = "raised" /\ TaskPC # "loop"
    BY <1>1, <1>5 DEF InLoop, TaskPC
  <2>2. Proc \in {"live", "none"} /\ Proc' \in {"live", "none"}
    BY <1>3, <1>5 DEF Proc
  <2>3. Proc = "none" => Proc' = "none"
    <3>1. (\E g \in active' : Live(g)') => \E g \in active : Live(g)
      BY <1>0, <1>2
    <3> QED BY <1>3, <1>5, <2>1, <3>1 DEF Proc
  <2>4. Proc = "live" => registered
    BY <1>5, <2>1 DEF Proc, Attached
  <2>5. /\ ActiveTask = IF Proc = "live" THEN "task" ELSE "no task"
        /\ ActiveTask' = IF Proc' = "live" THEN "task" ELSE "no task"
    BY <2>1, <2>2, <2>3, <2>4 DEF ActiveTask
  <2>6. CASE Proc' = Proc
    BY <1>3, <2>5, <2>6, Stutter DEF mapped
  <2>7. CASE Proc' # Proc
    BY <1>3, <2>1, <2>2, <2>3, <2>5, <2>7, ExitMaps
  <2> QED BY <2>6, <2>7
<1> QED BY <1>4, <1>5

LEMMA LaunchRefines ==
  ASSUME IInv, Attached, Launch \/ LaunchFails
  PROVE  Task!Next
<1>1. /\ pc = "launch" /\ ~registered /\ timedOut = {} /\ active = {}
      /\ UNCHANGED <<procs, timedOut, inCancelled, verdict, status, seen, cpc>>
  BY DEF Launch, LaunchFails, Attached, Left, IInv, Lives
<1>2. UNCHANGED <<CancelPC, Final>> /\ TaskPC = "start"
  BY <1>1 DEF Launch, LaunchFails, CancelPC, Final, TaskPC, InLoop
<1>3. CASE Launch
  <2>1. pc' = "drain" /\ Started(procs) /\ registered'
    BY <1>3 DEF Launch
  <2>2. \A f \in procs : exit'[f] = "live"
    BY <2>1 DEF Started, IInv, TypeOK
  <2>3. Proc' \in {"live", "ok"}
    BY <1>1, <2>1, <2>2 DEF Proc, InLoop, Live
  <2>4. TaskPC' = "loop" /\ ActiveTask' = "task"
    BY <2>1 DEF TaskPC, ActiveTask, InLoop
  <2> QED BY <1>1, <1>2, <2>3, <2>4, LaunchMaps
<1>4. CASE LaunchFails
  <2>1. pc' = "raised" /\ UNCHANGED <<active, registered>>
    BY <1>4 DEF LaunchFails
  <2>2. UNCHANGED <<Proc, ActiveTask>> /\ TaskPC' = "except"
    BY <1>1, <2>1 DEF Proc, ActiveTask, TaskPC, InLoop
  <2> QED BY <1>1, <1>2, <2>2, LaunchMaps
<1> QED BY <1>3, <1>4

LEMMA TimeUpRefines ==
  ASSUME IInv, Attached, TimeUp
  PROVE  Task!Next \/ UNCHANGED Task!vars
<1>0. procs \subseteq Tags /\ active \subseteq procs
  BY DEF IInv, TypeOK
<1>1. /\ pc = "check" /\ pc' = "leave" /\ Kill(procs)
      /\ timedOut' = {f \in procs : Live(f)}
      /\ UNCHANGED <<procs, active, registered, inCancelled, verdict, status,
                     seen, cpc>>
  BY DEF TimeUp
<1>2. timedOut = {} /\ InLoop /\ InLoop'
  BY <1>1 DEF Attached, Left, InLoop
<1>3. /\ Polled(procs)
      /\ \A f \in Tags :
           /\ f \in procs /\ Live(f) => exit'[f] = "signal"
           /\ f \notin procs \/ ~Live(f) => exit'[f] = exit[f]
      /\ exit' \in [Tags -> {"none", "live", "ok", "failed", "signal"}]
  BY <1>0, <1>1, KillFacts DEF IInv
<1>4. UNCHANGED <<TaskPC, CancelPC, Final, ActiveTask>> /\ TaskPC = "loop"
  BY <1>1 DEF TaskPC, CancelPC, Final, InLoop, ActiveTask
<1>5. CASE \A f \in procs : ~Live(f)
  <2>1. exit' = exit /\ timedOut' = timedOut
    BY <1>0, <1>1, <1>2, <1>3, <1>5 DEF IInv, TypeOK
  <2> QED BY <1>1, <1>2, <2>1, GoesOn
<1>6. CASE \E f \in procs : Live(f)
  <2>1. Proc = "live" /\ timedOut' # {}
    BY <1>1, <1>2, <1>6 DEF Proc
  <2>2. \A f \in procs : ~Live(f)'
    BY <1>0, <1>3 DEF Live
  <2>3. Proc' \in {"killed", "timedout"}
    BY <1>1, <1>2, <2>1, <2>2 DEF Proc
  <2>4. CASE Proc' = "killed"
    BY <1>1, <1>4, <2>1, <2>4, ExitMaps
  <2>5. CASE Proc' = "timedout"
    BY <1>1, <1>4, <2>1, <2>5, TimeoutMaps
  <2> QED BY <2>3, <2>4, <2>5
<1> QED BY <1>5, <1>6

LEMMA SettleRefines ==
  ASSUME IInv, Attached, Settle
  PROVE  Task!Next
<1>0. /\ procs \subseteq Tags /\ timedOut \subseteq procs
      /\ code \in [Tags -> {"none", "ok", "failed", "signal"}]
  BY DEF IInv, TypeOK
<1>1. /\ pc = "settle" /\ pc' = "refresh" /\ ~registered' /\ ~inCancelled'
      /\ verdict' = IF Cancelled THEN "cancelled"
                    ELSE IF AnyFailed THEN "failed" ELSE "completed"
      /\ UNCHANGED <<status, seen, cpc>>
  BY DEF Settle
<1>2. /\ \A f \in procs : ~Live(f)
      /\ \A f \in procs \ timedOut : code[f] = exit[f]
      /\ \A f \in timedOut : exit[f] = "signal"
      /\ \A f \in procs : code[f] # "none" => code[f] = exit[f]
  BY <1>0, <1>1 DEF IInv, Lives, Left, Codes, Attached
<1>3. /\ TaskPC = "loop" /\ TaskPC' = "refresh" /\ Proc' = "none"
      /\ ActiveTask' = "no task" /\ UNCHANGED CancelPC /\ Final' = verdict'
  BY <1>1 DEF TaskPC, Proc, ActiveTask, CancelPC, Final, InLoop
<1>4. \A f \in procs : Signalled(f) <=> code[f] = "signal"
  BY <1>0, <1>2 DEF Signalled
<1>5. Proc = IF \E f \in procs : code[f] = "signal" THEN "killed"
             ELSE IF timedOut # {} THEN "timedout"
             ELSE IF \A f \in procs : exit[f] = "ok" THEN "ok" ELSE "failed"
  BY <1>1, <1>2, <1>4 DEF Proc, InLoop
<1>6. Proc = "killed" <=> \E f \in procs : code[f] = "signal"
  BY <1>5
<1>7. Proc # "killed" => (Proc = "ok" <=> ~AnyFailed)
  <2> SUFFICES ASSUME Proc # "killed" PROVE Proc = "ok" <=> ~AnyFailed
    OBVIOUS
  <2>1. CASE timedOut # {}
    <3>1. PICK f \in timedOut : TRUE
      BY <2>1
    <3>2. code[f] # "ok" /\ f \in procs
      BY <1>0, <1>2
    <3>3. AnyFailed
      BY <3>2 DEF AnyFailed
    <3> QED BY <1>5, <1>6, <2>1, <3>3
  <2>2. CASE timedOut = {}
    <3>1. \A f \in procs : code[f] = exit[f]
      BY <1>2, <2>2
    <3> QED BY <1>5, <1>6, <2>2, <3>1 DEF AnyFailed
  <2> QED BY <2>1, <2>2
<1>8. Final' = IF Proc = "killed" \/ inCancelled THEN "cancelled"
               ELSE IF Proc = "ok" THEN "completed" ELSE "failed"
  BY <1>1, <1>3, <1>6, <1>7 DEF Cancelled
<1>9. Proc # "live"
  BY <1>5
<1> QED BY <1>1, <1>3, <1>8, <1>9, LeaveMaps

LEMMA CancelKillRefines ==
  ASSUME IInv, Attached, CancelKill
  PROVE  Task!Next
<1>0. /\ procs \subseteq Tags /\ active \subseteq procs
      /\ timedOut \subseteq procs
  BY DEF IInv, TypeOK
<1>1. /\ cpc = "kill" /\ cpc' = "save" /\ inCancelled' /\ Kill(active)
      /\ ~registered' /\ active' = {}
      /\ UNCHANGED <<pc, procs, verdict, status, seen, timedOut>>
  BY DEF CancelKill, CancelGoes
<1>2. /\ Polled(active)
      /\ \A f \in Tags :
           /\ f \in active /\ Live(f) => exit'[f] = "signal"
           /\ f \notin active \/ ~Live(f) => exit'[f] = exit[f]
  BY <1>0, <1>1, KillFacts DEF IInv
<1>3. /\ CancelPC = "kill" /\ CancelPC' = "cancel" /\ ActiveTask' = "no task"
      /\ UNCHANGED <<InLoop, TaskPC, Final>>
  BY <1>1 DEF CancelPC, ActiveTask, InLoop, TaskPC, Final
<1>4. CASE ~InLoop
  <2>1. Proc' = "none"
    BY <1>1, <1>3, <1>4 DEF Proc
  <2>2. Proc = "live" => ActiveTask = "task" /\ TaskPC # "loop"
    BY <1>4 DEF Proc, ActiveTask, TaskPC, Attached, InLoop
  <2>3. Proc \in {"live", "none"}
    BY <1>4 DEF Proc
  <2> QED BY <1>1, <1>3, <2>1, <2>2, <2>3, CancelKillMaps
<1>5. CASE InLoop
  <2>1. TaskPC = "loop" /\ (registered <=> ActiveTask = "task")
    BY <1>5 DEF TaskPC, ActiveTask, InLoop
  <2>2. \A f \in Tags : ~Live(f)'
    BY <1>2, <1>5 DEF Attached, Live
  <2>3. CASE Proc = "live"
    <3>1. PICK f \in procs : Live(f)
      BY <1>5, <2>3 DEF Proc
    <3>2. f \in active /\ f \notin timedOut /\ exit'[f] = "signal"
      BY <1>0, <1>2, <1>5, <3>1 DEF Attached, Live
    <3>3. Signalled(f)' /\ ActiveTask = "task"
      BY <1>1, <2>1, <3>2 DEF Signalled, Attached
    <3>4. Proc' = "killed"
      BY <1>0, <1>1, <1>3, <1>5, <2>2, <3>3 DEF Proc
    <3> QED BY <1>1, <1>3, <2>1, <2>3, <3>3, <3>4, CancelKillMaps
  <2>4. CASE Proc # "live"
    <3>1. \A f \in procs : ~Live(f) /\ exit'[f] = exit[f]
      BY <1>0, <1>2, <1>5, <2>4 DEF Proc
    <3>2. \A f \in procs : Signalled(f) => Signalled(f)'
      BY <1>0, <1>1, <1>2, <3>1 DEF Signalled, Polled
    <3>3. CASE \E f \in procs : Signalled(f)' /\ ~Signalled(f)
      <4>1. PICK f \in procs : Signalled(f)' /\ ~Signalled(f)
        BY <3>3
      <4>2. f \in active /\ f \in timedOut
        BY <1>0, <1>1, <1>2, <3>1, <4>1 DEF Signalled, Polled
      <4>3. ActiveTask = "task"
        BY <2>1, <4>2 DEF Attached
      <4>4. Proc' = "killed"
        BY <1>0, <1>1, <1>3, <1>5, <2>2, <4>1 DEF Proc
      <4>5. Proc \in {"killed", "timedout"}
        BY <1>5, <3>1, <4>2 DEF Proc
      <4>6. CASE Proc = "killed"
        BY <1>1, <1>3, <2>4, <4>4, <4>6, CancelKillMaps
      <4>7. CASE Proc = "timedout"
        BY <1>1, <1>3, <2>1, <4>3, <4>4, <4>7, CancelKillMaps
      <4> QED BY <4>5, <4>6, <4>7
    <3>4. CASE ~\E f \in procs : Signalled(f)' /\ ~Signalled(f)
      <4>1. \A f \in procs : Signalled(f)' <=> Signalled(f)
        BY <3>2, <3>4
      <4>2. Proc' = Proc
        BY <1>0, <1>1, <1>3, <1>5, <2>2, <3>1, <4>1 DEF Proc
      <4> QED BY <1>1, <1>3, <2>4, <4>2, CancelKillMaps
    <3> QED BY <3>3, <3>4
  <2> QED BY <2>3, <2>4
<1> QED BY <1>4, <1>5

LEMMA TaskStepRefines ==
  ASSUME IInv, Attached,
         StartRun \/ Refresh \/ SaveStatus \/ Finalize \/ DatabaseFails
  PROVE  Task!Next \/ UNCHANGED Task!vars
<1>0. /\ UNCHANGED <<procs, exit, code, timedOut, registry, cpc>>
      /\ CancelPC' = CancelPC /\ active \subseteq procs
  BY DEF StartRun, Refresh, SaveStatus, Finalize, DatabaseFails, CancelPC,
         IInv, TypeOK
<1> USE DEF TaskPC, Proc, ActiveTask, Final, InLoop
<1>1. CASE StartRun
  <2>1. /\ pc = "start" /\ pc' = "launch" /\ seen' = "running"
        /\ status' = IF seen = "running" THEN status ELSE "running"
    BY <1>1 DEF StartRun
  <2>2. /\ TaskPC = "launch" /\ TaskPC' = "start"
        /\ UNCHANGED <<Proc, ActiveTask, Final>>
    BY <1>0, <2>1
  <2> QED BY <1>0, <2>1, <2>2, StartMaps
<1>2. CASE Refresh
  <2>1. pc = "refresh" /\ pc' = "save" /\ seen' = status
        /\ UNCHANGED <<status, verdict>>
    BY <1>2 DEF Refresh
  <2>2. /\ TaskPC = "refresh" /\ TaskPC' = "commit"
        /\ Final' = IF status = "cancelled" THEN status ELSE Final
        /\ UNCHANGED <<Proc, ActiveTask>>
    BY <1>0, <2>1
  <2> QED BY <1>0, <2>1, <2>2, RefreshMaps
<1>3. CASE SaveStatus
  <2>1. /\ pc = "save" /\ pc' \in {"done", "finalize"} /\ UNCHANGED seen
        /\ status' = IF seen = Final THEN status ELSE Final
    BY <1>3 DEF SaveStatus
  <2>2. /\ TaskPC = "commit" /\ TaskPC' = "teardown" /\ Final' = "none"
        /\ UNCHANGED <<Proc, ActiveTask>>
    BY <1>0, <2>1
  <2> QED BY <1>0, <2>1, <2>2, SaveMaps
<1>4. CASE Finalize
  <2>1. pc = "finalize" /\ pc' = "done" /\ UNCHANGED <<status, seen>>
    BY <1>4 DEF Finalize
  <2>2. UNCHANGED <<TaskPC, Proc, ActiveTask, Final>>
    BY <1>0, <2>1
  <2> QED BY <1>0, <2>1, <2>2, Stutter DEF mapped
<1>5. CASE DatabaseFails
  <2>1. /\ pc \in {"commit", "flush", "refresh"} /\ pc' = "raised"
        /\ seen' = IF pc = "refresh" THEN status ELSE seen
        /\ UNCHANGED status
    BY <1>5 DEF DatabaseFails
  <2>2. /\ TaskPC \in {"loop", "refresh"} /\ TaskPC' = "except"
        /\ Final' = "none" /\ (TaskPC = "refresh" <=> pc = "refresh")
    BY <2>1
  <2>3. (\E f \in active : Live(f)) <=> \E f \in procs : Live(f) /\ InLoop
    BY <1>0, <2>1 DEF Attached, IInv, TypeOK, Lives, Left
  <2>4. Proc' = IF Proc = "live" THEN Proc ELSE "none"
    BY <1>0, <2>1, <2>3 DEF Live
  <2>5. ActiveTask' = IF Proc = "live" THEN ActiveTask ELSE "no task"
    BY <1>0, <2>1, <2>4
  <2> QED BY <1>0, <2>1, <2>2, <2>4, <2>5, FailMaps
<1> QED BY <1>1, <1>2, <1>3, <1>4, <1>5

\* Every step of the capture is one of its run or changes nothing of it.
LEMMA TaskRefines ==
  ASSUME IInv, Attached, [Next]_vars
  PROVE  Task!Next \/ UNCHANGED Task!vars
<1> USE DEF Capture
<1>0. /\ procs \subseteq Tags /\ active \subseteq procs
      /\ timedOut \subseteq procs
      /\ status \in {"running"} \cup Terminal
      /\ exit \in [Tags -> {"none", "live", "ok", "failed", "signal"}]
  BY DEF IInv, TypeOK
<1>1. CASE UNCHANGED vars \/ \E f \in Tags : WriteLine(f) \/ ReadLine(f)
  <2>1. UNCHANGED <<pc, procs, exit, code, timedOut, active, registered,
                    inCancelled, verdict, status, seen, cpc>>
    BY <1>1 DEF vars, WriteLine, ReadLine
  <2> QED BY <2>1, MappedStays
<1>2. CASE Drain \/ CommitBatch \/ LeaveLoop \/ PollProcesses \/ CheckDone
  <2>1. /\ InLoop /\ InLoop'
        /\ UNCHANGED <<procs, exit, timedOut, registered, inCancelled,
                       status, seen, cpc>>
        /\ UNCHANGED code \/ pc \in {"poll", "check"}
    BY <1>2 DEF Drain, CommitBatch, LeaveLoop, PollProcesses, CheckDone,
                TakeBatch, InLoop
  <2>2. \A f \in timedOut : code'[f] = code[f]
    BY <2>1 DEF Attached, Left
  <2> QED BY <2>1, <2>2, GoesOn
<1>3. CASE StartRun \/ Refresh \/ SaveStatus \/ Finalize \/ DatabaseFails
  BY <1>3, TaskStepRefines
<1>4. CASE Launch \/ LaunchFails \/ TimeUp \/ Settle \/ CancelKill
  BY <1>4, LaunchRefines, TimeUpRefines, SettleRefines, CancelKillRefines
<1>5. CASE CancelLoad \/ CancelSave
  <2>1. /\ UNCHANGED <<pc, procs, exit, code, timedOut, active, registered,
                       inCancelled, verdict, seen>>
        /\ \/ cpc = "idle" /\ cpc' \in {"refused", "kill"} /\ status' = status
                /\ (cpc' = "kill" => status = "running")
           \/ cpc = "save" /\ cpc' = "answered" /\ status' = "cancelled"
    BY <1>0, <1>5 DEF CancelLoad, CancelSave, CancelGoes
  <2>2. UNCHANGED <<TaskPC, Proc, ActiveTask, Final>>
    <3>1. UNCHANGED <<TaskPC, Final, Proc>>
      BY <2>1 DEF TaskPC, Proc, Final, InLoop, Live, Signalled
    <3> QED BY <2>1, <3>1 DEF ActiveTask
  <2>3. CASE cpc = "idle" /\ cpc' = "refused"
    <3>1. CancelPC' = CancelPC
      BY <2>3 DEF CancelPC
    <3> QED BY <2>1, <2>2, <2>3, <3>1, Stutter DEF mapped
  <2>4. CASE cpc = "idle" /\ cpc' = "kill"
    BY <2>1, <2>2, <2>4, CancelLoadMaps DEF CancelPC
  <2>5. CASE cpc = "save"
    BY <2>1, <2>2, <2>5, CancelSaveMaps DEF CancelPC
  <2> QED BY <2>1, <2>3, <2>4, <2>5
<1>6. CASE ActiveFiles
  BY <1>6, PollRefines DEF ActiveFiles
<1>7. ASSUME NEW f \in Tags, CancelFile(f) \/ Ends(f)
      PROVE  Task!Next \/ UNCHANGED Task!vars
  <2>1. CASE Ends(f)
    <3>0. PICK x \in {<<"ok", "full">>, <<"failed", "full">>,
                       <<"failed", "none">>} :
            exit' = [exit EXCEPT ![f] = x[1]]
      BY <2>1 DEF Ends
    <3>1. PICK e \in {"ok", "failed", "signal"} :
            exit' = [exit EXCEPT ![f] = e]
      <4>1. x[1] \in {"ok", "failed", "signal"}
        OBVIOUS
      <4> QED BY <3>0, <4>1
    <3>2. /\ Live(f) /\ active' = active
          /\ UNCHANGED <<pc, procs, timedOut, registered, inCancelled,
                        verdict, status, seen, cpc>>
      BY <2>1 DEF Ends
    <3> QED BY <3>1, <3>2, EndRefines
  <2>2. CASE CancelFile(f) /\ Live(f)
    <3>1. exit' = [exit EXCEPT ![f] = "signal"]
      BY <1>0, <2>2 DEF CancelFile, Kill
    <3>2. /\ Live(f) /\ active' = active \ {f}
          /\ UNCHANGED <<pc, procs, timedOut, registered, inCancelled,
                        verdict, status, seen, cpc>>
      BY <2>2 DEF CancelFile
    <3>3. PICK e \in {"ok", "failed", "signal"} :
            exit' = [exit EXCEPT ![f] = e]
      BY <3>1
    <3> QED BY <3>2, <3>3, EndRefines
  <2>3. CASE CancelFile(f) /\ ~Live(f)
    <3>1. exit' = exit /\ {f} \in SUBSET active /\ Polled({f})
      BY <1>0, <2>3 DEF CancelFile, Kill
    <3> QED BY <2>3, <3>1, PollRefines DEF CancelFile
  <2> QED BY <1>7, <2>1, <2>2, <2>3
<1> QED BY <1>1, <1>2, <1>3, <1>4, <1>5, <1>6, <1>7 DEF Next

LEMMA InitMaps == Init => Task!IInv
<1> USE DEF OfRun, OfTask, OfBoth, Handlers
<1> SUFFICES ASSUME Init PROVE Task!IInv
  OBVIOUS
<1>1. /\ TaskPC = "launch" /\ Proc = "none" /\ ActiveTask = "no task"
      /\ Final = "none" /\ CancelPC \in {"idle", "done"}
      /\ status \in {"running", "cancelled"} /\ seen = status
  BY DEF Init, TaskPC, Proc, ActiveTask, Final, CancelPC, InLoop
<1>2. Task!TablesTypeOK
  <2>1. status \in Task!Statuses
    BY <1>1 DEF Task!Statuses, Task!Active, Task!Terminal
  <2>2. [x \in {"run"} \X ({"run"} \cup Handlers) |-> "none"]
          \in [Task!Rows -> {"none", "held", "released"}]
    BY DEF Task!Rows, Task!Workers
  <2> QED BY <2>1, <2>2 DEF Task!TablesTypeOK
<1>3. Task!QueueTypeOK
  <2>1. status \in Task!Statuses
    BY <1>1 DEF Task!Statuses, Task!Active, Task!Terminal
  <2> USE DEF Task!Workers, Task!CreatorPCs, Task!WorkerPCs, Task!TaskPCs,
              Task!ReleasePCs, Task!ProcStates
  <2>2. /\ OfBoth(TaskPC, CancelPC) \in [Task!Workers -> Task!WorkerPCs]
        /\ OfBoth(seen, "none") \in [Task!Workers -> Task!Statuses]
    BY <1>1, <2>1 DEF Task!Statuses
  <2>3. OfTask(Proc) \in [{"task"} -> Task!ProcStates]
    BY <1>1
  <2> QED BY <1>1, <2>2, <2>3 DEF Task!QueueTypeOK, Task!Statuses
<1>4. Task!TypeOK
  <2>1. inCancelled \in BOOLEAN
    BY DEF Init
  <2>2. /\ OfTask(Final) \in [{"task"} -> Task!Terminal \cup {"none"}]
        /\ OfRun(ActiveTask) \in [{"run"} -> {"task"} \cup {"no task"}]
    BY <1>1
  <2>3. [a \in {} |-> {}] \in [{} -> SUBSET Task!Rows]
    OBVIOUS
  <2>4. /\ [a \in {} |-> "idle"]
             \in [{} -> {"idle", "cleanup", "write", "done"}]
        /\ [a \in {} |-> {}] \in [{} -> SUBSET {"run"}]
    OBVIOUS
  <2>5. (IF inCancelled THEN {"run"} ELSE {}) \subseteq {"run"}
    BY <2>1
  <2>6. [c \in {"cancel"} |-> FALSE] \in [{"cancel"} -> BOOLEAN] /\ 0 \in 0..0
    OBVIOUS
  <2> HIDE DEF OfTask, OfRun
  <2> QED BY <1>2, <1>3, <2>2, <2>3, <2>4, <2>5, <2>6 DEF Task!TypeOK
<1> USE DEF Task!Held, Task!Settled, Task!TaskPCs, Task!Workers, Task!Attended,
            Task!Responsible, Task!Terminal
<1>5. Task!LocalsOK /\ Task!CreatedAlone /\ Task!TasksDoNotWait
  BY <1>1 DEF Task!LocalsOK, Task!CreatedAlone, Task!TasksDoNotWait
<1>6. Task!PromotedWasQueued /\ Task!LocksOfStarted /\ Task!WaitingIsQueued
  BY <1>1 DEF Task!PromotedWasQueued, Task!LocksOfStarted, Task!WaitingIsQueued,
              Task!Rows
<1>7. Task!QueuedIsWaiting /\ Task!RunningIsAttended
  BY <1>1 DEF Task!QueuedIsWaiting, Task!RunningIsAttended
<1> QED BY <1>4, <1>5, <1>6, <1>7 DEF Task!IInv, Task!Relations

\* RunCapture!ImplementsTask: what the processes, the polling loop, the
\* timeout and the requests do is what RunService says of the run.
THEOREM CaptureIsTask == Spec => ImplementsTask
<1>1. IInv /\ Attached /\ [Next]_vars => [Task!Next]_(Task!vars)
  BY TaskRefines
<1>2. IInv /\ Attached /\ [Next]_vars => Attached'
  BY AttachedStep
<1> QED BY <1>1, <1>2, AttachedInit, InitMaps, Invariance, PTL
        DEF Spec, ImplementsTask

=============================================================================
