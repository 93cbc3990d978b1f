-------------------------- MODULE RetentionProofs ---------------------------
(***************************************************************************)
(* Proofs about Retention, for any number of runs, clients, limits and     *)
(* failures: runs that are not over are kept, what is deleted leaves       *)
(* nothing behind, and no client keeps more runs than the limit.           *)
(*                                                                         *)
(* The first two rest on what holds between the SELECT of run ids and      *)
(* their deletion: a selected run does not become active again unless it   *)
(* was cancelled early (ChosenAreOver, with TasksOfCancelled), and what is *)
(* deleted but not committed has no directory left unless its task made it *)
(* again (DoomedHaveNoDir).                                                *)
(* The limit rests on what a pass with that limit or a smaller one knows   *)
(* of a client after each of its statements (InHand), which the passes of  *)
(* others can only make smaller.                                           *)
(***************************************************************************)
EXTENDS Retention, FiniteSetTheorems, TLAPS

Over(r) == row[r] \in {"finished", "gone"} \/ r \in early

\* The selected and the deleted runs are over.
ChosenAreOver == \A w \in Workers : \A r \in ids[w] \cup doomed[w] : Over(r)

\* A run whose tests are not launched is finished only if it was cancelled.
TasksOfCancelled ==
  \A r \in Runs :
    row[r] = "finished" /\ task[r] \in {"none", "setup"} => r \in early

\* Ids are kept from the SELECT to the removal of the directories only.
NoIdsLeft ==
  \A w \in Workers : wpc[w] \notin {"delete", "dirs", "prune"} => ids[w] = {}

DoomedHaveNoDir == \A w \in Workers : doomed[w] \cap dir \subseteq relics

\* A run whose tests have ended does not become active again.
EndedAreOver ==
  \A r \in Runs :
    task[r] \in {"teardown", "over"} => row[r] \in {"finished", "gone"}

\* The task of a run prunes after it has ended.
PrunesLast == \A r \in Runs : task[r] # "over" => wpc[r] = "idle"

\* Client c has been counted by worker w or will be, in the pass it makes: what
\* w still deletes leaves no more than the limit.
InHand(w, c) ==
  /\ wpc[w] \in {"count", "list", "prune"} /\ MaxCount(w) <= Max
  /\ \/ c \in clients[w]
     \/ /\ wpc[w] = "list" /\ excess[w].of = c
        /\ Cardinality(Seen(w, c)) <= Max + excess[w].n
     \/ wpc[w] = "prune" /\ Cardinality(Seen(w, c) \ ids[w]) <= Max
     \/ Cardinality(Seen(w, c)) <= Max

Few(c) == Cardinality(FinishedOf(c)) <= Max

Counting == \A c \in Clients \ due : Few(c) \/ \E w \in Workers : InHand(w, c)

Order ==
  /\ ChosenAreOver /\ TasksOfCancelled /\ NoIdsLeft /\ PrunesLast
  /\ EndedAreOver

Traces == DoomedHaveNoDir /\ Leftovers

Rest == Order /\ Traces

IInv == TypeOK /\ Rest

USE DEF runs, worker, history

-----------------------------------------------------------------------------
LEMMA InitInv == Init => IInv
<1> SUFFICES ASSUME Init PROVE IInv
  OBVIOUS
<1>1. /\ Runs \subseteq Workers /\ Purger \in Workers
      /\ ids = [w \in Workers |-> {}] /\ doomed = [w \in Workers |-> {}]
      /\ clients = [w \in Workers |-> {}]
  BY DEF Init, Workers
<1>2. TypeOK
  <2>1. NoExcess \in [of : Clients \cup {None}, n : Nat]
    BY DEF NoExcess
  <2>2. {children, dir, early, late, relics} \subseteq SUBSET Runs
    BY DEF Init
  <2>3. /\ row \in [Runs -> {"new", "active", "finished", "gone"}]
        /\ task \in [Runs -> {"none", "setup", "capture", "teardown", "over"}]
        /\ wpc \in [Workers -> {"idle", "purge"}]
    BY <1>1 DEF Init
  <2>4. limit \in Limits \cup {Max} /\ fails \in 0..MaxFails
    BY ConstantsOK DEF Init
  <2>5. None \notin Workers /\ locked = None
    BY ConstantsOK DEF Init
  <2>6. /\ wpc \in [Workers -> {"idle", "purge", "delete", "dirs", "clients",
                               "count", "list", "prune", "orphans", "over"}]
        /\ \A w \in Workers : doomed[w] = {} /\ locked # w
    BY <1>1, <2>3, <2>5
  <2>7. /\ ids \in [Workers -> SUBSET Runs]
        /\ doomed \in [Workers -> SUBSET Runs]
        /\ clients \in [Workers -> SUBSET Clients] /\ due \subseteq Clients
    BY <1>1 DEF Init
  <2>8. excess \in [Workers -> [of : Clients \cup {None}, n : Nat]]
    BY <2>1 DEF Init
  <2>9. asked \in BOOLEAN /\ first \in BOOLEAN
    BY DEF Init
  <2> QED BY <2>2, <2>3, <2>4, <2>5, <2>6, <2>7, <2>8, <2>9 DEF TypeOK
<1>3. Rest
  <2>1. PrunesLast
    BY ConstantsOK DEF Init, PrunesLast, Workers
  <2>2. ChosenAreOver /\ NoIdsLeft /\ DoomedHaveNoDir
    BY <1>1 DEF ChosenAreOver, NoIdsLeft, DoomedHaveNoDir
  <2>3. TasksOfCancelled /\ EndedAreOver /\ Leftovers
    BY DEF Init, TasksOfCancelled, EndedAreOver, Leftovers
  <2> QED BY <2>1, <2>2, <2>3 DEF Rest, Order, Traces
<1> QED BY <1>2, <1>3 DEF IInv

-----------------------------------------------------------------------------
\* The runs and their tasks.
LEMMA RunType ==
  ASSUME TypeOK, NEW r \in Runs, RunStep(r)
  PROVE  TypeOK'
<1> USE DEF TypeOK
<1>0. Owner[r] \in Clients /\ r \in Workers
  BY ConstantsOK DEF Workers
<1>1. CASE CreateRun(r)
  BY <1>1 DEF CreateRun
<1>2. CASE WriteReports(r)
  BY <1>2 DEF WriteReports
<1>3. CASE StartTask(r)
  BY <1>3 DEF StartTask, TaskGoes, WritesLog
<1>4. CASE Launch(r)
  BY <1>4 DEF Launch, TaskGoes
<1>5. CASE TaskWrites(r)
  BY <1>5 DEF TaskWrites, WritesLog
<1>6. CASE FinishRun(r)
  BY <1>0, <1>6 DEF FinishRun, TaskGoes
<1>7. CASE EndTask(r)
  BY <1>0, <1>7, ConstantsOK DEF EndTask, Unlocked
<1>8. CASE CancelRun(r)
  BY <1>0, <1>8 DEF CancelRun
<1> QED BY <1>1, <1>2, <1>3, <1>4, <1>5, <1>6, <1>7, <1>8 DEF RunStep

LEMMA RunInv ==
  ASSUME IInv, NEW r \in Runs, RunStep(r)
  PROVE  IInv'
<1> USE DEF IInv, Rest
<1>1. TypeOK'
  BY RunType
<1>2. CASE CreateRun(r) \/ StartTask(r)
  <2>0. UNCHANGED <<wpc, ids, doomed, early>>
    BY <1>2 DEF CreateRun, StartTask
  <2>1. Order'
    <3>1. CASE CreateRun(r)
      BY <1>1, <2>0, <3>1 DEF CreateRun, TypeOK,
         Order, ChosenAreOver, Over, TasksOfCancelled, NoIdsLeft, PrunesLast,
         EndedAreOver
    <3>2. CASE StartTask(r)
      BY <1>1, <2>0, <3>2 DEF StartTask, TaskGoes, TypeOK,
         Order, ChosenAreOver, Over, TasksOfCancelled, NoIdsLeft, PrunesLast,
         EndedAreOver
    <3> QED BY <1>2, <3>1, <3>2
  <2>2. Traces'
    BY <1>1, <1>2 DEF CreateRun, StartTask, TaskGoes, WritesLog, TypeOK,
         Traces, DoomedHaveNoDir, Leftovers
  <2> QED BY <1>1, <2>1, <2>2
<1>3. CASE Launch(r)
  <2>1. Order'
    BY <1>1, <1>3 DEF Launch, TaskGoes, TypeOK,
         Order, ChosenAreOver, Over, TasksOfCancelled, NoIdsLeft, PrunesLast,
         EndedAreOver
  <2>2. Traces'
    <3>1. \A w \in Workers : doomed[w] = {}
      BY <1>3, ConstantsOK DEF Launch, TaskGoes, Unlocked, TypeOK
    <3>2. /\ row[r] # "gone" /\ row' = [row EXCEPT ![r] = "active"]
          /\ dir' = dir \cup {r}
          /\ UNCHANGED <<children, wpc, ids, doomed, late, relics>>
      BY <1>3 DEF Launch
    <3> QED BY <3>1, <3>2 DEF TypeOK, Traces, DoomedHaveNoDir, Leftovers
  <2> QED BY <1>1, <2>1, <2>2
<1>4. CASE TaskWrites(r) \/ WriteReports(r)
  <2>1. Order'
    BY <1>1, <1>4 DEF TaskWrites, WriteReports, WritesLog, TypeOK,
         Order, ChosenAreOver, Over, TasksOfCancelled, NoIdsLeft, PrunesLast,
         EndedAreOver
  <2>2. Traces'
    BY <1>1, <1>4 DEF TaskWrites, WriteReports, WritesLog, TypeOK,
         Traces, DoomedHaveNoDir, Leftovers
  <2> QED BY <1>1, <2>1, <2>2
<1>5. CASE FinishRun(r) \/ CancelRun(r)
  <2>1. Order'
    <3>1. CASE FinishRun(r)
      BY <1>1, <3>1 DEF FinishRun, TaskGoes, TypeOK,
         Order, ChosenAreOver, Over, TasksOfCancelled, NoIdsLeft, PrunesLast,
         EndedAreOver
    <3>2. CASE CancelRun(r)
      BY <1>1, <3>2 DEF CancelRun, TypeOK,
         Order, ChosenAreOver, Over, TasksOfCancelled, NoIdsLeft, PrunesLast,
         EndedAreOver
    <3> QED BY <1>5, <3>1, <3>2
  <2>2. Traces'
    BY <1>1, <1>5 DEF FinishRun, CancelRun, TaskGoes, Unlocked, TypeOK,
         Traces, DoomedHaveNoDir, Leftovers
  <2> QED BY <1>1, <2>1, <2>2
<1>6. CASE EndTask(r)
  <2>1. Order'
    BY <1>1, <1>6 DEF EndTask, TypeOK,
         Order, ChosenAreOver, Over, TasksOfCancelled, NoIdsLeft, PrunesLast,
         EndedAreOver
  <2>2. Traces'
    <3>1. wpc[r] = "idle" /\ \A w \in Workers : w # r => wpc'[w] = wpc[w]
      BY <1>6 DEF EndTask, TypeOK, Order, PrunesLast
    <3>2. UNCHANGED <<row, children, dir, ids, doomed, late, relics>>
      BY <1>6 DEF EndTask
    <3> QED BY <3>1, <3>2 DEF Traces, DoomedHaveNoDir, Leftovers
  <2> QED BY <1>1, <2>1, <2>2
<1> QED BY <1>2, <1>3, <1>4, <1>5, <1>6 DEF RunStep

-----------------------------------------------------------------------------
\* The workers: what they select, delete and remove.
LEMMA CountType ==
  ASSUME TypeOK, NEW w \in Workers, NEW c
  PROVE  Cardinality(Seen(w, c)) \in Nat /\ MaxCount(w) \in Nat
<1>1. IsFiniteSet(Runs)
  BY ConstantsOK, FS_Interval DEF Runs
<1>2. Seen(w, c) \subseteq Runs
  BY DEF Seen, FinishedOf
<1>3. Cardinality(Seen(w, c)) \in Nat
  BY <1>1, <1>2, FS_Subset, FS_CardinalityType
<1> QED BY <1>3, ConstantsOK DEF MaxCount, TypeOK

LEMMA WorkType ==
  ASSUME TypeOK, NEW w \in Workers, Work(w)
  PROVE  TypeOK'
<1> USE DEF TypeOK, WorkerGoes, Select
<1>1. CASE SelectOld(w)
  <2>1. PICK S \in SUBSET Runs :
          /\ ids' = [ids EXCEPT ![w] = S]
          /\ wpc' = [wpc EXCEPT ![w] = IF S = {} THEN "clients" ELSE "delete"]
    <3>1. PICK aged \in Aged : LET S == {r \in aged : row[r] = "finished"} IN
            /\ ids' = [ids EXCEPT ![w] = S]
            /\ wpc' = [wpc EXCEPT ![w] = IF S = {} THEN "clients"
                                                   ELSE "delete"]
      BY <1>1 DEF SelectOld
    <3>2. aged \subseteq Runs
      BY ConstantsOK DEF Aged, Runs
    <3> QED BY <3>1, <3>2
  <2>2. /\ wpc[w] = "purge"
        /\ UNCHANGED <<runs, clients, excess, limit, asked, doomed, locked,
                       first, fails, history>>
    BY <1>1 DEF SelectOld
  <2> QED BY <2>1, <2>2
<1>2. CASE DeleteOld(w)
  BY <1>2 DEF DeleteOld, Deleted
<1>3. CASE RemoveDirs(w)
  BY <1>3 DEF RemoveDirs, Missed
<1>4. CASE SelectClients(w)
  BY <1>4 DEF SelectClients
<1>5. CASE SelectExcess(w)
  BY <1>5 DEF SelectExcess, Oldest, Seen, FinishedOf, NoExcess
<1>6. CASE DeleteExcess(w)
  <2>1. None \notin Workers
    BY ConstantsOK
  <2>2. /\ locked' = w /\ wpc' = [wpc EXCEPT ![w] = "count"]
        /\ doomed' = [doomed EXCEPT ![w] = @ \cup ids[w]]
        /\ \A v \in Workers : v # w => doomed[v] = {}
    BY <1>6, <2>1 DEF DeleteExcess
  <2>3. /\ dir' \subseteq Runs /\ relics' \subseteq Runs
        /\ ids' = [ids EXCEPT ![w] = {}]
        /\ UNCHANGED <<row, children, task, clients, excess, limit, asked,
                       first, fails, early, late, due>>
    BY <1>6 DEF DeleteExcess, Missed
  <2>4. wpc' \in [Workers -> {"idle", "purge", "delete", "dirs", "clients",
                             "count", "list", "prune", "orphans", "over"}]
    BY <2>2
  <2>5. /\ doomed' \in [Workers -> SUBSET Runs]
        /\ \A v \in Workers : v # w => doomed'[v] = {}
    BY <2>2
  <2> QED BY <2>2, <2>3, <2>4, <2>5
<1>7. CASE CommitPrune(w)
  BY <1>7, ConstantsOK DEF CommitPrune, Release, Deleted, PassOver
<1>8. ASSUME NEW c \in Clients, Count(w, c) PROVE TypeOK'
  <2>1. Cardinality(Seen(w, c)) \in Nat /\ MaxCount(w) \in Nat
    BY CountType
  <2>2. CASE Cardinality(Seen(w, c)) <= MaxCount(w)
    BY <1>8, <2>1, <2>2 DEF Count, NextClient
  <2>3. CASE ~(Cardinality(Seen(w, c)) <= MaxCount(w))
    <3>1. Cardinality(Seen(w, c)) - MaxCount(w) \in Nat
      BY <2>1, <2>3
    <3>2. /\ wpc' = [wpc EXCEPT ![w] = "list"] /\ wpc[w] = "count"
          /\ clients' = [clients EXCEPT ![w] = @ \ {c}]
          /\ \E e \in [of : Clients \cup {None}, n : Nat] :
               excess' = [excess EXCEPT ![w] = e]
          /\ UNCHANGED <<runs, ids, limit, asked, doomed, locked, first,
                         fails, history>>
      BY <1>8, <2>3, <3>1 DEF Count, NextClient
    <3> QED BY <3>2
  <2> QED BY <2>2, <2>3
<1> QED BY <1>1, <1>2, <1>3, <1>4, <1>5, <1>6, <1>7, <1>8
        DEF Work, Purge, Prune

LEMMA WorkInv ==
  ASSUME IInv, NEW w \in Workers, Work(w)
  PROVE  IInv'
<1> USE DEF IInv, Rest, WorkerGoes, Select
<1>1. TypeOK'
  BY WorkType
<1>2. CASE SelectOld(w)
  <2>1. Order'
    BY <1>1, <1>2 DEF SelectOld, Aged, TypeOK,
         Order, ChosenAreOver, Over, TasksOfCancelled, NoIdsLeft, PrunesLast,
         EndedAreOver
  <2>2. Traces'
    BY <1>1, <1>2 DEF SelectOld, Aged, TypeOK,
         Traces, DoomedHaveNoDir, Leftovers
  <2> QED BY <1>1, <2>1, <2>2
<1>3. CASE DeleteOld(w)
  <2>1. Order'
    BY <1>1, <1>3 DEF DeleteOld, Deleted, TypeOK,
         Order, ChosenAreOver, Over, TasksOfCancelled, NoIdsLeft, PrunesLast,
         EndedAreOver
  <2>2. Traces'
    BY <1>1, <1>3, ConstantsOK DEF DeleteOld, Deleted, Unlocked, TypeOK,
         Traces, DoomedHaveNoDir, Leftovers
  <2> QED BY <1>1, <2>1, <2>2
<1>4. CASE RemoveDirs(w)
  <2>1. Order'
    BY <1>1, <1>4 DEF RemoveDirs, Missed, TypeOK,
         Order, ChosenAreOver, Over, TasksOfCancelled, NoIdsLeft, PrunesLast,
         EndedAreOver
  <2>2. Traces'
    BY <1>1, <1>4 DEF RemoveDirs, Missed, TypeOK,
         Traces, DoomedHaveNoDir, Leftovers
  <2> QED BY <1>1, <2>1, <2>2
<1>5. CASE SelectClients(w) \/ \E c \in Clients : Count(w, c)
  <2>1. /\ UNCHANGED <<runs, ids, doomed, fails, early, late, relics>>
        /\ wpc[w] \in {"clients", "count"}
        /\ \E to \in {"count", "list"} : wpc' = [wpc EXCEPT ![w] = to]
    <3>1. CASE SelectClients(w)
      BY <3>1 DEF SelectClients
    <3>2. ASSUME NEW c \in Clients, Count(w, c)
          PROVE  <2>1!:
      BY <3>2 DEF Count, TypeOK
    <3> QED BY <1>5, <3>1, <3>2
  <2>2. Order'
    BY <1>1, <2>1 DEF TypeOK,
         Order, ChosenAreOver, Over, TasksOfCancelled, NoIdsLeft, PrunesLast,
         EndedAreOver
  <2>3. Traces'
    BY <1>1, <2>1 DEF TypeOK,
         Traces, DoomedHaveNoDir, Leftovers
  <2> QED BY <1>1, <2>2, <2>3
<1>6. CASE SelectExcess(w)
  <2> DEFINE S == Oldest(Seen(w, excess[w].of), excess[w].n)
  <2>1. S \subseteq Runs /\ \A r \in S : row[r] = "finished"
    BY DEF Oldest, Seen, FinishedOf
  <2>2. /\ ids' = [ids EXCEPT ![w] = S] /\ wpc[w] = "list"
        /\ wpc' = [wpc EXCEPT ![w] = IF S = {} THEN "count" ELSE "prune"]
        /\ UNCHANGED <<runs, doomed, fails, early, late, relics>>
    BY <1>6 DEF SelectExcess
  <2> HIDE DEF S
  <2>8. Order'
    BY <1>1, <2>1, <2>2, SMTT(20) DEF TypeOK,
         Order, ChosenAreOver, Over, TasksOfCancelled, NoIdsLeft, PrunesLast,
         EndedAreOver
  <2>9. Traces'
    BY <1>1, <2>1, <2>2, SMTT(20) DEF TypeOK,
         Traces, DoomedHaveNoDir, Leftovers
  <2> QED BY <1>1, <2>8, <2>9
<1>7. CASE DeleteExcess(w)
  <2>1. Order'
    BY <1>1, <1>7 DEF DeleteExcess, Missed, TypeOK,
         Order, ChosenAreOver, Over, TasksOfCancelled, NoIdsLeft, PrunesLast,
         EndedAreOver
  <2>2. Traces'
    BY <1>1, <1>7, ConstantsOK DEF DeleteExcess, Missed, TypeOK,
         Traces, DoomedHaveNoDir, Leftovers
  <2> QED BY <1>1, <2>1, <2>2
<1>8. CASE CommitPrune(w)
  <2>1. Order'
    BY <1>1, <1>8 DEF CommitPrune, Release, Deleted, TypeOK,
         Order, ChosenAreOver, Over, TasksOfCancelled, NoIdsLeft, PrunesLast,
         EndedAreOver
  <2>2. Traces'
    BY <1>1, <1>8 DEF CommitPrune, Release, Deleted, TypeOK,
         Traces, DoomedHaveNoDir, Leftovers
  <2> QED BY <1>1, <2>1, <2>2
<1> QED BY <1>2, <1>3, <1>4, <1>5, <1>6, <1>7, <1>8 DEF Work, Purge, Prune

\* The periodic task, failures and restarts.
LEMMA OtherInv ==
  ASSUME IInv, \/ StartPurge \/ RemoveOrphans \/ Restart
               \/ \E w \in Workers : WorkerFails(w)
  PROVE  IInv'
<1> USE DEF IInv, Rest
<1>0. Purger \in Workers /\ Purger \notin Runs /\ None \notin Workers
  BY ConstantsOK DEF Workers
<1>1. TypeOK'
  <2>1. CASE StartPurge
    BY <1>0, <2>1, ConstantsOK DEF StartPurge, WorkerGoes, TypeOK
  <2>2. CASE RemoveOrphans
    <3>1. dir' \subseteq Runs /\ relics' \subseteq Runs
      BY <2>2 DEF RemoveOrphans, Missed, TypeOK
    <3>2. /\ wpc[Purger] = "orphans" /\ first' = FALSE
          /\ wpc' = [wpc EXCEPT ![Purger] = "idle"]
          /\ UNCHANGED <<row, children, task, ids, clients, excess, limit,
                         asked, doomed, locked, fails, early, late, due>>
      BY <2>2 DEF RemoveOrphans, WorkerGoes
    <3> QED BY <1>0, <3>1, <3>2 DEF TypeOK
  <2>3. CASE Restart
    <3>1. NoExcess \in [of : Clients \cup {None}, n : Nat]
      BY DEF NoExcess
    <3>2. /\ ids' = [w \in Workers |-> {}] /\ clients' = ids'
          /\ doomed' = ids' /\ excess' = [w \in Workers |-> NoExcess]
      BY <2>3 DEF Restart
    <3>3. /\ wpc' \in [Workers -> {"purge", "idle", "over"}]
          /\ row' \in [Runs -> {"new", "active", "finished", "gone"}]
          /\ task' \in [Runs -> {"none", "over"}]
      BY <2>3 DEF Restart, TypeOK
    <3>4. /\ limit' \in Limits \cup {Max} /\ fails' \in 0..MaxFails
          /\ locked' = None
      BY <2>3, ConstantsOK DEF Restart, TypeOK
    <3>5. /\ ids' \in [Workers -> SUBSET Runs]
          /\ doomed' \in [Workers -> SUBSET Runs]
          /\ clients' \in [Workers -> SUBSET Clients] /\ due' \subseteq Clients
          /\ excess' \in [Workers -> [of : Clients \cup {None}, n : Nat]]
          /\ \A w \in Workers : doomed'[w] = {} /\ locked' # w
      BY <1>0, <2>3, <3>1, <3>2, <3>4 DEF Restart
    <3>6. /\ {children', dir', early', late', relics'} \subseteq SUBSET Runs
          /\ asked' \in BOOLEAN /\ first' \in BOOLEAN
      <4>1. \A w \in Workers : ids[w] \subseteq Runs
        BY DEF TypeOK
      <4>2. relics' \subseteq relics \cup UNION {ids[w] : w \in Workers}
        BY <2>3 DEF Restart
      <4>3. relics' \subseteq Runs
        BY <4>1, <4>2 DEF TypeOK
      <4>4. /\ UNCHANGED <<children, dir, late>> /\ early' = {}
            /\ asked' = FALSE /\ first' = TRUE
        BY <2>3 DEF Restart
      <4> QED BY <4>3, <4>4 DEF TypeOK
    <3>7. wpc' \in [Workers -> {"idle", "purge", "delete", "dirs", "clients",
                               "count", "list", "prune", "orphans", "over"}]
      BY <3>3
    <3>8. task' \in [Runs -> {"none", "setup", "capture", "teardown", "over"}]
      BY <3>3
    <3> QED BY <3>3, <3>4, <3>5, <3>6, <3>7, <3>8 DEF TypeOK
  <2>4. ASSUME NEW w \in Workers, WorkerFails(w) PROVE TypeOK'
    BY <1>0, <2>4, ConstantsOK
       DEF WorkerFails, Release, PassOver, Select, TypeOK, NoExcess
  <2> QED BY <2>1, <2>2, <2>3, <2>4
<1>2. Rest'
  <2>1. CASE StartPurge
    <3>1. Order'
      BY <1>0, <1>1, <2>1 DEF StartPurge, WorkerGoes, TypeOK,
         Order, ChosenAreOver, Over, TasksOfCancelled, NoIdsLeft, PrunesLast,
         EndedAreOver
    <3>2. Traces'
      BY <1>0, <1>1, <2>1 DEF StartPurge, WorkerGoes, TypeOK,
         Traces, DoomedHaveNoDir, Leftovers
    <3> QED BY <1>1, <3>1, <3>2
  <2>2. CASE RemoveOrphans
    <3>1. Order'
      BY <1>0, <1>1, <2>2 DEF RemoveOrphans, WorkerGoes, Missed, TypeOK,
         Order, ChosenAreOver, Over, TasksOfCancelled, NoIdsLeft, PrunesLast,
         EndedAreOver
    <3>2. Traces'
      BY <1>0, <1>1, <2>2 DEF RemoveOrphans, WorkerGoes, Missed, TypeOK,
         Traces, DoomedHaveNoDir, Leftovers
    <3> QED BY <1>1, <3>1, <3>2
  <2>3. CASE Restart
    <3>1. \A w \in Workers : ids'[w] = {} /\ doomed'[w] = {}
      BY <2>3 DEF Restart
    <3>2. \A r \in Runs : /\ row'[r] = "gone" => row[r] = "gone"
                          /\ row'[r] = "finished" => task'[r] = "over"
                          /\ task'[r] # "over" => wpc'[r] = "idle"
      BY <1>0, <2>3 DEF Restart, TypeOK, Workers
    <3>3. /\ UNCHANGED <<children, dir, late>> /\ relics \subseteq relics'
          /\ \A w \in Workers : wpc[w] = "dirs" => ids[w] \subseteq relics'
          /\ \A r \in Runs : task'[r] = "over" => row'[r] \in
                                 {"finished", "gone"}
          /\ \A r \in Runs : task'[r] \in {"none", "over"}
      BY <2>3 DEF Restart, TypeOK
    <3>4. Order'
      BY <3>1, <3>2, <3>3 DEF Order, ChosenAreOver, Over, TasksOfCancelled,
         NoIdsLeft, PrunesLast, EndedAreOver
    <3>5. Traces'
      BY <3>1, <3>2, <3>3 DEF Traces, DoomedHaveNoDir, Leftovers
    <3> QED BY <3>4, <3>5
  <2>4. ASSUME NEW w \in Workers, WorkerFails(w) PROVE Rest'
    <3>1. Order'
      BY <1>0, <1>1, <2>4, ConstantsOK
         DEF WorkerFails, Release, PassOver, Select, TypeOK,
         Order, ChosenAreOver, Over, TasksOfCancelled, NoIdsLeft, PrunesLast,
         EndedAreOver
    <3>2. Traces'
      BY <1>0, <1>1, <2>4, ConstantsOK
         DEF WorkerFails, Release, PassOver, Select, TypeOK,
         Traces, DoomedHaveNoDir, Leftovers
    <3> QED BY <1>1, <3>1, <3>2
  <2> QED BY <2>1, <2>2, <2>3, <2>4
<1> QED BY <1>1, <1>2

LEMMA Step == IInv /\ [Next]_vars => IInv'
<1> SUFFICES ASSUME IInv, [Next]_vars PROVE IInv'
  OBVIOUS
<1>1. CASE \E r \in Runs : RunStep(r)
  BY <1>1, RunInv
<1>2. CASE \E w \in Workers : Work(w)
  BY <1>2, WorkInv
<1>3. CASE \/ StartPurge \/ RemoveOrphans \/ Restart
           \/ \E w \in Workers : WorkerFails(w)
  BY <1>3, OtherInv
<1>4. CASE UNCHANGED vars
  <2>1. /\ UNCHANGED <<row, children, dir, task, wpc, ids, clients, excess>>
        /\ UNCHANGED <<limit, asked, doomed, locked, first, fails, early, late,
                       relics, due>>
    BY <1>4 DEF vars
  <2>2. TypeOK'
    BY <2>1 DEF IInv, TypeOK
  <2>3. Order'
    BY <2>1 DEF IInv, Rest,
         Order, ChosenAreOver, Over, TasksOfCancelled, NoIdsLeft, PrunesLast,
         EndedAreOver
  <2>4. Traces'
    BY <2>1 DEF IInv, Rest,
         Traces, DoomedHaveNoDir, Leftovers
  <2> QED BY <2>2, <2>3, <2>4 DEF IInv, Rest
<1> QED BY <1>1, <1>2, <1>3, <1>4 DEF Next

-----------------------------------------------------------------------------
(* The numbers of finished runs *)

LEMMA RunsFinite ==
  ASSUME NEW S \in SUBSET Runs, NEW T \in SUBSET S
  PROVE  /\ IsFiniteSet(S) /\ IsFiniteSet(T)
         /\ Cardinality(S) \in Nat /\ Cardinality(T) \in Nat
         /\ Cardinality(T) <= Cardinality(S)
<1>1. IsFiniteSet(Runs)
  BY ConstantsOK, FS_Interval DEF Runs
<1>2. IsFiniteSet(S)
  BY <1>1, FS_Subset
<1> QED BY <1>2, FS_Subset, FS_CardinalityType

\* Of some runs one is the oldest: the runs up to it are the fewest.
LEMMA Eldest ==
  ASSUME NEW T \in SUBSET Runs, T # {}
  PROVE  \E m \in T : \A t \in T : m <= t
<1> DEFINE UpTo(r) == {s \in Runs : s <= r}
           F == {UpTo(r) : r \in T}
<1>1. IsWellFoundedOn(StrictSubsetOrdering(Runs), FiniteSubsetsOf(Runs))
  BY FS_StrictSubsetOrderingWellFounded
<1>2. F \subseteq FiniteSubsetsOf(Runs) /\ F # {}
  BY RunsFinite DEF FiniteSubsetsOf
<1> HIDE DEF F
<1>3. PICK x \in F : \A y \in F : <<y, x>> \notin StrictSubsetOrdering(Runs)
  BY <1>1, <1>2, WFMin
<1>4. PICK m \in T : x = UpTo(m)
  BY DEF F
<1>5. ASSUME NEW t \in T, ~(m <= t)
      PROVE  FALSE
  <2>1. m \in Nat /\ t \in Nat /\ t < m
    BY <1>5 DEF Runs
  <2>2. UpTo(t) \subseteq UpTo(m) /\ m \in UpTo(m) /\ m \notin UpTo(t)
    BY <2>1 DEF Runs
  <2>3. <<UpTo(t), UpTo(m)>> \in StrictSubsetOrdering(Runs)
    BY <2>2 DEF StrictSubsetOrdering
  <2> QED BY <1>3, <1>4, <2>3 DEF F
<1> QED BY <1>4, <1>5

\* The n oldest of S are n, or all.
LEMMA OldestMany ==
  ASSUME NEW S \in SUBSET Runs, NEW n \in Nat, NEW k \in Nat,
         Cardinality(S) <= k + n
  PROVE  Cardinality(S \ Oldest(S, n)) <= k
<1> DEFINE T == S \ Oldest(S, n)
<1>1. CASE T = {}
  BY <1>1, FS_EmptySet
<1>2. CASE T # {}
  <2>1. PICK m \in T : \A t \in T : m <= t
    BY <1>2, Eldest
  <2> DEFINE P == {s \in S : s <= m}
  <2>2. /\ P \in SUBSET S /\ m \in P /\ T \in SUBSET S
        /\ IsFiniteSet(P) /\ IsFiniteSet(T)
        /\ Cardinality(P) \in Nat /\ Cardinality(T) \in Nat
        /\ Cardinality(S) \in Nat
    BY RunsFinite DEF Runs
  <2>3. Cardinality(P) > n
    BY <2>2 DEF Oldest
  <2>4. /\ IsFiniteSet(P \ {m})
        /\ Cardinality(P \ {m}) = Cardinality(P) - 1
    BY <2>2, FS_RemoveElement
  <2>5. (P \ {m}) \cap T = {}
    <3>1. \A t \in Runs : t \in Int
      BY ConstantsOK DEF Runs
    <3> QED BY <2>1, <2>2, <3>1
  <2>6. /\ Cardinality((P \ {m}) \cup T) =
             Cardinality(P \ {m}) + Cardinality(T)
               - Cardinality((P \ {m}) \cap T)
        /\ Cardinality((P \ {m}) \cap T) = 0
    BY <2>2, <2>4, <2>5, FS_Union, FS_EmptySet
  <2>7. Cardinality((P \ {m}) \cup T) <= Cardinality(S)
    BY <2>2, RunsFinite
  <2> HIDE DEF P, T
  <2> QED BY <2>2, <2>3, <2>4, <2>6, <2>7 DEF T
<1> QED BY <1>1, <1>2

-----------------------------------------------------------------------------
(* The prunes and the limit *)

\* A client without newly finished runs stays counted, or few, as long as its
\* finished runs only become fewer and no pass is broken off.
LEMMA InHandStays ==
  ASSUME NEW c \in Clients, NEW w \in Workers, InHand(w, c),
         FinishedOf(c)' \subseteq FinishedOf(c),
         wpc'[w] = wpc[w], clients'[w] = clients[w], excess'[w] = excess[w],
         ids'[w] = ids[w], doomed'[w] = doomed[w], TypeOK,
         MaxCount(w)' = MaxCount(w)
  PROVE  InHand(w, c)'
<1>1. /\ Seen(w, c) \in SUBSET Runs
      /\ Seen(w, c)' \in SUBSET Seen(w, c)
      /\ (Seen(w, c) \ ids[w])' \in SUBSET (Seen(w, c) \ ids[w])
  BY DEF Seen, FinishedOf
<1>2. /\ Cardinality(Seen(w, c)) \in Nat /\ Cardinality(Seen(w, c)') \in Nat
      /\ Cardinality(Seen(w, c)') <= Cardinality(Seen(w, c))
  BY <1>1, RunsFinite
<1>3. /\ Cardinality(Seen(w, c) \ ids[w]) \in Nat
      /\ Cardinality((Seen(w, c) \ ids[w])') \in Nat
      /\ Cardinality((Seen(w, c) \ ids[w])') <= Cardinality(Seen(w, c) \ ids[w])
  BY <1>1, RunsFinite
<1>4. excess[w].n \in Nat /\ Max \in Nat
  BY ConstantsOK DEF TypeOK
<1> QED BY <1>2, <1>3, <1>4 DEF InHand

LEMMA FewStays ==
  ASSUME NEW c \in Clients, Few(c), FinishedOf(c)' \subseteq FinishedOf(c)
  PROVE  Few(c)'
<1>1. FinishedOf(c) \in SUBSET Runs /\ FinishedOf(c)' \in SUBSET FinishedOf(c)
  BY DEF FinishedOf
<1>2. /\ Cardinality(FinishedOf(c)) \in Nat
      /\ Cardinality(FinishedOf(c)') \in Nat
      /\ Cardinality(FinishedOf(c)') <= Cardinality(FinishedOf(c))
  BY <1>1, RunsFinite
<1> QED BY <1>2, ConstantsOK DEF Few

\* It is enough to look at the worker that makes the step.
LEMMA CountingStays ==
  ASSUME TypeOK, Counting, NEW w \in Workers,
         \A v \in Workers \ {w} :
           /\ wpc'[v] = wpc[v] /\ clients'[v] = clients[v]
           /\ excess'[v] = excess[v] /\ ids'[v] = ids[v]
           /\ doomed'[v] = doomed[v] /\ MaxCount(v)' = MaxCount(v),
         \A c \in Clients \ due' :
           /\ c \notin due /\ FinishedOf(c)' \subseteq FinishedOf(c)
           /\ InHand(w, c) => Few(c)' \/ InHand(w, c)'
  PROVE  Counting'
<1> SUFFICES ASSUME NEW c \in Clients \ due'
             PROVE  Few(c)' \/ \E v \in Workers : InHand(v, c)'
  BY DEF Counting
<1>1. c \notin due /\ FinishedOf(c)' \subseteq FinishedOf(c)
  OBVIOUS
<1>2. Few(c) \/ \E v \in Workers : InHand(v, c)
  BY <1>1 DEF Counting
<1>3. ASSUME NEW v \in Workers, InHand(v, c), v # w PROVE InHand(v, c)'
  BY <1>1, <1>3, InHandStays
<1> QED BY <1>1, <1>2, <1>3, FewStays

\* A run that finishes makes its client due.
LEMMA RunCounting ==
  ASSUME IInv, Counting, NEW r \in Runs, RunStep(r)
  PROVE  Counting'
<1> USE DEF IInv
<1>1. UNCHANGED <<ids, clients, excess, doomed, limit>>
  BY DEF RunStep, CreateRun, StartTask, Launch, TaskWrites, WriteReports,
         FinishRun, EndTask, CancelRun
<1>2. /\ r \in Workers
      /\ \A v \in Workers \ {r} : wpc'[v] = wpc[v]
      /\ wpc'[r] # wpc[r] => wpc[r] = "idle"
  BY DEF RunStep, CreateRun, StartTask, Launch, TaskWrites, WriteReports,
         FinishRun, EndTask, CancelRun, TypeOK, Workers, Rest, Order, PrunesLast
<1>3. \A c \in Clients \ due' :
        c \notin due /\ FinishedOf(c)' \subseteq FinishedOf(c)
  BY DEF RunStep, CreateRun, StartTask, Launch, TaskWrites, WriteReports,
         FinishRun, EndTask, CancelRun, TaskGoes, WritesLog, TypeOK, FinishedOf
<1>4. \A v \in Workers : MaxCount(v)' = MaxCount(v)
  BY <1>1 DEF MaxCount
<1>5. ASSUME NEW c \in Clients \ due', InHand(r, c) PROVE InHand(r, c)'
  <2>1. wpc'[r] = wpc[r]
    BY <1>2, <1>5 DEF InHand
  <2> QED BY <1>1, <1>2, <1>3, <1>4, <1>5, <2>1, InHandStays
<1> QED BY <1>1, <1>2, <1>3, <1>4, <1>5, CountingStays

\* A pass looks at the clients one after the other and keeps what it found.
LEMMA PruneCounting ==
  ASSUME IInv, Counting, NEW w \in Workers, Prune(w)
  PROVE  Counting'
<1> USE DEF IInv, TypeOK, WorkerGoes, Select
<1>0. Max \in Nat /\ MaxCount(w) \in Nat
  BY ConstantsOK DEF MaxCount
<1>00. /\ \A v \in Workers \ {w} : MaxCount(v)' = MaxCount(v)
       /\ wpc'[w] \in {"count", "list", "prune"} =>
            MaxCount(w)' = MaxCount(w)
  BY DEF MaxCount, Prune, SelectClients, SelectExcess, DeleteExcess,
         CommitPrune, Count, PassOver
<1>1. CASE SelectClients(w)
  <2>0. CASE ~(MaxCount(w) <= Max)
    <3>1. /\ UNCHANGED <<row, excess, ids, doomed, due>>
          /\ clients' = [clients EXCEPT ![w] =
                           {c \in Clients : FinishedOf(c) # {}}]
          /\ wpc' = [wpc EXCEPT ![w] = "count"]
      BY <1>1, <2>0 DEF SelectClients
    <3>2. \A c : UNCHANGED FinishedOf(c) /\ ~InHand(w, c)
      BY <2>0, <3>1 DEF FinishedOf, InHand
    <3>3. \A v \in Workers \ {w} :
            wpc'[v] = wpc[v] /\ clients'[v] = clients[v]
      BY <3>1
    <3> QED BY <1>00, <3>1, <3>2, <3>3, CountingStays
  <2>1. /\ wpc'[w] = "count" /\ UNCHANGED <<row, excess, ids, doomed>>
        /\ clients'[w] = {c \in Clients : FinishedOf(c) # {}}
    BY <1>1 DEF SelectClients
  <2> SUFFICES ASSUME MaxCount(w) <= Max, NEW c \in Clients
               PROVE  Few(c)' \/ InHand(w, c)'
    BY <2>0 DEF Counting
  <2>2. CASE FinishedOf(c) = {}
    <3>1. FinishedOf(c)' = {}
      BY <2>1, <2>2 DEF FinishedOf
    <3> QED BY <1>0, <3>1, FS_EmptySet DEF Few
  <2>3. CASE FinishedOf(c) # {}
    BY <1>00, <2>1, <2>3 DEF InHand
  <2> QED BY <2>2, <2>3
<1>2. ASSUME NEW d \in Clients, Count(w, d)
      PROVE  Counting'
  <2> DEFINE k == Cardinality(Seen(w, d))
  <2>1. /\ UNCHANGED <<row, ids, doomed, due>> /\ wpc[w] = "count"
        /\ clients' = [clients EXCEPT ![w] = @ \ {d}]
        /\ IF k <= MaxCount(w)
           THEN UNCHANGED <<wpc, excess>>
           ELSE /\ wpc' = [wpc EXCEPT ![w] = "list"]
                /\ excess' =
                     [excess EXCEPT ![w] = [of |-> d, n |-> k - MaxCount(w)]]
    BY <1>2 DEF Count, NextClient
  <2>2. k \in Nat
    BY CountType
  <2>3. \A c : UNCHANGED <<FinishedOf(c), Seen(w, c)>>
    BY <2>1 DEF FinishedOf, Seen
  <2>4. ASSUME MaxCount(w) <= Max PROVE InHand(w, d)'
    <3>0. wpc'[w] \in {"count", "list"} /\ MaxCount(w)' <= Max
      BY <1>00, <2>1, <2>4
    <3>1. CASE k <= MaxCount(w)
      <4>1. Cardinality(Seen(w, d)') <= Max
        BY <1>0, <2>2, <2>3, <2>4, <3>1
      <4> QED BY <3>0, <4>1 DEF InHand
    <3>2. CASE ~(k <= MaxCount(w))
      <4>1. wpc'[w] = "list" /\ excess'[w] = [of |-> d, n |-> k - MaxCount(w)]
        BY <2>1, <3>2
      <4>2. Cardinality(Seen(w, d)') <= Max + excess'[w].n
        BY <1>0, <2>2, <2>3, <2>4, <4>1
      <4> QED BY <3>0, <4>1, <4>2 DEF InHand
    <3> QED BY <3>1, <3>2
  <2>5. ASSUME NEW c \in Clients, c # d, InHand(w, c) PROVE InHand(w, c)'
    <3>1. wpc'[w] \in {"count", "list"} /\ wpc[w] = "count"
      BY <2>1
    <3>2. MaxCount(w)' <= Max
      BY <1>00, <2>5, <3>1 DEF InHand
    <3> QED BY <2>1, <2>3, <2>5, <3>1, <3>2 DEF InHand
  <2>6. \A v \in Workers \ {w} :
          wpc'[v] = wpc[v] /\ clients'[v] = clients[v] /\ excess'[v] = excess[v]
    BY <2>1
  <2>7. ASSUME NEW c \in Clients, InHand(w, c) PROVE InHand(w, c)'
    BY <2>4, <2>5, <2>7 DEF InHand
  <2> QED BY <1>00, <2>1, <2>3, <2>6, <2>7, CountingStays
<1>3. CASE SelectExcess(w)
  <2> DEFINE d == excess[w].of
             S == Oldest(Seen(w, d), excess[w].n)
  <2>1. /\ UNCHANGED <<row, clients, doomed, due>> /\ wpc[w] = "list"
        /\ wpc' = [wpc EXCEPT ![w] = IF S = {} THEN "count" ELSE "prune"]
        /\ ids' = [ids EXCEPT ![w] = S]
        /\ excess' = [excess EXCEPT ![w] = NoExcess]
    BY <1>3 DEF SelectExcess
  <2>2. \A c : UNCHANGED <<FinishedOf(c), Seen(w, c)>>
    BY <2>1 DEF FinishedOf, Seen
  <2>3. ids'[w] = S /\ wpc'[w] = IF S = {} THEN "count" ELSE "prune"
    BY <2>1
  <2>4. ASSUME NEW c \in Clients, InHand(w, c) PROVE InHand(w, c)'
    <3>0. MaxCount(w)' <= Max /\ wpc'[w] \in {"count", "prune"}
      BY <1>00, <2>3, <2>4 DEF InHand
    <3>1. CASE c \in clients[w] \/ Cardinality(Seen(w, c)) <= Max
      BY <2>1, <2>2, <2>3, <3>0, <3>1 DEF InHand
    <3>2. CASE c = d /\ Cardinality(Seen(w, d)) <= Max + excess[w].n
      <4>1. Cardinality(Seen(w, d) \ S) <= Max
        <5>1. Seen(w, d) \in SUBSET Runs /\ excess[w].n \in Nat
          BY DEF Seen, FinishedOf
        <5> QED BY <1>0, <3>2, <5>1, OldestMany
      <4>2. CASE S = {}
        <5>1. Seen(w, d) \ S = Seen(w, d)
          BY <4>2
        <5> QED BY <2>2, <2>3, <3>0, <3>2, <4>1, <4>2, <5>1 DEF InHand
      <4>3. CASE S # {}
        BY <2>2, <2>3, <3>0, <3>2, <4>1, <4>3 DEF InHand
      <4> QED BY <4>2, <4>3
    <3> QED BY <2>1, <2>4, <3>1, <3>2 DEF InHand
  <2>5. \A v \in Workers \ {w} :
          wpc'[v] = wpc[v] /\ ids'[v] = ids[v] /\ excess'[v] = excess[v]
    BY <2>1
  <2> QED BY <1>00, <2>1, <2>2, <2>4, <2>5, CountingStays
<1>4. CASE DeleteExcess(w)
  <2>1. /\ UNCHANGED <<row, clients, excess, due>> /\ wpc[w] = "prune"
        /\ wpc' = [wpc EXCEPT ![w] = "count"]
        /\ doomed' = [doomed EXCEPT ![w] = @ \cup ids[w]]
        /\ ids' = [ids EXCEPT ![w] = {}]
    BY <1>4 DEF DeleteExcess
  <2>2. \A c : UNCHANGED FinishedOf(c)
    BY <2>1 DEF FinishedOf
  <2>3. \A c : Seen(w, c)' = Seen(w, c) \ ids[w]
    BY <2>1, <2>2 DEF Seen
  <2>4. ASSUME NEW c \in Clients, InHand(w, c) PROVE InHand(w, c)'
    <3>1. /\ Seen(w, c) \in SUBSET Runs
          /\ Seen(w, c) \ ids[w] \in SUBSET Seen(w, c)
      BY DEF Seen, FinishedOf
    <3>2. /\ Cardinality(Seen(w, c)) \in Nat
          /\ Cardinality(Seen(w, c) \ ids[w]) \in Nat
          /\ Cardinality(Seen(w, c) \ ids[w]) <= Cardinality(Seen(w, c))
      BY <3>1, RunsFinite
    <3>0. MaxCount(w)' <= Max
      BY <1>00, <2>1, <2>4 DEF InHand
    <3>3. CASE c \in clients[w]
      BY <2>1, <3>0, <3>3 DEF InHand
    <3>4. CASE c \notin clients[w]
      <4>1. Cardinality(Seen(w, c) \ ids[w]) <= Max
        BY <1>0, <2>1, <2>4, <3>2, <3>4 DEF InHand
      <4>2. Cardinality(Seen(w, c)') <= Max
        BY <2>3, <4>1
      <4> QED BY <2>1, <3>0, <4>2 DEF InHand
    <3> QED BY <3>3, <3>4
  <2>5. \A v \in Workers \ {w} :
          wpc'[v] = wpc[v] /\ ids'[v] = ids[v] /\ doomed'[v] = doomed[v]
    BY <2>1
  <2> QED BY <1>00, <2>1, <2>2, <2>4, <2>5, CountingStays
<1>5. CASE CommitPrune(w)
  <2>1. /\ UNCHANGED <<clients, ids, excess, due>>
        /\ wpc[w] = "count" /\ clients[w] = {}
        /\ \A v \in Workers \ {w} : wpc'[v] = wpc[v] /\ doomed'[v] = doomed[v]
        /\ \A r \in Runs : row'[r] = IF r \in doomed[w] THEN "gone" ELSE row[r]
    BY <1>5 DEF CommitPrune, Release, Deleted
  <2>2. \A c \in Clients : FinishedOf(c)' = Seen(w, c)
    BY <2>1 DEF FinishedOf, Seen
  <2>3. \A c \in Clients : FinishedOf(c)' \subseteq FinishedOf(c)
    BY <2>2 DEF Seen
  <2>4. \A c \in Clients : InHand(w, c) => Few(c)'
    BY <2>1, <2>2 DEF InHand, Few
  <2> QED BY <1>00, <2>1, <2>3, <2>4, CountingStays
<1> QED BY <1>1, <1>2, <1>3, <1>4, <1>5 DEF Prune

\* The other steps of workers delete runs or make all clients due.
LEMMA OtherCounting ==
  ASSUME IInv, Counting,
         \/ StartPurge \/ RemoveOrphans \/ Restart
         \/ \E w \in Workers : Purge(w) \/ WorkerFails(w)
  PROVE  Counting'
<1> USE DEF IInv, TypeOK, WorkerGoes, Select
<1>1. CASE Restart \/ \E w \in Workers : WorkerFails(w)
  BY <1>1 DEF Restart, WorkerFails, Counting
<1>2. ASSUME NEW w \in Workers,
             Purge(w) \/ (w = Purger /\ (StartPurge \/ RemoveOrphans))
      PROVE  Counting'
  <2>1. /\ UNCHANGED <<clients, excess, doomed, due>>
        /\ wpc[w] \notin {"count", "list", "prune"}
        /\ \A v \in Workers \ {w} : wpc'[v] = wpc[v] /\ ids'[v] = ids[v]
        /\ \A v \in Workers \ {w} : MaxCount(v)' = MaxCount(v)
        /\ \A r \in Runs : row'[r] \in {row[r], "gone"}
    BY <1>2 DEF Purge, SelectOld, DeleteOld, RemoveDirs, Missed, Deleted,
                StartPurge, RemoveOrphans, MaxCount
  <2>2. \A c \in Clients : FinishedOf(c)' \subseteq FinishedOf(c)
    BY <2>1 DEF FinishedOf
  <2>3. \A c \in Clients : ~InHand(w, c)
    BY <2>1 DEF InHand
  <2> QED BY <2>1, <2>2, <2>3, CountingStays
<1>3. Purger \in Workers
  BY DEF Workers
<1> QED BY <1>1, <1>2, <1>3

LEMMA CountingStep == IInv /\ Counting /\ [Next]_vars => Counting'
<1> SUFFICES ASSUME IInv, Counting, [Next]_vars PROVE Counting'
  OBVIOUS
<1>1. CASE \E r \in Runs : RunStep(r)
  BY <1>1, RunCounting
<1>2. CASE \E w \in Workers : Prune(w)
  BY <1>2, PruneCounting
<1>3. CASE \/ StartPurge \/ RemoveOrphans \/ Restart
           \/ \E w \in Workers : Purge(w) \/ WorkerFails(w)
  BY <1>3, OtherCounting
<1>4. CASE UNCHANGED vars
  <2>1. Purger \in Workers /\ UNCHANGED <<row, due, worker>>
    BY <1>4 DEF vars, Workers
  <2>2. /\ \A c : FinishedOf(c)' = FinishedOf(c)
        /\ \A v \in Workers : MaxCount(v)' = MaxCount(v)
    BY <2>1 DEF FinishedOf, MaxCount
  <2>3. \A c \in Clients : InHand(Purger, c) => InHand(Purger, c)'
    BY <2>1, <2>2, InHandStays DEF IInv
  <2> QED BY <2>1, <2>2, <2>3, CountingStays DEF IInv
<1> QED BY <1>1, <1>2, <1>3, <1>4 DEF Next, Work

LEMMA CountingInit == Init => Counting
<1> SUFFICES ASSUME Init, NEW c \in Clients PROVE Few(c)
  BY DEF Counting
<1>1. FinishedOf(c) = {}
  BY DEF Init, FinishedOf
<1> QED BY <1>1, FS_EmptySet, ConstantsOK DEF Few

-----------------------------------------------------------------------------
THEOREM Invariance == Spec => []IInv
  BY InitInv, Step, PTL DEF Spec

\* Type correctness.
THEOREM TypeCorrect == Spec => []TypeOK
<1>1. IInv => TypeOK
  BY DEF IInv
<1> QED BY <1>1, Invariance, PTL

\* No row stays behind a deleted run, and no directory once the worker that
\* deleted it has gone through its ids (purge.py:30-159), whatever the workers,
\* tasks and failures do: only what its own task writes then or afterwards, and
\* the directories of a worker that a crash kept from removing them.
THEOREM NothingLeft == Spec => []Leftovers
<1>1. IInv => Leftovers
  BY DEF IInv, Rest, Traces
<1> QED BY <1>1, Invariance, PTL

\* A run that is not over is never deleted, however old the answer is by which
\* it was chosen (purge.py:40, 113, 125), unless it was cancelled before its
\* task launched the tests: that task launches them nevertheless.
THEOREM Kept == Spec => ActiveKept
<1> DEFINE Keeps == \A r \in Runs :
                      row[r] = "active" /\ row'[r] = "gone" => r \in early
<1>1. IInv /\ [Next]_vars => [Keeps]_vars
  <2> SUFFICES ASSUME IInv, Next, NEW r \in Runs,
                      row[r] = "active", row'[r] = "gone"
               PROVE  r \in early
    BY DEF Keeps
  <2> USE DEF IInv, Rest, TypeOK
  <2>1. CASE \E q \in Runs : RunStep(q)
    BY <2>1 DEF RunStep, CreateRun, StartTask, Launch, TaskWrites, WriteReports,
                FinishRun, EndTask, CancelRun
  <2>2. ASSUME NEW w \in Workers, Work(w) PROVE r \in ids[w] \cup doomed[w]
    BY <2>2 DEF Work, Purge, Prune, SelectOld, DeleteOld, RemoveDirs, Deleted,
                SelectClients, SelectExcess, DeleteExcess, CommitPrune, Count
  <2>3. CASE \/ StartPurge \/ RemoveOrphans \/ Restart
             \/ \E w \in Workers : WorkerFails(w)
    BY <2>3 DEF StartPurge, RemoveOrphans, Restart, WorkerFails
  <2> QED BY <2>1, <2>2, <2>3 DEF Next, Order, ChosenAreOver, Over
<1> QED BY <1>1, Invariance, PTL DEF Spec, ActiveKept

\* No client keeps more than MAX_REPORT_COUNT finished runs that a prune with
\* that limit or a smaller one has seen, although counting, selecting and
\* deleting are statements apart and the prunes of several tasks and of
\* administrators overlap (prune_excess_reports).
THEOREM Limited == Spec => []PrunedToLimit
<1>1. Counting => PrunedToLimit
  BY DEF Counting, InHand, Few, PrunedToLimit
<1> QED BY <1>1, CountingInit, CountingStep, Invariance, PTL DEF Spec
=============================================================================
