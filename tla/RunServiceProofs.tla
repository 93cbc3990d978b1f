-------------------------- MODULE RunServiceProofs --------------------------
(***************************************************************************)
(* Proofs about RunService, for every set of runs, resources, task slots,  *)
(* cancel and cleanup requests and every bound on crashes.                 *)
(*                                                                         *)
(* IInv (types, and the relations between tables, program counters and     *)
(* locals) holds initially and is preserved by every step; the lemmas take *)
(* the coroutines one by one and their actions one by one.  The theorems   *)
(* at the end follow from it.                                              *)
(***************************************************************************)
EXTENDS RunService, TLAPS

\* Abbreviations of the specification, expanded everywhere.
USE DEF tables, creators, workers, memory, admins, server, TaskLocals,
        Goes, CreatorGoes, Leaves, Rest, Free, FinishTask, WriteStatus,
        Statuses, Active, Terminal, CreatorPCs, ReleasePCs, TaskPCs,
        WorkerPCs, ProcStates, Held, HeldFor, EntriesFor, WaitingFor, Heads,
        Outcome, Unregistered, FailedStuck, Swept, SweepEntries
\* The conjuncts of the invariant and the predicates they are made of.
USE DEF TypeOK, TablesTypeOK, QueueTypeOK, LocalsOK, CreatedAlone,
        TasksDoNotWait, PromotedWasQueued, LocksOfStarted, WaitingIsQueued,
        QueuedIsWaiting, RunningIsAttended, Settled, Attended, Responsible,
        Promoting

\* What the proofs need of the constants.
LEMMA Facts ==
  /\ ConstantsOK
  /\ Workers = Tasks \cup Cancels /\ Tasks \cap Cancels = {}
  /\ Tasks \subseteq Workers /\ Cancels \subseteq Workers
  /\ NoRun \notin Runs
  /\ \A r \in Runs : ResourceOf[r] \in Resources \cup {NoResource}
  /\ \A r \in Runs : KindOf[r] \in {"test", "cli"}
  /\ \A x \in Rows : x[1] \in Runs
BY ConstantsOK, SMT DEF ConstantsOK, Workers, Rows

-----------------------------------------------------------------------------
\* A worker that leaves release_resource keeps the types.
LEMMA LeavesType ==
  ASSUME QueueTypeOK, NEW w \in Workers, NEW from, Leaves(w, from),
         UNCHANGED proc
  PROVE  QueueTypeOK'
<1>1. pc' \in [Workers -> WorkerPCs]
  OBVIOUS
<1>2. /\ item' \in [Workers -> Runs \cup {NoRun}]
      /\ next' \in [Workers -> Runs \cup {NoRun}]
  OBVIOUS
<1> QED BY <1>1, <1>2

\* A task that ends, or goes on to release its resource, keeps the types.
LEMMA FinishType ==
  ASSUME QueueTypeOK, NEW t \in Tasks, NEW from, FinishTask(t, from)
  PROVE  QueueTypeOK'
<1>1. pc' \in [Workers -> WorkerPCs] /\ item' \in [Workers -> Runs \cup {NoRun}]
  BY Facts, SMTT(20)
<1>2. seen' \in [Workers -> Statuses] /\ seenStarted' \in [Tasks -> BOOLEAN]
  BY Facts
<1> QED BY <1>1, <1>2

\* A step of the handler that creates a run preserves the types.
LEMMA CreatorType ==
  ASSUME IInv, NEW r \in Runs, CreatorStep(r), UNCHANGED <<admins, server>>
  PROVE  TypeOK'
<1>0. TypeOK /\ LocalsOK
  BY DEF IInv, Relations
<1>1. ASSUME InsertRun(r), UNCHANGED memory PROVE TypeOK'
  BY <1>1, <1>0, Facts DEF InsertRun
<1>2. ASSUME StartWithoutResource(r), UNCHANGED memory PROVE TypeOK'
  BY <1>2, <1>0, Facts DEF StartWithoutResource
<1>3. ASSUME SelectResource(r), UNCHANGED memory PROVE TypeOK'
  BY <1>3, <1>0, Facts DEF SelectResource
<1>4. ASSUME InsertResource(r), UNCHANGED memory PROVE TypeOK'
  <2>1. TablesTypeOK'
    BY <1>4, <1>0, Facts DEF InsertResource
  <2>2. QueueTypeOK'
    BY <1>4, <1>0, Facts DEF InsertResource
  <2> QED
    BY <2>1, <1>0, <2>2, <1>4 DEF InsertResource
<1>5. ASSUME SelectLock(r), UNCHANGED memory PROVE TypeOK'
  <2>1. TablesTypeOK'
    BY <1>5, <1>0, Facts DEF SelectLock
  <2>2. QueueTypeOK'
    BY <1>5, <1>0, Facts, SMTT(60) DEF SelectLock
  <2> QED
    BY <2>1, <1>0, <2>2, <1>5 DEF SelectLock
<1>6. ASSUME ReadHolder(r), UNCHANGED memory PROVE TypeOK'
  BY <1>6, <1>0, Facts DEF ReadHolder
<1>7. ASSUME ExpireLock(r), UNCHANGED memory PROVE TypeOK'
  BY <1>7, <1>0, Facts DEF ExpireLock
<1>8. ASSUME RecheckLock(r), UNCHANGED memory PROVE TypeOK'
  BY <1>8, <1>0, Facts DEF RecheckLock
<1>9. ASSUME TakeLock(r), UNCHANGED memory PROVE TypeOK'
  BY <1>9, <1>0, Facts DEF TakeLock
<1>10. ASSUME SelectMaxPosition(r), UNCHANGED memory PROVE TypeOK'
  <2>1. TablesTypeOK'
    BY <1>10, <1>0, Facts DEF SelectMaxPosition
  <2>2. QueueTypeOK'
    BY <1>10, <1>0, Facts DEF SelectMaxPosition
  <2> QED
    BY <2>1, <1>0, <2>2, <1>10 DEF SelectMaxPosition
<1>11. ASSUME InsertEntry(r), UNCHANGED memory PROVE TypeOK'
  BY <1>11, <1>0, Facts DEF InsertEntry
<1>12. ASSUME SpawnTask(r), UNCHANGED memory PROVE TypeOK'
  BY <1>12, <1>0, Facts DEF SpawnTask
<1> QED
  BY <1>1, <1>2, <1>3, <1>4, <1>5, <1>6, <1>7, <1>8, <1>9, <1>10, <1>11,
     <1>12 DEF CreatorStep, AcquireStep

\* A step of a run task preserves the types.
LEMMA TaskType ==
  ASSUME IInv, NEW t \in Tasks, TaskStep(t), UNCHANGED <<admins, server>>
  PROVE  TypeOK'
<1>0. TypeOK /\ LocalsOK
  BY DEF IInv, Relations
<1>1. ASSUME LoadRun(t) PROVE TypeOK'
  <2>1. TablesTypeOK'
    BY <1>1, <1>0, Facts DEF LoadRun
  <2>2. QueueTypeOK'
    BY <1>1, <1>0, Facts DEF LoadRun
  <2> QED
    BY <2>1, <1>0, <2>2, <1>1 DEF LoadRun
<1>2. ASSUME SetupPasses(t) PROVE TypeOK'
  BY <1>2, <1>0, Facts DEF SetupPasses
<1>3. ASSUME TaskFails(t) PROVE TypeOK'
  <2>1. seen' \in [Workers -> Statuses] /\ pc' \in [Workers -> WorkerPCs]
    BY <1>3, <1>0, Facts DEF TaskFails
  <2>2. /\ proc' \in [Tasks -> ProcStates]
        /\ activeRuns' \in [Runs -> Tasks \cup {NoTask}]
        /\ final' \in [Tasks -> Terminal \cup {"none"}]
    BY <1>3, <1>0 DEF TaskFails
  <2> QED
    BY <1>3, <1>0, <2>1, <2>2 DEF TaskFails
<1>4. ASSUME StartCapture(t) PROVE TypeOK'
  <2>1. TablesTypeOK'
    BY <1>4, <1>0, Facts DEF StartCapture
  <2>2. seen' \in [Workers -> Statuses] /\ pc' \in [Workers -> WorkerPCs]
    BY <1>4, <1>0, Facts DEF StartCapture
  <2>3. QueueTypeOK'
    BY <1>4, <1>0, <2>2 DEF StartCapture
  <2> QED
    BY <2>1, <1>0, <2>3, <1>4 DEF StartCapture
<1>11. ASSUME Launch(t) PROVE TypeOK'
  <2>1. /\ pc' \in [Workers -> WorkerPCs] /\ proc' \in [Tasks -> ProcStates]
        /\ activeRuns' \in [Runs -> Tasks \cup {NoTask}]
    BY <1>11, <1>0, Facts, SMTT(20) DEF Launch
  <2> QED
    BY <1>11, <1>0, <2>1 DEF Launch
<1>5. ASSUME TimeoutKill(t) PROVE TypeOK'
  BY <1>5, <1>0, Facts DEF TimeoutKill
<1>6. ASSUME LeaveLoop(t) PROVE TypeOK'
  BY <1>6, <1>0, Facts DEF LeaveLoop
<1>7. ASSUME RefreshRun(t) PROVE TypeOK'
  BY <1>7, <1>0, Facts DEF RefreshRun
<1>8. ASSUME CommitOutcome(t) PROVE TypeOK'
  BY <1>8, <1>0, Facts DEF CommitOutcome
<1>9. ASSUME TeardownEnds(t) PROVE TypeOK'
  <2>1. TablesTypeOK'
    BY <1>9, <1>0, Facts DEF TeardownEnds
  <2>2. QueueTypeOK'
    BY <1>9, <1>0, FinishType DEF TeardownEnds
  <2> QED
    BY <2>1, <2>2, <1>0, <1>9 DEF TeardownEnds
<1>10. ASSUME MarkFailed(t) PROVE TypeOK'
  <2>1. TablesTypeOK'
    BY <1>10, <1>0, Facts DEF MarkFailed
  <2>2. QueueTypeOK'
    BY <1>10, <1>0, FinishType DEF MarkFailed
  <2> QED
    BY <2>1, <2>2, <1>0, <1>10 DEF MarkFailed
<1> QED
  BY <1>1, <1>2, <1>3, <1>4, <1>5, <1>6, <1>7, <1>8, <1>9,
     <1>10, <1>11 DEF TaskStep, TaskProgress

\* A step of a worker in release_resource preserves the types.
LEMMA ReleaseType ==
  ASSUME IInv, NEW w \in Workers, Release(w), UNCHANGED <<admins, server>>
  PROVE  TypeOK'
<1>0. TypeOK /\ LocalsOK
  BY DEF IInv, Relations
<1>1. ASSUME SelectOwnLock(w), UNCHANGED memory PROVE TypeOK'
  <2>1. TablesTypeOK'
    BY <1>1, <1>0, Facts DEF SelectOwnLock
  <2>2. /\ pc' \in [Workers -> WorkerPCs]
        /\ row' \in [Workers -> Rows \cup {NoRow}]
    BY <1>1, <1>0, SMTT(20) DEF SelectOwnLock
  <2>3. QueueTypeOK'
    BY <1>1, <1>0, <2>2 DEF SelectOwnLock
  <2> QED
    BY <2>1, <2>3, <1>0, <1>1 DEF SelectOwnLock
<1>2. ASSUME UnlockRow(w), UNCHANGED memory PROVE TypeOK'
  <2>1. TablesTypeOK'
    BY <1>2, <1>0, Facts DEF UnlockRow
  <2>2. CASE Leaves(w, "unlock") /\ UNCHANGED proc
    <3>1. QueueTypeOK'
      BY <1>0, <2>2, LeavesType
    <3> QED BY <2>1, <3>1, <1>0, <1>2
  <2>3. CASE ~(Leaves(w, "unlock") /\ UNCHANGED proc)
    <3>0. /\ pc' = [pc EXCEPT ![w] = "next"]
          /\ row' = [row EXCEPT ![w] = NoRow]
          /\ UNCHANGED next
      BY <1>2, <2>3 DEF UnlockRow
    <3>4. /\ pc' \in [Workers -> WorkerPCs]
          /\ row' \in [Workers -> Rows \cup {NoRow}]
      BY <3>0, <1>0
    <3>1. QueueTypeOK'
      BY <1>2, <2>3, <3>0, <3>4, <1>0 DEF UnlockRow
    <3> QED BY <2>1, <3>1, <1>0, <1>2
  <2> QED
    BY <2>2, <2>3
<1>3. ASSUME SelectNext(w), UNCHANGED memory PROVE TypeOK'
  <2>1. TablesTypeOK'
    BY <1>3, <1>0, Facts DEF SelectNext
  <2>2. CASE Leaves(w, "next") /\ UNCHANGED proc
    <3>1. QueueTypeOK'
      BY <1>0, <2>2, LeavesType
    <3> QED BY <2>1, <3>1, <1>0, <1>3
  <2>3. CASE ~(Leaves(w, "next") /\ UNCHANGED proc)
    <3>0. /\ pc' \in [Workers -> WorkerPCs]
          /\ row' \in [Workers -> Rows \cup {NoRow}]
          /\ next' \in [Workers -> Runs \cup {NoRun}]
      BY <1>3, <2>3, <1>0, SMTT(30) DEF SelectNext
    <3>1. QueueTypeOK'
      BY <1>3, <2>3, <3>0, <1>0 DEF SelectNext
    <3> QED BY <2>1, <3>1, <1>0, <1>3
  <2> QED
    BY <2>2, <2>3
<1>4. ASSUME ClaimEntry(w), UNCHANGED memory PROVE TypeOK'
  <2>1. TablesTypeOK'
    BY <1>4, <1>0, Facts, SMTT(20) DEF ClaimEntry
  <2>2. CASE Leaves(w, "claim") /\ UNCHANGED proc
    <3>1. QueueTypeOK'
      BY <1>0, <2>2, LeavesType
    <3> QED BY <2>1, <3>1, <1>0, <1>4
  <2>3. CASE ~(Leaves(w, "claim") /\ UNCHANGED proc)
    <3>0. /\ pc' \in [Workers -> WorkerPCs]
          /\ row' \in [Workers -> Rows \cup {NoRow}]
          /\ next' \in [Workers -> Runs \cup {NoRun}]
      BY <1>4, <2>3, <1>0 DEF ClaimEntry
    <3>1. QueueTypeOK'
      BY <1>4, <2>3, <3>0, <1>0 DEF ClaimEntry
    <3> QED BY <2>1, <3>1, <1>0, <1>4
  <2> QED
    BY <2>2, <2>3
<1>5. ASSUME LoadNext(w), UNCHANGED memory PROVE TypeOK'
  <2>1. TablesTypeOK'
    BY <1>5, <1>0, Facts DEF LoadNext
  <2>2. QueueTypeOK'
    BY <1>5, <1>0, Facts DEF LoadNext
  <2> QED
    BY <2>1, <1>0, <2>2, <1>5 DEF LoadNext
<1>6. ASSUME Promote(w), UNCHANGED memory PROVE TypeOK'
  <2>1. PICK t \in Tasks :
          /\ Free(t)
          /\ pc' = [pc EXCEPT ![w] = Rest(w), ![t] = "spawned"]
          /\ item' = [item EXCEPT ![w] = NoRun, ![t] = next[w]]
          /\ body' = [body EXCEPT ![t] = "test"]
    BY <1>6 DEF Promote
  <2>2. Rest(w) \in WorkerPCs /\ "spawned" \in WorkerPCs
    OBVIOUS
  <2>3. pc' \in [Workers -> WorkerPCs]
    BY <2>1, <2>2, <1>0, Facts 
  <2>4. /\ item' \in [Workers -> Runs \cup {NoRun}]
        /\ body' \in [Tasks -> {"test", "cli"}]
    BY <2>1, <1>0, Facts 
  <2>5. TablesTypeOK'
    <3>1. status' \in [Runs -> Statuses]
      BY <1>6, <1>0 DEF Promote
    <3>2. resourceId' \in [Runs -> Resources \cup {NoResource}]
      BY <1>6, <1>0, Facts DEF Promote
    <3>3. lockRow' \in [Rows -> {"none", "held", "released"}]
      <4>1. lockRow' = [lockRow EXCEPT ![<<next[w], w>>] = "held"]
        BY <1>6 DEF Promote
      <4>2. lockRow \in [Rows -> {"none", "held", "released"}]
        BY <1>0 DEF TypeOK, TablesTypeOK
      <4> QED
        BY <4>1, <4>2
    <3> QED
      BY <1>6, <1>0, <3>1, <3>2, <3>3 DEF Promote
  <2>6. QueueTypeOK'
    BY <1>0, <1>6, <2>3, <2>4, SMTT(60) DEF Promote
  <2> QED
    BY <2>5, <1>0, <2>6, <1>6 DEF Promote
<1> QED
  BY <1>1, <1>2, <1>3, <1>4, <1>5, <1>6 DEF Release, ReleaseStep

\* A step of a cancel request preserves the types.
LEMMA CancelType ==
  ASSUME IInv, NEW c \in Cancels, CancelStep(c), UNCHANGED <<admins, server>>
  PROVE  TypeOK'
<1>0. TypeOK /\ LocalsOK
  BY DEF IInv, Relations
<1>1. ASSUME CancelLoad(c) PROVE TypeOK'
  BY <1>1, <1>0, Facts DEF CancelLoad
<1>2. ASSUME CancelKill(c) PROVE TypeOK'
  <2>1. /\ pc' \in [Workers -> WorkerPCs] /\ proc' \in [Tasks -> ProcStates]
        /\ activeRuns' \in [Runs -> Tasks \cup {NoTask}]
        /\ cancelledRuns' \subseteq Runs
    BY <1>2, <1>0, Facts DEF CancelKill
  <2> QED
    BY <1>2, <1>0, <2>1 DEF CancelKill
<1>3. ASSUME CancelCommit(c) PROVE TypeOK'
  BY <1>3, <1>0, Facts DEF CancelCommit
<1> QED
  BY <1>1, <1>2, <1>3 DEF CancelStep, CancelProgress

\* A step of the admin cleanup preserves the types.
LEMMA CleanupType ==
  ASSUME IInv, NEW a \in Admins, CleanupStep(a), UNCHANGED server
  PROVE  TypeOK'
<1>0. TypeOK /\ LocalsOK
  BY DEF IInv, Relations
<1>1. ASSUME CleanupSelect(a) PROVE TypeOK'
  BY <1>1, <1>0, Facts DEF CleanupSelect
<1>2. ASSUME CleanupCommit(a) PROVE TypeOK'
  BY <1>2, <1>0, Facts, SMTT(20) DEF CleanupCommit
<1>3. ASSUME CleanupLoad(a) PROVE TypeOK'
  BY <1>3, <1>0, Facts DEF CleanupLoad
<1>4. ASSUME CleanupWrite(a) PROVE TypeOK'
  BY <1>4, <1>0, Facts, SMTT(20) DEF CleanupWrite
<1> QED
  BY <1>1, <1>2, <1>3, <1>4 DEF CleanupStep

\* A step of the handler that creates a run preserves the relations.
LEMMA CreatorRelations ==
  ASSUME IInv, NEW r \in Runs, CreatorStep(r), UNCHANGED <<admins, server>>
  PROVE  Relations'
<1>1. ASSUME InsertRun(r), UNCHANGED memory PROVE Relations'
  BY <1>1, Facts, SMTT(60) DEF InsertRun, IInv, Relations
<1>2. ASSUME StartWithoutResource(r), UNCHANGED memory PROVE Relations'
  BY <1>2, Facts, SMTT(60) DEF StartWithoutResource, IInv, Relations
<1>3. ASSUME SelectResource(r), UNCHANGED memory PROVE Relations'
  BY <1>3, Facts, SMTT(60) DEF SelectResource, IInv, Relations
<1>4. ASSUME InsertResource(r), UNCHANGED memory PROVE Relations'
  BY <1>4, Facts, SMTT(60) DEF InsertResource, IInv, Relations
<1>5. ASSUME SelectLock(r), UNCHANGED memory PROVE Relations'
  <2>1. LocalsOK'
    BY <1>5, Facts, SMTT(60) DEF SelectLock, IInv, Relations
  <2>2. CreatedAlone'
    BY <1>5, Facts, SMTT(60) DEF SelectLock, IInv, Relations
  <2>3. TasksDoNotWait'
    BY <1>5, Facts, SMTT(60) DEF SelectLock, IInv, Relations
  <2>4. PromotedWasQueued'
    BY <1>5, Facts, SMTT(60) DEF SelectLock, IInv, Relations
  <2>5. LocksOfStarted'
    BY <1>5, Facts, SMTT(60) DEF SelectLock, IInv, Relations
  <2>6. WaitingIsQueued'
    BY <1>5, Facts, SMTT(60) DEF SelectLock, IInv, Relations
  <2>7. QueuedIsWaiting'
    BY <1>5, Facts, SMTT(60) DEF SelectLock, IInv, Relations
  <2>8. RunningIsAttended'
    BY <1>5, Facts, SMTT(60) DEF SelectLock, IInv, Relations
  <2> QED
    BY <2>1, <2>2, <2>3, <2>4, <2>5, <2>6, <2>7, <2>8 DEF Relations
<1>6. ASSUME ReadHolder(r), UNCHANGED memory PROVE Relations'
  BY <1>6, Facts, SMTT(60) DEF ReadHolder, IInv, Relations
<1>7. ASSUME ExpireLock(r), UNCHANGED memory PROVE Relations'
  BY <1>7, Facts, SMTT(60) DEF ExpireLock, IInv, Relations
<1>8. ASSUME RecheckLock(r), UNCHANGED memory PROVE Relations'
  BY <1>8, Facts, SMTT(60) DEF RecheckLock, IInv, Relations
<1>9. ASSUME TakeLock(r), UNCHANGED memory PROVE Relations'
  BY <1>9, Facts, SMTT(60) DEF TakeLock, IInv, Relations
<1>10. ASSUME SelectMaxPosition(r), UNCHANGED memory PROVE Relations'
  BY <1>10, Facts, SMTT(60) DEF SelectMaxPosition, IInv, Relations
<1>11. ASSUME InsertEntry(r), UNCHANGED memory PROVE Relations'
  BY <1>11, Facts, SMTT(60) DEF InsertEntry, IInv, Relations
<1>12. ASSUME SpawnTask(r), UNCHANGED memory PROVE Relations'
  <2>1. LocalsOK'
    BY <1>12, Facts, SMTT(60) DEF SpawnTask, IInv, Relations
  <2>2. CreatedAlone'
    BY <1>12, Facts, SMTT(60) DEF SpawnTask, IInv, Relations
  <2>3. TasksDoNotWait'
    BY <1>12, Facts, SMTT(60) DEF SpawnTask, IInv, Relations
  <2>4. PromotedWasQueued'
    BY <1>12, Facts, SMTT(60) DEF SpawnTask, IInv, Relations
  <2>5. LocksOfStarted'
    BY <1>12, Facts, SMTT(60) DEF SpawnTask, IInv, Relations
  <2>6. WaitingIsQueued'
    BY <1>12, Facts, SMTT(60) DEF SpawnTask, IInv, Relations
  <2>7. QueuedIsWaiting'
    BY <1>12, Facts, SMTT(60) DEF SpawnTask, IInv, Relations
  <2>8. RunningIsAttended'
    BY <1>12, Facts, SMTT(60) DEF SpawnTask, IInv, Relations
  <2> QED
    BY <2>1, <2>2, <2>3, <2>4, <2>5, <2>6, <2>7, <2>8 DEF Relations
<1> QED
  BY <1>1, <1>2, <1>3, <1>4, <1>5, <1>6, <1>7, <1>8, <1>9, <1>10, <1>11,
     <1>12 DEF CreatorStep, AcquireStep

\* A step of a run task preserves the relations.
LEMMA TaskRelations ==
  ASSUME IInv, NEW t \in Tasks, TaskStep(t), UNCHANGED <<admins, server>>
  PROVE  Relations'
<1>1. ASSUME LoadRun(t) PROVE Relations'
  BY <1>1, Facts, SMTT(60) DEF LoadRun, IInv, Relations
<1>2. ASSUME SetupPasses(t) PROVE Relations'
  <2>1. LocalsOK'
    BY <1>2, Facts, SMTT(60) DEF SetupPasses, IInv, Relations
  <2>2. CreatedAlone'
    BY <1>2, Facts, SMTT(60) DEF SetupPasses, IInv, Relations
  <2>3. TasksDoNotWait'
    BY <1>2, Facts, SMTT(60) DEF SetupPasses, IInv, Relations
  <2>4. PromotedWasQueued'
    BY <1>2, Facts, SMTT(60) DEF SetupPasses, IInv, Relations
  <2>5. LocksOfStarted'
    BY <1>2, Facts, SMTT(60) DEF SetupPasses, IInv, Relations
  <2>6. WaitingIsQueued'
    BY <1>2, Facts, SMTT(60) DEF SetupPasses, IInv, Relations
  <2>7. QueuedIsWaiting'
    BY <1>2, Facts, SMTT(60) DEF SetupPasses, IInv, Relations
  <2>8. RunningIsAttended'
    BY <1>2, Facts, SMTT(60) DEF SetupPasses, IInv, Relations
  <2> QED
    BY <2>1, <2>2, <2>3, <2>4, <2>5, <2>6, <2>7, <2>8 DEF Relations
<1>3. ASSUME TaskFails(t) PROVE Relations'
  <2>1. LocalsOK'
    BY <1>3, Facts, SMTT(60) DEF TaskFails, IInv, Relations
  <2>2. CreatedAlone'
    BY <1>3, Facts, SMTT(60) DEF TaskFails, IInv, Relations
  <2>3. TasksDoNotWait'
    BY <1>3, Facts, SMTT(60) DEF TaskFails, IInv, Relations
  <2>4. PromotedWasQueued'
    BY <1>3, Facts, SMTT(60) DEF TaskFails, IInv, Relations
  <2>5. LocksOfStarted'
    BY <1>3, Facts, SMTT(60) DEF TaskFails, IInv, Relations
  <2>6. WaitingIsQueued'
    BY <1>3, Facts, SMTT(60) DEF TaskFails, IInv, Relations
  <2>7. QueuedIsWaiting'
    BY <1>3, Facts, SMTT(60) DEF TaskFails, IInv, Relations
  <2>8. RunningIsAttended'
    BY <1>3, Facts, SMTT(60) DEF TaskFails, IInv, Relations
  <2> QED
    BY <2>1, <2>2, <2>3, <2>4, <2>5, <2>6, <2>7, <2>8 DEF Relations
<1>4. ASSUME StartCapture(t) PROVE Relations'
  <2>1. LocalsOK'
    BY <1>4, Facts, SMTT(60) DEF StartCapture, IInv, Relations
  <2>2. CreatedAlone'
    BY <1>4, Facts, SMTT(60) DEF StartCapture, IInv, Relations
  <2>3. TasksDoNotWait'
    BY <1>4, Facts, SMTT(60) DEF StartCapture, IInv, Relations
  <2>4. PromotedWasQueued'
    BY <1>4, Facts, SMTT(60) DEF StartCapture, IInv, Relations
  <2>5. LocksOfStarted'
    BY <1>4, Facts, SMTT(60) DEF StartCapture, IInv, Relations
  <2>6. WaitingIsQueued'
    BY <1>4, Facts, SMTT(60) DEF StartCapture, IInv, Relations
  <2>7. QueuedIsWaiting'
    BY <1>4, Facts, SMTT(60) DEF StartCapture, IInv, Relations
  <2>8. RunningIsAttended'
    BY <1>4, Facts, SMTT(60) DEF StartCapture, IInv, Relations
  <2> QED
    BY <2>1, <2>2, <2>3, <2>4, <2>5, <2>6, <2>7, <2>8 DEF Relations
<1>11. ASSUME Launch(t) PROVE Relations'
  <2>1. LocalsOK'
    BY <1>11, Facts, SMTT(60) DEF Launch, IInv, Relations
  <2>2. CreatedAlone'
    BY <1>11, Facts, SMTT(60) DEF Launch, IInv, Relations
  <2>3. TasksDoNotWait'
    BY <1>11, Facts, SMTT(60) DEF Launch, IInv, Relations
  <2>4. PromotedWasQueued'
    BY <1>11, Facts, SMTT(60) DEF Launch, IInv, Relations
  <2>5. LocksOfStarted'
    BY <1>11, Facts, SMTT(60) DEF Launch, IInv, Relations
  <2>6. WaitingIsQueued'
    BY <1>11, Facts, SMTT(60) DEF Launch, IInv, Relations
  <2>7. QueuedIsWaiting'
    BY <1>11, Facts, SMTT(60) DEF Launch, IInv, Relations
  <2>8. RunningIsAttended'
    BY <1>11, Facts, SMTT(60) DEF Launch, IInv, Relations
  <2> QED
    BY <2>1, <2>2, <2>3, <2>4, <2>5, <2>6, <2>7, <2>8 DEF Relations
<1>5. ASSUME TimeoutKill(t) PROVE Relations'
  BY <1>5, Facts, SMTT(60) DEF TimeoutKill, IInv, Relations
<1>6. ASSUME LeaveLoop(t) PROVE Relations'
  <2>1. LocalsOK'
    BY <1>6, Facts, SMTT(60) DEF LeaveLoop, IInv, Relations
  <2>2. CreatedAlone'
    BY <1>6, Facts, SMTT(60) DEF LeaveLoop, IInv, Relations
  <2>3. TasksDoNotWait'
    BY <1>6, Facts, SMTT(60) DEF LeaveLoop, IInv, Relations
  <2>4. PromotedWasQueued'
    BY <1>6, Facts, SMTT(60) DEF LeaveLoop, IInv, Relations
  <2>5. LocksOfStarted'
    BY <1>6, Facts, SMTT(60) DEF LeaveLoop, IInv, Relations
  <2>6. WaitingIsQueued'
    BY <1>6, Facts, SMTT(60) DEF LeaveLoop, IInv, Relations
  <2>7. QueuedIsWaiting'
    BY <1>6, Facts, SMTT(60) DEF LeaveLoop, IInv, Relations
  <2>8. RunningIsAttended'
    BY <1>6, Facts, SMTT(60) DEF LeaveLoop, IInv, Relations
  <2> QED
    BY <2>1, <2>2, <2>3, <2>4, <2>5, <2>6, <2>7, <2>8 DEF Relations
<1>7. ASSUME RefreshRun(t) PROVE Relations'
  BY <1>7, Facts, SMTT(60) DEF RefreshRun, IInv, Relations
<1>8. ASSUME CommitOutcome(t) PROVE Relations'
  <2>1. LocalsOK'
    BY <1>8, Facts, SMTT(60) DEF CommitOutcome, IInv, Relations
  <2>2. CreatedAlone'
    BY <1>8, Facts, SMTT(60) DEF CommitOutcome, IInv, Relations
  <2>3. TasksDoNotWait'
    BY <1>8, Facts, SMTT(60) DEF CommitOutcome, IInv, Relations
  <2>4. PromotedWasQueued'
    BY <1>8, Facts, SMTT(60) DEF CommitOutcome, IInv, Relations
  <2>5. LocksOfStarted'
    BY <1>8, Facts, SMTT(60) DEF CommitOutcome, IInv, Relations
  <2>6. WaitingIsQueued'
    BY <1>8, Facts, SMTT(60) DEF CommitOutcome, IInv, Relations
  <2>7. QueuedIsWaiting'
    BY <1>8, Facts, SMTT(60) DEF CommitOutcome, IInv, Relations
  <2>8. RunningIsAttended'
    BY <1>8, Facts, SMTT(60) DEF CommitOutcome, IInv, Relations
  <2> QED
    BY <2>1, <2>2, <2>3, <2>4, <2>5, <2>6, <2>7, <2>8 DEF Relations
<1>9. ASSUME TeardownEnds(t) PROVE Relations'
  <2>1. LocalsOK'
    BY <1>9, Facts, SMTT(60) DEF TeardownEnds, IInv, Relations
  <2>2. CreatedAlone'
    BY <1>9, Facts, SMTT(60) DEF TeardownEnds, IInv, Relations
  <2>3. TasksDoNotWait'
    BY <1>9, Facts, SMTT(60) DEF TeardownEnds, IInv, Relations
  <2>4. PromotedWasQueued'
    BY <1>9, Facts, SMTT(60) DEF TeardownEnds, IInv, Relations
  <2>5. LocksOfStarted'
    BY <1>9, Facts, SMTT(60) DEF TeardownEnds, IInv, Relations
  <2>6. WaitingIsQueued'
    BY <1>9, Facts, SMTT(60) DEF TeardownEnds, IInv, Relations
  <2>7. QueuedIsWaiting'
    BY <1>9, Facts, SMTT(60) DEF TeardownEnds, IInv, Relations
  <2>8. RunningIsAttended'
    BY <1>9, Facts, SMTT(60) DEF TeardownEnds, IInv, Relations
  <2> QED
    BY <2>1, <2>2, <2>3, <2>4, <2>5, <2>6, <2>7, <2>8 DEF Relations
<1>10. ASSUME MarkFailed(t) PROVE Relations'
  <2>1. LocalsOK'
    BY <1>10, Facts, SMTT(60) DEF MarkFailed, IInv, Relations
  <2>2. CreatedAlone'
    BY <1>10, Facts, SMTT(60) DEF MarkFailed, IInv, Relations
  <2>3. TasksDoNotWait'
    BY <1>10, Facts, SMTT(60) DEF MarkFailed, IInv, Relations
  <2>4. PromotedWasQueued'
    BY <1>10, Facts, SMTT(60) DEF MarkFailed, IInv, Relations
  <2>5. LocksOfStarted'
    BY <1>10, Facts, SMTT(60) DEF MarkFailed, IInv, Relations
  <2>6. WaitingIsQueued'
    BY <1>10, Facts, SMTT(60) DEF MarkFailed, IInv, Relations
  <2>7. QueuedIsWaiting'
    BY <1>10, Facts, SMTT(60) DEF MarkFailed, IInv, Relations
  <2>8. RunningIsAttended'
    BY <1>10, Facts, SMTT(60) DEF MarkFailed, IInv, Relations
  <2> QED
    BY <2>1, <2>2, <2>3, <2>4, <2>5, <2>6, <2>7, <2>8 DEF Relations
<1> QED
  BY <1>1, <1>2, <1>3, <1>4, <1>5, <1>6, <1>7, <1>8, <1>9,
     <1>10, <1>11 DEF TaskStep, TaskProgress

\* A step of a worker in release_resource preserves the relations.
LEMMA ReleaseRelations ==
  ASSUME IInv, NEW w \in Workers, Release(w), UNCHANGED <<admins, server>>
  PROVE  Relations'
<1>1. ASSUME SelectOwnLock(w), UNCHANGED memory PROVE Relations'
  BY <1>1, Facts, SMTT(60) DEF SelectOwnLock, IInv, Relations
<1>2. ASSUME UnlockRow(w), UNCHANGED memory PROVE Relations'
  <2>1. LocalsOK'
    <3>1. CASE Leaves(w, "unlock") /\ UNCHANGED tables
      BY <1>2, <3>1, Facts, SMTT(60) DEF UnlockRow, IInv, Relations
    <3>2. CASE ~(Leaves(w, "unlock") /\ UNCHANGED tables)
      BY <1>2, <3>2, Facts, SMTT(60) DEF UnlockRow, IInv, Relations
    <3> QED BY <3>1, <3>2
  <2>2. CreatedAlone'
    BY <1>2, Facts, SMTT(60) DEF UnlockRow, IInv, Relations
  <2>3. TasksDoNotWait'
    BY <1>2, Facts, SMTT(60) DEF UnlockRow, IInv, Relations
  <2>4. PromotedWasQueued'
    BY <1>2, Facts, SMTT(60) DEF UnlockRow, IInv, Relations
  <2>5. LocksOfStarted'
    BY <1>2, Facts, SMTT(60) DEF UnlockRow, IInv, Relations
  <2>6. WaitingIsQueued'
    BY <1>2, Facts, SMTT(60) DEF UnlockRow, IInv, Relations
  <2>7. QueuedIsWaiting'
    <3>1. /\ pc[w] = "unlock" /\ UNCHANGED <<status, queueEntry, up>>
          /\ \A v \in Workers : v # w => pc'[v] = pc[v] /\ next'[v] = next[v]
      BY <1>2, Facts DEF UnlockRow, IInv, Relations
    <3>2. \A v \in Workers, r \in Runs : Promoting(v, r) => Promoting(v, r)'
      BY <3>1 DEF Promoting
    <3>3. QueuedIsWaiting
      BY DEF IInv, Relations
    <3> QED BY <3>1, <3>2, <3>3 DEF QueuedIsWaiting
  <2>8. RunningIsAttended'
    BY <1>2, Facts, SMTT(60) DEF UnlockRow, IInv, Relations
  <2> QED
    BY <2>1, <2>2, <2>3, <2>4, <2>5, <2>6, <2>7, <2>8 DEF Relations
<1>3. ASSUME SelectNext(w), UNCHANGED memory PROVE Relations'
  <2>1. LocalsOK'
    <3>1. CASE Leaves(w, "next") /\ UNCHANGED tables
      BY <1>3, <3>1, Facts, SMTT(60) DEF SelectNext, IInv, Relations
    <3>2. CASE ~(Leaves(w, "next") /\ UNCHANGED tables)
      BY <1>3, <3>2, Facts, SMTT(60) DEF SelectNext, IInv, Relations
    <3> QED BY <3>1, <3>2
  <2>2. CreatedAlone'
    BY <1>3, Facts, SMTT(60) DEF SelectNext, IInv, Relations
  <2>3. TasksDoNotWait'
    BY <1>3, Facts, SMTT(60) DEF SelectNext, IInv, Relations
  <2>4. PromotedWasQueued'
    BY <1>3, Facts, SMTT(60) DEF SelectNext, IInv, Relations
  <2>5. LocksOfStarted'
    BY <1>3, Facts, SMTT(60) DEF SelectNext, IInv, Relations
  <2>6. WaitingIsQueued'
    BY <1>3, Facts, SMTT(60) DEF SelectNext, IInv, Relations
  <2>7. QueuedIsWaiting'
    <3>1. /\ pc[w] = "next" /\ UNCHANGED <<status, queueEntry, up>>
          /\ \A v \in Workers : v # w => pc'[v] = pc[v] /\ next'[v] = next[v]
      BY <1>3, Facts DEF SelectNext, IInv, Relations
    <3>2. \A v \in Workers, r \in Runs : Promoting(v, r) => Promoting(v, r)'
      BY <3>1 DEF Promoting
    <3>3. QueuedIsWaiting
      BY DEF IInv, Relations
    <3> QED BY <3>1, <3>2, <3>3 DEF QueuedIsWaiting
  <2>8. RunningIsAttended'
    BY <1>3, Facts, SMTT(60) DEF SelectNext, IInv, Relations
  <2> QED
    BY <2>1, <2>2, <2>3, <2>4, <2>5, <2>6, <2>7, <2>8 DEF Relations
<1>4. ASSUME ClaimEntry(w), UNCHANGED memory PROVE Relations'
  <2>1. LocalsOK'
    BY <1>4, Facts, SMTT(60) DEF ClaimEntry, IInv, Relations
  <2>2. CreatedAlone'
    BY <1>4, Facts, SMTT(60) DEF ClaimEntry, IInv, Relations
  <2>3. TasksDoNotWait'
    BY <1>4, Facts, SMTT(60) DEF ClaimEntry, IInv, Relations
  <2>4. PromotedWasQueued'
    BY <1>4, Facts, SMTT(60) DEF ClaimEntry, IInv, Relations
  <2>5. LocksOfStarted'
    BY <1>4, Facts, SMTT(60) DEF ClaimEntry, IInv, Relations
  <2>6. WaitingIsQueued'
    BY <1>4, Facts, SMTT(60) DEF ClaimEntry, IInv, Relations
  <2>7. QueuedIsWaiting'
    <3>1. /\ pc[w] = "claim" /\ next[w] \in Runs
          /\ UNCHANGED <<status, up>>
          /\ \A v \in Workers : v # w => pc'[v] = pc[v] /\ next'[v] = next[v]
      BY <1>4, Facts DEF ClaimEntry, Leaves, Goes, IInv, Relations
    <3>2. \/ /\ queueEntry' = [queueEntry EXCEPT ![next[w]] = "running"]
             /\ pc'[w] = "load_next" /\ next'[w] = next[w]
          \/ queueEntry' = queueEntry
      BY <1>4, Facts DEF ClaimEntry, Leaves, Goes, IInv, Relations
    <3>3. /\ QueuedIsWaiting
          /\ queueEntry \in [Runs -> {"none", "waiting", "running"}]
      BY DEF IInv, Relations
    <3>4. \A v \in Workers, r \in Runs : Promoting(v, r) => Promoting(v, r)'
      BY <3>1 DEF Promoting
    <3>5. \A r \in Runs :
            queueEntry[r] = "waiting" =>
              queueEntry'[r] = "waiting" \/ Promoting(w, r)'
      BY <3>2, <3>3 DEF Promoting
    <3> QED BY <3>1, <3>3, <3>4, <3>5 DEF QueuedIsWaiting
  <2>8. RunningIsAttended'
    BY <1>4, Facts, SMTT(60) DEF ClaimEntry, IInv, Relations
  <2> QED
    BY <2>1, <2>2, <2>3, <2>4, <2>5, <2>6, <2>7, <2>8 DEF Relations
<1>5. ASSUME LoadNext(w), UNCHANGED memory PROVE Relations'
  BY <1>5, Facts, SMTT(60) DEF LoadNext, IInv, Relations
<1>6. ASSUME Promote(w), UNCHANGED memory PROVE Relations'
  <2>1. LocalsOK'
    BY <1>6, Facts, SMTT(60) DEF Promote, IInv, Relations
  <2>2. CreatedAlone'
    <3>1. PICK t \in Tasks :
            /\ pc[t] = "idle" /\ pc[w] = "promote"
            /\ pc' = [pc EXCEPT ![w] = Rest(w), ![t] = "spawned"]
            /\ item' = [item EXCEPT ![w] = NoRun, ![t] = next[w]]
            /\ next' = [next EXCEPT ![w] = NoRun]
            /\ UNCHANGED <<cpc, queueEntry>>
      BY <1>6 DEF Promote
    <3>2. Settled(next[w])
      BY <3>1, Facts DEF IInv, Relations
    <3>3. TypeOK /\ CreatedAlone
      BY DEF IInv, Relations
    <3> QED
      BY <3>1, <3>2, <3>3, Facts, SMTT(40)
  <2>3. TasksDoNotWait'
    BY <1>6, Facts, SMTT(60) DEF Promote, IInv, Relations
  <2>4. PromotedWasQueued'
    BY <1>6, Facts, SMTT(60) DEF Promote, IInv, Relations
  <2>5. LocksOfStarted'
    BY <1>6, Facts, SMTT(60) DEF Promote, IInv, Relations
  <2>6. WaitingIsQueued'
    BY <1>6, Facts, SMTT(60) DEF Promote, IInv, Relations
  <2>7. QueuedIsWaiting'
    BY <1>6, Facts, SMTT(60) DEF Promote, IInv, Relations
  <2>8. RunningIsAttended'
    BY <1>6, Facts, SMTT(60) DEF Promote, IInv, Relations
  <2> QED
    BY <2>1, <2>2, <2>3, <2>4, <2>5, <2>6, <2>7, <2>8 DEF Relations
<1> QED
  BY <1>1, <1>2, <1>3, <1>4, <1>5, <1>6 DEF Release, ReleaseStep

\* A step of a cancel request preserves the relations.
LEMMA CancelRelations ==
  ASSUME IInv, NEW c \in Cancels, CancelStep(c), UNCHANGED <<admins, server>>
  PROVE  Relations'
<1>1. ASSUME CancelLoad(c) PROVE Relations'
  <2>1. LocalsOK'
    BY <1>1, Facts, SMTT(60) DEF CancelLoad, IInv, Relations
  <2>2. CreatedAlone'
    BY <1>1, Facts, SMTT(60) DEF CancelLoad, IInv, Relations
  <2>3. TasksDoNotWait'
    BY <1>1, Facts, SMTT(60) DEF CancelLoad, IInv, Relations
  <2>4. PromotedWasQueued'
    BY <1>1, Facts, SMTT(60) DEF CancelLoad, IInv, Relations
  <2>5. LocksOfStarted'
    BY <1>1, Facts, SMTT(60) DEF CancelLoad, IInv, Relations
  <2>6. WaitingIsQueued'
    BY <1>1, Facts, SMTT(60) DEF CancelLoad, IInv, Relations
  <2>7. QueuedIsWaiting'
    BY <1>1, Facts, SMTT(60) DEF CancelLoad, IInv, Relations
  <2>8. RunningIsAttended'
    BY <1>1, Facts, SMTT(60) DEF CancelLoad, IInv, Relations
  <2> QED
    BY <2>1, <2>2, <2>3, <2>4, <2>5, <2>6, <2>7, <2>8 DEF Relations
<1>2. ASSUME CancelKill(c) PROVE Relations'
  <2>1. LocalsOK'
    BY <1>2, Facts, SMTT(60) DEF CancelKill, IInv, Relations
  <2>2. CreatedAlone'
    BY <1>2, Facts, SMTT(60) DEF CancelKill, IInv, Relations
  <2>3. TasksDoNotWait'
    BY <1>2, Facts, SMTT(60) DEF CancelKill, IInv, Relations
  <2>4. PromotedWasQueued'
    BY <1>2, Facts, SMTT(60) DEF CancelKill, IInv, Relations
  <2>5. LocksOfStarted'
    BY <1>2, Facts, SMTT(60) DEF CancelKill, IInv, Relations
  <2>6. WaitingIsQueued'
    BY <1>2, Facts, SMTT(60) DEF CancelKill, IInv, Relations
  <2>7. QueuedIsWaiting'
    BY <1>2, Facts, SMTT(60) DEF CancelKill, IInv, Relations
  <2>8. RunningIsAttended'
    BY <1>2, Facts, SMTT(60) DEF CancelKill, IInv, Relations
  <2> QED
    BY <2>1, <2>2, <2>3, <2>4, <2>5, <2>6, <2>7, <2>8 DEF Relations
<1>3. ASSUME CancelCommit(c) PROVE Relations'
  <2>1. LocalsOK'
    BY <1>3, Facts, SMTT(60) DEF CancelCommit, IInv, Relations
  <2>2. CreatedAlone'
    BY <1>3, Facts, SMTT(60) DEF CancelCommit, IInv, Relations
  <2>3. TasksDoNotWait'
    BY <1>3, Facts, SMTT(60) DEF CancelCommit, IInv, Relations
  <2>4. PromotedWasQueued'
    BY <1>3, Facts, SMTT(60) DEF CancelCommit, IInv, Relations
  <2>5. LocksOfStarted'
    BY <1>3, Facts, SMTT(60) DEF CancelCommit, IInv, Relations
  <2>6. WaitingIsQueued'
    BY <1>3, Facts, SMTT(60) DEF CancelCommit, IInv, Relations
  <2>7. QueuedIsWaiting'
    BY <1>3, Facts, SMTT(60) DEF CancelCommit, IInv, Relations
  <2>8. RunningIsAttended'
    BY <1>3, Facts, SMTT(60) DEF CancelCommit, IInv, Relations
  <2> QED
    BY <2>1, <2>2, <2>3, <2>4, <2>5, <2>6, <2>7, <2>8 DEF Relations
<1> QED
  BY <1>1, <1>2, <1>3 DEF CancelStep, CancelProgress

\* A step of the admin cleanup preserves the relations.
LEMMA CleanupRelations ==
  ASSUME IInv, NEW a \in Admins, CleanupStep(a), UNCHANGED server
  PROVE  Relations'
<1>1. ASSUME CleanupSelect(a) PROVE Relations'
  BY <1>1, Facts, SMTT(60) DEF CleanupSelect, IInv, Relations
<1>2. ASSUME CleanupCommit(a) PROVE Relations'
  BY <1>2, Facts, SMTT(60) DEF CleanupCommit, IInv, Relations
<1>3. ASSUME CleanupLoad(a) PROVE Relations'
  BY <1>3, Facts, SMTT(60) DEF CleanupLoad, IInv, Relations
<1>4. ASSUME CleanupWrite(a) PROVE Relations'
  BY <1>4, Facts, SMTT(60) DEF CleanupWrite, IInv, Relations
<1> QED
  BY <1>1, <1>2, <1>3, <1>4 DEF CleanupStep

\* The end or the poll of a subprocess, a crash and a startup preserve the
\* types.
LEMMA ServerType ==
  ASSUME IInv,
         \/ \E r \in Runs : PollActiveFiles(r) /\ UNCHANGED <<admins, server>>
         \/ \E t \in Tasks : ProcessExits(t)
         \/ Crash \/ Startup
  PROVE  TypeOK'
<1>1. ASSUME NEW r \in Runs, PollActiveFiles(r), UNCHANGED <<admins, server>>
      PROVE  TypeOK'
  BY <1>1, Facts DEF PollActiveFiles, IInv, Relations
<1>2. ASSUME NEW t \in Tasks, ProcessExits(t) PROVE TypeOK'
  BY <1>2, Facts DEF ProcessExits, IInv, Relations
<1>3. CASE Crash
  <2>1. cpc' \in [Runs -> CreatorPCs] /\ pc' \in [Workers -> WorkerPCs]
    BY <1>3, Facts DEF Crash, IInv
  <2>2. proc' \in [Tasks -> ProcStates] /\ body' \in [Tasks -> {"test", "cli"}]
    BY <1>3 DEF Crash, IInv
  <2>3. apc' \in [Admins -> {"idle", "cleanup", "write", "done"}]
        /\ crashes' \in 0..MaxCrashes
    BY <1>3, MaxCrashesOK DEF Crash, IInv
  <2>4. QueueTypeOK'
    BY <1>3, <2>1, <2>2 DEF Crash, IInv
  <2>5. TablesTypeOK'
    BY <1>3 DEF Crash, IInv
  <2> QED
    BY <1>3, <2>3, <2>4, <2>5 DEF Crash
<1>4. CASE Startup
  BY <1>4, Facts DEF Startup, IInv, Relations
<1> QED
  BY <1>1, <1>2, <1>3, <1>4

\* The end or the poll of a subprocess, a crash and a startup preserve the
\* relations.
LEMMA ServerRelations ==
  ASSUME IInv,
         \/ \E r \in Runs : PollActiveFiles(r) /\ UNCHANGED <<admins, server>>
         \/ \E t \in Tasks : ProcessExits(t)
         \/ Crash \/ Startup
  PROVE  Relations'
<1>1. ASSUME NEW r \in Runs, PollActiveFiles(r), UNCHANGED <<admins, server>>
      PROVE  Relations'
  BY <1>1, Facts, SMTT(30) DEF PollActiveFiles, IInv, Relations
<1>2. ASSUME NEW t \in Tasks, ProcessExits(t) PROVE Relations'
  BY <1>2, Facts DEF ProcessExits, IInv, Relations
<1>3. CASE Crash
  BY <1>3, Facts DEF Crash, IInv, Relations
<1>4. CASE Startup
  BY <1>4, Facts DEF Startup, IInv, Relations
<1> QED
  BY <1>1, <1>2, <1>3, <1>4
-----------------------------------------------------------------------------
\* The initial states satisfy the invariant.
LEMMA InitInv == Init => IInv
<1> SUFFICES ASSUME Init PROVE IInv
  OBVIOUS
<1>1. TypeOK
  BY MaxCrashesOK, Facts DEF Init, TablesInit, QueueInit
<1>2. Relations
  BY Facts DEF Init, TablesInit, QueueInit, Relations
<1> QED
  BY <1>1, <1>2 DEF IInv

\* Every step preserves the invariant.
LEMMA StepInv == IInv /\ [Next]_vars => IInv'
<1> SUFFICES ASSUME IInv, [Next]_vars PROVE TypeOK' /\ Relations'
  BY DEF IInv
<1>1. ASSUME NEW r \in Runs, CreatorStep(r), UNCHANGED <<admins, server>>
      PROVE  TypeOK' /\ Relations'
  BY <1>1, CreatorType, CreatorRelations
<1>2. ASSUME NEW t \in Tasks, TaskStep(t), UNCHANGED <<admins, server>>
      PROVE  TypeOK' /\ Relations'
  BY <1>2, TaskType, TaskRelations
<1>3. ASSUME NEW w \in Workers, Release(w), UNCHANGED <<admins, server>>
      PROVE  TypeOK' /\ Relations'
  BY <1>3, ReleaseType, ReleaseRelations
<1>4. ASSUME NEW c \in Cancels, CancelStep(c), UNCHANGED <<admins, server>>
      PROVE  TypeOK' /\ Relations'
  BY <1>4, CancelType, CancelRelations
<1>5. ASSUME NEW a \in Admins, CleanupStep(a), UNCHANGED server
      PROVE  TypeOK' /\ Relations'
  BY <1>5, CleanupType, CleanupRelations
<1>6. ASSUME \/ \E r \in Runs :
                  PollActiveFiles(r) /\ UNCHANGED <<admins, server>>
             \/ \E t \in Tasks : ProcessExits(t)
             \/ Crash \/ Startup
      PROVE  TypeOK' /\ Relations'
  BY <1>6, ServerType, ServerRelations
<1>7. CASE UNCHANGED vars
  <2>1. TypeOK'
    BY <1>7 DEF vars, IInv
  <2>2. Relations'
    BY <1>7 DEF vars, IInv, Relations
  <2> QED BY <2>1, <2>2
<1> QED
  BY <1>1, <1>2, <1>3, <1>4, <1>5, <1>6, <1>7 DEF Next, Serve

\* The inductive invariant: tables, program counters and locals stay in step.
THEOREM Invariance == Spec => []IInv
<1> QED BY InitInv, StepInv, PTL DEF Spec

\* Every variable keeps its type.
THEOREM TypeCorrect == Spec => []TypeOK
<1>1. IInv => TypeOK
  BY DEF IInv
<1> QED BY <1>1, Invariance, PTL

\* A running run always has a coroutine that will end it (routes.py:194-241,
\* 1913-1935, runner.py:387-656).
THEOREM NoForgottenRun == Spec => []RunningIsAttended
<1>1. IInv => RunningIsAttended
  BY DEF IInv, Relations
<1> QED BY <1>1, Invariance, PTL

\* The queue table and the run table agree (queue.py:52-107, routes.py:424-445).
THEOREM QueueAgrees == Spec => []EntriesAgree
<1>1. IInv => EntriesAgree
  BY DEF IInv, Relations, EntriesAgree
<1> QED BY <1>1, Invariance, PTL

\* No resource is wedged: the holder of an unreleased lock is terminal or will
\* be, so that acquire_lock can release it (queue.py:31-35).
THEOREM NoWedgedResource == Spec => []LocksCanExpire
<1>1. IInv => LocksCanExpire
  BY Facts DEF IInv, Relations, LocksCanExpire
<1> QED BY <1>1, Invariance, PTL

-----------------------------------------------------------------------------
\* A finished run that no coroutine handles keeps its status in every step.
LEMMA FinishedStep ==
  ASSUME IInv, [Next]_vars, NEW q \in Runs, status[q] \in Terminal, ~Handled(q),
         \A a \in Admins : q \notin stuck[a]
  PROVE  status'[q] = status[q]
<1> USE DEF Handled
<1>1. ASSUME NEW r \in Runs, CreatorStep(r) PROVE status'[q] = status[q]
  BY <1>1 DEF CreatorStep, AcquireStep, InsertRun, StartWithoutResource,
     SelectResource, InsertResource, SelectLock, ReadHolder, ExpireLock,
     RecheckLock, TakeLock, SelectMaxPosition, InsertEntry, SpawnTask, IInv
<1>2. ASSUME NEW t \in Tasks, TaskStep(t) PROVE status'[q] = status[q]
  <2>1. item[t] # q
    BY Facts
  <2> QED
    BY <1>2, <2>1, Facts DEF TaskStep, TaskProgress, LoadRun, SetupPasses,
       TaskFails, StartCapture, Launch, TimeoutKill, LeaveLoop, RefreshRun,
       CommitOutcome, TeardownEnds, MarkFailed, IInv
<1>3. ASSUME NEW w \in Workers, Release(w) PROVE status'[q] = status[q]
  <2>1. next[w] # q
    OBVIOUS
  <2> QED
    BY <1>3, <2>1 DEF Release, ReleaseStep, SelectOwnLock, UnlockRow,
       SelectNext, ClaimEntry, LoadNext, Promote, IInv
<1>4. ASSUME NEW c \in Cancels, CancelStep(c) PROVE status'[q] = status[q]
  <2>1. item[c] # q
    BY Facts
  <2> QED
    BY <1>4, <2>1 DEF CancelStep, CancelProgress, CancelLoad,
       CancelKill, CancelCommit, IInv
<1>5. ASSUME NEW a \in Admins, CleanupStep(a) PROVE status'[q] = status[q]
  BY <1>5 DEF CleanupStep, CleanupSelect, CleanupCommit, CleanupLoad,
     CleanupWrite, IInv
<1>6. ASSUME \/ \E r \in Runs : PollActiveFiles(r)
             \/ \E t \in Tasks : ProcessExits(t)
             \/ Crash \/ Startup
      PROVE  status'[q] = status[q]
  BY <1>6 DEF PollActiveFiles, ProcessExits, Crash, Startup, IInv
<1>7. CASE UNCHANGED vars
  BY <1>7 DEF vars
<1> QED
  BY <1>1, <1>2, <1>3, <1>4, <1>5, <1>6, <1>7 DEF Next, Serve

\* The queue and a restart never reopen or relabel a finished run that nobody
\* handles, nor does a cleanup that had not read it as active while no lock was
\* held (routes.py:113-147, main.py:73-95).
THEOREM FinishedKept == Spec => FinishedRunsKept
<1>1. IInv /\ [Next]_vars =>
        [\A r \in Runs :
           /\ status[r] \in Terminal /\ ~Handled(r)
           /\ \A a \in Admins : r \notin stuck[a]
           => status'[r] = status[r]]_vars
  BY FinishedStep
<1> QED BY <1>1, Invariance, PTL DEF Spec, FinishedRunsKept

\* Only the startup of the server takes it from down to up.
LEMMA OnlyStartup == ASSUME Next, ~up, up' PROVE Startup
BY DEF Next, ProcessExits

\* The commit of lifespan leaves nothing of the previous process
\* (main.py:73-95, REQ-ADM-003).
THEOREM CleanRestart == Spec => RestartIsClean
<1>1. IInv /\ [Next]_vars =>
        [~up /\ up' => /\ \A x \in Rows : lockRow'[x] # "held"
                       /\ \A r \in Runs : status'[r] \notin Active
                                           /\ queueEntry'[r] # "waiting"]_vars
  <2> SUFFICES ASSUME IInv, Next, ~up, up'
               PROVE  /\ \A x \in Rows : lockRow'[x] # "held"
                      /\ \A r \in Runs : status'[r] \notin Active
                                          /\ queueEntry'[r] # "waiting"
    OBVIOUS
  <2>1. Startup
    BY OnlyStartup
  <2> QED
    BY <2>1 DEF Startup, IInv, Relations
<1> QED BY <1>1, Invariance, PTL DEF Spec, RestartIsClean
=============================================================================
