--------------------------- MODULE ResourceQueue ---------------------------
(***************************************************************************)
(* ResourceQueueManager (backend/app/services/queue.py): one action per    *)
(* database statement or commit, with the local code up to the next await, *)
(* because asyncio may run any other handler or task at each await.        *)
(*                                                                         *)
(* find_or_create_resource, acquire_lock and enqueue_run are called by the *)
(* handler that creates a run (one per run); release_resource by run tasks *)
(* and by cancel requests (Workers).                                       *)
(***************************************************************************)
EXTENDS RunTables

VARIABLES
  \* locals of the handler creating each run
  cpc, crow, cmax,
  \* locals of the workers: where they are, the run they work for, the
  \* status they loaded, the lock row and the queue entry they selected, and
  \* the status they loaded for that entry's run
  pc, item, seen, row, next, nextSeen,
  \* locals of a run task: the coroutine it executes, started_at as loaded,
  \* and its subprocesses (one value for the set of them)
  body, seenStarted, proc

creators == <<cpc, crow, cmax>>
workers  == <<pc, item, seen, row, next, nextSeen, body, seenStarted,
             proc>>

QueueInit ==
  /\ cpc = [r \in Runs |-> "new"]
  /\ crow = [r \in Runs |-> NoRow]
  /\ cmax = [r \in Runs |-> 0]
  /\ pc = [w \in Workers |-> "idle"]
  /\ item = [w \in Workers |-> NoRun]
  /\ seen = [w \in Workers |-> "none"]
  /\ row = [w \in Workers |-> NoRow]
  /\ next = [w \in Workers |-> NoRun]
  /\ nextSeen = [w \in Workers |-> "none"]
  /\ body = [t \in Tasks |-> "test"]
  /\ seenStarted = [t \in Tasks |-> FALSE]
  /\ proc = [t \in Tasks |-> "none"]

CreatorPCs == {"new", "start", "resource", "new_resource", "lock", "holder",
               "expire", "recheck", "take", "spawn", "queue", "enqueue",
               "done", "error"}
ReleasePCs == {"release", "unlock", "next", "claim", "load_next", "promote"}
TaskPCs    == {"spawned", "setup", "launch", "start", "loop", "refresh",
               "commit", "teardown", "except"}
WorkerPCs  == {"idle", "kill", "cancel", "done"} \cup ReleasePCs \cup TaskPCs

\* returncode: None while "live", 0, positive, negative (a signal), and None
\* after the timeout's kill() when nothing has polled the process since.
ProcStates == {"none", "live", "ok", "failed", "killed", "timedout"}

QueueTypeOK ==
  /\ cpc \in [Runs -> CreatorPCs]
  /\ crow \in [Runs -> Rows \cup {NoRow}]
  /\ cmax \in [Runs -> Nat]
  /\ pc \in [Workers -> WorkerPCs]
  /\ item \in [Workers -> Runs \cup {NoRun}]
  /\ seen \in [Workers -> Statuses]
  /\ row \in [Workers -> Rows \cup {NoRow}]
  /\ next \in [Workers -> Runs \cup {NoRun}]
  /\ nextSeen \in [Workers -> Statuses]
  /\ body \in [Tasks -> {"test", "cli"}]
  /\ seenStarted \in [Tasks -> BOOLEAN]
  /\ proc \in [Tasks -> ProcStates]

\* A slot whose task has ended and whose subprocesses are gone.
Free(t) == pc[t] = "idle" /\ proc[t] # "live"

CreatorGoes(r, from, to) == cpc[r] = from /\ cpc' = [cpc EXCEPT ![r] = to]
Goes(w, from, to) == pc[w] = from /\ pc' = [pc EXCEPT ![w] = to]

-----------------------------------------------------------------------------
(* find_or_create_resource *)

SelectResource(r) ==
  /\ CreatorGoes(r, "resource",
       IF ResourceOf[r] \in resources THEN "lock" ELSE "new_resource")
  /\ UNCHANGED <<tables, crow, cmax, workers>>

\* The name is unique: the second of two inserts fails and the request with it.
InsertResource(r) ==
  /\ CreatorGoes(r, "new_resource",
       IF ResourceOf[r] \in resources THEN "error" ELSE "lock")
  /\ resources' = resources \cup {ResourceOf[r]}
  /\ UNCHANGED <<status, startedAt, resourceId, queueEntry, position, lockRow,
                 crow, cmax, workers>>

-----------------------------------------------------------------------------
(* acquire_lock *)

\* first() of an unordered SELECT: any unreleased lock of the resource.
SelectLock(r) ==
  /\ \/ /\ HeldFor(r) = {}
        /\ CreatorGoes(r, "lock", "take")
        /\ UNCHANGED crow
     \/ \E x \in HeldFor(r) :
          /\ crow' = [crow EXCEPT ![r] = x]
          /\ CreatorGoes(r, "lock", "holder")
  /\ UNCHANGED <<tables, cmax, workers>>

\* Auto-release is decided on the holder's status as read now.
StaleHolder == {"completed", "failed", "pending", "cancelled"}

ReadHolder(r) ==
  /\ CreatorGoes(r, "holder",
       IF status[crow[r][1]] \in StaleHolder THEN "expire" ELSE "queue")
  /\ UNCHANGED <<tables, crow, cmax, workers>>

\* released_at is a SQL expression, so the UPDATE is sent even when another
\* session released the row already; it fails if the row was deleted.
ExpireLock(r) ==
  /\ CreatorGoes(r, "expire",
       IF lockRow[crow[r]] = "none" THEN "error" ELSE "recheck")
  /\ lockRow' = IF lockRow[crow[r]] = "none" THEN lockRow
                ELSE [lockRow EXCEPT ![crow[r]] = "released"]
  /\ crow' = [crow EXCEPT ![r] = NoRow]
  /\ UNCHANGED <<status, startedAt, resourceId, queueEntry, position,
                 resources, cmax, workers>>

RecheckLock(r) ==
  /\ CreatorGoes(r, "recheck", IF HeldFor(r) = {} THEN "take" ELSE "queue")
  /\ UNCHANGED <<tables, crow, cmax, workers>>

\* Mutant of TakeLock: run.status = "running" is forgotten.
TakeLockOnly(r) ==
  /\ CreatorGoes(r, "take", "spawn")
  /\ lockRow' = [lockRow EXCEPT ![<<r, r>>] = "held"]
  /\ resourceId' = [resourceId EXCEPT ![r] = ResourceOf[r]]
  /\ UNCHANGED <<status, startedAt, queueEntry, position, resources, crow,
                 cmax, workers>>

\* One commit inserts the lock and updates the run.
TakeLock(r) ==
  /\ CreatorGoes(r, "take", "spawn")
  /\ lockRow' = [lockRow EXCEPT ![<<r, r>>] = "held"]
  /\ resourceId' = [resourceId EXCEPT ![r] = ResourceOf[r]]
  /\ status' = [status EXCEPT ![r] = "running"]
  /\ UNCHANGED <<startedAt, queueEntry, position, resources, crow, cmax,
                 workers>>

-----------------------------------------------------------------------------
(* enqueue_run *)

\* SELECT max(position), 0 when the queue is empty.
SelectMaxPosition(r) ==
  LET taken == {0} \cup {position[q] : q \in EntriesFor(r)} IN
  /\ CreatorGoes(r, "queue", "enqueue")
  /\ \E m \in taken : /\ \A p \in taken : p <= m
                      /\ cmax' = [cmax EXCEPT ![r] = m]
  /\ UNCHANGED <<tables, crow, workers>>

InsertEntry(r) ==
  /\ CreatorGoes(r, "enqueue", "done")
  /\ queueEntry' = [queueEntry EXCEPT ![r] = "waiting"]
  /\ position' = [position EXCEPT ![r] = cmax[r] + 1]
  /\ cmax' = [cmax EXCEPT ![r] = 0]
  /\ status' = [status EXCEPT ![r] = "queued"]
  /\ UNCHANGED <<startedAt, resourceId, lockRow, resources, crow, workers>>

-----------------------------------------------------------------------------
(* release_resource, for the run item[w] *)

SelectOwnLock(w) ==
  /\ LET own == {x \in Rows : Held(x) /\ x[1] = item[w]}
     IN  \/ own = {} /\ Goes(w, "release", "next") /\ UNCHANGED row
         \/ \E x \in own : /\ Goes(w, "release", "unlock")
                           /\ row' = [row EXCEPT ![w] = x]
  /\ UNCHANGED <<tables, creators, item, seen, next, nextSeen, body,
                 seenStarted, proc>>

\* A worker that returns or dies: a task ends (its slot is free again), a
\* cancel request is answered.
Rest(w) == IF w \in Tasks THEN "idle" ELSE "done"

Leaves(w, from) ==
  /\ Goes(w, from, Rest(w))
  /\ item' = [item EXCEPT ![w] = NoRun]
  /\ next' = [next EXCEPT ![w] = NoRun]
  /\ row' = [row EXCEPT ![w] = NoRow]
  /\ UNCHANGED <<creators, seen, nextSeen, body, seenStarted, proc>>

\* An admin cleanup may have deleted the row; then StaleDataError ends the
\* worker before it promotes anyone.
UnlockRow(w) ==
  \/ /\ Goes(w, "unlock", "next")
     /\ lockRow[row[w]] # "none"
     /\ lockRow' = [lockRow EXCEPT ![row[w]] = "released"]
     /\ row' = [row EXCEPT ![w] = NoRow]
     /\ UNCHANGED <<status, startedAt, resourceId, queueEntry, position,
                    resources, creators, item, seen, next, nextSeen, body,
                    seenStarted, proc>>
  \/ /\ Leaves(w, "unlock")
     /\ lockRow[row[w]] = "none"
     /\ UNCHANGED tables

Heads(r) ==
  {q \in WaitingFor(r) : \A o \in WaitingFor(r) : position[q] <= position[o]}

SelectNext(w) ==
  \/ /\ Leaves(w, "next")
     /\ WaitingFor(item[w]) = {}
     /\ UNCHANGED tables
  \/ /\ pc[w] = "next"
     /\ \E q \in Heads(item[w]) :
          /\ Goes(w, "next", "claim")
          /\ next' = [next EXCEPT ![w] = q]
     /\ UNCHANGED <<tables, creators, item, seen, row, nextSeen, body,
                    seenStarted, proc>>

\* The entry was read as "waiting"; the UPDATE does not check that it still is.
ClaimEntry(w) ==
  \/ /\ Goes(w, "claim", "load_next")
     /\ queueEntry[next[w]] # "none"
     /\ queueEntry' = [queueEntry EXCEPT ![next[w]] = "running"]
     /\ UNCHANGED <<status, startedAt, resourceId, position, lockRow,
                    resources, creators, item, seen, row, next, nextSeen,
                    body, seenStarted, proc>>
  \/ /\ Leaves(w, "claim")
     /\ queueEntry[next[w]] = "none"
     /\ UNCHANGED tables

LoadNext(w) ==
  /\ Goes(w, "load_next", "promote")
  /\ nextSeen' = [nextSeen EXCEPT ![w] = status[next[w]]]
  /\ UNCHANGED <<tables, creators, item, seen, row, next, body, seenStarted,
                 proc>>

\* Mutant of Promote: next_run.status = "running" is forgotten.
PromoteStillQueued(w) ==
  \E t \in Tasks :
    /\ pc[w] = "promote" /\ Free(t)
    /\ resourceId' = [resourceId EXCEPT ![next[w]] = ResourceOf[next[w]]]
    /\ lockRow' = [lockRow EXCEPT ![<<next[w], w>>] = "held"]
    /\ pc' = [pc EXCEPT ![w] = Rest(w), ![t] = "spawned"]
    /\ item' = [item EXCEPT ![w] = NoRun, ![t] = next[w]]
    /\ body' = [body EXCEPT ![t] = "test"]
    /\ next' = [next EXCEPT ![w] = NoRun]
    /\ nextSeen' = [nextSeen EXCEPT ![w] = "none"]
    /\ UNCHANGED <<status, startedAt, queueEntry, position, resources,
                   creators, seen, row, seenStarted, proc>>

\* Mutant of Promote: the caller drops the id it gets and starts no task.
PromoteNoTask(w) ==
  /\ Goes(w, "promote", Rest(w))
  /\ WriteStatus(next[w], nextSeen[w], "running")
  /\ resourceId' = [resourceId EXCEPT ![next[w]] = ResourceOf[next[w]]]
  /\ lockRow' = [lockRow EXCEPT ![<<next[w], w>>] = "held"]
  /\ item' = [item EXCEPT ![w] = NoRun]
  /\ next' = [next EXCEPT ![w] = NoRun]
  /\ nextSeen' = [nextSeen EXCEPT ![w] = "none"]
  /\ UNCHANGED <<startedAt, queueEntry, position, resources, creators, seen,
                 row, body, seenStarted, proc>>

\* One commit gives the next run the lock; then the caller starts its task,
\* always with schedule_run_task.
Promote(w) ==
  \E t \in Tasks :
    /\ pc[w] = "promote" /\ Free(t)
    /\ WriteStatus(next[w], nextSeen[w], "running")
    /\ resourceId' = [resourceId EXCEPT ![next[w]] = ResourceOf[next[w]]]
    /\ lockRow' = [lockRow EXCEPT ![<<next[w], w>>] = "held"]
    /\ pc' = [pc EXCEPT ![w] = Rest(w), ![t] = "spawned"]
    /\ item' = [item EXCEPT ![w] = NoRun, ![t] = next[w]]
    /\ body' = [body EXCEPT ![t] = "test"]
    /\ next' = [next EXCEPT ![w] = NoRun]
    /\ nextSeen' = [nextSeen EXCEPT ![w] = "none"]
    /\ UNCHANGED <<startedAt, queueEntry, position, resources, creators, seen,
                   row, seenStarted, proc>>

ReleaseStep(w) ==
  \/ SelectOwnLock(w) \/ UnlockRow(w) \/ SelectNext(w)
  \/ ClaimEntry(w) \/ LoadNext(w) \/ Promote(w)

AcquireStep(r) ==
  \/ SelectResource(r) \/ InsertResource(r)
  \/ SelectLock(r) \/ ReadHolder(r) \/ ExpireLock(r) \/ RecheckLock(r)
  \/ TakeLock(r) \/ SelectMaxPosition(r) \/ InsertEntry(r)
=============================================================================
