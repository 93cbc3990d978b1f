----------------------------- MODULE RunService -----------------------------
(***************************************************************************)
(* The run lifecycle of the DVP backend: the handlers that create, run and *)
(* cancel runs and clean up (backend/app/api/routes.py), the task of a run *)
(* (routes.py, backend/app/services/runner.py), and the startup of the     *)
(* server (backend/app/main.py), over the resource queue.                  *)
(*                                                                         *)
(* Everything runs on one asyncio event loop, so an action is a database   *)
(* statement or commit with the local code up to the next await.           *)
(***************************************************************************)
EXTENDS ResourceQueue

CONSTANT MaxCrashes   \* bound on server crashes

ASSUME MaxCrashesOK == MaxCrashes \in Nat

VARIABLES
  final,          \* the status a task is about to write
  cancelledRuns,  \* runner._cancelled_runs
  activeRuns,     \* runner._active_runs: the task whose subprocesses it maps
  holds,          \* a cancel request loaded a resource_id
  apc, arows,     \* locals of the admin cleanup: the locks it selected,
  stuck,          \* and the runs
  up, crashes

memory  == <<final, cancelledRuns, activeRuns, holds>>
admins  == <<apc, arows, stuck>>
server  == <<up, crashes>>
vars    == <<tables, creators, workers, memory, admins, server>>

Init ==
  /\ TablesInit /\ QueueInit
  /\ final = [t \in Tasks |-> "none"]
  /\ cancelledRuns = {}
  /\ activeRuns = [r \in Runs |-> NoTask]
  /\ holds = [c \in Cancels |-> FALSE]
  /\ apc = [a \in Admins |-> "idle"]
  /\ arows = [a \in Admins |-> {}] /\ stuck = [a \in Admins |-> {}]
  /\ up = TRUE /\ crashes = 0

TypeOK ==
  /\ TablesTypeOK /\ QueueTypeOK
  /\ final \in [Tasks -> Terminal \cup {"none"}]
  /\ cancelledRuns \subseteq Runs
  /\ activeRuns \in [Runs -> Tasks \cup {NoTask}]
  /\ holds \in [Cancels -> BOOLEAN]
  /\ apc \in [Admins -> {"idle", "cleanup", "write", "done"}]
  /\ arows \in [Admins -> SUBSET Rows] /\ stuck \in [Admins -> SUBSET Runs]
  /\ up \in BOOLEAN
  /\ crashes \in 0..MaxCrashes

-----------------------------------------------------------------------------
(* create_run and execute_cli_command *)

InsertRun(r) ==
  /\ CreatorGoes(r, "new", IF ResourceOf[r] = NoResource THEN "start"
                           ELSE "resource")
  /\ status' = [status EXCEPT ![r] = "pending"]
  /\ UNCHANGED <<startedAt, resourceId, queueEntry, position, lockRow,
                 resources, crow, cmax, workers>>

StartWithoutResource(r) ==
  /\ CreatorGoes(r, "start", "spawn")
  /\ status' = [status EXCEPT ![r] = "running"]
  /\ UNCHANGED <<startedAt, resourceId, queueEntry, position, lockRow,
                 resources, crow, cmax, workers>>

\* asyncio.create_task; the handler only answers after this.
SpawnTask(r) ==
  \E t \in Tasks :
    /\ Free(t)
    /\ CreatorGoes(r, "spawn", "done")
    /\ pc' = [pc EXCEPT ![t] = "spawned"]
    /\ item' = [item EXCEPT ![t] = r]
    /\ body' = [body EXCEPT ![t] = KindOf[r]]
    /\ UNCHANGED <<tables, crow, cmax, seen, row, next, nextSeen, seenStarted,
                   proc>>

CreatorStep(r) ==
  /\ InsertRun(r) \/ StartWithoutResource(r) \/ AcquireStep(r) \/ SpawnTask(r)
  /\ UNCHANGED memory

-----------------------------------------------------------------------------
(* schedule_run_task ("test") and _schedule_cli_run ("cli") *)

TaskLocals == <<creators, item, row, next, nextSeen, body>>

LoadRun(t) ==
  /\ Goes(t, "spawned", IF body[t] = "test" THEN "setup" ELSE "launch")
  /\ seen' = [seen EXCEPT ![t] = status[item[t]]]
  /\ seenStarted' = [seenStarted EXCEPT ![t] = startedAt[item[t]]]
  /\ UNCHANGED <<tables, TaskLocals, proc, memory>>

SetupPasses(t) ==
  /\ Goes(t, "setup", "launch")
  /\ UNCHANGED <<tables, TaskLocals, seen, seenStarted, proc, memory>>

\* Once its task has left the loop, a registration is without effect.
Unregistered(t) == [r \in Runs |-> IF activeRuns[r] = t THEN NoTask
                                  ELSE activeRuns[r]]

\* Setup fails, or setup, the log writer or the refresh raises: all mark the
\* run failed in the same way, on the status loaded before or, as a failed
\* refresh leaves the row expired, loaded again.  An exception while the
\* subprocesses run leaves them running and registered.
TaskFails(t) ==
  /\ pc[t] \in {"setup", "loop", "refresh"}
  /\ pc' = [pc EXCEPT ![t] = "except"]
  /\ seen' = IF pc[t] = "refresh" THEN [seen EXCEPT ![t] = status[item[t]]]
             ELSE seen
  /\ final' = [final EXCEPT ![t] = "none"]
  /\ IF proc[t] = "live" THEN UNCHANGED <<proc, activeRuns>>
     ELSE /\ proc' = [proc EXCEPT ![t] = "none"]
          /\ activeRuns' = Unregistered(t)
  /\ UNCHANGED <<tables, TaskLocals, seenStarted, cancelledRuns, holds>>

\* capture_*_run: a run without started_at is running as of this commit.
StartCapture(t) ==
  LET r == item[t] IN
  /\ Goes(t, "launch", "start")
  /\ WriteStatus(r, IF seenStarted[t] THEN "running" ELSE seen[t], "running")
  /\ startedAt' = [startedAt EXCEPT ![r] = TRUE]
  /\ seen' = IF seenStarted[t] THEN seen ELSE [seen EXCEPT ![t] = "running"]
  /\ UNCHANGED <<resourceId, queueEntry, position, lockRow, resources,
                 TaskLocals, seenStarted, proc, memory>>

\* With no await between, the subprocesses are started and registered: none
\* for tests whose files are gone, which then counts as passed.  Or starting
\* them raises.
Launch(t) ==
  /\ \/ /\ Goes(t, "start", "loop")
        /\ \E p \in {"live"} \cup (IF body[t] = "test" THEN {"ok"} ELSE {}) :
             proc' = [proc EXCEPT ![t] = p]
        /\ activeRuns' = [activeRuns EXCEPT ![item[t]] = t]
     \/ /\ Goes(t, "start", "except")
        /\ UNCHANGED <<proc, activeRuns>>
  /\ UNCHANGED <<tables, TaskLocals, seen, seenStarted, final, cancelledRuns,
                 holds>>

\* Mutant of TimeoutKill: the elapsed time is never checked.
TimeoutNever(t) == FALSE /\ t \in Tasks

\* PYTEST_TIMEOUT: kill() and leave the loop, without polling again.
TimeoutKill(t) ==
  /\ pc[t] = "loop" /\ proc[t] = "live"
  /\ proc' = [proc EXCEPT ![t] = "timedout"]
  /\ UNCHANGED <<tables, TaskLocals, pc, seen, seenStarted, memory>>

\* Mutant of Outcome: a status the rest of the code does not know.
OutcomeTimeout(t, cancelled) ==
  IF cancelled THEN "cancelled"
  ELSE IF proc[t] = "ok" THEN "completed"
  ELSE IF proc[t] = "timedout" THEN "timeout" ELSE "failed"

Outcome(t, cancelled) ==
  IF cancelled THEN "cancelled"
  ELSE IF proc[t] = "ok" THEN "completed" ELSE "failed"

\* The end of the capture loop.  Only capture_test_run looks at
\* _cancelled_runs and reads the status again.
LeaveLoop(t) ==
  LET cancelled == \/ proc[t] = "killed"
                   \/ body[t] = "test" /\ item[t] \in cancelledRuns
  IN
  /\ proc[t] # "live"
  /\ Goes(t, "loop", IF body[t] = "test" THEN "refresh" ELSE "commit")
  /\ activeRuns' = [activeRuns EXCEPT ![item[t]] = NoTask]
  /\ cancelledRuns' = IF body[t] = "test" THEN cancelledRuns \ {item[t]}
                      ELSE cancelledRuns
  /\ final' = [final EXCEPT ![t] = Outcome(t, cancelled)]
  /\ proc' = [proc EXCEPT ![t] = "none"]
  /\ UNCHANGED <<tables, TaskLocals, seen, seenStarted, holds>>

RefreshRun(t) ==
  LET now == status[item[t]] IN
  /\ Goes(t, "refresh", "commit")
  /\ seen' = [seen EXCEPT ![t] = now]
  /\ final' = [final EXCEPT ![t] = IF now = "cancelled" THEN now ELSE @]
  /\ UNCHANGED <<tables, TaskLocals, seenStarted, proc, cancelledRuns,
                 activeRuns, holds>>

CommitOutcome(t) ==
  /\ Goes(t, "commit", "teardown")
  /\ WriteStatus(item[t], seen[t], final[t])
  /\ final' = [final EXCEPT ![t] = "none"]
  /\ UNCHANGED <<startedAt, resourceId, queueEntry, position, lockRow,
                 resources, TaskLocals, seen, seenStarted, proc, cancelledRuns,
                 activeRuns, holds>>

\* The finally clause: release the resource if the run has one.
FinishTask(t, from) ==
  /\ pc[t] = from
  /\ IF resourceId[item[t]] = NoResource
     THEN /\ Goes(t, from, "idle")
          /\ item' = [item EXCEPT ![t] = NoRun]
     ELSE Goes(t, from, "release") /\ UNCHANGED item
  /\ seen' = [seen EXCEPT ![t] = "none"]
  /\ seenStarted' = [seenStarted EXCEPT ![t] = FALSE]
  /\ UNCHANGED <<creators, row, next, nextSeen, body, proc, memory>>

\* Report finalization, notification and teardown steps are over.
TeardownEnds(t) ==
  /\ FinishTask(t, "teardown")
  /\ UNCHANGED tables

\* Mutant of MarkFailed: the except clause only logs.
MarkNothing(t) ==
  /\ FinishTask(t, "except")
  /\ UNCHANGED tables

MarkFailed(t) ==
  /\ FinishTask(t, "except")
  /\ status' = IF seen[t] \in Terminal THEN status
               ELSE [status EXCEPT ![item[t]] = "failed"]
  /\ UNCHANGED <<startedAt, resourceId, queueEntry, position, lockRow,
                 resources>>

\* What a task does when nothing raises.
TaskProgress(t) ==
  \/ LoadRun(t) \/ SetupPasses(t) \/ StartCapture(t) \/ Launch(t)
  \/ TimeoutKill(t) \/ LeaveLoop(t) \/ RefreshRun(t) \/ CommitOutcome(t)
  \/ TeardownEnds(t) \/ MarkFailed(t)

TaskStep(t) == TaskProgress(t) \/ TaskFails(t)

-----------------------------------------------------------------------------
(* The subprocesses *)

\* They end by themselves: all passed, some failed, or one died of a signal
\* (a crash, or cancel_run_file).
ProcessExits(t) ==
  /\ proc[t] = "live"
  /\ \E code \in {"ok", "failed", "killed"} :
       proc' = [proc EXCEPT ![t] = IF pc[t] = "loop" THEN code ELSE "none"]
  /\ activeRuns' = IF pc[t] = "loop" THEN activeRuns
                   ELSE Unregistered(t)
  /\ UNCHANGED <<tables, TaskLocals, pc, seen, seenStarted, final,
                 cancelledRuns, holds, admins, server>>

\* GET /runs/{id}/active-files polls a process the timeout has just killed,
\* which sets its negative return code.
PollActiveFiles(r) ==
  LET t == activeRuns[r] IN
  /\ t # NoTask /\ proc[t] = "timedout"
  /\ proc' = [proc EXCEPT ![t] = "killed"]
  /\ UNCHANGED <<tables, TaskLocals, pc, seen, seenStarted, memory>>

-----------------------------------------------------------------------------
(* cancel_run_endpoint *)

\* Load the run and answer 409 unless it is active.
CancelLoad(c) ==
  \E r \in Runs :
    /\ status[r] \in Active
    /\ Goes(c, "idle", "kill")
    /\ item' = [item EXCEPT ![c] = r]
    /\ holds' = [holds EXCEPT ![c] = resourceId[r] # NoResource]
    /\ UNCHANGED <<tables, creators, seen, row, next, nextSeen, body,
                   seenStarted, proc, final, cancelledRuns, activeRuns>>

\* cancel_run, on the status that was read; its poll() may find a process that
\* the timeout has just killed already dead.
CancelKill(c) ==
  LET r == item[c] IN
  /\ Goes(c, "kill", "cancel")
  /\ cancelledRuns' = cancelledRuns \cup {r}
  /\ activeRuns' = [activeRuns EXCEPT ![r] = NoTask]
  /\ \E dying \in {{"live"}, {"live", "timedout"}} :
       proc' = [t \in Tasks |->
                  IF activeRuns[r] = t /\ proc[t] \in dying
                  THEN IF pc[t] = "loop" THEN "killed" ELSE "none"
                  ELSE proc[t]]
  /\ UNCHANGED <<tables, TaskLocals, seen, seenStarted, final, holds>>

\* Mutant of CancelCommit: the queue entry is left in the queue.
CancelKeepsEntry(c) ==
  /\ pc[c] = "cancel"
  /\ status' = [status EXCEPT ![item[c]] = "cancelled"]
  /\ pc' = [pc EXCEPT ![c] = IF holds[c] THEN "release" ELSE "done"]
  /\ item' = IF holds[c] THEN item ELSE [item EXCEPT ![c] = NoRun]
  /\ holds' = [holds EXCEPT ![c] = FALSE]
  /\ UNCHANGED <<startedAt, resourceId, queueEntry, position, lockRow,
                 resources, creators, seen, row, next, nextSeen, body,
                 seenStarted, proc, final, cancelledRuns, activeRuns>>

CancelCommit(c) ==
  /\ pc[c] = "cancel"
  /\ queueEntry' = [queueEntry EXCEPT ![item[c]] = "none"]
  /\ position' = [position EXCEPT ![item[c]] = 0]
  /\ status' = [status EXCEPT ![item[c]] = "cancelled"]
  /\ pc' = [pc EXCEPT ![c] = IF holds[c] THEN "release" ELSE "done"]
  /\ item' = IF holds[c] THEN item ELSE [item EXCEPT ![c] = NoRun]
  /\ holds' = [holds EXCEPT ![c] = FALSE]
  /\ UNCHANGED <<startedAt, resourceId, lockRow, resources, creators, seen,
                 row, next, nextSeen, body, seenStarted, proc, final,
                 cancelledRuns, activeRuns>>

CancelProgress(c) == CancelKill(c) \/ CancelCommit(c)

CancelStep(c) == CancelLoad(c) \/ CancelProgress(c)

Release(w) == ReleaseStep(w) /\ UNCHANGED memory

-----------------------------------------------------------------------------
(* cleanup_stale, and the startup of the server *)

CleanupSelect(a) ==
  /\ apc[a] = "idle"
  /\ apc' = [apc EXCEPT ![a] = "cleanup"]
  /\ arows' = [arows EXCEPT ![a] = {x \in Rows : Held(x)}]
  /\ UNCHANGED <<tables, creators, workers, memory, stuck>>

\* Mutant of FailedStuck: everything that is not completed is stuck.
FailedUnlessCompleted ==
  [r \in Runs |-> IF status[r] \in {"none", "completed"} THEN status[r]
                  ELSE "failed"]

FailedStuck == [r \in Runs |-> IF status[r] \in Active THEN "failed"
                               ELSE status[r]]

\* Mutant of Swept: decided before the stuck runs are marked.
SweptBefore(q) == status[q] \in {"failed", "completed"}

\* delete(QueueEntry) of the runs that are now failed or completed.
Swept(q) == status'[q] \in {"failed", "completed"}

SweepEntries ==
  /\ queueEntry' = [q \in Runs |-> IF Swept(q) THEN "none" ELSE queueEntry[q]]
  /\ position' = [q \in Runs |-> IF Swept(q) THEN 0 ELSE position[q]]

\* The flush of the released locks comes before the SELECT of the stuck runs:
\* the session holds the write lock from there to the commit.  The selected
\* locks are released, and all released locks deleted.
CleanupCommit(a) ==
  /\ apc[a] = "cleanup" /\ arows[a] # {}
  /\ apc' = [apc EXCEPT ![a] = "done"]
  /\ arows' = [arows EXCEPT ![a] = {}]
  /\ IF \E x \in arows[a] : lockRow[x] = "none"
     THEN UNCHANGED tables
     ELSE /\ status' = FailedStuck
          /\ lockRow' = [x \in Rows |-> IF x \in arows[a] \/ ~Held(x)
                                        THEN "none" ELSE lockRow[x]]
          /\ SweepEntries
          /\ UNCHANGED <<startedAt, resourceId, resources>>
  /\ UNCHANGED <<creators, workers, memory, stuck>>

\* With no lock to release there is nothing to flush: the runs are read ...
CleanupLoad(a) ==
  /\ apc[a] = "cleanup" /\ arows[a] = {}
  /\ apc' = [apc EXCEPT ![a] = "write"]
  /\ stuck' = [stuck EXCEPT ![a] = {r \in Runs : status[r] \in Active}]
  /\ UNCHANGED <<tables, creators, workers, memory, arows>>

\* ... and written an await later, whatever they have become.
CleanupWrite(a) ==
  /\ apc[a] = "write"
  /\ apc' = [apc EXCEPT ![a] = "done"]
  /\ stuck' = [stuck EXCEPT ![a] = {}]
  /\ status' = [r \in Runs |-> IF r \in stuck[a] THEN "failed" ELSE status[r]]
  /\ lockRow' = [x \in Rows |-> IF Held(x) THEN "held" ELSE "none"]
  /\ SweepEntries
  /\ UNCHANGED <<startedAt, resourceId, resources, creators, workers, memory,
                 arows>>

CleanupStep(a) ==
  CleanupSelect(a) \/ CleanupCommit(a) \/ CleanupLoad(a) \/ CleanupWrite(a)

\* The process dies: tables and subprocesses survive, the rest is lost.
Crash ==
  /\ crashes < MaxCrashes
  /\ up' = FALSE
  /\ crashes' = crashes + 1
  /\ cpc' = [r \in Runs |-> IF cpc[r] \in {"new", "done"} THEN cpc[r]
                            ELSE "error"]
  /\ crow' = [r \in Runs |-> NoRow]
  /\ cmax' = [r \in Runs |-> 0]
  /\ pc' = [w \in Workers |-> IF w \in Cancels /\ pc[w] # "idle" THEN "done"
                              ELSE "idle"]
  /\ item' = [w \in Workers |-> NoRun]
  /\ seen' = [w \in Workers |-> "none"]
  /\ row' = [w \in Workers |-> NoRow]
  /\ next' = [w \in Workers |-> NoRun]
  /\ nextSeen' = [w \in Workers |-> "none"]
  /\ seenStarted' = [t \in Tasks |-> FALSE]
  /\ proc' = [t \in Tasks |-> IF proc[t] = "live" THEN "live" ELSE "none"]
  /\ final' = [t \in Tasks |-> "none"]
  /\ cancelledRuns' = {}
  /\ activeRuns' = [r \in Runs |-> NoTask]
  /\ holds' = [c \in Cancels |-> FALSE]
  /\ apc' = [a \in Admins |-> IF apc[a] = "idle" THEN "idle" ELSE "done"]
  /\ arows' = [a \in Admins |-> {}] /\ stuck' = [a \in Admins |-> {}]
  /\ UNCHANGED <<tables, body>>

\* lifespan: one commit before the first request is served.
Startup ==
  /\ ~up /\ up' = TRUE
  /\ status' = FailedStuck
  /\ lockRow' = [x \in Rows |-> IF Held(x) THEN "released" ELSE lockRow[x]]
  /\ SweepEntries
  /\ UNCHANGED <<startedAt, resourceId, resources, creators, workers, memory,
                 admins, crashes>>

-----------------------------------------------------------------------------
Serve ==
  \/ /\ \/ \E r \in Runs : CreatorStep(r) \/ PollActiveFiles(r)
        \/ \E t \in Tasks : TaskStep(t)
        \/ \E c \in Cancels : CancelStep(c)
        \/ \E w \in Workers : Release(w)
     /\ UNCHANGED admins
  \/ \E a \in Admins : CleanupStep(a)

Next ==
  \/ up /\ Serve /\ UNCHANGED server
  \/ \E t \in Tasks : ProcessExits(t)
  \/ up /\ Crash
  \/ Startup

Spec == Init /\ [][Next]_vars

(***************************************************************************)
(* The event loop is fair to every coroutine, subprocesses and setup steps *)
(* are bounded by timeouts, and a crashed server is started again.  Nothing*)
(* is assumed of clients or admins, of how or whether a subprocess ends by *)
(* itself, and no exception is assumed to happen.                          *)
(***************************************************************************)
Fairness ==
  /\ \A r \in Runs : WF_vars(cpc[r] # "new" /\ up /\ CreatorStep(r)
                             /\ UNCHANGED <<admins, server>>)
  /\ \A t \in Tasks : WF_vars(up /\ TaskProgress(t)
                              /\ UNCHANGED <<admins, server>>)
  /\ \A w \in Workers : WF_vars(up /\ Release(w)
                                /\ UNCHANGED <<admins, server>>)
  /\ \A c \in Cancels : WF_vars(up /\ CancelProgress(c)
                                /\ UNCHANGED <<admins, server>>)
  /\ WF_vars(Startup)

FairSpec == Spec /\ Fairness

-----------------------------------------------------------------------------
(* Who will still write a run's status *)

Settled(r) == cpc[r] \in {"done", "error"}

\* A task that is bound to write a terminal status: it has not looked at the
\* run yet, or what it saw or will write makes the session send the UPDATE.
Responsible(t, r) ==
  /\ item[t] = r
  /\ \/ pc[t] \in {"spawned", "refresh"}
     \/ pc[t] \in {"setup", "launch", "start", "loop", "except"}
          /\ seen[t] \notin Terminal
     \/ pc[t] = "launch" /\ ~seenStarted[t]
     \/ pc[t] = "commit" /\ seen[t] # final[t]

Attended(r) == cpc[r] = "spawn" \/ \E t \in Tasks : Responsible(t, r)

Promoting(w, q) == next[w] = q /\ pc[w] \in {"load_next", "promote"}

(***************************************************************************)
(* A run in status running is the business of some coroutine that will     *)
(* write a terminal status: none is forgotten, whatever cancels, promotes, *)
(* crashes or cleans up.                                                   *)
(***************************************************************************)
RunningIsAttended ==
  up => \A r \in Runs : status[r] = "running" => Attended(r)

(***************************************************************************)
(* The queue and the run table agree: an entry waits exactly while its run *)
(* is queued, but for the steps of a worker that is promoting it.          *)
(***************************************************************************)
WaitingIsQueued ==
  \A r \in Runs : queueEntry[r] = "waiting" => status[r] = "queued"

QueuedIsWaiting ==
  up => \A r \in Runs : status[r] = "queued" =>
          \/ queueEntry[r] = "waiting"
          \/ \E w \in Workers : Promoting(w, r)

EntriesAgree == WaitingIsQueued /\ QueuedIsWaiting

(***************************************************************************)
(* A resource is never wedged: an unreleased lock belongs to a run that is *)
(* terminal, so that the next acquire releases it, or that some coroutine  *)
(* will bring to a terminal status (REQ-RES-005 relies on it).             *)
(***************************************************************************)
LocksCanExpire ==
  up => \A x \in Rows : Held(x) =>
          status[x[1]] \in Terminal \/ Attended(x[1])

(***************************************************************************)
(* A finished run that no coroutine handles any more stays as it is: the   *)
(* queue and a restart never reopen or relabel it, nor does a cleanup,     *)
(* unless it had read the run as active before it finished, while no lock  *)
(* was held (routes.py:123-130).                                           *)
(***************************************************************************)
Handled(r) ==
  \/ ~Settled(r)
  \/ \E w \in Workers : item[w] = r \/ next[w] = r

FinishedRunsKept ==
  [][\A r \in Runs :
       /\ status[r] \in Terminal /\ ~Handled(r)
       /\ \A a \in Admins : r \notin stuck[a]
       => status'[r] = status[r]]_vars

(***************************************************************************)
(* After a restart nothing is left over from the previous process: no lock *)
(* is held, no run is active and nobody waits (REQ-ADM-003).               *)
(***************************************************************************)
RestartIsClean ==
  [][~up /\ up' =>
       /\ \A x \in Rows : lockRow'[x] # "held"
       /\ \A r \in Runs : status'[r] \notin Active
                           /\ queueEntry'[r] # "waiting"]_vars

(***************************************************************************)
(* A run that started ends, whatever happens to its task or to the server  *)
(* (REQ-EXE-003, REQ-EXE-004).                                             *)
(***************************************************************************)
RunningEnds ==
  \A r \in Runs : status[r] = "running" ~> status[r] \in Terminal

-----------------------------------------------------------------------------
(* The inductive invariant behind RunningIsAttended, EntriesAgree and      *)
(* LocksCanExpire                                                          *)

\* What the program counters say of the locals.
LocalsOK ==
  /\ \A r \in Runs :
       /\ cpc[r] \in {"resource", "new_resource"} => ResourceOf[r] \in Resources
       /\ cpc[r] \in {"holder", "expire"} => crow[r] \in Rows
  /\ \A w \in Workers :
       /\ pc[w] \in TaskPCs \cup {"release", "unlock", "next", "kill", "cancel"}
            => item[w] \in Runs
       /\ pc[w] = "unlock" => row[w] \in Rows
       /\ pc[w] \in {"claim", "load_next", "promote"} => next[w] \in Runs
  /\ \A t \in Tasks :
       /\ pc[t] \notin {"kill", "cancel", "done"}
       /\ pc[t] \in {"refresh", "commit"} => final[t] \in Terminal
  /\ \A c \in Cancels : pc[c] \notin TaskPCs

\* Nobody but its creator touches a run that is still being created.
CreatedAlone ==
  \A r \in Runs : ~Settled(r) =>
    /\ queueEntry[r] = "none"
    /\ \A w \in Workers : pc[w] \in {"claim", "load_next", "promote"}
                           => next[w] # r
    /\ \A t \in Tasks : pc[t] \in TaskPCs => item[t] # r

\* A run that has a task no longer waits in the queue.
TasksDoNotWait ==
  \A t \in Tasks : pc[t] \in TaskPCs => queueEntry[item[t]] # "waiting"

\* What a worker knows of the run it promotes: it was queued, its entry is
\* claimed, and once it is seen in another status it is not queued again.
PromotedWasQueued ==
  \A w \in Workers :
    /\ pc[w] \in {"claim", "load_next", "promote"}
         => status[next[w]] \notin {"none", "pending"}
    /\ pc[w] \in {"load_next", "promote"} => queueEntry[next[w]] # "waiting"
    /\ pc[w] = "promote" /\ nextSeen[w] # "queued"
         => status[next[w]] # "queued"

\* Locks are only held by runs whose creation got that far.
LocksOfStarted ==
  \A x \in Rows : Held(x) =>
    /\ status[x[1]] \in Terminal \cup {"running"}
    /\ cpc[x[1]] \in {"spawn", "done", "error"}

Relations ==
  /\ LocalsOK /\ CreatedAlone /\ TasksDoNotWait
  /\ PromotedWasQueued /\ LocksOfStarted
  /\ WaitingIsQueued /\ QueuedIsWaiting /\ RunningIsAttended

(***************************************************************************)
(* What every step preserves: the types and the relations between tables,  *)
(* program counters and locals above.  The three properties are not        *)
(* inductive without them.                                                 *)
(***************************************************************************)
IInv == TypeOK /\ Relations

-----------------------------------------------------------------------------
(* What the documents promise and the code does not keep *)

(***************************************************************************)
(* docs/REQUIREMENTS.md REQ-RES-002: only one run may hold a resource lock *)
(* at a time.                                                              *)
(***************************************************************************)
ExclusiveLock ==
  \A x, y \in Rows : Held(x) /\ Held(y) /\ ResourceOf[x[1]] = ResourceOf[y[1]]
                      => x[1] = y[1]

(***************************************************************************)
(* docs/USER_GUIDE.md: "When the current run finishes, the next queued run *)
(* starts", so none is promoted while another run holds the resource.      *)
(***************************************************************************)
PromotedToFreeResource ==
  [][\A w \in Workers : Promote(w) => HeldFor(next[w]) = {}]_vars

(***************************************************************************)
(* REQ-RES-004 and docs/USER_GUIDE.md: when the current run finishes the   *)
(* next queued run starts automatically, so a queued run does not wait     *)
(* forever.                                                                *)
(***************************************************************************)
QueuedStarts ==
  \A r \in Runs : status[r] = "queued" ~> status[r] # "queued"

(***************************************************************************)
(* docs/REQUIREMENTS.md REQ-EXE-003: pending, running, then one terminal   *)
(* status.                                                                 *)
(***************************************************************************)
TerminalIsFinal ==
  [][\A r \in Runs : status[r] \in Terminal => status'[r] = status[r]]_vars

(***************************************************************************)
(* routes.py:115, cleanup_stale: "mark stuck runs as failed".  A run that  *)
(* has finished is not stuck.                                              *)
(***************************************************************************)
CleanupFailsStuck ==
  [][\A a \in Admins, r \in Runs :
       apc[a] # apc'[a] /\ status[r] \in Terminal
         => status'[r] = status[r]]_vars

(***************************************************************************)
(* REQ-EXE-005: cancelling kills all subprocesses of the run: once the     *)
(* cancel has committed, none is started or left.                          *)
(***************************************************************************)
CancelledIsDead ==
  \A t \in Tasks : pc[t] = "loop" /\ proc[t] = "live"
                    => status[item[t]] # "cancelled"

(***************************************************************************)
(* routes.py:1914, _schedule_cli_run: "Execute a CLI command as a run.": a *)
(* run created for a command executes that command.                        *)
(***************************************************************************)
CommandIsRun ==
  \A t \in Tasks : pc[t] = "loop" => body[t] = KindOf[item[t]]

(***************************************************************************)
(* REQ-RES-005: stale locks, of terminated runs, are auto-released.  A run *)
(* whose task is still at work (its teardown uses the resource) is not     *)
(* terminated: the lock it holds is not taken from it.                     *)
(***************************************************************************)
OnlyStaleLocksExpire ==
  [][\A r \in Runs : ExpireLock(r) /\ Held(crow[r]) =>
       \A t \in Tasks : pc[t] \in TaskPCs => item[t] # crow[r][1]]_vars
=============================================================================
