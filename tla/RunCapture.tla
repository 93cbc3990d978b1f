----------------------------- MODULE RunCapture -----------------------------
(***************************************************************************)
(* TestProcesses is the capture of one run in detail; RunService runs the  *)
(* same coroutine (capture_test_run, between the start of the run and the  *)
(* commit of its outcome) with one value for all its processes and a       *)
(* single step for its loop.  This module states that the detailed one     *)
(* does what the other says, for a run without a resource, its task and    *)
(* one request to cancel it.                                               *)
(***************************************************************************)
EXTENDS TestProcesses

InLoop == pc \in {"drain", "commit", "poll", "check", "leave", "flush",
                  "settle"}

\* A process that was killed and of which a poll can tell.
Signalled(f) ==
  exit[f] = "signal" /\ (f \notin timedOut \/ code[f] = "signal")

\* The processes of the run as the one value RunService has for them.
Proc ==
  IF InLoop
  THEN IF \E f \in procs : Live(f) THEN "live"
       ELSE IF \E f \in procs : Signalled(f) THEN "killed"
       ELSE IF timedOut # {} THEN "timedout"
       ELSE IF \A f \in procs : exit[f] = "ok" THEN "ok" ELSE "failed"
  ELSE IF pc = "raised" /\ \E f \in active : Live(f) THEN "live" ELSE "none"

\* RunService forgets a registration that is without effect.
ActiveTask ==
  IF registered /\ (pc = "raised" => Proc = "live") THEN "task" ELSE "no task"

TaskPC ==
  CASE pc = "start" -> "launch"
    [] pc = "launch" -> "start"
    [] InLoop -> "loop"
    [] pc = "refresh" -> "refresh"
    [] pc = "save" -> "commit"
    [] pc = "raised" -> "except"
    [] OTHER -> "teardown"

CancelPC ==
  CASE cpc = "kill" -> "kill"
    [] cpc = "save" -> "cancel"
    [] cpc = "answered" -> "done"
    [] OTHER -> "idle"

\* What the task is about to write.
Final ==
  CASE pc = "refresh" -> verdict
    [] pc = "save" -> IF seen = "cancelled" THEN seen ELSE verdict
    [] OTHER -> "none"

Handlers == {"task", "cancel"}
OfRun(x) == [r \in {"run"} |-> x]
OfTask(x) == [t \in {"task"} |-> x]
OfBoth(x, y) == [w \in Handlers |-> IF w = "task" THEN x ELSE y]

Task == INSTANCE RunService WITH
  Runs <- {"run"}, Resources <- {}, Tasks <- {"task"}, Cancels <- {"cancel"},
  Admins <- {}, MaxCrashes <- 0,
  ResourceOf <- OfRun("no resource"), KindOf <- OfRun("test"),
  NoResource <- "no resource", NoRun <- "no run", NoTask <- "no task",
  NoRow <- <<>>,
  \* the tables
  status <- OfRun(status), startedAt <- OfRun(TaskPC # "launch"),
  resourceId <- OfRun("no resource"), queueEntry <- OfRun("none"),
  position <- OfRun(0), resources <- {},
  lockRow <- [x \in {"run"} \X ({"run"} \cup Handlers) |-> "none"],
  \* the request that created the run is answered
  cpc <- OfRun("done"), crow <- OfRun(<<>>), cmax <- OfRun(0),
  \* the task and the request that cancels
  pc <- OfBoth(TaskPC, CancelPC),
  item <- OfBoth("run", IF CancelPC \in {"kill", "cancel"} THEN "run"
                 ELSE "no run"),
  seen <- OfBoth(seen, "none"), row <- OfBoth(<<>>, <<>>),
  next <- OfBoth("no run", "no run"), nextSeen <- OfBoth("none", "none"),
  body <- OfTask("test"), seenStarted <- OfTask(FALSE), proc <- OfTask(Proc),
  final <- OfTask(Final),
  cancelledRuns <- IF inCancelled THEN {"run"} ELSE {},
  activeRuns <- OfRun(ActiveTask),
  holds <- [c \in {"cancel"} |-> FALSE],
  \* no admin, no crash
  apc <- [a \in {} |-> "idle"], arows <- [a \in {} |-> {}],
  stuck <- [a \in {} |-> {}],
  up <- TRUE, crashes <- 0

(***************************************************************************)
(* What the processes, the readers, the polling loop, the timeout and the  *)
(* requests do to one run is, step by step, what the run lifecycle does:   *)
(* it starts in a state that satisfies the invariant of RunService and     *)
(* every step of it is one of RunService or changes nothing there.         *)
(***************************************************************************)
ImplementsTask == Task!IInv /\ [][Task!Next]_(Task!vars)
=============================================================================
