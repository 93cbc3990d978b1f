# A TLA+ verification of the DVP backend

DVP (Distributed Verification Platform) runs pytest suites for clients over a
FastAPI backend and shows them in a React dashboard. This directory holds TLA+
modules of its core, TLC configurations that check them on small instances, and
proofs checked by TLAPS. Paths below are relative to the repository root `src/`.

1. Inventory. 2. Modules. 3. What is abstracted. 4. Runs. 5. Findings and known
divergences. 6. Proofs. 7. Not modelled, and what is left.

## 1. Inventory

One backend process runs one asyncio event loop. Handlers, one task per running
run and one purge task interleave at every `await`; they share a SQL database
(`models.py`) through sessions of their own, and two in-memory structures
(`_active_runs`, `_cancelled_runs` in `runner.py`). Tests run in pytest
subprocesses whose output reader threads put on a queue. The dashboard follows a
run over a WebSocket and polls over HTTP.

| Component | State it keeps | What is hard | What makes it correct | Module |
|---|---|---|---|---|
| Resource queue, `services/queue.py` | `resources`, `resource_locks`, `queue_entries` | each operation is several statements and commits; creators, tasks and cancels interleave | a waiting entry is a queued run; no lock that nothing can expire | ResourceQueue |
| Run lifecycle, `api/routes.py`, `services/runner.py`, `main.py` | `runs`, locals of handlers and tasks | sessions write what they decided on stale rows; exceptions at every await; cancel, cleanup and crash at any moment | a running run always has somebody who will end it; a restart leaves nothing behind | RunService |
| Subprocess runner, `runner.py` 387-642, 37-69 | Popen handles, pipes, line queue, batches, `_active_runs` | readers race the loop, the joins and the kills; return codes nobody polled | every line is logged once and before the outcome; the outcome is what the processes did | TestProcesses, LogChannel, RunCapture |
| Setup/teardown steps, `runner.py` 119-384 | phase statuses, step list | timeout, exit code and exception each end a step; requests replace the list meanwhile | the policy holds on every path; tests after setup | StepExecutor |
| Log stream and run polling, `routes.py` 507-600, `hooks/useRunPolling.tsx` | `log_entries`, `last_id`, sockets, timers, `doneRef` | log and status read in separate statements; answers of what was asked before; several polls in flight | each line once, in order, then done; the end is noticed | LogStream |
| Retention, `services/purge.py` | rows of old runs, `reports/` | count, select and delete in separate statements, beside other prunes and live tasks | only finished runs go, the newest stay, nothing is left of the others | Retention |
| Reports, `runner.py` 949-1289, `report_generator.py`, `routes.py` 770-1020 | files below `reports/`, `report_data` | every file rewrites the index; torn XML; a status before its reports | all reports list the same tests; each request finds the right one | Reports |
| Uploads and discovery, `routes.py` 285-330, 1024-1238, 1608-1816 | upload directories, `_test_cache` | two line scanners instead of an import; extraction that breaks off; stale lists | what is shown is what pytest collects; one directory per content | TestFiles, Discovery |
| Login, `auth.py`, `routes.py` 163-187 | `_login_attempts` window | count and await | at most LIMIT failures in a window | - |
| Test statuses and tabs, `hooks/useTestStatuses.tsx`, `useTabManagement.tsx` | derived statuses, open tabs | substring matches | the active tab is open | - |
| Notifications, CRUD, schemas, components, styles, migration, deployment, scripts | rows, rendered pages | little | - | - |

How they interact. A creator of a run calls the queue; a task of a run calls
setup, capture, reports, teardown, prune, and then the queue's release, which
creates the task of the next run. A cancel request reaches into the capture
through the two in-memory structures and into the queue through the database.
The log stream and all report requests only read what the capture has committed
or written. Retention deletes what all the others have written.

`PROJECT.json` lists the components with their status, and the hazards of each
with the line where they bite and the properties that cover them.

## 2. Modules

    RunTables             tables shared by queue and lifecycle; how sessions write
      ResourceQueue         services/queue.py, one action per statement
        RunService            handlers, run tasks, cancel, cleanup, crash, startup
    LogChannel            what a capture promises about the log (abstract)
    TestProcesses         capture_test_run in detail; implements LogChannel
      RunCapture            how it implements a task of RunService
    StepExecutor          setup and teardown steps, edits of their configurations
    LogStream             log table, WebSocket handler, dashboard hook
    Retention             purges and prunes
    Reports               splits, merge, database reports, report requests
    TestFiles             the two scanners of a test file, and pytest
      Discovery             cache, uploads, selections; implements TestFiles' ScanSpec

`MC*` modules give constants to TLC, `*Proofs` modules hold the theorems.

RunService composes queue and lifecycle by EXTENDS: they share the run table and
cannot be told apart by an interface. The other modules are details of a step
of RunService or readers of what it commits: `TestProcesses` refines the one
value `proc[t]` that RunService keeps of all processes of a run, `StepExecutor`
its "setup passes, fails or raises", `Reports` the end of the capture. They are
not composed in one state space: RunService's runs need several runs and no
lines, TestProcesses' need lines and one run. That the two models of one
coroutine agree is a refinement of its own, RunCapture.

### Granularity

asyncio switches coroutines only at an `await`, so an action is one database
statement or commit together with the code up to the next await. A `pc` variable
says where a coroutine is. What runs outside the loop (pytest processes, reader
threads, the browser, the network) takes its own steps at any time. In
TestProcesses the steps between two polls of the loop are not awaits; there the
requests wait (`LoopFree`) while processes and readers go on.

### RunTables, ResourceQueue, RunService

`status`, `startedAt`, `resourceId` are columns of `runs`; `queueEntry` and
`position` the queue entry of a run; `lockRow[<<r, who>>]` is the row of
`resource_locks` that `who` inserted for run `r`. Sessions keep the values they
loaded (`expire_on_commit=False`, `db.py:32`) and send only columns that differ
from them: `WriteStatus(r, seen, new)`. That is why a task carries `seen[t]` and
`seenStarted[t]`: they decide whether an UPDATE is sent at all. An UPDATE of a
row that somebody deleted raises StaleDataError; that is the second branch of
`ExpireLock`, `UnlockRow`, `ClaimEntry` and `CleanupCommit`. A cleanup that has
locks to release flushes them before it selects the stuck runs, and holds the
write lock from there on (`CleanupCommit`); one that has none reads the runs
(`CleanupLoad`) and writes them an await later (`CleanupWrite`).

| Actions | Code |
|---|---|
| InsertRun, StartWithoutResource, SpawnTask | `create_run` routes.py 354-408, `execute_cli_command` 1857-1910 |
| SelectResource, InsertResource | find_or_create_resource, queue.py 9-20 |
| SelectLock, ReadHolder, ExpireLock, RecheckLock, TakeLock | acquire_lock, queue.py 23-49 |
| SelectMaxPosition, InsertEntry | enqueue_run, queue.py 52-66 |
| SelectOwnLock, UnlockRow, SelectNext, ClaimEntry, LoadNext, Promote | release_resource, queue.py 69-107, and create_task in its callers |
| LoadRun, SetupPasses, TaskFails, MarkFailed, TeardownEnds | schedule_run_task, routes.py 194-241; _schedule_cli_run 1913-1935 |
| StartCapture, Launch, TimeoutKill, LeaveLoop, RefreshRun, CommitOutcome | capture_test_run, runner.py 387-642; capture_cli_run 723-913 |
| CancelLoad, CancelKill, CancelCommit | cancel_run_endpoint, routes.py 425-454, with cancel_run, runner.py 37-46, on the status that was read |
| PollActiveFiles | get_active_files, runner.py 64-69 |
| CleanupSelect, CleanupCommit, CleanupLoad, CleanupWrite | cleanup_stale, routes.py 114-147 |
| Crash, Startup | lifespan, main.py 73-95 |

`body[t]` tells the two kinds of task apart: only `capture_test_run` looks at
`_cancelled_runs` and refreshes the run before it writes the outcome; a promoted
run always gets the "test" body.

### TestProcesses and LogChannel

One run. `exit[f]` is what a process is to the operating system, `code[f]` the
return code its Popen object has recorded: they differ until something polls, and
the timeout does not (runner.py 581). `written` and `read` are the two ends of a
pipe, `lineQueue`, `batch` and `log` the way of a line. `Join` adds to `slow` the
processes whose reader outlived the 2 s of a join (runner.py 556, 594): only
their lines may be lost. Actions: `StartRun`, `Launch`, `Drain`, `CommitBatch`,
`PollProcesses`, `CheckDone`, `TimeUp`, `LeaveLoop`, `Settle`, `Refresh`,
`SaveStatus`, `Finalize`, with `LaunchFails` and `DatabaseFails` for exceptions;
`CancelLoad`, `CancelKill`, `CancelSave`, `CancelFile`, `ActiveFiles` for the
requests. The capture may also begin with the run cancelled.

LogChannel says what all that is for: every process is a FIFO channel into the
log, and the log is closed once. `Channel` in TestProcesses is the instance, with
`open` mapped to "the outcome is not decided yet".

### RunCapture

`Task` in RunCapture is the instance of RunService with one run without a
resource, one task slot and one cancel request. `TaskPC`, `CancelPC` and `Final`
map the places of the capture to those of the task (all of the loop is "loop"),
`Proc` the processes to the one value RunService has for them: live as long as
one lives, killed if a process died of a signal of which a poll can tell,
timedout if only the timeout killed, else ok or failed; after an exception only
the processes that are still registered count, because RunService forgets the
others. `ActiveTask` is the registration in `_active_runs`.

### StepExecutor

A step is its row: the request that wrote it, its order, its failure policy.
`LoadConfig` and `LoadSteps` are the two statements of
execute_setup_steps / execute_teardown_steps; `StepPasses` and `StepFails` end
a step (exit code, timeout and exception lead to the same code,
runner.py 166-216); `Leave` is the return to schedule_run_task.
`EditLoad`, `ReplaceSteps`, `DeleteConfig`, `EditNothing`, `CreateConfig` are
the requests of routes.py 1380-1600.

### LogStream

A line is its number. `sock[c]` is one WebSocket with both ends: the server's
loop (`SendNew`, `CheckRun`, `SendFinal`, `SendDone`; routes.py 545-600) and the
client's handlers (`Opened`, `OnLine`, `OnDone`, `OnClose`). `Follow`,
`StopFollowing`, `UserCancels`, `TimerFires`, `StatusTick`, `PollTick`,
`RunAnswered`, `LogsAnswered`, `OnRunComplete` are useRunPolling and its use in
`App.tsx`. A request is its handler's statements and a callback that may come in
any order or never (`CallFails`). `Break` is a connection lost at any moment.

### Retention

Runs are numbered in the order of `created_at`. A worker is a task that prunes
at its end, or the purger (the periodic task, or POST /admin/purge). `SelectOld`,
`DeleteOld`, `RemoveDirs` are purge_old_runs; `SelectClients`, `Count`,
`SelectExcess`, `DeleteExcess`, `CommitPrune` are prune_excess_reports;
`RemoveOrphans` is cleanup_orphaned_report_dirs. `locked` is the writer lock of
the database from the first DELETE to the commit. `WorkerFails` and `Restart`
break off at any of these points. `StartPurge` gives the purger its limit: Max
for the periodic task, any of `Limits`, larger or smaller, for an administrator.
A capture makes the directory of its run again when it is gone (`WriteReports`),
and rmtree, which ignores its errors, may miss one that is being written
(`Missed`); `relics` remembers these and what a crash left, so that every other
directory must go with its run.

### Reports

A report is the set of tests it lists. `Visit` splits and summarises a file
that ended (runner.py 561), `Merge`, `WriteJson`, `SplitAll`, `WriteHtml` are
_finalize_reports in the order it writes, `Generate` generate_all_reports.
`Answers`, `InSuite`, `FileAnswer` are what the report requests find; the ids that
the dashboard sends have no `[...]`, so a case of a parametrised test
(`Parametrized`) answers none of them. `late` is a process that ended between the
two polls of one round: it gets no summary.

### TestFiles and Discovery

A file is a sequence of lines, each with a kind and a depth. `NodeidLine` and
`MarkerLine` are one step of the scanners, which build lists: an id may come
twice, and the markers above a test wait in a list too. The reference reads the
nesting instead: `Enclosing` are the lines whose blocks a line is in, `Scopes`
the classes and functions among them, `IsCollected` says that pytest takes an
id, `IsPlain` that a test is one of the module or of a test class at column 0.
The properties count what the lists hold of each line, ask for its order, and of
plain tests for pytest's id; what the others get is in section 5. Because a file
grows line by line, an invariant speaks of every file there is, and the proofs
need no induction over data. In Discovery the scanned file is the server's;
`UploadTests` (with `Deduplicate`, `Extract`, `Reject`), `DeleteUpload`,
`DiscoverTests`, `GetSuites`, `Tick`, `CreateRun`, `StartRun` are the requests and
the cache.

## 3. What is abstracted

- RunService: the processes of a run are one value `proc[t]`: live, ok, failed,
  killed (a negative return code) or timedout. Setup passes, fails or raises. An
  exception after CommitOutcome finds a terminal status and is TeardownEnds.
- Exceptions of the database are modelled where they decide something
  (StaleDataError and the unique name of a resource in RunService,
  `DatabaseFails` in TestProcesses, `Raises` in StepExecutor, `WorkerFails` in
  Retention) and left out elsewhere: in RunService the refresh, setup and the log
  writer raise, a commit of the run's own status does not. Writes are serialised
  as by SQLite's writer lock; PostgreSQL row locks and snapshots are not modelled.
  SQLite reuses the id of a deleted last row; ids are never reused here.
- A statement that returns `first()` of an unordered or tied result may return
  any of the rows.
- TestProcesses: one of the two pipes of a process (the code keeps no order
  between stdout and stderr); to which test a line is attributed is left out.
  Children of a killed shell that keep a pipe open are slow readers.
- Retention: older than the retention period are any number of the first runs.
  A process that outlives a killed server writes into no directory any more.
- Reports: a test, that is a case JUnit lists, has a file, a function name, a
  result, whether it is a method and whether it is a case of a parametrised
  test. Two files have different keys (`_safe_file_key` can map two paths to one). A
  reader of a file that is being rewritten sees the old or the new one.
- Discovery: one client, whose uploads are apart from those of others; requests
  are atomic because they do all their work on files between two awaits.
- TestFiles: no two tests or classes have one name (the scanners list both,
  pytest the last). Left out are statements and strings of more than one line,
  commented-out markers (the second scanner counts them), `async def`, a class of
  the bare name Test, and markers of a class, which pytest passes on to its
  methods and the scanner to none. Blank lines and other comments change nothing
  in either scanner.
- Steps: two concurrent PUTs of one configuration merge their lists
  (routes.py 1427 deletes what it loaded, each adds its own); LoadsOneList is
  checked and proved with one editor at a time (`OneEditor`). With any number of
  them a phase still loads nothing but whole lists that were sent (WholeLists).

## 4. Runs

`CHECK_DEADLOCK FALSE` everywhere: each client request is made a bounded number of
times, and when all are answered and all tasks have ended the system is idle for
good.

### Runs that pass

| Run | Instance | States | Properties |
|---|---|---|---|
| MCCancel | 2 runs of one resource, the second a CLI command, 3 slots, 1 cancel | 231,000 | TypeOK, RunningIsAttended, EntriesAgree, LocksCanExpire |
| MCRestart | 1 run without and 2 with a resource, 2 slots, 1 crash | 164,000 | IInv, RestartIsClean |
| MCEnds | 2 runs of one resource, the second a command, 1 cleanup, 1 crash, fairness | 221,000 | RunningEnds, FinishedRunsKept |
| MCTestProcesses | 2 files, up to 2 lines of one, or the whole suite with one line; fairness | 330,000 | TypeOK, AllLinesLogged, OutcomeIsTrue, ReportsAgree, ImplementsChannel, ImplementsTask, CaptureEnds |
| MCSteps | lists of one and two steps, every policy, 1 editor, 3 requests | 309,000 | TypeOK, LoadsOneList, TestsAfterSetup, StatusTellsResults |
| MCStream | 1 run, 2 sockets, 2 lines, fairness | 62,000 | TypeOK, ShownIsPrefix, SentinelIsLast, OneSocket, EndIsNoticed |
| MCRetention | 2 runs of one client, limit 1, of administrators 1 or 2, 1 failure, fairness | 451,000 | TypeOK, Leftovers, PrunedToLimit, ActiveKept, OrphansRemoved |
| MCReports | 2 files, 4 tests (two of one name, a method, a parametrised case; one path within the other), fairness | 502,000 | TypeOK, ResultsBehindIndex, FinalReportsAgree, TestAnswersRight, FileAnswersRight, ReportsFollow |
| MCDiscovery | all files of at most 4 lines of depth 0 to 2; 2 ZIPs, 2 names, 1 run, TTL 2 | 425,000 | TypeOK, NodeidsAreCollected, MarkedAreDiscovered, OneUploadPerContent, StaleAtMostTTL |

What they show, in the order of the table:

- **RunningIsAttended**: a run in status running is the business of a coroutine
  that is bound to write a terminal status (`Responsible`: what the task saw or
  will write makes its session send the UPDATE). **EntriesAgree**: a waiting
  entry is that of a queued run, and a queued run has one but in the steps of a
  worker that is promoting it. **LocksCanExpire**: a held lock belongs to a
  terminal run or to one that will become terminal.
- **RestartIsClean**: the startup commit leaves no lock, active run or waiting
  entry (REQ-ADM-003), whatever the crash interrupted. **FinishedRunsKept**:
  nobody relabels a finished run that no coroutine handles, but for a cleanup that
  had read it as active while no lock was held (section 5). **RunningEnds**: a
  running run reaches a terminal status.
- **AllLinesLogged**: once the outcome is decided every line of a process whose
  reader ended in time is in the log, whether it ended, was killed or ran into
  the timeout. **ImplementsChannel**: order, no repetition, nothing after the
  end. **OutcomeIsTrue**: no process is alive, and the status is what they did.
  **ReportsAgree**: merged report and index are those of the whole reports.
  **ImplementsTask**: whatever the processes, the timeout, exceptions and the
  requests do to a run in detail is a step that RunService has, so that what is
  checked and proved there of many runs holds of the captures inside them.
  **CaptureEnds**: also if a process never does.
- **LoadsOneList**, **TestsAfterSetup**, **StatusTellsResults**: a phase runs one
  list as it was sent; tests start only after a setup that let them; the status
  of a phase is what its steps did.
- **ShownIsPrefix**: until it reconnects the dashboard shows the first lines, each
  once. **SentinelIsLast**: the final drain loses nothing. **OneSocket**: a
  reconnect does not run beside the socket it replaces. **EndIsNoticed**: the
  status poll catches what the socket loses.
- **ActiveKept**: what was selected for deletion some statements ago may have
  changed; a run cancelled before its task launched the tests is the exception.
  **Leftovers**: no row stays but log lines the task wrote later, and no directory
  but a relic. **OrphansRemoved**: these go when the server has started again.
  **PrunedToLimit**: whenever no prune is at work the limit holds for every
  client that a prune to this limit, or a smaller one, has selected since its last
  run finished, however the prunes interleaved. A purge to a larger limit than
  Max keeps what it was told to keep.
- **ResultsBehindIndex**: the index never names a result that is not on disk,
  while every file rewrites it. **FinalReportsAgree**, **TestAnswersRight**,
  **FileAnswersRight**: merged XML, JSON, index and answers list the same tests;
  TestAnswersRight is about tests that are not parametrised.
  **ReportsFollow**: the status comes first, the reports do come.
- **NodeidsAreCollected**: each test once, in order, and a plain test under
  pytest's id. **MarkedAreDiscovered**: as often as the marker is right above it,
  under the same ids, whatever decorators and blocks are around it.
  **OneUploadPerContent**: deduplication by hash. **StaleAtMostTTL**: the
  cache is not kept alive by being asked.

### Why these bounds

Two runs make every conflict over one resource (acquire with acquire, acquire
with release, two releases), three make an entry wait behind an entry; three
slots let a cancelled run's task, a promoted task and one more overlap. A slot is
reused when its task has ended and its processes are gone. One crash, cancel or
cleanup interleaves with every step of the others. Two lines of one process are
enough to lie in different batches, one on each side of a join. Two sockets are a
socket and its replacement. Two runs and a limit of one let two prunes count and
select the same run, and a second limit of two one that deletes nothing. Four
tests of two files are the least for a shared name and a parametrised case that
shares one too. Four lines hold two markers and a method below their class, a
test in a nested class, or a change back to column 0 before a test. What
holds of more is what the proofs are for.

`Symmetry` permutes task slots in MCCancel and MCRestart; liveness runs use
none. Counters (`MaxLog`, `MaxShown`, `MaxRequests`, `MaxFails`,
`MaxLines`, `MaxDepth`, `TTL`)
are bounds of the model where their module says "bound".

### Fairness

- RunService: each handler once called, each task, each release and cancel, and
  startup. The loop is FIFO over ready callbacks, statements return, processes
  are bounded by `PYTEST_TIMEOUT` and steps by their timeouts. `TaskProgress` is
  one fair unit: nothing is assumed about which outcome happens. It excludes
  TaskFails (no exception is assumed to come to the rescue) and the exit of a
  process: RunningEnds rests on TimeoutKill and is violated without it.
- TestProcesses: the capture is resumed (WF), and a loop that passes the timeout
  check again and again finds it over (SF of TimeUp, since time only grows).
  Processes owe nothing.
- LogStream: the status interval fires, a status request repeated for ever is
  served at last, answers that were sent arrive. Sockets, the HTTP fallback and
  the run owe nothing, so EndIsNoticed rests on the status poll alone.
- Retention: tasks of the loop go on, and the periodic purge wakes up although
  administrators purge too. Reports: the steps after the loop.

Clients, administrators, crashes and failures are never fair.

## 5. Findings and known divergences

Three runs state what the repository promises, and TLC finds the code doing
otherwise; `PROJECT.json` quotes the lines.

| Run | Promise | What happens |
|---|---|---|
| MCLockRace | ExclusiveLock, REQ-RES-002 | two creators read "no lock" before either inserts |
| MCLostWakeup | QueuedStarts, REQ-RES-004 (fairness) | the holder looks for a successor before the loser has enqueued itself |
| MCOnlySelected | RunsOnlySelected, comment routes.py 365 | a selection whose files are all gone becomes empty, and empty means everything |

More that the code does otherwise, with its definition where there is one. They
are mostly consequences of two causes (decisions on stale reads, statuses written
before the work is over), and no run is kept for them:

- RunService `PromotedToFreeResource` (USER_GUIDE 11): a new run takes the
  resource between the commit of `released_at` and the promotion, and the head
  of the queue is started beside it. `TerminalIsFinal` (REQ-EXE-003):
  acquire_lock writes running over a committed cancel. `CancelledIsDead`
  (REQ-EXE-005): a cancel before the processes are registered kills none.
  `CommandIsRun` (routes.py 1914): a queued command is promoted as a test run
  without selection. `OnlyStaleLocksExpire` (REQ-RES-005): the status is
  terminal during teardown, so an acquire takes the lock of a run at work.
  `CleanupFailsStuck` (docstring routes.py 115): with no lock to release, a run
  that completes between the SELECT of the stuck runs (123) and the flush before
  the next statement (130) is relabelled failed.
- A timeout kill is not polled: an active-files request before Settle makes a run
  that timed out cancelled instead of failed (REQ-EXE-004). A run whose task
  raises, or a crash, leaves `setup_status` running.
- The policies skip and continue do the same (REQ-STE-004). An update and a
  delete of one configuration at once leave steps without configuration.
- With two runs followed one after the other, the late answer of the first one's
  status request stops following the second (USER_GUIDE 347): EndIsNoticed is
  checked with one run. The safety properties hold with two (checked on 11.8
  million states) and are proved for any number. A reconnect shows the lines
  again from the first.
- A prune deletes as many runs as it counted some statements earlier, so that
  beside another one it may delete more than it should (purge.py 94 says that
  the newest are kept). It removes directories before it commits, and may delete
  the lock row of a run in teardown, whose successor is then never promoted.
- Reports `CasesAreFound` (routes.py 798-804, 941-947): the index has the names of
  JUnit, `test_x[a]`, the id from the scanner ends in `test_x`: a parametrised test
  is answered 404 and missing in its suites.
- TestFiles `OnlyCollected`: a test-like name in a nested class, in a function or
  in a class whose name does not begin with Test is listed, as a test of the class
  at column 0 above it or of the module, and pytest rejects the id. A test with
  the same marker twice is listed twice for it (routes.py 1093-1094).
- A test request may be answered with another file's test of that name. A
  process that ends between the two polls of a round gets no `summary.json`
  (REQ-RPT-005). The index of a cancelled run names only the last file.
  Database reports exist for completed commands only, with skipped tests counted
  as passed (REQ-RPT-010).
- A ZIP that breaks off leaves its directory, and the next upload of it is
  answered as a duplicate. `cleanup_after_minutes` is
  answered and never acted on.

## 6. Proofs

Eight modules, each EXTENDS its component and TLAPS and proves an inductive
invariant `IInv` by one lemma per kind of action. Assumptions are those named in
the components (`ConstantsOK`, `TagsOK`, `NamesOK`, ...): null values are no
names, bounds are natural numbers, sets of files and tests are finite. No bound
of section 4 is used: the theorems hold for every number of runs, files, lines,
sockets, steps and crashes.

| Module | Theorem: property | Argument |
|---|---|---|
| RunServiceProofs | Invariance: IInv; TypeCorrect; NoForgottenRun: RunningIsAttended; QueueAgrees: EntriesAgree; NoWedgedResource: LocksCanExpire; FinishedKept; CleanRestart | below |
| TestProcessesProofs | TypeCorrect; OutcomeTold: OutcomeIsTrue; ReportsMerged: ReportsAgree; CaptureIsChannel: ImplementsChannel; NoLineLost: AllLinesLogged; CaptureIsTask: ImplementsTask | a polled code is how the process ended; who leaves the loop has polled all that ended by themselves. Log, batch on its way and queue are one sequence (Pipe) that a commit does not change and a reader extends by the next number |
| LogStreamProofs | TypeCorrect; LogIsShown: ShownIsPrefix; NothingAfterSentinel: SentinelIsLast; SocketsAlone: OneSocket | each run has one socket or the timer that replaces it (Apart); a stream is never ahead of its log, and past its end it has sent what was there at the end (Behind); until a reconnect, the lines shown and the messages under way count up to `lastId` (Straight) |
| StepExecutorProofs | TypeCorrect; SetupFirst: TestsAfterSetup; StatusIsTrue: StatusTellsResults; WholeLists; OneListLoaded: LoadsOneList | while a phase works, the steps that ran come before those that remain, and only the last one can have failed fatally (Working); from the end of the setup on this is kept (SetupDone). The lists: below |
| RetentionProofs | TypeCorrect; NothingLeft: Leftovers; Kept: ActiveKept; Limited: PrunedToLimit | a selected run does not become active again unless it was cancelled early (ChosenAreOver, TasksOfCancelled); what is deleted and not committed has no directory left but a relic (DoomedHaveNoDir). The limit: below |
| ReportsProofs | TypeCorrect; IndexIsBehind: ResultsBehindIndex; ReportsAgree: FinalReportsAgree; TestsAreFound: TestAnswersRight; FilesAreAnswered: FileAnswersRight | nobody writes the XML of a process that ended (EndedForGood), and each step of the finalization has what the steps before it made (Finalizing); the index has one entry per key, that of the file it names (Keys), so a lookup by path or name finds what the merged reports hold |
| TestFilesProofs | Nodeids: NodeidsAreCollected; Markers: MarkedAreDiscovered | `current_class` is the last test class at column 0 unless a resetting line came after it (Tracks), and what encloses an indented test begins with the last line at column 0 (LastAtColumn0), so it is the class a plain test is in; what waits is the markers above the next line (Pending); a list grows only by ids of the newest line (ListsStep) |
| DiscoveryProofs | TypeCorrect; OneDirectory: OneUploadPerContent; Staleness: StaleAtMostTTL; Scans: ScanSpec; DiscoveredIsCollected | Discovery implements ScanSpec, and inherits the theorems of TestFiles |

RunService. RunningIsAttended is not inductive: that a promoted run had been
queued, and so is in no task's hands and not yet seen as terminal, must be known
when Promote sets it running. `IInv` adds: what program counters say of locals
(LocalsOK); only its creator touches a run until it is created (CreatedAlone);
a run that has a task does not wait (TasksDoNotWait); what a promoting worker
knows of the next run, in particular that once it was seen in another status it
is not queued again (PromotedWasQueued), without which a skipped UPDATE would
leave it queued without an entry; only runs that are running or terminal hold
locks (LocksOfStarted), from which LocksCanExpire follows. FinishedKept needs
IInv for the steps of workers, and excepts the runs in `stuck`;
RestartIsClean only the shape of Startup and types.

NoLineLost needs three invariants beside IInv: Flow (the pipe holds, for each
process, exactly the numbers up to `read`, in order), Counted, and Drained (a
reader that was joined in time has read everything, and after the last join only
others put lines on the queue). A line is then counted by the bijection between
its place in the log and its number.

StepExecutor. An editor deletes the steps it had loaded and inserts those it was
sent. WholeLists says that what a phase loads is made of whole lists that were
sent, never of a part of one (Sent, Complete), whatever the other editors do. That
it is exactly one list is false for two PUTs at once, and OneListLoaded has the
hypothesis `OneEditor` (at most one request on existing configurations at a time),
under which MCSteps checks it: then what the editor has loaded is
still what the table holds when it deletes (OneList, Edited, Chosen).

Retention. PrunedToLimit counts over interleaved prunes. Counting relates the
number a prune has read to the runs that are there, InHand says that while a
prune is under way its deletions will suffice, and OldestMany that among enough
finished runs there are that many oldest ones. The last is a fact about all
sizes; where induction over a cardinality would be used, which the provers cannot
instantiate, it takes the least counterexample with the library's theorem on
well-founded minima.

Three refinements are proved. Discovery implements the scanners' specification,
TestProcesses implements LogChannel, and TestProcesses implements the task of
RunService (CaptureIsTask): every step of the capture of one run, for any files,
lines and batches, is under the mapping of RunCapture a step that RunService has,
or none. The mapped state satisfies RunService's own IInv at the start
(InitMaps). There is one lemma for each step of RunService that a capture takes
(named `...Maps`) and one for each action of TestProcesses that says which of
them it is (`...Refines`); Attached ties the registration of the processes to
the place where the capture stands. So what is proved of any number of runs and
their tasks is about tasks that can do what captures do.

Model-checked only, because these provers do not reach liveness: RunningEnds,
CaptureEnds, EndIsNoticed, OrphansRemoved, ReportsFollow. Every other property of
the passing runs is a theorem.

## 7. Not modelled, and what is left

- Login: the attempt window is a list of times that one handler trims, counts
  and clears around one await; tokens are a library's.
- Tests' statuses in the dashboard, read off log lines by substring, tabs, the
  explorer tree, components and styles: local state of one page, changed by
  synchronous handlers only.
- Name rules that sort tests into the predefined suites: string matching.
- CRUD of clients, resources and custom suites: single statements.
- Notifications (I/O that raises or returns, which RunService allows for),
  report layout, schema migration, deployment and the standalone step scripts:
  I/O and layout without state to check.

Worth doing next: an abstract lease book (a resource is free or held, a queue of
waiting runs) that ResourceQueue implements in all but exclusivity; a composition
of Retention with the locks of RunService, for the successor that is never
promoted; the status attribution of log lines.
