--------------------------- MODULE TestProcesses ----------------------------
(***************************************************************************)
(* capture_test_run (backend/app/services/runner.py): one pytest process   *)
(* per selected file, reader threads that put their lines on one queue, a  *)
(* loop that commits the lines in batches and polls the processes, the     *)
(* timeout, and the reports at the end; with the requests that reach into  *)
(* it: cancel the run, cancel one file, list the active files.             *)
(*                                                                         *)
(* One run, and one of the two pipes of each process: the code keeps no    *)
(* order between stdout and stderr.  RunService models the same coroutine  *)
(* with one value for all processes and without the log, composed with the *)
(* queue of the resource; RunCapture says how the two agree.  An action is *)
(* the code between two awaits; the processes, the readers and the joins   *)
(* interleave with everything.  Request handlers only run while the        *)
(* capture is suspended (LoopFree).                                        *)
(***************************************************************************)
EXTENDS Naturals, Sequences, FiniteSets

CONSTANTS
  Files,      \* test files a run can select
  All,        \* the tag of the process that runs the whole suite
  MaxLines    \* bound: how many lines each process may write

Tags == Files \cup {All}

ASSUME TagsOK == All \notin Files /\ MaxLines \in [Tags -> Nat]

VARIABLES
  pc,         \* where capture_test_run is
  procs,      \* tags of the processes list
  exit,       \* what each process is to the operating system
  code,       \* returncode of its Popen object: "none" until a poll() sees it
  junit,      \* its junit.xml: "none", "full", "partial" (killed as it wrote)
  written, read,            \* lines it wrote, lines its reader has queued
  lineQueue, batch, log,
  joining, completed,       \* ends seen in this round, completed_files
  slow,       \* processes whose reader outlived a join (2 s)
  index, merged,            \* files in tests/index.json and in junit.xml
  \* run_id \in _active_runs, the tags it maps, run_id \in _cancelled_runs
  registered, active, inCancelled,
  verdict,    \* the status decided on, "none" before
  status,     \* Run.status
  seen,       \* Run.status as the session of the capture has it
  cpc,        \* the cancel request
  timedOut    \* history: the processes that the timeout killed

os == <<exit, junit, written>>
pipes == <<read, lineQueue, batch, log, slow>>
loop == <<joining, completed, index, merged>>
outcome == <<verdict, status, seen, cpc, timedOut>>
registry == <<registered, active, inCancelled>>
vars == <<pc, procs, code, os, pipes, loop, registry, outcome>>

Terminal == {"completed", "failed", "cancelled"}
Live(f) == exit[f] = "live"
Goes(from, to) == pc = from /\ pc' = to

\* The capture holds the event loop in these steps.
LoopFree == pc \notin {"poll", "check", "leave"}

\* No selected test means the whole suite; a selection whose files are gone
\* means no process at all.  A run is running before it has a task, unless a
\* cancel was answered before the task loaded it.
Init ==
  /\ procs \in {{All}} \cup SUBSET Files
  /\ pc = "start" /\ verdict = "none"
  /\ status \in {"running", "cancelled"} /\ seen = status
  /\ inCancelled = (status = "cancelled")
  /\ cpc = IF inCancelled THEN "answered" ELSE "idle"
  /\ exit = [f \in Tags |-> "none"] /\ code = exit /\ junit = exit
  /\ written = [f \in Tags |-> 0] /\ read = written
  /\ lineQueue = <<>> /\ batch = <<>> /\ log = <<>>
  /\ joining = {} /\ completed = {} /\ slow = {} /\ index = {} /\ merged = {}
  /\ registered = FALSE /\ active = {} /\ timedOut = {}

-----------------------------------------------------------------------------
(* The processes and their readers *)

WriteLine(f) ==
  /\ Live(f) /\ written[f] < MaxLines[f]
  /\ written' = [written EXCEPT ![f] = @ + 1]
  /\ UNCHANGED <<pc, procs, code, exit, junit, pipes, loop, registry, outcome>>

ReadLine(f) ==
  /\ read[f] < written[f]
  /\ read' = [read EXCEPT ![f] = @ + 1]
  /\ lineQueue' = Append(lineQueue, <<f, read[f] + 1>>)
  /\ UNCHANGED <<pc, procs, code, os, batch, log, slow, loop, registry,
                 outcome>>

\* pytest writes junit.xml when the session ends; a usage error leaves none.
Ends(f) ==
  /\ Live(f)
  /\ \E e \in {<<"ok", "full">>, <<"failed", "full">>, <<"failed", "none">>} :
       /\ exit' = [exit EXCEPT ![f] = e[1]]
       /\ junit' = [junit EXCEPT ![f] = e[2]]
  /\ UNCHANGED <<pc, procs, code, written, pipes, loop, registry, outcome>>

\* poll() records how a process ended.
Polled(fs) ==
  code' = [f \in Tags |-> IF f \in fs /\ ~Live(f) THEN exit[f] ELSE code[f]]

\* kill() looks before it kills, nobody after; junit.xml may be cut short.
Kill(fs) ==
  LET killed == {f \in fs : Live(f)} IN
  /\ Polled(fs)
  /\ exit' = [f \in Tags |-> IF f \in killed THEN "signal" ELSE exit[f]]
  /\ \E j \in [killed -> {"none", "partial", "full"}] :
       junit' = [f \in Tags |-> IF f \in killed THEN j[f] ELSE junit[f]]
  /\ UNCHANGED written

-----------------------------------------------------------------------------
(* Start and loop *)

\* The session sends an UPDATE of the status only if it loaded another one.
StartRun ==
  /\ Goes("start", "launch")
  /\ status' = IF seen = "running" THEN status ELSE "running"
  /\ seen' = "running"
  /\ UNCHANGED <<procs, code, os, pipes, loop, registry, verdict, cpc,
                 timedOut>>

Started(fs) == exit' = [f \in Tags |-> IF f \in fs THEN "live" ELSE "none"]

\* Every process is started and only then registered for cancellation.
Launch ==
  /\ Goes("launch", "drain")
  /\ Started(procs)
  /\ registered' = TRUE /\ active' = procs
  /\ UNCHANGED <<procs, code, junit, written, pipes, loop, inCancelled,
                 outcome>>

\* Popen fails: the processes started so far run on, registered nowhere.
LaunchFails ==
  /\ Goes("launch", "raised")
  /\ \E fs \in SUBSET procs : fs # procs /\ Started(fs)
  /\ UNCHANGED <<procs, code, junit, written, pipes, loop, registry, outcome>>

\* Mutant of TakeBatch: the lines stay on the queue.
TakeCopy(empty, full) ==
  /\ batch' = lineQueue
  /\ pc' = IF lineQueue = <<>> THEN empty ELSE full
  /\ UNCHANGED <<lineQueue, log, read>>

TakeBatch(empty, full) ==
  /\ batch' = lineQueue /\ lineQueue' = <<>>
  /\ pc' = IF lineQueue = <<>> THEN empty ELSE full
  /\ UNCHANGED <<log, read>>

Drain ==
  /\ pc = "drain" /\ TakeBatch("poll", "commit")
  /\ UNCHANGED <<procs, code, os, slow, loop, registry, outcome>>

\* Also the lines that are drained after the loop.
CommitBatch ==
  /\ Goes("commit", "poll") \/ Goes("flush", "settle")
  /\ log' = log \o batch
  /\ UNCHANGED <<procs, code, os, read, lineQueue, batch, slow, loop, registry,
                 outcome>>

\* Mutant of PollProcesses: completed_files.add is forgotten.
PollForgets ==
  /\ Goes("poll", "check")
  /\ Polled(procs \ completed)
  /\ joining' = {f \in procs \ completed : ~Live(f)}
  /\ UNCHANGED <<procs, os, pipes, completed, index, merged, registry,
                 outcome>>

PollProcesses ==
  /\ Goes("poll", "check")
  /\ Polled(procs \ completed)
  /\ joining' = {f \in procs \ completed : ~Live(f)}
  /\ completed' = completed \cup joining'
  /\ UNCHANGED <<procs, os, pipes, index, merged, registry, outcome>>

\* A join waits for the reader to see the end of the pipe, at most 2 s.
Join(fs) == slow' = slow \cup {f \in fs : read[f] < written[f]}

\* Each per-test split rewrites tests/index.json: the last file's stays.
FileReports ==
  LET split == {f \in joining : junit[f] = "full"} IN
  /\ IF split = {} THEN UNCHANGED index ELSE \E f \in split : index' = {f}
  /\ joining' = {}
  /\ UNCHANGED <<completed, merged>>

AllDone ==
  (\A f \in procs : ~Live(f)) /\ lineQueue = <<>> /\ batch = <<>>

CheckDone ==
  /\ pc = "check" /\ Join(joining) /\ FileReports
  /\ Polled(procs)
  /\ pc' = IF AllDone THEN "leave" ELSE "drain"
  /\ UNCHANGED <<procs, os, read, lineQueue, batch, log, registry, outcome>>

\* Mutant of TimeUp: the timeout is never enforced.
TimeNever == FALSE /\ UNCHANGED vars

\* elapsed > PROCESS_TIMEOUT
TimeUp ==
  /\ Goes("check", "leave") /\ Join(joining) /\ FileReports
  /\ ~AllDone
  /\ Kill(procs)
  /\ timedOut' = {f \in procs : Live(f)}
  /\ UNCHANGED <<procs, read, lineQueue, batch, log, registry, verdict, status,
                 seen, cpc>>

-----------------------------------------------------------------------------
(* The end *)

\* Mutant of LeaveLoop: the readers are joined but not drained.
LeaveUndrained ==
  /\ Goes("leave", "settle") /\ Join(procs \ completed)
  /\ UNCHANGED <<procs, code, os, read, lineQueue, batch, log, loop, registry,
                 outcome>>

LeaveLoop ==
  /\ pc = "leave" /\ Join(procs \ completed)
  /\ TakeBatch("settle", "flush")
  /\ UNCHANGED <<procs, code, os, loop, registry, outcome>>

Cancelled == inCancelled \/ \E f \in procs : code[f] = "signal"

\* Mutant of AnyFailed: a return code that nobody has polled is no failure.
AnyPolledFailed == \E f \in procs : code[f] = "failed"

AnyFailed == \E f \in procs : code[f] # "ok"

Settle ==
  /\ Goes("settle", "refresh")
  /\ registered' = FALSE /\ active' = {} /\ inCancelled' = FALSE
  /\ verdict' = IF Cancelled THEN "cancelled"
                ELSE IF AnyFailed THEN "failed" ELSE "completed"
  /\ UNCHANGED <<procs, code, os, pipes, loop, status, seen, cpc, timedOut>>

\* db.refresh: a status that a cancel request committed is seen.
Refresh ==
  /\ Goes("refresh", "save")
  /\ seen' = status
  /\ UNCHANGED <<procs, code, os, pipes, loop, registry, verdict, status, cpc,
                 timedOut>>

\* Mutant of SaveStatus: the refreshed status is not looked at.
SaveVerdict ==
  /\ Goes("save", IF verdict = "cancelled" THEN "done" ELSE "finalize")
  /\ status' = IF seen = verdict THEN status ELSE verdict
  /\ UNCHANGED <<procs, code, os, pipes, loop, registry, verdict, seen, cpc,
                 timedOut>>

\* A cancel that was seen is kept, but the reports are finalized all the same.
SaveStatus ==
  LET saved == IF seen = "cancelled" THEN seen ELSE verdict IN
  /\ Goes("save", IF verdict = "cancelled" THEN "done" ELSE "finalize")
  /\ status' = IF seen = saved THEN status ELSE saved
  /\ UNCHANGED <<procs, code, os, pipes, loop, registry, verdict, seen, cpc,
                 timedOut>>

\* Mutant of Finalize: the per-test split of the merged report is dropped.
FinalizeMergeOnly ==
  /\ Goes("finalize", "done")
  /\ merged' = {f \in Tags : junit[f] = "full"}
  /\ UNCHANGED <<procs, code, os, pipes, joining, completed, index, registry,
                 outcome>>

\* A junit.xml that does not parse is left out.
Finalize ==
  /\ Goes("finalize", "done")
  /\ merged' = {f \in Tags : junit[f] = "full"} /\ index' = merged'
  /\ UNCHANGED <<procs, code, os, pipes, joining, completed, registry,
                 outcome>>

\* A commit of log lines or the refresh raises; schedule_run_task catches it.
\* A failed refresh leaves the row expired: it is loaded again there.
DatabaseFails ==
  /\ pc \in {"commit", "flush", "refresh"} /\ pc' = "raised"
  /\ seen' = IF pc = "refresh" THEN status ELSE seen
  /\ UNCHANGED <<procs, code, os, pipes, loop, registry, verdict, status, cpc,
                 timedOut>>

-----------------------------------------------------------------------------
(* Requests *)

CancelGoes(from, to) == LoopFree /\ cpc = from /\ cpc' = to

CancelLoad ==
  /\ CancelGoes("idle", IF status \in Terminal THEN "refused" ELSE "kill")
  /\ UNCHANGED <<pc, procs, code, os, pipes, loop, registry, verdict, status,
                 seen, timedOut>>

\* cancel_run, on the status that was read.
CancelKill ==
  /\ CancelGoes("kill", "save")
  /\ inCancelled' = TRUE
  /\ Kill(active) /\ registered' = FALSE /\ active' = {}
  /\ UNCHANGED <<pc, procs, pipes, loop, verdict, status, seen, timedOut>>

CancelSave ==
  /\ CancelGoes("save", "answered")
  /\ status' = "cancelled"
  /\ UNCHANGED <<pc, procs, code, os, pipes, loop, registry, verdict, seen,
                 timedOut>>

\* cancel_run_file: a process found dead stays registered.
CancelFile(f) ==
  /\ LoopFree /\ status = "running" /\ f \in active
  /\ Kill({f})
  /\ active' = IF Live(f) THEN active \ {f} ELSE active
  /\ UNCHANGED <<pc, procs, pipes, loop, registered, inCancelled, outcome>>

\* get_active_files
ActiveFiles ==
  /\ LoopFree /\ Polled(active)
  /\ UNCHANGED <<pc, procs, os, pipes, loop, registry, outcome>>

-----------------------------------------------------------------------------
Capture ==
  \/ StartRun \/ Launch \/ Drain \/ CommitBatch \/ PollProcesses \/ CheckDone
  \/ LeaveLoop \/ Settle \/ Refresh \/ SaveStatus \/ Finalize

Next ==
  \/ Capture \/ TimeUp \/ LaunchFails \/ DatabaseFails
  \/ CancelLoad \/ CancelKill \/ CancelSave \/ ActiveFiles
  \/ \E f \in Tags : WriteLine(f) \/ ReadLine(f) \/ Ends(f) \/ CancelFile(f)

Spec == Init /\ [][Next]_vars

(***************************************************************************)
(* The event loop resumes the capture and a join does not wait for ever.   *)
(* The time since the start only grows, so a loop that comes back to the   *)
(* timeout again and again finds it over.  The processes owe nothing.      *)
(***************************************************************************)
FairSpec == Spec /\ WF_vars(Capture) /\ SF_vars(TimeUp)

-----------------------------------------------------------------------------
(* Properties *)

TypeOK ==
  /\ pc \in {"start", "launch", "drain", "commit", "poll", "check", "leave",
             "flush", "settle", "refresh", "save", "finalize", "done",
             "raised"}
  /\ procs \subseteq Tags /\ active \subseteq procs /\ timedOut \subseteq procs
  /\ joining \subseteq completed /\ completed \subseteq procs
  /\ slow \subseteq Tags /\ index \subseteq Tags /\ merged \subseteq Tags
  /\ exit \in [Tags -> {"none", "live", "ok", "failed", "signal"}]
  /\ code \in [Tags -> {"none", "ok", "failed", "signal"}]
  /\ junit \in [Tags -> {"none", "partial", "full"}]
  /\ written \in [Tags -> Nat] /\ read \in [Tags -> Nat]
  /\ lineQueue \in Seq(Tags \X Nat) /\ batch \in Seq(Tags \X Nat)
  /\ log \in Seq(Tags \X Nat)
  /\ registered \in BOOLEAN /\ inCancelled \in BOOLEAN
  /\ verdict \in {"none"} \cup Terminal
  /\ status \in {"running"} \cup Terminal /\ seen \in {"running"} \cup Terminal
  /\ cpc \in {"idle", "kill", "save", "answered", "refused"}

(***************************************************************************)
(* The reader threads, the queue, the batches and the final drain together *)
(* are a FIFO channel from every process into the log of the run,          *)
(* and nothing is logged once the outcome is decided (REQ-EXE-002).        *)
(***************************************************************************)
Channel == INSTANCE LogChannel WITH
  Sources <- Tags,
  open <- pc \notin {"refresh", "save", "finalize", "done", "raised"}

ImplementsChannel == Channel!Spec

(***************************************************************************)
(* Before the outcome is committed every line of every process is in the   *)
(* log, whether the process ended, was cancelled or ran into the timeout;  *)
(* only a reader that outlives the 2 s of its join can lose lines.         *)
(***************************************************************************)
Logged(f) == Cardinality({i \in DOMAIN log : log[i][1] = f})

AllLinesLogged ==
  pc \in {"settle", "refresh", "save", "finalize", "done"}
    => \A f \in procs \ slow : Logged(f) = written[f]

(***************************************************************************)
(* When the outcome is decided no process of the run is alive, and the     *)
(* outcome is what the processes did: completed only if all of them        *)
(* succeeded, failed only if one did not, cancelled only if somebody       *)
(* cancelled the run or a process was killed.                              *)
(***************************************************************************)
OutcomeIsTrue ==
  verdict # "none" =>
    /\ \A f \in Tags : ~Live(f)
    /\ verdict = "completed" => \A f \in procs : exit[f] = "ok"
    /\ verdict = "failed" => \E f \in procs : exit[f] # "ok"
    /\ verdict = "cancelled" => \/ \E f \in procs : exit[f] = "signal"
                                \/ cpc \in {"save", "answered"}

(***************************************************************************)
(* When a run that was not cancelled is over, the merged report and the    *)
(* index of the per-test reports hold exactly the files whose process left *)
(* a whole report (REQ-RPT-001, REQ-RPT-004), although every file rewrote  *)
(* the index while the run went on.                                        *)
(***************************************************************************)
ReportsAgree ==
  pc = "done" /\ verdict # "cancelled" =>
    LET whole == {f \in procs : junit[f] = "full"} IN
    merged = whole /\ index = whole

(***************************************************************************)
(* The capture ends, also when a process never does (REQ-EXE-004).         *)
(***************************************************************************)
CaptureEnds == pc = "start" ~> pc \in {"done", "raised"}
=============================================================================
