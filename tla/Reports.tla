------------------------------ MODULE Reports -------------------------------
(***************************************************************************)
(* The reports of one run.  While the test processes run, their files are  *)
(* split and summarised one by one (capture_test_run); after the status of *)
(* the run is committed, _finalize_reports merges them in a thread of its  *)
(* own; for a completed command, generate_all_reports then writes a second *)
(* set into the database (backend/app/services/runner.py,                  *)
(* report_generator.py).  Requests read whatever is there at the time      *)
(* (backend/app/api/routes.py).                                            *)
(*                                                                         *)
(* A test is its file, its name and its result; XML, JSON and HTML are the *)
(* tests they list.  An action writes one file of the report           *)
(* directory, or the files between two awaits.  Logs, times and the        *)
(* coverage and allure reports, which no code here produces, are left out. *)
(***************************************************************************)
EXTENDS Naturals, FiniteSets

CONSTANTS
  Files,    \* test files
  Tests,    \* test cases, as JUnit lists them
  File,     \* the file of each test
  Name,     \* its function name, without class
  Methods,  \* the tests that are methods of a class
  Parametrized,  \* cases of parametrised functions: JUnit's name is test_x[a]
  Within,   \* pairs of files: the first path is part of the second
  Whole     \* the process of a run without selection, or of a command

Tags == Files \cup {Whole}

ASSUME TestsOK ==
  /\ File \in [Tests -> Files] /\ Methods \subseteq Tests
  /\ Parametrized \subseteq Tests
  /\ Within \subseteq Files \X Files /\ Whole \notin Files
  /\ IsFiniteSet(Files) /\ IsFiniteSet(Tests)

Outcomes == {"passed", "failed", "error", "skipped"}

VARIABLES
  command,    \* the run is a pytest command, not a selection of tests
  first,      \* the key under files/ of the command: its first target or "cli"
  result,     \* what each test gives
  procs,      \* the processes that were started
  proc,       \* "live", "ended", "killed" (a poll sees it), "late" (none does)
  junit,      \* files/<key>/junit.xml: "none", "torn", "good"
  pc,         \* where the capture of the run is
  toVisit,    \* processes that this round has not polled yet
  completed,  \* completed_files
  summaries,  \* files/<key>/summary.json exists
  split,      \* tests/<hash>/result.json exists
  index,      \* the tests of tests/index.json
  merged,     \* the tests of junit.xml
  json,       \* the tests of report.json
  disk,       \* which of junit.xml, report.json, report.html, index.json exist
  status,     \* Run.status
  db          \* report_data: the totals stored, or None

os == <<proc, junit>>
asked == <<command, first, result, procs>>
files == <<summaries, split, index, merged, json, disk>>
vars == <<asked, os, pc, toVisit, completed, files, status, db>>

None == [tests |-> 0, passed |-> 0]
TestsOf(p) == IF p = Whole THEN Tests ELSE {t \in Tests : File[t] = p}
Goes(from, to) == pc = from /\ pc' = to

Init ==
  /\ command \in BOOLEAN /\ result \in [Tests -> Outcomes]
  /\ procs \in IF command THEN {{Whole}} ELSE {Files, {Whole}}
  /\ first \in IF command THEN Tags ELSE {Whole}
  /\ proc = [p \in Tags |-> IF p \in procs THEN "live" ELSE "none"]
  /\ junit = [p \in Tags |-> "none"]
  /\ pc = "round" /\ toVisit = {} /\ completed = {}
  /\ summaries = {} /\ split = {} /\ index = {} /\ merged = {} /\ json = {}
  /\ disk = {} /\ status = "running" /\ db = None

-----------------------------------------------------------------------------
(* The processes *)

\* pytest writes junit.xml when its session ends; it may die before or in it.
Ends(p) ==
  /\ proc[p] = "live"
  /\ \E x \in {"none", "torn", "good"} : junit' = [junit EXCEPT ![p] = x]
  /\ proc' = [proc EXCEPT ![p] = "ended"]

\* cancel_run, cancel_run_file: as late as after the last byte of junit.xml.
Killed(p) ==
  /\ proc[p] = "live"
  /\ \E x \in {"none", "torn", "good"} : junit' = [junit EXCEPT ![p] = x]
  /\ proc' = [proc EXCEPT ![p] = "killed"]

Process(p) ==
  (Ends(p) \/ Killed(p))
    /\ UNCHANGED <<asked, pc, toVisit, completed, files, status, db>>

-----------------------------------------------------------------------------
(* The rounds of the capture loop *)

Round ==
  /\ Goes("round", "visit") /\ toVisit' = procs
  /\ UNCHANGED <<asked, os, completed, files, status, db>>

\* Mutant of SplitTests: the index is made of the selected tests.
SplitSelected(tests) ==
  split' = split \cup tests /\ index' = Tests /\ disk' = disk \cup {"per_test"}

\* _split_per_test_reports of one junit.xml: the index is written anew.
SplitTests(tests) ==
  split' = split \cup tests /\ index' = tests /\ disk' = disk \cup {"per_test"}

\* The split raises on a torn file, and then there is no summary either.
ReportFile(p, key) ==
  IF junit[p] = "good"
  THEN SplitTests(TestsOf(p)) /\ summaries' = summaries \cup {key}
  ELSE UNCHANGED <<split, index, disk, summaries>>

\* The poll of one process.
Visit(p) ==
  /\ pc = "visit" /\ p \in toVisit /\ toVisit' = toVisit \ {p}
  /\ IF proc[p] # "live" /\ p \notin completed /\ ~command
     THEN completed' = completed \cup {p} /\ ReportFile(p, p)
     ELSE UNCHANGED <<completed, summaries, split, index, disk>>
  /\ UNCHANGED <<asked, os, pc, merged, json, status, db>>

\* The poll of all: a process may have ended since the poll that reports it.
\* Whether the queue of lines is empty is left open.
LeaveLoop ==
  /\ Goes("visit", "left") /\ toVisit = {}
  /\ \A p \in procs : proc[p] # "live"
  /\ UNCHANGED <<asked, os, toVisit, completed, files, status, db>>

NextRound ==
  /\ Goes("visit", "round") /\ toVisit = {}
  /\ UNCHANGED <<asked, os, toVisit, completed, files, status, db>>

\* The timeout kills what runs; nothing polls it after.
TimeUp ==
  /\ Goes("visit", "left") /\ toVisit = {}
  /\ \E p \in procs : proc[p] = "live"
  /\ proc' = [p \in Tags |-> IF proc[p] = "live" THEN "late" ELSE proc[p]]
  /\ \E x \in [{p \in procs : proc[p] = "live"} -> {"none", "torn", "good"}] :
       junit' = [p \in Tags |-> IF p \in DOMAIN x THEN x[p] ELSE junit[p]]
  /\ UNCHANGED <<asked, toVisit, completed, files, status, db>>

-----------------------------------------------------------------------------
(* The end of the run *)

Cancelled == \E p \in procs : proc[p] = "killed"
Failing == {"failed", "error"}

\* pytest ends with 0 unless a test fails or it breaks off.
AnyFailed ==
  \E p \in procs : \/ proc[p] = "late" \/ junit[p] # "good"
                   \/ \E t \in TestsOf(p) : result[t] \in Failing

\* Mutant of EndStatus: a test that breaks off gives the run its own outcome.
EndStatusOfTest ==
  IF Cancelled THEN "cancelled"
  ELSE IF \E t \in Tests : result[t] = "error" THEN "error"
  ELSE IF AnyFailed THEN "failed" ELSE "completed"

EndStatus ==
  IF Cancelled THEN "cancelled" ELSE IF AnyFailed THEN "failed"
  ELSE "completed"

\* The status is committed before the reports are made, none if cancelled.
CommitStatus ==
  /\ pc = "left" /\ status' = EndStatus
  /\ pc' = IF Cancelled THEN "over" ELSE IF command THEN "file" ELSE "merge"
  /\ UNCHANGED <<asked, os, toVisit, completed, files, db>>

\* A command has one file, reported here.
CommandFile ==
  /\ Goes("file", "merge") /\ ReportFile(Whole, first)
  /\ UNCHANGED <<asked, os, toVisit, completed, merged, json, status, db>>

\* Mutant of Readable: one torn file and nothing is merged.
AllOrNothing ==
  IF \E p \in procs : junit[p] = "torn"
  THEN {} ELSE UNION {TestsOf(p) : p \in {q \in procs : junit[q] = "good"}}

\* Each file is parsed in a try of its own.
Readable == UNION {TestsOf(p) : p \in {q \in procs : junit[q] = "good"}}

\* _finalize_reports, step by step
Merge ==
  /\ Goes("merge", "json")
  /\ merged' = Readable /\ disk' = disk \cup {"junit_xml"}
  /\ UNCHANGED <<asked, os, toVisit, completed, summaries, split, index, json,
                 status, db>>

WriteJson ==
  /\ Goes("json", "split") /\ json' = merged /\ disk' = disk \cup {"json"}
  /\ UNCHANGED <<asked, os, toVisit, completed, summaries, split, index,
                 merged, status, db>>

\* Mutant of SplitAll: the split is left out if there is an index already.
SplitIfMissing ==
  /\ Goes("split", "html")
  /\ IF "per_test" \in disk THEN UNCHANGED <<split, index, disk>>
                           ELSE SplitTests(merged)
  /\ UNCHANGED <<asked, os, toVisit, completed, summaries, merged, json,
                 status, db>>

SplitAll ==
  /\ Goes("split", "html") /\ SplitTests(merged)
  /\ UNCHANGED <<asked, os, toVisit, completed, summaries, merged, json,
                 status, db>>

\* Mutant of WriteHtml: only a run that completed gets its HTML report.
HtmlIfCompleted ==
  /\ pc = "html"
  /\ disk' = IF status = "completed" THEN disk \cup {"html"} ELSE disk
  /\ pc' = IF command /\ status = "completed" THEN "generate" ELSE "over"
  /\ UNCHANGED <<asked, os, toVisit, completed, summaries, split, index,
                 merged, json, status, db>>

WriteHtml ==
  /\ pc = "html" /\ disk' = disk \cup {"html"}
  /\ pc' = IF command /\ status = "completed" THEN "generate" ELSE "over"
  /\ UNCHANGED <<asked, os, toVisit, completed, summaries, split, index,
                 merged, json, status, db>>

Count(tests, outcomes) == Cardinality({t \in tests : result[t] \in outcomes})

\* generate_all_reports: to _read_junit_xml what neither failed nor had an
\* error has passed, and the totals are stored with both database reports.
Generate ==
  /\ Goes("generate", "over")
  /\ db' = [tests |-> Cardinality(merged),
            passed |-> Count(merged, Outcomes \ Failing)]
  /\ UNCHANGED <<asked, os, toVisit, completed, files, status>>

\* Whatever raises in it is logged, and nothing is stored.
GenerateFails ==
  /\ Goes("generate", "over")
  /\ UNCHANGED <<asked, os, toVisit, completed, files, status, db>>

-----------------------------------------------------------------------------
(* What requests are answered *)

\* list_reports: the kinds it names.
Listed == disk \cup (IF db # None THEN {"html", "json"} ELSE {})

\* get_report?type=json: the database first.
JsonPassed ==
  IF db # None THEN db.passed ELSE Count(json, {"passed"})

\* get_test_report, asked for the function of t: the ids of the dashboard carry
\* ".py", the keys of the index do not, so that the name decides, which must be
\* the end of the key: that of a case ends in [..]; the first in the file.
Answers(t) == {u \in index \ Parametrized : Name[u] = Name[t]}

\* get_suite_report: the same for each test of the suite.
InSuite(t) == Answers(t) \cap split # {}

\* get_file_report: the summary of the key, else the index by path; the key
\* of a method has its class where other keys have their file.
FileAnswer(f) ==
  IF f \in summaries
  THEN IF command THEN Tests ELSE TestsOf(f)
  ELSE {t \in index \cap split :
          t \notin Methods /\ (File[t] = f \/ <<f, File[t]>> \in Within)}

-----------------------------------------------------------------------------
Next ==
  \/ \E p \in Tags : Process(p) \/ Visit(p)
  \/ Round \/ LeaveLoop \/ NextRound \/ TimeUp \/ CommitStatus \/ CommandFile
  \/ Merge \/ WriteJson \/ SplitAll \/ WriteHtml \/ Generate
  \/ GenerateFails

Spec == Init /\ [][Next]_vars

\* The steps of the capture once it has left its loop; the loop ends by the
\* end of the processes or by the timeout.
Finalization ==
  \/ CommitStatus \/ CommandFile \/ Merge \/ WriteJson \/ SplitAll
  \/ WriteHtml \/ Generate

FairSpec == Spec /\ WF_vars(Finalization)

-----------------------------------------------------------------------------
(* Properties *)

Kinds == {"junit_xml", "json", "html", "per_test"}

TypeOK ==
  /\ command \in BOOLEAN /\ first \in Tags /\ result \in [Tests -> Outcomes]
  /\ procs \in {Files, {Whole}}
  /\ proc \in [Tags -> {"none", "live", "ended", "killed", "late"}]
  /\ junit \in [Tags -> {"none", "torn", "good"}]
  /\ pc \in {"round", "visit", "left", "file", "merge", "json", "split",
             "html", "generate", "over"}
  /\ toVisit \subseteq procs /\ completed \subseteq procs
  /\ summaries \subseteq Tags
  /\ split \subseteq Tests /\ index \subseteq Tests
  /\ merged \subseteq Tests /\ json \subseteq Tests /\ disk \subseteq Kinds
  /\ status \in {"running", "cancelled", "failed", "completed"}
  /\ db \in [tests : 0..Cardinality(Tests), passed : 0..Cardinality(Tests)]

Good == {p \in procs : junit[p] = "good"}
Finalized == pc = "over" /\ status # "cancelled"

(***************************************************************************)
(* The index of the per-test reports, rewritten for every file while the   *)
(* processes still run, at no time names a test whose result is not on     *)
(* disk or whose file gave no result; and what the loop has reported of a  *)
(* file stays, whatever happens to the other files or to the run.          *)
(***************************************************************************)
ResultsBehindIndex ==
  /\ index \subseteq split \cap UNION {TestsOf(p) : p \in Good}
  /\ \A p \in completed \cap Good :
       p \in summaries /\ TestsOf(p) \subseteq split

(***************************************************************************)
(* After the finalization of a run, cancelled processes and torn files     *)
(* apart, the merged XML, the JSON, the index and the results of the tests *)
(* list the same tests: those of every file that gave a result, also of a  *)
(* process that ended unseen by the loop.  The database has reports for    *)
(* completed commands only, and there the skipped tests count as passed.   *)
(***************************************************************************)
FinalReportsAgree ==
  Finalized =>
    /\ merged = UNION {TestsOf(p) : p \in Good}
    /\ json = merged /\ index = merged /\ merged \subseteq split
    /\ Kinds \subseteq Listed
    /\ db # None => /\ command /\ status = "completed"
                    /\ db.tests = Cardinality(json)
                    /\ JsonPassed = Count(json, {"passed"})
                                      + Count(json, {"skipped"})

(***************************************************************************)
(* A test of which the run has a result is found under the id that the     *)
(* dashboard sends, in the test report and in the reports of its suites;   *)
(* what is answered is its own result if no other such test has its name.  *)
(* The cases of parametrised functions are left out: none of them is found *)
(* under the id of its function.                                           *)
(***************************************************************************)
TestAnswersRight ==
  Finalized =>
    \A t \in (UNION {TestsOf(p) : p \in Good}) \ Parametrized :
      /\ Answers(t) # {} /\ InSuite(t)
      /\ (\A u \in Tests \ Parametrized : Name[u] = Name[t] => u = t)
           => Answers(t) = {t}

(***************************************************************************)
(* What get_test_report promises ("per-test-case report data") of every    *)
(* test.  It fails for the cases of parametrised functions, which are not  *)
(* found, or are answered with another test of that name; no run checks    *)
(* it.                                                                     *)
(***************************************************************************)
CasesAreFound ==
  Finalized =>
    \A t \in UNION {TestsOf(p) : p \in Good} : t \in Answers(t)

(***************************************************************************)
(* The report of a file that gave a result has its tests, without those of *)
(* other files unless their paths contain its own; only the methods of     *)
(* classes are missing if the file ended between the two polls of a round, *)
(* so that it got no summary.  The first target of a command is left out:  *)
(* its report is that of the command.                                      *)
(***************************************************************************)
FileAnswersRight ==
  Finalized =>
    \A f \in Files :
      /\ junit[f] = "good" \/ (junit[Whole] = "good" /\ f # first)
           => TestsOf(f) \ Methods \subseteq FileAnswer(f)
      /\ f \in summaries /\ ~command => FileAnswer(f) = TestsOf(f)
      /\ f # first => \A t \in FileAnswer(f) :
                       File[t] = f \/ <<f, File[t]>> \in Within

(***************************************************************************)
(* The status that tells clients that a run is over is committed before    *)
(* its reports exist; whoever asks too early is answered in the end.       *)
(***************************************************************************)
ReportsFollow ==
  status \in {"failed", "completed"} ~> Kinds \subseteq disk
=============================================================================
