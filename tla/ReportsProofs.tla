--------------------------- MODULE ReportsProofs ----------------------------
(***************************************************************************)
(* Proofs about Reports, for any files and tests: the index never runs     *)
(* ahead of the results on disk, and the reports of a finished run agree.  *)
(*                                                                         *)
(* Two facts carry the argument: once a process has ended nothing writes   *)
(* its XML (EndedForGood), so that the tests that gave a result are known  *)
(* when the loop is left; and each step of the finalization has what the   *)
(* steps before it have made (Finalizing).  What requests are answered of  *)
(* a finished run follows, with the keys that summaries and XML files can  *)
(* have (Keys).                                                            *)
(***************************************************************************)
EXTENDS Reports, FiniteSetTheorems, TLAPS

WithResult == UNION {TestsOf(p) : p \in Good}

EndedForGood ==
  /\ \A p \in Tags : proc[p] = "live" => junit[p] = "none"
  /\ \A p \in completed : proc[p] # "live"
  /\ pc \notin {"round", "visit"} => \A p \in procs : proc[p] # "live"

AfterMerge == pc \in {"json", "split", "html", "generate"} \/ Finalized
AfterJson == pc \in {"split", "html", "generate"} \/ Finalized
AfterSplit == pc \in {"html", "generate"} \/ Finalized

Finalizing ==
  /\ command => procs = {Whole}
  /\ pc \in {"round", "visit", "left"} <=> status = "running"
  /\ status = "cancelled" => pc = "over"
  /\ pc = "file" => command
  /\ pc = "generate" => command /\ status = "completed"
  /\ AfterMerge => merged = WithResult /\ "junit_xml" \in disk
  /\ AfterJson => json = merged /\ "json" \in disk
  /\ AfterSplit =>
       index = merged /\ merged \subseteq split /\ "per_test" \in disk
  /\ pc = "generate" \/ Finalized => "html" \in disk

Stored ==
  db # None => /\ Finalized /\ command /\ status = "completed"
               /\ db.tests = Cardinality(json)
               /\ db.passed =
                    Count(json, {"passed"}) + Count(json, {"skipped"})

\* The keys under files/ that have an XML file or a summary.
Keys ==
  /\ \A p \in Tags \ procs : proc[p] = "none" /\ junit[p] = "none"
  /\ command => summaries \subseteq {first}

IInv ==
  TypeOK /\ EndedForGood /\ ResultsBehindIndex /\ Finalizing /\ Stored /\ Keys

USE DEF os, asked, files, Goes

-----------------------------------------------------------------------------
\* Numbers of tests.
LEMMA Counts ==
  ASSUME NEW S \in SUBSET Tests
  PROVE  /\ IsFiniteSet(S) /\ Cardinality(S) \in 0..Cardinality(Tests)
         /\ \A O : Count(S, O) \in 0..Cardinality(Tests)
<1>1. ASSUME NEW T \in SUBSET Tests
      PROVE  IsFiniteSet(T) /\ Cardinality(T) \in 0..Cardinality(Tests)
  <2>1. IsFiniteSet(Tests)
    BY TestsOK
  <2>2. IsFiniteSet(T) /\ Cardinality(T) <= Cardinality(Tests)
    BY <2>1, FS_Subset
  <2> QED BY <2>1, <2>2, FS_CardinalityType
<1>2. \A O : {t \in S : result[t] \in O} \in SUBSET Tests
  OBVIOUS
<1> QED BY <1>1, <1>2 DEF Count

LEMMA PassedOrSkipped ==
  ASSUME NEW S \in SUBSET Tests, result \in [Tests -> Outcomes]
  PROVE  Count(S, Outcomes \ Failing)
           = Count(S, {"passed"}) + Count(S, {"skipped"})
<1> DEFINE P == {t \in S : result[t] \in {"passed"}}
           K == {t \in S : result[t] \in {"skipped"}}
<1>1. {t \in S : result[t] \in Outcomes \ Failing} = P \cup K
  BY DEF Outcomes, Failing
<1>2. P \cap K = {}
  OBVIOUS
<1>3. IsFiniteSet(P) /\ IsFiniteSet(K)
  BY Counts
<1>4. Cardinality(P \cup K) =
        Cardinality(P) + Cardinality(K) - Cardinality(P \cap K)
  BY <1>3, FS_Union
<1>5. Cardinality(P \cap K) = 0
  BY <1>2, FS_EmptySet
<1>6. Cardinality(P) \in Nat /\ Cardinality(K) \in Nat
  BY <1>3, FS_CardinalityType
<1> QED BY <1>1, <1>4, <1>5, <1>6 DEF Count

LEMMA TestsOfType ==
  ASSUME NEW p \in Tags PROVE TestsOf(p) \subseteq Tests
BY DEF TestsOf

LEMMA InitInv == Init => IInv
<1> SUFFICES ASSUME Init PROVE IInv
  OBVIOUS
<1>1. procs \subseteq Tags /\ procs \in {Files, {Whole}}
  BY DEF Init, Tags
<1>2. TypeOK
  <2>1. 0 \in 0..Cardinality(Tests)
    BY TestsOK, FS_CardinalityType
  <2>2. db \in [tests : 0..Cardinality(Tests), passed : 0..Cardinality(Tests)]
    BY <2>1 DEF Init, None
  <2>3. /\ command \in BOOLEAN /\ first \in Tags
        /\ result \in [Tests -> Outcomes] /\ procs \in {Files, {Whole}}
    BY DEF Init, Tags
  <2>4. /\ proc \in [Tags -> {"none", "live", "ended", "killed", "late"}]
        /\ junit \in [Tags -> {"none", "torn", "good"}]
    BY DEF Init
  <2> QED BY <2>2, <2>3, <2>4 DEF Init, TypeOK
<1>3. EndedForGood /\ ResultsBehindIndex /\ Stored
  BY DEF Init, EndedForGood, ResultsBehindIndex, Stored
<1>4. Finalizing
  BY DEF Init, Finalizing, AfterMerge, AfterJson, AfterSplit, Finalized
<1>5. Keys
  BY DEF Init, Keys
<1> QED BY <1>2, <1>3, <1>4, <1>5 DEF IInv

\* The XML of an ended process stays: whoever gave a result keeps it.
LEMMA GoodStays ==
  ASSUME IInv, UNCHANGED procs,
         \A p \in procs : junit'[p] # junit[p] => proc[p] = "live"
  PROVE  Good \subseteq Good' /\ WithResult \subseteq WithResult'
<1>1. procs \subseteq Tags
  BY DEF IInv, TypeOK, Tags
<1>2. Good \subseteq Good'
  BY <1>1 DEF Good, IInv, EndedForGood
<1> QED BY <1>2 DEF WithResult, TestsOf

-----------------------------------------------------------------------------
LEMMA ProcessInv ==
  ASSUME IInv, NEW p \in Tags, Process(p)
  PROVE  IInv'
<1> USE DEF IInv
<1>1. /\ proc[p] = "live" /\ \E s \in {"ended", "killed"} :
                               proc' = [proc EXCEPT ![p] = s]
      /\ \E x \in {"none", "torn", "good"} : junit' = [junit EXCEPT ![p] = x]
      /\ UNCHANGED <<asked, pc, toVisit, completed, files, status, db>>
  BY DEF Process, Ends, Killed
<1>2. TypeOK'
  BY <1>1 DEF TypeOK
<1>3. EndedForGood'
  BY <1>1 DEF TypeOK, EndedForGood
<1>4. Good \subseteq Good' /\ WithResult \subseteq WithResult'
  BY <1>1, GoodStays DEF TypeOK
<1>5. ResultsBehindIndex'
  <2>1. \A q \in completed \cap Good' : q \in Good
    BY <1>1 DEF Good, EndedForGood, TypeOK
  <2> QED BY <1>1, <1>4, <2>1 DEF ResultsBehindIndex, WithResult, TestsOf
<1>6. Finalizing' /\ Stored'
  <2>1. pc \notin {"round", "visit"} => UNCHANGED <<Good, WithResult>>
    BY <1>1 DEF EndedForGood, Good, WithResult, TestsOf, TypeOK
  <2> QED BY <1>1, <2>1 DEF Finalizing, Stored, AfterMerge, AfterJson,
                            AfterSplit, Finalized, Count
<1>7. Keys'
  BY <1>1 DEF Keys, TypeOK
<1> QED BY <1>2, <1>3, <1>5, <1>6, <1>7

-----------------------------------------------------------------------------
\* A report of a file is on disk before the index and the summary name it.
LEMMA ReportFileFacts ==
  ASSUME IInv, NEW p \in procs, NEW key \in Tags, ReportFile(p, key)
  PROVE  /\ split \subseteq split' /\ split' \subseteq Tests
         /\ index' \subseteq Tests /\ disk \subseteq disk'
         /\ disk' \subseteq Kinds
         /\ summaries \subseteq summaries' /\ summaries' \subseteq Tags
         /\ index' \subseteq split' \cap WithResult
         /\ p \in Good => key \in summaries' /\ TestsOf(p) \subseteq split'
<1> USE DEF IInv, TypeOK
<1>1. p \in Tags /\ TestsOf(p) \subseteq Tests
  BY DEF Tags, TestsOf
<1>2. CASE junit[p] = "good"
  <2>1. p \in Good /\ TestsOf(p) \subseteq WithResult
    BY <1>2 DEF Good, WithResult
  <2> QED BY <1>1, <1>2, <2>1 DEF ReportFile, SplitTests, Kinds
<1>3. CASE junit[p] # "good"
  BY <1>3 DEF ReportFile, ResultsBehindIndex, Good, WithResult
<1> QED BY <1>2, <1>3

LEMMA VisitInv ==
  ASSUME IInv, NEW p \in Tags, Visit(p)
  PROVE  IInv'
<1> USE DEF IInv
<1>1. /\ pc = "visit" /\ p \in procs /\ toVisit' = toVisit \ {p}
      /\ UNCHANGED <<asked, os, pc, merged, json, status, db, Good>>
  BY DEF Visit, TypeOK, Good
<1>2. CASE proc[p] # "live" /\ p \notin completed /\ ~command
  <2>1. completed' = completed \cup {p} /\ ReportFile(p, p)
    BY <1>2 DEF Visit
  <2>2. /\ split \subseteq split' /\ split' \subseteq Tests
        /\ index' \subseteq Tests /\ disk' \subseteq Kinds
        /\ summaries \subseteq summaries' /\ summaries' \subseteq Tags
        /\ index' \subseteq split' \cap WithResult
        /\ p \in Good => p \in summaries' /\ TestsOf(p) \subseteq split'
    BY <1>1, <2>1, ReportFileFacts
  <2>3. TypeOK'
    BY <1>1, <2>1, <2>2 DEF TypeOK
  <2>4. EndedForGood'
    BY <1>1, <1>2, <2>1 DEF EndedForGood
  <2>5. ResultsBehindIndex'
    BY <1>1, <2>1, <2>2 DEF ResultsBehindIndex, WithResult, TestsOf
  <2>6. Finalizing' /\ Stored'
    BY <1>1, <1>2 DEF Finalizing, Stored, AfterMerge, AfterJson, AfterSplit,
                      Finalized
  <2>7. Keys'
    BY <1>1, <1>2 DEF Keys
  <2> QED BY <2>3, <2>4, <2>5, <2>6, <2>7
<1>3. CASE UNCHANGED <<completed, summaries, split, index, disk>>
  BY <1>1, <1>3 DEF Keys, TypeOK, EndedForGood, ResultsBehindIndex, TestsOf,
     Finalizing, Stored, AfterMerge, AfterJson, AfterSplit, Finalized, Count,
     WithResult
<1> QED BY <1>2, <1>3 DEF Visit

LEMMA LoopInv ==
  ASSUME IInv, Round \/ LeaveLoop \/ NextRound \/ TimeUp
  PROVE  IInv'
<1> USE DEF IInv
<1>1. /\ UNCHANGED <<asked, completed, files, status, db>>
      /\ pc \in {"round", "visit"} /\ pc' \in {"round", "visit", "left"}
      /\ toVisit' \subseteq procs
  BY DEF Round, LeaveLoop, NextRound, TimeUp, TypeOK
<1>2. /\ proc' \in [Tags -> {"none", "live", "ended", "killed", "late"}]
      /\ junit' \in [Tags -> {"none", "torn", "good"}] /\ EndedForGood'
      /\ \A p \in Tags : junit'[p] # junit[p] => proc[p] = "live"
      /\ \A p \in Tags : proc[p] # "live" => proc'[p] = proc[p]
  <2>1. CASE TimeUp
    <3>1. \A p \in Tags : /\ proc'[p] # "live"
                          /\ proc[p] # "live" => proc'[p] = proc[p]
      BY <2>1 DEF TimeUp
    <3>2. /\ proc' \in [Tags -> {"none", "live", "ended", "killed", "late"}]
          /\ junit' \in [Tags -> {"none", "torn", "good"}]
          /\ \A p \in Tags : junit'[p] # junit[p] => proc[p] = "live"
      <4>1. {p \in procs : proc[p] = "live"} \subseteq Tags
        BY DEF TypeOK, Tags
      <4> QED BY <2>1, <4>1 DEF TimeUp, TypeOK
    <3>3. procs \subseteq Tags
      BY DEF TypeOK, Tags
    <3> QED BY <1>1, <3>1, <3>2, <3>3 DEF EndedForGood, TypeOK
  <2>2. CASE Round \/ LeaveLoop \/ NextRound
    BY <2>2 DEF Round, LeaveLoop, NextRound, TypeOK, EndedForGood
  <2> QED BY <2>1, <2>2
<1>3. Good \subseteq Good' /\ WithResult \subseteq WithResult'
  <2>1. procs \subseteq Tags
    BY DEF TypeOK, Tags
  <2> QED BY <1>1, <1>2, <2>1, GoodStays
<1>4. TypeOK'
  BY <1>1, <1>2 DEF TypeOK
<1>5. ResultsBehindIndex'
  <2>1. \A p \in completed \cap Good' : p \in Good
    BY <1>1, <1>2 DEF Good, EndedForGood, TypeOK, Tags
  <2> QED BY <1>1, <1>3, <2>1 DEF ResultsBehindIndex, WithResult, TestsOf
<1>6. Finalizing' /\ Stored'
  BY <1>1 DEF Finalizing, Stored, AfterMerge, AfterJson, AfterSplit, Finalized
<1>7. Keys'
  BY <1>1, <1>2 DEF Keys
<1> QED BY <1>2, <1>4, <1>5, <1>6, <1>7

-----------------------------------------------------------------------------
\* The end of the run.
LEMMA EndInv ==
  ASSUME IInv, CommitStatus \/ CommandFile
  PROVE  IInv'
<1> USE DEF IInv
<1>1. CASE CommitStatus
  <2>1. /\ UNCHANGED <<asked, os, toVisit, completed, files, db, Good>>
        /\ pc = "left" /\ pc' \in {"over", "file", "merge"}
        /\ status' \in {"cancelled", "failed", "completed"}
        /\ pc' = "over" <=> status' = "cancelled"
        /\ pc' = "file" => command
    BY <1>1 DEF CommitStatus, EndStatus, Cancelled, Good
  <2>2. TypeOK'
    BY <2>1 DEF TypeOK
  <2>3. EndedForGood' /\ ResultsBehindIndex'
    BY <2>1 DEF EndedForGood, ResultsBehindIndex, TestsOf
  <2>4. Finalizing' /\ Stored'
    BY <2>1 DEF Finalizing, Stored, AfterMerge, AfterJson, AfterSplit,
                Finalized
  <2>5. Keys'
    BY <2>1 DEF Keys
  <2> QED BY <2>2, <2>3, <2>4, <2>5
<1>2. CASE CommandFile
  <2>1. /\ UNCHANGED <<asked, os, toVisit, completed, merged, json, status, db,
                       Good>>
        /\ pc = "file" /\ pc' = "merge" /\ ReportFile(Whole, first)
    BY <1>2 DEF CommandFile, Good
  <2>2. Whole \in procs /\ first \in Tags
    BY <2>1 DEF Finalizing, TypeOK
  <2>3. /\ split \subseteq split' /\ split' \subseteq Tests
        /\ index' \subseteq Tests /\ disk' \subseteq Kinds
        /\ summaries \subseteq summaries' /\ summaries' \subseteq Tags
        /\ index' \subseteq split' \cap WithResult
    BY <2>1, <2>2, ReportFileFacts
  <2>4. TypeOK'
    BY <2>1, <2>3 DEF TypeOK
  <2>5. EndedForGood' /\ ResultsBehindIndex'
    BY <2>1, <2>3 DEF EndedForGood, ResultsBehindIndex, WithResult, TestsOf
  <2>6. Finalizing' /\ Stored'
    BY <2>1 DEF Finalizing, Stored, AfterMerge, AfterJson, AfterSplit,
                Finalized
  <2>7. Keys'
    BY <2>1 DEF Keys, ReportFile
  <2> QED BY <2>4, <2>5, <2>6, <2>7
<1> QED BY <1>1, <1>2

\* The finalization: each step finds what the steps before it have made.
LEMMA FinalInv ==
  ASSUME IInv, Merge \/ WriteJson \/ SplitAll \/ WriteHtml
  PROVE  IInv'
<1> USE DEF IInv
<1>1. /\ UNCHANGED <<asked, os, toVisit, completed, status, db, Good,
                     WithResult>>
      /\ WithResult \subseteq Tests
  BY DEF Merge, WriteJson, SplitAll, WriteHtml, Good, WithResult, TestsOf
<1>2. Keys'
  BY DEF Keys, Merge, WriteJson, SplitAll, WriteHtml
<1>3. CASE Merge
  <2>1. merged' = WithResult
    BY <1>3 DEF Merge, Readable, WithResult, Good
  <2> QED BY <1>1, <1>3, <1>2, <2>1 DEF Merge, TypeOK, Kinds, EndedForGood,
          ResultsBehindIndex, TestsOf, Finalizing, AfterMerge, AfterJson,
          AfterSplit, Stored, Finalized
<1>4. CASE WriteJson
  BY <1>1, <1>4, <1>2 DEF WriteJson, TypeOK, Kinds, EndedForGood,
     ResultsBehindIndex, TestsOf, Finalizing, AfterMerge, AfterJson,
     AfterSplit, Stored, Finalized
<1>5. CASE SplitAll
  <2>1. merged = WithResult
    BY <1>5 DEF SplitAll, Finalizing, AfterMerge
  <2>2. /\ split' = split \cup merged /\ index' = merged
        /\ disk' = disk \cup {"per_test"} /\ pc = "split" /\ pc' = "html"
        /\ UNCHANGED <<summaries, merged, json>>
    BY <1>5 DEF SplitAll, SplitTests
  <2>3. TypeOK'
    BY <1>1, <2>2 DEF TypeOK, Kinds
  <2>4. EndedForGood' /\ ResultsBehindIndex'
    BY <1>1, <2>1, <2>2 DEF EndedForGood, ResultsBehindIndex, WithResult,
                            TestsOf
  <2>5. Finalizing' /\ Stored'
    BY <1>1, <2>1, <2>2 DEF Finalizing, AfterMerge, AfterJson, AfterSplit,
                            Stored, Finalized
  <2> QED BY <1>2, <2>3, <2>4, <2>5
<1>6. CASE WriteHtml
  <2>1. /\ pc = "html" /\ disk' = disk \cup {"html"}
        /\ pc' = IF command /\ status = "completed" THEN "generate" ELSE "over"
        /\ UNCHANGED <<summaries, split, index, merged, json>>
    BY <1>6 DEF WriteHtml
  <2> QED BY <1>1, <1>2, <2>1 DEF TypeOK, Kinds, EndedForGood,
          ResultsBehindIndex, TestsOf, Finalizing, AfterMerge, AfterJson,
          AfterSplit, Stored, Finalized
<1> QED BY <1>3, <1>4, <1>5, <1>6

LEMMA GenerateInv ==
  ASSUME IInv, Generate \/ GenerateFails
  PROVE  IInv'
<1> USE DEF IInv
<1>1. /\ UNCHANGED <<asked, os, toVisit, completed, files, status, Good,
                     WithResult>>
      /\ pc = "generate" /\ pc' = "over" /\ Finalized'
  BY DEF Generate, GenerateFails, Good, WithResult, TestsOf, Finalized,
         Finalizing
<1>2. /\ db' \in [tests : 0..Cardinality(Tests),
                 passed : 0..Cardinality(Tests)]
      /\ Stored'
  <2>1. CASE GenerateFails
    BY <1>1, <2>1 DEF GenerateFails, TypeOK, Stored, Finalized
  <2>2. CASE Generate
    <3>1. json = merged /\ merged \in SUBSET Tests
      BY <1>1 DEF Finalizing, AfterJson, TypeOK
    <3>2. db' = [tests |-> Cardinality(merged),
                 passed |-> Count(merged, Outcomes \ Failing)]
      BY <2>2 DEF Generate
    <3>3. Cardinality(merged) \in 0..Cardinality(Tests)
      BY <3>1, Counts
    <3>4. Count(merged, Outcomes \ Failing) \in 0..Cardinality(Tests)
      BY <3>1, Counts
    <3>5. Count(merged, Outcomes \ Failing)
            = Count(json, {"passed"}) + Count(json, {"skipped"})
      BY <3>1, PassedOrSkipped DEF TypeOK
    <3> QED BY <1>1, <3>1, <3>2, <3>3, <3>4, <3>5 DEF Stored, Finalizing, Count
  <2> QED BY <2>1, <2>2
<1>3. TypeOK'
  BY <1>1, <1>2 DEF TypeOK
<1>4. EndedForGood' /\ ResultsBehindIndex'
  BY <1>1 DEF EndedForGood, ResultsBehindIndex, TestsOf
<1>5. Finalizing'
  BY <1>1 DEF Finalizing, AfterMerge, AfterJson, AfterSplit, Finalized
<1>6. Keys'
  BY <1>1 DEF Keys
<1> QED BY <1>2, <1>3, <1>4, <1>5, <1>6

LEMMA Step == IInv /\ [Next]_vars => IInv'
<1> SUFFICES ASSUME IInv, [Next]_vars PROVE IInv'
  OBVIOUS
<1>1. CASE \E p \in Tags : Process(p) \/ Visit(p)
  BY <1>1, ProcessInv, VisitInv
<1>2. CASE Round \/ LeaveLoop \/ NextRound \/ TimeUp
  BY <1>2, LoopInv
<1>3. CASE CommitStatus \/ CommandFile
  BY <1>3, EndInv
<1>4. CASE Merge \/ WriteJson \/ SplitAll \/ WriteHtml
  BY <1>4, FinalInv
<1>5. CASE Generate \/ GenerateFails
  BY <1>5, GenerateInv
<1>6. CASE UNCHANGED vars
  BY <1>6 DEF vars, IInv, TypeOK, EndedForGood, ResultsBehindIndex, TestsOf,
              Good, WithResult, Finalizing, AfterMerge, AfterJson, AfterSplit,
              Stored, Finalized, Count, Keys
<1> QED BY <1>1, <1>2, <1>3, <1>4, <1>5, <1>6 DEF Next

-----------------------------------------------------------------------------
THEOREM Invariance == Spec => []IInv
  BY InitInv, Step, PTL DEF Spec

\* Type correctness.
THEOREM TypeCorrect == Spec => []TypeOK
<1>1. IInv => TypeOK
  BY DEF IInv
<1> QED BY <1>1, Invariance, PTL

\* The index of the per-test reports names only results that are on disk,
\* at every moment of the run (_split_per_test_reports).
THEOREM IndexIsBehind == Spec => []ResultsBehindIndex
<1>1. IInv => ResultsBehindIndex
  BY DEF IInv
<1> QED BY <1>1, Invariance, PTL

\* What the steps of the finalization leave.
LEMMA AtTheEnd ==
  ASSUME IInv, Finalized
  PROVE  /\ merged = WithResult /\ json = merged /\ index = merged
         /\ merged \subseteq split /\ Kinds \subseteq disk
BY DEF IInv, Finalizing, AfterMerge, AfterJson, AfterSplit, Kinds

\* All reports of a finished run list the same tests, and the totals in the
\* database are theirs (_finalize_reports, generate_all_reports).
THEOREM ReportsAgree == Spec => []FinalReportsAgree
<1>1. IInv => FinalReportsAgree
  <2> SUFFICES ASSUME IInv, Finalized PROVE FinalReportsAgree
    BY DEF FinalReportsAgree
  <2> QED BY AtTheEnd DEF IInv, Stored, FinalReportsAgree, WithResult, Listed,
                          JsonPassed
<1> QED BY <1>1, Invariance, PTL

\* A test that gave a result, and is no case of a parametrised function, is
\* found by its name in the reports of tests and of suites of the finished run,
\* and alone if its name is its own (get_test_report, get_suite_report).
THEOREM TestsAreFound == Spec => []TestAnswersRight
<1>1. IInv => TestAnswersRight
  <2> SUFFICES
        ASSUME IInv, Finalized, NEW t \in WithResult \ Parametrized
        PROVE  /\ Answers(t) # {} /\ InSuite(t)
               /\ (\A u \in Tests \ Parametrized : Name[u] = Name[t] => u = t)
                    => Answers(t) = {t}
    BY DEF TestAnswersRight, WithResult
  <2>1. index \subseteq Tests
    BY DEF IInv, TypeOK
  <2>2. t \in index /\ t \in split
    BY AtTheEnd
  <2>3. t \in Answers(t)
    BY <2>2 DEF Answers
  <2> QED BY <2>1, <2>2, <2>3 DEF Answers, InSuite
<1> QED BY <1>1, Invariance, PTL

\* The report of a file has the tests of the file, and others only by the
\* comparison of paths; what a missing summary costs are the methods of
\* classes (get_file_report).
THEOREM FilesAreAnswered == Spec => []FileAnswersRight
<1>1. IInv => FileAnswersRight
  <2> SUFFICES
        ASSUME IInv, Finalized, NEW f \in Files
        PROVE  /\ junit[f] = "good" \/ (junit[Whole] = "good" /\ f # first)
                    => TestsOf(f) \ Methods \subseteq FileAnswer(f)
               /\ f \in summaries /\ ~command => FileAnswer(f) = TestsOf(f)
               /\ f # first => \A t \in FileAnswer(f) :
                                File[t] = f \/ <<f, File[t]>> \in Within
    BY DEF FileAnswersRight
  <2>1. f \in Tags /\ Whole \in Tags /\ f # Whole
    BY TestsOK DEF Tags
  <2>2. TestsOf(f) = {t \in Tests : File[t] = f} /\ TestsOf(Whole) = Tests
    BY <2>1 DEF TestsOf
  <2>3. ASSUME NEW p \in Tags, junit[p] = "good"
        PROVE  TestsOf(p) \subseteq index \cap split
    <3>1. p \in Good
      BY <2>3 DEF IInv, Keys, Good
    <3> QED BY <3>1, AtTheEnd DEF WithResult
  <2>4. ASSUME junit[f] = "good" \/ junit[Whole] = "good"
        PROVE  TestsOf(f) \ Methods \subseteq FileAnswer(f)
    <3>1. TestsOf(f) \subseteq index \cap split
      BY <2>1, <2>2, <2>3, <2>4
    <3> QED BY <2>2, <3>1 DEF FileAnswer
  <2>5. f # first /\ f \in summaries => ~command
    BY DEF IInv, Keys
  <2>6. f # first => \A t \in FileAnswer(f) :
                       File[t] = f \/ <<f, File[t]>> \in Within
    BY <2>2, <2>5 DEF FileAnswer
  <2> QED BY <2>4, <2>6 DEF FileAnswer
<1> QED BY <1>1, Invariance, PTL
=============================================================================
