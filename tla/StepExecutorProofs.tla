------------------------- MODULE StepExecutorProofs -------------------------
(***************************************************************************)
(* Proofs about StepExecutor, for any number of editors and requests and   *)
(* any lists of policies: the tests start only after the setup, the status *)
(* of a phase says what its steps did, and no phase loads a part of a      *)
(* list; for one editor, what it loads is one list.                        *)
(*                                                                         *)
(* What a phase has loaded and run is related only by where the phase is,  *)
(* so that the invariant speaks of each stretch of it: Fresh until it      *)
(* begins, Working while it runs, SetupDone from the end of the setup on.  *)
(* The rows that a request inserts and deletes in one transaction are      *)
(* always whole lists (Sent); with one editor nothing is written between   *)
(* its read and its write, so that a table has one list (Edited).          *)
(***************************************************************************)
EXTENDS StepExecutor, TLAPS

\* The steps of one phase: those that ran come before those that remain, and
\* only the last that ran can have ended the phase.
Working ==
  pc \in {"next", "step", "end"} =>
    /\ phaseStatus[phase] = "running"
    /\ bad[phase] \subseteq ran[phase] /\ ran[phase] \subseteq loaded[phase]
    /\ allPassed = ~FatalFailure(phase)
    /\ pc # "end" =>
         allPassed /\ \A t \in ran[phase], u \in Remaining : t.order <= u.order
    /\ pc = "step" =>
         step \in Remaining /\ \A u \in Remaining : step.order <= u.order
    /\ pc = "end" =>
         \E s \in bad[phase] : /\ s.policy = "fail"
                               /\ \A t \in ran[phase] : t.order <= s.order

Untouched(p) ==
  ran[p] = {} /\ bad[p] = {} /\ phaseStatus[p] = "none"

Fresh ==
  /\ phase = "setup" => Untouched("teardown") /\ loaded["teardown"] = {}
  /\ pc \in {"enter", "load", "begin"} => Untouched(phase)
  /\ pc \in {"enter", "load"} => loaded[phase] = {}

SetupDone ==
  /\ pc \in {"capture", "tests"} => phase = "setup"
  /\ phase = "setup" /\ pc \notin {"tests", "raised"} => tests = "none"
  /\ phase = "teardown" \/ pc \in {"capture", "tests"} \/ tests # "none"
       => ran["setup"] = loaded["setup"] /\ ~FatalFailure("setup")

List(n) == NewRows(n, sent[n])

\* Rows that were sent, and with each of them all that were sent with it.
Complete(S) ==
  \A s \in S :
    s.by \in DOMAIN sent /\ s \in List(s.by) /\ List(s.by) \subseteq S

\* What anybody sees of a list is the whole list.
Sent ==
  /\ \A p \in Phases : Complete(table[p]) /\ Complete(loaded[p])
  /\ \A e \in Editors : Complete(old[e])

\* One request on existing configurations at a time.
OneEditor == \A e, f \in Editors : e = f

OneList(S) == \E n \in DOMAIN sent : S = List(n)

\* With one editor: its read is still true when it writes.
Edited ==
  /\ \A p \in Phases : IF config[p] = "there" THEN OneList(table[p])
                       ELSE table[p] = {}
  /\ \A e \in Editors, p \in Phases :
       epc[e] = p => config[p] = "there" /\ old[e] = table[p]

Chosen ==
  /\ \A p \in Phases : loaded[p] # {} => OneList(loaded[p])
  /\ pc \in {"load", "begin", "next", "step"} => config[phase] # "none"
  /\ pc \in {"begin", "next", "step"} /\ config[phase] = "there" =>
       OneList(loaded[phase])

IInv ==
  TypeOK /\ Sent /\ Working /\ Fresh /\ SetupDone /\ StatusTellsResults

USE DEF tables, editors, execution, task, Goes

-----------------------------------------------------------------------------
LEMMA InitInv == Init => IInv
<1> SUFFICES ASSUME Init PROVE IInv
  OBVIOUS
<1> USE DEF Init, Phases
<1>1. NoStep \in Row
  BY DEF NoStep, Row, Policies
<1>2. TypeOK
  BY <1>1 DEF TypeOK
<1>3. Sent /\ Working /\ Fresh /\ SetupDone /\ StatusTellsResults
  BY DEF Sent, Complete, Working, Fresh, Untouched, SetupDone,
         StatusTellsResults, FatalFailure
<1> QED BY <1>2, <1>3 DEF IInv

\* The rows of a request are rows, numbered by it.
LEMMA NewRowsType ==
  ASSUME NEW n \in Nat \ {0}, NEW policies \in Seq(Policies)
  PROVE  /\ NewRows(n, policies) \subseteq Row
         /\ \A s \in NewRows(n, policies) : s.by = n
BY DEF NewRows, Row

\* The lists that were sent stay what they are.
LEMMA SentStays ==
  ASSUME sent \in Seq(Seq(Policies)),
         UNCHANGED sent \/ \E x \in Seq(Policies) : sent' = Append(sent, x)
  PROVE  /\ \A n \in DOMAIN sent : n \in DOMAIN sent' /\ List(n)' = List(n)
         /\ \A S : Complete(S) => Complete(S)'
<1>1. \A n \in DOMAIN sent : n \in DOMAIN sent' /\ sent'[n] = sent[n]
  <2>1. ASSUME NEW x \in Seq(Policies), sent' = Append(sent, x)
        PROVE  <1>1!:
    BY <2>1
  <2> QED BY <2>1
<1>2. \A n \in DOMAIN sent : List(n)' = List(n)
  BY <1>1 DEF List
<1> QED BY <1>1, <1>2 DEF Complete

\* A phase loads what is in the table.
LEMMA SentKept ==
  ASSUME Sent, UNCHANGED <<sent, table, old>>,
         \A p \in Phases : loaded'[p] \in {loaded[p], table[p]}
  PROVE  Sent'
BY DEF Sent, Complete, List

\* Requests write whole lists and leave the run alone.
LEMMA WriteInv ==
  ASSUME IInv, NEW p \in Phases, NEW deleted, Complete(deleted),
         Write(p, deleted)
  PROVE  /\ \E x \in Seq(Policies) : sent' = Append(sent, x)
         /\ sent' \in Seq(Seq(Policies)) /\ Len(sent') \in DOMAIN sent'
         /\ table' \in [Phases -> SUBSET Row]
         /\ \A q \in Phases : Complete(table[q])'
         /\ table' = [table EXCEPT ![p] = (@ \ deleted) \cup List(Len(sent))']
<1>1. PICK policies \in Lists :
        /\ sent' = Append(sent, policies)
        /\ table' = [table EXCEPT
             ![p] = (@ \ deleted) \cup NewRows(Len(sent'), policies)]
  BY DEF Write
<1>2. policies \in Seq(Policies) /\ sent \in Seq(Seq(Policies))
  BY ListsOK DEF IInv, TypeOK
<1> DEFINE n == Len(sent')
<1>3. /\ sent' \in Seq(Seq(Policies)) /\ n \in Nat \ {0}
      /\ n \in DOMAIN sent' /\ n \notin DOMAIN sent /\ sent'[n] = policies
  BY <1>1, <1>2
<1>4. /\ NewRows(n, policies) \subseteq Row
      /\ \A s \in NewRows(n, policies) : s.by = n
      /\ List(Len(sent))' = NewRows(n, policies)
  BY <1>2, <1>3, NewRowsType DEF List
<1> HIDE DEF n
<1>5. /\ Complete(deleted)' /\ \A q \in Phases : Complete(table[q])
      /\ \A S : Complete(S) => Complete(S)'
  BY <1>1, <1>2, SentStays DEF IInv, Sent
<1>6. ASSUME NEW S, S = (table[p] \ deleted) \cup NewRows(n, policies)
      PROVE  Complete(S)'
  <2>1. \A s \in S : \/ s \in table[p] \ deleted /\ s.by \in DOMAIN sent
                     \/ s \in NewRows(n, policies) /\ s.by = n
    BY <1>4, <1>5, <1>6 DEF Complete
  <2>2. \A k \in DOMAIN sent : k \in DOMAIN sent' /\ List(k)' = List(k)
    BY <1>1, <1>2, SentStays
  <2>3. \A k : k = n => List(k)' = NewRows(n, policies)
    BY <1>3 DEF List
  <2>4. ASSUME NEW s \in table[p] \ deleted
        PROVE  List(s.by) \subseteq table[p] \ deleted /\ s \in List(s.by)
    <3>1. \A t \in List(s.by) : t.by = s.by
      BY DEF List, NewRows
    <3> QED BY <1>5, <3>1, SentStays DEF Complete, IInv, Sent
  <2> QED BY <1>3, <1>6, <2>1, <2>2, <2>3, <2>4 DEF Complete
<1>7. \A q \in Phases : Complete(table[q])'
  BY <1>1, <1>5, <1>6 DEF IInv, TypeOK, n
<1> QED BY <1>1, <1>2, <1>3, <1>4, <1>7 DEF IInv, TypeOK, n

LEMMA EditInv ==
  ASSUME IInv, NEW p \in Phases,
         \/ CreateConfig(p)
         \/ \E e \in Editors : EditLoad(e, p) \/ Edit(e, p)
  PROVE  IInv'
<1>1. UNCHANGED task
  BY DEF CreateConfig, EditLoad, Edit, ReplaceSteps, DeleteConfig, EditNothing
<1>2. Working' /\ Fresh' /\ SetupDone' /\ StatusTellsResults'
  BY <1>1 DEF IInv, Working, Fresh, Untouched, SetupDone, StatusTellsResults,
              FatalFailure, Remaining
<1>3. Complete({})
  BY DEF Complete
<1>4. TypeOK'
  <2>1. CASE CreateConfig(p)
    BY <2>1, <1>1, <1>3, WriteInv DEF CreateConfig, IInv, TypeOK
  <2>2. ASSUME NEW e \in Editors, EditLoad(e, p) \/ Edit(e, p)
        PROVE  TypeOK'
    <3>1. CASE EditLoad(e, p)
      BY <3>1, <1>1 DEF EditLoad, IInv, TypeOK
    <3>2. CASE ReplaceSteps(e, p)
      <4>1. Complete(old[e])
        BY DEF IInv, Sent
      <4> QED BY <3>2, <4>1, <1>1, WriteInv
              DEF ReplaceSteps, EditDone, IInv, TypeOK
    <3>3. CASE DeleteConfig(e, p)
      BY <3>3, <1>1 DEF DeleteConfig, EditDone, IInv, TypeOK
    <3>4. CASE EditNothing(e)
      BY <3>4, <1>1 DEF EditNothing, EditDone, IInv, TypeOK
    <3> QED BY <2>2, <3>1, <3>2, <3>3, <3>4 DEF Edit
  <2> QED BY <2>1, <2>2
<1>5. Sent'
  <2>1. ASSUME NEW deleted, Complete(deleted), Write(p, deleted),
               \A e \in Editors : old'[e] \in {old[e], {}}
        PROVE  Sent'
    <3>1. /\ \A q \in Phases : Complete(table[q])'
          /\ \A S : Complete(S) => Complete(S)'
      BY <2>1, WriteInv, SentStays DEF IInv, TypeOK
    <3>2. \A q \in Phases : Complete(loaded[q])'
      BY <1>1, <3>1 DEF IInv, Sent
    <3>3. \A e \in Editors : Complete(old[e])'
      BY <1>3, <2>1, <3>1 DEF IInv, Sent
    <3> QED BY <3>1, <3>2, <3>3 DEF Sent
  <2>2. CASE CreateConfig(p)
    BY <1>3, <2>1, <2>2 DEF CreateConfig
  <2>3. ASSUME NEW e \in Editors, EditLoad(e, p) \/ Edit(e, p)
        PROVE  Sent'
    <3>1. CASE EditLoad(e, p) \/ EditNothing(e)
      BY <1>1, <3>1 DEF EditLoad, EditNothing, EditDone, IInv, TypeOK, Sent,
                        Complete, List
    <3>2. CASE ReplaceSteps(e, p)
      BY <2>1, <3>2 DEF ReplaceSteps, EditDone, IInv, TypeOK, Sent
    <3>3. CASE DeleteConfig(e, p)
      <4>1. /\ UNCHANGED <<sent, loaded>>
            /\ table' = [table EXCEPT ![p] = @ \ old[e]]
            /\ old' = [old EXCEPT ![e] = {}]
        BY <1>1, <3>3 DEF DeleteConfig, EditDone
      <4>2. ASSUME NEW S, S = table[p] \ old[e]
            PROVE  Complete(S)
        <5>1. \A n : \A t \in List(n) : t.by = n
          BY DEF List, NewRows
        <5> QED BY <4>2, <5>1 DEF IInv, Sent, Complete
      <4>3. \A S : Complete(S) => Complete(S)'
        BY <4>1, SentStays DEF IInv, TypeOK
      <4> QED BY <1>3, <4>1, <4>2, <4>3 DEF IInv, TypeOK, Sent
    <3> QED BY <2>3, <3>1, <3>2, <3>3 DEF Edit
  <2> QED BY <2>2, <2>3
<1> QED BY <1>2, <1>4, <1>5 DEF IInv

-----------------------------------------------------------------------------
\* Entering and leaving a phase.
LEMMA EnterInv ==
  ASSUME IInv, SkipPhase \/ LoadConfig \/ LoadSteps \/ BeginPhase
  PROVE  IInv'
<1> USE DEF IInv
<1>1. TypeOK'
  <2>1. CASE SkipPhase
    BY <2>1 DEF SkipPhase, Status, Leave, TypeOK, Phases
  <2>2. CASE LoadConfig
    BY <2>2 DEF LoadConfig, Leave, TypeOK
  <2>3. CASE LoadSteps
    BY <2>3 DEF LoadSteps, TypeOK
  <2>4. CASE BeginPhase
    BY <2>4 DEF BeginPhase, Status, TypeOK
  <2> QED BY <2>1, <2>2, <2>3, <2>4
<1>2. Working'
  BY DEF SkipPhase, LoadConfig, LoadSteps, BeginPhase, Status, Leave, TypeOK,
         Working, Fresh, Untouched, FatalFailure, Remaining, Phases
<1>3. Fresh'
  BY DEF SkipPhase, LoadConfig, LoadSteps, BeginPhase, Status, Leave, TypeOK,
         Fresh, Untouched, Phases
<1>4. SetupDone'
  BY DEF SkipPhase, LoadConfig, LoadSteps, BeginPhase, Status, Leave, TypeOK,
         Fresh, Untouched, SetupDone, FatalFailure, Phases
<1>5. StatusTellsResults'
  BY DEF SkipPhase, LoadConfig, LoadSteps, BeginPhase, Status, Leave, TypeOK,
         Fresh, Untouched, StatusTellsResults, FatalFailure, Phases
<1>6. Sent'
  <2>1. \A p \in Phases : loaded'[p] \in {loaded[p], table[p]}
    BY DEF SkipPhase, LoadConfig, LoadSteps, BeginPhase, TypeOK
  <2> QED BY <2>1, SentKept DEF SkipPhase, LoadConfig, LoadSteps, BeginPhase
<1> QED BY <1>1, <1>2, <1>3, <1>4, <1>5, <1>6

\* Running the steps.
LEMMA StepInv ==
  ASSUME IInv, StartStep \/ StepPasses \/ StepFails
  PROVE  IInv'
<1> USE DEF IInv
<1>1. TypeOK'
  <2>1. CASE StartStep
    <3>1. step' \in loaded[phase] /\ step' \in Row
      BY <2>1 DEF StartStep, Remaining, TypeOK
    <3>2. step' # NoStep
      BY <3>1 DEF NoStep, TypeOK, Sent, Complete
    <3> QED BY <2>1, <3>1, <3>2 DEF StartStep, TypeOK
  <2>2. CASE StepPasses \/ StepFails
    <3>1. NoStep \in Row
      BY DEF NoStep, Row, Policies
    <3>2. CASE StepPasses
      BY <3>1, <3>2 DEF StepPasses, EndStep, TypeOK
    <3>3. CASE StepFails
      BY <3>1, <3>3 DEF StepFails, EndStep, TypeOK
    <3> QED BY <2>2, <3>2, <3>3
  <2> QED BY <2>1, <2>2
<1>2. Working'
  <2>1. CASE StartStep
    BY <2>1 DEF StartStep, TypeOK, Working, FatalFailure, Remaining
  <2>2. CASE StepPasses
    BY <2>2 DEF StepPasses, EndStep, TypeOK, Working, FatalFailure, Remaining
  <2>3. CASE StepFails
    <3>1. /\ pc = "step" /\ step' = NoStep /\ pc' # "step"
          /\ pc' = IF step.policy = "fail" THEN "end" ELSE "next"
          /\ allPassed' = (allPassed /\ step.policy # "fail")
          /\ UNCHANGED <<phase, phaseStatus, loaded>>
      BY <2>3 DEF StepFails, EndStep
    <3>2. /\ ran'[phase] = ran[phase] \cup {step}
          /\ bad'[phase] = bad[phase] \cup {step}
      BY <2>3 DEF StepFails, EndStep, TypeOK
    <3>3. /\ phaseStatus[phase] = "running" /\ allPassed
          /\ bad[phase] \subseteq ran[phase]
          /\ ran[phase] \subseteq loaded[phase]
          /\ ~FatalFailure(phase)
          /\ step \in Remaining /\ \A u \in Remaining : step.order <= u.order
          /\ \A t \in ran[phase], u \in Remaining : t.order <= u.order
      BY <3>1 DEF Working
    <3>4. FatalFailure(phase)' <=> step.policy = "fail"
      BY <3>1, <3>2, <3>3 DEF FatalFailure
    <3>5. /\ Remaining' = Remaining \ {step}
          /\ \A t \in ran'[phase] : t \in ran[phase] \/ t = step
          /\ step \in Row
      BY <3>1, <3>2, <3>3 DEF Remaining, TypeOK
    <3>6. \A t \in ran'[phase] : t.order <= step.order
      BY <3>3, <3>5 DEF Row
    <3>7. \A t \in ran'[phase], u \in Remaining' : t.order <= u.order
      BY <3>3, <3>5
    <3>8. /\ bad'[phase] \subseteq ran'[phase]
          /\ ran'[phase] \subseteq loaded[phase]
      BY <3>2, <3>3 DEF Remaining
    <3> QED BY <3>1, <3>2, <3>3, <3>4, <3>6, <3>7, <3>8 DEF Working
  <2> QED BY <2>1, <2>2, <2>3
<1>3. Fresh' /\ SetupDone' /\ StatusTellsResults'
  BY DEF StartStep, StepPasses, StepFails, EndStep, TypeOK, Fresh, Untouched,
         SetupDone, StatusTellsResults, Working, FatalFailure, Phases
<1>4. Sent'
  BY SentKept DEF StartStep, StepPasses, StepFails, EndStep
<1> QED BY <1>1, <1>2, <1>3, <1>4

\* What comes after the steps.
LEMMA AfterInv ==
  ASSUME IInv, EndPhase \/ StartTests \/ TestsOver \/ Raises
  PROVE  IInv'
<1> USE DEF IInv
<1>1. TypeOK'
  <2>1. CASE EndPhase
    BY <2>1 DEF EndPhase, Status, Leave, TypeOK
  <2>2. CASE StartTests
    BY <2>2 DEF StartTests, TypeOK
  <2>3. CASE TestsOver
    BY <2>3 DEF TestsOver, TypeOK, Phases
  <2>4. CASE Raises
    BY <2>4 DEF Raises, TypeOK
  <2> QED BY <2>1, <2>2, <2>3, <2>4
<1>2. Working' /\ Fresh'
  BY DEF EndPhase, StartTests, TestsOver, Raises, Status, Leave, TypeOK,
         Working, Fresh, Untouched, SetupDone, FatalFailure, Remaining, Phases
<1>3. SetupDone'
  <2>1. CASE EndPhase
    <3>1. phase \in Phases /\ pc' \in {"over", "capture", "aborted"}
      BY <2>1 DEF EndPhase, Leave, TypeOK
    <3>2. allPassed => ran[phase] = loaded[phase] /\ ~FatalFailure(phase)
      BY <2>1 DEF EndPhase, Working, FatalFailure, Remaining
    <3>3. pc' = "capture" => allPassed /\ phase = "setup"
      BY <2>1, <3>1 DEF EndPhase, Leave, Phases
    <3> QED BY <2>1, <3>1, <3>2, <3>3
            DEF EndPhase, SetupDone, FatalFailure
  <2>2. CASE StartTests \/ TestsOver \/ Raises
    BY <2>2 DEF StartTests, TestsOver, Raises, TypeOK, SetupDone, FatalFailure
  <2> QED BY <2>1, <2>2
<1>4. StatusTellsResults'
  <2>1. CASE EndPhase
    <3>1. /\ phaseStatus' = [phaseStatus EXCEPT
             ![phase] = IF allPassed THEN "passed" ELSE "failed"]
          /\ UNCHANGED <<loaded, ran, bad>> /\ phase \in Phases
      BY <2>1 DEF EndPhase, Status, TypeOK
    <3>2. allPassed => ran[phase] = loaded[phase] /\ ~FatalFailure(phase)
      BY <2>1 DEF EndPhase, Working, FatalFailure, Remaining
    <3>3. ~allPassed =>
            \E s \in bad[phase] : /\ s.policy = "fail"
                                  /\ \A t \in ran[phase] : t.order <= s.order
      BY <2>1 DEF EndPhase, Working
    <3> QED BY <3>1, <3>2, <3>3 DEF TypeOK, StatusTellsResults, FatalFailure
  <2>2. CASE StartTests \/ TestsOver \/ Raises
    BY <2>2 DEF StartTests, TestsOver, Raises, StatusTellsResults, FatalFailure
  <2> QED BY <2>1, <2>2
<1>5. Sent'
  BY SentKept DEF EndPhase, StartTests, TestsOver, Raises
<1> QED BY <1>1, <1>2, <1>3, <1>4, <1>5

LEMMA Step == IInv /\ [Next]_vars => IInv'
<1> SUFFICES ASSUME IInv, [Next]_vars PROVE IInv'
  OBVIOUS
<1>1. CASE \E p \in Phases : \/ CreateConfig(p)
                             \/ \E e \in Editors : EditLoad(e, p) \/ Edit(e, p)
  BY <1>1, EditInv
<1>2. CASE SkipPhase \/ LoadConfig \/ LoadSteps \/ BeginPhase
  BY <1>2, EnterInv
<1>3. CASE StartStep \/ StepPasses \/ StepFails
  BY <1>3, StepInv
<1>4. CASE EndPhase \/ StartTests \/ TestsOver \/ Raises
  BY <1>4, AfterInv
<1>5. CASE UNCHANGED vars
  BY <1>5 DEF vars, IInv, TypeOK, Sent, Complete, List, Working, Fresh,
              Untouched, SetupDone, StatusTellsResults, FatalFailure, Remaining
<1> QED BY <1>1, <1>2, <1>3, <1>4, <1>5 DEF Next

-----------------------------------------------------------------------------
\* One editor: the tables have one list each, and so has what is loaded.
LEMMA OneListInit == Init => Edited /\ Chosen
BY DEF Init, Edited, Chosen, Phases

LEMMA OneListStays ==
  ASSUME IInv,
         UNCHANGED sent \/ \E x \in Seq(Policies) : sent' = Append(sent, x)
  PROVE  \A S : OneList(S) => OneList(S)'
BY SentStays DEF IInv, TypeOK, OneList

LEMMA OneListEdit ==
  ASSUME OneEditor, IInv, Edited, Chosen, NEW p \in Phases,
         \/ CreateConfig(p)
         \/ \E e \in Editors : EditLoad(e, p) \/ Edit(e, p)
  PROVE  Edited' /\ Chosen'
<1>1. UNCHANGED task
  BY DEF CreateConfig, EditLoad, Edit, ReplaceSteps, DeleteConfig, EditNothing
<1>2. Complete({}) /\ \A e \in Editors : Complete(old[e])
  BY DEF IInv, Sent, Complete
<1>3. CASE CreateConfig(p)
  <2>1. /\ config[p] = "none" /\ config' = [config EXCEPT ![p] = "there"]
        /\ Write(p, {}) /\ UNCHANGED editors
    BY <1>3 DEF CreateConfig
  <2>2. /\ \E x \in Seq(Policies) : sent' = Append(sent, x)
        /\ Len(sent') \in DOMAIN sent'
        /\ table' = [table EXCEPT ![p] = @ \cup List(Len(sent))']
    BY <1>2, <2>1, WriteInv
  <2>3. \A S : OneList(S) => OneList(S)'
    BY <2>2, OneListStays
  <2>4. table[p] = {}
    BY <2>1 DEF Edited
  <2>5. OneList(table[p])'
    BY <2>2, <2>4 DEF IInv, TypeOK, OneList
  <2>6. Edited'
    BY <2>1, <2>2, <2>3, <2>5 DEF IInv, TypeOK, Edited
  <2>7. Chosen'
    BY <1>1, <2>1, <2>3 DEF IInv, TypeOK, Chosen, Fresh
  <2> QED BY <2>6, <2>7
<1>4. ASSUME NEW e \in Editors, EditLoad(e, p) \/ Edit(e, p)
      PROVE  Edited' /\ Chosen'
  <2>1. \A f \in Editors : f = e
    BY DEF OneEditor
  <2>2. CASE EditLoad(e, p) \/ (epc[e] = p /\ EditNothing(e))
    <3>1. UNCHANGED tables
      BY <2>2 DEF EditLoad, EditNothing
    <3>2. \A q \in Phases :
            epc'[e] = q => config[q] = "there" /\ old'[e] = table[q]
      BY <2>2 DEF EditLoad, EditNothing, EditDone, IInv, TypeOK, Phases
    <3> QED BY <1>1, <2>1, <3>1, <3>2 DEF Edited, Chosen, OneList, List
  <2>3. CASE epc[e] = p /\ ReplaceSteps(e, p)
    <3>1. /\ Write(p, old[e]) /\ UNCHANGED config /\ epc'[e] = "idle"
          /\ config[p] = "there" /\ old[e] = table[p]
      BY <2>3 DEF ReplaceSteps, EditDone, Edited, IInv, TypeOK
    <3>2. /\ \E x \in Seq(Policies) : sent' = Append(sent, x)
          /\ Len(sent') \in DOMAIN sent'
          /\ table' = [table EXCEPT ![p] = (@ \ old[e]) \cup List(Len(sent))']
      BY <1>2, <3>1, WriteInv
    <3>3. \A S : OneList(S) => OneList(S)'
      BY <3>2, OneListStays
    <3>4. OneList(table[p])'
      BY <3>1, <3>2 DEF IInv, TypeOK, OneList
    <3>5. Edited'
      BY <2>1, <3>1, <3>2, <3>3, <3>4 DEF IInv, TypeOK, Edited, Phases
    <3>6. Chosen'
      BY <1>1, <3>1, <3>3 DEF IInv, TypeOK, Chosen
    <3> QED BY <3>5, <3>6
  <2>4. CASE epc[e] = p /\ DeleteConfig(e, p)
    <3>1. /\ config' = [config EXCEPT ![p] = "deleted"]
          /\ table' = [table EXCEPT ![p] = @ \ old[e]]
          /\ epc'[e] = "idle" /\ UNCHANGED sent /\ old[e] = table[p]
      BY <2>4 DEF DeleteConfig, EditDone, Edited, IInv, TypeOK
    <3>2. \A S : OneList(S) => OneList(S)'
      BY <3>1, OneListStays
    <3>3. Edited'
      BY <2>1, <3>1, <3>2 DEF IInv, TypeOK, Edited, Phases
    <3>4. Chosen'
      BY <1>1, <3>1, <3>2 DEF IInv, TypeOK, Chosen
    <3> QED BY <3>3, <3>4
  <2> QED BY <1>4, <2>2, <2>3, <2>4 DEF Edit
<1> QED BY <1>3, <1>4

\* The task reads the configuration first: from then on it exists or existed.
LEMMA OneListTask ==
  ASSUME IInv, Edited, Chosen,
         \/ SkipPhase \/ LoadConfig \/ LoadSteps \/ BeginPhase \/ StartStep
         \/ StepPasses \/ StepFails \/ EndPhase \/ StartTests \/ TestsOver
         \/ Raises
  PROVE  Edited' /\ Chosen'
<1>1. UNCHANGED <<tables, editors>>
  BY DEF SkipPhase, LoadConfig, LoadSteps, BeginPhase, StartStep, StepPasses,
         StepFails, EndStep, EndPhase, StartTests, TestsOver, Raises
<1>2. \A S : OneList(S) => OneList(S)'
  BY <1>1, OneListStays
<1>3. Edited'
  BY <1>1, <1>2 DEF Edited
<1>4. CASE LoadSteps
  <2>1. /\ pc = "load" /\ loaded' = [loaded EXCEPT ![phase] = table[phase]]
        /\ UNCHANGED phase /\ phase \in Phases
    BY <1>4 DEF LoadSteps, IInv, TypeOK
  <2>2. /\ table[phase] # {} => config[phase] = "there"
        /\ config[phase] = "there" => OneList(table[phase])
    BY <2>1 DEF Edited
  <2> QED BY <1>1, <1>2, <1>3, <2>1, <2>2 DEF Chosen, IInv, TypeOK
<1>5. CASE ~LoadSteps
  <2>1. /\ UNCHANGED loaded
        /\ pc' \in {"begin", "next", "step"} =>
             pc \in {"begin", "next", "step"} /\ UNCHANGED phase
        /\ pc' = "load" => config[phase] = "there" /\ UNCHANGED phase
    BY <1>5 DEF SkipPhase, LoadConfig, BeginPhase, StartStep, StepPasses,
       StepFails, EndStep, EndPhase, StartTests, TestsOver, Raises, Leave
  <2> QED BY <1>1, <1>2, <1>3, <2>1 DEF Chosen
<1> QED BY <1>4, <1>5

LEMMA OneListStep ==
  OneEditor /\ IInv /\ Edited /\ Chosen /\ [Next]_vars => Edited' /\ Chosen'
<1> SUFFICES ASSUME OneEditor, IInv, Edited, Chosen, [Next]_vars
             PROVE  Edited' /\ Chosen'
  OBVIOUS
<1>1. CASE \E p \in Phases : \/ CreateConfig(p)
                             \/ \E e \in Editors : EditLoad(e, p) \/ Edit(e, p)
  BY <1>1, OneListEdit
<1>2. CASE UNCHANGED vars
  BY <1>2 DEF vars, Edited, Chosen, OneList, List
<1> QED BY <1>1, <1>2, OneListTask DEF Next

-----------------------------------------------------------------------------
\* The invariant, for every number of editors and requests and all lists.
THEOREM Invariance == Spec => []IInv
  BY InitInv, Step, PTL DEF Spec

\* Type correctness.
THEOREM TypeCorrect == Spec => []TypeOK
<1>1. IInv => TypeOK
  BY DEF IInv
<1> QED BY <1>1, Invariance, PTL

\* No test starts before every setup step has run, nor after one with the
\* policy "fail" that failed (routes.py:201-218, runner.py:152-250).
THEOREM SetupFirst == Spec => []TestsAfterSetup
<1>1. IInv => TestsAfterSetup
  BY DEF IInv, SetupDone, TestsAfterSetup
<1> QED BY <1>1, Invariance, PTL

\* The status of a phase says what its steps did (runner.py:137-140, 236-240).
THEOREM StatusIsTrue == Spec => []StatusTellsResults
<1>1. IInv => StatusTellsResults
  BY DEF IInv
<1> QED BY <1>1, Invariance, PTL

\* No phase loads a part of a list, however many requests replace and delete
\* configurations meanwhile (update_setup_config, delete_setup_config,
\* execute_setup_steps and their counterparts for teardown).
THEOREM WholeLists == Spec => [](\A p \in Phases : Complete(loaded[p]))
<1>1. IInv => \A p \in Phases : Complete(loaded[p])
  BY DEF IInv, Sent
<1> QED BY <1>1, Invariance, PTL

\* What a phase loads is the one list of one request as long as the requests
\* on existing configurations come one at a time: two that read the same list
\* each add their own (routes.py, update_setup_config).
THEOREM OneListLoaded == OneEditor => (Spec => []LoadsOneList)
<1> SUFFICES ASSUME OneEditor PROVE Spec => []LoadsOneList
  OBVIOUS
<1>1. Edited /\ Chosen /\ IInv /\ [Next]_vars => Edited' /\ Chosen'
  BY OneListStep
<1>2. Edited /\ Chosen /\ IInv => LoadsOneList
  BY DEF IInv, TypeOK, Chosen, LoadsOneList, OneList, List
<1> QED BY <1>1, <1>2, OneListInit, Invariance, PTL DEF Spec
=============================================================================
