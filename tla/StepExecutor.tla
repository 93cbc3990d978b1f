---------------------------- MODULE StepExecutor ----------------------------
(***************************************************************************)
(* The setup and teardown steps of a run: execute_setup_steps and          *)
(* execute_teardown_steps (backend/app/services/runner.py), which are the  *)
(* same code twice, called by schedule_run_task around the tests, while    *)
(* requests create, replace and delete the configurations they read        *)
(* (backend/app/api/routes.py).                                            *)
(*                                                                         *)
(* A step is its row: the request that wrote it, its order and its failure *)
(* policy.  Names, commands and log lines are left out.  An action is the  *)
(* code up to the commit, the SELECT or the process that it waits for.     *)
(***************************************************************************)
EXTENDS Naturals, Sequences, FiniteSets

CONSTANTS
  Editors,     \* bound: requests on existing configurations at one time
  Lists,       \* the lists of failure policies that requests send
  MaxRequests  \* bound: how many lists are sent

Phases == {"setup", "teardown"}
Policies == {"fail", "skip", "continue"}

ASSUME ListsOK == Lists \subseteq Seq(Policies) /\ MaxRequests \in Nat

VARIABLES
  config,      \* the configuration of each phase: "none", "there", "deleted"
  table,       \* the rows of its steps
  sent,        \* history: the lists of steps that requests sent
  epc, old,    \* where an editor is; the rows of its configuration it has read
  phase, pc,   \* where schedule_run_task is
  attached,    \* phases for which the run names a configuration
  phaseStatus, \* Run.setup_status, Run.teardown_status
  loaded,      \* the rows that the phase has loaded
  ran, bad,    \* history: the steps that ended, those that did not pass
  allPassed,   \* the local variable
  step,        \* the step whose command runs
  tests        \* capture_test_run: "none", "started", "over"

tables == <<config, table, sent>>
editors == <<epc, old>>
execution == <<loaded, ran, bad, allPassed, step>>
task == <<phase, pc, attached, phaseStatus, execution, tests>>
vars == <<tables, editors, task>>

\* The row of no step.
NoStep == [by |-> 0, order |-> 0, policy |-> "continue"]

\* A run may name a configuration that does not exist.
Init ==
  /\ config = [p \in Phases |-> "none"] /\ table = [p \in Phases |-> {}]
  /\ sent = <<>>
  /\ epc = [e \in Editors |-> "idle"] /\ old = [e \in Editors |-> {}]
  /\ phase = "setup" /\ pc = "enter" /\ attached \in SUBSET Phases
  /\ phaseStatus = [p \in Phases |-> "none"]
  /\ loaded = [p \in Phases |-> {}]
  /\ ran = loaded /\ bad = loaded
  /\ allPassed = TRUE /\ step = NoStep /\ tests = "none"

-----------------------------------------------------------------------------
(* Requests on the configurations *)

NewRows(n, policies) ==
  {[by |-> n, order |-> i, policy |-> policies[i]] : i \in DOMAIN policies}

\* The rows that request number Len(sent') inserts for p, after deleting rows.
Write(p, deleted) ==
  /\ Len(sent) < MaxRequests
  /\ \E policies \in Lists :
       /\ sent' = Append(sent, policies)
       /\ table' = [table EXCEPT
                      ![p] = (@ \ deleted) \cup NewRows(Len(sent'), policies)]

\* create_setup_config, create_teardown_config
CreateConfig(p) ==
  /\ config[p] = "none" /\ config' = [config EXCEPT ![p] = "there"]
  /\ Write(p, {})
  /\ UNCHANGED <<editors, task>>

\* update_*_config and delete_*_config read the steps of the configuration.
EditLoad(e, p) ==
  /\ epc[e] = "idle" /\ config[p] = "there"
  /\ epc' = [epc EXCEPT ![e] = p]
  /\ old' = [old EXCEPT ![e] = table[p]]
  /\ UNCHANGED <<tables, task>>

EditDone(e) ==
  epc' = [epc EXCEPT ![e] = "idle"] /\ old' = [old EXCEPT ![e] = {}]

\* Mutant of ReplaceSteps: the delete is committed before the insert.
ReplaceTwice(e, p) ==
  /\ IF table[p] \cap old[e] # {}
     THEN /\ table' = [table EXCEPT ![p] = @ \ old[e]]
          /\ UNCHANGED <<sent, editors>>
     ELSE Write(p, {}) /\ EditDone(e)
  /\ UNCHANGED <<config, task>>

\* update_*_config: the delete of the old rows takes the write lock of the
\* database, and the insert and the commit follow under it.
ReplaceSteps(e, p) ==
  /\ Write(p, old[e]) /\ EditDone(e)
  /\ UNCHANGED <<config, task>>

\* delete_*_config
DeleteConfig(e, p) ==
  /\ config' = [config EXCEPT ![p] = "deleted"]
  /\ table' = [table EXCEPT ![p] = @ \ old[e]]
  /\ EditDone(e)
  /\ UNCHANGED <<sent, task>>

\* The request fails, or changes the name only.
EditNothing(e) == EditDone(e) /\ UNCHANGED <<tables, task>>

Edit(e, p) ==
  epc[e] = p /\ (ReplaceSteps(e, p) \/ DeleteConfig(e, p) \/ EditNothing(e))

-----------------------------------------------------------------------------
(* One phase *)

Goes(from, to) == pc = from /\ pc' = to

Status(s) == phaseStatus' = [phaseStatus EXCEPT ![phase] = s]

\* schedule_run_task, after the phase: a setup that fails ends the run.
Leave(ok) ==
  pc' = IF phase = "teardown" THEN "over" ELSE IF ok THEN "capture"
        ELSE "aborted"

\* No configuration attached.
SkipPhase ==
  /\ pc = "enter" /\ phase \notin attached
  /\ Status("skipped") /\ Leave(TRUE)
  /\ UNCHANGED <<tables, editors, phase, attached, execution, tests>>

\* db.get with selectinload reads the configuration, then its steps; a phase
\* whose configuration is gone passes and leaves the status alone.
LoadConfig ==
  /\ pc = "enter" /\ phase \in attached
  /\ IF config[phase] = "there" THEN pc' = "load" ELSE Leave(TRUE)
  /\ UNCHANGED <<tables, editors, phase, attached, phaseStatus, execution,
                 tests>>

LoadSteps ==
  /\ Goes("load", "begin")
  /\ loaded' = [loaded EXCEPT ![phase] = table[phase]]
  /\ UNCHANGED <<tables, editors, phase, attached, phaseStatus, ran, bad,
                 allPassed, step, tests>>

BeginPhase ==
  /\ Goes("begin", "next") /\ Status("running")
  /\ allPassed' = TRUE
  /\ UNCHANGED <<tables, editors, phase, attached, loaded, ran, bad, step,
                 tests>>

Remaining == loaded[phase] \ ran[phase]

\* sorted(config.steps, key=order)
StartStep ==
  /\ Goes("next", "step")
  /\ step' \in {s \in Remaining : \A t \in Remaining : s.order <= t.order}
  /\ UNCHANGED <<tables, editors, phase, attached, phaseStatus, loaded, ran,
                 bad, allPassed, tests>>

\* Mutant of EndStep: the step is not forgotten.
EndStepKeeps ==
  /\ pc = "step" /\ UNCHANGED step
  /\ ran' = [ran EXCEPT ![phase] = @ \cup {step}]
  /\ UNCHANGED <<tables, editors, phase, attached, phaseStatus, loaded, tests>>

EndStep ==
  /\ pc = "step" /\ step' = NoStep
  /\ ran' = [ran EXCEPT ![phase] = @ \cup {step}]
  /\ UNCHANGED <<tables, editors, phase, attached, phaseStatus, loaded, tests>>

\* Exit code 0.
StepPasses ==
  /\ EndStep /\ pc' = "next"
  /\ UNCHANGED <<bad, allPassed>>

\* Mutant of StepFails: only an exit code that is not 0 can fail the phase.
StepFailsLate ==
  /\ EndStep
  /\ bad' = [bad EXCEPT ![phase] = @ \cup {step}]
  /\ \E timeout \in BOOLEAN :
       LET fatal == step.policy = "fail" /\ ~timeout IN
       /\ allPassed' = (allPassed /\ ~fatal)
       /\ pc' = IF fatal THEN "end" ELSE "next"

\* Exit code, timeout or exception; "skip" and "continue" both go on.
StepFails ==
  /\ EndStep
  /\ bad' = [bad EXCEPT ![phase] = @ \cup {step}]
  /\ LET fatal == step.policy = "fail" IN
     /\ allPassed' = (allPassed /\ ~fatal)
     /\ pc' = IF fatal THEN "end" ELSE "next"

EndPhase ==
  /\ pc = "end" \/ (pc = "next" /\ Remaining = {})
  /\ Status(IF allPassed THEN "passed" ELSE "failed")
  /\ Leave(allPassed)
  /\ UNCHANGED <<tables, editors, phase, attached, execution, tests>>

-----------------------------------------------------------------------------
(* The tests between the phases *)

StartTests ==
  /\ Goes("capture", "tests") /\ tests' = "started"
  /\ UNCHANGED <<tables, editors, phase, attached, phaseStatus, execution>>

\* capture_test_run returns: completed, failed or cancelled.
TestsOver ==
  /\ Goes("tests", "enter") /\ tests' = "over"
  /\ phase' = "teardown"
  /\ UNCHANGED <<tables, editors, attached, phaseStatus, execution>>

\* A statement, a commit or the capture raises: no teardown, and the status
\* of the phase stays what it is.
Raises ==
  /\ pc \notin {"aborted", "over", "raised"} /\ pc' = "raised"
  /\ UNCHANGED <<tables, editors, phase, attached, phaseStatus, execution,
                 tests>>

Next ==
  \/ \E p \in Phases : CreateConfig(p)
  \/ \E e \in Editors, p \in Phases : EditLoad(e, p) \/ Edit(e, p)
  \/ SkipPhase \/ LoadConfig \/ LoadSteps \/ BeginPhase \/ StartStep
  \/ StepPasses \/ StepFails \/ EndPhase \/ StartTests \/ TestsOver \/ Raises

Spec == Init /\ [][Next]_vars

-----------------------------------------------------------------------------
(* Properties *)

Row == [by : Nat, order : Nat, policy : Policies]

TypeOK ==
  /\ config \in [Phases -> {"none", "there", "deleted"}]
  /\ table \in [Phases -> SUBSET Row] /\ sent \in Seq(Seq(Policies))
  /\ epc \in [Editors -> Phases \cup {"idle"}]
  /\ old \in [Editors -> SUBSET Row]
  /\ phase \in Phases /\ attached \in SUBSET Phases
  /\ pc \in {"enter", "load", "begin", "next", "step", "end", "capture",
             "tests", "over", "aborted", "raised"}
  /\ phaseStatus \in [Phases -> {"none", "skipped", "running", "passed",
                                 "failed"}]
  /\ loaded \in [Phases -> SUBSET Row]
  /\ ran \in [Phases -> SUBSET Row] /\ bad \in [Phases -> SUBSET Row]
  /\ allPassed \in BOOLEAN /\ step \in Row
  /\ tests \in {"none", "started", "over"}
  /\ pc # "raised" => (pc = "step") = (step # NoStep)

(***************************************************************************)
(* The steps that a phase runs are the whole list that one request sent,   *)
(* although requests replace the list while the run goes on: the executor  *)
(* never sees a list half deleted, or of two requests.  It runs no step    *)
(* only when the configuration is deleted between its two reads.  This     *)
(* needs the updates to come one at a time (one editor).                   *)
(***************************************************************************)
LoadsOneList ==
  \A p \in Phases :
    \/ loaded[p] # {}
    \/ pc \in {"begin", "next"} /\ phase = p /\ config[p] # "deleted"
    => \E n \in DOMAIN sent : loaded[p] = NewRows(n, sent[n])

(***************************************************************************)
(* The tests start only after the setup, and the setup let them: every     *)
(* step that it loaded was run, and none with the policy "fail" failed, by *)
(* exit code, timeout or exception (REQ-STE-003, REQ-STE-004).             *)
(***************************************************************************)
FatalFailure(p) == \E s \in bad[p] : s.policy = "fail"

TestsAfterSetup ==
  tests # "none" => ran["setup"] = loaded["setup"] /\ ~FatalFailure("setup")

(***************************************************************************)
(* What the status of a phase says is what its steps did: passed means     *)
(* that all ran and none failed fatally; failed means that one did, and    *)
(* that no step after it was started.                                      *)
(***************************************************************************)
StatusTellsResults ==
  \A p \in Phases :
    /\ phaseStatus[p] = "passed" => ran[p] = loaded[p] /\ ~FatalFailure(p)
    /\ phaseStatus[p] = "failed" =>
         \E s \in bad[p] : /\ s.policy = "fail"
                           /\ \A t \in ran[p] : t.order <= s.order
=============================================================================
