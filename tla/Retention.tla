----------------------------- MODULE Retention ------------------------------
(***************************************************************************)
(* What deletes runs: purge_old_runs, prune_excess_reports and             *)
(* cleanup_orphaned_report_dirs (backend/app/services/purge.py), called by *)
(* the periodic task, by POST /admin/purge and at the end of every         *)
(* schedule_run_task, each with a session of its own, while runs are       *)
(* created, finish and still write.                                        *)
(*                                                                         *)
(* Runs are numbered in the order of created_at.  An action is the code up *)
(* to the statement or commit it waits for.  The first DELETE of a session *)
(* takes the write lock of the database until it commits or rolls back.    *)
(***************************************************************************)
EXTENDS Naturals, FiniteSets

CONSTANTS
  N,           \* bound: how many runs are created
  Clients, Owner,
  Max,         \* MAX_REPORT_COUNT
  Limits,      \* what administrators ask for as max_reports
  Purger,      \* the periodic task and the administrators, one at a time
  None,
  MaxFails     \* bound: crashes and failed deletions

Runs == 1..N
Workers == Runs \cup {Purger}   \* the task of a run prunes at its end

ASSUME ConstantsOK ==
  /\ N \in Nat /\ Max \in Nat \ {0} /\ MaxFails \in Nat
  /\ Owner \in [Runs -> Clients] /\ Limits \subseteq Nat \ {0}
  /\ Purger \notin Runs /\ None \notin Workers \cup Clients

VARIABLES
  row,       \* of a run: "new", "active", "finished", "gone"
  children,  \* runs with rows in the log, report and queue tables
  dir,       \* runs with a directory under reports/
  task,      \* where its schedule_run_task is
  wpc, ids,  \* where a worker is, the run ids it has selected
  clients, excess,  \* clients it still looks at; the one it prunes, how many
  limit,     \* max_count of the pass the purger makes
  asked,     \* the purger works for an administrator
  doomed,    \* deleted in its open transaction
  locked,    \* the worker that holds the write lock, or None
  first,     \* first_run of the periodic task
  fails,     \* bound counter
  early,     \* history: cancelled before their tests, which may yet launch
  late,      \* history: runs whose task logged after their deletion
  relics,    \* history: runs with a directory their deletion did not remove
  due        \* history: clients to be counted again

runs == <<row, children, dir, task>>
worker == <<wpc, ids, clients, excess, limit, asked, doomed, locked>>
history == <<early, late, relics, due>>
vars == <<runs, worker, first, fails, history>>

NoExcess == [of |-> None, n |-> 0]
FinishedOf(c) == {r \in Runs : row[r] = "finished" /\ Owner[r] = c}
Unlocked == locked = None

Init ==
  /\ row = [r \in Runs |-> "new"] /\ task = [r \in Runs |-> "none"]
  /\ children = {} /\ dir = {}
  /\ wpc = [w \in Workers |-> IF w = Purger THEN "purge" ELSE "idle"]
  /\ ids = [w \in Workers |-> {}] /\ clients = ids /\ doomed = ids
  /\ excess = [w \in Workers |-> NoExcess]
  /\ limit = Max /\ asked = FALSE
  /\ locked = None /\ first = TRUE /\ fails = 0
  /\ early = {} /\ late = {} /\ relics = {} /\ due = {}

-----------------------------------------------------------------------------
(* Runs *)

CreateRun(r) ==
  /\ Unlocked /\ row[r] = "new" /\ \A s \in 1..(r - 1) : row[s] # "new"
  /\ row' = [row EXCEPT ![r] = "active"]
  /\ UNCHANGED <<children, dir, task, worker, first, fails, history>>

\* Log lines go to the table whatever became of the run.
WritesLog(r) ==
  /\ children' = children \cup {r}
  /\ late' = IF row[r] = "gone" THEN late \cup {r} ELSE late

TaskGoes(r, from, to) ==
  Unlocked /\ task[r] = from /\ task' = [task EXCEPT ![r] = to]

StartTask(r) ==
  /\ row[r] \in {"active", "finished"} /\ TaskGoes(r, "none", "setup")
  /\ WritesLog(r)
  /\ UNCHANGED <<row, dir, worker, first, fails, early, relics, due>>

\* capture_test_run sets "running", also on a run cancelled before it, and makes
\* the directory.
Launch(r) ==
  /\ row[r] # "gone" /\ TaskGoes(r, "setup", "capture")
  /\ row' = [row EXCEPT ![r] = "active"] /\ dir' = dir \cup {r}
  /\ UNCHANGED <<children, worker, first, fails, history>>

\* Log batches.
TaskWrites(r) ==
  /\ task[r] \in {"setup", "capture", "teardown"} /\ Unlocked /\ WritesLog(r)
  /\ UNCHANGED <<row, dir, task, worker, first, fails, early, relics, due>>

\* The capture and pytest make the directory again if it is gone; the
\* finalization does not.
WriteReports(r) ==
  /\ task[r] = "capture" /\ dir' = dir \cup {r}
  /\ relics' = IF row[r] = "gone" \/ \E w \in Workers : r \in doomed[w]
               THEN relics \cup {r} ELSE relics
  /\ UNCHANGED <<row, children, task, worker, first, fails, early, late,
                 due>>

FinishRun(r) ==
  /\ row[r] # "gone"
  /\ TaskGoes(r, "capture", "teardown") \/ TaskGoes(r, "setup", "teardown")
  /\ row' = [row EXCEPT ![r] = "finished"] /\ due' = due \cup {Owner[r]}
  /\ early' = early \ {r}
  /\ UNCHANGED <<children, dir, worker, first, fails, late, relics>>

\* After the teardown, or because the row of the run is gone; then it prunes.
EndTask(r) ==
  /\ Unlocked /\ task' = [task EXCEPT ![r] = "over"]
  /\ \/ task[r] = "teardown"
     \/ task[r] \in {"setup", "capture"} /\ row[r] = "gone"
  /\ wpc' = [wpc EXCEPT ![r] = "clients"] /\ early' = early \ {r}
  /\ UNCHANGED <<row, children, dir, ids, clients, excess, limit, asked,
                 doomed, locked, first, fails, late, relics, due>>

CancelRun(r) ==
  /\ Unlocked /\ row[r] = "active"
  /\ row' = [row EXCEPT ![r] = "finished"]
  /\ early' = IF task[r] \in {"none", "setup"} THEN early \cup {r} ELSE early
  /\ due' = due \cup {Owner[r]}
  /\ UNCHANGED <<children, dir, task, worker, first, fails, late, relics>>

-----------------------------------------------------------------------------
(* purge_old_runs *)

WorkerGoes(w, from, to) == wpc[w] = from /\ wpc' = [wpc EXCEPT ![w] = to]
Select(w, S) == ids' = [ids EXCEPT ![w] = S]

\* POST /admin/purge, or the interval of the periodic task is over.
StartPurge ==
  /\ WorkerGoes(Purger, "idle", "purge")
  /\ asked' \in BOOLEAN
  /\ IF asked' THEN limit' \in Limits ELSE limit' = Max
  /\ UNCHANGED <<runs, ids, clients, excess, doomed, locked, first, fails,
                 history>>

\* Older than the retention period, or than the days an administrator asks for,
\* are some of the first runs.
Aged == {1..k : k \in 0..N}

\* Mutant of SelectOld: the status is not asked for.
SelectAnyOld(w) ==
  \E aged \in Aged : LET S == {r \in aged : row[r] # "gone"} IN
    /\ WorkerGoes(w, "purge", IF S = {} THEN "clients" ELSE "delete")
    /\ Select(w, S)
    /\ UNCHANGED <<runs, clients, excess, limit, asked, doomed, locked, first,
                   fails, history>>

SelectOld(w) ==
  \E aged \in Aged : LET S == {r \in aged : row[r] = "finished"} IN
    /\ WorkerGoes(w, "purge", IF S = {} THEN "clients" ELSE "delete")
    /\ Select(w, S)
    /\ UNCHANGED <<runs, clients, excess, limit, asked, doomed, locked, first,
                   fails, history>>

Deleted(S) == row' = [r \in Runs |-> IF r \in S THEN "gone" ELSE row[r]]

\* Mutant of DeleteOld: only the rows of the runs are deleted.
DeleteRunsOnly(w) ==
  /\ WorkerGoes(w, "delete", "dirs") /\ Unlocked
  /\ Deleted(ids[w]) /\ relics' = relics \ ids[w]
  /\ UNCHANGED <<children, dir, task, ids, clients, excess, limit, asked,
                 doomed, locked, first, fails, early, late, due>>

\* The child rows, the runs, commit.
DeleteOld(w) ==
  /\ WorkerGoes(w, "delete", "dirs") /\ Unlocked
  /\ Deleted(ids[w]) /\ children' = children \ ids[w]
  /\ relics' = relics \ ids[w]
  /\ UNCHANGED <<dir, task, ids, clients, excess, limit, asked, doomed,
                 locked, first, fails, early, late, due>>

\* rmtree ignores its errors: of a run whose reports are being finalized, in a
\* thread, the directory may stay.
Missed(S) == SUBSET {r \in S \cap dir : task[r] = "teardown"}

\* Mutant of RemoveDirs: the directories stay.
RemoveNoDirs(w) ==
  /\ WorkerGoes(w, "dirs", "clients") /\ Select(w, {})
  /\ UNCHANGED <<runs, clients, excess, limit, asked, doomed, locked, first,
                 fails, history>>

RemoveDirs(w) ==
  /\ WorkerGoes(w, "dirs", "clients") /\ Select(w, {})
  /\ \E kept \in Missed(ids[w]) :
       /\ dir' = (dir \ ids[w]) \cup kept
       /\ relics' = (relics \ ids[w]) \cup kept
  /\ UNCHANGED <<row, children, task, clients, excess, limit, asked,
                 doomed, locked, first, fails, early, late, due>>

-----------------------------------------------------------------------------
(* prune_excess_reports *)

MaxCount(w) == IF w = Purger THEN limit ELSE Max

\* A session does not see what it has deleted itself.
Seen(w, c) == FinishedOf(c) \ doomed[w]

SelectClients(w) ==
  /\ WorkerGoes(w, "clients", "count")
  /\ clients' = [clients EXCEPT ![w] = {c \in Clients : FinishedOf(c) # {}}]
  /\ due' = IF MaxCount(w) <= Max THEN {} ELSE due
  /\ UNCHANGED <<runs, ids, excess, limit, asked, doomed, locked, first,
                 fails, early, late, relics>>

NextClient(w, c) == clients' = [clients EXCEPT ![w] = @ \ {c}]

\* Mutant of Count: one run too many is kept.
CountOffByOne(w, c) ==
  LET n == Cardinality(Seen(w, c)) IN
  /\ c \in clients[w]
  /\ NextClient(w, c)
  /\ IF n <= MaxCount(w) + 1
     THEN wpc[w] = "count" /\ UNCHANGED <<wpc, excess>>
     ELSE /\ WorkerGoes(w, "count", "list")
          /\ excess' = [excess EXCEPT ![w] = [of |-> c, n |-> n - MaxCount(w)]]
  /\ UNCHANGED <<runs, ids, limit, asked, doomed, locked, first, fails,
                 history>>

\* How many finished runs of client c are too many.
Count(w, c) ==
  LET n == Cardinality(Seen(w, c)) IN
  /\ c \in clients[w]
  /\ NextClient(w, c)
  /\ IF n <= MaxCount(w)
     THEN wpc[w] = "count" /\ UNCHANGED <<wpc, excess>>
     ELSE /\ WorkerGoes(w, "count", "list")
          /\ excess' = [excess EXCEPT ![w] = [of |-> c, n |-> n - MaxCount(w)]]
  /\ UNCHANGED <<runs, ids, limit, asked, doomed, locked, first, fails,
                 history>>

Oldest(S, n) == {r \in S : Cardinality({s \in S : s <= r}) <= n}

\* The oldest finished runs of the client, in a statement after the count.
SelectExcess(w) ==
  LET S == Oldest(Seen(w, excess[w].of), excess[w].n) IN
  /\ WorkerGoes(w, "list", IF S = {} THEN "count" ELSE "prune") /\ Select(w, S)
  /\ excess' = [excess EXCEPT ![w] = NoExcess]
  /\ UNCHANGED <<runs, clients, limit, asked, doomed, locked, first, fails,
                 history>>

\* Deleted but not committed; the directories are removed at once.
DeleteExcess(w) ==
  /\ WorkerGoes(w, "prune", "count") /\ locked \in {None, w}
  /\ locked' = w /\ doomed' = [doomed EXCEPT ![w] = @ \cup ids[w]]
  /\ \E kept \in Missed(ids[w]) :
       /\ dir' = (dir \ ids[w]) \cup kept
       /\ relics' = (relics \ ids[w]) \cup kept
  /\ Select(w, {})
  /\ UNCHANGED <<row, children, task, clients, excess, limit, asked,
                 first, fails, early, late, due>>

\* Mutant of Release: the transaction stays open.
ReleaseNot(w) == doomed' = [doomed EXCEPT ![w] = {}] /\ UNCHANGED locked

Release(w) ==
  /\ locked' = IF locked = w THEN None ELSE locked
  /\ doomed' = [doomed EXCEPT ![w] = {}]

PassOver(w) ==
  /\ asked' = (asked /\ w # Purger)
  /\ limit' = IF w = Purger THEN Max ELSE limit

\* One commit for all clients, if any run was deleted.
CommitPrune(w) ==
  /\ clients[w] = {}
  /\ WorkerGoes(w, "count", IF w = Purger /\ first /\ ~asked THEN "orphans"
                            ELSE IF w \in Runs THEN "over" ELSE "idle")
  /\ Release(w) /\ PassOver(w)
  /\ IF \E r \in doomed[w] : row[r] # "gone"
     THEN Deleted(doomed[w]) /\ children' = children \ doomed[w]
     ELSE UNCHANGED <<row, children>>
  /\ UNCHANGED <<dir, task, ids, clients, excess, first, fails, history>>

-----------------------------------------------------------------------------
(* The periodic task, failures *)

\* Mutant of RemoveOrphans: it removes the directories of the others.
RemoveKnown ==
  /\ WorkerGoes(Purger, "orphans", "idle") /\ first' = FALSE
  /\ LET S == {r \in Runs : row[r] \notin {"new", "gone"}}
     IN  \E kept \in Missed(S) :
           /\ dir' = (dir \ S) \cup kept
           /\ relics' = (relics \ S) \cup (relics \cap kept)
  /\ UNCHANGED <<row, children, task, ids, clients, excess, limit, asked,
                 doomed, locked, fails, early, late, due>>

\* No run gets a directory between the SELECT and the removal.
RemoveOrphans ==
  /\ WorkerGoes(Purger, "orphans", "idle") /\ first' = FALSE
  /\ LET S == {r \in Runs : row[r] \in {"new", "gone"}}
     IN  \E kept \in Missed(S) :
           /\ dir' = (dir \ S) \cup kept
           /\ relics' = (relics \ S) \cup (relics \cap kept)
  /\ UNCHANGED <<row, children, task, ids, clients, excess, limit, asked,
                 doomed, locked, fails, early, late, due>>

\* A statement raises: the transaction is rolled back and the pass given up.
WorkerFails(w) ==
  /\ wpc[w] \notin {"idle", "over", "dirs"}
  /\ fails < MaxFails /\ fails' = fails + 1
  /\ wpc' = [wpc EXCEPT ![w] = IF w \in Runs THEN "over" ELSE "idle"]
  /\ Release(w) /\ Select(w, {}) /\ clients' = [clients EXCEPT ![w] = {}]
  /\ excess' = [excess EXCEPT ![w] = NoExcess]
  /\ PassOver(w) /\ due' = Clients
  /\ relics' = {r \in relics : r \in doomed[w] => row[r] = "gone"}
  /\ UNCHANGED <<runs, first, early, late>>

\* The server dies and starts: lifespan fails the active runs.
Restart ==
  /\ fails < MaxFails /\ fails' = fails + 1
  /\ row' = [r \in Runs |-> IF row[r] = "active" THEN "finished" ELSE row[r]]
  /\ task' = [r \in Runs |-> IF row[r] = "new" THEN "none" ELSE "over"]
  /\ wpc' = [w \in Workers |-> IF w = Purger THEN "purge"
                               ELSE IF row[w] = "new" THEN "idle" ELSE "over"]
  /\ limit' = Max /\ asked' = FALSE
  /\ excess' = [w \in Workers |-> NoExcess]
  /\ ids' = [w \in Workers |-> {}] /\ clients' = ids' /\ doomed' = ids'
  /\ locked' = None /\ first' = TRUE /\ due' = Clients
  /\ relics' = relics \cup UNION {ids[w] : w \in {v \in Workers :
                                                  wpc[v] = "dirs"}}
  /\ early' = {}
  /\ UNCHANGED <<children, dir, late>>

-----------------------------------------------------------------------------
Purge(w) == SelectOld(w) \/ DeleteOld(w) \/ RemoveDirs(w)

Prune(w) ==
  \/ SelectClients(w) \/ SelectExcess(w) \/ DeleteExcess(w) \/ CommitPrune(w)
  \/ \E c \in Clients : Count(w, c)

Work(w) == Purge(w) \/ Prune(w)

RunStep(r) ==
  \/ CreateRun(r) \/ StartTask(r) \/ Launch(r) \/ TaskWrites(r)
  \/ WriteReports(r) \/ FinishRun(r) \/ EndTask(r) \/ CancelRun(r)

Next ==
  \/ \E r \in Runs : RunStep(r)
  \/ \E w \in Workers : Work(w) \/ WorkerFails(w)
  \/ StartPurge \/ RemoveOrphans \/ Restart

Spec == Init /\ [][Next]_vars

(***************************************************************************)
(* The tasks of the event loop go on, and the periodic one wakes up in     *)
(* time: an administrator's purge is none of its own.                      *)
(***************************************************************************)
FairSpec ==
  /\ Spec /\ WF_vars(RemoveOrphans) /\ SF_vars(StartPurge /\ ~asked')
  /\ \A w \in Workers : WF_vars(Work(w))

-----------------------------------------------------------------------------
(* Properties *)

TypeOK ==
  /\ row \in [Runs -> {"new", "active", "finished", "gone"}]
  /\ task \in [Runs -> {"none", "setup", "capture", "teardown", "over"}]
  /\ {children, dir, early, late, relics} \subseteq SUBSET Runs
  /\ wpc \in [Workers -> {"idle", "purge", "delete", "dirs", "clients",
                          "count", "list", "prune", "orphans", "over"}]
  /\ ids \in [Workers -> SUBSET Runs] /\ doomed \in [Workers -> SUBSET Runs]
  /\ clients \in [Workers -> SUBSET Clients] /\ due \subseteq Clients
  /\ excess \in [Workers -> [of : Clients \cup {None}, n : Nat]]
  /\ limit \in Limits \cup {Max} /\ asked \in BOOLEAN
  /\ locked \in Workers \cup {None}
  /\ first \in BOOLEAN /\ fails \in 0..MaxFails
  /\ \A w \in Workers :
       /\ doomed[w] # {} => locked = w
       /\ locked = w => wpc[w] \in {"count", "list", "prune"}

(***************************************************************************)
(* A run that is pending, queued or running is never deleted, although the *)
(* ids are selected some statements before the DELETE, unless it was       *)
(* cancelled before its task launched the tests.                           *)
(***************************************************************************)
ActiveKept ==
  [][\A r \in Runs :
       row[r] = "active" /\ row'[r] = "gone" => r \in early]_vars

(***************************************************************************)
(* Nothing of a deleted run stays behind (REQ-RET-001): no row that refers *)
(* to it, except log lines its own task writes afterwards, and no          *)
(* directory once the worker that deleted it has gone through its ids,     *)
(* except one the task made again, one that was being written, or one a    *)
(* crash left between the commit and the removal.                          *)
(***************************************************************************)
Leftovers ==
  \A r \in Runs : row[r] = "gone" =>
    /\ r \in children => r \in late
    /\ r \in dir => \/ \E w \in Workers : wpc[w] = "dirs" /\ r \in ids[w]
                    \/ r \in relics

(***************************************************************************)
(* Whenever no prune is between its SELECT of the clients and its commit,  *)
(* a client has at most MAX_REPORT_COUNT finished runs unless one of them  *)
(* finished, or a prune failed, after the last SELECT of a prune to that   *)
(* limit or a smaller one, however the prunes interleaved (REQ-RET-002).   *)
(***************************************************************************)
PrunedToLimit ==
  (\A w \in Workers : wpc[w] \notin {"count", "list", "prune"})
    => \A c \in Clients \ due : Cardinality(FinishedOf(c)) <= Max

(***************************************************************************)
(* A directory that a crash or a failed deletion left without its run is   *)
(* removed once the server has started again and its first purge succeeds. *)
(***************************************************************************)
OrphansRemoved ==
  \A r \in Runs :
    row[r] = "gone" /\ task[r] = "over" /\ r \in dir /\ first ~> r \notin dir
=============================================================================
