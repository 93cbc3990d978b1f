----------------------------- MODULE RunTables -----------------------------
(***************************************************************************)
(* The tables of the DVP backend that the run lifecycle and the resource   *)
(* queue share (backend/app/models.py), and how SQLAlchemy sessions write  *)
(* them.  A session keeps the column values it loaded (expire_on_commit is *)
(* off, db.py:32) and its UPDATE names only the columns whose new value    *)
(* differs from the loaded one; an UPDATE of a row that another session    *)
(* deleted matches nothing and raises StaleDataError.                      *)
(***************************************************************************)
EXTENDS Naturals, FiniteSets

CONSTANTS
  Runs,         \* ids of the runs the clients will create
  Resources,    \* names of resources
  Tasks,        \* slots for concurrent run tasks; bounds how many exist at once
  Cancels,      \* cancel requests, each serves one call
  Admins,       \* admin cleanup requests, each serves one call
  ResourceOf,   \* resource_name of each run's request, or NoResource
  KindOf,       \* "test" (POST /runs) or "cli" (POST /cli/execute)
  NoResource, NoRun, NoTask, NoRow

Workers == Tasks \cup Cancels   \* the callers of release_resource

(***************************************************************************)
(* A row of resource_locks is named by its run and by who inserted it: the *)
(* run itself for the handler that created it, or the worker that promoted *)
(* it from the queue.  A queue entry is promoted at most once by a worker, *)
(* so the name is unique.                                                  *)
(***************************************************************************)
Rows == Runs \X (Runs \cup Workers)

ASSUME ConstantsOK ==
  /\ ResourceOf \in [Runs -> Resources \cup {NoResource}]
  /\ KindOf \in [Runs -> {"test", "cli"}]
  /\ NoResource \notin Resources
  /\ NoRun \notin Runs
  /\ NoTask \notin Tasks
  /\ NoRow \notin Rows
  /\ Tasks \cap Cancels = {}
  /\ Runs \cap Workers = {}

Terminal == {"completed", "failed", "cancelled"}
Active   == {"pending", "queued", "running"}
Statuses == {"none"} \cup Active \cup Terminal

VARIABLES
  status,       \* Run.status; "none" before the row is inserted
  startedAt,    \* Run.started_at is set
  resourceId,   \* Run.resource_id
  queueEntry,   \* QueueEntry.status of the run's entry, "none" if no row
  position,     \* QueueEntry.position
  lockRow,      \* "none" (no row), "held" (released_at NULL) or "released"
  resources     \* names in the resources table

tables == <<status, startedAt, resourceId, queueEntry, position, lockRow,
            resources>>

TablesInit ==
  /\ status = [r \in Runs |-> "none"]
  /\ startedAt = [r \in Runs |-> FALSE]
  /\ resourceId = [r \in Runs |-> NoResource]
  /\ queueEntry = [r \in Runs |-> "none"]
  /\ position = [r \in Runs |-> 0]
  /\ lockRow = [x \in Rows |-> "none"]
  /\ resources = {}

TablesTypeOK ==
  /\ status \in [Runs -> Statuses]
  /\ startedAt \in [Runs -> BOOLEAN]
  /\ resourceId \in [Runs -> Resources \cup {NoResource}]
  /\ queueEntry \in [Runs -> {"none", "waiting", "running"}]
  /\ position \in [Runs -> Nat]
  /\ lockRow \in [Rows -> {"none", "held", "released"}]
  /\ resources \subseteq Resources

(***************************************************************************)
(* run.status = new; commit(), by a session that had loaded the status     *)
(* seen: no UPDATE of the column when nothing changed for the session.     *)
(***************************************************************************)
WriteStatus(r, seen, new) ==
  status' = IF seen = new THEN status ELSE [status EXCEPT ![r] = new]

Held(x) == lockRow[x] = "held"

\* Unreleased locks of the resource that run r asked for.
HeldFor(r) == {x \in Rows : Held(x) /\ ResourceOf[x[1]] = ResourceOf[r]}

\* Entries of the queue of the resource that run r asked for.
EntriesFor(r) ==
  {q \in Runs : queueEntry[q] # "none" /\ ResourceOf[q] = ResourceOf[r]}

WaitingFor(r) == {q \in EntriesFor(r) : queueEntry[q] = "waiting"}
=============================================================================
