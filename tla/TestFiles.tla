----------------------------- MODULE TestFiles ------------------------------
(***************************************************************************)
(* How the platform finds the tests of a file: two scanners that read it   *)
(* line by line, one for node ids, one for the tests that carry a marker   *)
(* (backend/app/api/routes.py), next to what pytest collects of it.        *)
(*                                                                         *)
(* A line is its kind and its depth, the number of blocks it is in; a      *)
(* class and a test are named by their line, no two have the same name.    *)
(* Left out are blank lines and comments, statements and strings of more   *)
(* than one line, async tests and a class of the bare name Test.           *)
(* A file is any sequence of lines, Python or not, so that an invariant    *)
(* speaks of every file there is; the scanners read each line as it comes. *)
(***************************************************************************)
EXTENDS Naturals, Sequences, FiniteSets

Kinds == {
  "TestClass",  \* class Test...
  "Class",      \* another class
  "test",       \* def test_...
  "block",      \* if, else, try, with, for: what is in it is run
  "code",       \* anything else, another function too
  "mark",       \* @pytest.mark.<name>, for the marker of marked
  "decorator"}  \* any other decorator, of another or a builtin marker too

Decorators == {"mark", "decorator"}

Lines == [kind : Kinds, depth : Nat]

VARIABLES
  text,    \* the lines read so far
  found,   \* the first scanner: current_class (0 is None), nodeids
  marked   \* the second, for one marker: current_class, how often it is in
           \* pending_markers, its list in marker_map

scan == <<text, found, marked>>

InitScan ==
  /\ text = <<>>
  /\ found = [class |-> 0, ids |-> <<>>]
  /\ marked = [class |-> 0, pending |-> 0, ids |-> <<>>]

-----------------------------------------------------------------------------
(* The scanners *)

\* class Test... at column 0: the regular expression sees no other.
OpensClass(line) == line.kind = "TestClass" /\ line.depth = 0

\* Any other line at column 0 resets the class, but for the kinds in keeps.
Resets(line, keeps) ==
  line.depth = 0 /\ line.kind \notin keeps \cup {"TestClass"}

\* current_class after line i.
ClassAfter(class, line, i, keeps) ==
  IF OpensClass(line) THEN i ELSE IF Resets(line, keeps) THEN 0 ELSE class

\* The id of a test at line i.
IdOf(class, line, i) == <<IF line.depth > 0 THEN class ELSE 0, i>>

\* Mutant of NodeidLine: a statement does not end a class, only a def does.
NodeidLineKeeps(line, i) ==
  LET class == ClassAfter(found.class, line, i, {"Class", "block"}) IN
  [class |-> class,
   ids |-> IF line.kind = "test"
           THEN Append(found.ids, IdOf(class, line, i)) ELSE found.ids]

\* _discover_nodeids_from_file: of the lines at column 0, "class " alone
\* does not reset the class.
NodeidLine(line, i) ==
  LET class == ClassAfter(found.class, line, i, {"Class"}) IN
  [class |-> class,
   ids |-> IF line.kind = "test"
           THEN Append(found.ids, IdOf(class, line, i)) ELSE found.ids]

\* Mutant of MarkerLine: the markers of one test go on to the next.
MarkerLineKeeps(line, i) ==
  LET class == ClassAfter(marked.class, line, i, {"Class"} \cup Decorators)
      id == IdOf(class, line, i) IN
  [class |-> class,
   pending |-> CASE line.kind = "mark" -> marked.pending + 1
                 [] line.kind \in {"decorator", "test"} -> marked.pending
                 [] OTHER -> 0,
   ids |-> IF line.kind = "test"
           THEN marked.ids \o [m \in 1..marked.pending |-> id]
           ELSE marked.ids]

\* _discover_markers_from_files: a decorator does not reset the class here;
\* a test is listed once for each pending marker, and whatever is not a
\* decorator clears them.
MarkerLine(line, i) ==
  LET class == ClassAfter(marked.class, line, i, {"Class"} \cup Decorators)
      id == IdOf(class, line, i) IN
  [class |-> class,
   pending |-> CASE line.kind = "mark" -> marked.pending + 1
                 [] line.kind = "decorator" -> marked.pending
                 [] OTHER -> 0,
   ids |-> IF line.kind = "test"
           THEN marked.ids \o [m \in 1..marked.pending |-> id]
           ELSE marked.ids]

ReadLine(line) ==
  /\ text' = Append(text, line)
  /\ found' = NodeidLine(line, Len(text) + 1)
  /\ marked' = MarkerLine(line, Len(text) + 1)

ScanSpec == InitScan /\ [][\E line \in Lines : ReadLine(line)]_scan

-----------------------------------------------------------------------------
(* The reference: what pytest collects *)

\* The lines whose blocks line i is in.
Enclosing(i) ==
  {j \in 1..(i - 1) : \A k \in (j + 1)..i : text[j].depth < text[k].depth}

\* The classes and functions among them: a block has no scope of its own.
Scopes(i) == {j \in Enclosing(i) : text[j].kind # "block"}

IsTest(i) == text[i].kind = "test"

\* pytest takes the id: the test is in the test class that it names, in no
\* other class and in no function.
IsCollected(id) ==
  IF id[1] = 0 THEN Scopes(id[2]) = {}
               ELSE Scopes(id[2]) = {id[1]} /\ text[id[1]].kind = "TestClass"

\* A test of the module or of a test class at column 0.
IsPlain(i) ==
  \/ Scopes(i) = {}
  \/ \E j \in 1..(i - 1) : Scopes(i) = {j} /\ OpensClass(text[j])

\* The markers of what is at line i: they are among the decorators above it.
MarksAbove(i) ==
  {j \in 1..(i - 1) : /\ text[j].kind = "mark"
                      /\ \A k \in j..(i - 1) : text[k].kind \in Decorators}

-----------------------------------------------------------------------------
(* Properties *)

\* The list has line n times[n] times, lines in order, and whoever is plain
\* under the id that pytest takes.
Lists(ids, times) ==
  /\ \A i \in DOMAIN ids :
       /\ ids[i][2] \in DOMAIN times
       /\ IsPlain(ids[i][2]) => IsCollected(ids[i])
  /\ \A n \in DOMAIN times :
       Cardinality({i \in DOMAIN ids : ids[i][2] = n}) = times[n]
  /\ \A i, j \in DOMAIN ids : i < j => ids[i][2] <= ids[j][2]

(***************************************************************************)
(* The line scanner, which knows nothing of Python but whether a line is   *)
(* indented, lists each test of a file once, in order, and under the id    *)
(* that pytest takes if it is a test of the module or of a test class at   *)
(* column 0, whatever blocks it is in and whatever code is around it.      *)
(***************************************************************************)
NodeidsAreCollected ==
  Lists(found.ids, [n \in DOMAIN text |-> IF IsTest(n) THEN 1 ELSE 0])

(***************************************************************************)
(* The second scanner, with other rules for where a class ends, lists a    *)
(* test as often as the marker is right above it, not for the marker of    *)
(* its class, of a test before it or of other code, and under the same id. *)
(***************************************************************************)
MarkedAreDiscovered ==
  Lists(marked.ids, [n \in DOMAIN text |->
                       IF IsTest(n) THEN Cardinality(MarksAbove(n)) ELSE 0])

(***************************************************************************)
(* Every id that the line scanner finds is one that pytest takes.  This    *)
(* fails: a test-like name in a nested class, in a function, or in a class *)
(* that is no test class is listed, as a test of the class at column 0.    *)
(***************************************************************************)
OnlyCollected == \A i \in DOMAIN found.ids : IsCollected(found.ids[i])
=============================================================================
