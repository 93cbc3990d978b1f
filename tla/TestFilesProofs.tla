-------------------------- MODULE TestFilesProofs --------------------------
(***************************************************************************)
(* Proofs about TestFiles, for files of any length and depth: both line    *)
(* scanners list the tests of a file, the plain ones under the ids that    *)
(* pytest gives them.                                                      *)
(*                                                                         *)
(* A file is what was read so far, so that the argument is an invariant:   *)
(* the current class of a scanner is the last test class at column 0,      *)
(* unless a line that resets it came after (Tracks).  What encloses an     *)
(* indented test begins with the last line at column 0: if that is the     *)
(* class of the test, nothing can have reset it since; if that is a block, *)
(* it has reset the class.  What is pending is the number of markers in    *)
(* the run of decorators that was just read.                               *)
(***************************************************************************)
EXTENDS TestFiles, FiniteSetTheorems, SequenceTheorems, TLAPS

\* What current_class says after the lines t.
Tracks(t, class, keeps) ==
  /\ class = 0 =>
       \A j \in 1..Len(t) : OpensClass(t[j]) =>
         \E k \in (j + 1)..Len(t) : Resets(t[k], keeps)
  /\ class # 0 =>
       /\ class \in 1..Len(t) /\ OpensClass(t[class])
       /\ \A k \in (class + 1)..Len(t) :
            ~Resets(t[k], keeps) /\ ~OpensClass(t[k])

NodeidKeeps == {"Class"}
MarkerKeeps == {"Class"} \cup Decorators

\* There is a last line at column 0, 0 if there is none.
LastAtColumn0(t) ==
  \E l \in 0..Len(t) : /\ l > 0 => t[l].depth = 0
                       /\ \A k \in (l + 1)..Len(t) : t[k].depth > 0

\* The markers that the next line would have.
Pending == MarksAbove(Len(text) + 1)

ScanInv ==
  /\ text \in Seq(Lines) /\ LastAtColumn0(text)
  /\ found.ids \in Seq(Nat \X Nat) /\ marked.ids \in Seq(Nat \X Nat)
  /\ found.class \in Nat /\ marked.class \in Nat
  /\ Tracks(text, found.class, NodeidKeeps)
  /\ Tracks(text, marked.class, MarkerKeeps)
  /\ IsFiniteSet(Pending) /\ marked.pending = Cardinality(Pending)
  /\ NodeidsAreCollected /\ MarkedAreDiscovered

-----------------------------------------------------------------------------
\* One more line.
LEMMA AppendLine ==
  ASSUME NEW t \in Seq(Lines), NEW line \in Lines, NEW u, u = Append(t, line)
  PROVE  /\ u \in Seq(Lines) /\ Len(u) = Len(t) + 1 /\ Len(t) \in Nat
         /\ u[Len(t) + 1] = line /\ \A i \in 1..Len(t) : u[i] = t[i]
         /\ DOMAIN u = 1..(Len(t) + 1) /\ DOMAIN t = 1..Len(t)
OBVIOUS

\* Reading a line keeps track of the class.
LEMMA TracksStep ==
  ASSUME NEW t \in Seq(Lines), NEW line \in Lines, NEW keeps,
         NEW class \in Nat, Tracks(t, class, keeps)
  PROVE  LET after == ClassAfter(class, line, Len(t) + 1, keeps) IN
         after \in Nat /\ Tracks(Append(t, line), after, keeps)
<1> DEFINE u == Append(t, line)
           after == ClassAfter(class, line, Len(t) + 1, keeps)
<1>1. /\ Len(u) = Len(t) + 1 /\ Len(t) \in Nat /\ u[Len(t) + 1] = line
      /\ \A i \in 1..Len(t) : u[i] = t[i]
  BY AppendLine
<1>2. ~(OpensClass(line) /\ Resets(line, keeps))
  BY DEF OpensClass, Resets
<1> HIDE DEF u
<1>3. CASE OpensClass(line)
  BY <1>1, <1>3 DEF Tracks, ClassAfter
<1>4. CASE Resets(line, keeps)
  <2>1. after = 0
    BY <1>2, <1>4 DEF ClassAfter
  <2>2. ASSUME NEW j \in 1..Len(u), OpensClass(u[j])
        PROVE  \E k \in (j + 1)..Len(u) : Resets(u[k], keeps)
    <3>1. j # Len(t) + 1
      BY <2>2, <1>1, <1>2, <1>4
    <3> QED BY <3>1, <1>1, <1>4
  <2> QED BY <2>1, <2>2 DEF Tracks, u
<1>5. CASE ~OpensClass(line) /\ ~Resets(line, keeps)
  <2>1. after = class
    BY <1>5 DEF ClassAfter
  <2>2. CASE class = 0
    <3>1. ASSUME NEW j \in 1..Len(u), OpensClass(u[j])
          PROVE  \E k \in (j + 1)..Len(u) : Resets(u[k], keeps)
      <4>1. j \in 1..Len(t) /\ OpensClass(t[j])
        BY <3>1, <1>1, <1>5
      <4>2. PICK k \in (j + 1)..Len(t) : Resets(t[k], keeps)
        BY <4>1, <2>2 DEF Tracks
      <4> QED BY <4>1, <4>2, <1>1
    <3> QED BY <2>1, <2>2, <3>1 DEF Tracks, u
  <2>3. CASE class # 0
    <3>1. /\ class \in 1..Len(t) /\ OpensClass(t[class])
          /\ \A k \in (class + 1)..Len(t) :
               ~Resets(t[k], keeps) /\ ~OpensClass(t[k])
      BY <2>3 DEF Tracks
    <3>2. class \in 1..Len(u) /\ OpensClass(u[class])
      BY <3>1, <1>1
    <3>3. ASSUME NEW k \in (class + 1)..Len(u)
          PROVE  ~Resets(u[k], keeps) /\ ~OpensClass(u[k])
      BY <3>1, <1>1, <1>5
    <3> QED BY <2>1, <2>3, <3>2, <3>3 DEF Tracks, u
  <2> QED BY <2>2, <2>3
<1> QED BY <1>3, <1>4, <1>5 DEF u

LEMMA LastStep ==
  ASSUME NEW t \in Seq(Lines), NEW line \in Lines, LastAtColumn0(t)
  PROVE  LastAtColumn0(Append(t, line))
<1> DEFINE u == Append(t, line)
<1>1. /\ Len(u) = Len(t) + 1 /\ Len(t) \in Nat /\ u[Len(t) + 1] = line
      /\ \A i \in 1..Len(t) : u[i] = t[i]
  BY AppendLine
<1> HIDE DEF u
<1>2. CASE line.depth = 0
  BY <1>1, <1>2 DEF LastAtColumn0, u
<1>3. CASE line.depth > 0
  <2>1. PICK l \in 0..Len(t) : /\ l > 0 => t[l].depth = 0
                               /\ \A k \in (l + 1)..Len(t) : t[k].depth > 0
    BY DEF LastAtColumn0
  <2>2. l \in 0..Len(u) /\ (l > 0 => u[l].depth = 0)
    BY <1>1, <2>1
  <2>3. \A k \in (l + 1)..Len(u) : u[k].depth > 0
    BY <1>1, <1>3, <2>1
  <2> QED BY <2>2, <2>3 DEF LastAtColumn0, u
<1> QED BY <1>2, <1>3 DEF Lines

-----------------------------------------------------------------------------
\* What is said of a line does not depend on the lines to come.
LEMMA Stable ==
  ASSUME text \in Seq(Lines), NEW line \in Lines, text' = Append(text, line),
         NEW i \in 1..Len(text)
  PROVE  /\ IsTest(i)' <=> IsTest(i)
         /\ IsPlain(i)' <=> IsPlain(i)
         /\ MarksAbove(i)' = MarksAbove(i)
         /\ \A id : id[2] = i => (IsCollected(id)' <=> IsCollected(id))
<1>1. \A k \in 1..i : text'[k] = text[k]
  BY AppendLine
<1>2. Enclosing(i)' = Enclosing(i)
  BY <1>1 DEF Enclosing
<1>3. Scopes(i)' = Scopes(i) /\ Scopes(i) \subseteq 1..(i - 1)
  BY <1>1, <1>2 DEF Scopes, Enclosing
<1>4. (IsTest(i)' <=> IsTest(i)) /\ MarksAbove(i)' = MarksAbove(i)
  BY <1>1 DEF IsTest, MarksAbove
<1>5. IsPlain(i)' <=> IsPlain(i)
  BY <1>1, <1>3 DEF IsPlain
<1>6. ASSUME NEW id, id[2] = i
      PROVE  IsCollected(id)' <=> IsCollected(id)
  <2>1. Scopes(i) = {id[1]} => text'[id[1]] = text[id[1]]
    BY <1>1, <1>3
  <2> QED BY <1>3, <1>6, <2>1 DEF IsCollected
<1> QED BY <1>4, <1>5, <1>6

\* A plain test on the line just read gets the id that pytest gives it.
LEMMA NewId ==
  ASSUME text \in Seq(Lines), NEW line \in Lines, text' = Append(text, line),
         line.kind = "test", NEW n, n = Len(text) + 1, IsPlain(n)',
         NEW keeps, "block" \notin keeps, LastAtColumn0(text),
         NEW class \in Nat, Tracks(text, class, keeps)
  PROVE  IsCollected(IdOf(ClassAfter(class, line, n, keeps), line, n))'
<1>1. /\ Len(text') = n /\ n \in Nat \ {0} /\ text'[n] = line
      /\ Len(text) = n - 1 /\ \A i \in 1..(n - 1) : text'[i] = text[i]
  BY AppendLine
<1>2. line.depth \in Nat /\ \A i \in 1..(n - 1) : text[i].depth \in Nat
  <2>1. \A i \in 1..(n - 1) : text[i] \in Lines
    BY <1>1
  <2> QED BY <2>1 DEF Lines
<1>3. Scopes(n)' =
        {j \in 1..(n - 1) :
           /\ \A k \in (j + 1)..n : text'[j].depth < text'[k].depth
           /\ text'[j].kind # "block"}
  BY DEF Scopes, Enclosing
<1>4. CASE line.depth = 0
  <2>1. Scopes(n)' = {}
    BY <1>1, <1>2, <1>3, <1>4
  <2>2. IdOf(ClassAfter(class, line, n, keeps), line, n) = <<0, n>>
    BY <1>4 DEF IdOf
  <2> QED BY <2>1, <2>2 DEF IsCollected
<1>5. CASE line.depth > 0
  <2>1. IdOf(ClassAfter(class, line, n, keeps), line, n) = <<class, n>>
    BY <1>5 DEF IdOf, ClassAfter, OpensClass, Resets
  <2>2. CASE Scopes(n)' = {}
    <3>1. PICK l \in 0..(n - 1) :
            /\ l > 0 => text[l].depth = 0
            /\ \A k \in (l + 1)..(n - 1) : text[k].depth > 0
      BY <1>1 DEF LastAtColumn0
    <3>2. ASSUME l > 0 PROVE Resets(text[l], keeps)
      <4>1. l \in 1..(n - 1) /\ text'[l] = text[l] /\ text[l].depth = 0
        BY <3>1, <3>2, <1>1
      <4>2. \A k \in (l + 1)..n : text'[l].depth < text'[k].depth
        BY <4>1, <3>1, <1>1, <1>5
      <4>3. text[l].kind = "block"
        BY <4>1, <4>2, <1>3, <2>2
      <4> QED BY <4>1, <4>3 DEF Resets
    <3>3. ASSUME class # 0 PROVE FALSE
      <4>1. /\ class \in 1..(n - 1) /\ OpensClass(text[class])
            /\ \A k \in (class + 1)..(n - 1) : ~Resets(text[k], keeps)
        BY <3>3, <1>1 DEF Tracks
      <4>2. text[class].depth = 0 /\ ~Resets(text[class], keeps)
        BY <4>1 DEF OpensClass, Resets
      <4>3. ~(l < class)
        BY <3>1, <4>1, <4>2
      <4>4. l > 0 /\ l # class /\ ~(l > class)
        BY <3>1, <3>2, <4>1, <4>2, <4>3
      <4> QED BY <3>1, <4>1, <4>3, <4>4
    <3> QED BY <2>1, <2>2, <3>3 DEF IsCollected
  <2>3. CASE \E j \in 1..(n - 1) : Scopes(n)' = {j} /\ OpensClass(text'[j])
    <3>1. PICK j \in 1..(n - 1) : Scopes(n)' = {j} /\ OpensClass(text'[j])
      BY <2>3
    <3>2. text'[j] = text[j] /\ text[j].depth = 0 /\ text'[j].kind = "TestClass"
      BY <3>1, <1>1 DEF OpensClass
    <3>3. \A k \in (j + 1)..(n - 1) : text[k].depth > 0
      <4>1. j \in Scopes(n)'
        BY <3>1
      <4>2. \A k \in (j + 1)..n : text'[j].depth < text'[k].depth
        BY <4>1, <1>3
      <4> QED BY <4>2, <3>2, <1>1
    <3>4. class # 0
      BY <3>1, <3>2, <3>3, <1>1 DEF Tracks, Resets
    <3>5. /\ class \in 1..(n - 1) /\ text[class].depth = 0
          /\ \A k \in (class + 1)..(n - 1) : ~OpensClass(text[k])
      BY <3>4, <1>1 DEF Tracks, OpensClass
    <3>6. ~(class < j) /\ ~(j < class)
      BY <3>1, <3>2, <3>3, <3>5
    <3>7. class = j
      BY <3>5, <3>6
    <3> QED BY <2>1, <3>1, <3>2, <3>4, <3>7 DEF IsCollected
  <2> QED BY <2>2, <2>3 DEF IsPlain
<1> QED BY <1>2, <1>4, <1>5

-----------------------------------------------------------------------------
\* The list new is old and c times the id, of line n + 1; that is how often
\* after says the line is listed, and times what is said of the lines before.
IsNext(new, after, old, times, n, c, id) ==
  /\ Len(new) = Len(old) + c /\ \A i \in 1..Len(old) : new[i] = old[i]
  /\ \A i \in (Len(old) + 1)..Len(new) : new[i] = id
  /\ id[2] = n + 1
  /\ DOMAIN times = 1..n /\ DOMAIN after = 1..(n + 1)
  /\ \A m \in 1..n : after[m] = times[m]
  /\ after[n + 1] = c

\* A list gets the line just read c times.
LEMMA ListsStep ==
  ASSUME text \in Seq(Lines), NEW line \in Lines, text' = Append(text, line),
         NEW n \in Nat, n = Len(text), NEW c \in Nat,
         NEW old \in Seq(Nat \X Nat), NEW new \in Seq(Nat \X Nat),
         NEW id, NEW times, NEW after,
         IsNext(new, after, old, times, n, c, id),
         c > 0 /\ IsPlain(n + 1)' => IsCollected(id)',
         Lists(old, times)
  PROVE  Lists(new, after)'
<1>0. /\ \A i \in 1..Len(old) : new[i] = old[i]
      /\ \A i \in (Len(old) + 1)..Len(new) : new[i] = id
      /\ id[2] = n + 1
      /\ DOMAIN times = 1..n /\ DOMAIN after = 1..(n + 1)
      /\ \A m \in 1..n : after[m] = times[m]
      /\ after[n + 1] = c
  BY DEF IsNext
<1>1. /\ DOMAIN old = 1..Len(old) /\ DOMAIN new = 1..Len(new)
      /\ \A i \in 1..Len(old) : i \in 1..Len(new)
      /\ \A i \in (Len(old) + 1)..Len(new) : i \in 1..Len(new)
      /\ \A i \in 1..Len(new) :
           i \in 1..Len(old) \/ (i \in (Len(old) + 1)..Len(new) /\ c > 0)
      /\ \A i \in 1..Len(new), j \in 1..Len(old) : i < j => i \in 1..Len(old)
      /\ Cardinality((Len(old) + 1)..Len(new)) = c
  <2>0. Len(old) \in Nat /\ Len(new) \in Nat
    OBVIOUS
  <2>1. PICK a \in Nat, b \in Nat : a = Len(old) /\ b = Len(new)
    BY <2>0
  <2>2. b = a + c
    BY <2>1 DEF IsNext
  <2>3. Cardinality((a + 1)..b) = c
    <3>1. Cardinality((a + 1)..b) = IF a + 1 > b THEN 0 ELSE b - (a + 1) + 1
      BY FS_Interval
    <3> QED BY <3>1, <2>2
  <2>4. /\ \A i \in 1..a : i \in 1..b
        /\ \A i \in (a + 1)..b : i \in 1..b
        /\ \A i \in 1..b : i \in 1..a \/ (i \in (a + 1)..b /\ c > 0)
        /\ \A i \in 1..b, j \in 1..a : i < j => i \in 1..a
    BY <2>2
  <2>5. DOMAIN old = 1..Len(old) /\ DOMAIN new = 1..Len(new)
    OBVIOUS
  <2> QED BY <2>1, <2>3, <2>4, <2>5, Zenon
<1>2. /\ \A i \in 1..Len(old) : /\ old[i][2] \in 1..n
                                /\ IsPlain(old[i][2]) => IsCollected(old[i])
      /\ \A m \in 1..n :
           Cardinality({i \in 1..Len(old) : old[i][2] = m}) = times[m]
      /\ \A i, j \in 1..Len(old) : i < j => old[i][2] <= old[j][2]
  BY <1>0, <1>1 DEF Lists
<1>3. ASSUME NEW i \in 1..Len(new)
      PROVE  \/ i \in 1..Len(old) /\ new[i] = old[i] /\ new[i][2] \in 1..n
             \/ /\ i \in (Len(old) + 1)..Len(new) /\ c > 0
                /\ new[i] = id /\ new[i][2] = n + 1
  BY <1>0, <1>1, <1>2, Zenon
<1>4. ASSUME NEW i \in 1..Len(new)
      PROVE  /\ new[i][2] \in 1..(n + 1)
             /\ IsPlain(new[i][2])' => IsCollected(new[i])'
  <2>1. CASE i \in 1..Len(old)
    <3>1. new[i] = old[i] /\ old[i][2] \in 1..n
      BY <2>1, <1>0, <1>2
    <3>2. PICK m \in 1..n : old[i][2] = m
      BY <3>1
    <3>3. /\ IsPlain(m)' <=> IsPlain(m)
          /\ IsCollected(old[i])' <=> IsCollected(old[i])
      BY <3>2, Stable
    <3>4. IsPlain(m) => IsCollected(old[i])
      BY <2>1, <3>2, <1>2
    <3> QED BY <3>1, <3>2, <3>3, <3>4
  <2>2. CASE i \notin 1..Len(old)
    <3>1. c > 0 /\ new[i] = id
      BY <2>2, <1>3
    <3> QED BY <3>1, <1>0
  <2> QED BY <2>1, <2>2
<1>5. ASSUME NEW m \in 1..(n + 1)
      PROVE  Cardinality({i \in 1..Len(new) : new[i][2] = m}) = after[m]
  <2>1. CASE m \in 1..n
    <3>1. m # n + 1
      BY <2>1
    <3>2. \A i \in 1..Len(new) :
            new[i][2] = m => i \in 1..Len(old) /\ old[i][2] = m
      BY <3>1, <1>3
    <3>3. {i \in 1..Len(new) : new[i][2] = m}
            = {i \in 1..Len(old) : old[i][2] = m}
      BY <3>2, <1>0, <1>1, Zenon
    <3> QED BY <2>1, <3>3, <1>0, <1>2
  <2>2. CASE m = n + 1
    <3>1. ~(m \in 1..n)
      BY <2>2
    <3>2. \A i \in 1..Len(new) :
            new[i][2] = m => i \in (Len(old) + 1)..Len(new)
      BY <3>1, <1>3
    <3>3. {i \in 1..Len(new) : new[i][2] = m} = (Len(old) + 1)..Len(new)
      BY <3>2, <2>2, <1>0, <1>1, Zenon
    <3>4. after[m] = c
      BY <2>2, <1>0
    <3>5. Cardinality((Len(old) + 1)..Len(new)) = c
      BY <1>1
    <3> QED BY <3>3, <3>4, <3>5
  <2>3. m \in 1..n \/ m = n + 1
    OBVIOUS
  <2> QED BY <2>1, <2>2, <2>3, Zenon
<1>6. ASSUME NEW i \in 1..Len(new), NEW j \in 1..Len(new), i < j
      PROVE  new[i][2] <= new[j][2]
  <2>1. CASE j \in 1..Len(old)
    <3>1. i \in 1..Len(old)
      BY <1>1, <1>6, <2>1
    <3> QED BY <1>0, <1>2, <1>6, <2>1, <3>1
  <2>2. CASE j \notin 1..Len(old)
    <3>1. new[j][2] = n + 1
      BY <1>3, <1>6, <2>2
    <3>2. new[i][2] \in 1..(n + 1)
      BY <1>4
    <3> QED BY <3>1, <3>2
  <2> QED BY <2>1, <2>2
<1> QED BY <1>0, <1>1, <1>4, <1>5, <1>6 DEF Lists

-----------------------------------------------------------------------------
LEMMA InitInv == InitScan => ScanInv
<1> SUFFICES ASSUME InitScan PROVE ScanInv
  OBVIOUS
<1>1. text = <<>> /\ found.ids = <<>> /\ marked.ids = <<>>
  BY DEF InitScan
<1>2. found.class = 0 /\ marked.class = 0 /\ marked.pending = 0
  BY DEF InitScan
<1>3. NodeidsAreCollected /\ MarkedAreDiscovered
  BY <1>1 DEF NodeidsAreCollected, MarkedAreDiscovered, Lists
<1>4. /\ text \in Seq(Lines) /\ Len(text) = 0
      /\ found.ids \in Seq(Nat \X Nat) /\ marked.ids \in Seq(Nat \X Nat)
  BY <1>1
<1>5. /\ Tracks(text, found.class, NodeidKeeps)
      /\ Tracks(text, marked.class, MarkerKeeps) /\ LastAtColumn0(text)
  BY <1>2, <1>4 DEF Tracks, LastAtColumn0
<1>6. Pending = {}
  BY <1>4 DEF Pending, MarksAbove
<1> QED BY <1>2, <1>3, <1>4, <1>5, <1>6, FS_EmptySet DEF ScanInv

\* The first scanner reads a line: it lists a test once.
LEMMA NodeidStep ==
  ASSUME ScanInv, NEW line \in Lines, ReadLine(line)
  PROVE  /\ found'.ids \in Seq(Nat \X Nat) /\ found'.class \in Nat
         /\ Tracks(text', found'.class, NodeidKeeps) /\ NodeidsAreCollected'
<1>1. /\ text \in Seq(Lines) /\ found.ids \in Seq(Nat \X Nat)
      /\ found.class \in Nat /\ Tracks(text, found.class, NodeidKeeps)
      /\ LastAtColumn0(text) /\ NodeidsAreCollected
  BY DEF ScanInv
<1>2. PICK n \in Nat, old \in Seq(Nat \X Nat), class \in Nat :
        n = Len(text) /\ old = found.ids /\ class = found.class
  BY <1>1
<1>3. PICK now : now = ClassAfter(class, line, n + 1, NodeidKeeps)
  OBVIOUS
<1>4. PICK id : id = IdOf(now, line, n + 1)
  OBVIOUS
<1>5. PICK new : new = IF line.kind = "test" THEN Append(old, id) ELSE old
  OBVIOUS
<1>6. text' = Append(text, line) /\ found' = [class |-> now, ids |-> new]
  BY <1>2, <1>3, <1>4, <1>5 DEF ReadLine, NodeidLine, NodeidKeeps
<1>7. /\ text' \in Seq(Lines) /\ text'[n + 1] = line
      /\ \A i \in 1..n : text'[i] = text[i]
      /\ DOMAIN text = 1..n /\ DOMAIN text' = 1..(n + 1)
  BY <1>1, <1>2, <1>6, AppendLine
<1>8. now \in Nat /\ Tracks(text', now, NodeidKeeps)
  BY <1>1, <1>2, <1>3, <1>6, TracksStep
<1>9. id \in Nat \X Nat /\ id[2] = n + 1
  BY <1>4, <1>8 DEF IdOf
<1>10. PICK c \in Nat : c = IF line.kind = "test" THEN 1 ELSE 0
  OBVIOUS
<1>11. /\ new \in Seq(Nat \X Nat) /\ Len(new) = Len(old) + c
       /\ \A i \in 1..Len(old) : new[i] = old[i]
       /\ \A i \in (Len(old) + 1)..Len(new) : new[i] = id
  BY <1>5, <1>9, <1>10
<1>12. c > 0 /\ IsPlain(n + 1)' => IsCollected(id)'
  <2> SUFFICES ASSUME c > 0, IsPlain(n + 1)' PROVE IsCollected(id)'
    OBVIOUS
  <2>1. line.kind = "test" /\ "block" \notin NodeidKeeps
    BY <1>10 DEF NodeidKeeps
  <2> QED BY <1>1, <1>2, <1>3, <1>4, <1>6, <2>1, NewId
<1>13. PICK times :
         times = [m \in DOMAIN text |-> IF IsTest(m) THEN 1 ELSE 0]
  OBVIOUS
<1>14. PICK after :
         after = [m \in DOMAIN text' |-> IF IsTest(m)' THEN 1 ELSE 0]
  OBVIOUS
<1>15. /\ DOMAIN times = 1..n /\ DOMAIN after = 1..(n + 1)
       /\ \A m \in 1..n : after[m] = times[m]
       /\ after[n + 1] = c /\ Lists(old, times)
  BY <1>1, <1>2, <1>7, <1>10, <1>13, <1>14 DEF IsTest, NodeidsAreCollected
<1>16. Lists(new, after)'
  <2>1. text \in Seq(Lines) /\ text' = Append(text, line) /\ n = Len(text)
    BY <1>1, <1>2, <1>6
  <2>2. /\ n \in Nat /\ c \in Nat /\ old \in Seq(Nat \X Nat)
        /\ new \in Seq(Nat \X Nat) /\ Lists(old, times)
        /\ IsNext(new, after, old, times, n, c, id)
    BY <1>9, <1>11, <1>15 DEF IsNext
  <2> QED BY <2>1, <2>2, <1>12, ListsStep, ZenonT(30)
<1>17. NodeidsAreCollected'
  <2>1. [m \in DOMAIN text |-> IF IsTest(m) THEN 1 ELSE 0]' = after
    BY <1>14
  <2>2. found'.ids = new
    BY <1>6
  <2> QED BY <2>1, <2>2, <1>16, ZenonT(30) DEF NodeidsAreCollected, Lists
<1> QED BY <1>6, <1>8, <1>11, <1>17

\* The second scanner reads a line: it lists a test once for each marker that
\* is pending.
LEMMA MarkerStep ==
  ASSUME ScanInv, NEW line \in Lines, ReadLine(line)
  PROVE  /\ marked'.ids \in Seq(Nat \X Nat) /\ marked'.class \in Nat
         /\ Tracks(text', marked'.class, MarkerKeeps) /\ MarkedAreDiscovered'
<1>1. /\ text \in Seq(Lines) /\ marked.ids \in Seq(Nat \X Nat)
      /\ marked.class \in Nat /\ Tracks(text, marked.class, MarkerKeeps)
      /\ LastAtColumn0(text) /\ MarkedAreDiscovered
      /\ IsFiniteSet(Pending) /\ marked.pending = Cardinality(Pending)
  BY DEF ScanInv
<1>2. marked.pending \in Nat
  BY <1>1, FS_CardinalityType
<1>3. PICK n \in Nat, old \in Seq(Nat \X Nat), class \in Nat,
           pending \in Nat :
        /\ n = Len(text) /\ old = marked.ids /\ class = marked.class
        /\ pending = marked.pending
  BY <1>1, <1>2
<1>4. PICK now : now = ClassAfter(class, line, n + 1, MarkerKeeps)
  OBVIOUS
<1>5. PICK id : id = IdOf(now, line, n + 1)
  OBVIOUS
<1>6. PICK new : new = IF line.kind = "test"
                       THEN old \o [m \in 1..pending |-> id] ELSE old
  OBVIOUS
<1>7. text' = Append(text, line) /\ marked'.class = now /\ marked'.ids = new
  BY <1>3, <1>4, <1>5, <1>6 DEF ReadLine, MarkerLine, MarkerKeeps
<1>8. /\ text' \in Seq(Lines) /\ text'[n + 1] = line
      /\ \A i \in 1..n : text'[i] = text[i]
      /\ DOMAIN text = 1..n /\ DOMAIN text' = 1..(n + 1)
  BY <1>1, <1>3, <1>7, AppendLine
<1>9. now \in Nat /\ Tracks(text', now, MarkerKeeps)
  BY <1>1, <1>3, <1>4, <1>7, TracksStep
<1>10. id \in Nat \X Nat /\ id[2] = n + 1
  BY <1>5, <1>9 DEF IdOf
<1>11. PICK c \in Nat : c = IF line.kind = "test" THEN pending ELSE 0
  OBVIOUS
<1>12. /\ new \in Seq(Nat \X Nat) /\ Len(new) = Len(old) + c
       /\ \A i \in 1..Len(old) : new[i] = old[i]
       /\ \A i \in (Len(old) + 1)..Len(new) : new[i] = id
  <2>1. PICK more : more = [m \in 1..pending |-> id]
    OBVIOUS
  <2>2. more \in Seq(Nat \X Nat) /\ Len(more) = pending
        /\ \A m \in 1..pending : more[m] = id
    BY <2>1, <1>10
  <2>3. /\ old \o more \in Seq(Nat \X Nat)
        /\ Len(old \o more) = Len(old) + pending
        /\ \A i \in 1..Len(old) : (old \o more)[i] = old[i]
        /\ \A i \in (Len(old) + 1)..(Len(old) + pending) :
             (old \o more)[i] = more[i - Len(old)]
    BY <2>2, ConcatProperties
  <2>4. \A i \in (Len(old) + 1)..(Len(old) + pending) :
          i - Len(old) \in 1..pending
    OBVIOUS
  <2>5. CASE line.kind = "test"
    BY <2>2, <2>3, <2>4, <2>1, <2>5, <1>6, <1>11
  <2>6. CASE line.kind # "test"
    BY <2>6, <1>6, <1>11
  <2> QED BY <2>5, <2>6
<1>13. c > 0 /\ IsPlain(n + 1)' => IsCollected(id)'
  <2> SUFFICES ASSUME c > 0, IsPlain(n + 1)' PROVE IsCollected(id)'
    OBVIOUS
  <2>1. line.kind = "test" /\ "block" \notin MarkerKeeps
    BY <1>11 DEF MarkerKeeps, Decorators
  <2> QED BY <1>1, <1>3, <1>4, <1>5, <1>7, <2>1, NewId
<1>14. Cardinality(MarksAbove(n + 1)') = pending
  <2>1. MarksAbove(n + 1)' = MarksAbove(n + 1)
    <3>1. (n + 1) - 1 = n
      OBVIOUS
    <3> QED BY <1>8, <3>1 DEF MarksAbove
  <2> QED BY <2>1, <1>1, <1>3 DEF Pending
<1>15. PICK times :
         times = [m \in DOMAIN text |->
                    IF IsTest(m) THEN Cardinality(MarksAbove(m)) ELSE 0]
  OBVIOUS
<1>16. PICK after :
         after = [m \in DOMAIN text' |->
                    IF IsTest(m)' THEN Cardinality(MarksAbove(m)') ELSE 0]
  OBVIOUS
<1>17. /\ DOMAIN times = 1..n /\ DOMAIN after = 1..(n + 1)
       /\ \A m \in 1..n : after[m] = times[m]
       /\ after[n + 1] = c /\ Lists(old, times)
  <2>1. /\ DOMAIN times = 1..n /\ DOMAIN after = 1..(n + 1)
        /\ Lists(old, times)
    BY <1>1, <1>3, <1>8, <1>15, <1>16 DEF MarkedAreDiscovered
  <2>2. ASSUME NEW m \in 1..n PROVE after[m] = times[m]
    <3>1. (IsTest(m)' <=> IsTest(m)) /\ MarksAbove(m)' = MarksAbove(m)
      BY <1>1, <1>3, <1>7, Stable
    <3> QED BY <3>1, <1>8, <1>15, <1>16
  <2>3. after[n + 1] = c
    BY <1>8, <1>11, <1>14, <1>16 DEF IsTest
  <2> QED BY <2>1, <2>2, <2>3
<1>18. Lists(new, after)'
  <2>1. text \in Seq(Lines) /\ text' = Append(text, line) /\ n = Len(text)
    BY <1>1, <1>3, <1>7
  <2>2. /\ n \in Nat /\ c \in Nat /\ old \in Seq(Nat \X Nat)
        /\ new \in Seq(Nat \X Nat) /\ Lists(old, times)
        /\ IsNext(new, after, old, times, n, c, id)
    BY <1>10, <1>12, <1>17 DEF IsNext
  <2> QED BY <2>1, <2>2, <1>13, ListsStep, ZenonT(30)
<1>19. MarkedAreDiscovered'
  <2>1. [m \in DOMAIN text |->
           IF IsTest(m) THEN Cardinality(MarksAbove(m)) ELSE 0]' = after
    BY <1>16
  <2> QED BY <2>1, <1>7, <1>18, ZenonT(30) DEF MarkedAreDiscovered, Lists
<1> QED BY <1>7, <1>9, <1>12, <1>19

\* What is pending is what a decorator added to and another line cleared.
LEMMA PendingStep ==
  ASSUME ScanInv, NEW line \in Lines, ReadLine(line)
  PROVE  IsFiniteSet(Pending') /\ marked'.pending = Cardinality(Pending')
<1>1. /\ text \in Seq(Lines) /\ text' = Append(text, line)
      /\ IsFiniteSet(Pending) /\ marked.pending = Cardinality(Pending)
  BY DEF ScanInv, ReadLine
<1>2. PICK n \in Nat : n = Len(text)
  BY <1>1
<1>3. /\ Len(text') = n + 1 /\ text'[n + 1] = line
      /\ \A i \in 1..n : text'[i] = text[i]
  BY <1>1, <1>2, AppendLine
<1>4. Pending = {j \in 1..n : /\ text[j].kind = "mark"
                              /\ \A k \in j..n : text[k].kind \in Decorators}
  BY <1>2 DEF Pending, MarksAbove
<1>5. Pending' =
        {j \in 1..(n + 1) :
           /\ text'[j].kind = "mark"
           /\ \A k \in j..(n + 1) : text'[k].kind \in Decorators}
  BY <1>3 DEF Pending, MarksAbove
<1>6. marked'.pending = CASE line.kind = "mark" -> marked.pending + 1
                          [] line.kind = "decorator" -> marked.pending
                          [] OTHER -> 0
  BY DEF ReadLine, MarkerLine
<1>7. CASE line.kind = "mark"
  <2>1. n + 1 \notin Pending /\ n + 1 \in Pending'
    BY <1>3, <1>4, <1>5, <1>7 DEF Decorators
  <2>2. ASSUME NEW j \in 1..n PROVE j \in Pending' <=> j \in Pending
    BY <1>3, <1>4, <1>5, <1>7 DEF Decorators
  <2>3. Pending' = Pending \cup {n + 1}
    <3>1. Pending \subseteq 1..n /\ Pending' \subseteq 1..n \cup {n + 1}
      BY <1>4, <1>5
    <3> QED BY <2>1, <2>2, <3>1
  <2>4. marked'.pending = marked.pending + 1
    BY <1>6, <1>7
  <2>5. /\ IsFiniteSet(Pending \cup {n + 1})
        /\ Cardinality(Pending \cup {n + 1}) = Cardinality(Pending) + 1
    BY <2>1, <1>1, FS_AddElement
  <2> QED BY <2>3, <2>4, <2>5, <1>1
<1>8. CASE line.kind = "decorator"
  <2>1. Pending' = Pending
    BY <1>3, <1>4, <1>5, <1>8 DEF Decorators
  <2> QED BY <2>1, <1>1, <1>6, <1>8
<1>9. CASE line.kind \notin Decorators
  <2>1. Pending' = {}
    BY <1>3, <1>5, <1>9
  <2>2. marked'.pending = 0
    BY <1>6, <1>9 DEF Decorators
  <2> QED BY <2>1, <2>2, FS_EmptySet
<1> QED BY <1>7, <1>8, <1>9 DEF Decorators

-----------------------------------------------------------------------------
LEMMA Step == ScanInv /\ [\E line \in Lines : ReadLine(line)]_scan => ScanInv'
<1> SUFFICES ASSUME ScanInv, [\E line \in Lines : ReadLine(line)]_scan
             PROVE  ScanInv'
  OBVIOUS
<1>1. ASSUME NEW line \in Lines, ReadLine(line) PROVE ScanInv'
  <2>1. text' \in Seq(Lines) /\ LastAtColumn0(text')
    BY <1>1, AppendLine, LastStep DEF ReadLine, ScanInv
  <2> QED BY <1>1, <2>1, NodeidStep, MarkerStep, PendingStep DEF ScanInv
<1>2. CASE UNCHANGED scan
  <2>1. UNCHANGED <<text, found, marked>>
    BY <1>2 DEF scan
  <2>2. NodeidsAreCollected' /\ MarkedAreDiscovered'
    <3>1. \A i : /\ IsTest(i)' <=> IsTest(i) /\ MarksAbove(i)' = MarksAbove(i)
                 /\ Scopes(i)' = Scopes(i)
      BY <2>1 DEF IsTest, MarksAbove, Scopes, Enclosing
    <3>2. \A i : IsPlain(i)' <=> IsPlain(i)
      BY <2>1, <3>1 DEF IsPlain
    <3>3. \A id : IsCollected(id)' <=> IsCollected(id)
      BY <2>1, <3>1 DEF IsCollected
    <3>4. \A ids, times : Lists(ids, times)' <=> Lists(ids, times)
      BY <3>2, <3>3 DEF Lists
    <3>5. [n \in DOMAIN text |-> IF IsTest(n) THEN 1 ELSE 0]'
            = [n \in DOMAIN text |-> IF IsTest(n) THEN 1 ELSE 0]
      BY <2>1 DEF IsTest
    <3>6. [n \in DOMAIN text |->
             IF IsTest(n) THEN Cardinality(MarksAbove(n)) ELSE 0]'
            = [n \in DOMAIN text |->
                 IF IsTest(n) THEN Cardinality(MarksAbove(n)) ELSE 0]
      BY <2>1 DEF IsTest, MarksAbove
    <3>7. found'.ids = found.ids /\ marked'.ids = marked.ids
      BY <2>1
    <3> QED BY <3>4, <3>5, <3>6, <3>7, ZenonT(30)
            DEF ScanInv, NodeidsAreCollected, MarkedAreDiscovered
  <2>3. Pending' = Pending
    BY <2>1 DEF Pending, MarksAbove
  <2> QED BY <2>1, <2>2, <2>3 DEF ScanInv
<1> QED BY <1>1, <1>2

THEOREM ScanInvariance == ScanSpec => []ScanInv
  BY InitInv, Step, PTL DEF ScanSpec

\* Every test of a file is listed once and in order, the plain ones under the
\* ids that pytest gives them (_discover_nodeids_from_file,
\* routes.py:1024-1045), for every file.
THEOREM Nodeids == ScanSpec => []NodeidsAreCollected
<1>1. ScanInv => NodeidsAreCollected
  BY DEF ScanInv
<1> QED BY <1>1, ScanInvariance, PTL

\* The second scanner lists a test once for each time that the marker is above
\* it, and under the same id (_discover_markers_from_files,
\* routes.py:1052-1099).
THEOREM Markers == ScanSpec => []MarkedAreDiscovered
<1>1. ScanInv => MarkedAreDiscovered
  BY DEF ScanInv
<1> QED BY <1>1, ScanInvariance, PTL
=============================================================================
