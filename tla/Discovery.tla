----------------------------- MODULE Discovery ------------------------------
(***************************************************************************)
(* Where the tests of a run come from: test files of the server, found     *)
(* through a cache, and ZIP uploads of a client; what a client was once    *)
(* shown and selects later; and what create_run and capture_test_run make  *)
(* of a selection whose files may be gone by then (backend/app/api/        *)
(* routes.py, services/runner.py).                                         *)
(*                                                                         *)
(* One client: its uploads are apart from those of others.  The server has *)
(* one test file, which is written before the server starts.  A ZIP has    *)
(* one test file, a selection names files.                                 *)
(* Requests are atomic: each does all it does to files between two awaits. *)
(***************************************************************************)
EXTENDS TestFiles

CONSTANTS
  MaxLines, \* bound: lines of the server's test file
  MaxDepth, \* bound: their depth
  Served,   \* bound: the test files with which the server is started
  Stems,    \* names of ZIP files
  Zips,     \* contents: [tests, sound], the tests that are found in it and
            \* whether it decompresses
  Server,   \* the path of the server's test file
  TTL,      \* _TEST_CACHE_TTL
  Runs      \* bound: the runs created

Uploads == Stems \X Zips    \* an upload_id: the name and the hash
Paths == Uploads \cup {Server}

ASSUME DiscoveryOK ==
  /\ MaxLines \in Nat /\ MaxDepth \in Nat
  /\ Served \subseteq Seq(Lines)
  /\ TTL \in Nat \ {0} /\ Server \notin Uploads
  /\ \A z \in Zips : z.sound \in BOOLEAN

VARIABLES
  serving,  \* the server runs
  gone,     \* 0 while the server's file exists, else 1 + the seconds since,
            \* capped at TTL + 1
  cache,    \* _test_cache: nodeids is empty or those of the file
  age,      \* seconds since its timestamp, capped at TTL
  dirs,     \* the client's upload directories
  reply,    \* the answer to the last request if that was an upload
  shown,    \* the files whose tests the client was ever shown
  run       \* each run: what was selected, what is left of it

server == <<scan, serving, gone, cache, age>>
vars == <<server, dirs, reply, shown, run>>

NoReply == [code |-> 0, id |-> Server, tests |-> <<>>]
NoRun == [state |-> "none", picked |-> {}, files |-> {}]

Init ==
  /\ InitScan /\ serving = FALSE
  /\ gone = 0 /\ cache = <<>> /\ age = TTL
  /\ dirs = {} /\ reply = NoReply /\ shown = {}
  /\ run = [r \in Runs |-> NoRun]

Silent == reply' = NoReply
Exists(p) == IF p = Server THEN gone = 0 ELSE p \in dirs

\* The tests in an upload directory: what did not decompress has none.
Extracted(z) == IF z.sound THEN z.tests ELSE <<>>

\* The lines of bounded depth.
Shallow == [kind : Kinds, depth : 0..MaxDepth]

\* A developer writes the test file, and then the server starts.
WriteLine(line) ==
  /\ ~serving /\ Len(text) < MaxLines /\ ReadLine(line)
  /\ UNCHANGED <<serving, gone, cache, age, dirs, reply, shown, run>>

Serve ==
  /\ text \in Served /\ ~serving /\ serving' = TRUE
  /\ UNCHANGED <<scan, gone, cache, age, dirs, reply, shown, run>>

-----------------------------------------------------------------------------
(* Uploads *)

SameContent(z) == {d \in dirs : d[2] = z}

Answer(code, id, tests) == reply' = [code |-> code, id |-> id, tests |-> tests]

\* The directory of the same content is answered for, whatever its name and
\* whether or not it was extracted to the end.
Deduplicate(z) ==
  \E d \in SameContent(z) :
    Answer(200, d, Extracted(z)) /\ UNCHANGED dirs

\* Mutant of Extract: an upload is known by its whole id.
ExtractByName(s, z) ==
  /\ <<s, z>> \notin dirs
  /\ dirs' = dirs \cup {<<s, z>>}
  /\ IF z.sound THEN Answer(200, <<s, z>>, z.tests)
                ELSE Answer(400, <<s, z>>, <<>>)

\* BadZipFile in the middle leaves the directory behind.
Extract(s, z) ==
  /\ SameContent(z) = {}
  /\ dirs' = dirs \cup {<<s, z>>}
  /\ IF z.sound THEN Answer(200, <<s, z>>, z.tests)
                ELSE Answer(400, <<s, z>>, <<>>)

\* No name of a ZIP or too large: before the same content is looked for.  A
\* forbidden entry: before anything is written.  Any other error while it is
\* written: the directory is removed.
Reject(s, z) ==
  /\ \/ \E code \in {400, 413} : Answer(code, <<s, z>>, <<>>)
     \/ SameContent(z) = {} /\ Answer(500, <<s, z>>, <<>>)
  /\ UNCHANGED dirs

UploadTests(s, z) ==
  (Deduplicate(z) \/ Extract(s, z) \/ Reject(s, z))
    /\ UNCHANGED <<server, shown, run>>

DeleteUpload(d) ==
  /\ d \in dirs /\ dirs' = dirs \ {d}
  /\ Silent /\ UNCHANGED <<server, shown, run>>

-----------------------------------------------------------------------------
(* What a client is shown *)

\* discover_tests reads the files, of the server and of the client's uploads.
DiscoverTests ==
  /\ shown' = shown \cup {d \in dirs : Extracted(d[2]) # <<>>}
                    \cup (IF gone = 0 /\ found.ids # <<>>
                          THEN {Server} ELSE {})
  /\ Silent /\ UNCHANGED <<server, dirs, run>>

\* Mutant of CachedNodeids: a hit renews the timestamp.
CachedSliding ==
  /\ cache' = IF cache # <<>> /\ age < TTL THEN cache
              ELSE IF gone = 0 THEN found.ids ELSE <<>>
  /\ age' = 0

\* Mutant of CachedNodeids: a miss adds to the list that is cached.
CachedAppends ==
  IF cache # <<>> /\ age < TTL
  THEN UNCHANGED <<cache, age>>
  ELSE /\ cache' = IF gone = 0 THEN cache \o found.ids ELSE cache
       /\ age' = 0

\* _get_all_test_nodeids: an empty list is no hit.
CachedNodeids ==
  IF cache # <<>> /\ age < TTL
  THEN UNCHANGED <<cache, age>>
  ELSE /\ cache' = IF gone = 0 THEN found.ids ELSE <<>>
       /\ age' = 0

\* get_test_suites
GetSuites ==
  /\ CachedNodeids
  /\ shown' = IF cache' # <<>> THEN shown \cup {Server} ELSE shown
  /\ Silent /\ UNCHANGED <<scan, serving, gone, dirs, run>>

\* A second passes; somebody removes the server's file.
Tick ==
  /\ age < TTL \/ gone \in 1..TTL
  /\ age' = IF age < TTL THEN age + 1 ELSE age
  /\ gone' = IF gone \in 1..TTL THEN gone + 1 ELSE gone
  /\ Silent /\ UNCHANGED <<scan, serving, cache, dirs, shown, run>>

RemoveFile ==
  /\ gone = 0 /\ gone' = 1
  /\ Silent /\ UNCHANGED <<scan, serving, cache, age, dirs, shown, run>>

-----------------------------------------------------------------------------
(* Runs *)

Present(paths) == {p \in paths : Exists(p)}

\* create_run leaves out the tests whose files are gone.
CreateRun(r) ==
  /\ run[r].state = "none"
  /\ \E picked \in SUBSET shown :
       run' = [run EXCEPT ![r] = [state |-> "waiting", picked |-> picked,
                                  files |-> Present(picked)]]
  /\ Silent /\ UNCHANGED <<server, dirs, shown>>

\* capture_test_run: no selection means all tests of the server; of a
\* selection, files that are gone by now are skipped.
StartRun(r) ==
  /\ run[r].state = "waiting"
  /\ LET state == IF run[r].files = {} THEN "all" ELSE "selection" IN
     run' = [run EXCEPT ![r] = [state |-> state, picked |-> @.picked,
                                files |-> Present(@.files)]]
  /\ Silent /\ UNCHANGED <<server, dirs, shown>>

-----------------------------------------------------------------------------
Request ==
  \/ \E s \in Stems, z \in Zips : UploadTests(s, z)
  \/ \E d \in Uploads : DeleteUpload(d)
  \/ DiscoverTests \/ GetSuites \/ Tick \/ RemoveFile
  \/ \E r \in Runs : CreateRun(r) \/ StartRun(r)

Next ==
  \/ \E line \in Shallow : WriteLine(line)
  \/ Serve \/ (serving /\ Request)

Spec == Init /\ [][Next]_vars

-----------------------------------------------------------------------------
(* Properties *)

TypeOK ==
  /\ text \in Seq(Lines) /\ serving \in BOOLEAN
  /\ gone \in 0..(TTL + 1) /\ age \in 0..TTL
  /\ cache \in {<<>>, found.ids}
  /\ dirs \subseteq Uploads /\ shown \subseteq Paths
  /\ reply.code \in {0, 200, 400, 413, 500} /\ reply.id \in Paths
  /\ run \in [Runs -> [state : {"none", "waiting", "all", "selection"},
                       picked : SUBSET Paths, files : SUBSET Paths]]

(***************************************************************************)
(* The same content has one directory at a time, whatever name it is sent  *)
(* under, and an accepted upload of a sound ZIP is answered with its tests *)
(* whether or not it was there before.                                     *)
(***************************************************************************)
OneUploadPerContent ==
  /\ \A d, e \in dirs : d[2] = e[2] => d = e
  /\ reply.code = 200 /\ reply.id[2].sound
       => reply.tests = reply.id[2].tests

(***************************************************************************)
(* The suites offer the tests of a removed file for TTL seconds at most,   *)
(* however often they are asked for.                                       *)
(***************************************************************************)
StaleAtMostTTL == cache # <<>> /\ age < TTL => gone <= TTL

(***************************************************************************)
(* A run starts tests that were selected, all tests of the server only if  *)
(* none were.  It fails: files that are gone are left out of a selection,  *)
(* and what is then left may be no selection.                              *)
(***************************************************************************)
RunsOnlySelected ==
  \A r \in Runs :
    /\ run[r].files \subseteq run[r].picked
    /\ run[r].state = "all" => run[r].picked = {}
=============================================================================
