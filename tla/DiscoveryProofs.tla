-------------------------- MODULE DiscoveryProofs ---------------------------
(***************************************************************************)
(* Proofs about Discovery, for any uploads, any test file of the server    *)
(* and any retention of the cache: one directory for each content, no      *)
(* stale suites after TTL, and what TestFilesProofs says of the scanners.  *)
(*                                                                         *)
(* The cache holds the tests of the file of the server or nothing; while   *)
(* it is fresh its age bounds the time since the file was removed, which   *)
(* is what StaleAtMostTTL needs to be inductive.                           *)
(***************************************************************************)
EXTENDS Discovery, TestFilesProofs

CacheTracksFile == cache # <<>> => gone <= age + 1

BeforeServing == ~serving => cache = <<>> /\ gone = 0

IInv ==
  /\ TypeOK /\ BeforeServing /\ CacheTracksFile /\ OneUploadPerContent

USE DEF server, scan

-----------------------------------------------------------------------------
LEMMA InitIInv == Init => IInv
<1> SUFFICES ASSUME Init PROVE IInv
  OBVIOUS
<1>1. TypeOK
  <2>1. text \in Seq(Lines) /\ cache = <<>>
    BY DEF Init, InitScan
  <2>2. NoRun \in [state : {"none", "waiting", "all", "selection"},
                   picked : SUBSET Paths, files : SUBSET Paths]
    BY DEF NoRun
  <2>3. reply.code = 0 /\ reply.id \in Paths
    BY DEF Init, NoReply, Paths
  <2>4. gone = 0 /\ age = TTL /\ TTL \in Nat
    BY DiscoveryOK DEF Init
  <2>5. serving \in BOOLEAN /\ dirs \subseteq Uploads /\ shown \subseteq Paths
    BY DEF Init
  <2>6. run = [r \in Runs |-> NoRun]
    BY DEF Init
  <2> QED BY <2>1, <2>2, <2>3, <2>4, <2>5, <2>6 DEF TypeOK
<1>2. BeforeServing /\ CacheTracksFile /\ OneUploadPerContent
  BY DEF Init, BeforeServing, CacheTracksFile, OneUploadPerContent, NoReply
<1> QED BY <1>1, <1>2 DEF IInv

LEMMA ShallowLines == Shallow \subseteq Lines
  BY DiscoveryOK DEF Shallow, Lines

\* Before the server runs, its file is written.
LEMMA WriteInv ==
  ASSUME IInv, \/ ~serving /\ \E line \in Lines : WriteLine(line)
               \/ Serve
  PROVE  IInv'
<1>1. CASE ~serving /\ \E line \in Lines : WriteLine(line)
  <2>1. PICK line \in Lines : WriteLine(line)
    BY <1>1
  <2>2. text' \in Seq(Lines)
    BY <2>1 DEF WriteLine, ReadLine, IInv, TypeOK
  <2> QED BY <1>1, <2>1, <2>2 DEF WriteLine, IInv, TypeOK, BeforeServing,
                                  CacheTracksFile, OneUploadPerContent
<1>2. CASE Serve
  BY <1>2 DEF Serve, IInv, TypeOK, BeforeServing, CacheTracksFile,
              OneUploadPerContent
<1> QED BY <1>1, <1>2

\* Uploads write directories and the reply only.
LEMMA UploadInv ==
  ASSUME IInv, \/ \E s \in Stems, z \in Zips : UploadTests(s, z)
               \/ \E d \in Uploads : DeleteUpload(d)
  PROVE  IInv'
<1>1. UNCHANGED <<server, shown, run>>
  BY DEF UploadTests, DeleteUpload
<1>2. /\ dirs' \subseteq Uploads /\ OneUploadPerContent'
      /\ reply'.code \in {0, 200, 400, 413, 500} /\ reply'.id \in Paths
  <2> USE DEF IInv, TypeOK, OneUploadPerContent
  <2>1. CASE \E d \in Uploads : DeleteUpload(d)
    BY <2>1 DEF DeleteUpload, Silent, NoReply, Paths
  <2>2. ASSUME NEW s \in Stems, NEW z \in Zips, UploadTests(s, z)
        PROVE  <1>2!:
    <3>0. <<s, z>> \in Uploads /\ <<s, z>>[2] = z
      BY DEF Uploads
    <3>1. PICK id : id = <<s, z>> /\ id \in Uploads /\ id[2] = z
      BY <3>0
    <3>2. CASE Deduplicate(z)
      <4>1. PICK d \in dirs : /\ d[2] = z /\ dirs' = dirs
                              /\ Answer(200, d, Extracted(z))
        BY <3>2 DEF Deduplicate, SameContent
      <4> QED BY <4>1 DEF Answer, Extracted, Paths
    <3>3. CASE Extract(s, z)
      <4>1. /\ dirs' = dirs \cup {id}
            /\ \A d \in dirs : d[2] # z
        BY <3>1, <3>3 DEF Extract, SameContent
      <4>2. /\ dirs' \subseteq Uploads
            /\ \A d, e \in dirs' : d[2] = e[2] => d = e
        <5>1. \A d, e \in dirs : d[2] = e[2] => d = e
          OBVIOUS
        <5> QED BY <3>1, <4>1, <5>1
      <4>3. /\ reply'.id = id
            /\ \/ reply'.code = 200 /\ reply'.tests = z.tests
               \/ reply'.code = 400
        BY <3>1, <3>3 DEF Extract, Answer
      <4> QED BY <3>1, <4>2, <4>3 DEF Paths
    <3>4. CASE Reject(s, z)
      BY <3>1, <3>4 DEF Reject, Answer, Paths
    <3> QED BY <2>2, <3>2, <3>3, <3>4 DEF UploadTests
  <2> QED BY <2>1, <2>2
<1> QED BY <1>1, <1>2 DEF IInv, TypeOK, BeforeServing, CacheTracksFile

\* The other requests leave the directories alone.
LEMMA RequestInv ==
  ASSUME IInv, serving,
         \/ DiscoverTests \/ GetSuites \/ Tick \/ RemoveFile
         \/ \E r \in Runs : CreateRun(r) \/ StartRun(r)
  PROVE  IInv'
<1> USE DEF IInv, TypeOK
<1>1. /\ UNCHANGED <<scan, serving, dirs>> /\ reply' = NoReply
  BY DEF DiscoverTests, GetSuites, Tick, RemoveFile, CreateRun, StartRun,
         Silent
<1>2. OneUploadPerContent' /\ BeforeServing'
      /\ reply'.code \in {0, 200, 400, 413, 500} /\ reply'.id \in Paths
  BY <1>1 DEF OneUploadPerContent, BeforeServing, NoReply, Paths
<1>3. /\ gone' \in 0..(TTL + 1) /\ age' \in 0..TTL
      /\ cache' \in {<<>>, found.ids} /\ CacheTracksFile'
  <2> USE DiscoveryOK DEF CacheTracksFile
  <2>1. CASE GetSuites
    BY <2>1 DEF GetSuites, CachedNodeids
  <2>2. CASE Tick
    BY <2>2 DEF Tick
  <2>3. CASE RemoveFile
    BY <2>3 DEF RemoveFile
  <2>4. CASE UNCHANGED <<gone, cache, age, found>>
    BY <2>4
  <2> QED BY <2>1, <2>2, <2>3, <2>4 DEF DiscoverTests, CreateRun, StartRun
<1>4. shown' \subseteq Paths
  <2>1. CASE DiscoverTests
    BY <2>1 DEF DiscoverTests, Paths
  <2>2. CASE GetSuites
    BY <2>2 DEF GetSuites, Paths
  <2>3. CASE UNCHANGED shown
    BY <2>3
  <2> QED BY <2>1, <2>2, <2>3 DEF Tick, RemoveFile, CreateRun, StartRun
<1>5. run' \in [Runs -> [state : {"none", "waiting", "all", "selection"},
                         picked : SUBSET Paths, files : SUBSET Paths]]
  <2>1. CASE DiscoverTests \/ GetSuites \/ Tick \/ RemoveFile
    BY <2>1, ZenonT(30) DEF DiscoverTests, GetSuites, Tick, RemoveFile
  <2>2. ASSUME NEW r \in Runs, CreateRun(r)
        PROVE  <1>5!:
    BY <2>2 DEF CreateRun, Present
  <2>3. ASSUME NEW r \in Runs, StartRun(r)
        PROVE  <1>5!:
    <3>1. PICK s \in {"all", "selection"} :
            run' = [run EXCEPT ![r] = [state |-> s, picked |-> @.picked,
                                       files |-> Present(@.files)]]
      BY <2>3 DEF StartRun
    <3>2. Present(run[r].files) \in SUBSET Paths
      BY DEF Present
    <3> QED BY <3>1, <3>2
  <2> QED BY <2>1, <2>2, <2>3
<1> QED BY <1>1, <1>2, <1>3, <1>4, <1>5

LEMMA IInvStep == IInv /\ [Next]_vars => IInv'
<1> SUFFICES ASSUME IInv, [Next]_vars PROVE IInv'
  OBVIOUS
<1>1. CASE (\E line \in Shallow : WriteLine(line)) \/ Serve
  BY <1>1, ShallowLines, WriteInv DEF WriteLine
<1>2. CASE serving /\ Request
  BY <1>2, UploadInv, RequestInv DEF Request
<1>3. CASE UNCHANGED vars
  BY <1>3 DEF vars, IInv, TypeOK, BeforeServing, CacheTracksFile,
              OneUploadPerContent
<1> QED BY <1>1, <1>2, <1>3 DEF Next

-----------------------------------------------------------------------------
THEOREM Invariance == Spec => []IInv
  BY InitIInv, IInvStep, PTL DEF Spec

\* Type correctness.
THEOREM TypeCorrect == Spec => []TypeOK
<1>1. IInv => TypeOK
  BY DEF IInv
<1> QED BY <1>1, Invariance, PTL

\* One directory for each content (upload_tests, routes.py:1616), for
\* any names, contents and number of uploads.
THEOREM OneDirectory == Spec => []OneUploadPerContent
<1>1. IInv => OneUploadPerContent
  BY DEF IInv
<1> QED BY <1>1, Invariance, PTL

\* The tests of a removed file are offered for TTL seconds at most
\* (_get_all_test_nodeids, routes.py:1102-1118).
THEOREM Staleness == Spec => []StaleAtMostTTL
<1>1. IInv => StaleAtMostTTL
  BY DiscoveryOK DEF IInv, TypeOK, CacheTracksFile, StaleAtMostTTL
<1> QED BY <1>1, Invariance, PTL

\* However requests come, the file of the server is what the scanners read:
\* Discovery implements the specification of TestFiles.
THEOREM Scans == Spec => ScanSpec
<1>1. Init => InitScan
  BY DEF Init
<1>2. [Next]_vars => [\E line \in Lines : ReadLine(line)]_scan
  <2> SUFFICES ASSUME [Next]_vars
               PROVE  (\E line \in Lines : ReadLine(line)) \/ UNCHANGED scan
    OBVIOUS
  <2>1. CASE \E line \in Shallow : WriteLine(line)
    BY <2>1, ShallowLines DEF WriteLine
  <2>2. CASE Serve \/ UNCHANGED vars
    BY <2>2 DEF Serve, vars
  <2>3. CASE Request
    BY <2>3 DEF Request, UploadTests, DeleteUpload, DiscoverTests, GetSuites,
                Tick, RemoveFile, CreateRun, StartRun
  <2> QED BY <2>1, <2>2, <2>3 DEF Next
<1> QED BY <1>1, <1>2, PTL DEF Spec, ScanSpec

\* Both scanners find what pytest collects of the file of the server, for
\* files of any length (routes.py:1024-1045, 1052-1099).
THEOREM DiscoveredIsCollected ==
  Spec => [](NodeidsAreCollected /\ MarkedAreDiscovered)
  BY Scans, Nodeids, Markers, PTL
=============================================================================
