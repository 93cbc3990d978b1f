----------------------------- MODULE MCReports ------------------------------
(***************************************************************************)
(* An instance of Reports for TLC: two files and four tests; t1 and t3     *)
(* have one name, t2 is a method, t4 is a case of a parametrised function, *)
(* which shares its name with t2; the path of f1 is part of that of f2.    *)
(***************************************************************************)
EXTENDS Reports, TLC

CONSTANTS f1, f2, t1, t2, t3, t4

TestFile == t1 :> f1 @@ t2 :> f1 @@ t3 :> f2 @@ t4 :> f2
TestName == t1 :> "a" @@ t2 :> "b" @@ t3 :> "a" @@ t4 :> "b"
OneMethod == {t2}
OneCase == {t4}
OneWithin == {<<f1, f2>>}
=============================================================================
