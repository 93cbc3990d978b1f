SPECIFICATION FairSpec
CONSTANTS
  f1 = f1
  f2 = f2
  t1 = t1
  t2 = t2
  t3 = t3
  t4 = t4
  Whole = Whole
  Files = {f1, f2}
  Tests = {t1, t2, t3, t4}
  File <- TestFile
  Name <- TestName
  Methods <- OneMethod
  Parametrized <- OneCase
  Within <- OneWithin
INVARIANTS
  TypeOK
  ResultsBehindIndex
  FinalReportsAgree
  TestAnswersRight
  FileAnswersRight
PROPERTY
  ReportsFollow
CHECK_DEADLOCK FALSE
