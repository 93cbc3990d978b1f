SPECIFICATION Spec
CONSTANTS
  r1 = r1
  r2 = r2
  lab = lab
  Runs = {r1, r2, r3}
  Resources = {lab}
  Tasks = {t1, t2}
  Cancels = {}
  Admins = {}
  ResourceOf <- OneFree
  KindOf <- AllTests
  MaxCrashes = 1
  NoResource = NoResource
  NoRun = NoRun
  NoTask = NoTask
  NoRow = NoRow
CHECK_DEADLOCK FALSE
SYMMETRY Symmetry
INVARIANT IInv
PROPERTY RestartIsClean
