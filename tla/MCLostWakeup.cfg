SPECIFICATION FairSpec
CONSTANTS
  r1 = r1
  r2 = r2
  lab = lab
  Runs = {r1, r2}
  Resources = {lab}
  Tasks = {t1, t2}
  Cancels = {}
  Admins = {}
  ResourceOf <- Locked
  KindOf <- AllTests
  MaxCrashes = 0
  NoResource = NoResource
  NoRun = NoRun
  NoTask = NoTask
  NoRow = NoRow
CHECK_DEADLOCK FALSE
PROPERTIES QueuedStarts
