SPECIFICATION Spec
CONSTANTS
  r1 = r1
  r2 = r2
  lab = lab
  Runs = {r1, r2}
  Resources = {lab}
  Tasks = {t1, t2, t3}
  Cancels = {c1}
  Admins = {}
  ResourceOf <- Locked
  KindOf <- LastIsCli
  MaxCrashes = 0
  NoResource = NoResource
  NoRun = NoRun
  NoTask = NoTask
  NoRow = NoRow
CHECK_DEADLOCK FALSE
SYMMETRY Symmetry
INVARIANTS TypeOK RunningIsAttended EntriesAgree LocksCanExpire
