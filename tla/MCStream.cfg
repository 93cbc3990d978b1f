SPECIFICATION FairSpec
CONSTANTS
  Runs = {r1}
  Conns = {c1, c2}
  MaxLog = 2
  MaxShown = 2
  NoRun = NoRun
  NoConn = NoConn
CHECK_DEADLOCK FALSE
INVARIANTS TypeOK ShownIsPrefix SentinelIsLast OneSocket
PROPERTIES EndIsNoticed
