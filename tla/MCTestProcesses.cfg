SPECIFICATION FairSpec
CONSTANTS
  f1 = f1
  Files = {f1, f2}
  All = all
  MaxLines <- TwoThenNone
CHECK_DEADLOCK FALSE
INVARIANTS TypeOK AllLinesLogged OutcomeIsTrue ReportsAgree
PROPERTIES ImplementsChannel ImplementsTask CaptureEnds
