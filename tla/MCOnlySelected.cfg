SPECIFICATION Spec
CONSTANTS
  MaxLines = 1
  MaxDepth = 0
  Served <- OneTest
  Stems = {a}
  Zips <- TwoZips
  Server = Server
  TTL = 1
  Runs = {r}
INVARIANT
  RunsOnlySelected
CHECK_DEADLOCK FALSE
