SPECIFICATION Spec
CONSTANTS
  MaxLines = 4
  MaxDepth = 2
  Served <- OneTest
  Stems = {a, b}
  Zips <- TwoZips
  Server = Server
  TTL = 2
  Runs = {r}
INVARIANTS
  TypeOK
  NodeidsAreCollected
  MarkedAreDiscovered
  OneUploadPerContent
  StaleAtMostTTL
CHECK_DEADLOCK FALSE
