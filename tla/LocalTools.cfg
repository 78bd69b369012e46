\* Two tool calls in three sessions of two products.
SPECIFICATION Spec
CONSTANTS
  Calls = {c1, c2}
  s1 = s1
  s2 = s2
  s3 = s3
  claude = claude
  opencode = opencode
  Sessions = {s1, s2, s3}
  Product <- MCProduct
  Purging = {claude}
  None = None
INVARIANTS CopiesGoWithTheirSession OneLoginEach
PROPERTIES EveryToolEnds
CHECK_DEADLOCK FALSE
