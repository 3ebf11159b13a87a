SPECIFICATION Spec
CONSTANTS
  t = t
  u = u
  Nobody = Nobody
  Threads <- Two
  MaxDepth = 2
INVARIANT WaitKeepsOwnership
