SPECIFICATION FairSpec
CONSTANTS
  t = t
  u = u
  Nobody = Nobody
  Threads <- Two
  MaxDepth = 2
INVARIANT WaitersAreParked
PROPERTY DetainedStayOut
PROPERTY IsReentrantLock
PROPERTY LockIsGranted
