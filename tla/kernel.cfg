SPECIFICATION FairSpec
CONSTANTS
  root = root
  a = a
  b = b
  Nil = Nil
  Node <- MCThree
  List <- MCList
  Root = root
  CLICKS_PER_SECOND = 1
  MaxSleep = 1
  Unprotected = FALSE
CHECK_DEADLOCK FALSE
INVARIANTS
  NoProcessLost
  MutexNoLostWakeup
  IdleHearsInterrupts
  MutualExclusion
  EndOfInterruptOwed
PROPERTIES
  ImplementsRoundRobin
  MutexMoves
