SPECIFICATION Spec
CONSTANTS
  root = root
  a = a
  b = b
  Nil = Nil
  Node <- MCThree
  List <- MCList
  Root = root
  CLICKS_PER_SECOND = 2
  MaxSleep = 1
  Unprotected = TRUE
INVARIANTS
  ReadyIsQueued
CHECK_DEADLOCK FALSE
