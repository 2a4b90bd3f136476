SPECIFICATION MCSpec
CONSTANTS
  shell = shell
  page1 = page1
  page2 = page2
  page3 = page3
  sh = sh
  prog1 = prog1
  prog2 = prog2
  Parts = {"pages"}
  Root = shell
  Nil = Nil
  Slot = {shell, page1, page2}
  Total = 3
  Identifiers = 3
  Word = 64
  MaxRequest = 2
  Preempted = FALSE
  Patient = TRUE
  TableFills = FALSE
  Shell = sh
  None = None
  Proc = {sh, prog1, prog2}
  PageCount = 17
  Entries = 3
  KernelTables = 1
  Image <- CodeAndStack
  MaxHeap = 1
  Unprotected = FALSE
SYMMETRY Alike
CHECK_DEADLOCK FALSE
INVARIANTS
  NothingLost
