SPECIFICATION MCSpec
CONSTANTS
  shell = shell
  page1 = page1
  page2 = page2
  page3 = page3
  sh = sh
  prog1 = prog1
  prog2 = prog2
  Parts = {"containment", "pages"}
  Root = shell
  Nil = Nil
  Slot = {shell, page1, page2, page3}
  Total = 3
  Identifiers = 3
  Word = 64
  MaxRequest = 2
  Preempted = FALSE
  Patient = TRUE
  TableFills = FALSE
  Shell = sh
  None = None
  Proc = {sh, prog1, prog2}
  PageCount = 14
  Entries = 2
  KernelTables = 0
  Image <- CodeOnly
  MaxHeap = 1
  Unprotected = FALSE
SYMMETRY Alike
CHECK_DEADLOCK FALSE
INVARIANTS
  Accounting
  CapabilityOwnersLive
  CapabilityStillOwned
  PrivatePages
  MappedThroughTable
PROPERTIES
  ImplementsBudget
