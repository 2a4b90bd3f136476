SPECIFICATION MCSpec
CONSTANTS
  p1 = p1
  p2 = p2
  Parts = {"drive", "disk", "boot", "sleep", "show"}
  Process = {p1, p2}
  Boot = p1
  Drive = {0, 1}
  Kinds <- Channels
  Offset = {0, 1}
  MaxBlocks = 2
  Fails = TRUE
  Unprotected = FALSE
  ATA_BLOCKSIZE = 2
  Blocks = 3
  Byte = {0, 1}
  MaxBytes = 4
  PagesTotal = 33
  ByteBits = 2
  CELL_BITS = 4
  PAGE_SIZE = 4
  ProcessPages = 2
  HeapEvents = 2
  MaxTaken = 3
  SECOND = 2
  CLICKS_PER_SECOND = 4
  Millis = 8
  Word = 20
  MaxMillis = 12
  MaxDelay = 1
  Torn = FALSE
  Base = 2
  Seconds = 3
  Minutes = 2
  Hours = 3
CHECK_DEADLOCK FALSE
INVARIANTS
  RightBlocks
  FailureIsFinal
  BytesThere
  HandlersReady
  MouseBufferWhole
  SleepsNearlyAsAsked
  TimeWas
PROPERTIES
  TransferEnds
  BootEnds
  SleepEnds
