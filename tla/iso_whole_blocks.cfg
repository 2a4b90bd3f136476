SPECIFICATION MCSpec
CONSTANTS
  p1 = p1
  p2 = p2
  Process = {p1, p2}
  PROCESS_MAX_OPEN_FILES = 2
  MAX_OS_OPEN_FILES = 6
  Allowance <- Allowances
  Asked <- Paths
  Mode <- Modes
  OnMedium <- Present
  MaxLives = 3
  Interleaved = FALSE
  r1 = r1
  r2 = r2
  hd = hd
  cd = cd
  NoUnit = NoUnit
  Reader = {r1, r2}
  Unit = {hd, cd}
  ATAPI_BLOCKSIZE = 8
  MAX_DR_SIZE = 4
  ROOT_DR_OFFSET = 2
  Record <- Medium
  Path <- NamePaths
  ReadSize = {8}
  DriveFails = TRUE
  Unprotected = FALSE
SYMMETRY Alike
INVARIANTS
  BytesOfFile
