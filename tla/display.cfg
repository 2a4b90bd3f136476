SPECIFICATION MCSpec
CONSTANTS
  p1 = p1
  p2 = p2
  Process = {p1, p2}
  XRes = 5
  YRes = 3
  MOUSE_SIDE_2 = 3
  POINTER_SIDE_2 = 15
  FONT_WIDTH = 2
  FONT_HEIGHT = 1
  Glyph <- Letter
  Frame <- Frames
  Stroke <- Strokes
  Arc <- Arcs
  Spot <- Spots
  Move <- Moves
  MidPixel = FALSE
  xsize = 3
  ysize = 2
  Prompt <- ThePrompt
  Key <- Keys
  MAX_LINE = 3
  Output <- Outputs
  Dirs <- Tree
  Paths <- Arguments
  NameLength <- Lengths
  WORKING_DIRECTORY_PATH_BUFFER_SIZE = 10
  Unprotected = FALSE
  Char = {1, 2, 3}
  MaxLength = 3
  Delims <- TheDelims
  Base = 3
  Width = 64
  Hex = 2
SYMMETRY Alike
INVARIANTS
  PictureKept
  EchoTrue
  
  PathFits
  TextRight
PROPERTIES
  NearWindow
