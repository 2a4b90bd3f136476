SPECIFICATION MCSpec
CONSTANTS
  Program = {prog}
  None = None
  KEYBOARD_BUFFER_SIZE = 3
  Codes = {"a", "enter", "delete", "lshift", "rshift", "ctrl", "alt", "lock"}
  MaxTyped = 4
  Unprotected = FALSE
  Caller = {process, handler}
  Slots = 4
  Sizes = {6, 7, 30}
  MaxPages = 2
  Nested = FALSE
CHECK_DEADLOCK FALSE
INVARIANTS
  KeysInOrder
  EventsInOrder
  BlocksDisjoint
  PagesTrue
PROPERTIES
  LostOnlyWhenFull
  KeyIsRead
