SPECIFICATION EditorSpec
CONSTANTS
  Size = 5
  Width = 2
  Screen = 3
  Header = 1
  FindFits = 0
  HexWidth = 2
  Glyphs = {10, 97}
  Nibbles = {4}
  Files <- Contents
  QueryMax = 1
  MaxSteps = 3
INVARIANT LiveMark
CHECK_DEADLOCK FALSE
