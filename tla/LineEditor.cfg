SPECIFICATION Spec
CONSTANTS
  Size = 5
  HistorySize = 2
  Chars = {"1", " ", "!"}
  Value <- Digit
  Commands <- Known
  Listing <- Entries
  Past <- Before
  Elsewhere <- Copied
  TermMax = 1
  MaxTyped = 2
  MaxOdd = 1
  MaxLines = 2
INVARIANTS
  RowShowsLine
  RecallAsListed
CHECK_DEADLOCK FALSE
