SPECIFICATION MSpec
CONSTANTS
  Programs <- Small
  Vars = {"A", "B"}
  Strs = {"A$"}
  Fns = {"FNA"}
  Stored <- Files
  Number <- Nums
  Literal <- Lits
  Inputs <- Typed
  Absent = Absent
  MaxSteps = 20
  CallDepth = 2
  ForDepth = 2
  WhileDepth = 2
  StrMax = 3
  ArrayMax = 4
  FnMax = 1
  Channels = {1, 2}
  Rand <- Generator
INVARIANTS
  LoopsEnclose
  MeansWhatItSays
CHECK_DEADLOCK FALSE
