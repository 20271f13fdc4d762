\* A one-line file whose line has no trailing newline.
CONSTANTS
  max_ticks = 8
  conditionals = {"X"}
  Conds = {"X", "Y"}
  NoCond = NoCond
  Scale = 4
  MAX_TICKS = 8
  MAX_SLOTS_PER_TICK = 32
  MAX_TASKS = 64
  NLines = 1
  LineChoices <- MCPeriod1
  Files <- MCFiles
SPECIFICATION Spec
INVARIANT AllLinesRead
