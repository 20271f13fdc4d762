\* Ticks of MAX_SLOTS_PER_TICK = 3 slots (scaled down from 32) and three tasks of period 1.
CONSTANTS
  max_ticks = 8
  conditionals = {"X"}
  Conds = {"X", "Y"}
  NoCond = NoCond
  Scale = 4
  MAX_TICKS = 8
  MAX_SLOTS_PER_TICK = 3
  MAX_TASKS = 64
  NLines = 3
  LineChoices <- MCPeriod1
  Files <- MCFiles
SPECIFICATION Spec
INVARIANT SlotErrorOnlyWhenFull
