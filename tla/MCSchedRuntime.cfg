\* Every file of up to three lines of periods 1 to 32 under -M 8:
\* tables of eight handlers (or none), dividers up to 4, and at least 2048
\* interrupts per table, so the 8-bit divider wraps.
CONSTANTS
  max_ticks = 8
  conditionals = {"X"}
  Conds = {"X", "Y"}
  NoCond = NoCond
  Scale = 4
  MAX_TICKS = 8
  MAX_SLOTS_PER_TICK = 4
  MAX_TASKS = 64
  NLines = 3
  AgeCap = 33
  LineChoices <- MCRuntimeLines
  Files <- MCFiles
SPECIFICATION RuntimeSpec
PROPERTIES
  StrictPeriod
