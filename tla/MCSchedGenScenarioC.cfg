\* Scenario C of the spec: a well-formed file whose first task has period 16, under -M 8.
CONSTANTS
  max_ticks = 8
  conditionals = {"X"}
  Conds = {"X", "Y"}
  NoCond = NoCond
  Scale = 4
  MAX_TICKS = 8
  MAX_SLOTS_PER_TICK = 32
  MAX_TASKS = 64
  NLines = 2
  LineChoices <- MCWellFormed
  Files <- MCFiles
SPECIFICATION Spec
INVARIANT NoCrash
