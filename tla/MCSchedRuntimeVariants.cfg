\* A file of one line of period 8 and one task pre-unrolled into three
\* variants of period 2: four calls per eight handlers.
CONSTANTS
  max_ticks = 8
  conditionals = {"X"}
  Conds = {"X", "Y"}
  NoCond = NoCond
  Scale = 4
  MAX_TICKS = 8
  MAX_SLOTS_PER_TICK = 4
  MAX_TASKS = 64
  AgeCap = 33
  Files <- MCFiles
  NLines = 2
  LineChoices <- MCUnrolledLines
SPECIFICATION RuntimeSpec
PROPERTIES VariantsRotate
