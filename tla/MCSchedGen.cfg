\* The generator under the default -M 8 with -D X, on every file of up to
\* four lines; a tick has room for two slots (MAX_SLOTS_PER_TICK 3).
CONSTANTS
  max_ticks = 8
  conditionals = {"X"}
  Conds = {"X", "Y"}
  NoCond = NoCond
  Scale = 4
  MAX_TICKS = 8
  MAX_SLOTS_PER_TICK = 3
  MAX_TASKS = 64
  NLines = 4
  LineChoices <- MCLines
  Files <- MCFiles
SPECIFICATION Spec
INVARIANTS
  TypeOK
  PlacementCorrect
  LoadAccounting
  DividersEmitted
PROPERTIES
  DividedGoLast
  NoAvoidableOverload
