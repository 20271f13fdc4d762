\* Up to five drains, every order of drains, wakes, serves, timer expiries
\* and changes of the game state.
CONSTANTS
  MaxDrains = 5
SPECIFICATION Spec
INVARIANTS AwardIffThreeInWindow
