\* Three timers, callers passing 0, 1 or 3 ticks, under weak fairness of
\* the realtime interrupt: the split start against the atomic one, and
\* every running timer counting down.
CONSTANTS
  NTimers = 3
  TickValues = {0, 1, 3}
SPECIFICATION Spec
PROPERTIES
  AtomicSpec
  CountsDown
