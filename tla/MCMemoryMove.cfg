\* memmove over every pair of nearby regions of up to 5 bytes, overlapping
\* or not; unsigned long wraps at 2^30 (see Memory).
CONSTANTS
  Size = 40
  ULong = 1073741824
  FillValues = {0, 165}
  Calls <- MCMoveCalls
SPECIFICATION Spec
INVARIANTS MemmoveCopies
