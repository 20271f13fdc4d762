\* memset with the int fill value 0x100, whose low byte is 0.
\* unsigned long wraps at 2^30 (see Memory).
CONSTANTS
  Size = 40
  ULong = 1073741824
  FillValues = {256}
  Calls <- MCCalls
SPECIFICATION Spec
INVARIANTS MemsetFills
