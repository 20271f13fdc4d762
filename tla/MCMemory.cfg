\* Every call of MCMemory's sets under 40 bytes of memory, with fill
\* values that are bytes; unsigned long wraps at 2^30 (see Memory).
CONSTANTS
  Size = 40
  ULong = 1073741824
  FillValues = {0, 165}
  Calls <- MCCalls
SPECIFICATION Spec
INVARIANTS
  MemsetFills
  MemcpyCopies
  BlockOpsExact
  StrlenCounts
