SPECIFICATION Spec
CONSTANTS
  MaxCount = 3
  Window = 8
  SizeMax = 31
  Values <- MCValues
INVARIANTS ReturnsSorted
CHECK_DEADLOCK FALSE
