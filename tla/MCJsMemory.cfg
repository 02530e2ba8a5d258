SPECIFICATION MemorySpec
CONSTANTS
  HeapUnits = 7
  Slack = 1
  Alignment = 2
  SizeMax = 31
  JsLimit = 7
  Requests <- MCRequests
  Zero = zero
  Unknown = unknown
INVARIANTS AccountsExact LimitHolds
