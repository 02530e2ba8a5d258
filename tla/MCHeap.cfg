SPECIFICATION Spec
CONSTANTS
  HeapUnits = 8
  HeaderUnits = 1
  Alignment = 2
  SizeMax = 31
  Requests <- MCRequests
  Counts <- MCCounts
  Values = {zero, a}
  Zero = zero
  Unknown = unknown
INVARIANTS
  TypeOK HeapTiled CallersHoldUsedBlocks GrantsAreTight ContentsPreserved SearchSkipsNoFit StatsExact
PROPERTIES OnlyShrinkingFragments ImplementsAllocator CallsReturn
