SPECIFICATION Spec
CONSTANTS
  Levels = 3
  Fan = 2
  PageSize = 2
  Max = 31
  Offset = 8
  TableCount = 2
  Firmware = 3
  Trees <- MCTrees
  Calls <- MCCalls
INVARIANTS TypeOK PromisesKept TablesFormTree
PROPERTIES TranslationsKept
