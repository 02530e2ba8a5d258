SPECIFICATION LibcSpec
CONSTANTS
  Size = 5
  Bytes <- MCBytes
  Word = 256
  BufferSize = 7
  Capacities = {0, 1, 2, 4, 6}
  Formats <- MCFormats
  MaxCount = 6
  Window = 8
  SizeMax = 31
  Values <- MCValues
CHECK_DEADLOCK FALSE
INVARIANTS CallsExact SinkExact FieldsExact HeapOrdered SortsBeforeLastSift
PROPERTY Returns
