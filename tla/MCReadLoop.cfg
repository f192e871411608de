SPECIFICATION Spec
CONSTANTS
  MaxChunk = 3
  QueueSize = 2
  MaxBytes = 7
INVARIANTS
  BytesInOrder
  RecordsBounded
PROPERTIES
  EveryByteIsRecorded
  BothEnd
CHECK_DEADLOCK FALSE
