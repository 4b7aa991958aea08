SPECIFICATION Spec
CONSTANTS
  COMMAND_QUEUE_LENGTH = 8
  Sizeof <- MCSizeof
  Payload <- MCPayload
  Repeats = {0, 1}
  NoPayload = NoPayload
  PlainQueued = {2, 4, 5, 7}
  Bytes = {1, 6}
INVARIANTS Capacity Packed ExecInStep FindInStep
PROPERTIES OnlySpiWriteRemoved RefinesList
