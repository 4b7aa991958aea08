SPECIFICATION Spec
CONSTANTS
  COMMAND_QUEUE_LENGTH = 4
  Sizeof <- MCSizeof
  Arg <- MCArg
  Repeats = {0}
  WriteLike = {}
  Fields = {"parallel_data_port_enable", "ramp_upper_limit"}
  FieldReg <- MCFieldReg
  FieldRange <- MCFieldRange
  Preset <- MCPreset
  Leftover <- MCLeftover
  ParallelEnable = "parallel_data_port_enable"
  Pins = {}
  Startup = {}
  PlainQueued = {5}
  Programmed = {"ramp_upper_limit"}
  Values = {1}
INVARIANTS NoLostUpdate
