SPECIFICATION FairSpec
CONSTANTS
  COMMAND_QUEUE_LENGTH = 6
  Sizeof <- MCSizeof
  Arg <- MCArg
  Repeats = {0, 1}
  WriteLike = {}
  Fields = {"parallel_data_port_enable", "profile_frequency", "pll_divide"}
  FieldReg <- MCFieldReg
  FieldRange <- MCFieldRange
  Preset <- MCPreset
  Leftover <- MCLeftover
  ParallelEnable = "parallel_data_port_enable"
  Pins = {"DRCTL"}
  Startup <- MCStartup
  PlainQueued = {3, 5, 7}
  Programmed = {"profile_frequency"}
  Values = {1}
INVARIANTS RegisterThenWrite NoLostUpdate MarkedInGroup
  ActiveAfterUpdate TriggerLatches PllActive
PROPERTIES ExecutionEnds
