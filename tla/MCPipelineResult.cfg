CONSTANTS
  Obj = {o1, o2, o3, o4}
  Undef = Undef
  NoFunc = NoFunc
  RefModulus = 4
  MaxCalls = 6
  Programs = {}
  Sources <- ResultSources
SYMMETRY Addresses
SPECIFICATION PipelineSpec
INVARIANT ReturnedValueAcquired
CHECK_DEADLOCK FALSE
