CONSTANTS
  Obj = {o1, o2, o3, o4}
  Undef = Undef
  NoFunc = NoFunc
  RefModulus = 4
  MaxCalls = 6
  Programs = {}
  Sources <- HandledSources
SYMMETRY Addresses
SPECIFICATION PipelineSpec
INVARIANT ReleasedOnce
CHECK_DEADLOCK FALSE
