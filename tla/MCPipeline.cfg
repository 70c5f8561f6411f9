CONSTANTS
  Obj = {o1, o2, o3, o4}
  Undef = Undef
  NoFunc = NoFunc
  RefModulus = 4
  MaxCalls = 6
  Programs = {}
  Sources <- SomeSources
SYMMETRY Addresses
SPECIFICATION PipelineSpec
INVARIANT WellLinked
INVARIANT ErrorsForeseen
INVARIANT ErrorHeeded
INVARIANT Released
INVARIANT ReleasedOnce
INVARIANT OwnDestructor
INVARIANT AnalysedOnce
INVARIANT WrittenFirst
INVARIANT NoErrorLeft
INVARIANT ParametersKept
CHECK_DEADLOCK FALSE
