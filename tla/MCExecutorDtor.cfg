CONSTANTS
  Obj = {o1, o2, o3}
  Undef = Undef
  NoFunc = NoFunc
  RefModulus = 4
  MaxCalls = 6
  Length = 1
  Programs <- DtorPrograms
SYMMETRY Addresses
SPECIFICATION Spec
INVARIANT ErrorToHandle
CHECK_DEADLOCK FALSE
