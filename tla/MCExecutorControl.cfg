CONSTANTS
  Obj = {o1, o2, o3}
  Undef = Undef
  NoFunc = NoFunc
  RefModulus = 4
  MaxCalls = 3
  Length = 4
  Programs <- ControlPrograms
SYMMETRY Addresses
SPECIFICATION Spec
INVARIANT TypeOK
INVARIANT LabelWindow
INVARIANT JumpsLand
CHECK_DEADLOCK FALSE
