CONSTANTS
  Obj = {o1, o2, o3, o4}
  Undef = Undef
  NoFunc = NoFunc
  RefModulus = 4
  MaxCalls = 6
  Length = 1
  Programs <- ErrorPrograms
SPECIFICATION FairSpec
INVARIANT ErrorAlive
INVARIANT DestroyedOnce
INVARIANT Released
PROPERTY HandlerGetsItsError
PROPERTY Termination
CHECK_DEADLOCK FALSE
