CONSTANTS
  Handlers = {"typed", "any"}
  MaxNodes = 3
SPECIFICATION Spec
INVARIANT TypeOK
INVARIANT LabelsNeverDecrease
INVARIANT RegistersUnique
INVARIANT HandlersMirrored
INVARIANT SlotsReserved
INVARIANT MeantWithoutHandlers
INVARIANT NoObjectLeftBehind
INVARIANT NoDeclarationSkipped
