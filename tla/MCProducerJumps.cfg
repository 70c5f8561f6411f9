CONSTANTS
  Handlers = {"any"}
  MaxNodes = 3
SPECIFICATION Spec
INVARIANT JumpsAsMeant
