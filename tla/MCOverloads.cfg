CONSTANTS
  NoAtom = "none"
  Program <- MCProgram
  Classdefs <- MCClassdefs
  Cases <- MCCases
  MaxScore = 15
  Similar <- MCSimilar
  AnyType <- isAny
  Constrained <- hasConstraints
SPECIFICATION Spec
INVARIANT ArgumentsAccepted
INVARIANT LookupAsRuled
PROPERTY ImplementsChoice
CHECK_DEADLOCK FALSE
