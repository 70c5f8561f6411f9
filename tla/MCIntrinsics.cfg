CONSTANTS
  Span <- MCSpan
  BitAnd <- MCAnd
  BitOr <- MCOr
  BitXor <- MCXor
  Literals <- MCLiterals
  CatalogKinds = {"u8", "i8", "f64", "bool"}
SPECIFICATION Spec
INVARIANT BoolsCanonical
INVARIANT BoxesMatch
INVARIANT NarrowStaysNarrow
CHECK_DEADLOCK FALSE
