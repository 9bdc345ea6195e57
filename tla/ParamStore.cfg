CONSTANTS
  Align = 8
  Word = 1024
  Names = {"", "wte", "g", "head"}
  EmptyName = ""
  Numels <- ShapeNumels
  DtypeSets <- AnyDtypes
  MaxParams = 3
SPECIFICATION Spec
INVARIANTS TypeOK SlicesSound SpansTile NeverExhausted LayoutTwins OwnNameResolves
PROPERTY NamesStable
CHECK_DEADLOCK FALSE
