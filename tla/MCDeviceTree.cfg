SPECIFICATION Spec
CHECK_DEADLOCK FALSE
CONSTANTS
  PropNames = {"compatible", "reg"}
  Values = {"pl011", "gic"}
  MaxTokens = 7
  MaxPath = 2
  Names <- MCNames
INVARIANTS
  StaysInItsNode
  FindsTheFirst
  PrintsTheTree
PROPERTIES
  WalkEnds
