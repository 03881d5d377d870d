\* The var pre-pass against a Var declared in an else-if clause.
CONSTANTS
  NoID = NoID
  NoNode = 0
  L1 = L1
  L2 = L2
  X = X
  Y = Y
  E = E
  MaxNodes = 3
  MaxLen = 1
  MaxDepth = 2
  MaxAsserts = 0
  Leaves <- DeclLeaves
  WhileLabels = {NoID}
SPECIFICATION MCSpec
INVARIANT VarsCollectedBeforeBody
CHECK_DEADLOCK FALSE
