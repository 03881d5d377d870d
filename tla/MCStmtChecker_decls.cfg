\* Declarations, the var pre-pass and statements whose checks fail, nested
\* in loops and in every clause of else-if chains.
CONSTANTS
  NoID = NoID
  NoNode = 0
  L1 = L1
  L2 = L2
  X = X
  Y = Y
  E = E
  MaxNodes = 4
  MaxLen = 2
  MaxDepth = 2
  MaxAsserts = 0
  Leaves <- DeclLeaves
  WhileLabels = {NoID}
SPECIFICATION MCSpec
INVARIANT TypeOK
INVARIANT JumpTargetsMirrorStack
INVARIANT JumpResolution
INVARIANT TypeCheckedMeansChecked
PROPERTY Termination
CHECK_DEADLOCK FALSE
