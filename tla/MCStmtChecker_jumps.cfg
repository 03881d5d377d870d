\* Loops and jumps: nested, labelled and unlabelled loops, each clause of an
\* else-if chain, error returns from every depth.
CONSTANTS
  NoID = NoID
  NoNode = 0
  L1 = L1
  L2 = L2
  X = X
  Y = Y
  E = E
  MaxNodes = 4
  MaxLen = 2
  MaxDepth = 3
  MaxAsserts = 1
  Leaves <- JumpLeaves
  WhileLabels = {NoID, L1}
SPECIFICATION MCSpec
INVARIANT JumpTargetsMirrorStack
INVARIANT JumpResolution
INVARIANT TypeCheckedMeansChecked
PROPERTY Termination
PROPERTY CheckSpecRefined
CHECK_DEADLOCK FALSE
