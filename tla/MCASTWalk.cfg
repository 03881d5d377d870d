\* Node.Walk over 16 files of 26 nodes, the visitor failing on up to two nodes.
CONSTANTS
  NoID = NoID
  NoNode = 0
  Files <- MCFiles
  MaxFails = 2
SPECIFICATION Spec
INVARIANT WalkMatchesPreorder
CHECK_DEADLOCK FALSE
