\* Constant expressions: folding of every arithmetic, shift, comparison and
\* logical operator over small literals, against the reference evaluation.
CONSTANTS
  NoID = NoID
  NoNode = 0
  TBool = TBool
  TU8 = TU8
  TIdeal = TIdeal
  NoType = NoType
  NoValue = NoValue
  MaxExprDepth = 2
  MaxTypeExprDepth = 1
  ShiftLimit = 3
  BitWidth = 12
  LiteralValue <- MCLiteralValue
  MaxNodes = 5
  MaxHeight = 2
  Leaves = {"0", "2", "3", "4", "08", "true"}
  UOps = {"u-", "!"}
  BOps = {"+", "-", "*", "/", "<<", ">>", "&", "&^", "|", "^", "<", "<=", "==", "&&", "||"}
  AsTypes = {}
  AssignOps = {}
  Fields = {}
  CallFlags = {}
  Structs <- MCStructs
  FuncIn <- MCFuncIn
  FuncOut <- MCFuncOut
  NoStruct = NoStruct
  Roots = {"Expr"}
SPECIFICATION MCSpec
INVARIANT MTypeIffChecked
INVARIANT FoldMatchesReference
INVARIANT FoldDomainEnforced
CHECK_DEADLOCK FALSE
