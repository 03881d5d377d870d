\* && over a bool variable and a bool literal.
CONSTANTS
  NoID = NoID
  NoNode = 0
  TBool = TBool
  TU8 = TU8
  TIdeal = TIdeal
  NoType = NoType
  NoValue = NoValue
  MaxExprDepth = 2
  MaxTypeExprDepth = 1
  ShiftLimit = 3
  BitWidth = 12
  LiteralValue <- MCLiteralValue
  MaxNodes = 3
  MaxHeight = 1
  Leaves = {"x", "true"}
  UOps = {}
  BOps = {"&&"}
  AsTypes = {}
  AssignOps = {}
  Fields = {}
  CallFlags = {}
  Structs <- MCStructs
  FuncIn <- MCFuncIn
  FuncOut <- MCFuncOut
  NoStruct = NoStruct
  Roots = {"Expr"}
SPECIFICATION MCSpec
INVARIANT BoolOperandsAccepted
CHECK_DEADLOCK FALSE
