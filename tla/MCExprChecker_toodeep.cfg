\* Expressions one level deeper than MaxExprDepth next to shallow operands.
CONSTANTS
  NoID = NoID
  NoNode = 0
  TBool = TBool
  TU8 = TU8
  TIdeal = TIdeal
  NoType = NoType
  NoValue = NoValue
  MaxExprDepth = 1
  MaxTypeExprDepth = 1
  ShiftLimit = 3
  BitWidth = 12
  LiteralValue <- MCLiteralValue
  MaxNodes = 4
  MaxHeight = 3
  Leaves = {"2"}
  UOps = {"u-"}
  BOps = {"+"}
  AsTypes = {}
  AssignOps = {}
  Fields = {}
  CallFlags = {}
  Structs <- MCStructs
  FuncIn <- MCFuncIn
  FuncOut <- MCFuncOut
  NoStruct = NoStruct
  Roots = {"Expr"}
SPECIFICATION MCSpec
INVARIANT TooDeepLeavesNoAnnotations
CHECK_DEADLOCK FALSE
