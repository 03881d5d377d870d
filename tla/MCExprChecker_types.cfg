\* Typed expressions over local variables of every kind of declared type,
\* "as" conversions (to plain, refined and pointer types), assignments and
\* the declared types themselves, one level deeper than MaxExprDepth and
\* with pointer types nested deeper than MaxTypeExprDepth.
CONSTANTS
  NoID = NoID
  NoNode = 0
  TBool = TBool
  TU8 = TU8
  TIdeal = TIdeal
  NoType = NoType
  NoValue = NoValue
  MaxExprDepth = 1
  MaxTypeExprDepth = 0
  ShiftLimit = 3
  BitWidth = 12
  LiteralValue <- MCLiteralValue
  MaxNodes = 4
  MaxHeight = 2
  Leaves = {"2", "true", "_", "x", "y", "z", "r", "w"}
  UOps = {"u-", "!"}
  BOps = {"+", "<<", "==", "<", "&&"}
  AsTypes = {1, 2, 4, 6, 8, 9}
  AssignOps = {"=", "+="}
  Fields = {}
  CallFlags = {}
  Structs <- MCStructs
  FuncIn <- MCFuncIn
  FuncOut <- MCFuncOut
  NoStruct = NoStruct
  Roots = {"Expr", "Assign", "TypeExpr"}
SPECIFICATION MCSpec
INVARIANT TypeOK
INVARIANT MTypeIffChecked
INVARIANT IdealCoercion
INVARIANT DepthBoundPerLayer
CHECK_DEADLOCK FALSE
