\* Shift-assignment of a literal to every local variable.
CONSTANTS
  NoID = NoID
  NoNode = 0
  TBool = TBool
  TU8 = TU8
  TIdeal = TIdeal
  NoType = NoType
  NoValue = NoValue
  MaxExprDepth = 2
  MaxTypeExprDepth = 1
  ShiftLimit = 3
  BitWidth = 12
  LiteralValue <- MCLiteralValue
  MaxNodes = 1
  MaxHeight = 0
  Leaves = {"2"}
  UOps = {}
  BOps = {}
  AsTypes = {}
  AssignOps = {"<<="}
  Fields = {}
  CallFlags = {}
  Structs <- MCStructs
  FuncIn <- MCFuncIn
  FuncOut <- MCFuncOut
  NoStruct = NoStruct
  Roots = {"Assign"}
SPECIFICATION MCSpec
INVARIANT IdealCoercion
CHECK_DEADLOCK FALSE
