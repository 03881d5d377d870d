\* Selectors through ptr chains into structs, in and out, and the two
\* hard-coded call shapes, over variables of pointer, parameter and
\* numeric types.
CONSTANTS
  NoID = NoID
  NoNode = 0
  TBool = TBool
  TU8 = TU8
  TIdeal = TIdeal
  NoType = NoType
  NoValue = NoValue
  MaxExprDepth = 3
  MaxTypeExprDepth = 1
  ShiftLimit = 3
  BitWidth = 12
  LiteralValue <- MCLiteralValue
  MaxNodes = 5
  MaxHeight = 3
  Leaves = {"p", "pp", "in", "out", "a", "3"}
  UOps = {}
  BOps = {}
  AsTypes = {}
  AssignOps = {}
  Fields = {"x", "next", "src", "dst", "read_u8", "low_bits"}
  CallFlags = {{}, {"Impure"}, {"Impure", "Suspendible"}}
  Structs <- MCStructs
  FuncIn <- MCFuncIn
  FuncOut <- MCFuncOut
  NoStruct = NoStruct
  Roots = {"Expr"}
SPECIFICATION MCSpec
INVARIANT MTypeIffChecked
INVARIANT SelectorResolution
CHECK_DEADLOCK FALSE
