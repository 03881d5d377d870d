\* The low_bits hack over a literal: 3.low_bits(n:3) is typed as its
\* receiver, ideal, without a constant value.
CONSTANTS
  NoID = NoID
  NoNode = 0
  TBool = TBool
  TU8 = TU8
  TIdeal = TIdeal
  NoType = NoType
  NoValue = NoValue
  MaxExprDepth = 3
  MaxTypeExprDepth = 1
  ShiftLimit = 3
  BitWidth = 12
  LiteralValue <- MCLiteralValue
  MaxNodes = 5
  MaxHeight = 3
  Leaves = {"p", "pp", "in", "out", "a", "3"}
  UOps = {}
  BOps = {}
  AsTypes = {}
  AssignOps = {}
  Fields = {"x", "next", "src", "dst", "read_u8", "low_bits"}
  CallFlags = {{}, {"Impure"}, {"Impure", "Suspendible"}}
  Structs <- MCStructs
  FuncIn <- MCFuncIn
  FuncOut <- MCFuncOut
  NoStruct = NoStruct
  Roots = {"Expr"}
SPECIFICATION MCSpec
INVARIANT IdealIsConstant
CHECK_DEADLOCK FALSE
