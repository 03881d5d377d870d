\* Function bodies of declarations whose types may fail, assignments,
\* asserts with reason arguments, returns and breaks, nested in loops with
\* asserts and in else-if chains, every condition a bool, a u8, a constant
\* or an undeclared name.
CONSTANTS
  NoID = NoID
  NoNode = 0
  TBool = TBool
  TU8 = TU8
  TIdeal = TIdeal
  NoType = NoType
  NoValue = NoValue
  NoStruct = NoStruct
  MaxExprDepth = 2
  MaxTypeExprDepth = 1
  ShiftLimit = 3
  BitWidth = 8
  LiteralValue <- MCLiteralValue
  Structs <- MCStructs
  FuncIn = NoStruct
  FuncOut = NoStruct
  MaxNodes = 3
  MaxLen = 2
  MaxDepth = 2
  MaxAsserts = 1
  VarDecls <- MCVarDecls
  Inits = {"w"}
  Assigns <- MCAssigns
  Conds = {"true", "y"}
  ArgValues = {"y"}
  Returns = {"x"}
SPECIFICATION MCSpec
INVARIANT TypeOK
INVARIANT StatementsFullyTyped
PROPERTY StmtCheckerRefined
CHECK_DEADLOCK FALSE
