----------------------------- MODULE ExprChecker -----------------------------
(***************************************************************************)
(* The expression half of the type checker of lang/check/type.go:          *)
(* tcheckExpr and the handlers it dispatches to, constant folding          *)
(* (setConstValueBinaryOp), tcheckTypeExpr and tcheckAssign.               *)
(*                                                                         *)
(* The Go functions recurse over the tree and annotate its nodes in place, *)
(* returning the first error.  Each is an operator here that takes the     *)
(* annotations A = [mType, cv, checked] as they are on entry and returns   *)
(* [a, err, at]: the annotations on exit, the error kind ("none" on        *)
(* success) and the node that raised it.  Threading A through the calls in *)
(* the order Go makes them keeps every annotation an error leaves behind.  *)
(*                                                                         *)
(* A type is a *TypeExpr: the id of a parsed TypeExpr node, or one of the  *)
(* checker's singletons TBool, TU8, TIdeal.  Go's == on types is equality  *)
(* of these references, Eq and EqIgnoringRefinements compare structure.    *)
(***************************************************************************)
EXTENDS AST, Integers, FiniteSets, Bitwise

CONSTANTS
  MaxExprDepth,      \* a.MaxExprDepth (255 in ast.go)
  MaxTypeExprDepth,  \* a.MaxTypeExprDepth (63 in ast.go)
  ShiftLimit,        \* ffff: the largest constant shift count (0xFFFF)
  BitWidth,          \* two's-complement width that holds every folded value
  LiteralValue,      \* numeric literal text -> big.Int SetString(s, 0), NoValue if invalid
  TBool, TU8, TIdeal,\* TypeExprBool, TypeExprU8, TypeExprIdeal
  NoType,            \* a nil mType
  NoValue,           \* a nil constValue
  Structs,           \* q.c.structs: struct name -> [field name -> its XType]
  FuncIn, FuncOut,   \* q.f.Func.In(), Out(): [field name -> its XType], or NoStruct
  NoStruct           \* a nil *Struct

Singletons == {TBool, TU8, TIdeal}

\* Operator keys by token flag, in disambiguated form.
UnaryOps       == {"u+", "u-", "!"}
BinaryOps      == {"+", "-", "*", "/", "<<", ">>", "&", "&^", "|", "^",
                   "!=", "<", "<=", "==", ">=", ">", "&&", "||", "as"}
AssociativeOps == {"a+", "a&&"}
ComparisonOps  == {"!=", "<", "<=", "==", ">=", ">"}
ShiftOps       == {"<<", ">>"}
Keywords       == {"true", "false", "_", "this"}

IsNumLiteral(id) == id \in DOMAIN LiteralValue
IsIdent(id)      == id # NoID /\ ~IsNumLiteral(id) /\ id \notin Keywords

-----------------------------------------------------------------------------
(* Types.                                                                  *)

\* The node a type reference points at.
SingletonNode(t) ==
  NewTypeExpr(NoID, CASE t = TBool -> "bool" [] t = TU8 -> "u8" [] t = TIdeal -> "ideal",
              NoNode, NoNode, NoNode)
TypeView(nodes, t) == IF t \in Singletons THEN SingletonNode(t) ELSE nodes[t]

\* numeric(): an ideal or a numeric named type.
Numeric(nodes, t) == t = TIdeal \/ IsNumType(TypeView(nodes, t))

\* Expr.Eq: the same tree, annotations aside.
RECURSIVE NodeEq(_, _, _)
NodeEq(nodes, a, b) ==
  IF a = NoNode \/ b = NoNode THEN a = b
  ELSE /\ nodes[a].id0 = nodes[b].id0 /\ nodes[a].id1 = nodes[b].id1
       /\ NodeEq(nodes, nodes[a].lhs, nodes[b].lhs)
       /\ NodeEq(nodes, nodes[a].mhs, nodes[b].mhs)
       /\ NodeEq(nodes, nodes[a].rhs, nodes[b].rhs)

\* TypeExpr.Eq and TypeExpr.EqIgnoringRefinements: the same decorators and
\* names all the way in, and the same bounds unless refinements are ignored
\* (an array's length always counts).
RECURSIVE TypeEq(_, _, _, _)
TypeEq(nodes, t, u, ignoreRefinements) ==
  LET x == TypeView(nodes, t)  y == TypeView(nodes, u) IN
  /\ x.id0 = y.id0 /\ x.id1 = y.id1
  /\ (x.id0 = "[" \/ ~ignoreRefinements) =>
        NodeEq(nodes, x.lhs, y.lhs) /\ NodeEq(nodes, x.mhs, y.mhs)
  /\ IF x.rhs = NoNode \/ y.rhs = NoNode THEN x.rhs = y.rhs
     ELSE TypeEq(nodes, x.rhs, y.rhs, ignoreRefinements)

\* Mutant: only the first ptr decorator is stripped.
StripOnePtr(nodes, t) ==
  IF TypeView(nodes, t).id0 = "ptr" THEN TypeView(nodes, t).rhs ELSE t

\* The type under every leading ptr decorator (the loop of tcheckDot).
RECURSIVE StripPtr(_, _)
StripPtr(nodes, t) ==
  IF TypeView(nodes, t).id0 = "ptr" THEN StripPtr(nodes, TypeView(nodes, t).rhs) ELSE t

\* isInSrcReadU8: the callee is the selector chain in.src.read_u8.
IsInSrcReadU8(nodes, n) ==
  /\ nodes[n].id0 = "." /\ nodes[n].id1 = "read_u8"
  /\ nodes[nodes[n].lhs].id0 = "." /\ nodes[nodes[n].lhs].id1 = "src"
  /\ nodes[nodes[nodes[n].lhs].lhs].id0 = NoID /\ nodes[nodes[nodes[n].lhs].lhs].id1 = "in"

\* isLowBits: the callee is a selector of low_bits.
IsLowBits(nodes, n) == nodes[n].id0 = "." /\ nodes[n].id1 = "low_bits"

Eq(nodes, t, u) == TypeEq(nodes, t, u, FALSE)
EqIgnoringRefinements(nodes, t, u) == TypeEq(nodes, t, u, TRUE)

-----------------------------------------------------------------------------
(* Big-integer arithmetic of math/big.                                     *)

\* Mutant: division rounding down, as TLA+'s \div does.
BigDivFloor(l, r) == l \div r

\* Int.Div: Euclidean division, the remainder never negative.
BigDiv(l, r) == IF r > 0 THEN l \div r ELSE -(l \div (-r))

\* Int.Lsh and Int.Rsh (an arithmetic shift, rounding down).
BigLsh(l, s) == l * 2^s
BigRsh(l, s) == l \div 2^s

\* Int.And, AndNot, Or, Xor on two's-complement values of BitWidth bits.
Unsigned(v) == v % 2^BitWidth
Signed(u)   == IF u >= 2^(BitWidth - 1) THEN u - 2^BitWidth ELSE u
BigAnd(l, r)    == Signed(Unsigned(l) & Unsigned(r))
BigAndNot(l, r) == Signed(Unsigned(l) & (2^BitWidth - 1 - Unsigned(r)))
BigOr(l, r)     == Signed(Unsigned(l) | Unsigned(r))
BigXor(l, r)    == Signed(Unsigned(l) ^^ Unsigned(r))

Btoi(b) == IF b THEN 1 ELSE 0

-----------------------------------------------------------------------------
(* Results of the checking operators.                                      *)

Ok(A)          == [a |-> A, err |-> "none", at |-> NoNode]
Err(A, kind, n) == [a |-> A, err |-> kind, at |-> n]
Failed(r)      == r.err # "none"

SetMType(A, n, t)       == [A EXCEPT !.mType[n] = t]
SetConstValue(A, n, v)  == [A EXCEPT !.cv[n] = v]
SetTypeChecked(A, n)    == [A EXCEPT !.checked = @ \cup {n}]

\* The end of tcheckExpr, tcheckTypeExpr and tcheckArg: the mark on success.
MarkAfter(n, r) == IF Failed(r) THEN r ELSE Ok(SetTypeChecked(r.a, n))

-----------------------------------------------------------------------------
(* Constant folding and the operand rules of binary operators.             *)

\* Mutant: the shift bound excludes 0xFFFF itself.
ShiftOutOfRangeOffByOne(r) == r < 0 \/ r >= ShiftLimit

\* A constant shift count outside [0, 0xFFFF].
ShiftOutOfRange(r) == r < 0 \/ r > ShiftLimit

\* Mutant: a divisor check that borrows the shift check's sign test.
DivisionByZeroNonPositive(r) == r <= 0

\* A constant divisor that is zero.
DivisionByZero(r) == r = 0

\* setConstValueBinaryOp: [err, v], the folded value of l op r.
SetConstValueBinaryOp(op, l, r) ==
  LET Val(v) == [err |-> "none", v |-> v] IN CASE op = "+"  -> Val(l + r)
       [] op = "-"  -> Val(l - r)
       [] op = "*"  -> Val(l * r)
       [] op = "/"  -> IF DivisionByZero(r) THEN [err |-> "DivByZero", v |-> NoValue] ELSE Val(BigDiv(l, r))
       [] op = "<<" -> IF ShiftOutOfRange(r) THEN [err |-> "ShiftOutOfRange", v |-> NoValue]
                       ELSE Val(BigLsh(l, r))
       [] op = ">>" -> IF ShiftOutOfRange(r) THEN [err |-> "ShiftOutOfRange", v |-> NoValue]
                       ELSE Val(BigRsh(l, r))
       [] op = "&"  -> Val(BigAnd(l, r))
       [] op = "&^" -> Val(BigAndNot(l, r))
       [] op = "|"  -> Val(BigOr(l, r))
       [] op = "^"  -> Val(BigXor(l, r))
       [] op = "!=" -> Val(Btoi(l # r))
       [] op = "<"  -> Val(Btoi(l < r))
       [] op = "<=" -> Val(Btoi(l <= r))
       [] op = "==" -> Val(Btoi(l = r))
       [] op = ">=" -> Val(Btoi(l >= r))
       [] op = ">"  -> Val(Btoi(l > r))
       [] op = "&&" -> Val(Btoi(l # 0 /\ r # 0))
       [] op = "||" -> Val(Btoi(l # 0 \/ r # 0))

\* The first switch of tcheckExprBinaryOp: the operand categories.  The
\* boolean operators compare the operand types with TypeExprBool by pointer.
OperandKindError(nodes, op, lTyp, rTyp) ==
  CASE op \in {"!=", "=="} -> "none"
    [] op \in {"&&", "||"} -> IF lTyp # TBool \/ rTyp # TBool THEN "NotBoolean" ELSE "none"
    [] OTHER -> IF ~Numeric(nodes, lTyp) \/ ~Numeric(nodes, rTyp) THEN "NonNumeric" ELSE "none"

\* The second switch: operand types must agree unless one is ideal; an
\* ideal may only be shifted by an ideal.
IncompatibleOperands(nodes, op, lTyp, rTyp) ==
  IF op \in ShiftOps THEN lTyp = TIdeal /\ rTyp # TIdeal
  ELSE ~EqIgnoringRefinements(nodes, lTyp, rTyp) /\ lTyp # TIdeal /\ rTyp # TIdeal

\* The type of a binary expression: bool for a comparison, else the
\* left operand's type unless it is ideal.
BinaryResultType(op, lTyp, rTyp) ==
  IF op \in ComparisonOps THEN TBool
  ELSE IF lTyp # TIdeal THEN lTyp ELSE rTyp

-----------------------------------------------------------------------------
(* The recursive checkers.  E = [nodes, localVars].  Each recursive call   *)
(* is made once, and its result r handed to the operator that models the   *)
(* Go code after the call.                                                 *)

RECURSIVE TcheckExpr(_, _, _, _), TcheckTypeExpr(_, _, _, _)

\* Mutant: a local variable's leaf gets its own node, not the declared
\* type, as its type.
TcheckExprLeafSelfType(E, n, A) ==
  LET x == E.nodes[n] IN
  CASE IsNumLiteral(x.id1) ->
         IF LiteralValue[x.id1] = NoValue THEN Err(A, "InvalidNumericLiteral", n)
         ELSE Ok(SetMType(SetConstValue(A, n, LiteralValue[x.id1]), n, TIdeal))
    [] IsIdent(x.id1) ->
         IF x.id1 \in DOMAIN E.localVars THEN Ok(SetMType(A, n, n))
         ELSE Err(A, "UnknownIdent", n)
    [] x.id1 = "false" -> Ok(SetMType(SetConstValue(A, n, 0), n, TBool))
    [] x.id1 = "true"  -> Ok(SetMType(SetConstValue(A, n, 1), n, TBool))
    [] OTHER -> Err(A, "UnrecognizedKind", n)

\* The leaf case of tcheckExprOther (id0 = 0): a literal, a local variable,
\* true or false; "_" and "this" fall through to the error.
TcheckExprLeaf(E, n, A) ==
  LET x == E.nodes[n] IN
  CASE IsNumLiteral(x.id1) ->
         IF LiteralValue[x.id1] = NoValue THEN Err(A, "InvalidNumericLiteral", n)
         ELSE Ok(SetMType(SetConstValue(A, n, LiteralValue[x.id1]), n, TIdeal))
    [] IsIdent(x.id1) ->
         IF x.id1 \in DOMAIN E.localVars THEN Ok(SetMType(A, n, E.localVars[x.id1]))
         ELSE Err(A, "UnknownIdent", n)
    [] x.id1 = "false" -> Ok(SetMType(SetConstValue(A, n, 0), n, TBool))
    [] x.id1 = "true"  -> Ok(SetMType(SetConstValue(A, n, 1), n, TBool))
    [] OTHER -> Err(A, "UnrecognizedKind", n)

\* tcheckDot after checking the operand (result r): the struct named by the
\* operand's type under its ptrs (in, out, or a registered struct; buf1 is
\* a byte), and the type of its field.
DotAfter(E, n, r) ==
  LET x == E.nodes[n]
      lTyp == StripPtr(E.nodes, r.a.mType[x.lhs])
      name == TypeView(E.nodes, lTyp).id1
      s == CASE name = "in" -> FuncIn
             [] name = "out" -> FuncOut
             [] name \in DOMAIN Structs -> Structs[name]
             [] OTHER -> NoStruct
  IN CASE Failed(r) -> r
       [] TypeView(E.nodes, lTyp).id0 # NoID -> Err(r.a, "UnsupportedDecoratorForDot", n)
       [] name = "buf1" -> Ok(SetMType(r.a, n, TU8))
       [] s = NoStruct -> Err(r.a, "NoStruct", n)
       [] x.id1 \in DOMAIN s -> Ok(SetMType(r.a, n, s[x.id1]))
       [] OTHER -> Err(r.a, "NoSuchField", n)

TcheckDot(E, n, depth, A) == DotAfter(E, n, TcheckExpr(E, E.nodes[n].lhs, depth, A))

\* tcheckArg: the value, then the mark on the Arg.
TcheckArg(E, a, depth, A) == MarkAfter(a, TcheckExpr(E, E.nodes[a].rhs, depth, A))

\* The in.src.read_u8?() hack after checking the callee (result r).
ReadU8After(n, r) == IF Failed(r) THEN r ELSE Ok(SetMType(r.a, n, TU8))

\* The foo.low_bits(etc) hack after its argument (result r): the receiver's type.
LowBitsAfterArg(E, n, r) ==
  IF Failed(r) THEN r ELSE Ok(SetMType(r.a, n, r.a.mType[E.nodes[E.nodes[n].lhs].lhs]))

\* The low_bits hack after checking the receiver foo (result r): the callee
\* is marked and typed u8 unchecked, then the argument is checked.
LowBitsAfterFoo(E, n, depth, r) ==
  LET callee == E.nodes[n].lhs IN
  IF Failed(r) THEN r
  ELSE LowBitsAfterArg(E, n, TcheckArg(E, E.nodes[n].list0[1], depth,
                                       SetMType(SetTypeChecked(r.a, callee), callee, TU8)))

\* tcheckExprOther: leaves, the two call hacks, selectors; other calls,
\* indexes and slices are rejected.
TcheckExprOther(E, n, depth, A) ==
  LET x == E.nodes[n] IN
  CASE x.id0 = NoID -> TcheckExprLeaf(E, n, A)
    [] x.id0 = "(" /\ IsInSrcReadU8(E.nodes, x.lhs) /\ "Suspendible" \in x.flags /\ x.list0 = <<>> ->
         ReadU8After(n, TcheckExpr(E, x.lhs, depth, A))
    [] x.id0 = "(" /\ IsLowBits(E.nodes, x.lhs) /\ "Impure" \notin x.flags /\ Len(x.list0) = 1 ->
         LowBitsAfterFoo(E, n, depth, TcheckExpr(E, E.nodes[x.lhs].lhs, depth, A))
    [] x.id0 = "." -> TcheckDot(E, n, depth, A)
    [] OTHER -> Err(A, "UnrecognizedKind", n)

\* tcheckExprUnaryOp after checking the operand (result r): + and - of a
\* numeric, ! of a bool (compared with Eq), folded when r is constant.
UnaryOpAfter(E, n, r) ==
  LET x == E.nodes[n]
      rTyp == r.a.mType[x.rhs]
      cv == r.a.cv[x.rhs]
  IN CASE Failed(r) -> r
       [] x.id0 \in {"u+", "u-"} ->
            IF ~Numeric(E.nodes, rTyp) THEN Err(r.a, "NonNumeric", n)
            ELSE LET A2 == IF cv = NoValue THEN r.a
                           ELSE SetConstValue(r.a, n, IF x.id0 = "u-" THEN -cv ELSE cv)
                 IN Ok(SetMType(A2, n, rTyp))
       [] OTHER ->
            IF ~Eq(E.nodes, rTyp, TBool) THEN Err(r.a, "NotBoolean", n)
            ELSE LET A2 == IF cv = NoValue THEN r.a ELSE SetConstValue(r.a, n, Btoi(cv = 0))
                 IN Ok(SetMType(A2, n, TBool))

TcheckExprUnaryOp(E, n, depth, A) ==
  UnaryOpAfter(E, n, TcheckExpr(E, E.nodes[n].rhs, depth, A))

\* tcheckExprBinaryOp for "as" after checking the target type (result t).
AsAfter(E, n, lTyp, t) ==
  CASE Failed(t) -> t
    [] Numeric(E.nodes, lTyp) /\ IsNumType(E.nodes[E.nodes[n].rhs]) ->
         Ok(SetMType(t.a, n, E.nodes[n].rhs))
    [] OTHER -> Err(t.a, "CannotConvert", n)

\* tcheckExprBinaryOp after checking both operands (result r): the operand
\* rules, folding, the result type.
BinaryOpAfter(E, n, lTyp, r) ==
  LET x == E.nodes[n]
      op == x.id0
      rTyp == r.a.mType[x.rhs]
      lcv == r.a.cv[x.lhs]  rcv == r.a.cv[x.rhs]
      kindErr == OperandKindError(E.nodes, op, lTyp, rTyp)
      fold == IF lcv # NoValue /\ rcv # NoValue THEN SetConstValueBinaryOp(op, lcv, rcv)
              ELSE [err |-> "none", v |-> NoValue]
      A2 == IF fold.v = NoValue THEN r.a ELSE SetConstValue(r.a, n, fold.v)
  IN CASE Failed(r) -> r
       [] kindErr # "none" -> Err(r.a, kindErr, n)
       [] IncompatibleOperands(E.nodes, op, lTyp, rTyp) -> Err(r.a, "IncompatibleTypes", n)
       [] fold.err # "none" -> Err(r.a, fold.err, n)
       [] OTHER -> Ok(SetMType(A2, n, BinaryResultType(op, lTyp, rTyp)))

\* Mutant: the target type of "as" is checked at the expression's depth.
BinaryOpLeftAfterKeepsDepth(E, n, depth, l) ==
  LET x == E.nodes[n]
      lTyp == l.a.mType[x.lhs]
  IN IF Failed(l) THEN l
     ELSE IF x.id0 = "as" THEN AsAfter(E, n, lTyp, TcheckTypeExpr(E, x.rhs, depth, l.a))
     ELSE BinaryOpAfter(E, n, lTyp, TcheckExpr(E, x.rhs, depth, l.a))

\* tcheckExprBinaryOp after checking the left operand (result l): for "as"
\* the target type at depth 0, for the others the right operand.
BinaryOpLeftAfter(E, n, depth, l) ==
  LET x == E.nodes[n]
      lTyp == l.a.mType[x.lhs]
  IN IF Failed(l) THEN l
     ELSE IF x.id0 = "as" THEN AsAfter(E, n, lTyp, TcheckTypeExpr(E, x.rhs, 0, l.a))
     ELSE BinaryOpAfter(E, n, lTyp, TcheckExpr(E, x.rhs, depth, l.a))

TcheckExprBinaryOp(E, n, depth, A) ==
  BinaryOpLeftAfter(E, n, depth, TcheckExpr(E, E.nodes[n].lhs, depth, A))

\* The dispatch of tcheckExpr on the operator's flags.
Dispatch(E, n, depth, A) ==
  LET op == E.nodes[n].id0 IN
  CASE op \in UnaryOps       -> TcheckExprUnaryOp(E, n, depth, A)
    [] op \in BinaryOps      -> TcheckExprBinaryOp(E, n, depth, A)
    [] op \in AssociativeOps -> Err(A, "UnrecognizedKind", n)
    [] OTHER                 -> TcheckExprOther(E, n, depth, A)

\* Mutant: the node is marked before its handler runs.
TcheckExprMarksFirst(E, n, depth, A) ==
  IF depth > MaxExprDepth THEN Err(A, "TooDeep", n)
  ELSE Dispatch(E, n, depth + 1, SetTypeChecked(A, n))

\* tcheckExpr: the depth bound, the dispatch with depth + 1, the mark.
TcheckExpr(E, n, depth, A) ==
  IF depth > MaxExprDepth THEN Err(A, "TooDeep", n)
  ELSE MarkAfter(n, Dispatch(E, n, depth + 1, A))

\* A refinement bound or array length: checked at depth 0, then required
\* to be constant.
ConstantAfter(b, r) ==
  CASE Failed(r) -> r
    [] r.a.cv[b] = NoValue -> Err(r.a, "NotConstant", b)
    [] OTHER -> r

CheckConstant(E, b, A) ==
  IF b = NoNode THEN Ok(A) ELSE ConstantAfter(b, TcheckExpr(E, b, 0, A))

\* A numeric type's upper bound, after its lower bound (result lo).
BoundsAfter(E, n, lo) == IF Failed(lo) THEN lo ELSE CheckConstant(E, E.nodes[n].mhs, lo.a)

\* An array's element type, after its length (result len).
ArrayAfter(E, n, depth, len) ==
  IF Failed(len) THEN len ELSE TcheckTypeExpr(E, E.nodes[n].rhs, depth + 1, len.a)

\* tcheckTypeExpr: named types (numeric with constant bounds, bool, buf1),
\* ptr T and [N] T, with its own depth bound, and the mark on success.
TcheckTypeExpr(E, n, depth, A) ==
  LET x == E.nodes[n] IN
  IF depth > MaxTypeExprDepth THEN Err(A, "TooDeep", n)
  ELSE MarkAfter(n,
         CASE x.id0 = NoID /\ x.id1 \in NumTypeNames -> BoundsAfter(E, n, CheckConstant(E, x.lhs, A))
           [] x.id0 = NoID /\ x.id1 \in {"bool", "buf1"} -> Ok(A)
           [] x.id0 = NoID -> Err(A, "NotAType", n)
           [] x.id0 = "ptr" -> TcheckTypeExpr(E, x.rhs, depth + 1, A)
           [] x.id0 = "[" -> ArrayAfter(E, n, depth, CheckConstant(E, x.lhs, A))
           [] OTHER -> Err(A, "UnrecognizedKind", n))

\* Mutant: a compound assignment does not accept an ideal right-hand side.
AssignAfterNoIdeal(E, n, r) ==
  LET x == E.nodes[n]
      lTyp == r.a.mType[x.lhs]  rTyp == r.a.mType[x.rhs]
      lNum == IsNumType(TypeView(E.nodes, lTyp))
  IN CASE Failed(r) -> r
       [] x.id0 = "=" ->
            IF (rTyp = TIdeal /\ lNum) \/ EqIgnoringRefinements(E.nodes, lTyp, rTyp)
            THEN r ELSE Err(r.a, "NotAssignable", n)
       [] ~lNum -> Err(r.a, "NonNumeric", n)
       [] x.id0 \in {"<<=", ">>="} ->
            IF IsNumType(TypeView(E.nodes, rTyp)) THEN r ELSE Err(r.a, "NonNumeric", n)
       [] EqIgnoringRefinements(E.nodes, lTyp, rTyp) -> r
       [] OTHER -> Err(r.a, "IncompatibleTypes", n)

\* tcheckAssign after checking both sides (result r): "=" needs an ideal
\* into a numeric type or equal types; a compound operator a numeric
\* assignee, a numeric named type to shift by, else an ideal or equal types.
AssignAfter(E, n, r) ==
  LET x == E.nodes[n]
      lTyp == r.a.mType[x.lhs]  rTyp == r.a.mType[x.rhs]
      lNum == IsNumType(TypeView(E.nodes, lTyp))
  IN CASE Failed(r) -> r
       [] x.id0 = "=" ->
            IF (rTyp = TIdeal /\ lNum) \/ EqIgnoringRefinements(E.nodes, lTyp, rTyp)
            THEN r ELSE Err(r.a, "NotAssignable", n)
       [] ~lNum -> Err(r.a, "NonNumeric", n)
       [] x.id0 \in {"<<=", ">>="} ->
            IF IsNumType(TypeView(E.nodes, rTyp)) THEN r ELSE Err(r.a, "NonNumeric", n)
       [] rTyp = TIdeal \/ EqIgnoringRefinements(E.nodes, lTyp, rTyp) -> r
       [] OTHER -> Err(r.a, "IncompatibleTypes", n)

\* tcheckAssign: both sides at depth 0, the right only if the left checks.
AssignLeftAfter(E, n, l) ==
  IF Failed(l) THEN l ELSE AssignAfter(E, n, TcheckExpr(E, E.nodes[n].rhs, 0, l.a))

TcheckAssign(E, n, A) == AssignLeftAfter(E, n, TcheckExpr(E, E.nodes[n].lhs, 0, A))

-----------------------------------------------------------------------------
(* The checker applied to one parsed tree, as a statement, tcheckVars or   *)
(* an Assign hands it over.                                                *)

VARIABLES
  ast,         \* [nodes, root]: the tree being checked
  localVars,   \* q.f.LocalVars: name -> the *TypeExpr of its declaration
  mType,       \* node -> Expr.MType (NoType while nil)
  constValue,  \* node -> Expr.ConstValue (NoValue while nil)
  checked,     \* nodes with FlagsTypeChecked
  status,      \* "ready", then "ok" or "err"
  errKind,     \* the error returned
  errNode      \* the node that raised it

vars == <<ast, localVars, mType, constValue, checked, status, errKind, errNode>>

nodes == ast.nodes
Env   == [nodes |-> nodes, localVars |-> localVars]
Annot == [mType |-> mType, cv |-> constValue, checked |-> checked]

\* The checker's answer r written back to the tree.
Apply(r) ==
  /\ mType' = r.a.mType /\ constValue' = r.a.cv /\ checked' = r.a.checked
  /\ status' = IF Failed(r) THEN "err" ELSE "ok"
  /\ errKind' = r.err /\ errNode' = r.at
  /\ UNCHANGED <<ast, localVars>>

\* A condition, assert or initializer: tcheckExpr(n, 0).
CheckExpr ==
  /\ status = "ready" /\ nodes[ast.root].kind = "Expr"
  /\ Apply(TcheckExpr(Env, ast.root, 0, Annot))

\* An assignment statement: tcheckAssign(n).
CheckAssign ==
  /\ status = "ready" /\ nodes[ast.root].kind = "Assign"
  /\ Apply(TcheckAssign(Env, ast.root, Annot))

\* A var's declared type in the pre-pass: tcheckTypeExpr(n.XType(), 0).
CheckTypeExpr ==
  /\ status = "ready" /\ nodes[ast.root].kind = "TypeExpr"
  /\ Apply(TcheckTypeExpr(Env, ast.root, 0, Annot))

InitWith(trees, scopes) ==
  /\ ast \in trees
  /\ localVars \in scopes
  /\ mType = [n \in DOMAIN ast.nodes |-> NoType]
  /\ constValue = [n \in DOMAIN ast.nodes |-> NoValue]
  /\ checked = {}
  /\ status = "ready" /\ errKind = "none" /\ errNode = NoNode

Next == CheckExpr \/ CheckAssign \/ CheckTypeExpr

SpecWith(trees, scopes) == InitWith(trees, scopes) /\ [][Next]_vars

-----------------------------------------------------------------------------
(* Properties.                                                             *)

ExprNodes == {n \in DOMAIN nodes : nodes[n].kind = "Expr"}
TypeRefs  == {n \in DOMAIN nodes : nodes[n].kind = "TypeExpr"} \cup Singletons

TypeOK ==
  /\ mType \in [DOMAIN nodes -> TypeRefs \cup {NoType}]
  /\ constValue \in [DOMAIN nodes -> Int \cup {NoValue}]
  /\ checked \subseteq DOMAIN nodes
  /\ status \in {"ready", "ok", "err"}
  /\ (status = "err") <=> (errKind # "none" /\ errNode \in DOMAIN nodes)

\* The value an expression denotes, computed from the tree alone with the
\* integer semantics math/big documents (NoValue: not a constant), without
\* SetConstValueBinaryOp or the Big* operators: division and shifts by what
\* they satisfy, bit operations bit by bit, comparisons by trichotomy.
RECURSIVE RefValue(_)
RefValue(e) ==
  LET x == nodes[e]
      l == RefValue(x.lhs)  r == RefValue(x.rhs)
      Abs(v) == IF v < 0 THEN -v ELSE v
      Euclid(a, b) == CHOOSE q \in -Abs(a) - 1 .. Abs(a) + 1 :
                        a - b * q \in 0 .. Abs(b) - 1
      Floor2(a, s) == CHOOSE q \in -Abs(a) - 1 .. Abs(a) :
                        q * 2^s <= a /\ a < (q + 1) * 2^s
      Bit(v, i) == (v % 2^(i + 1)) \div 2^i
      \* Bit by bit in BitWidth-bit two's complement, the top bit negative.
      PerBit(a, b, B(_, _)) ==
        MapThenSumSet(LAMBDA i : B(Bit(a, i), Bit(b, i)) * 2^i, 0 .. BitWidth - 2)
          - B(Bit(a, BitWidth - 1), Bit(b, BitWidth - 1)) * 2^(BitWidth - 1)
  IN CASE x.id0 = NoID /\ IsNumLiteral(x.id1) -> LiteralValue[x.id1]
       [] x.id0 = NoID /\ x.id1 \in {"true", "false"} -> Btoi(x.id1 = "true")
       [] x.id0 \in {"u+", "u-", "!"} /\ r # NoValue ->
            CASE x.id0 = "u+" -> r [] x.id0 = "u-" -> 0 - r [] OTHER -> Btoi(r = 0)
       [] x.id0 \in BinaryOps \ {"as"} /\ l # NoValue /\ r # NoValue ->
            CASE x.id0 = "/"  -> Euclid(l, r)
              [] x.id0 = "<<" -> l * 2^r
              [] x.id0 = ">>" -> Floor2(l, r)
              [] x.id0 = "+"  -> l + r
              [] x.id0 = "-"  -> l - r
              [] x.id0 = "*"  -> l * r
              [] x.id0 = "&"  -> PerBit(l, r, LAMBDA a, b : a * b)
              [] x.id0 = "&^" -> PerBit(l, r, LAMBDA a, b : a * (1 - b))
              [] x.id0 = "|"  -> PerBit(l, r, LAMBDA a, b : a + b - a * b)
              [] x.id0 = "^"  -> PerBit(l, r, LAMBDA a, b : (a + b) % 2)
              [] x.id0 \in {"==", "!=", "<", "<=", ">", ">="} ->
                   Btoi(\/ l < r /\ x.id0 \in {"!=", "<", "<="}
                        \/ l = r /\ x.id0 \in {"==", "<=", ">="}
                        \/ l > r /\ x.id0 \in {"!=", ">", ">="})
              [] x.id0 = "&&" -> Btoi(l # 0 /\ r # 0)
              [] x.id0 = "||" -> Btoi(l # 0 \/ r # 0)
       [] OTHER -> NoValue

\* An expression has a type exactly when it is marked checked: no handler
\* sets a type and then fails, and none succeeds without setting one.
MTypeIffChecked ==
  \A e \in ExprNodes : (mType[e] # NoType) <=> (e \in checked)

\* An expression the checker types as ideal has a constant value: Ideal is
\* the type of untyped numeric literals (spec 4.2.6, 10), set with their
\* constant value, and flows only through operators that fold.  The
\* low_bits hack of tcheckExprOther gives the call foo's type, whatever foo is.
IdealIsConstant ==
  \A e \in checked \cap ExprNodes : mType[e] = TIdeal => constValue[e] # NoValue

\* Every checked expression carries the constant value its tree denotes,
\* and carries none when it is not a constant: unary and binary folding,
\* Euclidean division, shifts, and the loss of constness through "as".
FoldMatchesReference ==
  \A e \in checked \cap ExprNodes : constValue[e] = RefValue(e)

\* Folding fails exactly at the edges of its domain: an accepted tree folds
\* no shift whose constant count is outside [0, 0xFFFF] and no division by
\* a constant zero, a ShiftOutOfRange error names a shift whose count is out
\* of range, and a DivByZero error names a division of two constants whose
\* divisor is zero (setConstValueBinaryOp, reached only when both sides fold).
FoldDomainEnforced ==
  LET Count(e) == constValue[nodes[e].rhs]
      InRange(e) == Count(e) \in 0 .. ShiftLimit
  IN /\ status = "ok" =>
          \A e \in checked \cap ExprNodes :
             /\ nodes[e].id0 \in ShiftOps /\ Count(e) # NoValue => InRange(e)
             /\ nodes[e].id0 = "/" /\ constValue[nodes[e].lhs] # NoValue => Count(e) # 0
     /\ errKind = "ShiftOutOfRange" => ~InRange(errNode)
     /\ errKind = "DivByZero" =>
          /\ nodes[errNode].id0 = "/"
          /\ Count(errNode) = 0
          /\ constValue[nodes[errNode].lhs] # NoValue

\* Assignment from an ideal into a numeric variable is accepted, and
\* assignment between distinct sized numeric types is rejected (tcheckAssign),
\* whatever the assignment operator.
IdealCoercion ==
  LET x == nodes[ast.root]
      lTyp == mType[x.lhs]  rTyp == mType[x.rhs]
      Sized(t) == IsNumType(TypeView(nodes, t))
  IN x.kind = "Assign" /\ x.lhs \in checked /\ x.rhs \in checked =>
       /\ rTyp = TIdeal /\ Sized(lTyp) => status = "ok"
       /\ Sized(lTyp) /\ Sized(rTyp) /\ TypeView(nodes, lTyp).id1 # TypeView(nodes, rTyp).id1
            => status = "err"

\* The type a selector e denotes, computed from the tree alone (NoType: no
\* such field): follow ptr decorators from its operand's type as far as the
\* type table allows, then the fields of in, out or the struct of that name
\* (any field of buf1 is a byte).
Deref(t) == IF TypeView(nodes, t).id0 = "ptr" THEN TypeView(nodes, t).rhs ELSE t
RECURSIVE DerefN(_, _)
DerefN(t, k) == IF k = 0 THEN t ELSE DerefN(Deref(t), k - 1)
RefFieldType(e) ==
  LET v == TypeView(nodes, DerefN(mType[nodes[e].lhs], Cardinality(TypeRefs)))
      f == nodes[e].id1
      Has(fs) == fs # NoStruct /\ f \in DOMAIN fs
  IN CASE v.id0 # NoID -> NoType
       [] v.id1 = "buf1" -> TU8
       [] v.id1 = "in" /\ Has(FuncIn) -> FuncIn[f]
       [] v.id1 = "out" /\ Has(FuncOut) -> FuncOut[f]
       [] v.id1 \notin {"in", "out"} /\ v.id1 \in DOMAIN Structs /\ Has(Structs[v.id1]) -> Structs[v.id1][f]
       [] OTHER -> NoType

\* The callee of a foo.low_bits(etc) call, which the hack types u8 unchecked.
LowBitsCallee(e) ==
  \E c \in ExprNodes : nodes[c].id0 = "(" /\ nodes[c].lhs = e /\ nodes[e].id1 = "low_bits"

\* tcheckDot resolves selectors through any number of ptr decorators: every
\* checked selector (bar the low_bits callee) has the type of the field it
\* names, and a selector rejected as NoSuchField, NoStruct or
\* UnsupportedDecoratorForDot has a checked operand whose type has no such
\* field.  A checked call has type u8 (in.src.read_u8?()) or its receiver's.
SelectorResolution ==
  /\ \A e \in checked \cap ExprNodes :
       nodes[e].id0 = "." /\ ~LowBitsCallee(e) => mType[e] = RefFieldType(e)
  /\ errKind \in {"NoSuchField", "NoStruct", "UnsupportedDecoratorForDot"} =>
       nodes[errNode].lhs \in checked /\ RefFieldType(errNode) = NoType
  /\ \A c \in checked \cap ExprNodes :
       nodes[c].id0 = "(" =>
         mType[c] = IF nodes[nodes[c].lhs].id1 = "read_u8" THEN TU8
                    ELSE mType[nodes[nodes[c].lhs].lhs]

\* && and || reject an operand only when its type is not bool: an operand of
\* a boolean type, such as a bool variable, is accepted as if and while
\* conditions accept it (spec 4.2.8: both sides must be Bool).
BoolOperandsAccepted ==
  LET x == nodes[errNode] IN
  errKind = "NotBoolean" /\ x.id0 \in {"&&", "||"} =>
    ~(Eq(nodes, mType[x.lhs], TBool) /\ Eq(nodes, mType[x.rhs], TBool))

\* An expression nested deeper than MaxExprDepth fails with TooDeep and
\* leaves no annotation behind (spec section 8, depth bound).
TooDeepLeavesNoAnnotations ==
  errKind = "TooDeep" =>
    checked = {} /\ \A e \in DOMAIN nodes : mType[e] = NoType /\ constValue[e] = NoValue

\* The nodes a check of the root can reach through operands, arguments,
\* "as" targets, bounds and inner types.
Operands(n) == ({nodes[n].lhs, nodes[n].mhs, nodes[n].rhs} \ {NoNode}) \cup ToSet(nodes[n].list0)
RECURSIVE Reach(_)
Reach(n) == {n} \cup UNION {Reach(c) : c \in Operands(n)}

\* The depth a node is checked at, from the tree alone: one more than its
\* operator, except that the argument of a call is checked at its Arg's
\* depth, the low_bits receiver at its callee's, and a new layer starting
\* at 0 at the root, at an assignment's sides, at the target type of "as"
\* and at the bounds and length of a type.  A set, as a type node of the
\* table may be reached along several paths.
DepthFrom(p, n, ds) ==
  CASE nodes[p].kind = "Assign" -> {0}
    [] nodes[p].kind # nodes[n].kind /\ "Arg" \notin {nodes[p].kind, nodes[n].kind} -> {0}
    [] nodes[p].kind = "Arg" \/ LowBitsCallee(p) -> ds
    [] OTHER -> {d + 1 : d \in ds}
RECURSIVE LayerDepths(_)
LayerDepths(n) ==
  (IF n = ast.root THEN {0} ELSE {})
    \cup UNION {DepthFrom(p, n, LayerDepths(p)) : p \in {q \in Reach(ast.root) : n \in Operands(q)}}

\* tcheckExpr and tcheckTypeExpr each bound the nesting of their own layer:
\* every checked expression lies within MaxExprDepth of its layer's start,
\* and TooDeep names a node nested deeper than its layer's bound.  The
\* target of "as" and every bound restart the count, so the bounds are per
\* layer and not cumulative (type.go lines 458, 607, 632).
DepthBoundPerLayer ==
  LET Bound(n) == IF nodes[n].kind = "TypeExpr" THEN MaxTypeExprDepth ELSE MaxExprDepth IN
  /\ \A e \in checked \cap ExprNodes : \E d \in LayerDepths(e) : d <= MaxExprDepth
  /\ errKind = "TooDeep" => \E d \in LayerDepths(errNode) : d > Bound(errNode)

=============================================================================
