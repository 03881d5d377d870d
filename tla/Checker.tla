------------------------------- MODULE Checker -------------------------------
(***************************************************************************)
(* The statement checker composed with the expression checker: one         *)
(* function body of lang/check/type.go checked with its conditions,        *)
(* values, assignments and declared types checked for real.               *)
(*                                                                         *)
(* StmtChecker's call-stack machine is reused through the instance SC: the *)
(* steps that check no expression are SC's own actions.  The steps that do *)
(* call ExprChecker's operators (through the instance EC) on the node      *)
(* table and apply their answer: the annotations, and the error the Go     *)
(* function returns.  FlagsTypeChecked is one bit in Go; here it is split *)
(* into checked (statements, as in StmtChecker) and exprChecked            *)
(* (expressions, arguments and type expressions).                         *)
(*                                                                         *)
(* Under the mapping of SC the composed checker is a behaviour of          *)
(* StmtChecker: its nondeterministic expression outcomes are a sound       *)
(* abstraction of the real ones.                                           *)
(***************************************************************************)
EXTENDS AST, FiniteSets

CONSTANTS
  MaxExprDepth, MaxTypeExprDepth, ShiftLimit, BitWidth, LiteralValue,
  TBool, TU8, TIdeal, NoType, NoValue, Structs, FuncIn, FuncOut, NoStruct

VARIABLES
  ast, localVars, checked, jumpTargets, hasBreak, hasContinue, jumpTarget,
  stack, status,
  errReturned,  \* the error the check returned, as the Go function raised it
  errNode,      \* the statement being checked when it was raised (errLine)
  mType,        \* node -> Expr.MType (NoType while nil)
  constValue,   \* node -> Expr.ConstValue (NoValue while nil)
  exprChecked   \* expression, Arg and TypeExpr nodes with FlagsTypeChecked

exprVars == <<mType, constValue, exprChecked>>
vars == <<ast, localVars, checked, jumpTargets, hasBreak, hasContinue,
          jumpTarget, stack, status, errReturned, errNode, exprVars>>

nodes == ast.nodes
Kind(n) == nodes[n].kind
Stmts == {n \in DOMAIN nodes : Kind(n) \in {"Assert", "Assign", "If", "Jump", "Return", "Var", "While"}}

\* Var nodes whose XType carries FlagsTypeChecked.
XChecked == {v \in DOMAIN nodes : Kind(v) = "Var" /\ nodes[v].lhs \in exprChecked}

\* The error as StmtChecker names it: by the statement that returned it.
StmtErrKind ==
  CASE errReturned \in {"none", "DuplicateVar", "NoJumpTarget", "InternalUncheckedTypeExpr"} -> errReturned
    [] Kind(errNode) = "Var" /\ errNode \notin XChecked -> "NotAType"
    [] Kind(errNode) \in {"Var", "Return"} -> "ExprError"
    [] Kind(errNode) = "Assign" -> "NotAssignable"
    [] OTHER -> "NotBoolean"

SC == INSTANCE StmtChecker WITH xChecked <- XChecked, errKind <- StmtErrKind
EC == INSTANCE ExprChecker WITH ast <- [nodes |-> nodes, root |-> NoNode],
                                checked <- exprChecked, errKind <- errReturned

top == SC!top

\* Mutant: LocalVars maps each name to its Var node, not to its XType.
EnvVarNode == [nodes |-> nodes, localVars |-> localVars]

\* q.f.LocalVars as ExprChecker reads it: each name to its Var's XType.
Env == [nodes |-> nodes, localVars |-> [x \in DOMAIN localVars |-> nodes[localVars[x]].lhs]]
Annot == [mType |-> mType, cv |-> constValue, checked |-> exprChecked \cup checked]

\* An answer r of the checking operators written back to the tree.
ApplyAnnots(r) ==
  /\ mType' = r.a.mType /\ constValue' = r.a.cv
  /\ exprChecked' = r.a.checked \ Stmts /\ checked' = r.a.checked \cap Stmts

\* The error r returned through the statement being checked.
Raise(kind) ==
  /\ status' = "err" /\ errReturned' = kind /\ errNode' = top.node
  /\ UNCHANGED <<localVars, jumpTargets, hasBreak, hasContinue, jumpTarget, stack>>

\* A step of SC that checks nothing: the annotations and the error stay.
Reuse(A) == UNCHANGED <<exprVars, errReturned, errNode>> /\ A

-----------------------------------------------------------------------------
(* The checks a statement makes.                                           *)

Failed(r) == EC!Failed(r)

\* Mutant: the condition's type is not compared with bool.
CondAfterNoBool(c, r) == r

\* An if, while or assert condition after its check (result r): its type
\* must be Eq to bool.
CondAfter(c, r) ==
  IF Failed(r) \/ EC!Eq(nodes, r.a.mType[c], TBool) THEN r ELSE EC!Err(r.a, "NotBoolean", c)

CheckCond(c, A) == CondAfter(c, EC!TcheckExpr(Env, c, 0, A))

\* tcheckAssert's loop over the reason arguments: each value at depth 0,
\* then the Arg marked.
RECURSIVE AssertArgs(_, _)
AssertArgs(args, r) ==
  IF Failed(r) \/ args = <<>> THEN r
  ELSE AssertArgs(Tail(args), EC!MarkAfter(Head(args), EC!TcheckExpr(Env, nodes[Head(args)].rhs, 0, r.a)))

\* tcheckAssert: the condition, then the arguments.
TcheckAssert(n, A) == AssertArgs(nodes[n].list0, CheckCond(nodes[n].rhs, A))

\* A While's asserts, each checked by tcheckAssert and then marked.
RECURSIVE WhileAsserts(_, _)
WhileAsserts(as, r) ==
  IF Failed(r) \/ as = <<>> THEN r
  ELSE WhileAsserts(Tail(as), EC!MarkAfter(Head(as), TcheckAssert(Head(as), r.a)))

\* The value of a Return or the initializer of a Var, if any, at depth 0.
CheckValue(v, A) == IF v = NoNode THEN EC!Ok(A) ELSE EC!TcheckExpr(Env, v, 0, A)

\* The end of a statement's case: the error returned, or the statement
\* marked (n.SetTypeChecked) and the call returning.
Conclude(n, r) ==
  /\ ApplyAnnots(EC!MarkAfter(n, r))
  /\ IF Failed(r) THEN Raise(r.err)
     ELSE SC!Return /\ UNCHANGED <<status, errReturned, errNode>>

-----------------------------------------------------------------------------
(* The steps that check expressions.  Each binds the answer r of its      *)
(* checks once (\E r \in {...}), so that TLC computes it once per step.   *)

\* Mutant: the name is registered before its type is checked.
VarsDeclRegistersFirst ==
  /\ SC!Running("tcheckVars") /\ Kind(top.node) = "Var"
  /\ LET n == top.node
         name == nodes[n].id1 IN
     \E r \in {EC!TcheckTypeExpr(Env, nodes[n].lhs, 0, Annot)} :
     \/ name \in DOMAIN localVars /\ Raise("DuplicateVar") /\ UNCHANGED <<checked, exprVars>>
     \/ /\ name \notin DOMAIN localVars /\ ApplyAnnots(r)
        /\ IF Failed(r)
           THEN /\ status' = "err" /\ errReturned' = r.err /\ errNode' = n
                /\ localVars' = localVars @@ (name :> n)
                /\ UNCHANGED <<jumpTargets, hasBreak, hasContinue, jumpTarget, stack>>
           ELSE /\ localVars' = localVars @@ (name :> n) /\ SC!Return
                /\ UNCHANGED <<status, errReturned, errNode>>
  /\ UNCHANGED <<ast, jumpTargets, hasBreak, hasContinue, jumpTarget>>

\* tcheckVars on a Var: reject a duplicate name, check its XType at depth
\* 0, register the name.
VarsDecl ==
  /\ SC!Running("tcheckVars") /\ Kind(top.node) = "Var"
  /\ LET n == top.node
         name == nodes[n].id1 IN
     \E r \in {EC!TcheckTypeExpr(Env, nodes[n].lhs, 0, Annot)} :
     \/ name \in DOMAIN localVars /\ Raise("DuplicateVar") /\ UNCHANGED <<checked, exprVars>>
     \/ /\ name \notin DOMAIN localVars /\ ApplyAnnots(r)
        /\ IF Failed(r) THEN Raise(r.err)
           ELSE /\ localVars' = localVars @@ (name :> n) /\ SC!Return
                /\ UNCHANGED <<status, errReturned, errNode>>
  /\ UNCHANGED <<ast, jumpTargets, hasBreak, hasContinue, jumpTarget>>

StmtEntry(kind) == SC!Running("tcheckStatement") /\ top.pc = "entry" /\ Kind(top.node) = kind

StmtAssert ==
  /\ StmtEntry("Assert")
  /\ \E r \in {TcheckAssert(top.node, Annot)} : Conclude(top.node, r)
  /\ UNCHANGED <<ast, localVars, jumpTargets, hasBreak, hasContinue, jumpTarget>>

StmtAssign ==
  /\ StmtEntry("Assign")
  /\ \E r \in {EC!TcheckAssign(Env, top.node, Annot)} : Conclude(top.node, r)
  /\ UNCHANGED <<ast, localVars, jumpTargets, hasBreak, hasContinue, jumpTarget>>

StmtReturn ==
  /\ StmtEntry("Return")
  /\ \E r \in {CheckValue(nodes[top.node].lhs, Annot)} : Conclude(top.node, r)
  /\ UNCHANGED <<ast, localVars, jumpTargets, hasBreak, hasContinue, jumpTarget>>

\* Var: the pre-pass must have checked its XType; then the initializer.
StmtVar ==
  /\ StmtEntry("Var")
  /\ \/ top.node \notin XChecked /\ Raise("InternalUncheckedTypeExpr") /\ UNCHANGED <<checked, exprVars>>
     \/ top.node \in XChecked /\ \E r \in {CheckValue(nodes[top.node].rhs, Annot)} : Conclude(top.node, r)
  /\ UNCHANGED <<ast, localVars, jumpTargets, hasBreak, hasContinue, jumpTarget>>

\* A jump checks no expression: it is resolved against q.jumpTargets.
StmtJump ==
  /\ StmtEntry("Jump")
  /\ LET n == top.node
         w == SC!ResolveJumpTarget(nodes[n].id1) IN
     \/ w = NoNode /\ Raise("NoJumpTarget") /\ UNCHANGED checked
     \/ /\ w # NoNode
        /\ IF nodes[n].id0 = "break"
           THEN hasBreak' = hasBreak \cup {w} /\ UNCHANGED hasContinue
           ELSE hasContinue' = hasContinue \cup {w} /\ UNCHANGED hasBreak
        /\ jumpTarget' = [jumpTarget EXCEPT ![n] = w]
        /\ checked' = checked \cup {n} /\ SC!Return
        /\ UNCHANGED <<status, errReturned, errNode>>
  /\ UNCHANGED <<ast, localVars, jumpTargets, exprVars>>

\* While, up to its body: the condition, each assert checked and marked,
\* then the push of q.jumpTargets.
WhileEnter ==
  /\ StmtEntry("While")
  /\ LET n == top.node IN
     \E r \in {WhileAsserts(nodes[n].list0, CheckCond(nodes[n].lhs, Annot))} :
     /\ ApplyAnnots(r)
     /\ IF Failed(r) THEN Raise(r.err)
        ELSE /\ jumpTargets' = Append(jumpTargets, n)
             /\ SC!SetTop([top EXCEPT !.pc = "body", !.rest = nodes[n].list1])
             /\ UNCHANGED <<localVars, hasBreak, hasContinue, jumpTarget, status, errReturned, errNode>>
  /\ UNCHANGED ast

\* If: the condition of the current clause of the else-if chain, then on
\* to its bodies.
IfCond ==
  /\ StmtEntry("If")
  /\ \E r \in {CheckCond(nodes[top.cur].lhs, Annot)} :
     /\ ApplyAnnots(r)
     /\ IF Failed(r) THEN Raise(r.err)
        ELSE /\ SC!SetTop([top EXCEPT !.pc = "bodies", !.rest = SubLists(nodes, top.cur)])
             /\ UNCHANGED <<localVars, jumpTargets, hasBreak, hasContinue, jumpTarget,
                            status, errReturned, errNode>>
  /\ UNCHANGED ast

-----------------------------------------------------------------------------

\* The checker about to check one of the given bodies: StmtChecker's
\* initial state, every expression unannotated.
InitWith(bodies) ==
  /\ ast \in bodies
  /\ mType = [n \in DOMAIN ast.nodes |-> NoType]
  /\ constValue = [n \in DOMAIN ast.nodes |-> NoValue]
  /\ exprChecked = {}
  /\ errReturned = "none"
  /\ SC!InitWith(bodies)

Next ==
  \/ Reuse(SC!FuncVars) \/ Reuse(SC!FuncBody) \/ Reuse(SC!FuncStmt) \/ Reuse(SC!FuncReturn)
  \/ VarsDecl \/ Reuse(SC!VarsDescend) \/ Reuse(SC!VarsReturn)
  \/ StmtAssert \/ StmtAssign \/ StmtReturn \/ StmtVar \/ StmtJump
  \/ WhileEnter \/ Reuse(SC!WhileBody) \/ Reuse(SC!WhileExit)
  \/ IfCond \/ Reuse(SC!IfBody) \/ Reuse(SC!IfElseIf) \/ Reuse(SC!IfExit)
  \/ Reuse(SC!Unwind)

\* One sequential goroutine, as in StmtChecker.
SpecWith(bodies) == InitWith(bodies) /\ [][Next]_vars /\ WF_vars(Next)

-----------------------------------------------------------------------------
(* Properties                                                              *)

TypeRefs == {n \in DOMAIN nodes : Kind(n) = "TypeExpr"} \cup {TBool, TU8, TIdeal}

TypeOK ==
  /\ mType \in [DOMAIN nodes -> TypeRefs \cup {NoType}]
  /\ constValue \in [DOMAIN nodes -> Int \cup {NoValue}]
  /\ exprChecked \subseteq DOMAIN nodes \ Stmts
  /\ localVars \in [DOMAIN localVars -> {v \in DOMAIN nodes : Kind(v) = "Var"}]
  /\ (status = "err") <=> (errReturned # "none" /\ errNode \in Stmts)

\* The expressions a statement's check covers: conditions, values, the
\* reason arguments of its asserts (and of itself), and a Var's XType.
Conditions(n) ==
  CASE Kind(n) = "Assert" -> {nodes[n].rhs}
    [] Kind(n) \in {"If", "While"} -> {nodes[n].lhs}
    [] OTHER -> {}
OwnExprs(n) ==
  ({nodes[n].lhs, nodes[n].rhs} \ {NoNode}) \cup ToSet(IF Kind(n) = "Assert" THEN nodes[n].list0 ELSE <<>>)
    \cup {nodes[a].rhs : a \in ToSet(IF Kind(n) = "Assert" THEN nodes[n].list0 ELSE <<>>)}
OwnExprsOf(n) == IF Kind(n) = "If" THEN OwnExprs(n) \ {nodes[n].rhs} ELSE OwnExprs(n)

\* FlagsTypeChecked on a statement means what it guards was checked: every
\* expression, argument and declared type the statement owns is marked and,
\* for an expression, typed, and every if, while and assert condition has a
\* type Eq to bool, whatever statement later fails.  Holds through the
\* second marking pass of else-if chains and the marks on While asserts.
StatementsFullyTyped ==
  \A n \in checked :
    /\ OwnExprsOf(n) \subseteq exprChecked
    /\ \A e \in OwnExprsOf(n) : Kind(e) = "Expr" => mType[e] # NoType
    /\ \A c \in Conditions(n) : EC!Eq(nodes, mType[c], TBool)

\* The composed checker is a behaviour of StmtChecker under the mapping SC:
\* every real outcome of an expression, assignment or type check is one
\* StmtChecker allows at that step, with the same annotations of
\* statements, loops and jumps; and the check ends with the stack unwound,
\* where no step of SC is enabled, so SC's weak fairness holds as well.
StmtCheckerRefined == [][SC!Next]_(SC!vars) /\ SC!Termination
=============================================================================
