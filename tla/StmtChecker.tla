----------------------------- MODULE StmtChecker -----------------------------
(***************************************************************************)
(* The statement half of the type checker of lang/check/type.go: the       *)
(* variable pre-pass tcheckVars and tcheckStatement, run over one function *)
(* body by the per-function driver.                                        *)
(*                                                                         *)
(* The Go code is recursive.  Here its call stack is the variable stack, a *)
(* sequence of frames (top = last), and each action is one straight-line   *)
(* piece of a handler between two calls.  An error is returned up the      *)
(* stack one frame per step (Unwind), running the deferred pop of          *)
(* q.jumpTargets of every While whose body was being checked.              *)
(*                                                                         *)
(* Checking an expression, an assignment or a type expression is one step  *)
(* whose success is chosen nondeterministically: each is checked once per *)
(* run, so the choice stands for every AST whose expression does or does   *)
(* not check.  ExprChecker models what decides it.                         *)
(***************************************************************************)
EXTENDS AST, FiniteSets

VARIABLES
  ast,          \* the function body being checked: [nodes, body]
  localVars,    \* q.f.LocalVars: var name -> the Var node declaring it
  xChecked,     \* Var nodes whose XType has FlagsTypeChecked
  checked,      \* statement nodes with FlagsTypeChecked
  jumpTargets,  \* q.jumpTargets: the enclosing While nodes, innermost last
  hasBreak,     \* While nodes on which SetHasBreak was called
  hasContinue,  \* While nodes on which SetHasContinue was called
  jumpTarget,   \* Jump node -> the While recorded by SetJumpTarget
  stack,        \* the Go call stack of the checker
  status,       \* "running", "ok" or "err"
  errKind,      \* which error the check returned
  errNode       \* the node being checked when it was raised

vars == <<ast, localVars, xChecked, checked, jumpTargets, hasBreak,
          hasContinue, jumpTarget, stack, status, errKind, errNode>>

nodes == ast.nodes
Kind(n) == nodes[n].kind

\* A frame of the call stack: the function running, the node it was called
\* on, where it is (pc), the nodes its current loop has still to visit, and
\* for an If the clause of the else-if chain being checked.
Frame(fn, n, pc, rest) == [fn |-> fn, node |-> n, pc |-> pc, rest |-> rest, cur |-> n]
VarsFrame(n) == Frame("tcheckVars", n, "loop", SubLists(nodes, n))
StmtFrame(n) == Frame("tcheckStatement", n, "entry", <<>>)

top == stack[Len(stack)]
SetTop(f) == stack' = [stack EXCEPT ![Len(stack)] = f]
Call(f) == stack' = Append([stack EXCEPT ![Len(stack)].rest = Tail(@)], f)
Return == stack' = Front(stack)

Running(fn) == status = "running" /\ stack # <<>> /\ top.fn = fn

\* A step raising an error: the check returns it through every frame.
Fail(kind) ==
  /\ status' = "err" /\ errKind' = kind /\ errNode' = top.node
  /\ UNCHANGED <<localVars, xChecked, jumpTargets, hasBreak, hasContinue,
                 jumpTarget, stack>>

ErrKinds == {"none", "DuplicateVar", "NotAType", "NotBoolean", "NotAssignable",
             "ExprError", "NoJumpTarget", "InternalUncheckedTypeExpr"}

-----------------------------------------------------------------------------
(* The per-function driver (check_func): the var pre-pass over the body,   *)
(* then tcheckStatement on each top-level statement.                       *)

FuncVars ==
  /\ Running("func") /\ top.pc = "vars" /\ top.rest # <<>>
  /\ Call(VarsFrame(Head(top.rest)))
  /\ UNCHANGED <<ast, localVars, xChecked, checked, jumpTargets, hasBreak,
                 hasContinue, jumpTarget, status, errKind, errNode>>

FuncBody ==
  /\ Running("func") /\ top.pc = "vars" /\ top.rest = <<>>
  /\ SetTop([top EXCEPT !.pc = "stmts", !.rest = ast.body])
  /\ UNCHANGED <<ast, localVars, xChecked, checked, jumpTargets, hasBreak,
                 hasContinue, jumpTarget, status, errKind, errNode>>

FuncStmt ==
  /\ Running("func") /\ top.pc = "stmts" /\ top.rest # <<>>
  /\ Call(StmtFrame(Head(top.rest)))
  /\ UNCHANGED <<ast, localVars, xChecked, checked, jumpTargets, hasBreak,
                 hasContinue, jumpTarget, status, errKind, errNode>>

FuncReturn ==
  /\ Running("func") /\ top.pc = "stmts" /\ top.rest = <<>>
  /\ Return /\ status' = "ok"
  /\ UNCHANGED <<ast, localVars, xChecked, checked, jumpTargets, hasBreak,
                 hasContinue, jumpTarget, errKind, errNode>>

-----------------------------------------------------------------------------
(* tcheckVars                                                              *)

\* Mutant: registers the name, not its declaration, in LocalVars.
VarsDeclStoresName ==
  /\ Running("tcheckVars") /\ Kind(top.node) = "Var"
  /\ LET n == top.node
         name == nodes[n].id1 IN
     \/ name \in DOMAIN localVars /\ Fail("DuplicateVar")
     \/ name \notin DOMAIN localVars /\ Fail("NotAType")
     \/ /\ name \notin DOMAIN localVars
        /\ localVars' = localVars @@ (name :> name)
        /\ xChecked' = xChecked \cup {n}
        /\ Return
        /\ UNCHANGED <<status, errKind, errNode>>
  /\ UNCHANGED <<ast, checked, jumpTargets, hasBreak, hasContinue, jumpTarget>>

\* A Var: reject a duplicate name, check its type, register it.
VarsDecl ==
  /\ Running("tcheckVars") /\ Kind(top.node) = "Var"
  /\ LET n == top.node
         name == nodes[n].id1 IN
     \/ name \in DOMAIN localVars /\ Fail("DuplicateVar")
     \/ name \notin DOMAIN localVars /\ Fail("NotAType")
     \/ /\ name \notin DOMAIN localVars
        /\ localVars' = localVars @@ (name :> n)
        /\ xChecked' = xChecked \cup {n}
        /\ Return
        /\ UNCHANGED <<status, errKind, errNode>>
  /\ UNCHANGED <<ast, checked, jumpTargets, hasBreak, hasContinue, jumpTarget>>

\* Any other node: recurse into every node of both child lists.
VarsDescend ==
  /\ Running("tcheckVars") /\ Kind(top.node) # "Var" /\ top.rest # <<>>
  /\ Call(VarsFrame(Head(top.rest)))
  /\ UNCHANGED <<ast, localVars, xChecked, checked, jumpTargets, hasBreak,
                 hasContinue, jumpTarget, status, errKind, errNode>>

VarsReturn ==
  /\ Running("tcheckVars") /\ Kind(top.node) # "Var" /\ top.rest = <<>>
  /\ Return
  /\ UNCHANGED <<ast, localVars, xChecked, checked, jumpTargets, hasBreak,
                 hasContinue, jumpTarget, status, errKind, errNode>>

-----------------------------------------------------------------------------
(* tcheckStatement                                                         *)

\* Statements checked by one call that returns: SetTypeChecked and return.
Done(n) == checked' = checked \cup {n} /\ Return

\* Assert: tcheckAssert checks the condition (a boolean) and each reason
\* argument.
StmtAssert ==
  /\ Running("tcheckStatement") /\ top.pc = "entry" /\ Kind(top.node) = "Assert"
  /\ \/ Fail("NotBoolean") /\ UNCHANGED checked
     \/ Done(top.node) /\ UNCHANGED <<status, errKind, errNode>>
  /\ UNCHANGED <<ast, localVars, xChecked, jumpTargets, hasBreak, hasContinue, jumpTarget>>

\* Assign: tcheckAssign checks both sides and their assignability.
StmtAssign ==
  /\ Running("tcheckStatement") /\ top.pc = "entry" /\ Kind(top.node) = "Assign"
  /\ \/ Fail("NotAssignable") /\ UNCHANGED checked
     \/ Done(top.node) /\ UNCHANGED <<status, errKind, errNode>>
  /\ UNCHANGED <<ast, localVars, xChecked, jumpTargets, hasBreak, hasContinue, jumpTarget>>

\* Return: the value, if any, is checked as an expression.
StmtReturn ==
  /\ Running("tcheckStatement") /\ top.pc = "entry" /\ Kind(top.node) = "Return"
  /\ \/ nodes[top.node].lhs # NoNode /\ Fail("ExprError") /\ UNCHANGED checked
     \/ Done(top.node) /\ UNCHANGED <<status, errKind, errNode>>
  /\ UNCHANGED <<ast, localVars, xChecked, jumpTargets, hasBreak, hasContinue, jumpTarget>>

\* Var: its type must have been checked by the pre-pass; the initializer,
\* if any, is checked as an expression.
StmtVar ==
  /\ Running("tcheckStatement") /\ top.pc = "entry" /\ Kind(top.node) = "Var"
  /\ LET n == top.node IN
     \/ n \notin xChecked /\ Fail("InternalUncheckedTypeExpr") /\ UNCHANGED checked
     \/ n \in xChecked /\ nodes[n].rhs # NoNode /\ Fail("ExprError") /\ UNCHANGED checked
     \/ n \in xChecked /\ Done(n) /\ UNCHANGED <<status, errKind, errNode>>
  /\ UNCHANGED <<ast, localVars, xChecked, jumpTargets, hasBreak, hasContinue, jumpTarget>>

\* Mutant: q.jumpTargets searched from the outermost loop, labelled or not.
ResolveJumpTargetOutermost(label) ==
  IF label # NoID
  THEN LET is == {i \in DOMAIN jumpTargets : nodes[jumpTargets[i]].id1 = label}
       IN IF is = {} THEN NoNode ELSE jumpTargets[Min(is)]
  ELSE IF Len(jumpTargets) > 0 THEN jumpTargets[1] ELSE NoNode

\* The While a break or continue jumps to: with a label, the innermost
\* enclosing While with that label; without, the innermost one.
ResolveJumpTarget(label) ==
  IF label # NoID
  THEN LET is == {i \in DOMAIN jumpTargets : nodes[jumpTargets[i]].id1 = label}
       IN IF is = {} THEN NoNode ELSE jumpTargets[Max(is)]
  ELSE IF Len(jumpTargets) > 0 THEN jumpTargets[Len(jumpTargets)] ELSE NoNode

StmtJump ==
  /\ Running("tcheckStatement") /\ top.pc = "entry" /\ Kind(top.node) = "Jump"
  /\ LET n == top.node
         w == ResolveJumpTarget(nodes[n].id1) IN
     \/ w = NoNode /\ Fail("NoJumpTarget") /\ UNCHANGED checked
     \/ /\ w # NoNode
        /\ IF nodes[n].id0 = "break"
           THEN hasBreak' = hasBreak \cup {w} /\ UNCHANGED hasContinue
           ELSE hasContinue' = hasContinue \cup {w} /\ UNCHANGED hasBreak
        /\ jumpTarget' = [jumpTarget EXCEPT ![n] = w]
        /\ Done(n)
        /\ UNCHANGED <<status, errKind, errNode>>
  /\ UNCHANGED <<ast, localVars, xChecked, jumpTargets>>

\* While, up to its body: check the condition (a boolean), then each assert
\* in turn, marking each one that checks; then push the loop on
\* q.jumpTargets and defer its pop.
WhileEnter ==
  /\ Running("tcheckStatement") /\ top.pc = "entry" /\ Kind(top.node) = "While"
  /\ LET n == top.node
         asserts == nodes[n].list0 IN
     \/ Fail("NotBoolean") /\ UNCHANGED checked
     \/ \E k \in 0 .. Len(asserts) - 1 :
          /\ checked' = checked \cup ToSet(SubSeq(asserts, 1, k))
          /\ Fail("NotBoolean")
     \/ /\ checked' = checked \cup ToSet(asserts)
        /\ jumpTargets' = Append(jumpTargets, n)
        /\ SetTop([top EXCEPT !.pc = "body", !.rest = nodes[n].list1])
        /\ UNCHANGED <<status, errKind, errNode>>
  /\ UNCHANGED <<ast, localVars, xChecked, hasBreak, hasContinue, jumpTarget>>

WhileBody ==
  /\ Running("tcheckStatement") /\ top.pc = "body" /\ top.rest # <<>>
  /\ Call(StmtFrame(Head(top.rest)))
  /\ UNCHANGED <<ast, localVars, xChecked, checked, jumpTargets, hasBreak,
                 hasContinue, jumpTarget, status, errKind, errNode>>

\* The body checked: the deferred pop runs as the call returns.
WhileExit ==
  /\ Running("tcheckStatement") /\ top.pc = "body" /\ top.rest = <<>>
  /\ jumpTargets' = Front(jumpTargets)
  /\ Done(top.node)
  /\ UNCHANGED <<ast, localVars, xChecked, hasBreak, hasContinue, jumpTarget,
                 status, errKind, errNode>>

\* Mutant: marks each clause as soon as its condition checks (one pass).
IfCondMarksEarly ==
  /\ Running("tcheckStatement") /\ top.pc = "entry" /\ Kind(top.node) = "If"
  /\ \/ Fail("NotBoolean") /\ UNCHANGED checked
     \/ /\ SetTop([top EXCEPT !.pc = "bodies", !.rest = SubLists(nodes, top.cur)])
        /\ checked' = checked \cup {top.cur}
        /\ UNCHANGED <<status, errKind, errNode>>
  /\ UNCHANGED <<ast, localVars, xChecked, jumpTargets, hasBreak,
                 hasContinue, jumpTarget>>

\* If: for each clause of the else-if chain, check its condition (a boolean)
\* and then every statement of its two bodies.
IfCond ==
  /\ Running("tcheckStatement") /\ top.pc = "entry" /\ Kind(top.node) = "If"
  /\ \/ Fail("NotBoolean")
     \/ /\ SetTop([top EXCEPT !.pc = "bodies", !.rest = SubLists(nodes, top.cur)])
        /\ UNCHANGED <<status, errKind, errNode>>
  /\ UNCHANGED <<ast, localVars, xChecked, checked, jumpTargets, hasBreak,
                 hasContinue, jumpTarget>>

IfBody ==
  /\ Running("tcheckStatement") /\ top.pc = "bodies" /\ top.rest # <<>>
  /\ Call(StmtFrame(Head(top.rest)))
  /\ UNCHANGED <<ast, localVars, xChecked, checked, jumpTargets, hasBreak,
                 hasContinue, jumpTarget, status, errKind, errNode>>

\* Mutant: loops back without following the else-if link.
IfElseIfStays ==
  /\ Running("tcheckStatement") /\ top.pc = "bodies" /\ top.rest = <<>>
  /\ nodes[top.cur].rhs # NoNode
  /\ SetTop([top EXCEPT !.pc = "entry"])
  /\ UNCHANGED <<ast, localVars, xChecked, checked, jumpTargets, hasBreak,
                 hasContinue, jumpTarget, status, errKind, errNode>>

\* On to the next clause of the chain.
IfElseIf ==
  /\ Running("tcheckStatement") /\ top.pc = "bodies" /\ top.rest = <<>>
  /\ nodes[top.cur].rhs # NoNode
  /\ SetTop([top EXCEPT !.pc = "entry", !.cur = nodes[top.cur].rhs])
  /\ UNCHANGED <<ast, localVars, xChecked, checked, jumpTargets, hasBreak,
                 hasContinue, jumpTarget, status, errKind, errNode>>

\* The whole chain checked: mark every clause in a second pass and return.
IfExit ==
  /\ Running("tcheckStatement") /\ top.pc = "bodies" /\ top.rest = <<>>
  /\ nodes[top.cur].rhs = NoNode
  /\ checked' = checked \cup ToSet(ElseIfChain(nodes, top.node))
  /\ Return
  /\ UNCHANGED <<ast, localVars, xChecked, jumpTargets, hasBreak, hasContinue,
                 jumpTarget, status, errKind, errNode>>

\* Mutant: q.jumpTargets is popped only on success (no defer).
UnwindNoDefer ==
  /\ status = "err" /\ stack # <<>>
  /\ Return
  /\ UNCHANGED <<ast, localVars, xChecked, checked, jumpTargets, hasBreak,
                 hasContinue, jumpTarget, status, errKind, errNode>>

\* An error returns through the top frame; a While frame in its body runs
\* its deferred pop of q.jumpTargets.
Unwind ==
  /\ status = "err" /\ stack # <<>>
  /\ jumpTargets' = IF top.fn = "tcheckStatement" /\ top.pc = "body"
                    THEN Front(jumpTargets) ELSE jumpTargets
  /\ Return
  /\ UNCHANGED <<ast, localVars, xChecked, checked, hasBreak, hasContinue,
                 jumpTarget, status, errKind, errNode>>

-----------------------------------------------------------------------------

\* The checker about to check one of the given bodies (the set of function
\* bodies the parser may hand over is a parameter, supplied by MCStmtChecker): per-function state
\* fresh, the driver's frame alone on the stack.
InitWith(bodies) ==
  /\ ast \in bodies
  /\ localVars = <<>>
  /\ xChecked = {}
  /\ checked = {}
  /\ jumpTargets = <<>>
  /\ hasBreak = {}
  /\ hasContinue = {}
  /\ jumpTarget = [n \in DOMAIN ast.nodes |-> NoNode]
  /\ stack = <<Frame("func", NoNode, "vars", ast.body)>>
  /\ status = "running"
  /\ errKind = "none"
  /\ errNode = NoNode

Next ==
  \/ FuncVars \/ FuncBody \/ FuncStmt \/ FuncReturn
  \/ VarsDecl \/ VarsDescend \/ VarsReturn
  \/ StmtAssert \/ StmtAssign \/ StmtReturn \/ StmtVar \/ StmtJump
  \/ WhileEnter \/ WhileBody \/ WhileExit
  \/ IfCond \/ IfBody \/ IfElseIf \/ IfExit
  \/ Unwind

\* The checker is one sequential goroutine: while it has a step to take it
\* takes one.
SpecWith(bodies) == InitWith(bodies) /\ [][Next]_vars /\ WF_vars(Next)

-----------------------------------------------------------------------------
(* Properties                                                              *)

Nodes == DOMAIN nodes

TypeOK ==
  /\ localVars \in [DOMAIN localVars -> Nodes]
  /\ xChecked \subseteq Nodes /\ checked \subseteq Nodes
  /\ jumpTargets \in Seq(Nodes)
  /\ hasBreak \subseteq Nodes /\ hasContinue \subseteq Nodes
  /\ jumpTarget \in [Nodes -> Nodes \cup {NoNode}]
  /\ \A i \in DOMAIN stack :
       stack[i].fn \in {"func", "tcheckVars", "tcheckStatement"}
  /\ status \in {"running", "ok", "err"}
  /\ errKind \in ErrKinds

\* q.jumpTargets is exactly the While loops whose body is being checked on
\* the call stack, outermost first: the push before the body and the
\* deferred pop keep it so on every return, an error return included.
WhileFrames == SelectSeq(stack, LAMBDA f : f.fn = "tcheckStatement" /\ f.pc = "body"
                                           /\ Kind(f.node) = "While")
JumpTargetsMirrorStack ==
  jumpTargets = [i \in DOMAIN WhileFrames |-> WhileFrames[i].node]

\* Every jump the checker resolves is resolved to the loop the language
\* says; the has-break/has-continue bits are set on exactly the loops some
\* resolved break/continue targets; and NoJumpTarget is raised only for a
\* jump that has no such loop.
JumpResolution ==
  /\ \A j \in Nodes : jumpTarget[j] # NoNode => jumpTarget[j] = InnermostMatchingWhile(nodes, j)
  /\ hasBreak = {jumpTarget[j] : j \in {k \in Nodes : jumpTarget[k] # NoNode
                                                     /\ nodes[k].id0 = "break"}}
  /\ hasContinue = {jumpTarget[j] : j \in {k \in Nodes : jumpTarget[k] # NoNode
                                                        /\ nodes[k].id0 = "continue"}}
  /\ errKind = "NoJumpTarget" => InnermostMatchingWhile(nodes, errNode) = NoNode

\* FlagsTypeChecked on a statement means the whole of it checked: every
\* statement nested in it (in the bodies of every clause of an If chain, in
\* a While's asserts and body) is marked too, whatever error ends the
\* check.  A check that succeeds has marked every top-level statement.
TypeCheckedMeansChecked ==
  /\ \A n \in checked : Subtree(nodes, n) \subseteq checked
  /\ status = "ok" => ToSet(ast.body) \subseteq checked

\* The check of a function body always ends, in success or an error, with
\* the call stack unwound.
Termination == <>(status # "running" /\ Len(stack) = 0)

\* CheckSpec under the refinement mapping: the annotations are the same
\* variables, and the outcome of the check is visible once the error or the
\* success has returned through every frame of the call stack.
Abs == INSTANCE CheckSpec WITH
         status  <- IF stack = <<>> THEN status ELSE "running",
         errKind <- IF stack = <<>> THEN errKind ELSE "none",
         errNode <- IF stack = <<>> THEN errNode ELSE NoNode

\* The step machine implements CheckSpec: every step of tcheckStatement and
\* of the driver either leaves the annotations alone or marks statements
\* bottom-up, binds a jump to its innermost matching loop as it marks it,
\* or ends the check as CheckSpec allows; and the check ends.
CheckSpecRefined == Abs!Spec

\* The var pre-pass registers every Var of the body, however deeply nested
\* in If and While bodies, before any statement is checked (spec 4.2.2).
VarsCollectedBeforeBody ==
  (stack # <<>> /\ stack[1].pc = "stmts") =>
     \A v \in Nodes : Kind(v) = "Var" => nodes[v].id1 \in DOMAIN localVars
=============================================================================
