------------------------------ MODULE CheckSpec ------------------------------
(***************************************************************************)
(* What checking one function body promises, without the call stack, the  *)
(* pre-pass or q.jumpTargets.  A statement is marked checked only once     *)
(* everything it owns is marked; a break or continue is marked together    *)
(* with its binding to the innermost enclosing loop that matches its       *)
(* label; and the check ends, either with every top-level statement        *)
(* marked or with one error that no marked statement encloses.             *)
(*                                                                         *)
(* StmtChecker implements this specification under the mapping given      *)
(* there: its outcome is visible once the call stack is empty.             *)
(***************************************************************************)
EXTENDS AST, FiniteSets

VARIABLES
  ast,         \* the function body: [nodes, body]; never changes
  checked,     \* statements marked with FlagsTypeChecked
  jumpTarget,  \* Jump node -> the While it is bound to (NoNode: unbound)
  status,      \* "running", then "ok" or "err"
  errKind,     \* the error the check returned
  errNode      \* the statement it was raised for

vars == <<ast, checked, jumpTarget, status, errKind, errNode>>

nodes == ast.nodes
Stmts == DOMAIN nodes

ErrKinds == {"DuplicateVar", "NotAType", "NotBoolean", "NotAssignable",
             "ExprError", "NoJumpTarget", "InternalUncheckedTypeExpr"}

Init ==
  /\ checked = {}
  /\ jumpTarget = [n \in Stmts |-> NoNode]
  /\ status = "running" /\ errKind = "none" /\ errNode = NoNode

\* Some statements, none of them a jump, become checked together: each
\* one's whole subtree is checked by now or in the same step.
Mark ==
  /\ status = "running"
  /\ \E S \in SUBSET (Stmts \ checked) :
       /\ S # {}
       /\ \A n \in S : nodes[n].kind # "Jump" /\ Subtree(nodes, n) \subseteq checked \cup S
       /\ checked' = checked \cup S
  /\ UNCHANGED <<ast, jumpTarget, status, errKind, errNode>>

\* A break or continue is bound to its loop and checked in one step.
Resolve ==
  /\ status = "running"
  /\ \E j \in Stmts \ checked :
       /\ nodes[j].kind = "Jump"
       /\ InnermostMatchingWhile(nodes, j) # NoNode
       /\ jumpTarget' = [jumpTarget EXCEPT ![j] = InnermostMatchingWhile(nodes, j)]
       /\ checked' = checked \cup {j}
  /\ UNCHANGED <<ast, status, errKind, errNode>>

\* Success: the whole body is checked.
Succeed ==
  /\ status = "running"
  /\ ToSet(ast.body) \subseteq checked
  /\ status' = "ok"
  /\ UNCHANGED <<ast, checked, jumpTarget, errKind, errNode>>

\* Failure at a statement that no checked statement encloses; a missing
\* jump target only for a jump that has no matching loop.
Fail ==
  /\ status = "running"
  /\ \E kind \in ErrKinds, n \in Stmts :
       /\ \A m \in checked : n \notin Subtree(nodes, m)
       /\ kind = "NoJumpTarget" =>
            nodes[n].kind = "Jump" /\ InnermostMatchingWhile(nodes, n) = NoNode
       /\ status' = "err" /\ errKind' = kind /\ errNode' = n
  /\ UNCHANGED <<ast, checked, jumpTarget>>

Finish == Succeed \/ Fail

Next == Mark \/ Resolve \/ Finish

\* The check always ends: finishing is possible in every running state.
Spec == Init /\ [][Next]_vars /\ WF_vars(Finish)
=============================================================================
