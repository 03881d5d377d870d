------------------------------ MODULE ASTWalk -------------------------------
(***************************************************************************)
(* A walk of one file with Node.Walk (lang/ast/ast.go).  The file and the *)
(* nodes on which the visitor fails are chosen in Init; one step walks    *)
(* the file from its root.  The result is compared with the pre-order of  *)
(* the tree, written from the slot order alone: lhs, mhs, rhs, list0,     *)
(* list1, nil slots skipped.                                              *)
(***************************************************************************)
EXTENDS AST

CONSTANTS
  Files,     \* [nodes |-> <id -> node>, root |-> id]: the files to walk
  MaxFails   \* nodes on which the visitor returns an error, at most

VARIABLES
  ast,      \* the file being walked
  fails,    \* the nodes f(n) returns an error for
  result,   \* [seen |-> nodes f was called on, err |-> Walk returned an error]
  done      \* Walk has returned

vars == <<ast, fails, result, done>>

Init ==
  /\ ast \in Files
  /\ fails \in {ToSet(s) : s \in SeqOf(DOMAIN ast.nodes, MaxFails)}
  /\ result = [seen |-> <<>>, err |-> FALSE]
  /\ done = FALSE

\* The caller's "if err := file.Node().Walk(f); err != nil".
WalkFile ==
  /\ ~done
  /\ result' = Walk(ast.nodes, ast.root, fails)
  /\ done' = TRUE
  /\ UNCHANGED <<ast, fails>>

Next == WalkFile

Spec == Init /\ [][Next]_vars /\ WF_vars(Next)

-----------------------------------------------------------------------------
\* The pre-order of the tree under n, by the slot order of the walk's
\* contract rather than by SubNodes and SubLists.
RECURSIVE Preorder(_, _)
Preorder(nodes, n) ==
  IF n = NoNode THEN <<>>
  ELSE LET x == nodes[n]
           ks == <<x.lhs, x.mhs, x.rhs>> \o x.list0 \o x.list1
       IN <<n>> \o FlattenSeq([i \in DOMAIN ks |-> Preorder(nodes, ks[i])])

\* A finished walk called f on the nodes of the file in pre-order, up to and
\* including the first node f failed on and on none after it, and returned
\* an error exactly when f failed on a node of the file: an error of a deep
\* child ends the loops of every ancestor, so no later sibling and no later
\* subtree of any ancestor is visited.
WalkMatchesPreorder ==
  LET P == Preorder(ast.nodes, ast.root)
      Hits == {i \in DOMAIN P : P[i] \in fails}
  IN done =>
       IF Hits = {}
       THEN result = [seen |-> P, err |-> FALSE]
       ELSE result = [seen |-> SubSeq(P, 1, Min(Hits)), err |-> TRUE]
=============================================================================
