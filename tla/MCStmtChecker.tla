---------------------------- MODULE MCStmtChecker ----------------------------
(***************************************************************************)
(* Model-checking instance of StmtChecker.  Bodies is every function body  *)
(* the parser can build from at most MaxNodes statement nodes, lists of at *)
(* most MaxLen statements and nesting at most MaxDepth, with the leaf      *)
(* statements drawn from Leaves and the loop labels from WhileLabels.      *)
(***************************************************************************)
EXTENDS StmtChecker, TLC

CONSTANTS
  L1, L2,        \* loop labels
  X, Y,          \* variable names
  E,             \* an expression or type node, not looked into here
  MaxNodes,      \* statement nodes in a body
  MaxLen,        \* statements in one list
  MaxDepth,      \* nesting of While and If bodies
  MaxAsserts,    \* asserts on one While
  Leaves,        \* the leaf statements a body may contain
  WhileLabels    \* the labels (NoID included) a While may carry

\* Jumps of every keyword and label, next to unlabelled loops or loops
\* sharing a label.
JumpLeaves == {NewJump(kw, l) : kw \in {"break", "continue"}, l \in {NoID, L1}}

\* Declarations and the statements whose checks may fail.
DeclLeaves == {NewVar(x, E, v) : x \in {X, Y}, v \in {E, NoNode}}
                \cup {NewAssign("=", E, E), NewAssert("assert", E, NoID, <<>>), NewReturn(E),
                      NewJump("break", NoID)}

\* Gen[<<"stmt", k, b, d, len>>]: the statements rooted at id k using at
\* most b nodes, nested at most d deep, as records [nodes, next] with nodes
\* the sequence of the nodes with ids k .. next - 1 in preorder.
\* Gen[<<"list", ...>>]: lists of at most len such statements, records
\* [nodes, ids, next].  Gen[<<"if", ...>>]: If nodes at k with their then
\* body and either an else body or an else-if If.  A recursive function,
\* so that TLC builds each entry once.
GenKeys == {"stmt", "list", "if"} \X (1 .. MaxNodes + MaxAsserts + 2)
             \X (-MaxAsserts - 1 .. MaxNodes) \X (-1 .. MaxDepth) \X (0 .. MaxLen)
Gen[p \in GenKeys] ==
  LET k == p[2]  b == p[3]  d == p[4]  len == p[5] IN
  CASE p[1] = "stmt" ->
         IF b <= 0 THEN {} ELSE
         {[nodes |-> <<l>>, next |-> k + 1] : l \in Leaves}
         \cup (IF d = 0 THEN {} ELSE
                UNION {{[nodes |-> <<NewWhile(lab, E, [i \in 1 .. a |-> k + i], s.ids)>>
                                   \o [i \in 1 .. a |-> NewAssert("assert", E, NoID, <<>>)] \o s.nodes,
                         next |-> s.next] :
                          lab \in WhileLabels,
                          s \in Gen[<<"list", k + 1 + a, b - 1 - a, d - 1, MaxLen>>]}
                       : a \in 0 .. MaxAsserts}
                \cup Gen[<<"if", k, b, d, len>>])
    [] p[1] = "if" ->
         IF b <= 0 THEN {} ELSE
         UNION {LET Tn == {t \in Gen[<<"list", k + 1, b - 1, d - 1, MaxLen>>] : t.next = n} IN
                {[nodes |-> <<NewIf(E, NoNode, t.ids, e.ids)>> \o t.nodes \o e.nodes,
                  next |-> e.next] :
                    t \in Tn, e \in Gen[<<"list", n, b - (n - k), d - 1, MaxLen>>]}
                \cup {[nodes |-> <<NewIf(E, n, t.ids, <<>>)>> \o t.nodes \o c.nodes,
                       next |-> c.next] :
                        t \in Tn, c \in Gen[<<"if", n, b - (n - k), d, len>>]}
                : n \in k + 1 .. k + b}
    [] p[1] = "list" ->
         {[nodes |-> <<>>, ids |-> <<>>, next |-> k]}
         \cup (IF len = 0 \/ b <= 0 THEN {} ELSE
                UNION {{[nodes |-> s.nodes \o r.nodes, ids |-> <<k>> \o r.ids, next |-> r.next] :
                          s \in {x \in Gen[<<"stmt", k, b, d, len>>] : x.next = n},
                          r \in Gen[<<"list", n, b - (n - k), d, len - 1>>]}
                       : n \in k + 1 .. k + b})

MCBodies == {[nodes |-> l.nodes, body |-> l.ids] : l \in Gen[<<"list", 1, MaxNodes, MaxDepth, MaxLen>>]}

\* Spec over MCBodies, named directly so that TLC enumerates it once.
MCInit == InitWith(MCBodies)
MCSpec == MCInit /\ [][Next]_vars /\ WF_vars(Next)
=============================================================================
