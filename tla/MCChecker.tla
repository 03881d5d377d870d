------------------------------ MODULE MCChecker ------------------------------
(***************************************************************************)
(* Model-checking instance of Checker.  Bodies are built as in             *)
(* MCStmtChecker, from at most MaxNodes statements, but every statement    *)
(* carries its own expression, argument and type nodes, numbered right     *)
(* after it: a Var its declared type and initializer, an Assign both sides, *)
(* an Assert, If or While its condition, an Assert its reason argument.    *)
(***************************************************************************)
EXTENDS Checker, TLC

CONSTANTS
  MaxNodes,    \* statement nodes in a body
  MaxLen,      \* statements in one list
  MaxDepth,    \* nesting of While and If bodies
  MaxAsserts,  \* asserts on one While
  VarDecls,    \* <<name, type name>> pairs a Var may declare
  Inits,       \* leaves a Var may be initialized with
  Assigns,     \* <<assignee, value>> leaf pairs of an Assign
  Conds,       \* leaves a condition may be
  ArgValues,   \* leaves an assert's reason argument may be
  Returns      \* leaves a Return may carry

MCLiteralValue == "3" :> 3
MCStructs == [s \in {} |-> s]

\* x bool, y u8, and z of the unknown type foo; y = x and y = 3.
MCVarDecls == {<<"x", "bool">>, <<"y", "u8">>, <<"z", "foo">>}
MCAssigns == {<<"y", "x">>, <<"y", "3">>}

Lf(l) == NewExpr({}, NoID, l, NoNode, NoNode, NoNode, <<>>)
Ty(t) == NewTypeExpr(NoID, t, NoNode, NoNode, NoNode)

\* The leaf statements rooted at id k, each with its expression nodes.
Templates(k) ==
  {<<NewVar(d[1], k + 1, NoNode), Ty(d[2])>> : d \in VarDecls}
  \cup {<<NewVar(d[1], k + 1, k + 2), Ty(d[2]), Lf(v)>> : d \in VarDecls, v \in Inits}
  \cup {<<NewAssign("=", k + 1, k + 2), Lf(a[1]), Lf(a[2])>> : a \in Assigns}
  \cup {<<NewAssert("assert", k + 1, NoID, <<>>), Lf(c)>> : c \in Conds}
  \cup {<<NewAssert("assert", k + 1, "reason", <<k + 2>>), Lf(c), NewArg("n", k + 3), Lf(v)>> :
          c \in Conds, v \in ArgValues}
  \cup {<<NewReturn(NoNode)>>} \cup {<<NewReturn(k + 1), Lf(v)>> : v \in Returns}
  \cup {<<NewJump(kw, NoID)>> : kw \in {"break", "continue"}}

\* The a asserts of a While at k, each followed by its condition.
WhileAssertIds(k, a) == [i \in 1 .. a |-> k + 2 * i]
WhileAssertNodes(k, cs) ==
  [i \in 1 .. 2 * Len(cs) |->
     IF i % 2 = 1 THEN NewAssert("assert", k + i + 1, NoID, <<>>) ELSE Lf(cs[i \div 2])]

IdBound == 5 * MaxNodes + 2 * MaxAsserts + 3

\* Gen[<<"stmt" | "list" | "if", k, b, d, len>>] as in MCStmtChecker; each
\* record also counts the statements it uses (cost).
GenKeys == {"stmt", "list", "if"} \X (1 .. IdBound)
             \X (-MaxAsserts - 1 .. MaxNodes) \X (-1 .. MaxDepth) \X (0 .. MaxLen)
Gen[p \in GenKeys] ==
  LET k == p[2]  b == p[3]  d == p[4]  len == p[5] IN
  CASE p[1] = "stmt" ->
         IF b <= 0 THEN {} ELSE
         {[nodes |-> t, next |-> k + Len(t), cost |-> 1] : t \in Templates(k)}
         \cup (IF d = 0 THEN {} ELSE
                UNION {{[nodes |-> <<NewWhile(NoID, k + 1, WhileAssertIds(k, Len(cs)), s.ids), Lf(c)>>
                                   \o WhileAssertNodes(k, cs) \o s.nodes,
                         next |-> s.next, cost |-> 1 + Len(cs) + s.cost] :
                          c \in Conds,
                          s \in Gen[<<"list", k + 2 + 2 * Len(cs), b - 1 - Len(cs), d - 1, MaxLen>>]}
                       : cs \in UNION {[1 .. a -> Conds] : a \in 0 .. MaxAsserts}}
                \cup Gen[<<"if", k, b, d, len>>])
    [] p[1] = "if" ->
         IF b <= 0 THEN {} ELSE
         UNION {{[nodes |-> <<NewIf(k + 1, NoNode, t.ids, e.ids), Lf(c)>> \o t.nodes \o e.nodes,
                  next |-> e.next, cost |-> 1 + t.cost + e.cost] :
                    e \in Gen[<<"list", t.next, b - 1 - t.cost, d - 1, MaxLen>>]}
                \cup {[nodes |-> <<NewIf(k + 1, t.next, t.ids, <<>>), Lf(c)>> \o t.nodes \o i.nodes,
                       next |-> i.next, cost |-> 1 + t.cost + i.cost] :
                        i \in Gen[<<"if", t.next, b - 1 - t.cost, d, len>>]}
                : c \in Conds, t \in Gen[<<"list", k + 2, b - 1, d - 1, MaxLen>>]}
    [] p[1] = "list" ->
         {[nodes |-> <<>>, ids |-> <<>>, next |-> k, cost |-> 0]}
         \cup (IF len = 0 \/ b <= 0 THEN {} ELSE
                UNION {{[nodes |-> s.nodes \o r.nodes, ids |-> <<k>> \o r.ids, next |-> r.next,
                         cost |-> s.cost + r.cost] :
                          r \in Gen[<<"list", s.next, b - s.cost, d, len - 1>>]}
                       : s \in Gen[<<"stmt", k, b, d, len>>]})

MCBodies == {[nodes |-> l.nodes, body |-> l.ids] : l \in Gen[<<"list", 1, MaxNodes, MaxDepth, MaxLen>>]}

MCInit == InitWith(MCBodies)
MCSpec == MCInit /\ [][Next]_vars /\ WF_vars(Next)
=============================================================================
