---------------------------- MODULE MCExprChecker ----------------------------
(***************************************************************************)
(* Model-checking instance of ExprChecker.  The node table starts with     *)
(* TypePrefix, the declared types of the local variables and the targets   *)
(* of "as"; the tree to check follows it, its nodes numbered in preorder.  *)
(***************************************************************************)
EXTENDS ExprChecker, TLC

CONSTANTS
  MaxNodes,   \* expression nodes in a tree
  MaxHeight,  \* operator nesting of a tree
  Leaves,     \* id1 of the leaf expressions: literal texts, names, keywords
  UOps,       \* unary operators used
  BOps,       \* binary operators used (besides "as")
  AsTypes,    \* TypePrefix ids an "as" may convert to
  AssignOps,  \* assignment operators used
  Fields,     \* field names selectors may name
  CallFlags,  \* the flag sets a call may carry
  Roots       \* which kinds of root to check: "Expr", "Assign", "TypeExpr"

\* big.Int SetString(s, 0) on the literal texts used: "08" is not octal.
MCLiteralValue == ("0" :> 0) @@ ("2" :> 2) @@ ("3" :> 3) @@ ("4" :> 4) @@ ("9" :> 9) @@ ("08" :> NoValue)

\* A leaf expression.
Leaf(l) == NewExpr({}, NoID, l, NoNode, NoNode, NoNode, <<>>)

\* bool, u8, u32, u8[..3], u8[..y], foo, ptr u8, ptr ptr u8, and the
\* types of the parameters and of struct fields: in, buf1, ptr buf1, pt,
\* ptr pt, ptr ptr pt, out; and [3] u8.
TypePrefix ==
  << NewTypeExpr(NoID, "bool", NoNode, NoNode, NoNode),
     NewTypeExpr(NoID, "u8", NoNode, NoNode, NoNode),
     NewTypeExpr(NoID, "u32", NoNode, NoNode, NoNode),
     NewTypeExpr(NoID, "u8", NoNode, 5, NoNode),
     Leaf("3"),
     NewTypeExpr(NoID, "u8", NoNode, 7, NoNode),
     Leaf("y"),
     NewTypeExpr(NoID, "foo", NoNode, NoNode, NoNode),
     NewTypeExpr("ptr", NoID, NoNode, NoNode, 2),
     NewTypeExpr("ptr", NoID, NoNode, NoNode, 9),
     NewTypeExpr(NoID, "in", NoNode, NoNode, NoNode),
     NewTypeExpr(NoID, "buf1", NoNode, NoNode, NoNode),
     NewTypeExpr("ptr", NoID, NoNode, NoNode, 12),
     NewTypeExpr(NoID, "pt", NoNode, NoNode, NoNode),
     NewTypeExpr("ptr", NoID, NoNode, NoNode, 14),
     NewTypeExpr("ptr", NoID, NoNode, NoNode, 15),
     NewTypeExpr(NoID, "out", NoNode, NoNode, NoNode),
     NewTypeExpr("[", NoID, 5, NoNode, 2) >>
P == Len(TypePrefix)

\* x bool, y u8, z u32, r u8[..3], p ptr pt, pp ptr ptr pt, a [3] u8 and the
\* parameters in and out: each name bound to its declared type.
MCScopes == {("x" :> 1) @@ ("y" :> 2) @@ ("z" :> 3) @@ ("r" :> 4) @@ ("p" :> 15)
             @@ ("pp" :> 16) @@ ("in" :> 11) @@ ("out" :> 17)
             @@ ("a" :> 18)}

\* The variables an assignment's left-hand side names.
AssignVars == {"x", "y", "z", "r"}

\* struct pt(x u8, next ptr pt); the function's in(src ptr buf1, n u32)
\* and out(dst u8).
MCStructs == "pt" :> (("x" :> 2) @@ ("next" :> 15))
MCFuncIn  == ("src" :> 13) @@ ("n" :> 3)
MCFuncOut == "dst" :> 2

\* A tree is the sequence of its nodes in preorder, its operands referring
\* to positions in the sequence; Shift(t, d) moves it to start after d.
\* The target of "as" is a TypePrefix id and does not move.
Shift(t, d) ==
  [i \in DOMAIN t |->
     [t[i] EXCEPT !.lhs = IF @ = NoNode THEN @ ELSE @ + d,
                  !.rhs = IF @ = NoNode \/ t[i].id0 = "as" THEN @ ELSE @ + d,
                  !.list0 = [k \in DOMAIN @ |-> @[k] + d]]]

\* The expressions of height at most h and at most MaxNodes nodes.
RECURSIVE TreesUpTo(_)
TreesUpTo(h) ==
  LET Leaves1 == {<<Leaf(l)>> : l \in Leaves}
      S == TreesUpTo(h - 1)
      Small == {s \in S : Len(s) < MaxNodes}
      Op(op, lhs, rhs) == NewExpr({}, op, NoID, lhs, NoNode, rhs, <<>>)
      Pairs(extra) == {sr \in Small \X Small : extra + Len(sr[1]) + Len(sr[2]) <= MaxNodes}
  IN IF h = 0 THEN Leaves1 ELSE
     Leaves1
     \cup {<<Op(op, NoNode, 2)>> \o Shift(s, 1) : op \in UOps, s \in Small}
     \cup {<<Op("as", 2, t)>> \o Shift(s, 1) : t \in AsTypes, s \in Small}
     \cup {<<Op(op, 2, 2 + Len(sr[1]))>> \o Shift(sr[1], 1) \o Shift(sr[2], 1 + Len(sr[1])) :
             op \in BOps, sr \in Pairs(1)}
     \cup {<<NewExpr({}, ".", f, 2, NoNode, NoNode, <<>>)>> \o Shift(s, 1) : f \in Fields, s \in Small}
     \cup {<<NewExpr(fl, "(", NoID, 2, NoNode, NoNode, <<>>)>> \o Shift(s, 1) : fl \in CallFlags, s \in Small}
     \cup {<<NewExpr(fl, "(", NoID, 2, NoNode, NoNode, <<2 + Len(cv[1])>>)>> \o Shift(cv[1], 1)
              \o <<NewArg("n", 3 + Len(cv[1]))>> \o Shift(cv[2], 2 + Len(cv[1])) :
             fl \in CallFlags, cv \in Pairs(2)}

MCExprs == TreesUpTo(MaxHeight)

\* Trees rooted at an expression, at an assignment of a variable, and at a
\* declared type.
ExprTrees ==
  {[nodes |-> TypePrefix \o Shift(g, P), root |-> P + 1] : g \in MCExprs}
AssignTrees ==
  {[nodes |-> TypePrefix \o <<NewAssign(op, P + 2, P + 3), Leaf(v)>>
               \o Shift(g, P + 2),
    root |-> P + 1] :
     op \in AssignOps, v \in AssignVars, g \in MCExprs}
TypeTrees == {[nodes |-> TypePrefix, root |-> t] : t \in {1, 2, 4, 6, 8, 9, 10}}

MCTrees ==
  (IF "Expr" \in Roots THEN ExprTrees ELSE {})
  \cup (IF "Assign" \in Roots THEN AssignTrees ELSE {})
  \cup (IF "TypeExpr" \in Roots THEN TypeTrees ELSE {})

MCInit == InitWith(MCTrees, MCScopes)
MCSpec == MCInit /\ [][Next]_vars
=============================================================================
