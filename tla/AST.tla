-------------------------------- MODULE AST --------------------------------
(***************************************************************************)
(* The uniform AST node of lang/ast/ast.go and its constructors.          *)
(*                                                                         *)
(* Every node is a record with the slots of ast.Node: kind, flags, id0,    *)
(* id1, the children lhs, mhs, rhs (node ids, NoNode for nil) and the two  *)
(* child lists list0 and list1.  A function body is                        *)
(* [nodes |-> <id -> node>, body |-> <<top-level ids>>].  Each constructor *)
(* sets the slots ast.NewX sets and leaves the others zero, as Go's        *)
(* composite literals do.                                                  *)
(***************************************************************************)
EXTENDS Naturals, Sequences, SequencesExt, Functions

CONSTANTS
  NoID,     \* the zero t.ID: no label, no keyword
  NoNode    \* a nil *Node

\* The zero Node.
ZeroNode == [kind |-> "Invalid", flags |-> {}, id0 |-> NoID, id1 |-> NoID,
             lhs |-> NoNode, mhs |-> NoNode, rhs |-> NoNode, list0 |-> <<>>, list1 |-> <<>>]

\* Statement constructors, ast.NewAssert ... ast.NewJump.
NewAssert(keyword, condition, reason, args) ==
  [ZeroNode EXCEPT !.kind = "Assert", !.id0 = keyword, !.id1 = reason, !.rhs = condition, !.list0 = args]
NewAssign(operator, lhs, rhs) ==
  [ZeroNode EXCEPT !.kind = "Assign", !.id0 = operator, !.lhs = lhs, !.rhs = rhs]
NewVar(name, xType, value) ==
  [ZeroNode EXCEPT !.kind = "Var", !.id1 = name, !.lhs = xType, !.rhs = value]
NewWhile(label, condition, asserts, body) ==
  [ZeroNode EXCEPT !.kind = "While", !.id1 = label, !.lhs = condition, !.list0 = asserts, !.list1 = body]
NewIf(condition, elseIf, bodyIfTrue, bodyIfFalse) ==
  [ZeroNode EXCEPT !.kind = "If", !.lhs = condition, !.rhs = elseIf, !.list0 = bodyIfTrue, !.list1 = bodyIfFalse]
NewReturn(value) ==
  [ZeroNode EXCEPT !.kind = "Return", !.lhs = value]
NewJump(keyword, label) ==
  [ZeroNode EXCEPT !.kind = "Jump", !.id0 = keyword, !.id1 = label]

\* ast.NewExpr: its flags (a subset of {"Impure", "Suspendible"}), an
\* operator (NoID for a leaf, "(" a call, "." a selector) in id0, an
\* identifier, literal or field name in id1, operands in lhs, mhs and rhs
\* (rhs a TypeExpr for "as"), the call arguments in list0.
NewExpr(flags, operator, nameLiteralSelector, lhs, mhs, rhs, args) ==
  [ZeroNode EXCEPT !.kind = "Expr", !.flags = flags, !.id0 = operator, !.id1 = nameLiteralSelector,
                   !.lhs = lhs, !.mhs = mhs, !.rhs = rhs, !.list0 = args]

\* ast.NewArg: "name:value", the value in rhs.
NewArg(name, value) == [ZeroNode EXCEPT !.kind = "Arg", !.id1 = name, !.rhs = value]

\* ast.NewTypeExpr: decorator (NoID, "ptr" or "[") in id0, the type name in
\* id1, the array length or the refinement bounds in lhs / mhs, the inner
\* type in rhs.
NewTypeExpr(pkgOrDec, name, arrayLengthMin, max, inner) ==
  [ZeroNode EXCEPT !.kind = "TypeExpr", !.id0 = pkgOrDec, !.id1 = name, !.lhs = arrayLengthMin,
                   !.mhs = max, !.rhs = inner]

\* ast.NewField: "name type = default_value", the type in lhs, the default
\* value (or NoNode) in rhs.
NewField(name, xType, defaultValue) ==
  [ZeroNode EXCEPT !.kind = "Field", !.id1 = name, !.lhs = xType, !.rhs = defaultValue]

\* ast.NewStruct: flags a subset of {"Suspendible", "Public"}, the fields in list0.
NewStruct(flags, name, fields) ==
  [ZeroNode EXCEPT !.kind = "Struct", !.flags = flags, !.id1 = name, !.list0 = fields]

\* ast.NewFunc: "func receiver.name(in)(out) { body }", the in- and
\* out-parameter Structs in lhs and rhs, the asserts in list0.
NewFunc(flags, receiver, name, in, out, asserts, body) ==
  [ZeroNode EXCEPT !.kind = "Func", !.flags = flags, !.id0 = receiver, !.id1 = name,
                   !.lhs = in, !.rhs = out, !.list0 = asserts, !.list1 = body]

\* ast.NewUse and ast.NewFile: a package path in id1; the top-level
\* declarations in list0.
NewUse(path) == [ZeroNode EXCEPT !.kind = "Use", !.id1 = path]
NewFile(topLevelDecls) == [ZeroNode EXCEPT !.kind = "File", !.list0 = topLevelDecls]

\* TypeExpr.IsNumType, with the numeric type names of the token map.
NumTypeNames == {"u8", "u32"}
IsNumType(x) == x.id0 = NoID /\ x.id1 \in NumTypeNames

\* Raw.SubNodes: the three child slots, nil ones included.
SubNodes(nodes, n) == <<nodes[n].lhs, nodes[n].mhs, nodes[n].rhs>>

\* Raw.SubLists: the two child lists, visited list0 first.
SubLists(nodes, n) == nodes[n].list0 \o nodes[n].list1

(***************************************************************************)
(* Node.Walk(f).  The visitor f is abstracted to the set fails of nodes on *)
(* which it returns an error; a walk's result is the sequence of nodes f   *)
(* was called on and whether the walk returned an error.                  *)
(***************************************************************************)

\* Mutant: a child walk's error is dropped and the loop goes on.
StopsNever(r) == FALSE

\* The loops' "if err := o.Walk(f); err != nil { return err }".
Stops(r) == r.err

\* The walk of one more child o after the walks r of its earlier siblings.
WalkThen(r, o) == [seen |-> r.seen \o o.seen, err |-> o.err]

\* Node.Walk: a nil node is skipped; f is called on n and its error
\* returned; otherwise lhs, mhs, rhs, then list0 and list1 are walked in
\* order, stopping at the first child walk that returns an error.
RECURSIVE Walk(_, _, _), WalkEach(_, _, _, _)
Walk(nodes, n, fails) ==
  CASE n = NoNode     -> [seen |-> <<>>, err |-> FALSE]
    [] n \in fails    -> [seen |-> <<n>>, err |-> TRUE]
    [] OTHER          -> WalkEach(nodes, SubNodes(nodes, n) \o SubLists(nodes, n), fails,
                                  [seen |-> <<n>>, err |-> FALSE])
WalkEach(nodes, os, fails, r) ==
  IF os = <<>> \/ Stops(r) THEN r
  ELSE WalkEach(nodes, Tail(os), fails, WalkThen(r, Walk(nodes, Head(os), fails)))

\* The nodes a node owns: its child lists and, for an If, its else-if link.
Children(nodes, n) ==
  ToSet(SubLists(nodes, n))
    \cup (IF nodes[n].kind = "If" /\ nodes[n].rhs # NoNode THEN {nodes[n].rhs} ELSE {})

\* The node owning n, if any.
Parent(nodes, n) ==
  IF \E p \in DOMAIN nodes : n \in Children(nodes, p)
  THEN CHOOSE p \in DOMAIN nodes : n \in Children(nodes, p)
  ELSE NoNode

\* The While loops whose body (list1) contains n, outermost first.
RECURSIVE EnclosingWhiles(_, _)
EnclosingWhiles(nodes, n) ==
  LET p == Parent(nodes, n) IN
  IF p = NoNode THEN <<>>
  ELSE IF nodes[p].kind = "While" /\ n \in ToSet(nodes[p].list1)
       THEN Append(EnclosingWhiles(nodes, p), p)
       ELSE EnclosingWhiles(nodes, p)

\* Every node reachable from n, n included.
RECURSIVE Subtree(_, _)
Subtree(nodes, n) == {n} \cup UNION {Subtree(nodes, c) : c \in Children(nodes, n)}

\* The loop a break or continue must jump to: the innermost While whose
\* body encloses it and, for a labelled jump, that carries the label.
InnermostMatchingWhile(nodes, j) ==
  LET label == nodes[j].id1
      ws == SelectSeq(EnclosingWhiles(nodes, j),
                      LAMBDA w : label = NoID \/ nodes[w].id1 = label)
  IN IF ws = <<>> THEN NoNode ELSE Last(ws)

\* The If nodes of the else-if chain headed by n, in source order.
RECURSIVE ElseIfChain(_, _)
ElseIfChain(nodes, n) ==
  IF n = NoNode THEN <<>> ELSE <<n>> \o ElseIfChain(nodes, nodes[n].rhs)
=============================================================================
