----------------------------- MODULE MCASTWalk ------------------------------
(***************************************************************************)
(* Model-checking instance of ASTWalk: files built with the constructors  *)
(* of every declaration kind.  Node 1 is the File; its top-level list is  *)
(* any ordering of any subset of a Use, a Struct and a Func, so a failing *)
(* node is followed by none, one or two later declarations.  The Struct   *)
(* has a field with a default value and one with a refined type (both     *)
(* lhs and mhs set); the Func has in- and out-parameter Structs, an       *)
(* assert and a body.                                                     *)
(***************************************************************************)
EXTENDS ASTWalk

Leaf(l) == NewExpr({}, NoID, l, NoNode, NoNode, NoNode, <<>>)
Ty(t)   == NewTypeExpr(NoID, t, NoNode, NoNode, NoNode)

Decls ==
  << NewUse("std"),                                               \* 2
     NewStruct({"Public"}, "pt", <<4, 6, 10>>),                   \* 3
     NewField("x", 5, NoNode), Ty("u8"),                          \* 4, 5
     NewField("y", 7, 9), NewTypeExpr("ptr", NoID, NoNode, NoNode, 8),
     Ty("u8"), Leaf("3"),                                         \* 6 .. 9
     NewField("z", 11, NoNode), NewTypeExpr(NoID, "u32", 12, 13, NoNode),
     Leaf("0"), Leaf("9"),                                        \* 10 .. 13
     NewFunc({"Impure"}, "pt", "get", 15, 18, <<19>>, <<21, 24>>), \* 14
     NewStruct({}, "in", <<16>>), NewField("a", 17, NoNode), Ty("u8"),
     NewStruct({}, "out", <<>>),                                  \* 15 .. 18
     NewAssert("assert", 20, NoID, <<>>), Leaf("true"),           \* 19, 20
     NewVar("v", 22, 23), Ty("u8"), Leaf("a"),                    \* 21 .. 23
     NewReturn(25), NewExpr({}, ".", "a", 26, NoNode, NoNode, <<>>),
     Leaf("in") >>                                                \* 24 .. 26

TopLevel == {2, 3, 14}

MCFiles ==
  {[nodes |-> <<NewFile(d)>> \o Decls, root |-> 1] :
     d \in {s \in SeqOf(TopLevel, 3) : IsInjective(s)}}
=============================================================================
