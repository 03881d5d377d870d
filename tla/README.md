# TLA+ models of the Puffs/Wuffs front-end type checker

This directory holds TLA+ models of the two source files of the repository,
`src/lang/ast/ast.go` (the uniform AST node) and `src/lang/check/type.go`
(the type checker), the TLC configurations that check them, and
`PROJECT.json`, which lists the components, the runs, the mutants, the map from
every TLA+ definition to the Go lines it models, the findings and the hazards.

## 1. Inventory

The checker is single-threaded and synchronous: there are no goroutines,
callbacks, messages or I/O. What is hard in it is the interplay of recursion,
shared mutable per-function state and early error returns.

| Component | State it keeps | Operations | Interacts with |
|---|---|---|---|
| Token map (external, not in `src/`) | interned IDs, keys, flags | `Key`, `Flags`, `IsIdent`, `IsNumLiteral`, `IsNumType`, `String` | read by everything; read-only |
| AST core (`ast.go`) | one `Node` record per node: kind, flags (Impure, Suspendible, Public, TypeChecked), constValue, mType, id0, id1, lhs, mhs, rhs, list0, list1 | constructors `NewX`, per-kind views, `SubLists`, `SubNodes`, `Walk`, `SetTypeChecked`, `SetMType`, `SetConstValue`, `SetJumpTarget`, `SetHasBreak/Continue` | built by the parser, annotated in place by the checker |
| Per-function driver (`check_func`, not in `src/`) | `q.f.LocalVars`, `q.f.Func`, `q.jumpTargets`, `q.errFilename/errLine` | set up, var pre-pass over the body, check each statement | calls `tcheckVars`, `tcheckStatement` |
| Var pre-pass `tcheckVars` (type.go:14-37) | writes `LocalVars`, type-checks each var's `XType` | duplicate check, `tcheckTypeExpr`, register | recursion over child lists |
| Statement checker `tcheckStatement`, `tcheckAssert`, `tcheckAssign` (type.go:39-224) | pushes/pops `q.jumpTargets`; marks statements; sets jump targets and has-break/continue bits | one case per statement kind | calls the expression checker; recursion over bodies |
| Expression checker `tcheckExpr`, `tcheckExprOther`, `tcheckDot`, unary/binary (type.go:226-592) | writes `mType`, `constValue`, TypeChecked on expression nodes | depth-bounded dispatch on operator flags | reads `LocalVars`, the struct registry `q.c.structs`, `q.f.Func.In/Out`; calls the type-expression checker for `as` |
| Constant folding `setConstValueBinaryOp` (type.go:534-587) | `constValue` of a binary expression | big-integer arithmetic, shifts with range check, division with zero check, comparisons | called by the binary-operator checker |
| Type-expression checker `tcheckTypeExpr` (type.go:594-647) | marks type expressions | bounds and array lengths must be constants, `ptr`/array recursion with a depth bound | calls the expression checker (depth reset to 0) |

How they interact: the driver runs the pre-pass, which registers every
`var` it finds (and checks its type through `tcheckTypeExpr`), then runs
`tcheckStatement` over the body. Statements call the expression checker for
their conditions and values; an expression's check reads `LocalVars` and the
struct registry. All annotation is monotonic and made in place; the first error
returns through every recursive call, and only `defer` restores
`q.jumpTargets` on the way out.

Hard behaviours:

- the two-pass protocol (collect vars, then check): the second pass must only
  meet vars the first pass registered;
- the `q.jumpTargets` stack shared by every recursive call, restored on every
  return, error returns included;
- labelled jump resolution with shadowed labels;
- all-or-nothing marking of an else-if chain while nested statements are
  marked as they check;
- recursion-depth counters that are reset to 0 at some calls, and the `>`
  comparison at the bound;
- identity (`==` on `*TypeExpr`) versus structural (`Eq`) type comparison;
- big-integer folding: Euclidean `big.Int.Div`, shift-count bounds `[0, 0xFFFF]`,
  division by zero.

Properties that make each component correct:

- pre-pass: every var the body check reaches was registered, exactly once;
- statement checker: `q.jumpTargets` equals the loops whose bodies are being
  checked; every jump resolves to the innermost enclosing loop with its label;
  has-break/continue bits are exactly the loops some jump targets; a marked
  statement is fully checked; the check terminates;
- expression checker: a marked expression has an `mType`, and a failing check
  leaves the documented annotations only; operators accept exactly the type
  combinations of spec 4.2.8; the depth bound is enforced;
- constant folding: the folded value equals the mathematical value with the
  spec's division semantics, and errors are raised exactly at the bounds.

## 2. Plan

Modules, in order (most important behaviour first):

1. `AST` — every node kind's constructor, the child slots and lists, and
   `Node.Walk` checked against a pre-order reference (`ASTWalk`). **Done.**
2. `StmtChecker` (EXTENDS `AST`) — driver, `tcheckVars`, `tcheckStatement`
   as an explicit call-stack machine; expression outcomes nondeterministic.
   `MCStmtChecker` generates every body within the bounds. **Done.**
3. `ExprChecker` (EXTENDS `AST`) — expression nodes and types (named, `ptr`, refined,
   the singletons Bool/Ideal/U8 next to parsed type nodes), `tcheckExpr` with
   its depth counter, leaves, unary, binary, `as`, dot selection, the two call
   hacks, `tcheckTypeExpr`, and `setConstValueBinaryOp` over bounded integers
   (the shift bound `0xFFFF` a constant). Properties: mType iff checked,
   operator typing against a reference table, folding against a reference
   evaluation, the depth bound. Violation runs: `&&` on a bool variable is
   rejected (pointer comparison with `TypeExprBool`); the low_bits hack
   types a call on a literal Ideal with no value; a too-deep
   expression leaves annotations on its checked siblings. **Done**, with
   dot selection and the call hacks.
4. `Checker` — composes `StmtChecker` with `ExprChecker`: conditions,
   assignments and var initializers checked for real, so the outcome of a
   body is decided by its expressions; shown to refine `StmtChecker`.
   **Done.**
5. Refinement: an abstract `CheckSpec` that states what a successful check
   promises (every statement marked, every jump bound to its innermost
   matching loop, locals = declared vars) as a single atomic step, and the
   step machine shown to implement it with `INSTANCE ... WITH`. **Done**
   (`CheckSpec`, `CheckSpecRefined`); the locals clause is left to
   `VarsCollectedBeforeBody`.

## 3. Modules

### AST (`AST.tla`)

One record per node, as Go's uniform `Node`: `ZeroNode` has every slot
(`kind`, `flags`, `id0`, `id1`, `lhs`, `mhs`, `rhs`, `list0`, `list1`) at its
zero value (`NoID`, `NoNode`, empty lists), and each constructor `NewAssert`,
`NewArg`, `NewAssign`, `NewVar`, `NewWhile`, `NewIf`, `NewReturn`, `NewJump`,
`NewExpr`, `NewTypeExpr` is `[ZeroNode EXCEPT ...]` with Go's parameters in
Go's slots (a Var's XType in `lhs` and its value in `rhs`, an If's else-if
link in `rhs`, and so on). `constValue` and `mType` are the checker's
variables, not fields of the record. `SubLists` is `Raw.SubLists`.
`Children`, `Parent` and `Subtree` are structural helpers.
`EnclosingWhiles(nodes, j)` is the content `q.jumpTargets` has when `j` is
checked (the loops whose bodies enclose it), and `InnermostMatchingWhile`
the search of type.go:80-91 over it; both `StmtChecker` and `CheckSpec` use
them.

The declaration constructors `NewField`, `NewStruct`, `NewFunc`, `NewUse`
and `NewFile` fill the same slots (a Func's in- and out-parameter Structs in
`lhs`/`rhs`, its asserts in `list0` and body in `list1`; a Struct's fields
and a File's declarations in `list0`). Filename and line are layout and
left out. `SubNodes` is `Raw.SubNodes`. `Walk(nodes, n, fails)` is
`Node.Walk` with the visitor abstracted to the set `fails` of nodes on which
it returns an error; its result is the sequence of nodes the visitor was
called on and whether the walk returned an error. `WalkEach` is the two
loops of Walk (SubNodes then SubLists, which behave alike and run one after
the other), `Stops` the `return err` of a child walk.

### ASTWalk (`ASTWalk.tla`) and MCASTWalk

One file walked from its root: `Init` picks the file and the failing nodes,
and the single action `WalkFile` calls `Walk` on the root. `Preorder`
is a reference written from the walk's contract: lhs, mhs, rhs, list0,
list1, with nil slots skipped. It does not use `SubNodes` or `SubLists`.
`MCASTWalk` builds 16 files of 26 nodes with every declaration constructor.
The top-level list is any ordering of any subset of a Use, a Struct and a
Func. The Struct has a field with a default value and one with a refined
type, so both `lhs` and `mhs` are set. The Func has parameter Structs, an
assert and a body. The visitor fails on at most two nodes.

### StmtChecker (`StmtChecker.tla`)

State: `localVars` (q.f.LocalVars), `xChecked` (TypeChecked on each var's
XType), `checked` (TypeChecked on statements), `jumpTargets`,
`hasBreak`/`hasContinue`, `jumpTarget`, and `stack`, the Go call stack:
a frame per active call of the driver, `tcheckVars` or `tcheckStatement`,
with its program point and the nodes its loop has yet to visit. Each action is
a straight-line piece of Go between two calls:

| Action | Go |
|---|---|
| `FuncVars`, `FuncBody`, `FuncStmt`, `FuncReturn` | the per-function driver (spec 4.2.1; not in `src/`) |
| `VarsDecl`, `VarsDescend`, `VarsReturn` | `tcheckVars` |
| `StmtAssert`, `StmtAssign`, `StmtReturn`, `StmtVar`, `StmtJump` | the one-call cases of `tcheckStatement` |
| `WhileEnter`, `WhileBody`, `WhileExit` | the `KWhile` case: condition and asserts and push; body; deferred pop and mark |
| `IfCond`, `IfBody`, `IfElseIf`, `IfExit` | the `KIf` case: each clause's condition, bodies, the else-if link, the marking pass |
| `Unwind` | an error returned through one frame, running a While's deferred pop |

An expression, assignment or type-expression check is a single step that may
succeed or fail (a disjunction in the action). Each is checked once per run,
so the choice covers every AST whose expression does or does not check.

### CheckSpec (`CheckSpec.tla`) and the refinement

What a body check promises, with no call stack, pre-pass or
`q.jumpTargets`. `Mark` marks any set of non-jump statements whose subtrees
are marked by then; `Resolve` binds an unmarked jump to
`InnermostMatchingWhile` and marks it; `Succeed` ends once every top-level
statement is marked; `Fail` ends with one error at a statement no marked
statement encloses (`NoJumpTarget` only at a jump with no matching loop).
`WF_vars(Finish)`: the check always ends.

`StmtChecker` defines `Abs == INSTANCE CheckSpec WITH ...`, mapping `ast`,
`checked` and `jumpTarget` to themselves and hiding `status`, `errKind` and
`errNode` (as `"running"`, `"none"`, `NoNode`) until the call stack is empty:
the error travels up through `Unwind` steps, which are stuttering steps of
the abstract spec. `CheckSpecRefined == Abs!Spec` is checked as a PROPERTY
of `stmt_jumps`. An else-if chain's clauses, marked together in `IfExit`,
are one `Mark` step; a `While` is marked in `WhileExit` after its body.

### MCStmtChecker

`MCBodies` is every body that can be built from at most `MaxNodes` statement
nodes, lists of at most `MaxLen`, nesting at most `MaxDepth`, loops with up to
`MaxAsserts` asserts and labels from `WhileLabels`, and leaves from `Leaves`.

### ExprChecker (`ExprChecker.tla`)

The expression checker as recursive operators rather than a state machine:
the checker runs each expression's check synchronously to its first error, so
what a model checker can usefully explore is the space of expressions, not
interleavings. `TcheckExpr(E, n, depth, A)` takes the environment `E`
(nodes, local variables) and the annotations `A = [mType, cv, checked]`, and
returns `[a, err, at]`: the annotations after the call, in the order Go
writes them, and the error kind (or `"none"`) with its node. Each operator
is one Go function. Where Go calls a checker and then goes on, the code
after the call is its own operator taking the call's result (`UnaryOpAfter`,
`BinaryOpLeftAfter`, `AsAfter`, `BinaryOpAfter`, `ConstantAfter`,
`BoundsAfter`, `ArrayAfter`, `AssignLeftAfter`, `AssignAfter`,
`MarkAfter`), so each recursive call appears once, in Go's order:

| Operator | Go |
|---|---|
| `TcheckExpr` | `tcheckExpr`: the `depth > MaxExprDepth` check, dispatch on flags with `depth+1`, `SetTypeChecked` on success; the associative case returns its error |
| `TcheckExprOther`, `TcheckExprLeaf` | literals (`big.Int.SetString`, abstracted to the `LiteralValue` table), identifiers (`LocalVars`), `true`/`false` (`_` and `this` fall through to the error); the two call hacks; selectors; other calls, index and slice are the error |
| `ReadU8After` | `in.src.read_u8?()` (shape `IsInSrcReadU8`, flag Suspendible, no args): the callee checked, the call typed u8 |
| `LowBitsAfterFoo`, `LowBitsAfterArg`, `TcheckArg` | `foo.low_bits(n:v)` (`IsLowBits`, not Impure, one arg): `foo` checked, the callee marked and typed u8 without being checked, the argument checked by `tcheckArg`, the call typed as `foo` |
| `TcheckDot`, `DotAfter`, `StripPtr` | `tcheckDot`: operand, every leading `ptr` stripped, a decorated type rejected, `in`/`out`/`buf1`/registered struct, then the field |
| `TcheckExprUnaryOp` | `tcheckExprUnaryOp` with its folding |
| `TcheckExprBinaryOp` | `tcheckExprBinaryOp`: `as` through `TcheckTypeExpr` at depth 0, operand categories (`OperandKindError`), compatibility (`IncompatibleOperands`), folding, result type (`BinaryResultType`) |
| `SetConstValueBinaryOp` | `setConstValueBinaryOp`: every operator; `BigDiv` is Euclidean like `big.Int.Div`; shifts fail outside `[0, ShiftLimit]`; bit operations in `BitWidth`-bit two's complement |
| `TcheckTypeExpr`, `CheckConstant` | `tcheckTypeExpr` and its constant-bound check, with its own depth |
| `TcheckAssign`, `AssignAfter` | `tcheckAssign`: the operator families and their type rules |

Types are references, as in Go: a node id of a parsed `TypeExpr`, or one of
the singletons `TBool`, `TU8`, `TIdeal` (`TypeExprBool` … in the Go). `=` on
references is Go's `==` on `*TypeExpr`; `Eq` is the structural `TypeExpr.Eq`.
The state machine around them (`CheckExpr`, `CheckAssign`, `CheckTypeExpr`)
takes one tree from the initial set and checks it in one step, as
`tcheckAssert`, `tcheckStatement` and `tcheckVars` call them.

`type.go` calls `n.CallSuspendible()` and `n.CallImpure()`, which this
revision of `ast.go` does not define (it has the flags `FlagsSuspendible` and
`FlagsImpure`); the model reads them as membership of `"Suspendible"` and
`"Impure"` in the node's flags. The struct registry `q.c.structs` and
`q.f.Func.In()`/`Out()` are built in `check.go`, which is not under `src/`;
they are the constants `Structs` (name to fields, a field to its declared
type) and `FuncIn`, `FuncOut` (or `NoStruct` for a nil struct). Body checks
always have `q.f.Func`, so its nil case is not modelled.

### MCExprChecker

Generates every expression tree of at most `MaxNodes` nodes and height
`MaxHeight` over `Leaves`, `UOps`, `BOps` and `as` to `AsTypes`, after a
fixed `TypePrefix` of declared types (bool, u8, u32, `u8[..3]`, `u8[..y]`
whose bound is not constant, an unknown name `foo`, `ptr u8`, `ptr ptr u8`,
`in`, `buf1`, `ptr buf1`, `pt`, `ptr pt`, `ptr ptr pt`, `out`, `[3] u8`)
and local variables x bool, y u8, z u32, r `u8[..3]`, p `ptr pt`,
pp `ptr ptr pt`, a `[3] u8` and the parameters `in`, `out`. The struct
`pt` has fields x u8 and next `ptr pt`; `in` has src `ptr buf1` and n u32;
`out` has dst u8. Selectors name a field from `Fields`; calls carry a flag
set from `CallFlags` and no argument or one `n:` argument. Assignment roots
put one of x, y, z, r on the left; type roots check each declared type.

### Checker (`Checker.tla`) and MCChecker

The two checkers composed over one node table. `SC == INSTANCE StmtChecker`
and `EC == INSTANCE ExprChecker` share `ast`, `localVars`, `status`,
`errNode` and the call stack. Go's single TypeChecked bit is split into
`checked` (statements, StmtChecker's variable) and `exprChecked`
(expressions, arguments and type expressions); `mType` and `constValue` are
the expression annotations, and `errReturned` is the real error kind.
StmtChecker's `xChecked` is defined, not stored: the vars whose XType node
carries the mark (`XChecked`), which is exactly what type.go:119 reads.

The control steps that check nothing (the driver, `VarsDescend`,
`VarsReturn`, `WhileBody`, `WhileExit`, `IfBody`, `IfElseIf`, `IfExit`,
`Unwind`) are SC's own actions, wrapped in `Reuse`. The steps that check
something are written again, with ExprChecker's operators in place of the
nondeterministic outcome:

| Action | Go |
|---|---|
| `VarsDecl` | type.go:17-28: duplicate check, `tcheckTypeExpr(XType, 0)`, `LocalVars[name] = XType` (`Env`) |
| `StmtAssert`, `TcheckAssert`, `CheckCond`, `CondAfter`, `AssertArgs` | the `KAssert` case and `tcheckAssert`: the condition, its `Eq` with bool, each argument and its mark |
| `StmtAssign` | the `KAssign` case, through `EC!TcheckAssign` |
| `StmtReturn`, `StmtVar`, `CheckValue` | `KReturn` and `KVar`: the unchecked-XType internal error, the optional value at depth 0 |
| `StmtJump` | `KJump`, with SC's `ResolveJumpTarget` |
| `WhileEnter`, `WhileAsserts` | `KWhile` up to the body: condition, each assert checked and marked, push |
| `IfCond` | `KIf`: the condition of the current clause |
| `Conclude`, `Raise` | `n.SetTypeChecked()` and return, or the error returned |

`StmtErrKind` maps the real error to the statement-level kind StmtChecker
names it by (an assignment's error is `NotAssignable`, a condition's
`NotBoolean`, a pre-pass type error `NotAType`, …); it is the
refinement mapping for `errKind`.

`MCChecker` builds bodies like `MCStmtChecker`, but each statement carries
its own expression nodes right after it: `var x bool`, `var y u8`, `var z
foo` (an unknown type), with or without the initializer `w` (undeclared);
`y = x` (rejected) and `y = 3`; `assert c` with or without the argument
`n:y`; `return` and `return x`; `break` and `continue`; loops with up to one
assert and if/else-if chains; every condition `true` or `y` (a u8, so
`NotBoolean`).

## 4. Runs

| Run | Checks | Shows |
|---|---|---|
| `stmt_jumps` (`MCStmtChecker_jumps.cfg`) | JumpTargetsMirrorStack, JumpResolution, TypeCheckedMeansChecked, Termination, CheckSpecRefined | 12,418 bodies of ≤4 nodes of loops (labelled `L1` or not, ≤1 assert), if/else-if chains and every kind of jump; 326k states |
| `stmt_decls` (`MCStmtChecker_decls.cfg`) | TypeOK and the same | 17,908 bodies of ≤4 nodes mixing vars (two names, with or without initializer), assignments, asserts, returns and breaks, nested two deep; 546k states |
| `elseif_var_prepass` (`MCStmtChecker_elseif_vars.cfg`) | VarsCollectedBeforeBody | violated: `if c {} else if d {} else { var x }` — the pre-pass never registers `x` |
| `expr_fold` (`MCExprChecker_fold.cfg`) | MTypeIffChecked, FoldMatchesReference, FoldDomainEnforced | every constant expression of ≤5 nodes, height ≤2, over 15 binary operators, `-`, `!` and literals 0, 2, 3, 4, `08` (invalid) and `true`: each checked node's value equals `RefValue`, a reference evaluator that uses neither `SetConstValueBinaryOp` nor the `Big*` operators (division and shifts by the property they satisfy, bit operations bit by bit in two's complement, comparisons by trichotomy); FoldDomainEnforced: the fold rejects exactly the shift counts outside [0, ShiftLimit] and the constant divisions by zero (also a divisor that folds to 0, as in `2 / (2 - 2)`); 206k states |
| `expr_types` (`MCExprChecker_types.cfg`) | TypeOK, MTypeIffChecked, IdealCoercion, DepthBoundPerLayer | expressions of ≤4 nodes, height ≤2, over variables of four types, `as` to six types (plain, refined `u8[..3]`, `u8[..y]`, `ptr u8`), `_` and `true`, `=`/`+=` assignments and every declared type, at expression depth bound 1 and type depth bound 0: an ideal value assigns to every numeric variable; every checked expression is within its layer's bound and every TooDeep (both expression and type nodes raise one) is at a node too deep in its own layer, as computed by `LayerDepths` from the tree, the depth restarting at the target of `as` (type.go:458) and at bounds; 155k states |
| `expr_select` (`MCExprChecker_select.cfg`) | MTypeIffChecked, SelectorResolution | every tree of ≤5 nodes, height ≤3, of selectors (x, next, src, dst, read_u8, low_bits) and calls (plain, Impure, Impure+Suspendible; 0 or 1 argument) over p, pp, in, out, a and `3`: `pp.next.x`, `in.src.read_u8?()` and `p.low_bits(n:3)` check with the reference type (`RefFieldType`, which dereferences by iteration rather than `StripPtr`), and each of NoSuchField, NoStruct and UnsupportedDecoratorForDot is reached where the reference finds no field; 15.9k states |
| `and_bool_var` (`MCExprChecker_and_bool_var.cfg`) | BoolOperandsAccepted | violated: `x && true` with `x bool` fails |
| `lowbits_ideal` (`MCExprChecker_lowbits_ideal.cfg`) | IdealIsConstant | violated: `3.low_bits(n:3)` is typed Ideal (its receiver's type, type.go:329) with no constant value |
| `toodeep_annotations` (`MCExprChecker_toodeep.cfg`) | TooDeepLeavesNoAnnotations | violated: in `2 + -2` at depth bound 1 the inner `2` is too deep, and the left `2` keeps its type, value and mark |
| `shift_assign_ideal` (`MCExprChecker_shift_assign_ideal.cfg`) | IdealCoercion | violated: `y <<= 2` is rejected |
| `ast_walk` (`MCASTWalk.cfg`) | WalkMatchesPreorder | for every file and every visitor failing on ≤2 nodes, the walk visits the pre-order up to and including the first failing node and nothing after it, and returns an error exactly when a visited node fails: an error deep in the Func's body ends the walk before any later declaration; 11k states |
| `compose` (`MCChecker_compose.cfg`) | TypeOK, StatementsFullyTyped, StmtCheckerRefined | every body of ≤3 statements nested two deep over the statements of `MCChecker`: a marked statement has every expression, argument and declared type it owns marked and typed and every condition `Eq` to bool, through the else-if marking pass and the While asserts; and every step is a StmtChecker step under the mapping, the check always ending; 149k states |

Bounds: four nodes are enough for two nested loops with a jump inside, a
loop inside an else-if clause, a three-clause chain, or two vars with the same
name in different bodies; depth 3 allows a jump two loops deep with an
if between. Every action fires in these runs.

Fairness: `WF_vars(Next)` (also in `Checker`). The checker is one goroutine that always takes its
next step; nothing it waits for. `CheckSpec` assumes only `WF_vars(Finish)`:
under the mapping, the implementation's last step (the stack emptying) is a
`Finish` step, and `Termination` of the implementation makes it happen.

Expression bounds: `MaxExprDepth` 2 stands for 255 and `ShiftLimit` 3 for
0xFFFF, scaled so that both sides of each bound are reached by trees TLC can
enumerate; `BitWidth` 12 holds every value these trees fold to before the
bit operations, and the shift results (up to 4·2³) without wrapping. Height 2
and five nodes reach every binary operator over a nested operand on either side.
The ExprChecker runs assume no fairness: each check is one step, and the
state after it is final (`CHECK_DEADLOCK FALSE` for the same reason).

`StmtCheckerRefined` is `[][SC!Next]_(SC!vars) /\ SC!Termination` rather
than `SC!Spec`: TLC cannot evaluate `ENABLED` through the substitution of
`errKind` and `xChecked`. Once the stack is empty no SC action is enabled,
so a behaviour that satisfies both conjuncts also satisfies SC's weak
fairness. `Checker`'s bound is three statements: four statements made the
body generator and the state space too large to finish in minutes.

`CHECK_DEADLOCK FALSE`: the check really stops, with an empty call stack;
`Termination` states that it always gets there.

## 5. Findings

- **Var in an else-if body (code bug).** `tcheckVars` (type.go:29) walks
  `SubLists` only, never an If's else-if link, while `tcheckStatement` follows
  it (type.go:54). A `var` in an else-if clause's body is never registered and
  its statement fails with "internal error: unchecked type expression".

- **`&&`/`||` on a bool variable (divergence).** type.go:487 and 491
  compare the operand types with `TypeExprBool` by pointer; a variable's type
  is its parsed `bool` node, so `x && true` fails, while `!x` and `if x`
  (which use `Eq`) accept it. Spec 4.2.8 says both sides must be "Bool
  exactly"; it does not say that only the built-in singleton counts.
- **Ideal without a value (divergence).** The low_bits hack (type.go:329)
  types the call as its receiver without folding, so `3.low_bits(n:3)` is
  Ideal with no constant value, and `tcheckAssign` accepts it into any
  numeric variable as if it were a literal. The spec makes Ideal the type
  of untyped numeric literals, which carry their value.
- **Euclidean division (note).** type.go:548 folds `/` with `big.Int.Div`:
  `-3 / 2` is -2, `3 / -2` is -1. Spec 4.2.8 says it truncates, but spec 9
  and the comment at type.go:546 leave the choice open. `FoldMatchesReference`
  checks the Euclidean result the code computes.
- **TooDeep leaves annotations (divergence).** The depth check (type.go:235)
  fires only at the deep operand; siblings checked before it keep their
  `mType`, `constValue` and mark, against spec 8.
- **Shift-assign with a literal (divergence).** type.go:209 requires the
  right-hand type to be a numeric named type; a literal is ideal, so
  `y <<= 2` fails, against spec 8's "ideal assigns to numeric".

## 6. Not modelled

- The token map, parser, code generator and command-line glue: not in these
  sources; the parser's output is the initial state.
- The contents of the struct registry and of `in`/`out`: built from
  declarations in `check.go`, outside these sources; fixed constants here.
- Type rules the Go code leaves as TODOs (a return value against the
  function's out type, a var's initializer against its type, side effects
  in asserts): there is no code to model.
- The checker's use of Field, Func and Struct nodes: it reads them only
  through `q.c.structs` and `q.f.Func`, which are the constants `Structs`,
  `FuncIn` and `FuncOut`. The constructors themselves are modelled, and they
  are walked in `ast_walk`.
- `Kind.String`, the per-kind view accessors, filename and line: these are
  naming and layout. They hold no state and change nothing that a checked
  property tells apart.
