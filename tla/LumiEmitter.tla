---------------------------- MODULE LumiEmitter -----------------------------
(***************************************************************************)
(* lumi_emit_bytecode: from the syntax tree to a program of the virtual    *)
(* machine, at each of the four optimization levels.                       *)
(*                                                                         *)
(* The emitter struct is a record handed from operator to operator; an     *)
(* operator that fails records the first message and the ones after it do  *)
(* nothing, as the C functions return 0.  A message that is recorded by a  *)
(* function that goes on is pending: it refuses what comes next.  The C    *)
(* code also rewrites the tree it is walking, so the operators on          *)
(* statements return the statement as they leave it next to the emitter:   *)
(* what a loop emits in its second round is what the first one left.       *)
(***************************************************************************)
EXTENDS LumiSyntax, LumiOptimizer, LumiCertificate

CONSTANTS
  AsIndex(_),   \* float_to_index: the index a cell converts to, -1 for none
  OfIndex(_)    \* the cell of a loop variable

NoMessage == "none"
NotConst == << >>   \* CONST_UNKNOWN; a known value v is <<v>>
Is(c, v) == c # NotConst /\ FEq(c[1], v)

Ok(e) == e.error = NoMessage
Report(e, message) == IF e.pending = NoMessage THEN [e EXCEPT !.pending = message] ELSE e
Fail(e, message) == IF Ok(e) THEN [e EXCEPT !.error = Report(e, message).pending] ELSE e

-----------------------------------------------------------------------------
(* Writing code *)

\* emit_op and its operand bytes: delta is the change of the stack's depth.
Put(e, bytes, delta) ==
  IF ~Ok(e) THEN e
  ELSE IF e.depth + delta < 0 THEN Fail(e, "internal stack underflow while emitting bytecode")
  ELSE [e EXCEPT !.codes[e.section] = @ \o bytes,
                 !.depth = @ + delta,
                 !.max = IF e.depth + delta > @ THEN e.depth + delta ELSE @]

PutIndexed(e, op, index, delta) == Put(e, <<op>> \o U16Bytes(index), delta)

Here(e) == Len(e.codes[e.section])

\* patch_jump: the operand of the jump that ends at offset `after` is the present end.
Patch(e, after) ==
  IF Ok(e) THEN [e EXCEPT !.codes[e.section] = Retarget(@, after - 3, Here(e))] ELSE e

\* A branch has to leave this depth.
Leaves(e, depth, message) == IF Ok(e) /\ e.depth # depth THEN Fail(e, message) ELSE e

AddConstant(e, v) ==
  IF \E i \in DOMAIN e.constants : FEq(e.constants[i], v) THEN e
  ELSE [e EXCEPT !.constants = Append(@, v)]

EmitConst(e, v) ==
  LET added == AddConstant(e, v)
      same == {i \in DOMAIN added.constants : FEq(added.constants[i], v)}
      index == IF same = {} THEN Len(added.constants) ELSE Min(same)
  IN  PutIndexed(added, PUSH_CONST_F32, index - 1, 1)

-----------------------------------------------------------------------------
(* Symbols.  No name is ever declared twice, so the table is a function. *)

InputSymbol(slot) ==
  [kind |-> "input", index |-> slot, size |-> 1, value |-> NotConst, expr |-> NoExpr, scope |-> 0]

Declare(e, name, symbol) ==
  IF name \in DOMAIN e.symbols THEN Fail(e, "symbol already defined")
  ELSE [e EXCEPT !.symbols = (name :> [symbol EXCEPT !.scope = e.scope]) @@ @]

LetSymbol(value, expr) ==
  [InputSymbol(0) EXCEPT !.kind = "let", !.value = value, !.expr = expr]

EnterScope(e) == [e EXCEPT !.scope = @ + 1]

\* pop_scope_symbols
LeaveScope(e) ==
  [e EXCEPT !.symbols = Restrict(@, {n \in DOMAIN e.symbols : e.symbols[n].scope < e.scope}),
            !.scope = @ - 1]

-----------------------------------------------------------------------------
(* Constant folding *)

RECURSIVE Eval(_, _)

\* resolve_symbol_slot: why a reference to a variable is refused.
ResolveFault(e, name, index) ==
  IF name \notin DOMAIN e.symbols THEN "unknown symbol"
  ELSE LET size == e.symbols[name].size IN
       IF index = NoExpr THEN IF size = 1 THEN NoMessage ELSE "array requires an index"
       ELSE IF size = 1 THEN "symbol is not an array"
       ELSE LET v == Eval(e, index) IN
            IF v = NotConst \/ AsIndex(v[1]) = -1 THEN "array index must be compile-time integer"
            ELSE IF AsIndex(v[1]) >= size THEN "array index out of bounds"
            ELSE NoMessage

Slot(e, name, index) ==
  e.symbols[name].index + (IF index = NoExpr THEN 0 ELSE AsIndex(Eval(e, index)[1]))

EvalCall(e, id, args) ==
  LET values == [i \in DOMAIN args |-> Eval(e, args[i])]
      cells == [i \in 1..4 |-> IF i \in DOMAIN args THEN values[i][1] ELSE Zero]
  IN  IF /\ id \in BuiltinId \ {BUILTIN_RAND, BUILTIN_RGB, BUILTIN_HSV}
         /\ Len(args) = BuiltinArity[id]
         /\ \A i \in DOMAIN args : values[i] # NotConst
         /\ ~SqrtDomain(id, cells)
      THEN <<BuiltinResult(id, cells)>>
      ELSE NotConst

\* eval_expr: the value of an expression that is known at compile time.
Eval(e, x) ==
  CASE x.kind = "number" -> <<x.value>>
    [] x.kind = "symbol" -> IF x.name \in DOMAIN e.symbols THEN e.symbols[x.name].value ELSE NotConst
    [] x.kind = "index" -> NotConst
    [] x.kind = "unary" ->
         LET v == Eval(e, x.operand) IN IF v = NotConst THEN v ELSE <<UnaryResult(x.op, v[1])>>
    [] x.kind = "binary" ->
         LET l == Eval(e, x.left)
             r == Eval(e, x.right)
         IN  IF NotConst \in {l, r} THEN NotConst ELSE <<BinaryResult(x.op, l[1], r[1])>>
    [] x.kind = "call" -> EvalCall(e, x.id, x.args)
    [] x.kind = "ifexpr" ->
         LET c == Eval(e, x.condition) IN
         IF c = NotConst THEN c ELSE Eval(e, IF Truthy(c[1]) THEN x.then ELSE x.else)

RECURSIVE IndexFault(_, _)

\* The error that eval_expr reports of an index in x, or above -O0 simplify_expr, which
\* goes into the operands that eval_expr has no use for.  Only what is not emitted can
\* do without it (lets, stores that are dropped and what is compared for that, empty
\* if statements): the rest emits what it evaluates, and is refused for the same index.
IndexFault(e, x) ==
  LET First(parts) == FoldLeft(LAMBDA f, p : IF f = NoMessage THEN IndexFault(e, p) ELSE f, NoMessage, parts)
      Unresolved(args) == {i \in DOMAIN args : Eval(e, args[i]) = NotConst}
      Evaluated(args) == IF e.level > 0 \/ Unresolved(args) = {} THEN args ELSE SubSeq(args, 1, Min(Unresolved(args)))
      c == Eval(e, x.condition)
  IN  CASE x.kind \in {"number", "symbol"} -> NoMessage
        [] x.kind = "index" -> ResolveFault(e, x.name, x.index)
        [] x.kind = "unary" -> IndexFault(e, x.operand)
        [] x.kind = "binary" -> First(<<x.left, x.right>>)
        [] x.kind = "call" -> First(Evaluated(x.args))
        [] x.kind = "ifexpr" ->
             IF c # NotConst THEN First(<<x.condition, IF Truthy(c[1]) THEN x.then ELSE x.else>>)
             ELSE First(<<x.condition>> \o (IF e.level > 0 THEN <<x.then, x.else>> ELSE << >>))

\* The error of eval_expr alone.
EvalFault(e, x) == IndexFault([e EXCEPT !.level = 0], x)

RECURSIVE Hindrance(_, _)

Effect == "is evaluated for its effect"

\* expr_is_discardable: what not evaluating x would lose, a random number or an error.
\* The error of an index is also reported, in passing.
Hindrance(e, x) ==
  LET First(parts) == FoldLeft(LAMBDA h, p : IF h = NoMessage THEN Hindrance(e, p) ELSE h, NoMessage, parts)
      bound == e.symbols[x.name].expr
      NotRoot(v) == v = NotConst \/ FLess(v[1], Zero)
  IN  CASE x.kind = "number" -> NoMessage
        [] x.kind = "symbol" ->
             IF x.name \notin DOMAIN e.symbols THEN Effect
             ELSE IF bound = NoExpr THEN NoMessage ELSE Hindrance(e, bound)
        [] x.kind = "index" ->
             IF Hindrance(e, x.index) # NoMessage THEN Hindrance(e, x.index)
             ELSE ResolveFault(e, x.name, x.index)
        [] x.kind = "unary" -> Hindrance(e, x.operand)
        [] x.kind = "binary" -> First(<<x.left, x.right>>)
        [] x.kind = "call" ->
             IF x.id \notin BuiltinId \ {BUILTIN_RAND} \/ Len(x.args) # BuiltinArity[x.id] THEN Effect
             ELSE IF x.id = BUILTIN_SQRT /\ NotRoot(Eval(e, x.args[1]))
             THEN IF EvalFault(e, x.args[1]) # NoMessage THEN EvalFault(e, x.args[1]) ELSE Effect
             ELSE First(x.args)
        [] x.kind = "ifexpr" -> First(<<x.condition, x.then, x.else>>)

Discardable(e, x) == Hindrance(e, x) = NoMessage
DiscardFault(e, x) == IF Hindrance(e, x) = Effect THEN NoMessage ELSE Hindrance(e, x)

\* The algebraic rules of -O2, which simplify_expr applies to the tree and
\* emit_optimized_binary to what is left of it: the expression in x's place.
Reduced(e, x) ==
  LET l == Eval(e, x.left)
      r == Eval(e, x.right)
      Absorbs(c, other) == c /\ Discardable(e, other)
      True(c) == c # NotConst /\ Truthy(c[1])
  IN  IF x.op \in {ADD, SUB} /\ Is(r, Zero) THEN x.left
      ELSE IF x.op = ADD /\ Is(l, Zero) THEN x.right
      ELSE IF x.op \in {MUL, AND} /\ Absorbs(Is(r, Zero), x.left) THEN Num(Zero)
      ELSE IF x.op \in {MUL, AND, DIV, MOD} /\ Absorbs(Is(l, Zero), x.right) THEN Num(Zero)
      ELSE IF x.op \in {MUL, DIV} /\ Is(r, One) THEN x.left
      ELSE IF x.op = MUL /\ Is(l, One) THEN x.right
      ELSE IF x.op = OR /\ (Absorbs(True(l), x.right) \/ Absorbs(True(r), x.left)) THEN Num(One)
      ELSE x

RECURSIVE Simplify(_, _)

\* The node with its children simplified; a choice by a known condition is made.
Descend(e, x) ==
  CASE x.kind \in {"none", "number", "symbol"} -> x
    [] x.kind = "index" -> [x EXCEPT !.index = Simplify(e, @)]
    [] x.kind = "unary" -> [x EXCEPT !.operand = Simplify(e, @)]
    [] x.kind = "binary" -> [x EXCEPT !.left = Simplify(e, @), !.right = Simplify(e, @)]
    [] x.kind = "call" -> [x EXCEPT !.args = [i \in DOMAIN x.args |-> Simplify(e, x.args[i])]]
    [] x.kind = "ifexpr" ->
         LET c == Simplify(e, x.condition)
             v == Eval(e, c)
         IN  IF v # NotConst THEN Simplify(e, IF Truthy(v[1]) THEN x.then ELSE x.else)
             ELSE IfX(c, Simplify(e, x.then), Simplify(e, x.else))

\* simplify_expr: the tree that replaces x.
Simplify(e, x) ==
  IF e.level < 1 \/ x = NoExpr THEN x
  ELSE LET s == Descend(e, x)
           v == Eval(e, s)
       IN  IF v # NotConst /\ Discardable(e, s) THEN Num(v[1])
           ELSE IF e.level >= 2 /\ s.kind = "binary" THEN Reduced(e, s)
           ELSE s

-----------------------------------------------------------------------------
(* Expressions *)

RECURSIVE EmitExpr(_, _)

\* emit_const_or_runtime
EmitValue(e, x) ==
  LET v == Eval(e, x) IN IF v # NotConst THEN EmitConst(e, v[1]) ELSE EmitExpr(e, x)

EmitValues(e, xs) == FoldLeft(EmitValue, e, xs)

\* mutant: a copy too few
EmitCopies_OneShort(e, x, n) == Put(EmitValue(e, x), [i \in 1..n-2 |-> DUP], n - 2)

\* n copies of a value, the second and later ones by DUP.
EmitCopies(e, x, n) == Put(EmitValue(e, x), [i \in 1..n-1 |-> DUP], n - 1)

\* mutant: key variables are read in every section
EmitVariable_AnySection(e, name, index) ==
  LET symbol == e.symbols[name]
      fault == ResolveFault(e, name, index)
  IN  IF fault # NoMessage THEN Fail(e, fault)
      ELSE IF symbol.kind = "input"
      THEN IF SectionAllowsInput(e.section, symbol.index)
           THEN Put(e, <<LOAD_INPUT, symbol.index>>, 1)
           ELSE Fail(e, "input is not available in this section")
      ELSE IF symbol.kind = "let"
      THEN IF symbol.value # NotConst THEN EmitConst(e, symbol.value[1]) ELSE EmitValue(e, symbol.expr)
      ELSE PutIndexed(e, IF symbol.kind = "global" THEN LOAD_GLOBAL ELSE LOAD_KEY, Slot(e, name, index), 1)

EmitVariable(e, name, index) ==
  LET symbol == e.symbols[name]
      fault == ResolveFault(e, name, index)
  IN  IF fault # NoMessage THEN Fail(e, fault)
      ELSE IF symbol.kind = "input"
      THEN IF SectionAllowsInput(e.section, symbol.index)
           THEN Put(e, <<LOAD_INPUT, symbol.index>>, 1)
           ELSE Fail(e, "input is not available in this section")
      ELSE IF symbol.kind = "key" /\ e.section # "render"
      THEN Fail(e, "key variable is only available in render")
      ELSE IF symbol.kind = "let"
      THEN IF symbol.value # NotConst THEN EmitConst(e, symbol.value[1]) ELSE EmitValue(e, symbol.expr)
      ELSE PutIndexed(e, IF symbol.kind = "global" THEN LOAD_GLOBAL ELSE LOAD_KEY, Slot(e, name, index), 1)

EmitIfExpr(e, x) ==
  LET known == Eval(e, x.condition)
      tested == Put(EmitValue(e, x.condition), <<JUMP_IF_FALSE, 0, 0>>, -1)
      message == "if expression branch must leave one value"
      chosen == Put(Leaves(EmitValue(tested, x.then), e.depth + 1, message), <<JUMP, 0, 0>>, 0)
      skipped == [Patch(chosen, Here(tested)) EXCEPT !.depth = e.depth]
  IN  IF e.level >= 1 /\ known # NotConst
      THEN EmitValue(e, IF Truthy(known[1]) THEN x.then ELSE x.else)
      ELSE Patch(Leaves(EmitValue(skipped, x.else), e.depth + 1, message), Here(chosen))

EmitBinary(e, x) ==
  LET reduced == IF e.level >= 2 THEN Reduced(e, x) ELSE x
      operands == IF e.level >= 3 /\ x.left = x.right /\ Discardable(e, x.left)
                  THEN EmitCopies(e, x.left, 2)
                  ELSE EmitValues(e, <<x.left, x.right>>)
  IN  IF reduced # x THEN EmitValue(e, reduced) ELSE Put(operands, <<x.op>>, -1)

\* The opcodes that -O3 uses in place of calls.
DirectOpcode ==
  [id \in {BUILTIN_CLAMP, BUILTIN_DIST, BUILTIN_RGB, BUILTIN_HSV} |->
     CASE id = BUILTIN_CLAMP -> CLAMP [] id = BUILTIN_DIST -> DIST
       [] id = BUILTIN_RGB -> RGB [] id = BUILTIN_HSV -> HSV]

EmitBuiltin(e, id, args) ==
  LET argc == Len(args)
      same == argc >= 2 /\ \A i \in DOMAIN args : args[i] = args[1]
      operands == IF e.level >= 3 /\ same /\ Discardable(e, args[1])
                  THEN EmitCopies(e, args[1], argc)
                  ELSE EmitValues(e, args)
      bytes == IF e.level >= 3 /\ id \in DOMAIN DirectOpcode THEN <<DirectOpcode[id]>>
               ELSE <<CALL_BUILTIN, id, argc>>
  IN  IF id \notin BuiltinId THEN Fail(e, "unknown function")
      ELSE IF argc # BuiltinArity[id] THEN Fail(e, "function expects another number of arguments")
      ELSE Put(operands, bytes, 1 - argc)

EmitExpr(e, x) ==
  IF ~Ok(e) THEN e
  ELSE CASE x.kind = "number" -> EmitConst(e, x.value)
         [] x.kind = "symbol" -> EmitVariable(e, x.name, NoExpr)
         [] x.kind = "index" -> EmitVariable(e, x.name, x.index)
         [] x.kind = "unary" -> Put(EmitValue(e, x.operand), <<x.op>>, 0)
         [] x.kind = "binary" -> EmitBinary(e, x)
         [] x.kind = "call" -> EmitBuiltin(e, x.id, x.args)
         [] x.kind = "ifexpr" -> EmitIfExpr(e, x)

-----------------------------------------------------------------------------
(* Dead stores *)

\* expr_indices_match: known to be the same element.
IndicesMatch(e, a, b) ==
  IF NoExpr \in {a, b} THEN a = b
  ELSE LET i == Eval(e, a)
           j == Eval(e, b)
       IN  /\ NotConst \notin {i, j}
           /\ AsIndex(i[1]) # -1 /\ AsIndex(i[1]) = AsIndex(j[1])

\* The error that it reports in passing; which of two is not told apart.
MatchFault(e, a, b) ==
  IF NoExpr \in {a, b} THEN NoMessage
  ELSE IF EvalFault(e, a) # NoMessage THEN EvalFault(e, a) ELSE EvalFault(e, b)

RECURSIVE ReadsIn(_, _), ReadsOf(_, _)

\* expr_reads_target: the indices that the variable is read at, in order.  An index is
\* not looked into.
ReadsIn(x, name) ==
  LET All(parts) == FlattenSeq([i \in DOMAIN parts |-> ReadsIn(parts[i], name)])
  IN  CASE x.kind \in {"none", "number"} -> << >>
        [] x.kind = "symbol" -> IF x.name = name THEN <<NoExpr>> ELSE << >>
        [] x.kind = "index" -> IF x.name = name THEN <<x.index>> ELSE << >>
        [] x.kind = "unary" -> ReadsIn(x.operand, name)
        [] x.kind = "binary" -> All(<<x.left, x.right>>)
        [] x.kind = "call" -> All(x.args)
        [] x.kind = "ifexpr" -> All(<<x.condition, x.then, x.else>>)

\* stmt_reads_target
ReadsOf(s, name) ==
  LET InExprs(parts) == FlattenSeq([i \in DOMAIN parts |-> ReadsIn(parts[i], name)])
      InList(list) == FlattenSeq([i \in DOMAIN list |-> ReadsOf(list[i], name)])
  IN  CASE s.kind \in {"let", "color"} -> InExprs(<<s.value>>)
        [] s.kind = "assign" -> InExprs(<<s.index, s.value>>)
        [] s.kind = "if" -> InExprs(<<s.condition>>) \o InList(s.then \o s.else)
        [] s.kind = "for" -> InExprs(<<s.start, s.end>>) \o InList(s.body)

\* What happens to the variable behind a store to it, up to a branch, a loop or a colour.
Uses(list, at) ==
  LET name == list[at].name
      last == SelectInSubSeq(list, at + 1, Len(list), LAMBDA s : s.kind \in {"if", "for", "color"})
      After(s) ==
        LET reads == ReadsOf(s, name)
        IN  [i \in DOMAIN reads |-> [writes |-> FALSE, index |-> reads[i]]]
              \o (IF s.kind = "assign" /\ s.name = name THEN <<[writes |-> TRUE, index |-> s.index]>> ELSE << >>)
      seen == SubSeq(list, at + 1, IF last = 0 THEN Len(list) ELSE last)
  IN  FlattenSeq([i \in DOMAIN seen |-> After(seen[i])])

\* Those of the same element as far as the emitter can tell.
Matching(e, list, at) ==
  {i \in DOMAIN Uses(list, at) : IndicesMatch(e, Uses(list, at)[i].index, list[at].index)}

MayDrop(e, s) == e.level >= 2 /\ s.kind = "assign" /\ Discardable(e, s.value)

\* mutant: what reads the target between the two stores is overlooked
DeadStore_IgnoresReads(e, list, at) ==
  MayDrop(e, list[at]) /\ \E i \in Matching(e, list, at) : Uses(list, at)[i].writes

\* assignment_is_dead_store: a later assignment of the list overwrites the target
\* before anything that is seen to read it, and before any branch, loop or colour.
DeadStore(e, list, at) ==
  /\ MayDrop(e, list[at])
  /\ LET matching == Matching(e, list, at)
     IN  matching # {} /\ Uses(list, at)[Min(matching)].writes

\* The error that deciding it reports: of the value, which no rule has simplified yet, or
\* of an index, also where the program does not come.
DeadStoreFault(e, list, at) ==
  LET s == list[at]
      uses == Uses(list, at)
      matching == Matching(e, list, at)
      compared == SubSeq(uses, 1, IF matching = {} THEN Len(uses) ELSE Min(matching))
      faults == [i \in DOMAIN compared |-> MatchFault(e, compared[i].index, s.index)]
      first == SelectInSeq(faults, LAMBDA f : f # NoMessage)
  IN  IF e.level < 2 \/ s.kind # "assign" THEN NoMessage
      ELSE IF ~Discardable(e, s.value) THEN DiscardFault(e, s.value)
      ELSE IF first = 0 THEN NoMessage ELSE faults[first]

-----------------------------------------------------------------------------
(* Statements: what the emitter and the statement become *)

Result(e, s) == [emitter |-> e, stmt |-> s]

RECURSIVE EmitStmt(_, _)

\* emit_stmt_list
EmitList(e, list) ==
  LET done[n \in 0..Len(list)] ==
        IF n = 0 THEN [emitter |-> e, list |-> list]
        ELSE LET before == done[n - 1]
                 decided == Report(before.emitter, DeadStoreFault(before.emitter, before.list, n))
                 after == EmitStmt(decided, before.list[n])
             IN  IF ~Ok(before.emitter) THEN before
                 ELSE IF DeadStore(before.emitter, before.list, n) THEN [before EXCEPT !.emitter = decided]
                 ELSE [emitter |-> after.emitter, list |-> [before.list EXCEPT ![n] = after.stmt]]
  IN  done[Len(list)]

\* A branch of an if statement, in a scope of its own.
EmitBranch(e, list) ==
  LET inner == EmitList(EnterScope(e), list)
      message == "if statement branch must preserve stack depth"
  IN  [inner EXCEPT !.emitter = Leaves(LeaveScope(@), e.depth, message)]

\* At -O0 the error of an index in the value is reported but the let is accepted, and
\* the statement after it is refused in its place.
EmitLet(e, s) ==
  LET t == [s EXCEPT !.value = Simplify(e, @)]
      fault == IndexFault(e, s.value)
  IN  IF fault # NoMessage /\ e.level > 0 THEN Result(Fail(e, fault), s)
      ELSE Result(Declare(Report(e, fault), t.name, LetSymbol(Eval(e, t.value), t.value)), t)

EmitAssign(e, s) ==
  LET t == [s EXCEPT !.index = Simplify(e, @), !.value = Simplify(e, @)]
      fault == ResolveFault(e, t.name, t.index)
      kind == e.symbols[t.name].kind
  IN  Result(
        IF fault # NoMessage THEN Fail(e, fault)
        ELSE IF kind \notin {"global", "key"} THEN Fail(e, "only variables can be reassigned")
        ELSE IF kind = "key" /\ e.section # "render"
        THEN Fail(e, "key variable can only be assigned in render")
        ELSE PutIndexed(EmitValue(e, t.value), IF kind = "global" THEN STORE_GLOBAL ELSE STORE_KEY,
                        Slot(e, t.name, t.index), -1),
        t)

EmitColor(e, s) ==
  LET t == [s EXCEPT !.value = Simplify(e, @)] IN
  IF e.section # "render" THEN Result(Fail(e, "color can only be assigned in render"), s)
  ELSE Result(Put(EmitValue(e, t.value), <<SET_COLOR>>, -1), t)

EmitIf(e, s) ==
  LET t == [s EXCEPT !.condition = Simplify(e, @)]
      known == Eval(e, t.condition)
      empty == t.then = << >> /\ t.else = << >>
      only == EmitBranch(e, IF Truthy(known[1]) THEN t.then ELSE t.else)
      tested == Put(EmitValue(e, t.condition), <<JUMP_IF_FALSE, 0, 0>>, -1)
      then == EmitBranch(tested, t.then)
      jumped == Put(then.emitter, <<JUMP, 0, 0>>, 0)
      else == EmitBranch(Patch(jumped, Here(tested)), t.else)
  IN  IF empty /\ Discardable(e, t.condition) THEN Result(e, t)
      ELSE IF empty /\ DiscardFault(e, t.condition) # NoMessage
      THEN Result(Fail(e, DiscardFault(e, t.condition)), t)
      ELSE IF e.level >= 1 /\ known # NotConst
      THEN Result(only.emitter, IF Truthy(known[1]) THEN [t EXCEPT !.then = only.list]
                                  ELSE [t EXCEPT !.else = only.list])
      ELSE IF t.else = << >>
      THEN Result(Patch(then.emitter, Here(tested)), [t EXCEPT !.then = then.list])
      ELSE Result(Patch(else.emitter, Here(jumped)), [t EXCEPT !.then = then.list, !.else = else.list])

EmitFor(e, s) ==
  LET t == [s EXCEPT !.start = Simplify(e, @), !.end = Simplify(e, @)]
      Bound(x) == LET v == Eval(e, x) IN IF v = NotConst THEN -1 ELSE AsIndex(v[1])
      start == Bound(t.start)
      end == Bound(t.end)
      Round(before, i) ==
        LET bound == Declare(EnterScope(before.emitter), t.name, LetSymbol(<<OfIndex(i)>>, NoExpr))
            after == EmitList(bound, before.list)
        IN  IF Ok(before.emitter) THEN [after EXCEPT !.emitter = LeaveScope(@)] ELSE before
      rounds[n \in 0..end-start] ==
        IF n = 0 THEN [emitter |-> e, list |-> t.body] ELSE Round(rounds[n - 1], start + n - 1)
      last == rounds[end - start]
  IN  IF -1 \in {start, end}
      THEN Result(Fail(e, "for loop range must be compile-time integer bounds"), t)
      ELSE IF end < start
      THEN Result(Fail(e, "for loop end must be greater than or equal to start"), t)
      ELSE IF t.body = << >> THEN Result(e, t)
      ELSE Result(last.emitter, [t EXCEPT !.body = last.list])

EmitStmt(e, s) ==
  CASE e.pending # NoMessage -> Result(Fail(e, e.pending), s)
    [] s.kind = "let" -> EmitLet(e, s)
    [] s.kind = "assign" -> EmitAssign(e, s)
    [] s.kind = "color" -> EmitColor(e, s)
    [] s.kind = "if" -> EmitIf(e, s)
    [] s.kind = "for" -> EmitFor(e, s)

-----------------------------------------------------------------------------
(* Programs *)

RECURSIVE GuaranteesColor(_)

\* mutant: one branch that sets a colour is enough
GuaranteesColor_AnyBranch(list) ==
  \E i \in DOMAIN list :
    \/ list[i].kind = "color"
    \/ list[i].kind = "if" /\ (GuaranteesColor(list[i].then) \/ GuaranteesColor(list[i].else))

\* stmt_list_guarantees_color
GuaranteesColor(list) ==
  \E i \in DOMAIN list :
    \/ list[i].kind = "color"
    \/ list[i].kind = "if" /\ GuaranteesColor(list[i].then) /\ GuaranteesColor(list[i].else)

NewEmitter(level) ==
  [level |-> level, section |-> "init", scope |-> 0, depth |-> 0, max |-> 0,
   error |-> NoMessage, pending |-> NoMessage,
   symbols |-> [name \in DOMAIN InputNames |-> InputSymbol(InputNames[name])],
   constants |-> << >>, codes |-> [s \in Sections |-> << >>],
   initial |-> [global |-> << >>, key |-> << >>]]

\* A declaration of a global or key variable: its cells follow those declared before.
DeclareVar(e, var) ==
  LET value == Eval(e, Simplify(e, var.initializer))
      symbol == [InputSymbol(Len(e.initial[var.storage])) EXCEPT !.kind = var.storage, !.size = var.size]
  IN  IF ~Ok(e) THEN e
      ELSE IF value = NotConst THEN Fail(e, "variable initializer must be compile-time constant")
      ELSE Declare([e EXCEPT !.initial[var.storage] = @ \o [i \in 1..var.size |-> value[1]]],
                   var.name, symbol)

\* emit_section
EmitSection(e, section, list) ==
  IF ~Ok(e) THEN e
  ELSE LET inside == [e EXCEPT !.section = section, !.depth = 0, !.scope = 1]
       IN  [LeaveScope(EmitList(inside, list).emitter) EXCEPT !.depth = e.depth]

\* HALT ends each of the three sections.
EmitHalts(e) ==
  IF Ok(e) THEN [e EXCEPT !.codes = [s \in Sections |-> Append(@[s], HALT)]] ELSE e

\* A pass over the three sections, refused by the fault of one of them.
Pass(e, FaultOf(_), On(_)) ==
  IF ~Ok(e) THEN e
  ELSE IF \E s \in Sections : FaultOf(e.codes[s]) # "none"
  THEN Fail(e, FaultOf(e.codes[CHOOSE s \in Sections : FaultOf(e.codes[s]) # "none"]))
  ELSE [e EXCEPT !.codes = [init |-> On(@.init), update |-> On(@.update), render |-> On(@.render)]]

DropConstants(e) ==
  LET used == Used(e.codes)
      fault == CompactFault(e.codes, e.constants)
  IN  IF ~Ok(e) THEN e
      ELSE IF fault # "none" THEN Fail(e, fault)
      ELSE [e EXCEPT !.constants = KeptConstants(@, used),
                     !.codes = Compacted(e.codes, e.constants)]

\* recompute_max_stack, with the verdict and the maximum of LumiStackDepth's reference.
DepthsIn(code) == {c[2] + StackDelta(code, c[1]) : c \in Paths(code)}
RecomputeMaxStack(e) ==
  IF ~Ok(e) THEN e
  ELSE IF \E s \in Sections : ~WellBehaved(e.codes[s])
  THEN Fail(e, "invalid stack depth while recomputing bytecode")
  ELSE [e EXCEPT !.max = Max(UNION {DepthsIn(e.codes[s]) : s \in Sections})]

\* optimize_emitted_bytecode
Optimize(e) ==
  LET threaded == Pass(e, ThreadFault, ThreadJumps)
      trimmed == Pass(Pass(threaded, UnreachableFault, RemoveUnreachable), NoopFault, RemoveNoopJumps)
      again == Pass(trimmed, ThreadFault, ThreadJumps)
  IN  RecomputeMaxStack(DropConstants(again))

\* lumi_emit_bytecode
Compile(source, level) ==
  LET declared == FoldLeft(DeclareVar, NewEmitter(level), source.vars)
      first == EmitSection(declared, "init", source.init)
      second == EmitSection(first, "update", source.update)
      third == EmitSection(second, "render", source.render)
      colored == IF GuaranteesColor(source.render) THEN third
                 ELSE Fail(third, "render section must assign color on all control-flow paths")
      ended == EmitHalts(colored)
  IN  IF level >= 2 THEN Optimize(ended) ELSE ended

\* The program that lumic writes to a file.
Image(e) ==
  [constants |-> e.constants, initialGlobals |-> e.initial.global, initialKeys |-> e.initial.key,
   init |-> e.codes["init"], update |-> e.codes["update"], render |-> e.codes["render"],
   maxStack |-> e.max]
=============================================================================
