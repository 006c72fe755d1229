----------------------------- MODULE LumiSyntax -----------------------------
(***************************************************************************)
(* The syntax tree the parser hands to the bytecode emitter.  A literal is *)
(* the cell it converts to, an operator is the opcode that computes it and *)
(* a function is the number of its builtin (0 for a name that is none).    *)
(* Line and column are left out.                                           *)
(***************************************************************************)
EXTENDS LumiFloat

-----------------------------------------------------------------------------
(* lumi_expr *)

NoExpr == [kind |-> "none"]   \* a null pointer

Num(value) == [kind |-> "number", value |-> value]
Sym(name) == [kind |-> "symbol", name |-> name]
Elem(name, index) == [kind |-> "index", name |-> name, index |-> index]
Un(op, operand) == [kind |-> "unary", op |-> op, operand |-> operand]
Bin(op, left, right) == [kind |-> "binary", op |-> op, left |-> left, right |-> right]
Fn(id, args) == [kind |-> "call", id |-> id, args |-> args]
IfX(condition, then, else) ==
  [kind |-> "ifexpr", condition |-> condition, then |-> then, else |-> else]

-----------------------------------------------------------------------------
(* lumi_stmt *)

Let(name, value) == [kind |-> "let", name |-> name, value |-> value]
SetElem(name, index, value) ==
  [kind |-> "assign", name |-> name, index |-> index, value |-> value]
Set(name, value) == SetElem(name, NoExpr, value)
Color(value) == [kind |-> "color", value |-> value]
IfS(condition, then, else) ==
  [kind |-> "if", condition |-> condition, then |-> then, else |-> else]
For(name, start, end, body) ==
  [kind |-> "for", name |-> name, start |-> start, end |-> end, body |-> body]

-----------------------------------------------------------------------------
(* lumi_program: the declared variables and the statements of the sections.  An *)
(* optional section that is absent is empty.                                    *)

Var(storage, name, size, initializer) ==
  [storage |-> storage, name |-> name, size |-> size, initializer |-> initializer]

Source(vars, init, update, render) ==
  [vars |-> vars, init |-> init, update |-> update, render |-> render]

\* The names of the inputs.
InputNames ==
  [x |-> 0, y |-> 1, dt |-> 2, delta_ms |-> 2, speed |-> 3, pressed |-> 4,
   press |-> 5, pressed_percentage |-> 5]

\* section_allows_input
SectionAllowsInput(section, slot) ==
  section = "render" \/ (section = "update" /\ slot \in {INPUT_DT, INPUT_SPEED})
=============================================================================
