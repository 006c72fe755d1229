----------------------------- MODULE MCPrograms -----------------------------
(***************************************************************************)
(* What the instances of the virtual machine share: a five-valued float    *)
(* (with a NaN), and programs, some as the compiler emits them and some of *)
(* bytecode that fails every check of the machine.                         *)
(***************************************************************************)
EXTENDS LumiBytecode, SequencesExt

\* -1, 0, 1, 2 and a NaN, which equals and precedes nothing.
NaN == 9
MCCell == {-1, 0, 1, 2, NaN}
MCFEq(a, b) == a = b /\ a # NaN
MCFLess(a, b) == a # NaN /\ b # NaN /\ a < b

\* Integer arithmetic that wraps into -1..2; a NaN operand gives a NaN.
Wrap(n) == ((n + 1) % 4) - 1
MCFArith(op, a, b) ==
  IF NaN \in {a, b} THEN NaN
  ELSE CASE op = ADD -> Wrap(a + b)
         [] op = SUB -> Wrap(a - b)
         [] op = MUL -> Wrap(a * b)
         [] op \in {DIV, MOD} -> IF b = 0 THEN NaN ELSE Wrap(a * b)
MCFNeg(a) == IF a = NaN THEN NaN ELSE Wrap(-a)
MCFBuiltin(id, args) == IF NaN \in ToSet(args) THEN NaN ELSE Wrap(id + args[1] + args[2] + 2 * args[3] + args[4])

\* Assembler
I1(op) == <<op>>
I3(op, u) == <<op>> \o U16Bytes(u)
In(slot) == <<LOAD_INPUT, slot>>
Call(id, argc) == <<CALL_BUILTIN, id, argc>>
Halts == I1(HALT)

Base == [constants |-> <<1, 2>>, initialGlobals |-> <<2>>, initialKeys |-> <<0, 1>>,
         init |-> Halts, update |-> Halts, render |-> Halts, maxStack |-> 2]

\* global g = 2; key var a = 0; key var b = 1; init { g = 1; } update { g = g + dt; }
\* render { b = b < g; if (pressed) { a = g; } color = if (a < b) b else a; }
Counter == [Base EXCEPT
  !.init = I3(PUSH_CONST_F32, 0) \o I3(STORE_GLOBAL, 0) \o Halts,
  !.update = I3(LOAD_GLOBAL, 0) \o In(INPUT_DT) \o I1(ADD) \o I3(STORE_GLOBAL, 0) \o Halts,
  !.render = I3(LOAD_KEY, 1) \o I3(LOAD_GLOBAL, 0) \o I1(LT) \o I3(STORE_KEY, 1)        \* 0..9
          \o In(4) \o I3(JUMP_IF_FALSE, 21) \o I3(LOAD_GLOBAL, 0) \o I3(STORE_KEY, 0) \* 10..20
          \o I3(LOAD_KEY, 0) \o I3(LOAD_KEY, 1) \o I1(LT) \o I3(JUMP_IF_FALSE, 37)    \* 21..30
          \o I3(LOAD_KEY, 1) \o I3(JUMP, 40)                                          \* 31..36
          \o I3(LOAD_KEY, 0) \o I1(SET_COLOR) \o Halts]                               \* 37..41

\* Builtins, called and as opcodes, and every unary and binary operator kind.
Maths == [Base EXCEPT !.maxStack = 4,
  !.update = I3(LOAD_GLOBAL, 0) \o Call(BUILTIN_SQRT, 1) \o Call(BUILTIN_RAND, 0) \o I1(MOD)
          \o I1(NEG) \o I3(STORE_GLOBAL, 0) \o Halts,
  !.render = In(0) \o I1(DUP) \o I1(DUP) \o I1(RGB) \o I3(LOAD_GLOBAL, 0) \o I1(DUP)
          \o I3(LOAD_GLOBAL, 0) \o I1(DIST) \o I1(SET_COLOR)
          \o I3(PUSH_CONST_F32, 1) \o In(4) \o Call(BUILTIN_MIN, 2) \o In(0) \o I1(NOT) \o I1(GE) \o I3(STORE_KEY, 1) \o Halts]
MathsDirect == [Maths EXCEPT
  !.init = I3(LOAD_GLOBAL, 0) \o I3(PUSH_CONST_F32, 0) \o I3(PUSH_CONST_F32, 1) \o I1(CLAMP)
        \o I3(PUSH_CONST_F32, 1) \o I1(OR) \o I3(STORE_GLOBAL, 0) \o Halts,
  !.render = In(0) \o In(1) \o In(4) \o I1(HSV) \o I1(SET_COLOR) \o I3(LOAD_KEY, 0) \o In(0) \o I1(EQ)
          \o I3(LOAD_KEY, 1) \o I1(AND) \o I3(STORE_KEY, 0) \o Halts]

CompiledPrograms == {Counter, Maths, MathsDirect}

\* Bytecode no compiler emits: one program for each way of failing, most of them
\* after an instruction that has already written something.
StoreFirst == I3(PUSH_CONST_F32, 1) \o I3(STORE_GLOBAL, 0)
Faulty == {
  [Base EXCEPT !.update = StoreFirst \o <<0>>],                                   \* unknown opcode
  [Base EXCEPT !.update = StoreFirst \o <<JUMP, 1>>],                             \* truncated
  [Base EXCEPT !.update = StoreFirst \o <<LOAD_INPUT>>],
  [Base EXCEPT !.update = StoreFirst],                                            \* no HALT
  [Base EXCEPT !.update = I3(LOAD_KEY, 0) \o Halts, !.init = In(0) \o Halts],     \* wrong section
  [Base EXCEPT !.init = StoreFirst \o I3(PUSH_CONST_F32, 0) \o I1(SET_COLOR)],
  [Base EXCEPT !.init = I3(PUSH_CONST_F32, 1) \o I3(STORE_KEY, 0) \o Halts],
  [Base EXCEPT !.update = I3(PUSH_CONST_F32, 2), !.init = I3(LOAD_GLOBAL, 1)],    \* bad index
  [Base EXCEPT !.render = I3(PUSH_CONST_F32, 1) \o I3(STORE_KEY, 2) \o Halts],
  [Base EXCEPT !.render = I3(PUSH_CONST_F32, 1) \o I1(SET_COLOR) \o I3(LOAD_KEY, 3)],
  [Base EXCEPT !.update = I1(ADD), !.init = I1(DUP)],                               \* underflow
  [Base EXCEPT !.render = I3(PUSH_CONST_F32, 1) \o I1(DUP) \o I1(DUP) \o I1(DUP) \o I1(DUP) \o Halts],
  [Base EXCEPT !.update = Call(99, 0), !.init = I3(PUSH_CONST_F32, 1) \o Call(BUILTIN_ABS, 5)],
  [Base EXCEPT !.update = I3(JUMP, 40), !.init = In(2), !.render = In(9) \o I3(JUMP_IF_FALSE, 30) \o Halts],
  [Base EXCEPT !.update = Call(BUILTIN_SQRT, 0) \o I3(STORE_GLOBAL, 0) \o Halts,  \* args[0] never written
               !.render = In(0) \o Call(BUILTIN_LERP, 1) \o I1(SET_COLOR) \o Halts],
  [Base EXCEPT !.update = I3(JUMP, 4) \o <<HALT, LOAD_INPUT, 2>> \o I3(STORE_GLOBAL, 0) \o I3(JUMP, 3)],
  [Base EXCEPT !.init = In(INPUT_DT) \o Halts, !.maxStack = 9],                   \* does not fit
  [Base EXCEPT !.initialKeys = <<0, 0, 1, 1>>],
  [Base EXCEPT !.initialKeys = <<0, 0, 1, 1, 1, 1, 1, 1>>],
  [Base EXCEPT !.initialGlobals = <<0, 1, 2>>] }

\* A loop the machine accepts: jump back until the global counts down to 0.
Loop == [Base EXCEPT
  !.update = I3(LOAD_GLOBAL, 0) \o I3(PUSH_CONST_F32, 0) \o I1(SUB) \o I1(DUP) \o I3(STORE_GLOBAL, 0)
          \o I3(JUMP_IF_FALSE, 17) \o I3(JUMP, 0) \o Halts]

MCInputs == {[s \in InputSlot |-> IF s = 4 THEN p ELSE IF s \in {0, 2} THEN x ELSE 1] :
               p \in {0, 1}, x \in {1, NaN}}
FewInputs == {[s \in InputSlot |-> IF s = 4 THEN p ELSE 1] : p \in {0, 1}}
MCRandom == {0, 1}
=============================================================================
