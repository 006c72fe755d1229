---------------------------- MODULE LumiBytecode ----------------------------
(***************************************************************************)
(* The instruction set of Lumi bytecode version 1.                         *)
(*                                                                         *)
(* A code section is a sequence of bytes.  Offsets are the C program's,    *)
(* counted from 0, so the byte at offset pc is code[pc + 1].  Nothing here *)
(* depends on decoding from the start of a section: the virtual machine    *)
(* and the compiler's optimizer both decode at whatever offset they are    *)
(* asked about, and a jump may point into the middle of an instruction.    *)
(***************************************************************************)
EXTENDS Integers, Sequences

UINT8_MAX == 255
UINT16_MAX == 65535
Byte == 0..UINT8_MAX
U16 == 0..UINT16_MAX

-----------------------------------------------------------------------------
(* enum lumi_opcode *)

PUSH_CONST_F32 == 1
LOAD_INPUT     == 2
LOAD_GLOBAL    == 3
STORE_GLOBAL   == 4
LOAD_KEY       == 5
STORE_KEY      == 6
ADD            == 7
SUB            == 8
MUL            == 9
DIV            == 10
MOD            == 11
NEG            == 12
NOT            == 13
EQ             == 14
NE             == 15
LT             == 16
LE             == 17
GT             == 18
GE             == 19
AND            == 20
OR             == 21
CALL_BUILTIN   == 22
JUMP           == 23
JUMP_IF_FALSE  == 24
SET_COLOR      == 25
HALT           == 26
CLAMP          == 27
DIST           == 28
RGB            == 29
HSV            == 30
DUP            == 31

Opcode == 1..31

ArithOp == {ADD, SUB, MUL, DIV, MOD}
BinaryOp == ArithOp \cup {EQ, NE, LT, LE, GT, GE, AND, OR}
UnaryOp == {NEG, NOT}
\* The builtins that -O3 gives an opcode of their own.
DirectBuiltinOp == {CLAMP, DIST, RGB, HSV}
JumpOp == {JUMP, JUMP_IF_FALSE}
KeyOp == {LOAD_KEY, STORE_KEY}

-----------------------------------------------------------------------------
(* enum lumi_input_slot, enum lumi_builtin_id and the builtins' arities *)

InputSlot == 0..5
INPUT_DT == 2
INPUT_SPEED == 3

BUILTIN_ABS   == 1
BUILTIN_CLAMP == 2
BUILTIN_DIST  == 3
BUILTIN_RGB   == 4
BUILTIN_HSV   == 5
BUILTIN_SQRT  == 8
BUILTIN_LERP  == 9
BUILTIN_MIN   == 10
BUILTIN_MAX   == 11
BUILTIN_POW   == 12
BUILTIN_RAND  == 13
BuiltinId == 1..16

\* How many of args[0..3] the branch of a builtin reads, which is also how many
\* arguments the compiler requires.
BuiltinArity ==
  [b \in BuiltinId |->
     CASE b = BUILTIN_RAND -> 0
       [] b \in {BUILTIN_MIN, BUILTIN_MAX, BUILTIN_POW} -> 2
       [] b \in {BUILTIN_CLAMP, BUILTIN_RGB, BUILTIN_HSV, BUILTIN_LERP} -> 3
       [] b = BUILTIN_DIST -> 4
       [] b \in {BUILTIN_ABS, 6, 7, BUILTIN_SQRT, 14, 15, 16} -> 1] \* abs sin cos sqrt ceil floor round

-----------------------------------------------------------------------------
(* Decoding *)

ByteAt(code, pc) == code[pc + 1]

\* A little-endian operand.
ReadU16(code, pc) == ByteAt(code, pc) + 256 * ByteAt(code, pc + 1)

\* The two bytes write_u16_bytes stores for v, which callers have cast to uint16_t.
U16Bytes(v) == <<v % 256, (v \div 256) % 256>>

\* The bytes an instruction with this opcode occupies.
EncodedSize(op) ==
  IF op \in {PUSH_CONST_F32, LOAD_GLOBAL, STORE_GLOBAL, LOAD_KEY, STORE_KEY,
             CALL_BUILTIN, JUMP, JUMP_IF_FALSE} THEN 3
  ELSE IF op = LOAD_INPUT THEN 2
  ELSE 1

\* bytecode_instruction_size succeeds: a known opcode with all its operand bytes.
Decodable(code, pc) ==
  /\ pc < Len(code)
  /\ ByteAt(code, pc) \in Opcode
  /\ pc + EncodedSize(ByteAt(code, pc)) <= Len(code)

InstructionSize(code, pc) == EncodedSize(ByteAt(code, pc))

\* The operand of a jump.
Target(code, pc) == ReadU16(code, pc + 1)

\* How many cells the instruction at pc takes from the stack and puts back.
Pops(code, pc) ==
  LET op == ByteAt(code, pc) IN
  CASE op \in {PUSH_CONST_F32, LOAD_INPUT, LOAD_GLOBAL, LOAD_KEY, JUMP, HALT} -> 0
    [] op \in {STORE_GLOBAL, STORE_KEY, SET_COLOR, JUMP_IF_FALSE, DUP} \cup UnaryOp -> 1
    [] op \in BinaryOp -> 2
    [] op \in {CLAMP, RGB, HSV} -> 3
    [] op = DIST -> 4
    [] op = CALL_BUILTIN -> ByteAt(code, pc + 2)

Pushes(code, pc) ==
  LET op == ByteAt(code, pc) IN
  IF op = DUP THEN 2
  ELSE IF op \in {STORE_GLOBAL, STORE_KEY, SET_COLOR, JUMP, JUMP_IF_FALSE, HALT} THEN 0
  ELSE 1

\* instruction_stack_delta
StackDelta(code, pc) == Pushes(code, pc) - Pops(code, pc)

-----------------------------------------------------------------------------
(* Control flow *)

\* The offsets execution may reach from pc by passing the instruction there, as
\* the optimizer's passes follow it.  Falling off the end leads nowhere.
Successors(code, pc) ==
  LET op == ByteAt(code, pc)
      next == pc + InstructionSize(code, pc)
  IN  (IF op \in JumpOp THEN {Target(code, pc)} ELSE {})
      \cup (IF op \notin {JUMP, HALT} /\ next < Len(code) THEN {next} ELSE {})
=============================================================================
