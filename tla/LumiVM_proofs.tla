---------------------------- MODULE LumiVM_proofs ---------------------------
(***************************************************************************)
(* What holds of the virtual machine for every program, every storage and  *)
(* every float: its types, that no instruction of any bytecode leaves the  *)
(* storage of the caller, and that it implements the state model of        *)
(* LumiStore, its flat arrays read as one vector of globals and one row    *)
(* for each key.                                                           *)
(***************************************************************************)
EXTENDS LumiVM, LumiBytecode_proofs

\* Outside a call there is no frame.
NoFrameLeft == status # "running" => frame = NoFrame

\* The inductive invariant: with the types, that a state only exists over storage
\* that holds it is enough, because every access is checked against that state; a
\* state is created or entered with an empty stack, which NoFrameLeft says.
IInv == TypeOK /\ FitsStorage /\ NoFrameLeft

-----------------------------------------------------------------------------
(* Lemmas about the instruction at the program counter *)

LEMMA CodeType ==
  ASSUME TypeOK
  PROVE  /\ Code \in Seq(Byte)
         /\ Len(Code) \in Nat
         /\ \A i \in 0..Len(Code)-1 : ByteAt(Code, i) \in Byte
<1>1. Code \in Seq(Byte)
  BY DEF TypeOK, Program, Mode, Code, Section
<1>2. \A i \in 0..Len(Code)-1 : ByteAt(Code, i) \in Byte
  BY <1>1, ElementOfSeq, LenProperties DEF ByteAt
<1> QED
  BY <1>1, <1>2, LenProperties

LEMMA CountTypes ==
  ASSUME TypeOK
  PROVE  /\ GlobalCount \in Nat /\ KeyCount \in Nat /\ KeyCells \in Nat
         /\ \A i \in 1..GlobalCount : program.initialGlobals[i] \in Cell
         /\ \A i \in 1..KeyCount : program.initialKeys[i] \in Cell
         /\ \A i \in 1..Len(program.constants) : program.constants[i] \in Cell
<1>1. /\ program.initialGlobals \in Seq(Cell)
      /\ program.initialKeys \in Seq(Cell)
      /\ program.constants \in Seq(Cell)
  BY DEF TypeOK, Program
<1>2. GlobalCount \in Nat /\ KeyCount \in Nat
  BY <1>1, LenProperties DEF GlobalCount, KeyCount
<1>3. KeyCells \in Nat
  BY <1>2, StorageAssumption DEF KeyCells
<1> QED
  BY <1>1, <1>2, <1>3, ElementOfSeq DEF GlobalCount, KeyCount

\* What an instruction that passes every check knows.
LEMMA Decoded ==
  ASSUME TypeOK, NEW ops, Executes(ops)
  PROVE  /\ status = "running"
         /\ Op \in ops /\ Op \in Opcode
         /\ Available /\ OperandInRange
         /\ frame.pc \in Nat /\ frame.pc < Len(Code)
         /\ NextPc \in Nat /\ frame.pc < NextPc /\ NextPc <= Len(Code)
         /\ NextPc = frame.pc + EncodedSize(Op)
         /\ EncodedSize(Op) = 3 => Operand \in U16 /\ Argc \in Byte
<1>1. /\ status = "running" /\ frame.pc < Len(Code) /\ Op \in ops
      /\ Op \in Opcode /\ Decodable(Code, frame.pc) /\ Available /\ OperandInRange
  BY DEF Executes, Executing, Fault, NoError
<1>2. frame.pc \in Nat
  BY DEF TypeOK
<1>3. EncodedSize(Op) \in 1..3
  BY DEF EncodedSize
<1>4. /\ NextPc \in Nat /\ frame.pc < NextPc /\ NextPc <= Len(Code)
      /\ NextPc = frame.pc + EncodedSize(Op)
  BY <1>1, <1>2, <1>3, CodeType DEF NextPc, InstructionSize, Decodable, Op
<1>5. ASSUME EncodedSize(Op) = 3 PROVE Operand \in U16 /\ Argc \in Byte
  <2>1. frame.pc + 1 \in 0..Len(Code)-1 /\ frame.pc + 2 \in 0..Len(Code)-1
    BY <1>2, <1>4, <1>5, CodeType
  <2>2. ByteAt(Code, frame.pc + 1) \in Byte /\ ByteAt(Code, frame.pc + 2) \in Byte
    BY <2>1, CodeType
  <2>3. Operand = ByteAt(Code, frame.pc + 1) + 256 * ByteAt(Code, frame.pc + 2)
    <3>1. frame.pc + 1 + 1 = frame.pc + 2
      BY <1>2
    <3> QED
      BY <3>1 DEF Operand, ReadU16
  <2> QED
    BY <2>2, <2>3, U16Range DEF Argc
<1> QED
  BY <1>1, <1>2, <1>4, <1>5

\* The stack effect of an instruction that passes every check.
LEMMA StackEffect ==
  ASSUME TypeOK, NEW ops, Executes(ops)
  PROVE  /\ Depth \in Nat
         /\ Pops(Code, frame.pc) \in Nat /\ Pops(Code, frame.pc) <= Depth
         /\ Pushes(Code, frame.pc) \in 0..2
         /\ StackDelta(Code, frame.pc) = Pushes(Code, frame.pc) - Pops(Code, frame.pc)
         /\ Depth + StackDelta(Code, frame.pc) <= StackCapacity
         /\ Op = CALL_BUILTIN => Argc \in 0..4 /\ Pops(Code, frame.pc) = Argc
                              /\ ByteAt(Code, frame.pc + 1) \in BuiltinId
<1>1. Depth \in Nat
  BY LenProperties DEF TypeOK, Depth
<1>2. Pops(Code, frame.pc) \in Nat /\ (Op = CALL_BUILTIN => Pops(Code, frame.pc) = Argc)
  <2>1. CASE Op = CALL_BUILTIN
    <3>1. Argc \in Byte
      BY <2>1, Decoded DEF EncodedSize
    <3>2. Pops(Code, frame.pc) = Argc
      BY <2>1 DEF Pops, Op, Argc, CALL_BUILTIN, PUSH_CONST_F32, LOAD_INPUT, LOAD_GLOBAL, LOAD_KEY,
           JUMP, HALT, STORE_GLOBAL, STORE_KEY, SET_COLOR, JUMP_IF_FALSE, DUP, UnaryOp, NEG, NOT,
           BinaryOp, ArithOp, ADD, SUB, MUL, DIV, MOD, EQ, NE, LT, LE, GT, GE, AND, OR,
           CLAMP, RGB, HSV, DIST
    <3> QED
      BY <3>1, <3>2, ByteNat
  <2>2. CASE Op # CALL_BUILTIN
    BY <2>2, Decoded DEF Pops, Op, Opcode, CALL_BUILTIN, PUSH_CONST_F32, LOAD_INPUT, LOAD_GLOBAL,
         LOAD_KEY, JUMP, HALT, STORE_GLOBAL, STORE_KEY, SET_COLOR, JUMP_IF_FALSE, DUP, UnaryOp,
         NEG, NOT, BinaryOp, ArithOp, ADD, SUB, MUL, DIV, MOD, EQ, NE, LT, LE, GT, GE, AND, OR,
         CLAMP, RGB, HSV, DIST
  <2> QED
    BY <2>1, <2>2
<1>3. /\ Depth >= Pops(Code, frame.pc)
      /\ ~ (Depth + StackDelta(Code, frame.pc) > StackCapacity)
      /\ Op = CALL_BUILTIN => ByteAt(Code, frame.pc + 1) \in BuiltinId
  <2>1. /\ ~ (Depth < Pops(Code, frame.pc))
        /\ ~ (Depth + StackDelta(Code, frame.pc) > StackCapacity)
        /\ Op = CALL_BUILTIN => ByteAt(Code, frame.pc + 1) \in BuiltinId
    BY DEF Executes, Fault, NoError
  <2> QED
    BY <2>1, <1>1, <1>2
<1>4. Pushes(Code, frame.pc) \in 0..2
  BY DEF Pushes
<1>5. Op = CALL_BUILTIN => Argc \in 0..4
  <2>1. OperandInRange /\ (Op = CALL_BUILTIN => Argc \in Byte)
    BY Decoded DEF EncodedSize
  <2>2. Op = CALL_BUILTIN => Argc <= 4
    BY <2>1, Zenon DEF OperandInRange
  <2> QED
    BY <2>1, <2>2, ByteNat
<1> QED
  BY <1>1, <1>2, <1>3, <1>4, <1>5, StorageAssumption DEF StackDelta

LEMMA StackCells ==
  ASSUME TypeOK
  PROVE  /\ frame.stack \in Seq(Cell) /\ Depth = Len(frame.stack) /\ Depth \in Nat
         /\ \A i \in 1..Depth : frame.stack[i] \in Cell
         /\ \A n \in 0..Depth : Below(n) \in Seq(Cell) /\ Len(Below(n)) = Depth - n
         /\ \A n \in 0..Depth : Top(n) \in Seq(Cell) /\ Len(Top(n)) = n
<1>1. frame.stack \in Seq(Cell) /\ Depth = Len(frame.stack) /\ Depth \in Nat
  BY LenProperties DEF TypeOK, Depth
<1>2. \A i \in 1..Depth : frame.stack[i] \in Cell
  BY <1>1, ElementOfSeq
<1>3. ASSUME NEW n \in 0..Depth PROVE Below(n) \in Seq(Cell) /\ Len(Below(n)) = Depth - n
  <2>1. 1 \in Int /\ Depth - n \in Int /\ \A i \in 1..Depth-n : frame.stack[i] \in Cell
    BY <1>1, <1>2
  <2>2. /\ SubSeq(frame.stack, 1, Depth - n) \in Seq(Cell)
        /\ Len(SubSeq(frame.stack, 1, Depth - n)) = IF 1 <= Depth - n THEN Depth - n - 1 + 1 ELSE 0
    BY <2>1, SubSeqProperties
  <2> QED
    BY <1>1, <2>2 DEF Below
<1>4. ASSUME NEW n \in 0..Depth PROVE Top(n) \in Seq(Cell) /\ Len(Top(n)) = n
  <2>1. /\ Depth - n + 1 \in Int /\ Depth \in Int
        /\ \A i \in Depth-n+1..Depth : frame.stack[i] \in Cell
    BY <1>1, <1>2
  <2>2. /\ SubSeq(frame.stack, Depth - n + 1, Depth) \in Seq(Cell)
        /\ Len(SubSeq(frame.stack, Depth - n + 1, Depth))
             = IF Depth - n + 1 <= Depth THEN Depth - (Depth - n + 1) + 1 ELSE 0
    BY <2>1, SubSeqProperties
  <2> QED
    BY <1>1, <2>2 DEF Top
<1> QED
  BY <1>1, <1>2, <1>3, <1>4

-----------------------------------------------------------------------------
(* The three ways an instruction ends *)

LEMMA ContinueInv ==
  ASSUME IInv, status = "running", NEW pc \in Nat, NEW stack \in Seq(Cell),
         Len(stack) <= StackCapacity, Continue(pc, stack),
         globals' \in [0..GlobalCapacity-1 -> Cell],
         keys' \in [0..KeyCellCapacity-1 -> Cell],
         output' \in [color : Cell, hasColor : BOOLEAN, executed : Nat]
  PROVE  IInv'
<1>1. /\ frame' = [frame EXCEPT !.pc = pc, !.stack = stack, !.steps = frame.steps + 1]
      /\ UNCHANGED <<program, status, randomFn, error>>
  BY DEF Continue
<1>2. frame \in [mode : Mode, key : Nat, inputs : [InputSlot -> Cell],
                 pc : Nat, stack : Seq(Cell), steps : Nat]
  BY DEF IInv, TypeOK
<1>3. /\ frame' \in [mode : Mode, key : Nat, inputs : [InputSlot -> Cell],
                     pc : Nat, stack : Seq(Cell), steps : Nat]
      /\ frame'.mode = frame.mode /\ frame'.key = frame.key /\ frame'.stack = stack
  <2>1. frame' = [mode |-> frame.mode, key |-> frame.key, inputs |-> frame.inputs,
                  pc |-> pc, stack |-> stack, steps |-> frame.steps + 1]
    BY <1>1, <1>2
  <2>2. /\ frame.mode \in Mode /\ frame.key \in Nat /\ frame.inputs \in [InputSlot -> Cell]
        /\ frame.steps + 1 \in Nat
    BY <1>2
  <2> QED
    BY <2>1, <2>2
<1>4. TypeOK'
  BY <1>1, <1>3 DEF IInv, TypeOK
<1>5. FitsStorage'
  BY <1>1, <1>3 DEF IInv, FitsStorage, GlobalCount, KeyCells, KeyCount
<1> QED
  BY <1>1, <1>4, <1>5 DEF IInv, NoFrameLeft

LEMMA ReplaceInv ==
  ASSUME IInv, NEW ops, Executes(ops), Pushes(Code, frame.pc) = 1,
         NEW value \in Cell, Replace(value)
  PROVE  IInv'
<1> DEFINE below == Below(Pops(Code, frame.pc))
<1>1. TypeOK
  BY DEF IInv
<1>2. below \in Seq(Cell) /\ Len(below) = Depth - Pops(Code, frame.pc)
  BY <1>1, StackEffect, StackCells
<1>3. Append(below, value) \in Seq(Cell) /\ Len(Append(below, value)) <= StackCapacity
  <2>1. Append(below, value) \in Seq(Cell) /\ Len(Append(below, value)) = Len(below) + 1
    BY <1>2, AppendProperties
  <2> QED
    BY <1>1, <1>2, <2>1, StackEffect, StorageAssumption
<1>4. Continue(NextPc, Append(below, value)) /\ UNCHANGED <<globals, keys, output>>
  BY DEF Replace
<1>5. NextPc \in Nat /\ status = "running"
  BY <1>1, Decoded
<1>6. /\ globals' \in [0..GlobalCapacity-1 -> Cell] /\ keys' \in [0..KeyCellCapacity-1 -> Cell]
      /\ output' \in [color : Cell, hasColor : BOOLEAN, executed : Nat]
  BY <1>1, <1>4 DEF TypeOK
<1> QED
  BY <1>3, <1>4, <1>5, <1>6, ContinueInv

LEMMA FrameTypes ==
  /\ NoFrame \in [mode : Mode, key : Nat, inputs : [InputSlot -> Cell],
                  pc : Nat, stack : Seq(Cell), steps : Nat]
  /\ NoInputs \in [InputSlot -> Cell]
  /\ NoOutput \in [color : Cell, hasColor : BOOLEAN, executed : Nat]
  /\ Len(NoFrame.stack) = 0 /\ NoFrame.mode = "init"
  BY CellAssumption, EmptySeq DEF NoFrame, NoInputs, NoOutput, Mode

LEMMA ReturnInv ==
  ASSUME IInv, status = "running", NEW message \in Message, Return(message),
         output' \in [color : Cell, hasColor : BOOLEAN, executed : Nat]
  PROVE  IInv'
<1>1. /\ status' = "idle" /\ error' = message /\ frame' = NoFrame
      /\ UNCHANGED <<program, globals, keys, randomFn>>
  BY DEF Return
<1>2. TypeOK'
  BY <1>1, FrameTypes DEF IInv, TypeOK
<1>3. FitsStorage'
  BY <1>1, FrameTypes, StorageAssumption DEF IInv, FitsStorage, GlobalCount, KeyCells, KeyCount
<1> QED
  BY <1>1, <1>2, <1>3 DEF IInv, NoFrameLeft

-----------------------------------------------------------------------------
(* The values instructions compute are cells *)

LEMMA TruthCell == \A b : Truth(b) \in Cell
  BY CellAssumption DEF Truth

LEMMA BinaryCell ==
  ASSUME NEW op \in BinaryOp, NEW a \in Cell, NEW b \in Cell
  PROVE  BinaryResult(op, a, b) \in Cell
<1>1. CASE op \in ArithOp
  <2>1. FArith(op, a, b) \in Cell /\ Zero \in Cell
    BY <1>1, CellAssumption
  <2>2. BinaryResult(op, a, b) = IF op \in {DIV, MOD} /\ FEq(b, Zero) THEN Zero ELSE FArith(op, a, b)
    BY <1>1 DEF BinaryResult, ArithOp, ADD, SUB, MUL, DIV, MOD, EQ, NE, LT, LE, GT, GE, AND, OR
  <2> QED
    BY <2>1, <2>2
<1>2. CASE op \in {EQ, NE, LT, LE, GT, GE, AND, OR}
  BY <1>2, TruthCell DEF BinaryResult, ArithOp, ADD, SUB, MUL, DIV, MOD, EQ, NE, LT, LE, GT, GE, AND, OR
<1> QED
  BY <1>1, <1>2 DEF BinaryOp

LEMMA UnaryCell ==
  ASSUME NEW op, NEW a \in Cell
  PROVE  UnaryResult(op, a) \in Cell
BY TruthCell, CellAssumption DEF UnaryResult

LEMMA BuiltinCell ==
  ASSUME NEW id \in BuiltinId, NEW args \in [1..4 -> Cell]
  PROVE  BuiltinResult(id, args) \in Cell
<1>1. FBuiltin(id, args) \in Cell
  BY BuiltinAssumption
<1>2. args[1] \in Cell /\ args[2] \in Cell /\ args[3] \in Cell
  OBVIOUS
<1> QED
  BY <1>1, <1>2 DEF BuiltinResult, Clamp

LEMMA Arity == \A id \in BuiltinId : BuiltinArity[id] \in 0..4
BY DEF BuiltinArity, BuiltinId, BUILTIN_ABS, BUILTIN_CLAMP, BUILTIN_DIST, BUILTIN_RGB, BUILTIN_HSV,
  BUILTIN_SQRT, BUILTIN_LERP, BUILTIN_MIN, BUILTIN_MAX, BUILTIN_POW, BUILTIN_RAND

\* A sequence of n cells is a function on 1..n.
LEMMA FourCells ==
  ASSUME NEW s \in Seq(Cell), NEW t \in Seq(Cell), NEW u \in Seq(Cell),
         Len(s) + Len(t) + Len(u) = 4
  PROVE  s \o t \o u \in [1..4 -> Cell]
<1>1. s \o t \in Seq(Cell) /\ Len(s \o t) = Len(s) + Len(t)
  BY ConcatProperties
<1>2. s \o t \o u \in Seq(Cell) /\ Len(s \o t \o u) = 4
  BY <1>1, ConcatProperties
<1> QED
  BY <1>2, LenProperties

LEMMA TwoSeqs ==
  ASSUME NEW s \in Seq(Cell), NEW t \in Seq(Cell), Len(s) + Len(t) = 4
  PROVE  s \o t \in [1..4 -> Cell]
<1>1. s \o t \in Seq(Cell) /\ Len(s \o t) = Len(s) + Len(t)
  BY ConcatProperties
<1> QED
  BY <1>1, LenProperties

LEMMA CellSeq ==
  ASSUME NEW n \in Nat
  PROVE  /\ \A f \in [1..n -> Cell] : f \in Seq(Cell) /\ Len(f) = n
         /\ [i \in 1..n |-> Zero] \in Seq(Cell) /\ Len([i \in 1..n |-> Zero]) = n
<1>1. [i \in 1..n |-> Zero] \in [1..n -> Cell]
  BY CellAssumption
<1> QED
  BY <1>1

LEMMA ArgFramesType ==
  ASSUME TypeOK, Executes({CALL_BUILTIN}), NEW id \in BuiltinId, NEW args \in ArgFrames(id)
  PROVE  args \in [1..4 -> Cell]
<1>1. Argc \in 0..4 /\ Argc \in 0..Depth
  BY Decoded, StackEffect
<1>2. PICK read \in Nat : /\ read = IF BuiltinArity[id] > Argc THEN BuiltinArity[id] ELSE Argc
                          /\ read >= Argc /\ read <= 4 /\ 4 - read \in Nat /\ read - Argc \in Nat
  BY <1>1, Arity
<1>3. Top(Argc) \in Seq(Cell) /\ Len(Top(Argc)) = Argc
  BY <1>1, StackCells
<1>4. PICK unwritten \in [1..read-Argc -> Cell] :
        args = Top(Argc) \o unwritten \o [i \in 1..4-read |-> Zero]
  BY <1>2 DEF ArgFrames
<1>5. unwritten \in Seq(Cell) /\ Len(unwritten) = read - Argc
  BY <1>1, <1>2, CellSeq
<1>6. [i \in 1..4-read |-> Zero] \in Seq(Cell) /\ Len([i \in 1..4-read |-> Zero]) = 4 - read
  BY <1>2, CellSeq
<1>7. Argc + (read - Argc) + (4 - read) = 4
  BY <1>1, <1>2
<1> QED
  BY <1>7, <1>3, <1>4, <1>5, <1>6, FourCells

-----------------------------------------------------------------------------
(* Each instruction preserves the invariant *)

\* The instructions that put one cell in the place of their operands.
OnePush == BinaryOp \cup UnaryOp \cup DirectBuiltinOp
  \cup {PUSH_CONST_F32, LOAD_INPUT, LOAD_GLOBAL, LOAD_KEY, CALL_BUILTIN}

LEMMA OnePushPushes ==
  ASSUME Op \in OnePush PROVE Pushes(Code, frame.pc) = 1
BY DEF Pushes, Op, OnePush, CALL_BUILTIN, PUSH_CONST_F32, LOAD_INPUT, LOAD_GLOBAL, LOAD_KEY, JUMP,
  HALT, STORE_GLOBAL, STORE_KEY, SET_COLOR, JUMP_IF_FALSE, DUP, UnaryOp, NEG, NOT, BinaryOp, ArithOp,
  ADD, SUB, MUL, DIV, MOD, EQ, NE, LT, LE, GT, GE, AND, OR, DirectBuiltinOp, CLAMP, RGB, HSV, DIST

\* How many cells the checks have found on the stack.
LEMMA OperandCells ==
  ASSUME TypeOK, NEW ops, Executes(ops)
  PROVE  /\ Op \in BinaryOp => 2 <= Depth
         /\ Op \in {STORE_GLOBAL, STORE_KEY, SET_COLOR, JUMP_IF_FALSE, DUP} \cup UnaryOp => 1 <= Depth
<1>1. Op \in BinaryOp => Pops(Code, frame.pc) = 2
  BY DEF Pops, Op, CALL_BUILTIN, PUSH_CONST_F32, LOAD_INPUT, LOAD_GLOBAL, LOAD_KEY, JUMP,
    HALT, STORE_GLOBAL, STORE_KEY, SET_COLOR, JUMP_IF_FALSE, DUP, UnaryOp, NEG, NOT, BinaryOp, ArithOp,
    ADD, SUB, MUL, DIV, MOD, EQ, NE, LT, LE, GT, GE, AND, OR, CLAMP, RGB, HSV, DIST
<1>2. Op \in {STORE_GLOBAL, STORE_KEY, SET_COLOR, JUMP_IF_FALSE, DUP} \cup UnaryOp
        => Pops(Code, frame.pc) = 1
  BY DEF Pops, Op, CALL_BUILTIN, PUSH_CONST_F32, LOAD_INPUT, LOAD_GLOBAL, LOAD_KEY, JUMP,
    HALT, STORE_GLOBAL, STORE_KEY, SET_COLOR, JUMP_IF_FALSE, DUP, UnaryOp, NEG, NOT, BinaryOp, ArithOp,
    ADD, SUB, MUL, DIV, MOD, EQ, NE, LT, LE, GT, GE, AND, OR, CLAMP, RGB, HSV, DIST
<1> QED
  BY <1>1, <1>2, StackEffect

LEMMA IndexBound ==
  ASSUME NEW i \in Nat, NEW count \in Nat, NEW capacity \in Nat, i < count, count <= capacity
  PROVE  i \in 0..capacity-1
OBVIOUS

\* An index an instruction passes with lies in the storage.
LEMMA GlobalIndex ==
  ASSUME IInv, Executes({LOAD_GLOBAL, STORE_GLOBAL})
  PROVE  Operand \in 0..GlobalCapacity-1
<1>1. TypeOK /\ FitsStorage
  BY DEF IInv
<1>2. status = "running" /\ Op \in {LOAD_GLOBAL, STORE_GLOBAL} /\ OperandInRange
  BY <1>1, Decoded
<1>3. Operand \in U16
  BY <1>1, <1>2, Decoded DEF EncodedSize
<1>4. Operand < GlobalCount
  BY <1>2, Zenon DEF OperandInRange
<1>5. GlobalCount <= GlobalCapacity
  BY <1>1, <1>2 DEF FitsStorage
<1>6. Operand \in Nat /\ GlobalCount \in Nat /\ GlobalCapacity \in Nat
  <2>1. Operand \in Nat
    BY <1>3, U16Nat
  <2> QED
    BY <1>1, <2>1, CountTypes, StorageAssumption
<1> QED
  BY <1>4, <1>5, <1>6, IndexBound

\* Two rows of one stride do not overlap, and the last one ends at KeyCells.
LEMMA RowBound ==
  ASSUME NEW slots \in Nat, NEW stride \in Nat, NEW k \in Nat, NEW i \in Nat,
         k < slots, i < stride
  PROVE  k * stride + i < stride * slots /\ k * stride \in Nat
<1>1. k * stride \in Nat /\ (k + 1) * stride = k * stride + stride
  BY SMT
<1>2. (k + 1) * stride <= slots * stride
  BY k + 1 <= slots, SMT
<1> QED
  BY <1>1, <1>2, SMT

LEMMA KeyIndex ==
  ASSUME IInv, Executes(KeyOp)
  PROVE  /\ KeyBase + Operand \in 0..KeyCellCapacity-1
         /\ KeyBase \in Nat /\ Operand \in Nat /\ Operand < KeyCount
         /\ frame.mode = "render" /\ frame.key \in 0..KeySlots-1
<1>1. TypeOK /\ FitsStorage
  BY DEF IInv
<1>2. status = "running" /\ Op \in KeyOp /\ OperandInRange /\ Available
  BY <1>1, Decoded
<1>3. Operand \in U16
  BY <1>1, <1>2, Decoded DEF EncodedSize, KeyOp
<1>4. Operand < KeyCount /\ frame.mode = "render"
  BY <1>2, Zenon DEF OperandInRange, Available
<1>5. frame.key < KeySlots /\ KeyCells <= KeyCellCapacity
  BY <1>1, <1>2, <1>4 DEF FitsStorage
<1>6. KeyCount \in Nat /\ frame.key \in Nat /\ KeySlots \in Nat /\ Operand \in Nat
  <2>1. Operand \in Nat
    BY <1>3, U16Nat
  <2>2. frame.key \in Nat
    BY <1>1 DEF TypeOK
  <2> QED
    BY <1>1, <2>1, <2>2, CountTypes, StorageAssumption
<1>7. frame.key * KeyCount + Operand < KeyCount * KeySlots /\ frame.key * KeyCount \in Nat
  BY <1>4, <1>5, <1>6, RowBound
<1> QED
  BY <1>4, <1>5, <1>6, <1>7, StorageAssumption DEF KeyBase, KeyCells

LEMMA ReplaceSteps ==
  ASSUME IInv,
         PushConst \/ LoadInput \/ LoadGlobal \/ LoadKey \/ Binary \/ Unary \/ CallBuiltin \/ DirectBuiltin
  PROVE  IInv'
<1>1. TypeOK
  BY DEF IInv
<1>2. CASE PushConst
  <2>1. Executes({PUSH_CONST_F32}) /\ Replace(program.constants[Operand + 1])
    BY <1>2 DEF PushConst
  <2>2. Op = PUSH_CONST_F32 /\ OperandInRange /\ Operand \in U16
    BY <1>1, <2>1, Decoded DEF EncodedSize
  <2>3. Operand < Len(program.constants)
    BY <2>2, Zenon DEF OperandInRange
  <2>4. Len(program.constants) \in Nat
    BY <1>1, LenProperties DEF TypeOK, Program
  <2>5. program.constants[Operand + 1] \in Cell
    <3>1. Operand \in Nat
      BY <2>2, U16Nat
    <3>2. Operand + 1 \in 1..Len(program.constants)
      BY <2>3, <2>4, <3>1
    <3> QED
      BY <1>1, <3>2, CountTypes
  <2> QED
    BY <2>1, <2>2, <2>5, OnePushPushes, ReplaceInv DEF OnePush
<1>3. CASE LoadInput
  <2>1. Executes({LOAD_INPUT}) /\ Replace(InputValue(ByteAt(Code, frame.pc + 1)))
    BY <1>3 DEF LoadInput
  <2>2. InputValue(ByteAt(Code, frame.pc + 1)) \in Cell
    BY <1>1, CellAssumption DEF InputValue, TypeOK
  <2>3. Op = LOAD_INPUT
    BY <1>1, <2>1, Decoded
  <2> QED
    BY <2>1, <2>2, <2>3, OnePushPushes, ReplaceInv DEF OnePush
<1>4. CASE LoadGlobal
  <2>1. Executes({LOAD_GLOBAL}) /\ Replace(globals[Operand])
    BY <1>4 DEF LoadGlobal
  <2>2. Executes({LOAD_GLOBAL, STORE_GLOBAL})
    BY <2>1 DEF Executes
  <2>3. globals[Operand] \in Cell
    BY <1>1, <2>2, GlobalIndex DEF TypeOK
  <2>4. Op = LOAD_GLOBAL
    BY <1>1, <2>1, Decoded
  <2> QED
    BY <2>1, <2>3, <2>4, OnePushPushes, ReplaceInv DEF OnePush
<1>5. CASE LoadKey
  <2>1. Executes({LOAD_KEY}) /\ Replace(keys[KeyBase + Operand])
    BY <1>5 DEF LoadKey
  <2>2. Executes(KeyOp)
    BY <2>1 DEF Executes, KeyOp
  <2>3. keys[KeyBase + Operand] \in Cell
    BY <1>1, <2>2, KeyIndex DEF TypeOK
  <2>4. Op = LOAD_KEY
    BY <1>1, <2>1, Decoded
  <2> QED
    BY <2>1, <2>3, <2>4, OnePushPushes, ReplaceInv DEF OnePush
<1>6. CASE Binary
  <2>1. /\ Executes(BinaryOp)
        /\ Replace(BinaryResult(Op, frame.stack[Depth - 1], frame.stack[Depth]))
    BY <1>6 DEF Binary
  <2>2. Op \in BinaryOp /\ 2 <= Depth /\ Depth \in Nat
    BY <1>1, <2>1, Decoded, OperandCells, StackCells
  <2>3. frame.stack[Depth - 1] \in Cell /\ frame.stack[Depth] \in Cell
    BY <1>1, <2>2, StackCells
  <2>4. BinaryResult(Op, frame.stack[Depth - 1], frame.stack[Depth]) \in Cell
    BY <2>2, <2>3, BinaryCell
  <2> QED
    BY <2>1, <2>2, <2>4, OnePushPushes, ReplaceInv DEF OnePush
<1>7. CASE Unary
  <2>1. Executes(UnaryOp) /\ Replace(UnaryResult(Op, frame.stack[Depth]))
    BY <1>7 DEF Unary
  <2>2. Op \in UnaryOp /\ 1 <= Depth /\ Depth \in Nat
    BY <1>1, <2>1, Decoded, OperandCells, StackCells
  <2>3. UnaryResult(Op, frame.stack[Depth]) \in Cell
    BY <1>1, <2>2, StackCells, UnaryCell
  <2> QED
    BY <2>1, <2>2, <2>3, OnePushPushes, ReplaceInv DEF OnePush
<1>8. CASE CallBuiltin
  <2> DEFINE id == ByteAt(Code, frame.pc + 1)
  <2>1. /\ Executes({CALL_BUILTIN})
        /\ \E args \in ArgFrames(id) : \E value \in BuiltinOutcomes(id, args) : Replace(value)
    BY <1>8 DEF CallBuiltin
  <2>2. Op = CALL_BUILTIN /\ id \in BuiltinId
    BY <1>1, <2>1, Decoded, StackEffect
  <2>3. PICK args \in ArgFrames(id) : \E value \in BuiltinOutcomes(id, args) : Replace(value)
    BY <2>1
  <2>4. PICK value \in BuiltinOutcomes(id, args) : Replace(value)
    BY <2>3
  <2>5. args \in [1..4 -> Cell]
    BY <1>1, <2>1, <2>2, ArgFramesType
  <2>6. value \in Cell
    <3>1. BuiltinResult(id, args) \in Cell
      BY <2>2, <2>5, BuiltinCell
    <3> QED
      BY <2>4, <3>1, RandomAssumption, CellAssumption DEF BuiltinOutcomes
  <2> QED
    BY <2>1, <2>2, <2>4, <2>6, OnePushPushes, ReplaceInv DEF OnePush
<1>9. CASE DirectBuiltin
  <2> DEFINE id == CASE Op = CLAMP -> BUILTIN_CLAMP [] Op = DIST -> BUILTIN_DIST
                     [] Op = RGB -> BUILTIN_RGB [] Op = HSV -> BUILTIN_HSV
             argc == Pops(Code, frame.pc)
             args == Top(argc) \o [i \in 1..4-argc |-> Zero]
  <2>1. Executes(DirectBuiltinOp) /\ Replace(BuiltinResult(id, args))
    BY <1>9 DEF DirectBuiltin
  <2>2. Op \in DirectBuiltinOp
    BY <1>1, <2>1, Decoded
  <2>3. id \in BuiltinId
    BY <2>2 DEF DirectBuiltinOp, BuiltinId, CLAMP, DIST, RGB, HSV, BUILTIN_CLAMP, BUILTIN_DIST,
      BUILTIN_RGB, BUILTIN_HSV
  <2>4. argc \in 0..Depth /\ argc \in 3..4
    <3>1. argc \in 3..4
      BY <2>2 DEF Pops, Op, DirectBuiltinOp, CALL_BUILTIN, PUSH_CONST_F32, LOAD_INPUT, LOAD_GLOBAL,
        LOAD_KEY, JUMP, HALT, STORE_GLOBAL, STORE_KEY, SET_COLOR, JUMP_IF_FALSE, DUP, UnaryOp, NEG,
        NOT, BinaryOp, ArithOp, ADD, SUB, MUL, DIV, MOD, EQ, NE, LT, LE, GT, GE, AND, OR, CLAMP,
        RGB, HSV, DIST
    <3> QED
      BY <1>1, <2>1, <3>1, StackEffect
  <2> HIDE DEF argc, id
  <2>5. Top(argc) \in Seq(Cell) /\ Len(Top(argc)) = argc
    BY <1>1, <2>4, StackCells
  <2>6. [i \in 1..4-argc |-> Zero] \in Seq(Cell) /\ Len([i \in 1..4-argc |-> Zero]) = 4 - argc
    <3>1. 4 - argc \in Nat
      BY <2>4
    <3> QED
      BY <3>1, CellSeq
  <2>7. argc + (4 - argc) = 4
    BY <2>4
  <2>8. args \in [1..4 -> Cell]
    BY <2>5, <2>6, <2>7, TwoSeqs
  <2> HIDE DEF args
  <2>9. BuiltinResult(id, args) \in Cell
    BY <2>3, <2>8, BuiltinCell
  <2> QED
    BY <2>1, <2>2, <2>9, OnePushPushes, ReplaceInv DEF OnePush
<1> QED
  BY <1>2, <1>3, <1>4, <1>5, <1>6, <1>7, <1>8, <1>9

\* The instructions that only shorten the stack or jump.
LEMMA PopSteps ==
  ASSUME IInv, StoreGlobal \/ StoreKey \/ SetColor \/ Jump \/ JumpIfFalse
  PROVE  IInv'
<1>1. TypeOK /\ FitsStorage
  BY DEF IInv
<1>2. Depth \in Nat /\ (status = "running" => Depth <= StackCapacity)
  BY <1>1, StackCells DEF FitsStorage
<1>3. ASSUME 1 <= Depth, status = "running"
      PROVE  /\ Below(1) \in Seq(Cell) /\ Len(Below(1)) <= StackCapacity
             /\ frame.stack[Depth] \in Cell
  <2>1. Below(1) \in Seq(Cell) /\ Len(Below(1)) = Depth - 1
    BY <1>1, <1>2, <1>3, StackCells
  <2>2. Depth - 1 <= StackCapacity
    BY <1>2, <1>3, StorageAssumption
  <2>3. frame.stack[Depth] \in Cell
    <3>1. Depth \in 1..Depth
      BY <1>2, <1>3
    <3> QED
      BY <1>1, <3>1, StackCells
  <2> QED
    BY <2>1, <2>2, <2>3
<1>4. /\ globals \in [0..GlobalCapacity-1 -> Cell]
      /\ keys \in [0..KeyCellCapacity-1 -> Cell]
      /\ output \in [color : Cell, hasColor : BOOLEAN, executed : Nat]
  BY <1>1 DEF TypeOK
<1>5. CASE StoreGlobal
  <2>1. /\ Executes({STORE_GLOBAL})
        /\ globals' = [globals EXCEPT ![Operand] = frame.stack[Depth]]
        /\ Continue(NextPc, Below(1))
        /\ UNCHANGED <<keys, output>>
    BY <1>5 DEF StoreGlobal
  <2>2. Op = STORE_GLOBAL /\ status = "running" /\ NextPc \in Nat /\ 1 <= Depth
    BY <1>1, <2>1, Decoded, OperandCells
  <2>3. globals' \in [0..GlobalCapacity-1 -> Cell]
    BY <1>3, <1>4, <2>1, <2>2
  <2> QED
    BY <1>3, <1>4, <2>1, <2>2, <2>3, ContinueInv
<1>6. CASE StoreKey
  <2>1. /\ Executes({STORE_KEY})
        /\ keys' = [keys EXCEPT ![KeyBase + Operand] = frame.stack[Depth]]
        /\ Continue(NextPc, Below(1))
        /\ UNCHANGED <<globals, output>>
    BY <1>6 DEF StoreKey
  <2>2. Op = STORE_KEY /\ status = "running" /\ NextPc \in Nat /\ 1 <= Depth
    BY <1>1, <2>1, Decoded, OperandCells
  <2>3. keys' \in [0..KeyCellCapacity-1 -> Cell]
    BY <1>3, <1>4, <2>1, <2>2
  <2> QED
    BY <1>3, <1>4, <2>1, <2>2, <2>3, ContinueInv
<1>7. CASE SetColor
  <2>1. /\ Executes({SET_COLOR})
        /\ output' = [output EXCEPT !.color = frame.stack[Depth], !.hasColor = TRUE]
        /\ Continue(NextPc, Below(1))
        /\ UNCHANGED <<globals, keys>>
    BY <1>7 DEF SetColor
  <2>2. Op = SET_COLOR /\ status = "running" /\ NextPc \in Nat /\ 1 <= Depth
    BY <1>1, <2>1, Decoded, OperandCells
  <2>3. output' \in [color : Cell, hasColor : BOOLEAN, executed : Nat]
    BY <1>3, <1>4, <2>1, <2>2
  <2> QED
    BY <1>3, <1>4, <2>1, <2>2, <2>3, ContinueInv
<1>8. CASE Jump
  <2>1. /\ Executes({JUMP}) /\ Continue(Operand, frame.stack)
        /\ UNCHANGED <<globals, keys, output>>
    BY <1>8 DEF Jump
  <2>2. status = "running" /\ Operand \in U16
    BY <1>1, <2>1, Decoded DEF EncodedSize
  <2>3. Operand \in Nat
    BY <2>2, U16Nat
  <2>4. frame.stack \in Seq(Cell) /\ Len(frame.stack) <= StackCapacity
    BY <1>1, <1>2, <2>2, StackCells
  <2> QED
    BY <1>4, <2>1, <2>2, <2>3, <2>4, ContinueInv
<1>9. CASE JumpIfFalse
  <2>1. /\ Executes({JUMP_IF_FALSE})
        /\ Continue(IF JumpTaken THEN Operand ELSE NextPc, Below(1))
        /\ UNCHANGED <<globals, keys, output>>
    BY <1>9 DEF JumpIfFalse
  <2>2. Op = JUMP_IF_FALSE /\ status = "running" /\ Operand \in U16 /\ NextPc \in Nat /\ 1 <= Depth
    BY <1>1, <2>1, Decoded, OperandCells DEF EncodedSize
  <2>3. (IF JumpTaken THEN Operand ELSE NextPc) \in Nat
    <3>1. Operand \in Nat
      BY <2>2, U16Nat
    <3> QED
      BY <2>2, <3>1
  <2> QED
    BY <1>3, <1>4, <2>1, <2>2, <2>3, ContinueInv
<1> QED
  BY <1>5, <1>6, <1>7, <1>8, <1>9

LEMMA DupStep ==
  ASSUME IInv, Dup
  PROVE  IInv'
<1>1. TypeOK
  BY DEF IInv
<1>2. /\ Executes({DUP}) /\ Continue(NextPc, Append(frame.stack, frame.stack[Depth]))
      /\ UNCHANGED <<globals, keys, output>>
  BY DEF Dup
<1>3. Op = DUP /\ status = "running" /\ NextPc \in Nat /\ 1 <= Depth
  BY <1>1, <1>2, Decoded, OperandCells
<1>4. frame.stack \in Seq(Cell) /\ Depth = Len(frame.stack) /\ Depth \in Nat
      /\ frame.stack[Depth] \in Cell
  BY <1>1, <1>3, StackCells
<1>5. Depth + 1 <= StackCapacity
  <2>1. Pushes(Code, frame.pc) = 2 /\ Pops(Code, frame.pc) = 1
    BY <1>3 DEF Pushes, Pops, Op, CALL_BUILTIN, PUSH_CONST_F32, LOAD_INPUT, LOAD_GLOBAL, LOAD_KEY,
      JUMP, HALT, STORE_GLOBAL, STORE_KEY, SET_COLOR, JUMP_IF_FALSE, DUP, UnaryOp, NEG, NOT,
      BinaryOp, ArithOp, ADD, SUB, MUL, DIV, MOD, EQ, NE, LT, LE, GT, GE, AND, OR, CLAMP, RGB,
      HSV, DIST
  <2> QED
    BY <1>1, <1>2, <2>1, StackEffect
<1>6. /\ Append(frame.stack, frame.stack[Depth]) \in Seq(Cell)
      /\ Len(Append(frame.stack, frame.stack[Depth])) <= StackCapacity
  BY <1>4, <1>5, AppendProperties
<1>7. /\ globals' \in [0..GlobalCapacity-1 -> Cell] /\ keys' \in [0..KeyCellCapacity-1 -> Cell]
      /\ output' \in [color : Cell, hasColor : BOOLEAN, executed : Nat]
  BY <1>1, <1>2 DEF TypeOK
<1> QED
  BY <1>2, <1>3, <1>6, <1>7, ContinueInv

\* The ways a call returns.
LEMMA ReturnSteps ==
  ASSUME IInv, Halt \/ Trap \/ FallOff \/ SqrtDomainError
  PROVE  IInv'
<1>1. /\ output \in [color : Cell, hasColor : BOOLEAN, executed : Nat]
      /\ frame.steps \in Nat
  BY DEF IInv, TypeOK
<1>2. Fault \in Message
  BY DEF Fault, NoError, Message, RunMessage
<1>3. CASE Halt
  <2>1. status = "running" /\ Return(NoError) /\ output' = [output EXCEPT !.executed = frame.steps + 1]
    BY <1>3 DEF Halt, Executes, Executing
  <2>2. output' \in [color : Cell, hasColor : BOOLEAN, executed : Nat]
    <3>1. frame.steps + 1 \in Nat
      BY <1>1
    <3> QED
      BY <1>1, <2>1, <3>1
  <2>3. NoError \in Message
    BY DEF Message
  <2> QED
    BY <2>1, <2>2, <2>3, ReturnInv
<1>4. CASE Trap
  BY <1>1, <1>2, <1>4, ReturnInv DEF Trap, Executing
<1>5. CASE FallOff
  <2>1. "program terminated without halt" \in Message
    BY DEF Message, RunMessage
  <2> QED
    BY <1>1, <1>5, <2>1, ReturnInv DEF FallOff
<1>6. CASE SqrtDomainError
  <2>1. "sqrt expects non-negative input" \in Message
    BY DEF Message, RunMessage
  <2> QED
    BY <1>1, <1>6, <2>1, ReturnInv DEF SqrtDomainError, Executing
<1> QED
  BY <1>3, <1>4, <1>5, <1>6

-----------------------------------------------------------------------------
(* Each host call preserves the invariant *)

LEMMA ResetTypes ==
  ASSUME TypeOK
  PROVE  ResetGlobals \in [0..GlobalCapacity-1 -> Cell] /\ ResetKeys \in [0..KeyCellCapacity-1 -> Cell]
<1>1. ASSUME NEW i \in 0..GlobalCapacity-1, i < GlobalCount
      PROVE  program.initialGlobals[i + 1] \in Cell
  BY <1>1, CountTypes, StorageAssumption
<1>2. ASSUME NEW c \in 0..KeyCellCapacity-1, c < KeyCells
      PROVE  program.initialKeys[(c % KeyCount) + 1] \in Cell
  <2>1. KeyCount \in Nat /\ KeyCount # 0
    <3>1. KeyCount = 0 => KeyCells = 0
      BY StorageAssumption DEF KeyCells
    <3> QED
      BY <1>2, <3>1, CountTypes, StorageAssumption
  <2>2. c % KeyCount \in 0..KeyCount-1
    BY <2>1, StorageAssumption
  <2> QED
    BY <2>1, <2>2, CountTypes
<1>3. globals \in [0..GlobalCapacity-1 -> Cell] /\ keys \in [0..KeyCellCapacity-1 -> Cell]
  BY DEF TypeOK
<1> QED
  BY <1>1, <1>2, <1>3 DEF ResetGlobals, ResetKeys

LEMMA InitStateStep ==
  ASSUME IInv, InitState
  PROVE  IInv'
<1>1. TypeOK /\ FitsStorage /\ NoFrameLeft /\ InitStateFault \in Message
  BY DEF IInv, InitStateFault, Message, InitMessage
<1>2. /\ status # "running" /\ error' = InitStateFault
      /\ UNCHANGED <<program, frame, output>>
      /\ \/ /\ InitStateFault = NoError /\ status' = "idle" /\ randomFn' = FALSE
            /\ globals' = ResetGlobals /\ keys' = ResetKeys
         \/ UNCHANGED <<status, randomFn, globals, keys>>
  BY DEF InitState
<1>3. TypeOK'
  BY <1>1, <1>2, ResetTypes DEF TypeOK
<1>4. frame' = NoFrame /\ status' # "running"
  BY <1>1, <1>2 DEF NoFrameLeft
<1>5. FitsStorage'
  <2>1. CASE UNCHANGED <<status, randomFn, globals, keys>>
    BY <1>1, <1>2, <2>1 DEF FitsStorage, GlobalCount, KeyCells, KeyCount
  <2>2. CASE InitStateFault = NoError
    <3>1. /\ ~ (GlobalCount > GlobalCapacity) /\ ~ (KeyCells > KeyCellCapacity)
          /\ ~ (program.maxStack > StackCapacity)
      BY <2>2 DEF InitStateFault, NoError
    <3>2. GlobalCount \in Nat /\ KeyCells \in Nat /\ program.maxStack \in Nat
      <4>1. program.maxStack \in U16
        BY <1>1 DEF TypeOK, Program
      <4>2. program.maxStack \in Nat
        BY <4>1, U16Nat
      <4> QED
        BY <1>1, <4>2, CountTypes
    <3>3. /\ GlobalCount <= GlobalCapacity /\ KeyCells <= KeyCellCapacity
          /\ program.maxStack <= StackCapacity
      BY <3>1, <3>2, StorageAssumption
    <3> QED
      BY <1>2, <1>4, <3>3, FrameTypes, StorageAssumption
      DEF FitsStorage, GlobalCount, KeyCells, KeyCount
  <2> QED
    BY <1>2, <2>1, <2>2
<1> QED
  BY <1>3, <1>4, <1>5 DEF IInv, NoFrameLeft

LEMMA EnterInv ==
  ASSUME IInv, NEW mode \in Mode, NEW key \in Nat, NEW inputs \in [InputSlot -> Cell],
         mode = "render" => key < KeySlots, Enter(mode, key, inputs)
  PROVE  IInv'
<1>1. /\ status = "idle" /\ status' = "running"
      /\ frame' = [NoFrame EXCEPT !.mode = mode, !.key = key, !.inputs = inputs]
      /\ output' = NoOutput
      /\ UNCHANGED <<program, globals, keys, randomFn, error>>
  BY DEF Enter
<1>2. frame' = [mode |-> mode, key |-> key, inputs |-> inputs,
                pc |-> 0, stack |-> << >>, steps |-> 0]
  BY <1>1 DEF NoFrame
<1>3. << >> \in Seq(Cell) /\ Len(<< >>) = 0
  BY EmptySeq
<1>4. TypeOK'
  <2>1. frame' \in [mode : Mode, key : Nat, inputs : [InputSlot -> Cell],
                    pc : Nat, stack : Seq(Cell), steps : Nat]
    BY <1>2, <1>3
  <2> QED
    BY <1>1, <2>1, FrameTypes DEF IInv, TypeOK
<1>5. FitsStorage'
  <2>1. frame'.mode = mode /\ frame'.key = key /\ Len(frame'.stack) = 0
    BY <1>2, <1>3
  <2> QED
    BY <1>1, <2>1, StorageAssumption DEF IInv, FitsStorage, GlobalCount, KeyCells, KeyCount
<1> QED
  BY <1>1, <1>4, <1>5 DEF IInv, NoFrameLeft

LEMMA HostCalls ==
  ASSUME IInv, HostCall
  PROVE  IInv'
<1>1. CASE InitState
  BY <1>1, InitStateStep
<1>2. CASE ResetState
  <2>1. /\ globals' = ResetGlobals /\ keys' = ResetKeys
        /\ UNCHANGED <<program, status, randomFn, frame, output, error>>
    BY <1>2 DEF ResetState
  <2>2. TypeOK'
    BY <2>1, ResetTypes DEF IInv, TypeOK
  <2> QED
    BY <2>1, <2>2 DEF IInv, FitsStorage, NoFrameLeft, GlobalCount, KeyCells, KeyCount
<1>3. ASSUME NEW installed \in BOOLEAN, SetRandom(installed) PROVE IInv'
  <2>1. /\ randomFn' \in BOOLEAN
        /\ UNCHANGED <<program, status, globals, keys, frame, output, error>>
    BY <1>3 DEF SetRandom
  <2> QED
    BY <2>1 DEF IInv, TypeOK, FitsStorage, NoFrameLeft, GlobalCount, KeyCells, KeyCount
<1>4. CASE RunInit
  <2>1. Enter("init", 0, NoInputs) /\ "init" \in Mode /\ 0 \in Nat /\ "init" # "render"
    BY <1>4 DEF RunInit, Mode
  <2> QED
    BY <2>1, EnterInv, FrameTypes
<1>5. ASSUME NEW inputs \in Inputs, RunUpdate(inputs) PROVE IInv'
  <2>1. /\ Enter("update", 0, inputs) /\ "update" \in Mode /\ 0 \in Nat /\ "update" # "render"
        /\ inputs \in [InputSlot -> Cell]
    BY <1>5, InputAssumption DEF RunUpdate, Mode
  <2> QED
    BY <2>1, EnterInv
<1>6. ASSUME NEW key \in 0..KeySlots, NEW inputs \in Inputs, RunRender(key, inputs) PROVE IInv'
  <2>1. /\ Enter("render", key, inputs) /\ key < KeySlots /\ "render" \in Mode /\ key \in Nat
        /\ inputs \in [InputSlot -> Cell]
    BY <1>6, InputAssumption, StorageAssumption DEF RunRender, Mode
  <2> QED
    BY <2>1, EnterInv
<1>7. ASSUME NEW key \in 0..KeySlots, RunRenderBadKey(key) PROVE IInv'
  <2>1. /\ error' = "key index out of range"
        /\ UNCHANGED <<program, status, globals, keys, randomFn, frame, output>>
    BY <1>7 DEF RunRenderBadKey
  <2>2. "key index out of range" \in Message
    BY DEF Message, RunMessage
  <2> QED
    BY <2>1, <2>2 DEF IInv, TypeOK, FitsStorage, NoFrameLeft, GlobalCount, KeyCells, KeyCount
<1> QED
  BY <1>1, <1>2, <1>3, <1>4, <1>5, <1>6, <1>7 DEF HostCall

LEMMA InitInv == Init => IInv
<1> SUFFICES ASSUME Init PROVE IInv
  OBVIOUS
<1>1. PICK c \in {Zero, One} : /\ globals = [i \in 0..GlobalCapacity-1 |-> c]
                               /\ keys = [i \in 0..KeyCellCapacity-1 |-> c]
  BY DEF Init, Uncreated
<1>2. globals \in [0..GlobalCapacity-1 -> Cell] /\ keys \in [0..KeyCellCapacity-1 -> Cell]
  BY <1>1, CellAssumption
<1>3. /\ program \in Program /\ status = "uncreated" /\ randomFn = FALSE /\ frame = NoFrame
      /\ output = NoOutput /\ error \in Message
  BY ProgramAssumption DEF Init, Uncreated, Message
<1>4. TypeOK
  BY <1>2, <1>3, FrameTypes DEF TypeOK
<1> QED
  BY <1>3, <1>4 DEF IInv, FitsStorage, NoFrameLeft

LEMMA NextInv == IInv /\ [Next]_vars => IInv'
<1> SUFFICES ASSUME IInv, [Next]_vars PROVE IInv'
  OBVIOUS
<1>1. CASE Step
  BY <1>1, ReplaceSteps, PopSteps, DupStep, ReturnSteps DEF Step
<1>2. CASE HostCall
  BY <1>2, HostCalls
<1>3. CASE UNCHANGED vars
  BY <1>3 DEF vars, IInv, TypeOK, FitsStorage, NoFrameLeft, GlobalCount, KeyCells, KeyCount
<1> QED
  BY <1>1, <1>2, <1>3 DEF Next

\* What MemorySafe asks of one state follows from the invariant.
LEMMA InvMemorySafe == IInv => MemorySafe
<1> SUFFICES ASSUME IInv PROVE MemorySafe
  OBVIOUS
<1>1. TypeOK
  BY DEF IInv
<1>2. ASSUME Executes(KeyOp)
      PROVE  /\ KeyBase + Operand \in 0..KeyCellCapacity-1
             /\ KeyBase <= KeyBase + Operand /\ KeyBase + Operand < KeyBase + KeyCount
  <2>1. KeyBase \in Nat /\ Operand \in Nat /\ Operand < KeyCount /\ KeyCount \in Nat
    BY <1>1, <1>2, KeyIndex, CountTypes
  <2> QED
    BY <1>2, <2>1, KeyIndex
<1>3. ASSUME Executes({PUSH_CONST_F32})
      PROVE  Operand + 1 \in DOMAIN program.constants
  <2>1. Op = PUSH_CONST_F32 /\ OperandInRange /\ Operand \in U16
    BY <1>1, <1>3, Decoded DEF EncodedSize
  <2>2. Operand < Len(program.constants)
    BY <2>1, Zenon DEF OperandInRange
  <2>3. Len(program.constants) \in Nat /\ DOMAIN program.constants = 1..Len(program.constants)
    BY <1>1, LenProperties DEF TypeOK, Program
  <2>4. Operand \in Nat
    BY <2>1, U16Nat
  <2> QED
    BY <2>2, <2>3, <2>4
<1>4. ASSUME Executes(Opcode)
      PROVE  Depth >= Pops(Code, frame.pc) /\ Depth + StackDelta(Code, frame.pc) <= StackCapacity
  BY <1>1, <1>4, StackEffect
<1> QED
  BY <1>2, <1>3, <1>4, GlobalIndex DEF MemorySafe

LEMMA Invariance == Spec => []IInv
BY InitInv, NextInv, PTL DEF Spec

\* Every variable of the machine keeps its type (lumi_vm_state, lumi_vm_output and
\* the locals of execute_section), whatever program is loaded.
THEOREM TypeCorrect == Spec => []TypeOK
<1>1. IInv => TypeOK
  BY DEF IInv
<1> QED
  BY <1>1, Invariance, PTL

\* A state is only ever created over storage that holds it, and the stack of a
\* running call never outgrows the caller's array (lumi_vm_init_state, push).
THEOREM StorageFits == Spec => []FitsStorage
<1>1. IInv => FitsStorage
  BY DEF IInv
<1> QED
  BY <1>1, Invariance, PTL

\* No bytecode, valid or not, makes execute_section read or write outside the
\* caller's arrays or the row of the key it renders.
THEOREM AccessSafe == Spec => []MemorySafe
BY Invariance, InvMemorySafe, PTL

-----------------------------------------------------------------------------
(* The layout of the key storage *)

\* Cell i of the row of key k is at k * stride + i, and nowhere else.
LEMMA Layout ==
  ASSUME NEW stride \in Nat, NEW k \in Nat, NEW i \in 0..stride-1
  PROVE  (k * stride + i) % stride = i /\ (k * stride + i) \div stride = k
<1> DEFINE cell == k * stride + i
           quotient == cell \div stride
           rest == cell % stride
<1>1. stride > 0 /\ k * stride \in Nat /\ cell \in Nat
  BY SMT
<1>2. quotient \in Int /\ rest \in 0..stride-1 /\ cell = stride * quotient + rest
  <2> HIDE DEF cell
  <2> QED
    BY <1>1
<1> HIDE DEF quotient, rest
<1>3. CASE quotient <= k - 1
  <2>1. stride * quotient <= stride * (k - 1) /\ stride * (k - 1) = k * stride - stride
    BY <1>1, <1>2, <1>3
  <2> QED
    BY <1>1, <1>2, <2>1
<1>4. CASE quotient >= k + 1
  <2>1. stride * quotient >= stride * (k + 1) /\ stride * (k + 1) = k * stride + stride
    BY <1>1, <1>2, <1>4
  <2> QED
    BY <1>1, <1>2, <2>1
<1>5. CASE quotient = k
  BY <1>1, <1>2, <1>5 DEF quotient, rest
<1> QED
  BY <1>2, <1>3, <1>4, <1>5

\* The program's cells lie in the caller's storage.
StorageHolds == GlobalCount <= GlobalCapacity /\ KeyCells <= KeyCellCapacity

LEMMA RowCell ==
  ASSUME TypeOK, StorageHolds, NEW k \in 0..KeySlots-1, NEW i \in 1..KeyCount
  PROVE  /\ k * KeyCount + i - 1 \in 0..KeyCellCapacity-1
         /\ k * KeyCount + i - 1 < KeyCells
         /\ (k * KeyCount + i - 1) % KeyCount = i - 1
         /\ (k * KeyCount + i - 1) \div KeyCount = k
<1>1. KeyCount \in Nat /\ KeySlots \in Nat /\ KeyCells \in Nat /\ KeyCellCapacity \in Nat
  BY CountTypes, StorageAssumption
<1>2. k \in Nat /\ k < KeySlots /\ i - 1 \in Nat /\ i - 1 < KeyCount /\ i - 1 \in 0..KeyCount-1
  BY <1>1
<1>3. k * KeyCount + (i - 1) < KeyCount * KeySlots /\ k * KeyCount \in Nat
  BY <1>1, <1>2, RowBound
<1>4. (k * KeyCount + (i - 1)) % KeyCount = i - 1 /\ (k * KeyCount + (i - 1)) \div KeyCount = k
  BY <1>1, <1>2, Layout
<1>5. KeyCells <= KeyCellCapacity /\ KeyCells = KeyCount * KeySlots
  BY DEF StorageHolds, KeyCells
<1>6. k * KeyCount + (i - 1) = k * KeyCount + i - 1
  BY <1>2, <1>3
<1> HIDE DEF KeyCells
<1> QED
  BY <1>1, <1>2, <1>3, <1>4, <1>5, <1>6

LEMMA GlobalCell ==
  ASSUME TypeOK, StorageHolds, NEW i \in 1..GlobalCount
  PROVE  i - 1 \in 0..GlobalCapacity-1 /\ i - 1 < GlobalCount
<1>1. GlobalCount \in Nat /\ GlobalCapacity \in Nat /\ GlobalCount <= GlobalCapacity
  BY CountTypes, StorageAssumption DEF StorageHolds
<1> QED
  BY <1>1

-----------------------------------------------------------------------------
(* The steps of the abstract state *)

\* No section is called "none".
LEMMA CallTells ==
  ASSUME TypeOK
  PROVE  /\ status = "running" =>
              StoredCall # Store!Nobody /\ StoredCall.mode = frame.mode /\ StoredCall.key = frame.key
         /\ status # "running" => StoredCall = Store!Nobody
<1>1. frame.mode # "none"
  BY DEF TypeOK, Mode
<1> QED
  BY <1>1 DEF StoredCall, Store!Nobody

LEMMA SameStore ==
  ASSUME UNCHANGED <<program, status, globals, keys>>, output'.hasColor = output.hasColor,
         frame'.mode = frame.mode, frame'.key = frame.key
  PROVE  UNCHANGED Store!storeVars
BY DEF Store!storeVars, StoredImage, StoredGlobals, StoredRows, StoredCall, Created, GlobalCount, KeyCount

LEMMA RestoreStep ==
  ASSUME IInv, FitsStorage', status # "running", status' = "idle",
         globals' = ResetGlobals, keys' = ResetKeys, UNCHANGED <<program, frame, output>>
  PROVE  Store!Restore
<1>1. TypeOK
  BY DEF IInv
<1>2. StorageHolds
  BY DEF FitsStorage, StorageHolds, GlobalCount, KeyCells, KeyCount
<1>3. StoredGlobals' = program.initialGlobals
  <2>1. StoredGlobals' = [i \in 1..GlobalCount |-> ResetGlobals[i - 1]]
    BY DEF StoredGlobals, Created, GlobalCount
  <2>2. ASSUME NEW i \in 1..GlobalCount PROVE ResetGlobals[i - 1] = program.initialGlobals[i]
    <3>1. i - 1 \in 0..GlobalCapacity-1 /\ i - 1 < GlobalCount /\ i - 1 + 1 = i
      BY <1>1, <1>2, GlobalCell, CountTypes
    <3> QED
      BY <3>1 DEF ResetGlobals
  <2>3. program.initialGlobals = [i \in 1..GlobalCount |-> program.initialGlobals[i]]
    BY <1>1, LenProperties DEF TypeOK, Program, GlobalCount
  <2> QED
    BY <2>1, <2>2, <2>3
<1>4. StoredRows' = [k \in 0..KeySlots-1 |-> program.initialKeys]
  <2>1. StoredRows' = [k \in 0..KeySlots-1 |-> [i \in 1..KeyCount |-> ResetKeys[k * KeyCount + i - 1]]]
    BY DEF StoredRows, Created, KeyCount
  <2>2. ASSUME NEW k \in 0..KeySlots-1, NEW i \in 1..KeyCount
        PROVE  ResetKeys[k * KeyCount + i - 1] = program.initialKeys[i]
    <3> DEFINE c == k * KeyCount + i - 1
    <3>1. c \in 0..KeyCellCapacity-1 /\ c < KeyCells /\ c % KeyCount = i - 1
      BY <1>1, <1>2, RowCell
    <3> HIDE DEF c
    <3>2. ResetKeys[c] = program.initialKeys[(c % KeyCount) + 1]
      BY <3>1 DEF ResetKeys
    <3>3. i - 1 + 1 = i
      BY <1>1, CountTypes
    <3> QED
      BY <3>1, <3>2, <3>3 DEF c
  <2>3. program.initialKeys = [i \in 1..KeyCount |-> program.initialKeys[i]]
    BY <1>1, LenProperties DEF TypeOK, Program, KeyCount
  <2>4. ASSUME NEW k \in 0..KeySlots-1
        PROVE  [i \in 1..KeyCount |-> ResetKeys[k * KeyCount + i - 1]] = program.initialKeys
    BY <2>2, <2>3
  <2> QED
    BY <2>1, <2>4
<1>5. StoredCall = Store!Nobody /\ StoredCall' = StoredCall
  BY <1>1, CallTells DEF StoredCall
<1>6. Created' = TRUE /\ StoredImage' = StoredImage
  BY DEF Created, StoredImage
<1>7. StoredImage.globals = program.initialGlobals /\ StoredImage.row = program.initialKeys
  BY DEF StoredImage
<1> QED
  BY <1>3, <1>4, <1>5, <1>6, <1>7 DEF Store!Restore, Store!Fresh

LEMMA BeginStep ==
  ASSUME IInv, NEW mode \in Mode, NEW key \in 0..KeySlots, NEW inputs, Enter(mode, key, inputs),
         mode # "render" => key = 0, mode = "render" => key < KeySlots
  PROVE  Store!Begin(mode, key)
<1>1. /\ status = "idle" /\ status' = "running"
      /\ frame' = [NoFrame EXCEPT !.mode = mode, !.key = key, !.inputs = inputs]
      /\ output' = NoOutput
      /\ UNCHANGED <<program, globals, keys>>
  BY DEF Enter
<1>2. StoredCall = Store!Nobody
  BY <1>1, CallTells DEF IInv
<1>3. StoredCall' = [mode |-> mode, key |-> key] /\ output'.hasColor = FALSE
  BY <1>1 DEF StoredCall, NoFrame, NoOutput
<1>4. Created /\ UNCHANGED <<StoredImage, Created, StoredGlobals, StoredRows>>
  BY <1>1 DEF Created, StoredImage, StoredGlobals, StoredRows, GlobalCount, KeyCount
<1> QED
  BY <1>2, <1>3, <1>4 DEF Store!Begin

LEMMA EndStep ==
  ASSUME IInv, status = "running", NEW message, Return(message), output'.hasColor = output.hasColor
  PROVE  Store!End
<1>1. status' = "idle" /\ UNCHANGED <<program, globals, keys>>
  BY DEF Return
<1>2. StoredCall # Store!Nobody
  BY CallTells DEF IInv
<1>3. StoredCall' = Store!Nobody
  BY <1>1 DEF StoredCall, Store!Nobody
<1>4. UNCHANGED <<StoredImage, Created, StoredGlobals, StoredRows>>
  BY <1>1 DEF Created, StoredImage, StoredGlobals, StoredRows, GlobalCount, KeyCount
<1> QED
  BY <1>2, <1>3, <1>4 DEF Store!End

\* An instruction that goes on leaves the call what it is.
LEMMA ContinueCall ==
  ASSUME TypeOK, NEW pc, NEW stack, Continue(pc, stack)
  PROVE  /\ frame'.mode = frame.mode /\ frame'.key = frame.key
         /\ UNCHANGED <<program, status, StoredImage, Created, StoredCall>>
<1>1. frame'.mode = frame.mode /\ frame'.key = frame.key /\ UNCHANGED <<program, status>>
  BY DEF Continue, TypeOK
<1> QED
  BY <1>1 DEF StoredImage, Created, StoredCall

\* The instructions without effect on the store: all but the two stores and SET_COLOR.
LEMMA QuietSteps ==
  ASSUME IInv,
         PushConst \/ LoadInput \/ LoadGlobal \/ LoadKey \/ Binary \/ Unary \/ CallBuiltin
           \/ DirectBuiltin \/ Dup \/ Jump \/ JumpIfFalse
  PROVE  UNCHANGED Store!storeVars
<1>1. PICK pc, stack : Continue(pc, stack) /\ UNCHANGED <<globals, keys, output>>
  BY Zenon DEF PushConst, LoadInput, LoadGlobal, LoadKey, Binary, Unary, CallBuiltin, DirectBuiltin,
    Dup, Jump, JumpIfFalse, Replace
<1> QED
  BY <1>1, ContinueCall, SameStore DEF IInv

LEMMA StoreGlobalStep ==
  ASSUME IInv, StoreGlobal
  PROVE  Store!WriteGlobal
<1>1. TypeOK
  BY DEF IInv
<1>2. /\ Executes({STORE_GLOBAL})
      /\ globals' = [globals EXCEPT ![Operand] = frame.stack[Depth]]
      /\ Continue(NextPc, Below(1)) /\ UNCHANGED <<keys, output>>
  BY DEF StoreGlobal
<1>3. status = "running" /\ Op = STORE_GLOBAL /\ OperandInRange /\ Operand \in U16 /\ 1 <= Depth
  BY <1>1, <1>2, Decoded, OperandCells DEF EncodedSize
<1>4. Operand < GlobalCount /\ Operand \in Nat
  <2>1. Operand < GlobalCount
    BY <1>3, Zenon DEF OperandInRange
  <2> QED
    BY <1>3, <2>1, U16Nat
<1>5. frame.stack[Depth] \in Cell
  BY <1>1, <1>3, StackCells
<1>6. /\ GlobalCount \in Nat
      /\ StorageHolds
  BY <1>1, <1>3, CountTypes DEF IInv, FitsStorage, StorageHolds
<1>7. Created /\ UNCHANGED <<program, status, StoredImage, Created, StoredCall>>
  BY <1>1, <1>2, <1>3, ContinueCall DEF Created
<1>8. StoredGlobals' = [StoredGlobals EXCEPT ![Operand + 1] = frame.stack[Depth]]
  <2>1. /\ StoredGlobals = [i \in 1..GlobalCount |-> globals[i - 1]]
        /\ StoredGlobals' = [i \in 1..GlobalCount |-> globals'[i - 1]]
    BY <1>7 DEF StoredGlobals, GlobalCount
  <2>2. ASSUME NEW i \in 1..GlobalCount
        PROVE  globals'[i - 1] = IF i = Operand + 1 THEN frame.stack[Depth] ELSE globals[i - 1]
    <3>1. i - 1 \in 0..GlobalCapacity-1 /\ (i - 1 = Operand <=> i = Operand + 1)
      BY <1>1, <1>4, <1>6, GlobalCell
    <3>2. globals \in [0..GlobalCapacity-1 -> Cell]
      BY <1>1 DEF TypeOK
    <3> QED
      BY <1>2, <3>1, <3>2
  <2> QED
    BY <2>1, <2>2
<1>9. Operand + 1 \in DOMAIN StoredGlobals
  BY <1>4, <1>6, <1>7 DEF StoredGlobals
<1>10. StoredRows' = StoredRows
  BY <1>2, <1>7 DEF StoredRows, KeyCount
<1>11. StoredCall # Store!Nobody
  BY <1>1, <1>3, CallTells
<1> QED
  BY <1>2, <1>5, <1>7, <1>8, <1>9, <1>10, <1>11 DEF Store!WriteGlobal

\* A store to a key variable changes one cell of the row of the rendered key.
LEMMA StoreKeyStep ==
  ASSUME IInv, StoreKey
  PROVE  Store!WriteKey
<1>1. TypeOK
  BY DEF IInv
<1>2. /\ Executes({STORE_KEY})
      /\ keys' = [keys EXCEPT ![KeyBase + Operand] = frame.stack[Depth]]
      /\ Continue(NextPc, Below(1)) /\ UNCHANGED <<globals, output>>
  BY DEF StoreKey
<1>3. Executes(KeyOp)
  BY <1>2 DEF Executes, KeyOp
<1>4. /\ KeyBase + Operand \in 0..KeyCellCapacity-1 /\ KeyBase \in Nat
      /\ Operand \in Nat /\ Operand < KeyCount
      /\ frame.mode = "render" /\ frame.key \in 0..KeySlots-1
  BY <1>3, KeyIndex
<1>5. status = "running" /\ 1 <= Depth
  BY <1>1, <1>2, Decoded, OperandCells
<1>6. frame.stack[Depth] \in Cell
  BY <1>1, <1>5, StackCells
<1>7. StorageHolds /\ KeyCount \in Nat /\ KeySlots \in Nat
  BY <1>1, <1>5, CountTypes, StorageAssumption DEF IInv, FitsStorage, StorageHolds
<1>8. Created /\ UNCHANGED <<program, status, StoredImage, Created, StoredCall>>
  BY <1>1, <1>2, <1>5, ContinueCall DEF Created
<1>9. ASSUME NEW k \in 0..KeySlots-1, NEW i \in 1..KeyCount
      PROVE  keys'[k * KeyCount + i - 1]
               = IF k = frame.key /\ i = Operand + 1 THEN frame.stack[Depth]
                 ELSE keys[k * KeyCount + i - 1]
  <2> DEFINE c == k * KeyCount + i - 1
  <2>1. c \in 0..KeyCellCapacity-1 /\ c % KeyCount = i - 1 /\ c \div KeyCount = k
    BY <1>1, <1>7, RowCell
  <2>2. /\ (KeyBase + Operand) % KeyCount = Operand
        /\ (KeyBase + Operand) \div KeyCount = frame.key
    <3>1. Operand \in 0..KeyCount-1 /\ frame.key \in Nat
      BY <1>4, <1>7
    <3> QED
      BY <1>7, <3>1, Layout DEF KeyBase
  <2>3. c = KeyBase + Operand <=> k = frame.key /\ i = Operand + 1
    <3>1. c = KeyBase + Operand => k = frame.key /\ i - 1 = Operand
      BY <2>1, <2>2
    <3>2. i - 1 = Operand <=> i = Operand + 1
      BY <1>4, <1>7
    <3>3. ASSUME k = frame.key, i = Operand + 1 PROVE c = KeyBase + Operand
      BY <1>4, <1>7, <3>3 DEF KeyBase
    <3> QED
      BY <3>1, <3>2, <3>3
  <2> HIDE DEF c
  <2>4. keys \in [0..KeyCellCapacity-1 -> Cell]
    BY <1>1 DEF TypeOK
  <2>5. keys'[c] = IF c = KeyBase + Operand THEN frame.stack[Depth] ELSE keys[c]
    BY <1>2, <2>1, <2>4
  <2> QED
    BY <2>3, <2>5 DEF c
<1>10. StoredRows' = [StoredRows EXCEPT
                       ![frame.key] = [StoredRows[frame.key] EXCEPT ![Operand + 1] = frame.stack[Depth]]]
  <2>1. /\ StoredRows = [k \in 0..KeySlots-1 |-> [i \in 1..KeyCount |-> keys[k * KeyCount + i - 1]]]
        /\ StoredRows' = [k \in 0..KeySlots-1 |-> [i \in 1..KeyCount |-> keys'[k * KeyCount + i - 1]]]
    BY <1>8 DEF StoredRows, KeyCount
  <2>2. ASSUME NEW k \in 0..KeySlots-1
        PROVE  [i \in 1..KeyCount |-> keys'[k * KeyCount + i - 1]]
                 = IF k = frame.key
                   THEN [StoredRows[frame.key] EXCEPT ![Operand + 1] = frame.stack[Depth]]
                   ELSE StoredRows[k]
    <3>1. StoredRows[k] = [i \in 1..KeyCount |-> keys[k * KeyCount + i - 1]]
      BY <2>1
    <3>2. CASE k # frame.key
      BY <1>9, <3>1, <3>2
    <3>3. CASE k = frame.key
      <4>1. ASSUME NEW i \in 1..KeyCount
            PROVE  keys'[k * KeyCount + i - 1]
                     = IF i = Operand + 1 THEN frame.stack[Depth] ELSE StoredRows[k][i]
        BY <1>9, <3>1, <3>3
      <4>2. DOMAIN StoredRows[k] = 1..KeyCount
        BY <3>1
      <4>3. [StoredRows[k] EXCEPT ![Operand + 1] = frame.stack[Depth]]
              = [i \in 1..KeyCount |-> IF i = Operand + 1 THEN frame.stack[Depth] ELSE StoredRows[k][i]]
        BY <3>1, <4>2
      <4> QED
        BY <3>3, <4>1, <4>3
    <3> QED
      BY <3>2, <3>3
  <2> QED
    BY <2>1, <2>2
<1>11. Operand + 1 \in DOMAIN StoredImage.row
  <2>1. DOMAIN program.initialKeys = 1..KeyCount
    BY <1>1, LenProperties DEF TypeOK, Program, KeyCount
  <2> QED
    BY <1>4, <1>7, <2>1 DEF StoredImage
<1>12. StoredGlobals' = StoredGlobals
  BY <1>2, <1>8 DEF StoredGlobals, GlobalCount
<1>13. StoredCall.mode = "render" /\ StoredCall.key = frame.key
  BY <1>1, <1>4, <1>5, CallTells
<1> QED
  BY <1>2, <1>6, <1>8, <1>10, <1>11, <1>12, <1>13 DEF Store!WriteKey

LEMMA PaintStep ==
  ASSUME IInv, SetColor
  PROVE  Store!Paint
<1>1. TypeOK
  BY DEF IInv
<1>2. /\ Executes({SET_COLOR})
      /\ output' = [output EXCEPT !.color = frame.stack[Depth], !.hasColor = TRUE]
      /\ Continue(NextPc, Below(1)) /\ UNCHANGED <<globals, keys>>
  BY DEF SetColor
<1>3. status = "running" /\ Op = SET_COLOR /\ Available
  BY <1>1, <1>2, Decoded
<1>4. frame.mode = "render"
  BY <1>3, Zenon DEF Available
<1>5. output'.hasColor = TRUE
  BY <1>1, <1>2 DEF TypeOK
<1>6. UNCHANGED <<program, status, StoredImage, Created, StoredCall>>
  BY <1>1, <1>2, ContinueCall
<1>7. UNCHANGED <<StoredGlobals, StoredRows>>
  BY <1>2, <1>6 DEF StoredGlobals, StoredRows, GlobalCount, KeyCount
<1>8. StoredCall.mode = "render"
  BY <1>1, <1>3, <1>4, CallTells
<1> QED
  BY <1>5, <1>6, <1>7, <1>8 DEF Store!Paint

LEMMA ReturnStep ==
  ASSUME IInv, Halt \/ Trap \/ FallOff \/ SqrtDomainError
  PROVE  Store!End
<1>1. output.hasColor = [output EXCEPT !.executed = frame.steps + 1].hasColor
  BY DEF IInv, TypeOK
<1>2. CASE Halt
  <2>1. /\ status = "running" /\ Return(NoError)
        /\ output' = [output EXCEPT !.executed = frame.steps + 1]
    BY <1>2 DEF Halt, Executes, Executing
  <2> QED
    BY <1>1, <2>1, EndStep
<1>3. CASE Trap
  BY <1>3, EndStep DEF Trap, Executing
<1>4. CASE FallOff
  BY <1>4, EndStep DEF FallOff
<1>5. CASE SqrtDomainError
  BY <1>5, EndStep DEF SqrtDomainError, Executing
<1> QED
  BY <1>2, <1>3, <1>4, <1>5

-----------------------------------------------------------------------------
(* The refinement *)

LEMMA StoreInits == Init => Store!StoreInit
<1> SUFFICES ASSUME Init PROVE Store!StoreInit
  OBVIOUS
<1>1. program \in Program /\ status = "uncreated" /\ output = NoOutput
  BY ProgramAssumption DEF Init, Uncreated
<1>2. StoredImage \in [globals : Seq(Cell), row : Seq(Cell)]
  BY <1>1 DEF StoredImage, Program
<1> QED
  BY <1>1, <1>2 DEF Store!StoreInit, Created, StoredGlobals, StoredRows, StoredCall, Store!NoRows,
    Store!Nobody, NoOutput

LEMMA StoreHostCalls ==
  ASSUME IInv, HostCall
  PROVE  [Store!StoreNext]_(Store!storeVars)
<1>1. IInv'
  BY HostCalls
<1>2. CASE InitState
  <2>1. /\ status # "running" /\ UNCHANGED <<program, frame, output>>
        /\ \/ /\ status' = "idle" /\ globals' = ResetGlobals /\ keys' = ResetKeys
           \/ UNCHANGED <<status, globals, keys>>
    BY <1>2 DEF InitState
  <2>2. CASE status' = "idle" /\ globals' = ResetGlobals /\ keys' = ResetKeys
    BY <1>1, <2>1, <2>2, RestoreStep DEF IInv, Store!StoreNext
  <2>3. CASE UNCHANGED <<status, globals, keys>>
    BY <2>1, <2>3, SameStore
  <2> QED
    BY <2>1, <2>2, <2>3
<1>3. CASE ResetState
  <2>1. /\ status # "running" /\ status' = "idle" /\ globals' = ResetGlobals /\ keys' = ResetKeys
        /\ UNCHANGED <<program, frame, output>>
    BY <1>3 DEF ResetState
  <2> QED
    BY <1>1, <2>1, RestoreStep DEF IInv, Store!StoreNext
<1>4. ASSUME NEW installed \in BOOLEAN, SetRandom(installed) PROVE UNCHANGED Store!storeVars
  BY <1>4, SameStore DEF SetRandom
<1>5. CASE RunInit
  <2>1. 0 \in 0..KeySlots /\ "init" \in Mode
    BY StorageAssumption DEF Mode
  <2>2. Store!Begin("init", 0)
    BY <1>5, <2>1, BeginStep DEF RunInit
  <2> QED
    BY <2>1, <2>2 DEF Store!StoreNext
<1>6. ASSUME NEW inputs \in Inputs, RunUpdate(inputs) PROVE Store!StoreNext
  <2>1. 0 \in 0..KeySlots /\ "update" \in Mode
    BY StorageAssumption DEF Mode
  <2>2. Store!Begin("update", 0)
    BY <1>6, <2>1, BeginStep DEF RunUpdate
  <2> QED
    BY <2>1, <2>2 DEF Store!StoreNext
<1>7. ASSUME NEW key \in 0..KeySlots, NEW inputs \in Inputs, RunRender(key, inputs) PROVE Store!StoreNext
  <2>1. "render" \in Mode /\ Store!Begin("render", key)
    BY <1>7, BeginStep DEF RunRender, Mode
  <2> QED
    BY <2>1 DEF Store!StoreNext
<1>8. ASSUME NEW key \in 0..KeySlots, RunRenderBadKey(key) PROVE UNCHANGED Store!storeVars
  BY <1>8, SameStore DEF RunRenderBadKey
<1> QED
  BY <1>2, <1>3, <1>4, <1>5, <1>6, <1>7, <1>8 DEF HostCall

LEMMA StoreSteps == IInv /\ [Next]_vars => [Store!StoreNext]_(Store!storeVars)
<1> SUFFICES ASSUME IInv, [Next]_vars PROVE [Store!StoreNext]_(Store!storeVars)
  OBVIOUS
<1>1. CASE Step
  BY <1>1, QuietSteps, StoreGlobalStep, StoreKeyStep, PaintStep, ReturnStep DEF Step, Store!StoreNext
<1>2. CASE HostCall
  BY <1>2, StoreHostCalls
<1>3. CASE UNCHANGED vars
  BY <1>3, SameStore DEF vars
<1> QED
  BY <1>1, <1>2, <1>3 DEF Next

\* The machine implements the state model: whatever the bytecode, sections share one
\* vector of globals, each key has variables that only its own renders write, only a
\* render sets the colour, and creating or resetting the state restores every initial
\* value (execute_section, lumi_vm_init_state, lumi_vm_reset_state).
THEOREM StoreImplemented == Spec => ImplementsStore
BY StoreInits, StoreSteps, Invariance, PTL DEF Spec, ImplementsStore, Store!StoreSpec

-----------------------------------------------------------------------------
(* What no step may do *)

\* A step of a running call changes no key variable but those of the rendered key.
LEMMA OwnRowStep ==
  ASSUME IInv, [Next]_vars, status = "running", NEW c \in 0..KeyCellCapacity-1, keys'[c] # keys[c]
  PROVE  frame.mode = "render" /\ c \div KeyCount = frame.key
<1>1. TypeOK
  BY DEF IInv
<1>2. StoreKey
  BY DEF Next, vars, Step, HostCall, PushConst, LoadInput, LoadGlobal, StoreGlobal, LoadKey, Dup,
    Binary, Unary, CallBuiltin, SqrtDomainError, DirectBuiltin, Jump, JumpIfFalse, SetColor, Halt,
    Trap, FallOff, Replace, Return, InitState, ResetState, SetRandom, RunInit, RunUpdate, RunRender,
    RunRenderBadKey, Enter
<1>3. Executes(KeyOp) /\ keys' = [keys EXCEPT ![KeyBase + Operand] = frame.stack[Depth]]
  BY <1>2 DEF StoreKey, Executes, KeyOp
<1>4. /\ KeyBase \in Nat /\ Operand \in Nat /\ Operand < KeyCount
      /\ frame.mode = "render" /\ frame.key \in 0..KeySlots-1
  BY <1>3, KeyIndex
<1>5. c = KeyBase + Operand
  BY <1>1, <1>3 DEF TypeOK
<1>6. (frame.key * KeyCount + Operand) \div KeyCount = frame.key
  <2>1. KeyCount \in Nat /\ KeySlots \in Nat
    BY <1>1, CountTypes, StorageAssumption
  <2>2. Operand \in 0..KeyCount-1 /\ frame.key \in Nat
    BY <1>4, <2>1
  <2> QED
    BY <2>1, <2>2, Layout
<1> QED
  BY <1>4, <1>5, <1>6 DEF KeyBase

\* A render call writes no other key's row, and init and update write none, whatever
\* the bytecode (key_base and the section check of execute_section).
THEOREM RowsIsolated == Spec => OnlyOwnRow
<1>1. IInv /\ [Next]_vars =>
        (status = "running" =>
           \A c \in 0..KeyCellCapacity-1 : keys'[c] # keys[c] =>
             frame.mode = "render" /\ c \div KeyCount = frame.key)
  BY OwnRowStep
<1> QED
  BY <1>1, Invariance, PTL DEF Spec, OnlyOwnRow

\* The recursive function of Way exists, and a longer way goes on from a shorter one.
LEMMA WaySteps ==
  ASSUME NEW code, NEW n \in Nat
  PROVE  /\ Way(code, 0) = [clear |-> {0}, painted |-> {}]
         /\ Way(code, n + 1) = OneFurther(code, Way(code, n))
<1> DEFINE Start == [clear |-> {0}, painted |-> {}]
           Goes(m, f) == f = [k \in 0..m |-> IF k = 0 THEN Start ELSE OneFurther(code, f[k - 1])]
           T == {m \in Nat : \E f : Goes(m, f)}
<1>1. 0 \in T
  <2>1. Goes(0, [k \in 0..0 |-> Start])
    OBVIOUS
  <2> QED
    BY <2>1
<1>2. ASSUME NEW m \in T PROVE m + 1 \in T
  <2>1. m \in Nat /\ \E f : Goes(m, f)
    OBVIOUS
  <2>2. PICK f : Goes(m, f)
    BY <2>1
  <2>3. PICK g : g = [k \in 0..m+1 |-> IF k = 0 THEN Start ELSE OneFurther(code, f[k - 1])]
    OBVIOUS
  <2>4. \A k \in 0..m : f[k] = IF k = 0 THEN Start ELSE OneFurther(code, f[k - 1])
    BY <2>2
  <2>5. \A k \in 0..m+1 : g[k] = IF k = 0 THEN Start ELSE OneFurther(code, f[k - 1])
    BY <2>3
  <2>6. \A k \in 0..m : k \in 0..m+1
    BY <2>1
  <2>7. \A k \in 0..m : g[k] = f[k]
    BY <2>4, <2>5, <2>6, Zenon
  <2>8. \A k \in 0..m+1 : k # 0 => k - 1 \in 0..m
    BY <2>1
  <2>9. Goes(m + 1, g)
    BY <2>3, <2>7, <2>8
  <2>10. \E h : Goes(m + 1, h)
    <3> HIDE DEF Goes
    <3> QED
      BY <2>9
  <2>11. m + 1 \in Nat
    BY <2>1
  <2> QED
    BY <2>10, <2>11
<1>3. \A m \in Nat : \E f : Goes(m, f)
  <2>1. T \subseteq Nat
    OBVIOUS
  <2>2. \A m \in Nat : m \in T
    <3> HIDE DEF T
    <3> QED
      BY <1>1, <1>2, <2>1, EveryNumber
  <2> QED
    BY <2>2
<1>4. ASSUME NEW m \in Nat
      PROVE  \E f : Goes(m, f) /\ Way(code, m) = f[m]
  <2>1. PICK way : way = CHOOSE f : Goes(m, f)
    OBVIOUS
  <2>2. Goes(m, way)
    <3> HIDE DEF Goes
    <3> QED
      BY <1>3, <2>1, Zenon
  <2>3. Way(code, m) = way[m]
    BY <2>1 DEF Way
  <2> QED
    BY <2>2, <2>3
<1>5. Way(code, 0) = Start
  BY <1>4
<1>6. PICK f : Goes(n, f) /\ Way(code, n) = f[n]
  BY <1>4
<1>7. PICK g : Goes(n + 1, g) /\ Way(code, n + 1) = g[n + 1]
  <2> HIDE DEF Goes
  <2>1. n + 1 \in Nat
    OBVIOUS
  <2> QED
    BY <1>4, <2>1, Zenon
<1>a. \A k \in 0..n : f[k] = IF k = 0 THEN Start ELSE OneFurther(code, f[k - 1])
  BY <1>6
<1>b. \A k \in 0..n+1 : g[k] = IF k = 0 THEN Start ELSE OneFurther(code, g[k - 1])
  BY <1>7
<1>8. \A k \in 0..n : f[k] = g[k]
  <2> DEFINE S == {k \in Nat : k <= n => f[k] = g[k]}
  <2>1. 0 \in S
    BY <1>a, <1>b
  <2>2. ASSUME NEW k \in S PROVE k + 1 \in S
    <3>1. k \in Nat /\ k + 1 \in Nat /\ (k + 1) - 1 = k /\ k + 1 # 0
      OBVIOUS
    <3>2. ASSUME k + 1 <= n PROVE f[k + 1] = g[k + 1]
      <4>1. f[k] = g[k] /\ k + 1 \in 0..n /\ k + 1 \in 0..n+1
        BY <3>1, <3>2
      <4>2. f[k + 1] = OneFurther(code, f[k])
        BY <1>a, <3>1, <4>1
      <4>3. g[k + 1] = OneFurther(code, g[k])
        BY <1>b, <3>1, <4>1
      <4> QED
        BY <4>1, <4>2, <4>3
    <3> QED
      BY <3>1, <3>2
  <2>3. S \subseteq Nat
    OBVIOUS
  <2>4. \A k \in Nat : k \in S
    <3> HIDE DEF S
    <3> QED
      BY <2>1, <2>2, <2>3, EveryNumber
  <2> QED
    BY <2>4
<1>9. g[n + 1] = OneFurther(code, g[n])
  <2>1. n + 1 \in 0..n+1 /\ n + 1 # 0 /\ (n + 1) - 1 = n
    OBVIOUS
  <2> QED
    BY <1>b, <2>1
<1>10. f[n] = g[n]
  BY <1>8
<1> QED
  BY <1>5, <1>6, <1>7, <1>9, <1>10

\* One instruction further on the way.
LEMMA FurtherOnWay ==
  ASSUME NEW code, NEW f, f.steps \in Nat, NEW g, NEW colored \in BOOLEAN, OnWay(code, f, colored),
         g.pc \in Onward(code, f.pc), g.steps = f.steps + 1
  PROVE  OnWay(code, g, colored \/ Paints(code, f.pc))
<1> DEFINE way == Way(code, f.steps)
<1>1. Way(code, g.steps) = OneFurther(code, way)
  BY WaySteps
<1>2. /\ OneFurther(code, way).clear
           = UNION {Onward(code, pc) : pc \in way.clear \ {q \in way.clear : Paints(code, q)}}
      /\ OneFurther(code, way).painted
           = UNION {Onward(code, pc) : pc \in way.painted \cup {q \in way.clear : Paints(code, q)}}
  BY DEF OneFurther
<1>3. CASE colored
  <2>1. f.pc \in way.painted
    BY <1>3 DEF OnWay
  <2> QED
    BY <1>1, <1>2, <1>3, <2>1 DEF OnWay
<1>4. CASE ~colored
  <2>1. f.pc \in way.clear
    BY <1>4 DEF OnWay
  <2>2. CASE Paints(code, f.pc)
    BY <1>1, <1>2, <2>1, <2>2 DEF OnWay
  <2>3. CASE ~Paints(code, f.pc)
    BY <1>1, <1>2, <1>4, <2>1, <2>3 DEF OnWay
  <2> QED
    BY <2>2, <2>3
<1> QED
  BY <1>3, <1>4

\* The colour of a running call is its own.
ColorOfCall ==
  status = "running" =>
    OnWay(Section(program, frame.mode), frame, output.hasColor) /\ (output.hasColor => frame.mode = "render")

\* Where an instruction that passes every check goes on.
LEMMA GoesOnward ==
  ASSUME IInv, NEW ops, Executes(ops), NEW pc, NEW stack, Continue(pc, stack),
         \/ pc = NextPc /\ Op \notin {JUMP, HALT}
         \/ pc = Operand /\ Op \in JumpOp
  PROVE  /\ frame'.pc \in Onward(Code, frame.pc) /\ frame'.steps = frame.steps + 1
         /\ frame'.mode = frame.mode /\ UNCHANGED <<program, status>>
<1>1. Decodable(Code, frame.pc)
  BY DEF Executes, Fault, NoError
<1>2. frame'.pc = pc /\ frame'.steps = frame.steps + 1 /\ frame'.mode = frame.mode /\ UNCHANGED <<program, status>>
  BY DEF Continue, IInv, TypeOK
<1>3. pc \in Onward(Code, frame.pc)
  BY <1>1 DEF Onward, NextPc, Operand, Target, Op
<1> QED
  BY <1>2, <1>3

\* A colour is set by SET_COLOR alone; the other instructions keep it, entering a
\* section clears it, and where they lead is on the way.
LEMMA ColorStep ==
  ASSUME IInv, ColorOfCall, [Next]_vars
  PROVE  /\ ColorOfCall'
         /\ Next /\ status = "running" =>
              /\ output'.hasColor <=> output.hasColor \/ Executes({SET_COLOR})
              /\ output'.hasColor => frame.mode = "render"
<1> DEFINE Colors == Next /\ status = "running" =>
                       /\ output'.hasColor <=> output.hasColor \/ Executes({SET_COLOR})
                       /\ output'.hasColor => frame.mode = "render"
<1> SUFFICES ColorOfCall' /\ Colors
  OBVIOUS
<1>1. /\ TypeOK /\ output.hasColor \in BOOLEAN /\ frame.steps \in Nat
      /\ Code = Section(program, frame.mode)
  BY DEF IInv, TypeOK, Code
<1>2. ASSUME NEW ops, Executes(ops), NEW pc, NEW stack, Continue(pc, stack),
             \/ pc = NextPc /\ Op \notin {JUMP, HALT}
             \/ pc = Operand /\ Op \in JumpOp,
             output'.hasColor = (output.hasColor \/ Op = SET_COLOR)
      PROVE  ColorOfCall' /\ Colors
  <2>1. status = "running" /\ (Op = SET_COLOR <=> Paints(Code, frame.pc)) /\ Available
    BY <1>1, <1>2, Decoded DEF Paints, Op
  <2>2. /\ frame'.pc \in Onward(Code, frame.pc) /\ frame'.steps = frame.steps + 1
        /\ frame'.mode = frame.mode /\ UNCHANGED <<program, status>>
    BY <1>2, GoesOnward
  <2>3. OnWay(Code, frame, output.hasColor) /\ (output.hasColor => frame.mode = "render")
    BY <1>1, <2>1 DEF ColorOfCall
  <2>4. OnWay(Code, frame', output.hasColor \/ Paints(Code, frame.pc))
    BY <1>1, <2>2, <2>3, FurtherOnWay
  <2>5. output'.hasColor = (output.hasColor \/ Paints(Code, frame.pc))
    BY <1>2, <2>1
  <2>6. Op = SET_COLOR => frame.mode = "render"
    BY <2>1, Zenon DEF Available
  <2>7. Op = SET_COLOR <=> Executes({SET_COLOR})
    BY <1>2 DEF Executes
  <2>8. output'.hasColor => frame.mode = "render"
    BY <1>2, <2>3, <2>6
  <2> QED
    BY <1>1, <1>2, <2>2, <2>4, <2>5, <2>7, <2>8 DEF ColorOfCall
<1>3. CASE SetColor
  <2>1. /\ Executes({SET_COLOR}) /\ Continue(NextPc, Below(1))
        /\ output' = [output EXCEPT !.color = frame.stack[Depth], !.hasColor = TRUE]
    BY <1>3 DEF SetColor
  <2>2. Op = SET_COLOR /\ output'.hasColor = TRUE
    BY <1>1, <2>1 DEF Executes, TypeOK
  <2>3. Op \notin {JUMP, HALT}
    BY <2>2 DEF SET_COLOR, JUMP, HALT
  <2> QED
    BY <1>2, <2>1, <2>2, <2>3
<1>4. ASSUME NEW ops, Executes(ops), NEW pc, NEW stack, Continue(pc, stack), UNCHANGED output,
             SET_COLOR \notin ops,
             \/ pc = NextPc /\ ops \cap {JUMP, HALT} = {}
             \/ pc = Operand /\ ops \subseteq JumpOp
      PROVE  ColorOfCall' /\ Colors
  <2>1. Op \in ops /\ Op # SET_COLOR
    BY <1>4 DEF Executes
  <2>2. \/ pc = NextPc /\ Op \notin {JUMP, HALT}
        \/ pc = Operand /\ Op \in JumpOp
    BY <1>4, <2>1
  <2>3. output'.hasColor = (output.hasColor \/ Op = SET_COLOR)
    BY <1>1, <1>4, <2>1
  <2> QED
    BY <1>2, <1>4, <2>2, <2>3
<1>9. CASE Dup \/ StoreGlobal \/ StoreKey \/ Jump \/ JumpIfFalse
  <2>1. /\ \A op \in {DUP, STORE_GLOBAL, STORE_KEY} : SET_COLOR # op /\ {op} \cap {JUMP, HALT} = {}
        /\ SET_COLOR \notin {JUMP} /\ SET_COLOR \notin {JUMP_IF_FALSE} /\ {JUMP} \subseteq JumpOp
        /\ {JUMP_IF_FALSE} \subseteq JumpOp /\ {JUMP_IF_FALSE} \cap {JUMP, HALT} = {}
    BY DEF JumpOp, DUP, STORE_GLOBAL, STORE_KEY, SET_COLOR, JUMP, JUMP_IF_FALSE, HALT
  <2> HIDE DEF Colors
  <2>2. CASE Dup
    BY <1>4, <2>1, <2>2 DEF Dup
  <2>3. CASE StoreGlobal
    BY <1>4, <2>1, <2>3 DEF StoreGlobal
  <2>4. CASE StoreKey
    BY <1>4, <2>1, <2>4 DEF StoreKey
  <2>5. CASE Jump
    BY <1>4, <2>1, <2>5 DEF Jump
  <2>6. CASE JumpIfFalse
    <3>1. CASE JumpTaken
      BY <1>4, <2>1, <2>6, <3>1 DEF JumpIfFalse
    <3>2. CASE ~JumpTaken
      BY <1>4, <2>1, <2>6, <3>2 DEF JumpIfFalse
    <3> QED
      BY <3>1, <3>2
  <2> QED
    BY <1>9, <2>2, <2>3, <2>4, <2>5, <2>6
<1>10. CASE \/ PushConst \/ LoadInput \/ LoadGlobal \/ LoadKey
          \/ Binary \/ Unary \/ CallBuiltin \/ DirectBuiltin
  <2> DEFINE Straight == {{PUSH_CONST_F32}, {LOAD_INPUT}, {LOAD_GLOBAL}, {LOAD_KEY}, BinaryOp, UnaryOp,
                          {CALL_BUILTIN}, DirectBuiltinOp}
  <2>1. \A ops \in Straight : SET_COLOR \notin ops /\ ops \cap {JUMP, HALT} = {}
    BY DEF BinaryOp, ArithOp, UnaryOp, DirectBuiltinOp, SET_COLOR, JUMP, HALT, PUSH_CONST_F32, LOAD_INPUT,
      LOAD_GLOBAL, LOAD_KEY, CALL_BUILTIN, ADD, SUB, MUL, DIV, MOD, EQ, NE, LT, LE, GT, GE, AND, OR, NEG, NOT,
      CLAMP, DIST, RGB, HSV
  <2>2. ASSUME NEW ops \in Straight, Executes(ops), NEW value, Replace(value) PROVE ColorOfCall' /\ Colors
    <3> HIDE DEF Colors, Straight
    <3> QED
      BY <1>4, <2>1, <2>2 DEF Replace
  <2>3. /\ {PUSH_CONST_F32} \in Straight /\ {LOAD_INPUT} \in Straight /\ {LOAD_GLOBAL} \in Straight
        /\ {LOAD_KEY} \in Straight /\ BinaryOp \in Straight /\ UnaryOp \in Straight
        /\ {CALL_BUILTIN} \in Straight /\ DirectBuiltinOp \in Straight
    OBVIOUS
  <2> HIDE DEF Colors, Straight
  <2>4. CASE PushConst \/ LoadInput \/ LoadGlobal \/ LoadKey
    BY <2>2, <2>3, <2>4 DEF PushConst, LoadInput, LoadGlobal, LoadKey
  <2>5. CASE Binary \/ Unary \/ DirectBuiltin
    BY <2>2, <2>3, <2>5 DEF Binary, Unary, DirectBuiltin
  <2>6. CASE CallBuiltin
    BY <2>2, <2>3, <2>6, Zenon DEF CallBuiltin
  <2> QED
    BY <1>10, <2>4, <2>5, <2>6
<1>5. CASE Halt \/ Trap \/ FallOff \/ SqrtDomainError
  <2>1. status = "running" /\ status' = "idle" /\ ~Executes({SET_COLOR}) /\ output'.hasColor = output.hasColor
    <3>1. CASE Halt
      <4>1. Op = HALT /\ status = "running" /\ status' = "idle" /\ output' = [output EXCEPT !.executed = frame.steps + 1]
        BY <3>1 DEF Halt, Return, Executes, Executing
      <4>2. Op # SET_COLOR
        BY <4>1 DEF HALT, SET_COLOR
      <4> QED
        BY <1>1, <4>1, <4>2 DEF TypeOK, Executes
    <3>2. CASE Trap
      <4>1. Executing /\ Fault # NoError /\ status' = "idle" /\ UNCHANGED output
        BY <3>2 DEF Trap, Return
      <4> QED
        BY <4>1 DEF Executing, Executes
    <3>3. CASE FallOff
      <4>1. status = "running" /\ ~Executing /\ status' = "idle" /\ UNCHANGED output
        <5>1. status = "running" /\ frame.pc >= Len(Code) /\ status' = "idle" /\ UNCHANGED output
          BY <3>3 DEF FallOff, Return
        <5>2. frame.pc \in Nat /\ Len(Code) \in Nat
          BY <1>1, CodeType DEF TypeOK
        <5> QED
          BY <5>1, <5>2 DEF Executing
      <4> QED
        BY <4>1 DEF Executes
    <3>4. CASE SqrtDomainError
      <4>1. Executing /\ Op = CALL_BUILTIN /\ status' = "idle" /\ UNCHANGED output
        BY <3>4, Zenon DEF SqrtDomainError, Return
      <4>2. Op # SET_COLOR
        BY <4>1 DEF CALL_BUILTIN, SET_COLOR
      <4> QED
        BY <4>1, <4>2 DEF Executing, Executes
    <3> QED
      BY <1>5, <3>1, <3>2, <3>3, <3>4
  <2> QED
    BY <1>1, <2>1 DEF ColorOfCall
<1>6. ASSUME NEW mode, NEW key, NEW inputs, Enter(mode, key, inputs)
      PROVE  ColorOfCall' /\ status # "running"
  <2>1. status = "idle" /\ frame'.pc = 0 /\ frame'.steps = 0 /\ output'.hasColor = FALSE
    BY <1>6 DEF Enter, NoOutput, NoFrame
  <2>2. Way(Section(program', frame'.mode), 0).clear = {0}
    BY WaySteps
  <2> QED
    BY <2>1, <2>2 DEF ColorOfCall, OnWay
<1>7. CASE HostCall
  <2>1. CASE status # "running" /\ status' # "running"
    BY <2>1 DEF ColorOfCall
  <2>2. CASE \E mode, key, inputs : Enter(mode, key, inputs)
    BY <1>6, <2>2
  <2>3. CASE InitState
    <3>1. status # "running" /\ (status' = "idle" \/ status' = status)
      BY <2>3, Zenon DEF InitState
    <3> QED
      BY <2>1, <3>1
  <2>4. CASE ResetState \/ \E installed \in BOOLEAN : SetRandom(installed)
    BY <2>1, <2>4 DEF ResetState, SetRandom
  <2>5. CASE \E key \in 0..KeySlots : RunRenderBadKey(key)
    BY <2>1, <2>5 DEF RunRenderBadKey
  <2>6. CASE RunInit \/ (\E inputs \in Inputs : RunUpdate(inputs))
             \/ \E key \in 0..KeySlots, inputs \in Inputs : RunRender(key, inputs)
    BY <2>2, <2>6, Zenon DEF RunInit, RunUpdate, RunRender
  <2> QED
    BY <1>7, <2>3, <2>4, <2>5, <2>6, Zenon DEF HostCall
<1>8. CASE UNCHANGED vars /\ ~Next
  BY <1>8 DEF vars, ColorOfCall
<1> QED
  BY <1>3, <1>5, <1>7, <1>8, <1>9, <1>10 DEF Next, Step

\* Whatever the bytecode and however the call ends, a call shows a colour exactly when
\* its own instructions came past SET_COLOR, and only in a render: no colour of an
\* earlier call is left in the output of one that ran (execute_section's memset and the
\* section check of SET_COLOR).
THEOREM ColorsRendered == Spec => ColorOfOwnRun
<1>1. Init => ColorOfCall
  BY DEF Init, Uncreated, ColorOfCall
<1>2. IInv /\ ColorOfCall /\ [Next]_vars => ColorOfCall'
  BY ColorStep
<1>3. IInv /\ ColorOfCall /\ [Next]_vars =>
        [ /\ status' = "running" => OnWay(Section(program', frame'.mode), frame', output'.hasColor)
          /\ status = "running" =>
               /\ output'.hasColor <=> output.hasColor \/ Executes({SET_COLOR})
               /\ output'.hasColor => frame.mode = "render" ]_vars
  BY ColorStep DEF ColorOfCall
<1> QED
  BY <1>1, <1>2, <1>3, Invariance, PTL DEF Spec, ColorOfOwnRun
=============================================================================
