----------------------- MODULE LumiStackSafety_proofs -----------------------
(***************************************************************************)
(* Code that the stack analysis accepted runs as it predicted, whatever    *)
(* the program, its inputs and the storage: the depth on the stack is the  *)
(* one in stack_at, so the stack that lumi_vm_init_state asks for is       *)
(* enough and no jump leaves the section.                                  *)
(***************************************************************************)
EXTENDS LumiStackSafety, LumiVM_proofs

\* The machine's own invariant gives the types, and the prediction itself is inductive:
\* the program stays the same, and the certificate carries the prediction from every
\* offset to its successors.
SInv == IInv /\ DepthPredicted

\* The certificate, at the instruction about to run.
LEMMA Certificate ==
  ASSUME SInv, Executing, program \in Accepted
  PROVE  /\ TypeOK /\ status = "running" /\ frame.pc \in Nat /\ frame.pc < Len(Code)
         /\ Decodable(Code, frame.pc)
         /\ Depth + StackDelta(Code, frame.pc) \in 0..program.maxStack
         /\ \A t \in Successors(Code, frame.pc) :
              /\ t < Len(Code)
              /\ DepthAt(program, frame.mode, t) = Depth + StackDelta(Code, frame.pc)
              /\ DepthAt(program, frame.mode, t) # Unknown
<1>1. TypeOK /\ status = "running" /\ frame.pc < Len(Code) /\ frame.pc \in Nat
  BY DEF SInv, IInv, TypeOK, Executing
<1>2. Code \in Seq(Byte) /\ Len(Code) \in Nat
  BY <1>1, CodeType
<1>3. frame.mode \in Mode
  BY <1>1 DEF TypeOK
<1>4. PICK depth : depth = [pc \in 0..Len(Code)-1 |-> DepthAt(program, frame.mode, pc)]
  OBVIOUS
<1>5. Certifies(depth, Code, program.maxStack)
  BY <1>3, <1>4, AcceptedAssumption DEF Depths, Code
<1>6. frame.pc \in 0..Len(Code)-1
  BY <1>1, <1>2
<1>7. depth[frame.pc] = Depth /\ depth[frame.pc] # Unknown
  BY <1>1, <1>4, <1>6 DEF SInv, DepthPredicted
<1>8. /\ Decodable(Code, frame.pc)
      /\ Depth + StackDelta(Code, frame.pc) \in 0..program.maxStack
      /\ \A t \in Successors(Code, frame.pc) :
           t < Len(Code) /\ depth[t] = Depth + StackDelta(Code, frame.pc)
  BY <1>5, <1>6, <1>7 DEF Certifies
<1>9. ASSUME NEW t \in Successors(Code, frame.pc)
      PROVE  DepthAt(program, frame.mode, t) = Depth + StackDelta(Code, frame.pc)
  <2>1. t \in Nat /\ t < Len(Code)
    BY <1>1, <1>2, <1>8, SuccessorType
  <2>2. t \in 0..Len(Code)-1
    BY <1>2, <2>1
  <2> QED
    BY <1>4, <1>8, <2>2
<1>10. Depth + StackDelta(Code, frame.pc) # Unknown
  <2>1. program.maxStack \in Nat
    <3>1. program.maxStack \in U16
      BY <1>1 DEF TypeOK, Program
    <3> QED
      BY <3>1, U16Nat
  <2>2. \A m \in Nat : \A n \in 0..m : n # -1
    OBVIOUS
  <2> QED
    BY <1>8, <2>1, <2>2 DEF Unknown
<1> QED
  BY <1>1, <1>8, <1>9, <1>10

\* Going on at a successor, or off the end, with the predicted stack.
LEMMA ContinueDepth ==
  ASSUME SInv, Executing, NEW pc, NEW stack, Continue(pc, stack),
         pc \in Successors(Code, frame.pc) \/ ~ (pc < Len(Code)),
         Len(stack) = Depth + StackDelta(Code, frame.pc)
  PROVE  DepthPredicted' /\ program' = program
<1>1. frame' = [frame EXCEPT !.pc = pc, !.stack = stack, !.steps = @ + 1] /\ program' = program
  BY DEF Continue
<1>2. frame'.pc = pc /\ frame'.stack = stack /\ frame'.mode = frame.mode
  BY <1>1 DEF SInv, IInv, TypeOK
<1>3. Code' = Code /\ Depth' = Len(stack)
  BY <1>1, <1>2 DEF Code, Depth
<1>4. CASE program \in Accepted
  BY <1>1, <1>2, <1>3, <1>4, Certificate DEF DepthPredicted
<1>5. CASE program \notin Accepted
  BY <1>1, <1>5 DEF DepthPredicted
<1> QED
  BY <1>4, <1>5

LEMMA FallsThrough ==
  ASSUME TypeOK, NEW ops, Executes(ops), JUMP \notin ops, HALT \notin ops
  PROVE  NextPc \in Successors(Code, frame.pc) \/ ~ (NextPc < Len(Code))
<1>1. Op \notin {JUMP, HALT}
  BY Decoded
<1> QED
  BY <1>1 DEF Successors, NextPc, Op

LEMMA ReplaceDepth ==
  ASSUME SInv, NEW ops, Executes(ops), ops \subseteq OnePush, NEW value, Replace(value)
  PROVE  DepthPredicted' /\ program' = program
<1>1. TypeOK /\ Executing /\ Op \in OnePush
  BY DEF SInv, IInv, Executes
<1>2. JUMP \notin OnePush /\ HALT \notin OnePush
  BY DEF OnePush, BinaryOp, ArithOp, UnaryOp, DirectBuiltinOp, CALL_BUILTIN, PUSH_CONST_F32, LOAD_INPUT,
    LOAD_GLOBAL, LOAD_KEY, JUMP, HALT, NEG, NOT, ADD, SUB, MUL, DIV, MOD, EQ, NE, LT, LE, GT, GE,
    AND, OR, CLAMP, RGB, HSV, DIST
<1>3. PICK below : below = Below(Pops(Code, frame.pc))
  OBVIOUS
<1>4. below \in Seq(Cell) /\ Len(below) = Depth - Pops(Code, frame.pc)
  BY <1>1, <1>3, StackEffect, StackCells
<1>5. Len(Append(below, value)) = Depth + StackDelta(Code, frame.pc)
  <2>1. Len(Append(below, value)) = Len(below) + 1
    <3>1. below \in Seq(Cell \cup {value}) /\ value \in Cell \cup {value}
      BY <1>4
    <3> QED
      BY <3>1, AppendProperties
  <2>2. Pushes(Code, frame.pc) = 1
    BY <1>1, OnePushPushes
  <2> QED
    BY <1>1, <1>4, <2>1, <2>2, StackEffect
<1>6. Continue(NextPc, Append(below, value))
  BY <1>3 DEF Replace
<1> QED
  BY <1>1, <1>2, <1>5, <1>6, FallsThrough, ContinueDepth

\* The instructions that take one cell, and DUP.
LEMMA OneCell ==
  ASSUME TypeOK, NEW ops, Executes(ops), ops \subseteq {STORE_GLOBAL, STORE_KEY, SET_COLOR, JUMP_IF_FALSE}
  PROVE  Len(Below(1)) = Depth + StackDelta(Code, frame.pc)
<1>1. Op \in {STORE_GLOBAL, STORE_KEY, SET_COLOR, JUMP_IF_FALSE}
  BY Decoded
<1>2. Pushes(Code, frame.pc) = 0 /\ Pops(Code, frame.pc) = 1
  BY <1>1 DEF Pushes, Pops, Op, CALL_BUILTIN, PUSH_CONST_F32, LOAD_INPUT, LOAD_GLOBAL, LOAD_KEY,
    JUMP, HALT, STORE_GLOBAL, STORE_KEY, SET_COLOR, JUMP_IF_FALSE, DUP, UnaryOp, NEG, NOT,
    BinaryOp, ArithOp, ADD, SUB, MUL, DIV, MOD, EQ, NE, LT, LE, GT, GE, AND, OR, CLAMP, RGB,
    HSV, DIST
<1>3. Depth \in Nat /\ 1 <= Depth
  BY <1>1, OperandCells, StackCells
<1>4. Len(Below(1)) = Depth - 1
  BY <1>3, StackCells
<1> QED
  BY <1>2, <1>3, <1>4 DEF StackDelta

LEMMA JumpLands ==
  ASSUME Op \in JumpOp PROVE Operand \in Successors(Code, frame.pc)
BY DEF Operand, Op, Successors, Target

LEMMA StepDepth == SInv /\ Step => DepthPredicted' /\ program' = program
<1> SUFFICES ASSUME SInv, Step PROVE DepthPredicted' /\ program' = program
  OBVIOUS
<1>1. TypeOK
  BY DEF SInv, IInv
<1>2. ASSUME PushConst \/ LoadInput \/ LoadGlobal \/ LoadKey \/ Binary \/ Unary \/ CallBuiltin \/ DirectBuiltin
      PROVE  DepthPredicted' /\ program' = program
  <2>1. \E ops, value : ops \subseteq OnePush /\ Executes(ops) /\ Replace(value)
    BY <1>2 DEF PushConst, LoadInput, LoadGlobal, LoadKey, Binary, Unary, CallBuiltin, DirectBuiltin, OnePush
  <2> QED
    BY <2>1, ReplaceDepth
<1>3. CASE StoreGlobal \/ StoreKey \/ SetColor
  <2>1. PICK ops : /\ Executes(ops) /\ ops \subseteq {STORE_GLOBAL, STORE_KEY, SET_COLOR}
                   /\ Continue(NextPc, Below(1))
    BY <1>3 DEF StoreGlobal, StoreKey, SetColor
  <2>2. Executing /\ JUMP \notin ops /\ HALT \notin ops
    BY <2>1 DEF Executes, STORE_GLOBAL, STORE_KEY, SET_COLOR, JUMP, HALT
  <2> QED
    BY <1>1, <2>1, <2>2, OneCell, FallsThrough, ContinueDepth
<1>4. CASE JumpIfFalse
  <2>1. Executes({JUMP_IF_FALSE}) /\ Continue(IF JumpTaken THEN Operand ELSE NextPc, Below(1))
    BY <1>4 DEF JumpIfFalse
  <2>2. Executing /\ Op \in JumpOp /\ JUMP \notin {JUMP_IF_FALSE} /\ HALT \notin {JUMP_IF_FALSE}
    BY <2>1 DEF Executes, JumpOp, JUMP_IF_FALSE, JUMP, HALT
  <2>3. PICK pc : pc = IF JumpTaken THEN Operand ELSE NextPc
    OBVIOUS
  <2>4. pc \in Successors(Code, frame.pc) \/ ~ (pc < Len(Code))
    BY <1>1, <2>1, <2>2, <2>3, JumpLands, FallsThrough
  <2> QED
    BY <1>1, <2>1, <2>2, <2>3, <2>4, OneCell, ContinueDepth
<1>5. CASE Jump
  <2>1. Executes({JUMP}) /\ Continue(Operand, frame.stack)
    BY <1>5 DEF Jump
  <2>2. Executing /\ Op = JUMP /\ Op \in JumpOp
    BY <2>1 DEF Executes, JumpOp
  <2>3. Pushes(Code, frame.pc) = 0 /\ Pops(Code, frame.pc) = 0
    BY <2>2 DEF Pushes, Pops, Op, CALL_BUILTIN, PUSH_CONST_F32, LOAD_INPUT, LOAD_GLOBAL, LOAD_KEY,
      JUMP, HALT, STORE_GLOBAL, STORE_KEY, SET_COLOR, JUMP_IF_FALSE, DUP, UnaryOp, NEG, NOT,
      BinaryOp, ArithOp, ADD, SUB, MUL, DIV, MOD, EQ, NE, LT, LE, GT, GE, AND, OR, CLAMP, RGB,
      HSV, DIST
  <2>4. Len(frame.stack) = Depth + StackDelta(Code, frame.pc)
    BY <1>1, <2>3, StackCells DEF StackDelta
  <2> QED
    BY <2>1, <2>2, <2>4, JumpLands, ContinueDepth
<1>6. CASE Dup
  <2>1. Executes({DUP}) /\ Continue(NextPc, Append(frame.stack, frame.stack[Depth]))
    BY <1>6 DEF Dup
  <2>2. Executing /\ Op = DUP /\ JUMP \notin {DUP} /\ HALT \notin {DUP}
    BY <2>1 DEF Executes, DUP, JUMP, HALT
  <2>3. Pushes(Code, frame.pc) = 2 /\ Pops(Code, frame.pc) = 1
    BY <2>2 DEF Pushes, Pops, Op, CALL_BUILTIN, PUSH_CONST_F32, LOAD_INPUT, LOAD_GLOBAL, LOAD_KEY,
      JUMP, HALT, STORE_GLOBAL, STORE_KEY, SET_COLOR, JUMP_IF_FALSE, DUP, UnaryOp, NEG, NOT,
      BinaryOp, ArithOp, ADD, SUB, MUL, DIV, MOD, EQ, NE, LT, LE, GT, GE, AND, OR, CLAMP, RGB,
      HSV, DIST
  <2>4. Len(Append(frame.stack, frame.stack[Depth])) = Depth + StackDelta(Code, frame.pc)
    <3>1. /\ frame.stack \in Seq(Cell) /\ Depth = Len(frame.stack) /\ Depth \in Nat
          /\ frame.stack[Depth] \in Cell
      <4>1. Depth \in 1..Depth
        BY <1>1, <2>1, <2>2, OperandCells, StackCells
      <4> QED
        BY <1>1, <4>1, StackCells
    <3>2. Len(Append(frame.stack, frame.stack[Depth])) = Depth + 1
      BY <3>1, AppendProperties
    <3> QED
      BY <2>3, <3>1, <3>2 DEF StackDelta
  <2> QED
    BY <1>1, <2>1, <2>2, <2>4, FallsThrough, ContinueDepth
<1>7. CASE Halt \/ Trap \/ FallOff \/ SqrtDomainError
  <2>1. status' = "idle" /\ program' = program
    BY <1>7 DEF Halt, Trap, FallOff, SqrtDomainError, Return
  <2> QED
    BY <2>1 DEF DepthPredicted
<1> QED
  BY <1>2, <1>3, <1>4, <1>5, <1>6, <1>7 DEF Step

\* A call starts at offset 0 with an empty stack, as the analysis does.
LEMMA EnterDepth ==
  ASSUME SInv, NEW mode \in Mode, NEW key, NEW inputs, Enter(mode, key, inputs)
  PROVE  DepthPredicted' /\ program' = program
<1>1. /\ frame' = [NoFrame EXCEPT !.mode = mode, !.key = key, !.inputs = inputs]
      /\ program' = program
  BY DEF Enter
<1>2. frame'.mode = mode /\ frame'.pc = 0 /\ frame'.stack = << >>
  BY <1>1 DEF NoFrame
<1>3. Code' = Section(program, mode) /\ Depth' = 0
  BY <1>1, <1>2, EmptySeq DEF Code, Depth
<1>4. Section(program, mode) \in Seq(Byte)
  BY DEF SInv, IInv, TypeOK, Program, Section, Mode
<1>5. Len(Section(program, mode)) \in Nat
  BY <1>4, LenProperties
<1>6. ASSUME program \in Accepted, 0 < Len(Section(program, mode)) PROVE DepthAt(program, mode, 0) = 0
  <2>1. Certifies(Depths(program, mode), Section(program, mode), program.maxStack)
    BY <1>6, AcceptedAssumption
  <2>2. 0 \in 0..Len(Section(program, mode))-1 /\ Len(Section(program, mode)) > 0
    BY <1>5, <1>6
  <2> QED
    BY <2>1, <2>2 DEF Certifies, Depths
<1> QED
  BY <1>1, <1>2, <1>3, <1>6 DEF DepthPredicted, Unknown

LEMMA CallDepth == SInv /\ HostCall => DepthPredicted' /\ program' = program
<1> SUFFICES ASSUME SInv, HostCall PROVE DepthPredicted' /\ program' = program
  OBVIOUS
<1>1. CASE RunInit \/ (\E inputs \in Inputs : RunUpdate(inputs))
           \/ (\E key \in 0..KeySlots, inputs \in Inputs : RunRender(key, inputs))
  BY <1>1, EnterDepth DEF RunInit, RunUpdate, RunRender, Mode
<1>2. CASE InitState \/ ResetState \/ (\E installed \in BOOLEAN : SetRandom(installed))
           \/ (\E key \in 0..KeySlots : RunRenderBadKey(key))
  <2>1. program' = program /\ status' # "running"
    BY <1>2 DEF InitState, ResetState, SetRandom, RunRenderBadKey
  <2> QED
    BY <2>1 DEF DepthPredicted
<1> QED
  BY <1>1, <1>2 DEF HostCall

LEMMA SafetyInvariant == Spec => []SInv
<1>1. Init => SInv
  BY InitInv DEF Init, Uncreated, SInv, DepthPredicted
<1>2. SInv /\ [Next]_vars => SInv'
  <2> SUFFICES ASSUME SInv, [Next]_vars PROVE SInv'
    OBVIOUS
  <2>1. IInv'
    BY NextInv DEF SInv
  <2>2. CASE Next
    BY <2>1, <2>2, StepDepth, CallDepth DEF Next, SInv
  <2>3. CASE UNCHANGED vars
    BY <2>1, <2>3 DEF vars, SInv, DepthPredicted, Code, Depth
  <2> QED
    BY <2>2, <2>3
<1> QED
  BY <1>1, <1>2, PTL DEF Spec

\* Accepted code always runs at the depth recorded for the offset it is at, with any
\* inputs and in any storage (compute_section_stack_depth against execute_section).
THEOREM RunsAsPredicted == Spec => []DepthPredicted
<1>1. SInv => DepthPredicted
  BY DEF SInv
<1> QED
  BY <1>1, SafetyInvariant, PTL

\* Accepted code never overflows the stack that lumi_vm_init_state measured, never
\* meets a byte that is no instruction and never jumps out of its section.
THEOREM StructurallySafe == Spec => []NoStructuralFault
<1>1. SInv => NoStructuralFault
  <2> SUFFICES ASSUME SInv, program \in Accepted, Executing
               PROVE  Fault \notin FaultsExcluded /\ (Op = JUMP => Operand < Len(Code))
    BY DEF NoStructuralFault
  <2>1. Op \in Opcode /\ Decodable(Code, frame.pc)
    BY Certificate DEF Decodable, Op
  <2>2. ~ (Depth + StackDelta(Code, frame.pc) > StackCapacity)
    <3>1. program.maxStack <= StackCapacity
      BY Certificate DEF SInv, IInv, FitsStorage
    <3>2. program.maxStack \in Nat
      <4>1. program.maxStack \in U16
        BY Certificate DEF TypeOK, Program
      <4> QED
        BY <4>1, U16Nat
    <3>3. \A m, c \in Nat : m <= c => \A n \in 0..m : ~ (n > c)
      OBVIOUS
    <3> QED
      BY <3>1, <3>2, <3>3, Certificate, StorageAssumption
  <2>3. ASSUME Op \in JumpOp PROVE Operand < Len(Code)
    BY <2>3, JumpLands, Certificate
  <2>4. Op = JUMP \/ JumpTaken => Op \in JumpOp
    BY DEF JumpTaken, JumpOp
  <2>5. JumpTaken => ~ (Operand >= Len(Code))
    <3>1. ASSUME JumpTaken PROVE Operand < Len(Code) /\ Operand \in Nat /\ Len(Code) \in Nat
      <4>1. Operand \in Nat
        BY <2>1, <2>4, <3>1, Certificate, CodeType, SuccessorType, JumpLands
      <4> QED
        BY <2>3, <2>4, <3>1, <4>1, Certificate, CodeType
    <3> QED
      BY <3>1
  <2>6. Fault \notin FaultsExcluded
    BY <2>1, <2>2, <2>5 DEF Fault, FaultsExcluded, NoError
  <2> QED
    BY <2>3, <2>4, <2>6
<1> QED
  BY <1>1, SafetyInvariant, PTL
=============================================================================
