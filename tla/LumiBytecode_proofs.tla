------------------------- MODULE LumiBytecode_proofs ------------------------
(***************************************************************************)
(* Lemmas about decoding, which the proofs about the virtual machine and   *)
(* about the stack analysis share.                                         *)
(***************************************************************************)
EXTENDS LumiBytecode, SequenceTheorems, WellFoundedInduction, TLAPS

\* Induction over a set of numbers.
LEMMA EveryNumber ==
  ASSUME NEW T, T \subseteq Nat, 0 \in T, \A n \in T : n + 1 \in T
  PROVE  \A n \in Nat : n \in T
<1> SUFFICES ASSUME NEW k \in Nat, k \notin T PROVE FALSE
  OBVIOUS
<1>1. PICK n \in Nat \ T : \A m \in Nat \ T : <<m, n>> \notin OpToRel(<, Nat)
  <2>1. Nat \ T \subseteq Nat /\ Nat \ T # {}
    OBVIOUS
  <2> QED
    BY <2>1, NatLessThanWellFounded, WFMin
<1>2. n \in Nat /\ n - 1 \in Nat
  OBVIOUS
<1>3. <<n - 1, n>> \in OpToRel(<, Nat)
  BY <1>2 DEF OpToRel
<1>4. n - 1 \in T
  BY <1>1, <1>2, <1>3
<1> QED
  BY <1>2, <1>4

LEMMA Limits == UINT8_MAX \in Nat /\ UINT16_MAX \in Nat
BY DEF UINT8_MAX, UINT16_MAX

LEMMA ByteNat == \A n : n \in Byte <=> n \in Nat /\ n <= UINT8_MAX
BY Limits DEF Byte

LEMMA U16Nat == \A n : n \in U16 <=> n \in Nat /\ n <= UINT16_MAX
BY Limits DEF U16

LEMMA U16Range == \A low, high \in Byte : low + 256 * high \in U16
<1>1. \A low, high \in Nat : low <= 255 /\ high <= 255 =>
        low + 256 * high \in Nat /\ low + 256 * high <= 65535
  OBVIOUS
<1>2. \A low, high \in Nat : low <= UINT8_MAX /\ high <= UINT8_MAX =>
        low + 256 * high \in Nat /\ low + 256 * high <= UINT16_MAX
  BY <1>1 DEF UINT8_MAX, UINT16_MAX
<1> QED
  BY <1>2, ByteNat, U16Nat

LEMMA DeltaType ==
  ASSUME NEW code \in Seq(Byte), NEW pc \in Nat, Decodable(code, pc)
  PROVE  StackDelta(code, pc) \in Int
<1>1. pc < Len(code) /\ ByteAt(code, pc) \in Opcode /\ pc + EncodedSize(ByteAt(code, pc)) <= Len(code)
  BY DEF Decodable
<1>2. Pops(code, pc) \in Int
  <2>1. CASE ByteAt(code, pc) = CALL_BUILTIN
    <3>1. EncodedSize(ByteAt(code, pc)) = 3
      BY <2>1 DEF EncodedSize
    <3>2. pc + 2 + 1 \in 1..Len(code)
      BY <1>1, <3>1, LenProperties
    <3>3. ByteAt(code, pc + 2) \in Byte
      BY <3>2, ElementOfSeq DEF ByteAt
    <3>4. Pops(code, pc) = ByteAt(code, pc + 2)
      BY <2>1 DEF Pops, CALL_BUILTIN, PUSH_CONST_F32, LOAD_INPUT, LOAD_GLOBAL, LOAD_KEY,
        JUMP, HALT, STORE_GLOBAL, STORE_KEY, SET_COLOR, JUMP_IF_FALSE, DUP, UnaryOp, NEG, NOT,
        BinaryOp, ArithOp, ADD, SUB, MUL, DIV, MOD, EQ, NE, LT, LE, GT, GE, AND, OR, CLAMP,
        RGB, HSV, DIST
    <3> QED
      BY <3>3, <3>4, ByteNat
  <2>2. CASE ByteAt(code, pc) # CALL_BUILTIN
    BY <1>1, <2>2 DEF Pops, Opcode, CALL_BUILTIN, PUSH_CONST_F32, LOAD_INPUT, LOAD_GLOBAL,
      LOAD_KEY, JUMP, HALT, STORE_GLOBAL, STORE_KEY, SET_COLOR, JUMP_IF_FALSE, DUP, UnaryOp,
      NEG, NOT, BinaryOp, ArithOp, ADD, SUB, MUL, DIV, MOD, EQ, NE, LT, LE, GT, GE, AND, OR,
      CLAMP, RGB, HSV, DIST
  <2> QED
    BY <2>1, <2>2
<1>3. Pushes(code, pc) \in Int
  BY DEF Pushes
<1> QED
  BY <1>2, <1>3 DEF StackDelta

LEMMA SuccessorType ==
  ASSUME NEW code \in Seq(Byte), NEW pc \in Nat, Decodable(code, pc)
  PROVE  /\ Successors(code, pc) \subseteq Nat
         /\ ByteAt(code, pc) \in JumpOp => Target(code, pc) \in Nat
         /\ pc + InstructionSize(code, pc) \in Nat
<1>1. pc < Len(code) /\ pc + EncodedSize(ByteAt(code, pc)) <= Len(code)
  BY DEF Decodable
<1>2. EncodedSize(ByteAt(code, pc)) \in 1..3
  BY DEF EncodedSize
<1>3. ASSUME ByteAt(code, pc) \in JumpOp PROVE Target(code, pc) \in Nat
  <2>1. EncodedSize(ByteAt(code, pc)) = 3
    BY <1>3 DEF EncodedSize, JumpOp
  <2>2. pc + 1 + 1 \in 1..Len(code) /\ pc + 2 + 1 \in 1..Len(code) /\ pc + 2 = pc + 1 + 1
    BY <1>1, <2>1, LenProperties
  <2>3. ByteAt(code, pc + 1) \in Byte /\ ByteAt(code, pc + 2) \in Byte
    BY <2>2, ElementOfSeq DEF ByteAt
  <2>4. Target(code, pc) = ByteAt(code, pc + 1) + 256 * ByteAt(code, pc + 2)
    BY <2>2 DEF Target, ReadU16
  <2> QED
    BY <2>3, <2>4, U16Range, U16Nat
<1>4. pc + InstructionSize(code, pc) \in Nat
  BY <1>2 DEF InstructionSize
<1> QED
  BY <1>3, <1>4 DEF Successors
=============================================================================
