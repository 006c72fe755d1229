---------------------------- MODULE LumiOptimizer ---------------------------
(***************************************************************************)
(* The bytecode passes of -O2 and -O3, in their order: jumps to jumps are  *)
(* threaded, instructions that nothing reaches are removed, jumps to the   *)
(* next instruction are removed, jumps are threaded again, and constants   *)
(* that no instruction pushes are dropped.  (The last pass, the stack      *)
(* analysis, is LumiStackDepth.)  A pass that refuses its input ends the   *)
(* compilation.                                                            *)
(***************************************************************************)
EXTENDS LumiBytecode, SequencesExt

Names == <<"init", "update", "render">>
Sections == {"init", "update", "render"}

-----------------------------------------------------------------------------
(* Walking a section *)

\* The offsets met by stepping over the instructions from offset 0, up to one that
\* cannot be decoded.
Starts(code) ==
  LET from[pc \in 0..Len(code)] ==
        LET next == pc + InstructionSize(code, pc) IN
        IF Decodable(code, pc) /\ next < Len(code) THEN {pc} \cup from[next] ELSE {pc}
  IN  IF code = << >> THEN {} ELSE from[0]

Decodes(code) == \A pc \in Starts(code) : Decodable(code, pc)

Jumps(code) == {pc \in Starts(code) : ByteAt(code, pc) \in JumpOp}

Instruction(code, pc) == SubSeq(code, pc + 1, pc + InstructionSize(code, pc))

\* The code with other operands for the instructions in DOMAIN operands.
Retargeted(code, operands) ==
  [i \in DOMAIN code |-> IF i - 2 \in DOMAIN operands THEN U16Bytes(operands[i - 2])[1]
                         ELSE IF i - 3 \in DOMAIN operands THEN U16Bytes(operands[i - 3])[2]
                         ELSE code[i]]

Retarget(code, pc, target) ==
  [code EXCEPT ![pc + 2] = U16Bytes(target)[1], ![pc + 3] = U16Bytes(target)[2]]

-----------------------------------------------------------------------------
(* thread_jumps *)

\* Where target leads in at most n jumps.
Threaded(code, target, n) ==
  LET hop[k \in 0..n] ==
        IF k = 0 THEN target
        ELSE LET t == hop[k - 1] IN
             IF t < Len(code) /\ ByteAt(code, t) = JUMP THEN Target(code, t) ELSE t
  IN  hop[n]

\* The chain from target does not end: the guard of the loop stops it.
Endless(code, target) ==
  LET t == Threaded(code, target, Len(code)) IN t < Len(code) /\ ByteAt(code, t) = JUMP

\* mutant: one jump of a chain is followed
ThreadJumps_OneHop(code) ==
  Retargeted(code, [pc \in Jumps(code) |-> Threaded(code, Target(code, pc), 1)])

\* The jumps are threaded one after the other, in place: passed[k] is the code after the
\* first k, and Nth(k) the jump with k - 1 jumps before it.
ThreadJumps(code) ==
  LET jumps == Jumps(code)
      Nth(k) == CHOOSE pc \in jumps : Cardinality({p \in jumps : p < pc}) = k - 1
      passed[k \in 0..Cardinality(jumps)] ==
        IF k = 0 THEN code
        ELSE LET c == passed[k - 1] IN
             Retarget(c, Nth(k), Threaded(c, Target(c, Nth(k)), Len(c)))
  IN  passed[Cardinality(jumps)]

ThreadFault(code) ==
  IF ~Decodes(code) THEN "invalid bytecode while threading jumps"
  ELSE IF \E pc \in Jumps(code) : Endless(code, Target(code, pc)) THEN "jump cycle while optimizing"
  ELSE "none"

-----------------------------------------------------------------------------
(* Removing instructions *)

\* The bytes of the instructions at offsets.
BytesOf(code, offsets) == UNION {pc..pc+InstructionSize(code, pc)-1 : pc \in offsets}

\* The elements of seq at the offsets in kept, one behind the other.
Selected(seq, kept) ==
  LET out[k \in 0..Len(seq)] ==
        IF k = 0 THEN << >>
        ELSE IF k - 1 \in kept THEN Append(out[k - 1], seq[k]) ELSE out[k - 1]
  IN  out[Len(seq)]

\* mutant: the targets stay those of the old offsets
Without_OldTargets(code, dropped) == Selected(code, BytesOf(code, Starts(code) \ dropped))

\* The code without the instructions at dropped.  A target maps to the number of bytes
\* kept before its instruction (pc_map), which is where that instruction, or the
\* first one kept after it, goes.
Without(code, dropped) ==
  LET kept == Starts(code) \ dropped
      Mapped(target) ==
        Cardinality(BytesOf(code, {pc \in kept : pc + InstructionSize(code, pc) <= target}))
      moved == Retargeted(code, [pc \in kept \cap Jumps(code) |-> Mapped(Target(code, pc))])
  IN  IF dropped = {} THEN code ELSE Selected(moved, BytesOf(code, kept))

\* The offsets on a path from offset 0: a path of more instructions than there are
\* meets no new ones.
Reached(code) ==
  LET reach[n \in 0..Cardinality(Starts(code))] ==
        IF n = 0 THEN [met |-> {0}, last |-> {0}]
        ELSE LET nearer == reach[n - 1]
                 farther == (UNION {Successors(code, pc) : pc \in {p \in nearer.last : Decodable(code, p)}})
                              \ nearer.met
             IN  [met |-> nearer.met \cup farther, last |-> farther]
  IN  IF code = << >> THEN {} ELSE reach[Cardinality(Starts(code))].met

RemoveUnreachable(code) == Without(code, Starts(code) \ Reached(code))

UnreachableFault(code) ==
  IF ~Decodes(code) THEN "invalid bytecode while removing dead code"
  ELSE IF ~ (Reached(code) \subseteq Starts(code)) THEN "invalid jump target while removing dead code"
  ELSE "none"

\* The jumps to the next instruction.
NoopJumps(code) ==
  {pc \in Starts(code) : ByteAt(code, pc) = JUMP /\ Target(code, pc) = pc + 3}

RemoveNoopJumps(code) == Without(code, NoopJumps(code))

NoopFault(code) ==
  IF ~Decodes(code) THEN "invalid bytecode while optimizing"
  ELSE IF NoopJumps(code) # {} /\ \E pc \in Jumps(code) \ NoopJumps(code) : Target(code, pc) > Len(code)
       THEN "jump target out of range while optimizing"
  ELSE "none"

-----------------------------------------------------------------------------
(* compact_constants *)

PushedBy(code) ==
  {ReadU16(code, pc + 1) : pc \in {p \in Starts(code) : ByteAt(code, p) = PUSH_CONST_F32}}

\* The indices of the constants that some section pushes.
Used(codes) == UNION {PushedBy(codes[s]) : s \in Sections}

KeptConstants(constants, used) == Selected(constants, used)

Renumbered_Keeps(code, used) == code  \* mutant: the old indices stay

\* An index becomes the number of indices that are used below it.
Renumbered(code, used) ==
  Retargeted(code, [pc \in {p \in Starts(code) : ByteAt(code, p) = PUSH_CONST_F32} |->
                      Cardinality({i \in used : i < ReadU16(code, pc + 1)})])

\* Without constants there is nothing to renumber.
Compacted(codes, constants) ==
  IF constants = << >> THEN codes ELSE [s \in Sections |-> Renumbered(codes[s], Used(codes))]

CompactFault(codes, constants) ==
  IF constants # << >> /\ ~ (Used(codes) \subseteq 0..Len(constants)-1)
  THEN "constant index out of range while optimizing"
  ELSE "none"
=============================================================================
