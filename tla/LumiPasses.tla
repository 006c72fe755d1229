----------------------------- MODULE LumiPasses -----------------------------
(***************************************************************************)
(* optimize_emitted_bytecode, pass by pass, up to the stack analysis: what *)
(* the three sections and the constants are after each pass of             *)
(* LumiOptimizer.                                                          *)
(***************************************************************************)
EXTENDS LumiOptimizer

CONSTANT Unoptimized   \* [codes, constants] as the emitter leaves them

ASSUME UnoptimizedAssumption ==
  \A u \in Unoptimized :
    /\ DOMAIN u.codes = Sections /\ \A s \in Sections : u.codes[s] \in Seq(Byte)
    /\ u.constants \in Seq(Range(u.constants))

VARIABLES
  codes,      \* the code of each section
  constants,  \* the constant table
  pass,       \* the pass to come, or "done"
  refusal     \* the error of a pass, or "none"

passVars == <<codes, constants, pass, refusal>>

PassInit ==
  /\ \E u \in Unoptimized : codes = u.codes /\ constants = u.constants
  /\ pass = "thread"
  /\ refusal = "none"

\* A pass over the three sections, which the next one follows unless it refuses the
\* code of one.
Sweep(this, next, FaultOf(_), On(_)) ==
  /\ pass = this /\ refusal = "none"
  /\ IF \A s \in Sections : FaultOf(codes[s]) = "none"
     THEN /\ codes' = [s \in Sections |-> On(codes[s])]
          /\ pass' = next
          /\ UNCHANGED refusal
     ELSE /\ refusal' \in {FaultOf(codes[s]) : s \in Sections} \ {"none"}
          /\ UNCHANGED <<codes, pass>>
  /\ UNCHANGED constants

Thread == Sweep("thread", "unreachable", ThreadFault, ThreadJumps)
DropUnreachable == Sweep("unreachable", "noops", UnreachableFault, RemoveUnreachable)
DropNoopJumps == Sweep("noops", "thread again", NoopFault, RemoveNoopJumps)
ThreadAgain == Sweep("thread again", "constants", ThreadFault, ThreadJumps)

CompactConstants ==
  /\ pass = "constants" /\ refusal = "none"
  /\ IF CompactFault(codes, constants) = "none"
     THEN /\ constants' = KeptConstants(constants, Used(codes))
          /\ codes' = Compacted(codes, constants)
          /\ pass' = "done"
          /\ UNCHANGED refusal
     ELSE /\ refusal' = CompactFault(codes, constants)
          /\ UNCHANGED <<codes, constants, pass>>

PassNext == Thread \/ DropUnreachable \/ DropNoopJumps \/ ThreadAgain \/ CompactConstants

PassSpec == PassInit /\ [][PassNext]_passVars

-----------------------------------------------------------------------------
(* Properties *)

\* What code does from offset 0, as a tree: the instructions with the constants they
\* push, a branch for each conditional jump, and no trace of the other jumps.
Behaviour(code, pool) ==
  LET tree[pc \in 0..Len(code)] ==
        LET op == ByteAt(code, pc)
            next == pc + InstructionSize(code, pc)
            pushed == ReadU16(code, pc + 1) + 1
            From(t) == IF t \in pc+1..Len(code) THEN tree[t] ELSE <<"goes elsewhere">>
        IN  IF ~Decodable(code, pc) THEN <<"runs off">>
            ELSE CASE op = HALT -> <<"halts">>
                   [] op = JUMP -> From(Target(code, pc))
                   [] op = JUMP_IF_FALSE -> <<"tests", From(next), From(Target(code, pc))>>
                   [] op = PUSH_CONST_F32 -> <<"pushes", IF pushed \in DOMAIN pool THEN <<pool[pushed]>> ELSE << >>, From(next)>>
                   [] OTHER -> <<"does", Instruction(code, pc), From(next)>>
  IN  tree[0]

\* No pass changes what a section does: the same instructions on the same decisions,
\* with the same constants (the pc_map of the two removals, the mapping of the
\* constants, the targets of threaded jumps).
KeepsBehaviour == [][
  \A s \in Sections : Behaviour(codes'[s], constants') = Behaviour(codes[s], constants) ]_passVars

\* One round is enough: afterwards no jump leads to a jump or to the next
\* instruction, every instruction is reachable and every constant is pushed
\* (the order of the calls in optimize_emitted_bytecode).
Settled ==
  pass = "done" =>
    /\ \A s \in Sections :
         /\ ThreadJumps(codes[s]) = codes[s]
         /\ NoopJumps(codes[s]) = {}
         /\ Starts(codes[s]) = Reached(codes[s])
    /\ Used(codes) = 0..Len(constants)-1

\* Code whose jumps lead forward to instructions, and which pushes what there is.
WellFormed(code, pool) ==
  /\ code \in Seq(Byte)
  /\ Decodes(code)
  /\ \A pc \in Jumps(code) : Target(code, pc) > pc /\ Target(code, pc) \in Starts(code)
  /\ PushedBy(code) \subseteq 0..Len(pool)-1

\* The passes refuse no such code and leave such code to the passes after them, the
\* file and the machine (every set_emit_error of the passes is for other code).
KeepsWellFormed == [][
  (\A s \in Sections : WellFormed(codes[s], constants)) =>
    refusal' = "none" /\ \A s \in Sections : WellFormed(codes'[s], constants') ]_passVars
=============================================================================
