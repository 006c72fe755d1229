--------------------------- MODULE LumiStackDepth ---------------------------
(***************************************************************************)
(* The last pass of the optimizer: compute_section_stack_depth walks the   *)
(* code of each section from offset 0 with a worklist, gives every offset  *)
(* it reaches the stack depth execution has there, and refuses code in     *)
(* which that depth is not unique.  recompute_max_stack takes the greatest *)
(* depth over the three sections as the program's max_stack_depth.         *)
(*                                                                         *)
(* The C function frees stack_at when a section is done; the module keeps  *)
(* the arrays of all three, because they certify the verdict.              *)
(***************************************************************************)
EXTENDS LumiCertificate

CONSTANT Emitted   \* the code of the three sections, as the earlier passes left it

Names == <<"init", "update", "render">>
Sections == {"init", "update", "render"}

ASSUME EmittedAssumption == Emitted \subseteq [Sections -> Seq(Byte)]

VARIABLES
  sections,  \* the code being analysed
  current,   \* how many sections are done, plus 1
  phase,     \* "start" between sections, "visit" inside one
  stackAt,   \* stack_at of each section: the depth before each offset, or -1
  work,      \* the worklist, its last element on top
  maxStack,  \* the greatest depth so far
  verdict    \* "running", "accepted" or the error

depthVars == <<sections, current, phase, stackAt, work, maxStack, verdict>>

Rejection == {"invalid bytecode", "invalid stack depth", "jump target out of range",
              "inconsistent stack depth"}

Name == Names[current]
Analysed == sections[Name]
Marks == stackAt[Name]

\* The offset taken from the worklist, and the depth after its instruction.
Pc == work[Len(work)]
NextStack == Marks[Pc] + StackDelta(Analysed, Pc)

\* An offset that has no depth yet joins the worklist.
IsNew_Always(t) == TRUE  \* mutant: offsets that have a depth join it again
IsNew(t) == Marks[t] = Unknown

\* The offsets PUSH_STACK_TARGET adds to the worklist: the jump's target before the
\* next instruction, and one that is both only once.
Optional(condition, t) == IF condition THEN <<t>> ELSE << >>
NewTargets ==
  LET op == ByteAt(Analysed, Pc)
      jump == Target(Analysed, Pc)
      next == Pc + InstructionSize(Analysed, Pc)
  IN  Optional(op \in JumpOp /\ IsNew(jump), jump)
      \o Optional(op \notin {JUMP, HALT} /\ next < Len(Analysed) /\ IsNew(next)
                   /\ ~ (op \in JumpOp /\ jump = next), next)

Peak_BeforePops ==  \* mutant: the operands are counted with the result
  IF Marks[Pc] + Pushes(Analysed, Pc) > maxStack THEN Marks[Pc] + Pushes(Analysed, Pc) ELSE maxStack

Peak == IF NextStack > maxStack THEN NextStack ELSE maxStack

LeavesCode == \E t \in Successors(Analysed, Pc) : t >= Len(Analysed)
Disagrees == \E t \in Successors(Analysed, Pc) : Marks[t] \notin {Unknown, NextStack}

VisitFault_AnyDepth ==  \* mutant: the first depth found wins
  IF ~Decodable(Analysed, Pc) THEN "invalid bytecode"
  ELSE IF NextStack \notin 0..UINT16_MAX THEN "invalid stack depth"
  ELSE IF LeavesCode THEN "jump target out of range"
  ELSE "none"

VisitFault_NoUnderflow ==  \* mutant: a negative depth passes
  IF ~Decodable(Analysed, Pc) THEN "invalid bytecode"
  ELSE IF NextStack > UINT16_MAX THEN "invalid stack depth"
  ELSE IF LeavesCode THEN "jump target out of range"
  ELSE IF Disagrees THEN "inconsistent stack depth"
  ELSE "none"

VisitFault_MustHalt ==  \* mutant: running off the end is refused here
  IF ~Decodable(Analysed, Pc) THEN "invalid bytecode"
  ELSE IF NextStack \notin 0..UINT16_MAX THEN "invalid stack depth"
  ELSE IF LeavesCode \/ (ByteAt(Analysed, Pc) # HALT /\ Successors(Analysed, Pc) = {})
       THEN "jump target out of range"
  ELSE IF Disagrees THEN "inconsistent stack depth"
  ELSE "none"

\* Why the instruction at Pc is refused, in the order of the checks.
VisitFault ==
  IF ~Decodable(Analysed, Pc) THEN "invalid bytecode"
  ELSE IF NextStack \notin 0..UINT16_MAX THEN "invalid stack depth"
  ELSE IF LeavesCode THEN "jump target out of range"
  ELSE IF Disagrees THEN "inconsistent stack depth"
  ELSE "none"

-----------------------------------------------------------------------------
DepthInit ==
  /\ sections \in Emitted
  /\ current = 1
  /\ phase = "start"
  /\ stackAt = [s \in Sections |-> [i \in 0..Len(sections[s])-1 |-> Unknown]]
  /\ work = << >>
  /\ maxStack = 0
  /\ verdict = "running"

StartSection ==
  /\ verdict = "running" /\ phase = "start" /\ current <= 3
  /\ IF Analysed = << >>
     THEN /\ current' = current + 1
          /\ UNCHANGED <<phase, stackAt, work>>
     ELSE /\ phase' = "visit"
          /\ stackAt' = [stackAt EXCEPT ![Name] = [@ EXCEPT ![0] = 0]]
          /\ work' = <<0>>
          /\ UNCHANGED current
  /\ UNCHANGED <<sections, maxStack, verdict>>

\* One turn of the while loop.
Visit ==
  /\ verdict = "running" /\ phase = "visit" /\ work # << >>
  /\ VisitFault = "none"
  /\ stackAt' = [stackAt EXCEPT ![Name] =
                   [i \in DOMAIN Marks |->
                      IF i \in Successors(Analysed, Pc) THEN NextStack ELSE Marks[i]]]
  /\ work' = SubSeq(work, 1, Len(work) - 1) \o NewTargets
  /\ maxStack' = Peak
  /\ UNCHANGED <<sections, current, phase, verdict>>

Refuse ==
  /\ verdict = "running" /\ phase = "visit" /\ work # << >>
  /\ VisitFault # "none"
  /\ verdict' = VisitFault
  /\ UNCHANGED <<sections, current, phase, stackAt, work, maxStack>>

FinishSection ==
  /\ verdict = "running" /\ phase = "visit" /\ work = << >>
  /\ current' = current + 1
  /\ phase' = "start"
  /\ UNCHANGED <<sections, stackAt, work, maxStack, verdict>>

\* recompute_max_stack stores the maximum.
Accept ==
  /\ verdict = "running" /\ phase = "start" /\ current = 4
  /\ verdict' = "accepted"
  /\ UNCHANGED <<sections, current, phase, stackAt, work, maxStack>>

DepthNext == StartSection \/ Visit \/ Refuse \/ FinishSection \/ Accept

DepthSpec == DepthInit /\ [][DepthNext]_depthVars

\* The pass is one sequential call: it goes on until it returns.
FairDepthSpec == DepthSpec /\ WF_depthVars(DepthNext)

-----------------------------------------------------------------------------
(* Properties *)

TypeOK ==
  /\ sections \in [Sections -> Seq(Byte)]
  /\ current \in 1..4
  /\ phase \in {"start", "visit"}
  /\ \A s \in Sections : stackAt[s] \in [0..Len(sections[s])-1 -> -1..UINT16_MAX]
  /\ DOMAIN stackAt = Sections
  /\ work \in Seq(Nat)
  /\ maxStack \in U16
  /\ verdict \in {"running", "accepted"} \cup Rejection

\* The worklist never outgrows the code->count cells allocated for it, and holds no
\* offset twice (malloc in compute_section_stack_depth, worklist[work_count++]).
WorklistFits ==
  phase = "visit" /\ verdict = "running" =>
    /\ Len(work) <= Len(Analysed)
    /\ \A i, j \in DOMAIN work : work[i] = work[j] => i = j

\* Acceptance means that the marks are such a certificate for the recorded maximum,
\* in all three sections (recompute_max_stack).
AcceptedCertified ==
  verdict = "accepted" =>
    \A s \in Sections : Certifies(stackAt[s], sections[s], maxStack)

\* The recorded maximum is no larger than needed: some instruction reaches it.
MaxReached ==
  maxStack > 0 =>
    \E s \in Sections : \E pc \in DOMAIN stackAt[s] :
      /\ stackAt[s][pc] # Unknown
      /\ Decodable(sections[s], pc)
      /\ stackAt[s][pc] + StackDelta(sections[s], pc) = maxStack

\* The verdict is that of the reference: nothing is accepted with a path that breaks
\* it, nothing is refused without one.
VerdictExact ==
  verdict # "running" =>
    (verdict = "accepted" <=> \A s \in Sections : WellBehaved(sections[s]))

\* The pass returns on any code, loops included (an offset joins the worklist once).
Returns == <>(verdict # "running")
=============================================================================
