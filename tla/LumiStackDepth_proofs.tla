------------------------ MODULE LumiStackDepth_proofs -----------------------
(***************************************************************************)
(* The stack analysis is right for code of any length: its worklist stays  *)
(* inside its allocation, the marks of accepted code certify it, the       *)
(* maximum is reached, and the verdict is the one of the reference.        *)
(*                                                                         *)
(* For the last, a certificate gives every offset of a path its mark, so   *)
(* accepted code is well behaved; and the paths of well behaved code are   *)
(* closed under one more instruction, since they have no more pairs than   *)
(* the code has bytes, so every mark lies on a path and nothing that is    *)
(* refused at a mark could have been well behaved.                         *)
(***************************************************************************)
EXTENDS LumiStackDepth, LumiBytecode_proofs, FiniteSetTheorems

\* The instruction at a marked offset has been visited: nothing about it is wrong, and
\* its successors have the depth after it.
Checked(s, pc) ==
  LET after == stackAt[s][pc] + StackDelta(sections[s], pc) IN
    /\ Decodable(sections[s], pc)
    /\ after \in 0..maxStack
    /\ \A t \in Successors(sections[s], pc) : t < Len(sections[s]) /\ stackAt[s][t] = after

Holds(s, x) == \E i \in 1..Len(s) : s[i] = x
Distinct(s) == \A i, j \in 1..Len(s) : s[i] = s[j] => i = j
Apart(s, t) == \A x : ~ (Holds(s, x) /\ Holds(t, x))

\* The worklist holds marked offsets of the section, each once.
WorkInv ==
  phase = "visit" =>
    /\ current \in 1..3
    /\ Marks[0] = 0 /\ Len(Analysed) > 0
    /\ \A pc : Holds(work, pc) => pc \in 0..Len(Analysed)-1 /\ Marks[pc] # Unknown
    /\ Distinct(work)

\* A marked offset of the section being visited is checked or waits in the worklist.
VisitInv ==
  phase = "visit" =>
    \A pc \in 0..Len(Analysed)-1 : Marks[pc] # Unknown => Checked(Name, pc) \/ Holds(work, pc)

\* All of them are, in a finished section; a later section is untouched.
FinishedInv ==
  \A k \in 1..3 : k < current =>
    /\ Len(sections[Names[k]]) > 0 => stackAt[Names[k]][0] = 0
    /\ \A pc \in 0..Len(sections[Names[k]])-1 :
         stackAt[Names[k]][pc] # Unknown => Checked(Names[k], pc)

UntouchedInv ==
  \A k \in 1..3 : (IF phase = "start" THEN k >= current ELSE k > current) =>
    \A pc \in 0..Len(sections[Names[k]])-1 : stackAt[Names[k]][pc] = Unknown

DInv ==
  /\ TypeOK /\ WorkInv /\ VisitInv /\ FinishedInv /\ UntouchedInv
  /\ verdict = "accepted" => current = 4

-----------------------------------------------------------------------------
(* Lemmas about decoding and the worklist *)

LEMMA NamesAre ==
  /\ \A k \in 1..3 : Names[k] \in Sections
  /\ \A j, k \in 1..3 : Names[j] = Names[k] => j = k
  /\ \A s \in Sections : \E k \in 1..3 : s = Names[k]
BY DEF Names, Sections

LEMMA OptionalFacts ==
  ASSUME NEW S, NEW p, NEW a, p => a \in S
  PROVE  /\ Optional(p, a) \in Seq(S) /\ Distinct(Optional(p, a))
         /\ \A x : Holds(Optional(p, a), x) <=> p /\ x = a
<1>1. CASE p
  <2>1. Optional(p, a) = <<a>>
    BY <1>1 DEF Optional
  <2>2. <<a>> \in Seq(S) /\ Len(<<a>>) = 1 /\ <<a>>[1] = a
    BY <1>1
  <2>3. \A i \in 1..Len(<<a>>) : i = 1
    BY <2>2
  <2>4. Distinct(<<a>>)
    BY <2>3 DEF Distinct
  <2>5. \A x : Holds(<<a>>, x) <=> x = a
    BY <2>2, <2>3 DEF Holds
  <2> QED
    BY <1>1, <2>1, <2>2, <2>4, <2>5
<1>2. CASE ~p
  <2>1. Optional(p, a) = << >>
    BY <1>2 DEF Optional
  <2> QED
    BY <1>2, <2>1 DEF Distinct, Holds
<1> QED
  BY <1>1, <1>2

LEMMA Concatenated ==
  ASSUME NEW S, NEW s \in Seq(S), NEW t \in Seq(S)
  PROVE  /\ s \o t \in Seq(S) /\ Len(s \o t) = Len(s) + Len(t)
         /\ \A i \in 1..Len(s) : i \in 1..Len(s \o t) /\ (s \o t)[i] = s[i]
         /\ \A i \in 1..Len(t) : Len(s) + i \in 1..Len(s \o t) /\ (s \o t)[Len(s) + i] = t[i]
         /\ \A i \in 1..Len(s \o t) : i \in 1..Len(s) \/ \E j \in 1..Len(t) : i = Len(s) + j
<1>1. Len(s) \in Nat /\ Len(t) \in Nat
  BY LenProperties
<1>2. /\ s \o t \in Seq(S) /\ Len(s \o t) = Len(s) + Len(t)
      /\ \A i \in 1..Len(s) + Len(t) : (s \o t)[i] = IF i <= Len(s) THEN s[i] ELSE t[i - Len(s)]
  BY ConcatProperties
<1>3. ASSUME NEW i \in 1..Len(s) PROVE i \in 1..Len(s \o t) /\ (s \o t)[i] = s[i]
  <2>1. i \in 1..Len(s) + Len(t) /\ i <= Len(s)
    BY <1>1
  <2> QED
    BY <1>2, <2>1
<1>4. ASSUME NEW i \in 1..Len(t) PROVE Len(s) + i \in 1..Len(s \o t) /\ (s \o t)[Len(s) + i] = t[i]
  <2>1. Len(s) + i \in 1..Len(s) + Len(t) /\ ~ (Len(s) + i <= Len(s)) /\ Len(s) + i - Len(s) = i
    BY <1>1
  <2> QED
    BY <1>2, <2>1
<1>5. ASSUME NEW i \in 1..Len(s \o t), i \notin 1..Len(s) PROVE \E j \in 1..Len(t) : i = Len(s) + j
  <2>1. i - Len(s) \in 1..Len(t) /\ i = Len(s) + (i - Len(s))
    BY <1>1, <1>2, <1>5
  <2> QED
    BY <2>1
<1> QED
  BY <1>2, <1>3, <1>4, <1>5

LEMMA ConcatHolds ==
  ASSUME NEW S, NEW s \in Seq(S), NEW t \in Seq(S)
  PROVE  \A x : Holds(s \o t, x) <=> Holds(s, x) \/ Holds(t, x)
<1>1. ASSUME NEW x, Holds(s \o t, x) PROVE Holds(s, x) \/ Holds(t, x)
  <2>1. PICK i \in 1..Len(s \o t) : (s \o t)[i] = x
    BY <1>1 DEF Holds
  <2>2. CASE i \in 1..Len(s)
    <3>1. s[i] = x
      BY <2>1, <2>2, Concatenated
    <3> QED
      BY <2>2, <3>1 DEF Holds
  <2>3. CASE i \notin 1..Len(s)
    <3>1. PICK j \in 1..Len(t) : i = Len(s) + j
      BY <2>3, Concatenated
    <3>2. t[j] = x
      BY <2>1, <3>1, Concatenated
    <3> QED
      BY <3>2 DEF Holds
  <2> QED
    BY <2>2, <2>3
<1>2. ASSUME NEW x, Holds(s, x) PROVE Holds(s \o t, x)
  BY <1>2, Concatenated DEF Holds
<1>3. ASSUME NEW x, Holds(t, x) PROVE Holds(s \o t, x)
  <2>1. PICK j \in 1..Len(t) : t[j] = x
    BY <1>3 DEF Holds
  <2>2. Len(s) + j \in 1..Len(s \o t) /\ (s \o t)[Len(s) + j] = x
    BY <2>1, Concatenated
  <2> QED
    BY <2>2 DEF Holds
<1> QED
  BY <1>1, <1>2, <1>3

LEMMA ConcatDistinct ==
  ASSUME NEW S, NEW s \in Seq(S), NEW t \in Seq(S), Distinct(s), Distinct(t), Apart(s, t)
  PROVE  Distinct(s \o t)
<1> SUFFICES ASSUME NEW i \in 1..Len(s \o t), NEW j \in 1..Len(s \o t), (s \o t)[i] = (s \o t)[j]
             PROVE  i = j
  BY DEF Distinct
<1>1. CASE i \in 1..Len(s) /\ j \in 1..Len(s)
  <2>1. s[i] = s[j]
    BY <1>1, Concatenated
  <2> QED
    BY <1>1, <2>1 DEF Distinct
<1>2. CASE i \in 1..Len(s) /\ j \notin 1..Len(s)
  <2>1. PICK l \in 1..Len(t) : j = Len(s) + l
    BY <1>2, Concatenated
  <2>2. s[i] = t[l]
    BY <1>2, <2>1, Concatenated
  <2> QED
    BY <1>2, <2>2 DEF Apart, Holds
<1>3. CASE i \notin 1..Len(s) /\ j \in 1..Len(s)
  <2>1. PICK k \in 1..Len(t) : i = Len(s) + k
    BY <1>3, Concatenated
  <2>2. s[j] = t[k]
    BY <1>3, <2>1, Concatenated
  <2> QED
    BY <1>3, <2>2 DEF Apart, Holds
<1>4. CASE i \notin 1..Len(s) /\ j \notin 1..Len(s)
  <2>1. PICK k \in 1..Len(t) : i = Len(s) + k
    BY <1>4, Concatenated
  <2>2. PICK l \in 1..Len(t) : j = Len(s) + l
    BY <1>4, Concatenated
  <2>3. t[k] = t[l]
    BY <2>1, <2>2, Concatenated
  <2>4. k = l
    BY <2>3 DEF Distinct
  <2> QED
    BY <2>1, <2>2, <2>4
<1> QED
  BY <1>1, <1>2, <1>3, <1>4

\* A sequence without its last element.
LEMMA Popped ==
  ASSUME NEW S, NEW s \in Seq(S), Len(s) # 0
  PROVE  /\ SubSeq(s, 1, Len(s) - 1) \in Seq(S)
         /\ Len(SubSeq(s, 1, Len(s) - 1)) = Len(s) - 1
         /\ \A i \in 1..Len(s)-1 : SubSeq(s, 1, Len(s) - 1)[i] = s[i]
<1>1. Len(s) \in Nat /\ 1 \in Int /\ Len(s) - 1 \in Int /\ \A i \in 1..Len(s)-1 : s[i] \in S
  BY ElementOfSeq, LenProperties
<1>2. /\ SubSeq(s, 1, Len(s) - 1) \in Seq(S)
      /\ Len(SubSeq(s, 1, Len(s) - 1)) = IF 1 <= Len(s) - 1 THEN Len(s) - 1 - 1 + 1 ELSE 0
      /\ \A i \in 1..(Len(s) - 1 - 1 + 1) : SubSeq(s, 1, Len(s) - 1)[i] = s[1 + i - 1]
  BY <1>1, SubSeqProperties
<1>3. Len(SubSeq(s, 1, Len(s) - 1)) = Len(s) - 1
  <2>1. Len(s) - 1 \in Nat
    BY <1>1
  <2>2. \A n \in Nat : (IF 1 <= n THEN n - 1 + 1 ELSE 0) = n
    OBVIOUS
  <2> QED
    BY <1>2, <2>1, <2>2
<1>4. ASSUME NEW i \in 1..Len(s)-1 PROVE SubSeq(s, 1, Len(s) - 1)[i] = s[i]
  <2>1. i \in 1..(Len(s) - 1 - 1 + 1) /\ 1 + i - 1 = i
    BY <1>1
  <2> QED
    BY <1>2, <2>1
<1> QED
  BY <1>2, <1>3, <1>4

LEMMA PoppedHolds ==
  ASSUME NEW S, NEW s \in Seq(S), Len(s) # 0, Distinct(s)
  PROVE  /\ Distinct(SubSeq(s, 1, Len(s) - 1))
         /\ \A x : Holds(SubSeq(s, 1, Len(s) - 1), x) => Holds(s, x)
         /\ \A x : Holds(s, x) => Holds(SubSeq(s, 1, Len(s) - 1), x) \/ x = s[Len(s)]
<1>1. PICK r : r = SubSeq(s, 1, Len(s) - 1)
  OBVIOUS
<1>2. Len(r) = Len(s) - 1 /\ \A i \in 1..Len(s)-1 : r[i] = s[i]
  BY <1>1, Popped
<1>3. Len(s) \in Nat
  BY LenProperties
<1>4. \A i \in 1..Len(r) : i \in 1..Len(s) /\ r[i] = s[i]
  BY <1>2, <1>3
<1>5. \A i \in 1..Len(s) : i \in 1..Len(r) \/ i = Len(s)
  BY <1>2, <1>3
<1>6. Distinct(r)
  BY <1>4 DEF Distinct
<1>7. \A x : Holds(r, x) => Holds(s, x)
  BY <1>4 DEF Holds
<1>8. \A x : Holds(s, x) => Holds(r, x) \/ x = s[Len(s)]
  BY <1>4, <1>5 DEF Holds
<1> QED
  BY <1>1, <1>6, <1>7, <1>8

-----------------------------------------------------------------------------
(* One visit *)

LEMMA VisitFacts ==
  ASSUME DInv, Visit
  PROVE  /\ phase = "visit" /\ verdict = "running" /\ current \in 1..3 /\ Name \in Sections
         /\ UNCHANGED <<sections, current, phase, verdict>>
         /\ Name' = Name /\ Analysed' = Analysed
         /\ Analysed \in Seq(Byte) /\ Len(Analysed) \in Nat
         /\ Marks \in [0..Len(Analysed)-1 -> -1..UINT16_MAX]
         /\ Len(work) \in Nat /\ Len(work) \in 1..Len(work) /\ Pc = work[Len(work)]
         /\ Pc \in 0..Len(Analysed)-1 /\ Pc \in Nat /\ Marks[Pc] # Unknown
         /\ Decodable(Analysed, Pc) /\ NextStack \in 0..UINT16_MAX
         /\ NextStack = Marks[Pc] + StackDelta(Analysed, Pc)
         /\ Successors(Analysed, Pc) \subseteq 0..Len(Analysed)-1
         /\ \A t \in Successors(Analysed, Pc) : Marks[t] \in {Unknown, NextStack}
<1>1. /\ phase = "visit" /\ verdict = "running" /\ work # << >> /\ VisitFault = "none"
      /\ UNCHANGED <<sections, current, phase, verdict>>
  BY DEF Visit
<1>2. current \in 1..3 /\ Name \in Sections
  BY <1>1, NamesAre DEF DInv, WorkInv, Name
<1>3. Name' = Name /\ Analysed' = Analysed
  BY <1>1 DEF Name, Analysed
<1>4. Analysed \in Seq(Byte) /\ Marks \in [0..Len(Analysed)-1 -> -1..UINT16_MAX]
  BY <1>2 DEF DInv, TypeOK, Analysed, Marks
<1>5. Len(Analysed) \in Nat
  BY <1>4, LenProperties
<1>6. Len(work) \in Nat /\ Len(work) \in 1..Len(work)
  <2>1. work \in Seq(Nat)
    BY DEF DInv, TypeOK
  <2>2. Len(work) \in Nat /\ Len(work) # 0
    BY <1>1, <2>1, LenProperties, EmptySeq
  <2> QED
    BY <2>2
<1>7. Pc \in 0..Len(Analysed)-1 /\ Marks[Pc] # Unknown
  <2>1. Holds(work, Pc)
    BY <1>6 DEF Pc, Holds
  <2> QED
    BY <1>1, <2>1 DEF DInv, WorkInv
<1>8. Pc \in Nat
  BY <1>5, <1>7
<1>9. /\ Decodable(Analysed, Pc) /\ NextStack \in 0..UINT16_MAX
      /\ ~LeavesCode /\ ~Disagrees
  BY <1>1 DEF VisitFault
<1>10. Successors(Analysed, Pc) \subseteq 0..Len(Analysed)-1
  <2>1. Successors(Analysed, Pc) \subseteq Nat
    BY <1>4, <1>8, <1>9, SuccessorType
  <2>2. \A t \in Successors(Analysed, Pc) : ~ (t >= Len(Analysed))
    BY <1>9 DEF LeavesCode
  <2>3. ASSUME NEW t \in Successors(Analysed, Pc) PROVE t \in 0..Len(Analysed)-1
    <3>1. t \in Nat /\ ~ (t >= Len(Analysed))
      BY <2>1, <2>2
    <3> QED
      BY <1>5, <3>1
  <2> QED
    BY <2>3
<1>11. \A t \in Successors(Analysed, Pc) : Marks[t] \in {Unknown, NextStack}
  BY <1>9 DEF Disagrees
<1> QED
  BY <1>1, <1>2, <1>3, <1>4, <1>5, <1>6, <1>7, <1>8, <1>9, <1>10, <1>11 DEF Pc, NextStack

LEMMA VisitMarks ==
  ASSUME DInv, Visit
  PROVE  /\ DOMAIN stackAt' = Sections
         /\ Marks' \in [0..Len(Analysed)-1 -> -1..UINT16_MAX]
         /\ \A i \in 0..Len(Analysed)-1 :
              Marks'[i] = IF i \in Successors(Analysed, Pc) THEN NextStack ELSE Marks[i]
         /\ \A i \in 0..Len(Analysed)-1 : Marks[i] # Unknown => Marks'[i] = Marks[i]
         /\ \A s \in Sections : s # Name => stackAt'[s] = stackAt[s]
<1>1. stackAt' = [stackAt EXCEPT ![Name] =
                   [i \in DOMAIN Marks |->
                      IF i \in Successors(Analysed, Pc) THEN NextStack ELSE Marks[i]]]
  BY DEF Visit
<1>2. DOMAIN stackAt = Sections
  BY DEF DInv, TypeOK
<1>3. /\ Name \in Sections /\ Name' = Name /\ Len(Analysed) \in Nat
      /\ Marks \in [0..Len(Analysed)-1 -> -1..UINT16_MAX] /\ NextStack \in 0..UINT16_MAX
      /\ \A t \in Successors(Analysed, Pc) : Marks[t] \in {Unknown, NextStack}
  BY VisitFacts
<1>4. DOMAIN stackAt' = Sections /\ \A s \in Sections : s # Name => stackAt'[s] = stackAt[s]
  BY <1>1, <1>2
<1>5. Marks' = [i \in 0..Len(Analysed)-1 |->
                  IF i \in Successors(Analysed, Pc) THEN NextStack ELSE Marks[i]]
  <2>1. Marks' = stackAt'[Name]
    BY <1>3 DEF Marks
  <2>2. stackAt'[Name] = [i \in DOMAIN Marks |->
                      IF i \in Successors(Analysed, Pc) THEN NextStack ELSE Marks[i]]
    BY <1>1, <1>2, <1>3
  <2>3. DOMAIN Marks = 0..Len(Analysed)-1
    BY <1>3
  <2> QED
    BY <2>1, <2>2, <2>3
<1>6. \A i \in 0..Len(Analysed)-1 : Marks[i] \in -1..UINT16_MAX
  BY <1>3
<1>7. \A n \in 0..UINT16_MAX : n \in -1..UINT16_MAX
  <2>1. UINT16_MAX \in Nat
    BY Limits
  <2>2. \A m \in Nat : \A n \in 0..m : n \in -1..m
    OBVIOUS
  <2> QED
    BY <2>1, <2>2
<1> QED
  BY <1>3, <1>4, <1>5, <1>6, <1>7

LEMMA GreaterOf ==
  ASSUME NEW m \in U16, NEW n \in 0..UINT16_MAX, NEW g, g = IF n > m THEN n ELSE m
  PROVE  g \in U16 /\ m <= g /\ n <= g
<1>1. n \in U16
  BY DEF U16
<1>2. m \in Nat /\ n \in Nat
  BY <1>1, U16Nat, Zenon
<1>3. CASE n > m
  BY <1>1, <1>2, <1>3
<1>4. CASE ~ (n > m)
  BY <1>2, <1>4
<1> QED
  BY <1>3, <1>4

LEMMA VisitPeak ==
  ASSUME DInv, Visit
  PROVE  maxStack' \in U16 /\ maxStack <= maxStack' /\ NextStack <= maxStack' /\ maxStack \in U16
<1>1. maxStack' = Peak /\ NextStack \in 0..UINT16_MAX /\ maxStack \in U16
  BY VisitFacts DEF Visit, DInv, TypeOK
<1>2. Peak \in U16 /\ maxStack <= Peak /\ NextStack <= Peak
  BY <1>1, GreaterOf DEF Peak
<1> QED
  BY <1>1, <1>2

\* What the visit adds to the worklist: the successors without a mark, each once.
LEMMA NewTargetsFacts ==
  ASSUME DInv, Visit
  PROVE  /\ NewTargets \in Seq(Nat) /\ Distinct(NewTargets)
         /\ \A t : Holds(NewTargets, t) <=> t \in Successors(Analysed, Pc) /\ Marks[t] = Unknown
<1> DEFINE op == ByteAt(Analysed, Pc)
           jump == Target(Analysed, Pc)
           next == Pc + InstructionSize(Analysed, Pc)
           p == op \in JumpOp /\ IsNew(jump)
           q == op \notin {JUMP, HALT} /\ next < Len(Analysed) /\ IsNew(next)
                  /\ ~ (op \in JumpOp /\ jump = next)
<1>1. Analysed \in Seq(Byte) /\ Pc \in Nat /\ Decodable(Analysed, Pc)
  BY VisitFacts
<1>2. (op \in JumpOp => jump \in Nat) /\ next \in Nat
  BY <1>1, SuccessorType
<1>3. NewTargets = Optional(p, jump) \o Optional(q, next)
  BY DEF NewTargets
<1>4. \A t : t \in Successors(Analysed, Pc) /\ Marks[t] = Unknown <=> (p /\ t = jump) \/ (q /\ t = next)
  <2>1. Successors(Analysed, Pc) = (IF op \in JumpOp THEN {jump} ELSE {})
                                 \cup (IF op \notin {JUMP, HALT} /\ next < Len(Analysed) THEN {next} ELSE {})
    BY DEF Successors
  <2>2. \A t : IsNew(t) <=> Marks[t] = Unknown
    BY DEF IsNew
  <2> QED
    BY <2>1, <2>2
<1>5. /\ (p => jump \in Nat) /\ (q => next \in Nat)
      /\ p /\ q => jump # next
  BY <1>2
<1> HIDE DEF p, q, jump, next
<1>6. /\ Optional(p, jump) \in Seq(Nat) /\ Distinct(Optional(p, jump))
      /\ \A x : Holds(Optional(p, jump), x) <=> p /\ x = jump
  BY <1>5, OptionalFacts
<1>7. /\ Optional(q, next) \in Seq(Nat) /\ Distinct(Optional(q, next))
      /\ \A x : Holds(Optional(q, next), x) <=> q /\ x = next
  BY <1>5, OptionalFacts
<1>8. Apart(Optional(p, jump), Optional(q, next))
  BY <1>5, <1>6, <1>7 DEF Apart
<1>9. NewTargets \in Seq(Nat)
  BY <1>3, <1>6, <1>7, Concatenated
<1>10. Distinct(NewTargets)
  BY <1>3, <1>6, <1>7, <1>8, ConcatDistinct
<1>11. \A x : Holds(NewTargets, x) <=> Holds(Optional(p, jump), x) \/ Holds(Optional(q, next), x)
  BY <1>3, <1>6, <1>7, ConcatHolds
<1> QED
  BY <1>4, <1>6, <1>7, <1>9, <1>10, <1>11

LEMMA VisitWork ==
  ASSUME DInv, Visit
  PROVE  /\ work' \in Seq(Nat) /\ Distinct(work')
         /\ \A t : Holds(work', t) => Holds(work, t) \/ t \in Successors(Analysed, Pc)
         /\ \A t : Holds(work, t) => Holds(work', t) \/ t = Pc
         /\ \A t \in Successors(Analysed, Pc) : Marks[t] = Unknown => Holds(work', t)
<1>1. PICK rest : rest = SubSeq(work, 1, Len(work) - 1)
  OBVIOUS
<1>2. work' = rest \o NewTargets
  BY <1>1 DEF Visit
<1>3. /\ work \in Seq(Nat) /\ Len(work) # 0 /\ Distinct(work)
      /\ \A pc : Holds(work, pc) => Marks[pc] # Unknown
  <2>1. Len(work) \in 1..Len(work) /\ phase = "visit"
    BY VisitFacts
  <2> QED
    BY <2>1 DEF DInv, TypeOK, WorkInv
<1>4. rest \in Seq(Nat)
  BY <1>1, <1>3, Popped
<1>5. Distinct(rest) /\ \A x : Holds(rest, x) => Holds(work, x)
  BY <1>1, <1>3, PoppedHolds
<1>6. \A x : Holds(work, x) => Holds(rest, x) \/ x = Pc
  BY <1>1, <1>3, PoppedHolds DEF Pc
<1>7. /\ NewTargets \in Seq(Nat) /\ Distinct(NewTargets)
      /\ \A t : Holds(NewTargets, t) <=> t \in Successors(Analysed, Pc) /\ Marks[t] = Unknown
  BY NewTargetsFacts
<1>8. Apart(rest, NewTargets)
  BY <1>3, <1>5, <1>7 DEF Apart
<1>9. work' \in Seq(Nat)
  BY <1>2, <1>4, <1>7, Concatenated
<1>10. Distinct(work')
  BY <1>2, <1>4, <1>5, <1>7, <1>8, ConcatDistinct
<1>11. \A x : Holds(work', x) <=> Holds(rest, x) \/ Holds(NewTargets, x)
  BY <1>2, <1>4, <1>7, ConcatHolds
<1> QED
  BY <1>5, <1>6, <1>7, <1>9, <1>10, <1>11

\* A check done before the visit still holds after it.
LEMMA CheckedStays ==
  ASSUME DInv, Visit, NEW s \in Sections, NEW pc \in 0..Len(sections[s])-1,
         stackAt[s][pc] # Unknown, Checked(s, pc)
  PROVE  Checked(s, pc)'
<1>1. sections' = sections /\ Len(sections[s]) \in Nat /\ sections[s] \in Seq(Byte)
  <2>1. sections[s] \in Seq(Byte)
    BY DEF DInv, TypeOK
  <2> QED
    BY <2>1, VisitFacts, LenProperties
<1>2. \A i \in 0..Len(sections[s])-1 : stackAt[s][i] # Unknown => stackAt'[s][i] = stackAt[s][i]
  <2>1. CASE s = Name
    <3>1. sections[s] = Analysed /\ stackAt[s] = Marks /\ stackAt'[s] = Marks'
      BY <2>1, VisitFacts DEF Analysed, Marks
    <3> QED
      BY <3>1, VisitMarks
  <2>2. CASE s # Name
    BY <2>2, VisitMarks
  <2> QED
    BY <2>1, <2>2
<1>3. PICK after : after = stackAt[s][pc] + StackDelta(sections[s], pc)
  OBVIOUS
<1>4. /\ Decodable(sections[s], pc) /\ after \in 0..maxStack
      /\ \A t \in Successors(sections[s], pc) : t < Len(sections[s]) /\ stackAt[s][t] = after
  BY <1>3 DEF Checked
<1>5. Successors(sections[s], pc) \subseteq Nat
  <2>1. pc \in Nat
    BY <1>1
  <2> QED
    BY <1>1, <1>4, <2>1, SuccessorType
<1>6. maxStack \in Nat /\ maxStack' \in Nat /\ maxStack <= maxStack'
  BY VisitPeak, U16Nat, Zenon
<1>7. after \in 0..maxStack' /\ after # Unknown
  BY <1>4, <1>6 DEF Unknown
<1>8. \A t \in Successors(sections[s], pc) : t < Len(sections[s]) /\ stackAt'[s][t] = after
  <2> TAKE t \in Successors(sections[s], pc)
  <2>1. t < Len(sections[s]) /\ stackAt[s][t] = after /\ t \in Nat
    BY <1>4, <1>5
  <2>2. t \in 0..Len(sections[s])-1
    BY <1>1, <2>1
  <2> QED
    BY <1>2, <1>7, <2>1, <2>2
<1>9. after = stackAt'[s][pc] + StackDelta(sections[s], pc)
  BY <1>2, <1>3
<1> QED
  BY <1>1, <1>4, <1>7, <1>8, <1>9 DEF Checked

LEMMA VisitStep == DInv /\ Visit => DInv'
<1> SUFFICES ASSUME DInv, Visit PROVE DInv'
  OBVIOUS
<1>1. TypeOK'
  <2>1. /\ sections' \in [Sections -> Seq(Byte)] /\ current' \in 1..4
        /\ phase' \in {"start", "visit"}
        /\ verdict' \in {"running", "accepted"} \cup Rejection
    BY VisitFacts DEF DInv, TypeOK
  <2>2. \A s \in Sections : stackAt'[s] \in [0..Len(sections'[s])-1 -> -1..UINT16_MAX]
    <3> TAKE s \in Sections
    <3>1. CASE s = Name
      <4>1. stackAt'[s] = Marks' /\ sections'[s] = Analysed
        BY <3>1, VisitFacts DEF Analysed, Marks
      <4> QED
        BY <4>1, VisitMarks
    <3>2. CASE s # Name
      <4>1. stackAt'[s] = stackAt[s] /\ sections' = sections
        BY <3>2, VisitMarks, VisitFacts
      <4> QED
        BY <4>1 DEF DInv, TypeOK
    <3> QED
      BY <3>1, <3>2
  <2> QED
    BY <2>1, <2>2, VisitMarks, VisitWork, VisitPeak DEF TypeOK
<1>2. WorkInv'
  <2>1. /\ current' \in 1..3 /\ Analysed' = Analysed /\ Len(Analysed) > 0 /\ Marks[0] = 0
        /\ Len(Analysed) \in Nat
    BY VisitFacts DEF DInv, WorkInv
  <2>2. Marks'[0] = 0
    <3>1. 0 \in 0..Len(Analysed)-1 /\ Marks[0] # Unknown
      BY <2>1 DEF Unknown
    <3> QED
      BY <2>1, <3>1, VisitMarks
  <2>3. ASSUME NEW pc, Holds(work', pc) PROVE pc \in 0..Len(Analysed)-1 /\ Marks'[pc] # Unknown
    <3>1. CASE Holds(work, pc)
      <4>1. pc \in 0..Len(Analysed)-1 /\ Marks[pc] # Unknown
        BY <3>1, VisitFacts DEF DInv, WorkInv
      <4> QED
        BY <4>1, VisitMarks
    <3>2. CASE pc \in Successors(Analysed, Pc)
      <4>1. pc \in 0..Len(Analysed)-1 /\ NextStack \in 0..UINT16_MAX
        BY <3>2, VisitFacts
      <4>2. Marks'[pc] = NextStack
        BY <3>2, <4>1, VisitMarks
      <4> QED
        BY <4>1, <4>2, Limits DEF Unknown
    <3> QED
      BY <2>3, <3>1, <3>2, VisitWork
  <2>4. Distinct(work')
    BY VisitWork
  <2> QED
    BY <2>1, <2>2, <2>3, <2>4 DEF WorkInv
<1>3. VisitInv'
  <2> SUFFICES ASSUME NEW pc \in 0..Len(Analysed)-1, Marks'[pc] # Unknown,
                      ~ Holds(work', pc)
               PROVE  Checked(Name, pc)'
    BY VisitFacts DEF VisitInv
  <2>1. Analysed = sections[Name] /\ Marks = stackAt[Name] /\ Marks' = stackAt'[Name] /\ Name \in Sections
    BY VisitFacts DEF Analysed, Marks
  <2>2. Marks[pc] # Unknown
    <3>1. ASSUME Marks[pc] = Unknown PROVE FALSE
      <4>1. pc \in Successors(Analysed, Pc)
        BY <3>1, VisitMarks
      <4> QED
        BY <3>1, <4>1, VisitWork
    <3> QED
      BY <3>1
  <2>3. CASE pc = Pc
    <3>1. Marks'[pc] = Marks[Pc]
      BY <2>2, <2>3, VisitMarks
    <3>2. /\ Decodable(Analysed, Pc) /\ NextStack \in 0..UINT16_MAX
          /\ NextStack = Marks[Pc] + StackDelta(Analysed, Pc)
          /\ Successors(Analysed, Pc) \subseteq 0..Len(Analysed)-1 /\ Len(Analysed) \in Nat
          /\ sections' = sections /\ Name' = Name
      BY VisitFacts
    <3>3. NextStack \in 0..maxStack'
      <4>1. NextStack <= maxStack' /\ maxStack' \in Nat
        BY VisitPeak, U16Nat, Zenon
      <4>2. NextStack \in Nat
        BY <3>2, U16Nat DEF U16
      <4> QED
        BY <4>1, <4>2
    <3>4. \A t \in Successors(Analysed, Pc) : t < Len(Analysed) /\ Marks'[t] = NextStack
      <4> TAKE t \in Successors(Analysed, Pc)
      <4>1. t \in 0..Len(Analysed)-1
        BY <3>2
      <4>2. t < Len(Analysed)
        BY <3>2, <4>1
      <4> QED
        BY <4>1, <4>2, VisitMarks
    <3> QED
      BY <2>1, <2>3, <3>1, <3>2, <3>3, <3>4 DEF Checked
  <2>4. CASE pc # Pc
    <3>1. ~ Holds(work, pc)
      BY <2>4, VisitWork
    <3>2. Checked(Name, pc)
      BY <2>2, <3>1, VisitFacts DEF DInv, VisitInv
    <3>3. \A n : n = Name => Checked(n, pc)'
      <4> SUFFICES ASSUME NEW n, n = Name PROVE Checked(n, pc)'
        OBVIOUS
      <4> QED
        BY <2>1, <2>2, <3>2, CheckedStays
    <3> QED
      BY <3>3, VisitFacts
  <2> QED
    BY <2>3, <2>4
<1>4. FinishedInv'
  <2> SUFFICES ASSUME NEW k \in 1..3, k < current
               PROVE  /\ Len(sections[Names[k]]) > 0 => stackAt'[Names[k]][0] = 0
                      /\ \A pc \in 0..Len(sections[Names[k]])-1 :
                           stackAt'[Names[k]][pc] # Unknown => Checked(Names[k], pc)'
    BY VisitFacts DEF FinishedInv
  <2>1. Names[k] \in Sections /\ Names[k] # Name
    <3>1. k # current /\ current \in 1..3
      BY VisitFacts
    <3> QED
      BY <3>1, NamesAre DEF Name
  <2>2. stackAt'[Names[k]] = stackAt[Names[k]]
    BY <2>1, VisitMarks
  <2>3. /\ Len(sections[Names[k]]) > 0 => stackAt[Names[k]][0] = 0
        /\ \A pc \in 0..Len(sections[Names[k]])-1 :
             stackAt[Names[k]][pc] # Unknown => Checked(Names[k], pc)
    BY DEF DInv, FinishedInv
  <2>4. \A pc \in 0..Len(sections[Names[k]])-1 :
          stackAt[Names[k]][pc] # Unknown => Checked(Names[k], pc)'
    BY <2>1, <2>3, CheckedStays
  <2> QED
    BY <2>2, <2>3, <2>4
<1>5. UntouchedInv'
  <2> SUFFICES ASSUME NEW k \in 1..3, k > current, NEW pc \in 0..Len(sections[Names[k]])-1
               PROVE  stackAt'[Names[k]][pc] = Unknown
    BY VisitFacts DEF UntouchedInv
  <2>1. Names[k] \in Sections /\ Names[k] # Name
    <3>1. k # current /\ current \in 1..3
      BY VisitFacts
    <3> QED
      BY <3>1, NamesAre DEF Name
  <2>2. stackAt'[Names[k]] = stackAt[Names[k]]
    BY <2>1, VisitMarks
  <2> QED
    BY <2>2, VisitFacts DEF DInv, UntouchedInv
<1>6. verdict' # "accepted"
  BY VisitFacts
<1> QED
  BY <1>1, <1>2, <1>3, <1>4, <1>5, <1>6 DEF DInv

LEMMA StartStep == DInv /\ StartSection => DInv'
<1> SUFFICES ASSUME DInv, StartSection PROVE DInv'
  OBVIOUS
<1>1. /\ verdict = "running" /\ phase = "start" /\ current \in 1..3
      /\ sections' = sections /\ maxStack' = maxStack /\ verdict' = verdict
      /\ sections \in [Sections -> Seq(Byte)]
  <2>1. current \in 1..4 /\ current <= 3 /\ verdict = "running" /\ phase = "start"
    BY DEF DInv, TypeOK, StartSection
  <2>2. current \in 1..3
    BY <2>1
  <2> QED
    BY <2>1, <2>2 DEF DInv, TypeOK, StartSection
<1>2. Name \in Sections /\ Analysed \in Seq(Byte) /\ Len(Analysed) \in Nat
  <2>1. Name \in Sections
    BY <1>1, NamesAre DEF Name
  <2>2. Analysed \in Seq(Byte)
    BY <1>1, <2>1 DEF Analysed
  <2> QED
    BY <2>1, <2>2, LenProperties
<1>3. /\ \A pc \in 0..Len(Analysed)-1 : Marks[pc] = Unknown
      /\ Marks \in [0..Len(Analysed)-1 -> -1..UINT16_MAX]
  <2>1. \A pc \in 0..Len(Analysed)-1 : Marks[pc] = Unknown
    <3>1. current >= current
      BY <1>1
    <3> QED
      BY <1>1, <3>1 DEF DInv, UntouchedInv, Analysed, Marks, Name
  <2> QED
    BY <1>2, <2>1 DEF DInv, TypeOK, Analysed, Marks
<1>4. CASE Analysed = << >>
  <2>1. current' = current + 1 /\ UNCHANGED <<phase, stackAt, work>>
    BY <1>4 DEF StartSection
  <2>2. Len(Analysed) = 0
    BY <1>4, EmptySeq
  <2>3. TypeOK'
    <3>1. current' \in 1..4
      BY <1>1, <2>1
    <3> QED
      BY <1>1, <2>1, <3>1 DEF DInv, TypeOK
  <2>4. FinishedInv'
    <3> SUFFICES ASSUME NEW k \in 1..3, k < current + 1
                 PROVE  /\ Len(sections[Names[k]]) > 0 => stackAt[Names[k]][0] = 0
                        /\ \A pc \in 0..Len(sections[Names[k]])-1 :
                             stackAt[Names[k]][pc] # Unknown => Checked(Names[k], pc)
      BY <1>1, <2>1 DEF FinishedInv, Checked
    <3>1. CASE k < current
      BY <3>1 DEF DInv, FinishedInv
    <3>2. CASE k = current
      <4>1. Len(sections[Names[k]]) = 0
        BY <2>2, <3>2 DEF Analysed, Name
      <4> QED
        BY <4>1
    <3> QED
      BY <1>1, <3>1, <3>2
  <2>5. UntouchedInv'
    <3>1. \A k \in 1..3 : k >= current + 1 => k >= current
      BY <1>1
    <3> QED
      BY <1>1, <2>1, <3>1 DEF DInv, UntouchedInv
  <2>6. WorkInv' /\ VisitInv'
    BY <1>1, <2>1 DEF WorkInv, VisitInv
  <2> QED
    BY <1>1, <2>3, <2>4, <2>5, <2>6 DEF DInv
<1>5. CASE Analysed # << >>
  <2>1. /\ phase' = "visit" /\ work' = <<0>> /\ current' = current
        /\ stackAt' = [stackAt EXCEPT ![Name] = [Marks EXCEPT ![0] = 0]]
    BY <1>5 DEF StartSection, Marks
  <2>2. 0 \in 0..Len(Analysed)-1 /\ Len(Analysed) > 0
    <3>1. Len(Analysed) # 0
      BY <1>2, <1>5, EmptySeq
    <3> QED
      BY <1>2, <3>1
  <2>3. /\ DOMAIN stackAt' = Sections
        /\ \A s \in Sections : s # Name => stackAt'[s] = stackAt[s]
        /\ stackAt'[Name] = [Marks EXCEPT ![0] = 0]
    BY <1>2, <2>1 DEF DInv, TypeOK
  <2>4. Name' = Name /\ Analysed' = Analysed /\ Marks' = [Marks EXCEPT ![0] = 0]
    <3>1. Name' = Name
      BY <2>1 DEF Name
    <3> QED
      BY <1>1, <2>3, <3>1 DEF Analysed, Marks
  <2>5. /\ Marks' \in [0..Len(Analysed)-1 -> -1..UINT16_MAX] /\ Marks'[0] = 0
        /\ \A pc \in 0..Len(Analysed)-1 : pc # 0 => Marks'[pc] = Unknown
    <3>1. 0 \in -1..UINT16_MAX
      BY Limits
    <3> QED
      BY <1>3, <2>2, <2>4, <3>1
  <2>6. work' \in Seq(Nat) /\ Distinct(work') /\ \A x : Holds(work', x) <=> x = 0
    <3>1. PICK p : p = TRUE
      OBVIOUS
    <3>2. work' = Optional(p, 0)
      BY <2>1, <3>1 DEF Optional
    <3>3. /\ Optional(p, 0) \in Seq(Nat) /\ Distinct(Optional(p, 0))
          /\ \A x : Holds(Optional(p, 0), x) <=> p /\ x = 0
      BY OptionalFacts
    <3> QED
      BY <3>1, <3>2, <3>3
  <2>7. TypeOK'
    <3>1. \A s \in Sections : stackAt'[s] \in [0..Len(sections'[s])-1 -> -1..UINT16_MAX]
      <4> TAKE s \in Sections
      <4>1. CASE s = Name
        BY <1>1, <2>3, <2>4, <2>5, <4>1 DEF Analysed
      <4>2. CASE s # Name
        BY <1>1, <2>3, <4>2 DEF DInv, TypeOK
      <4> QED
        BY <4>1, <4>2
    <3> QED
      BY <1>1, <2>1, <2>3, <2>6, <3>1 DEF DInv, TypeOK
  <2>8. WorkInv'
    <3>1. \A pc : Holds(work', pc) => pc \in 0..Len(Analysed)-1 /\ Marks'[pc] # Unknown
      BY <2>2, <2>5, <2>6 DEF Unknown
    <3> QED
      BY <1>1, <2>1, <2>2, <2>4, <2>5, <2>6, <3>1 DEF WorkInv
  <2>9. VisitInv'
    BY <2>4, <2>5, <2>6 DEF VisitInv
  <2>10. FinishedInv'
    <3> SUFFICES ASSUME NEW k \in 1..3, k < current
                 PROVE  /\ Len(sections[Names[k]]) > 0 => stackAt'[Names[k]][0] = 0
                        /\ \A pc \in 0..Len(sections[Names[k]])-1 :
                             stackAt'[Names[k]][pc] # Unknown => Checked(Names[k], pc)'
      BY <1>1, <2>1 DEF FinishedInv
    <3>1. Names[k] \in Sections /\ Names[k] # Name
      <4>1. k # current
        BY <1>1
      <4> QED
        BY <1>1, <4>1, NamesAre DEF Name
    <3>2. stackAt'[Names[k]] = stackAt[Names[k]]
      BY <2>3, <3>1
    <3>3. /\ Len(sections[Names[k]]) > 0 => stackAt[Names[k]][0] = 0
          /\ \A pc \in 0..Len(sections[Names[k]])-1 :
               stackAt[Names[k]][pc] # Unknown => Checked(Names[k], pc)
      BY DEF DInv, FinishedInv
    <3>4. \A pc : Checked(Names[k], pc) => Checked(Names[k], pc)'
      BY <1>1, <3>2 DEF Checked
    <3> QED
      BY <3>2, <3>3, <3>4
  <2>11. UntouchedInv'
    <3> SUFFICES ASSUME NEW k \in 1..3, k > current, NEW pc \in 0..Len(sections[Names[k]])-1
                 PROVE  stackAt'[Names[k]][pc] = Unknown
      BY <1>1, <2>1 DEF UntouchedInv
    <3>1. Names[k] \in Sections /\ Names[k] # Name /\ k >= current
      <4>1. k # current /\ k >= current
        BY <1>1
      <4> QED
        BY <1>1, <4>1, NamesAre DEF Name
    <3>2. stackAt'[Names[k]] = stackAt[Names[k]]
      BY <2>3, <3>1
    <3> QED
      BY <1>1, <3>1, <3>2 DEF DInv, UntouchedInv
  <2> QED
    BY <1>1, <2>7, <2>8, <2>9, <2>10, <2>11 DEF DInv
<1> QED
  BY <1>4, <1>5

LEMMA FinishStep == DInv /\ FinishSection => DInv'
<1> SUFFICES ASSUME DInv, FinishSection PROVE DInv'
  OBVIOUS
<1>1. /\ verdict = "running" /\ phase = "visit" /\ work = << >>
      /\ current' = current + 1 /\ phase' = "start"
      /\ UNCHANGED <<sections, stackAt, work, maxStack, verdict>>
  BY DEF FinishSection
<1>2. current \in 1..3 /\ Marks[0] = 0
  BY <1>1 DEF DInv, WorkInv
<1>3. TypeOK'
  <2>1. current' \in 1..4
    BY <1>1, <1>2
  <2> QED
    BY <1>1, <2>1 DEF DInv, TypeOK
<1>4. \A x : ~ Holds(work, x)
  BY <1>1, EmptySeq DEF Holds
<1>5. FinishedInv'
  <2> SUFFICES ASSUME NEW k \in 1..3, k < current + 1
               PROVE  /\ Len(sections[Names[k]]) > 0 => stackAt[Names[k]][0] = 0
                      /\ \A pc \in 0..Len(sections[Names[k]])-1 :
                           stackAt[Names[k]][pc] # Unknown => Checked(Names[k], pc)
    BY <1>1 DEF FinishedInv, Checked
  <2>1. CASE k < current
    BY <2>1 DEF DInv, FinishedInv
  <2>2. CASE k = current
    <3>1. Names[k] = Name /\ sections[Names[k]] = Analysed /\ stackAt[Names[k]] = Marks
      BY <2>2 DEF Name, Analysed, Marks
    <3> QED
      BY <1>1, <1>2, <1>4, <3>1 DEF DInv, VisitInv
  <2> QED
    BY <1>2, <2>1, <2>2
<1>6. UntouchedInv'
  <2>1. \A k \in 1..3 : k >= current + 1 => k > current
    BY <1>2
  <2> QED
    BY <1>1, <2>1 DEF DInv, UntouchedInv
<1>7. WorkInv' /\ VisitInv'
  BY <1>1 DEF WorkInv, VisitInv
<1> QED
  BY <1>1, <1>3, <1>5, <1>6, <1>7 DEF DInv

LEMMA VerdictStep == DInv /\ (Refuse \/ Accept \/ UNCHANGED depthVars) => DInv'
<1> SUFFICES ASSUME DInv, Refuse \/ Accept \/ UNCHANGED depthVars PROVE DInv'
  OBVIOUS
<1>1. UNCHANGED <<sections, current, phase, stackAt, work, maxStack>>
  BY DEF Refuse, Accept, depthVars
<1>2. WorkInv' /\ VisitInv' /\ FinishedInv' /\ UntouchedInv'
  <2>1. WorkInv' /\ UntouchedInv'
    BY <1>1 DEF DInv, WorkInv, UntouchedInv, Marks, Analysed, Name
  <2>2. \A s, pc : Checked(s, pc) => Checked(s, pc)'
    BY <1>1 DEF Checked
  <2>3. VisitInv'
    BY <1>1, <2>2 DEF DInv, VisitInv, Marks, Analysed, Name
  <2>4. FinishedInv'
    BY <1>1, <2>2 DEF DInv, FinishedInv
  <2> QED
    BY <2>1, <2>3, <2>4
<1>3. verdict' \in {"running", "accepted"} \cup Rejection /\ (verdict' = "accepted" => current = 4)
  <2>1. CASE Refuse
    BY <2>1 DEF Refuse, VisitFault, Rejection
  <2>2. CASE Accept
    BY <2>2 DEF Accept
  <2>3. CASE UNCHANGED depthVars
    BY <2>3 DEF depthVars, DInv, TypeOK
  <2> QED
    BY <2>1, <2>2, <2>3
<1>4. TypeOK'
  BY <1>1, <1>3 DEF DInv, TypeOK
<1> QED
  BY <1>1, <1>2, <1>3, <1>4 DEF DInv

LEMMA InitialDInv == DepthInit => DInv
<1> SUFFICES ASSUME DepthInit PROVE DInv
  OBVIOUS
<1>1. sections \in [Sections -> Seq(Byte)]
  BY EmittedAssumption DEF DepthInit
<1>2. /\ DOMAIN stackAt = Sections
      /\ \A s \in Sections : stackAt[s] = [i \in 0..Len(sections[s])-1 |-> Unknown]
  BY DEF DepthInit
<1>3. Unknown \in -1..UINT16_MAX
  BY Limits DEF Unknown
<1>4. \A s \in Sections : stackAt[s] \in [0..Len(sections[s])-1 -> -1..UINT16_MAX]
  BY <1>2, <1>3
<1>5. 0 \in U16
  BY Limits, U16Nat
<1>6. TypeOK
  BY <1>1, <1>2, <1>4, <1>5 DEF DepthInit, TypeOK
<1>7. UntouchedInv
  BY <1>2, NamesAre DEF UntouchedInv
<1>8. WorkInv /\ VisitInv
  BY DEF DepthInit, WorkInv, VisitInv
<1>9. FinishedInv
  BY DEF DepthInit, FinishedInv
<1>10. verdict # "accepted"
  BY DEF DepthInit
<1> QED
  BY <1>6, <1>7, <1>8, <1>9, <1>10 DEF DInv

-----------------------------------------------------------------------------
(* Theorems *)

THEOREM DepthInvariant == DepthSpec => []DInv
<1>1. DInv /\ [DepthNext]_depthVars => DInv'
  BY StartStep, VisitStep, FinishStep, VerdictStep DEF DepthNext
<1> QED
  BY <1>1, InitialDInv, PTL DEF DepthSpec

\* The analysis keeps its variables in their types: in particular every depth and the
\* maximum fit the uint16_t of lumi_program (compute_section_stack_depth).
THEOREM DepthTypes == DepthSpec => []TypeOK
<1>1. DInv => TypeOK
  BY DEF DInv
<1> QED
  BY <1>1, DepthInvariant, PTL

\* Accepted code of any length comes with a certificate for the recorded maximum: this
\* is what makes the maximum safe to allocate (recompute_max_stack).
THEOREM Certified == DepthSpec => []AcceptedCertified
<1>1. DInv => AcceptedCertified
  <2> SUFFICES ASSUME DInv, verdict = "accepted", NEW s \in Sections
               PROVE  Certifies(stackAt[s], sections[s], maxStack)
    BY DEF AcceptedCertified
  <2>1. PICK k \in 1..3 : s = Names[k]
    BY NamesAre
  <2>2. k < current
    BY DEF DInv
  <2>3. /\ Len(sections[s]) > 0 => stackAt[s][0] = 0
        /\ \A pc \in 0..Len(sections[s])-1 : stackAt[s][pc] # Unknown => Checked(s, pc)
    BY <2>1, <2>2 DEF DInv, FinishedInv
  <2> QED
    BY <2>3 DEF Certifies, Checked
<1> QED
  BY <1>1, DepthInvariant, PTL

\* The worklist never outgrows its allocation of one cell per byte of code, however
\* long the code is and however its jumps run (worklist in compute_section_stack_depth).
THEOREM WorklistBounded == DepthSpec => []WorklistFits
<1>1. DInv => WorklistFits
  <2> SUFFICES ASSUME DInv, phase = "visit", verdict = "running" PROVE WorklistFits
    BY DEF WorklistFits
  <2>1. /\ work \in Seq(Nat) /\ Distinct(work) /\ current \in 1..3
        /\ \A pc : Holds(work, pc) => pc \in 0..Len(Analysed)-1
    BY DEF DInv, TypeOK, WorkInv
  <2>2. Len(Analysed) \in Nat /\ Len(work) \in Nat
    <3>1. Analysed \in Seq(Byte)
      BY <2>1, NamesAre DEF DInv, TypeOK, Analysed, Name
    <3> QED
      BY <2>1, <3>1, LenProperties
  <2>3. PICK f : f = [i \in 1..Len(work) |-> work[i]]
    OBVIOUS
  <2>4. f \in Injection(1..Len(work), 0..Len(Analysed)-1)
    <3>1. \A i \in 1..Len(work) : f[i] \in 0..Len(Analysed)-1
      BY <2>1, <2>3 DEF Holds
    <3>2. \A i, j \in 1..Len(work) : f[i] = f[j] => i = j
      BY <2>1, <2>3 DEF Distinct
    <3> QED
      BY <2>3, <3>1, <3>2 DEF Injection, IsInjective
  <2>5. /\ IsFiniteSet(1..Len(work)) /\ Cardinality(1..Len(work)) = Len(work)
        /\ IsFiniteSet(0..Len(Analysed)-1) /\ Cardinality(0..Len(Analysed)-1) = Len(Analysed)
    <3>1. Len(Analysed) - 1 \in Int /\ 0 \in Int /\ 1 \in Int /\ Len(work) \in Int
      BY <2>2
    <3>2. /\ IsFiniteSet(1..Len(work))
          /\ Cardinality(1..Len(work)) = IF 1 > Len(work) THEN 0 ELSE Len(work) - 1 + 1
      BY <3>1, FS_Interval
    <3>3. /\ IsFiniteSet(0..Len(Analysed)-1)
          /\ Cardinality(0..Len(Analysed)-1) =
               IF 0 > Len(Analysed) - 1 THEN 0 ELSE Len(Analysed) - 1 - 0 + 1
      BY <3>1, FS_Interval
    <3>4. \A n \in Nat : /\ (IF 1 > n THEN 0 ELSE n - 1 + 1) = n
                         /\ (IF 0 > n - 1 THEN 0 ELSE n - 1 - 0 + 1) = n
      OBVIOUS
    <3> QED
      BY <2>2, <3>2, <3>3, <3>4
  <2>6. Cardinality(1..Len(work)) <= Cardinality(0..Len(Analysed)-1)
    BY <2>4, <2>5, FS_Injection
  <2>7. Len(work) <= Len(Analysed)
    BY <2>5, <2>6
  <2>8. \A i, j \in DOMAIN work : work[i] = work[j] => i = j
    BY <2>1, LenProperties DEF Distinct
  <2> QED
    BY <2>7, <2>8 DEF WorklistFits
<1> QED
  BY <1>1, DepthInvariant, PTL

-----------------------------------------------------------------------------
(* The reference: what the paths of a section reach *)

\* The recursive function of Paths exists and computes what it says.
LEMMA PathsBySteps ==
  ASSUME NEW code \in Seq(Byte), code # << >>
  PROVE  \E reach : /\ reach[0] = EmptyPath
                    /\ \A n \in 1..Len(code) : reach[n] = OneLonger(code, reach[n - 1])
                    /\ Paths(code) = reach[Len(code)].met
<1> DEFINE Rounds(n, f) == f = [m \in 0..n |-> IF m = 0 THEN EmptyPath ELSE OneLonger(code, f[m - 1])]
<1> DEFINE T == {n \in Nat : \E f : Rounds(n, f)}
<1>1. 0 \in T
  <2>1. Rounds(0, [m \in 0..0 |-> EmptyPath])
    OBVIOUS
  <2> QED
    BY <2>1
<1>2. ASSUME NEW n \in T PROVE n + 1 \in T
  <2>1. PICK f : Rounds(n, f)
    OBVIOUS
  <2>2. PICK g : g = [m \in 0..n+1 |-> IF m = 0 THEN EmptyPath ELSE OneLonger(code, f[m - 1])]
    OBVIOUS
  <2>3. \A m \in 0..n : g[m] = f[m]
    BY <2>1, <2>2
  <2>4. \A m \in 0..n+1 : m # 0 => g[m - 1] = f[m - 1]
    BY <2>3
  <2>5. Rounds(n + 1, g)
    BY <2>2, <2>4
  <2> QED
    BY <2>5
<1>3. \A n \in Nat : n \in T
  <2> HIDE DEF Rounds
  <2>1. T \subseteq Nat
    OBVIOUS
  <2> HIDE DEF T
  <2> QED
    BY <1>1, <1>2, <2>1, EveryNumber
<1>4. Len(code) \in Nat
  BY LenProperties
<1>5. \E f : Rounds(Len(code), f)
  BY <1>3, <1>4
<1>6. PICK reach : reach = CHOOSE f : Rounds(Len(code), f)
  OBVIOUS
<1>7. Rounds(Len(code), reach)
  <2> HIDE DEF Rounds
  <2> QED
    BY <1>5, <1>6, Zenon
<1>8. Paths(code) = reach[Len(code)].met
  BY <1>6 DEF Paths
<1>9. reach[0] = EmptyPath /\ \A n \in 1..Len(code) : reach[n] = OneLonger(code, reach[n - 1])
  BY <1>4, <1>7
<1> QED
  BY <1>8, <1>9

\* What an instruction of a path leads to is an offset and a depth.
LEMMA NextTypes ==
  ASSUME NEW code \in Seq(Byte), NEW c \in Nat \X Int
  PROVE  NextOnPath(code, c) \subseteq Nat \X Int
<1>1. c[1] \in Nat /\ c[2] \in Int
  OBVIOUS
<1>2. CASE Decodable(code, c[1])
  <2>1. Successors(code, c[1]) \subseteq Nat /\ StackDelta(code, c[1]) \in Int
    BY <1>1, <1>2, SuccessorType, DeltaType
  <2>2. c[2] + StackDelta(code, c[1]) \in Int
    BY <1>1, <2>1
  <2>3. NextOnPath(code, c) = {<<t, c[2] + StackDelta(code, c[1])>> : t \in Successors(code, c[1])}
    BY <1>2 DEF NextOnPath
  <2> QED
    BY <2>1, <2>2, <2>3
<1>3. CASE ~ Decodable(code, c[1])
  BY <1>3 DEF NextOnPath
<1> QED
  BY <1>2, <1>3

\* Round n has all pairs of shorter paths, and what follows a pair except the last ones.
RoundHolds(code, r) ==
  /\ r.met \subseteq Nat \X Int
  /\ r.last \subseteq r.met
  /\ <<0, 0>> \in r.met
  /\ \A c \in r.met : c \in r.last \/ NextOnPath(code, c) \subseteq r.met

LEMMA LongerRound ==
  ASSUME NEW code \in Seq(Byte), NEW r, RoundHolds(code, r)
  PROVE  /\ RoundHolds(code, OneLonger(code, r))
         /\ r.met \subseteq OneLonger(code, r).met
         /\ OneLonger(code, r).met = r.met \cup OneLonger(code, r).last
         /\ r.last = {} => OneLonger(code, r).last = {}
         /\ OneLonger(code, r).last \cap r.met = {}
         /\ \A c \in OneLonger(code, r).last : \E d \in r.met : c \in NextOnPath(code, d)
<1> DEFINE all == UNION {NextOnPath(code, c) : c \in r.last}
           longer == all \ r.met
<1>1. /\ \A c \in all : \E d \in r.last : c \in NextOnPath(code, d)
      /\ \A d \in r.last : NextOnPath(code, d) \subseteq all
      /\ r.last = {} => all = {}
  OBVIOUS
<1>2. OneLonger(code, r).met = r.met \cup longer /\ OneLonger(code, r).last = longer
  BY DEF OneLonger
<1> HIDE DEF all
<1>3. /\ r.met \subseteq Nat \X Int /\ r.last \subseteq r.met /\ <<0, 0>> \in r.met
      /\ \A c \in r.met : c \in r.last \/ NextOnPath(code, c) \subseteq r.met
  BY DEF RoundHolds
<1>4. \A c \in longer : \E d \in r.met : c \in NextOnPath(code, d)
  BY <1>1, <1>3
<1>5. longer \subseteq Nat \X Int
  BY <1>3, <1>4, NextTypes
<1>6. \A c \in r.last : NextOnPath(code, c) \subseteq r.met \cup longer
  BY <1>1
<1>7. RoundHolds(code, OneLonger(code, r))
  BY <1>2, <1>3, <1>5, <1>6 DEF RoundHolds
<1>8. r.last = {} => longer = {}
  BY <1>1
<1>9. longer \cap r.met = {}
  OBVIOUS
<1> QED
  BY <1>2, <1>4, <1>7, <1>8, <1>9

LEMMA Rounds ==
  ASSUME NEW code \in Seq(Byte), NEW reach, reach[0] = EmptyPath,
         \A n \in 1..Len(code) : reach[n] = OneLonger(code, reach[n - 1])
  PROVE  \A n \in 0..Len(code) : RoundHolds(code, reach[n]) /\ reach[n].met \subseteq reach[Len(code)].met
<1>1. Len(code) \in Nat
  BY LenProperties
<1> DEFINE T == {n \in Nat : n <= Len(code) =>
                   RoundHolds(code, reach[n]) /\ \A m \in 0..n : reach[m].met \subseteq reach[n].met}
<1>2. 0 \in T
  <2>1. RoundHolds(code, EmptyPath)
    BY DEF RoundHolds, EmptyPath
  <2> QED
    BY <2>1
<1>3. ASSUME NEW n \in T PROVE n + 1 \in T
  <2> SUFFICES ASSUME n + 1 <= Len(code)
               PROVE  /\ RoundHolds(code, reach[n + 1])
                      /\ \A m \in 0..n+1 : reach[m].met \subseteq reach[n + 1].met
    OBVIOUS
  <2>1. RoundHolds(code, reach[n]) /\ \A m \in 0..n : reach[m].met \subseteq reach[n].met
    BY <1>1
  <2>2. reach[n + 1] = OneLonger(code, reach[n])
    <3>1. n + 1 \in 1..Len(code) /\ n + 1 - 1 = n
      BY <1>1
    <3> QED
      BY <3>1
  <2>3. RoundHolds(code, reach[n + 1]) /\ reach[n].met \subseteq reach[n + 1].met
    BY <2>1, <2>2, LongerRound
  <2>4. \A m \in 0..n+1 : m \in 0..n \/ m = n + 1
    OBVIOUS
  <2> QED
    BY <2>1, <2>3, <2>4
<1>4. \A n \in Nat : n \in T
  <2>1. T \subseteq Nat
    OBVIOUS
  <2> HIDE DEF T
  <2> QED
    BY <1>2, <1>3, <2>1, EveryNumber
<1> QED
  BY <1>1, <1>4

\* An induction over the length of paths: what holds at offset 0 and passes from an
\* instruction to its successors holds on every path.
LEMMA OnEveryPath ==
  ASSUME NEW code \in Seq(Byte), NEW Good, <<0, 0>> \in Good,
         \A c \in Good \cap (Nat \X Int) : NextOnPath(code, c) \subseteq Good
  PROVE  Paths(code) \subseteq Good \cap (Nat \X Int)
<1>1. CASE code = << >>
  BY <1>1 DEF Paths
<1>2. CASE code # << >>
  <2>1. PICK reach : /\ reach[0] = EmptyPath
                     /\ \A n \in 1..Len(code) : reach[n] = OneLonger(code, reach[n - 1])
                     /\ Paths(code) = reach[Len(code)].met
    BY <1>2, PathsBySteps
  <2>2. Len(code) \in Nat
    BY LenProperties
  <2>3. \A n \in 0..Len(code) : RoundHolds(code, reach[n])
    BY <2>1, Rounds
  <2> DEFINE T == {n \in Nat : n <= Len(code) => reach[n].met \subseteq Good}
  <2>4. 0 \in T
    BY <2>1 DEF EmptyPath
  <2>5. ASSUME NEW n \in T PROVE n + 1 \in T
    <3> SUFFICES ASSUME n + 1 <= Len(code) PROVE reach[n + 1].met \subseteq Good
      OBVIOUS
    <3>1. n \in 0..Len(code) /\ n + 1 \in 1..Len(code) /\ n + 1 - 1 = n
      BY <2>2
    <3>2. reach[n + 1] = OneLonger(code, reach[n]) /\ reach[n].met \subseteq Good
          /\ RoundHolds(code, reach[n])
      BY <2>1, <2>2, <2>3, <3>1
    <3>3. /\ reach[n + 1].met = reach[n].met \cup reach[n + 1].last
          /\ \A c \in reach[n + 1].last : \E d \in reach[n].met : c \in NextOnPath(code, d)
      BY <3>2, LongerRound
    <3>4. reach[n].met \subseteq Good \cap (Nat \X Int)
      BY <3>2 DEF RoundHolds
    <3> QED
      BY <3>3, <3>4
  <2>6. \A n \in Nat : n \in T
    <3>1. T \subseteq Nat
      OBVIOUS
    <3> HIDE DEF T
    <3> QED
      BY <2>4, <2>5, <3>1, EveryNumber
  <2>7. RoundHolds(code, reach[Len(code)])
    BY <2>2, <2>3
  <2> QED
    BY <2>1, <2>2, <2>6, <2>7 DEF RoundHolds
<1> QED
  BY <1>1, <1>2

\* A certificate fixes the depth of every offset on every path.
LEMMA CertifiedIsWellBehaved ==
  ASSUME NEW code \in Seq(Byte), NEW max \in U16, NEW depth, Certifies(depth, code, max)
  PROVE  WellBehaved(code)
<1>1. CASE code = << >>
  BY <1>1 DEF WellBehaved, Paths
<1>2. CASE code # << >>
  <2>1. Len(code) \in Nat /\ Len(code) > 0
    BY <1>2, LenProperties, EmptySeq
  <2> DEFINE Good == {c \in Nat \X Nat : c[1] < Len(code) /\ depth[c[1]] = c[2]}
  <2>2. ASSUME NEW c \in Good
        PROVE  /\ Decodable(code, c[1]) /\ c[2] + StackDelta(code, c[1]) \in 0..max
               /\ NextOnPath(code, c) \subseteq Good
    <3>1. c[1] \in 0..Len(code)-1 /\ c[1] \in Nat /\ depth[c[1]] = c[2] /\ c[2] # Unknown
      BY <2>1 DEF Unknown
    <3>2. PICK after : after = c[2] + StackDelta(code, c[1])
      OBVIOUS
    <3>3. /\ Decodable(code, c[1]) /\ after \in 0..max
          /\ \A t \in Successors(code, c[1]) : t < Len(code) /\ depth[t] = after
      BY <3>1, <3>2 DEF Certifies
    <3>4. after \in Nat
      BY <3>3, U16Nat
    <3>5. Successors(code, c[1]) \subseteq Nat
      BY <3>1, <3>3, SuccessorType
    <3>6. NextOnPath(code, c) = {<<t, after>> : t \in Successors(code, c[1])}
      BY <3>2, <3>3 DEF NextOnPath
    <3>7. NextOnPath(code, c) \subseteq Good
      BY <3>3, <3>4, <3>5, <3>6
    <3> QED
      BY <3>2, <3>3, <3>7
  <2>3. <<0, 0>> \in Good
    BY <2>1 DEF Certifies
  <2>4. Paths(code) \subseteq Good
    <3> HIDE DEF Good
    <3> QED
      BY <2>2, <2>3, OnEveryPath
  <2>5. \A n \in 0..max : n \in 0..UINT16_MAX
    BY U16Nat, Limits
  <2>6. \A c, d \in Good : d[1] = c[1] => d = c
    OBVIOUS
  <2> HIDE DEF Good
  <2> QED
    BY <2>2, <2>4, <2>5, <2>6 DEF WellBehaved
<1> QED
  BY <1>1, <1>2

\* Well behaved code has no more pairs than bytes, so the rounds come to an end and
\* no path leaves them.
LEMMA PathsAreClosed ==
  ASSUME NEW code \in Seq(Byte), code # << >>, WellBehaved(code)
  PROVE  <<0, 0>> \in Paths(code) /\ \A c \in Paths(code) : NextOnPath(code, c) \subseteq Paths(code)
<1>1. PICK reach : /\ reach[0] = EmptyPath
                   /\ \A n \in 1..Len(code) : reach[n] = OneLonger(code, reach[n - 1])
                   /\ Paths(code) = reach[Len(code)].met
  BY PathsBySteps
<1>2. Len(code) \in Nat
  BY LenProperties
<1>3. \A n \in 0..Len(code) : RoundHolds(code, reach[n]) /\ reach[n].met \subseteq Paths(code)
  BY <1>1, Rounds
<1>4. RoundHolds(code, reach[Len(code)])
  BY <1>2, <1>3
<1>5. Paths(code) \subseteq Nat \X Int
  BY <1>1, <1>4 DEF RoundHolds
<1>6. IsFiniteSet(Paths(code)) /\ Cardinality(Paths(code)) <= Len(code)
  <2>1. PICK f : f = [c \in Paths(code) |-> c[1]]
    OBVIOUS
  <2>2. \A c \in Paths(code) : c[1] \in 0..Len(code)-1
    <3>1. \A c \in Paths(code) : c[1] < Len(code) /\ c[1] \in Nat
      BY <1>5 DEF WellBehaved, Decodable
    <3> QED
      BY <1>2, <3>1
  <2>3. \A c, d \in Paths(code) : c[1] = d[1] => c = d
    BY DEF WellBehaved
  <2>4. f \in Injection(Paths(code), 0..Len(code)-1)
    BY <2>1, <2>2, <2>3 DEF Injection, IsInjective
  <2>5. /\ IsFiniteSet(0..Len(code)-1)
        /\ Cardinality(0..Len(code)-1) = IF 0 > Len(code) - 1 THEN 0 ELSE Len(code) - 1 - 0 + 1
    BY <1>2, FS_Interval
  <2>6. Cardinality(0..Len(code)-1) = Len(code)
    BY <1>2, <2>5
  <2> QED
    BY <2>4, <2>5, <2>6, FS_Injection
<1>7. \A n \in 0..Len(code) : IsFiniteSet(reach[n].met) /\ Cardinality(reach[n].met) <= Len(code)
  <2> TAKE n \in 0..Len(code)
  <2>1. reach[n].met \in SUBSET Paths(code)
    BY <1>3
  <2>2. IsFiniteSet(reach[n].met) /\ Cardinality(reach[n].met) <= Cardinality(Paths(code))
    BY <1>6, <2>1, FS_Subset
  <2>3. Cardinality(reach[n].met) \in Nat /\ Cardinality(Paths(code)) \in Nat
    BY <1>6, <2>2, FS_CardinalityType
  <2> QED
    BY <1>2, <1>6, <2>2, <2>3
<1> DEFINE T == {n \in Nat : n <= Len(code) =>
                   reach[n].last = {} \/ Cardinality(reach[n].met) > n}
<1>8. 0 \in T
  <2>1. reach[0].met = {<<0, 0>>}
    BY <1>1 DEF EmptyPath
  <2>2. Cardinality(reach[0].met) = 1
    BY <2>1, FS_Singleton
  <2> QED
    BY <2>2
<1>9. ASSUME NEW n \in T PROVE n + 1 \in T
  <2> SUFFICES ASSUME n + 1 <= Len(code), reach[n + 1].last # {}
               PROVE  Cardinality(reach[n + 1].met) > n + 1
    OBVIOUS
  <2>1. n \in 0..Len(code) /\ n + 1 \in 1..Len(code) /\ n + 1 \in 0..Len(code) /\ n + 1 - 1 = n
    BY <1>2
  <2>2. RoundHolds(code, reach[n]) /\ reach[n + 1] = OneLonger(code, reach[n])
    BY <1>1, <1>3, <2>1
  <2>3. /\ reach[n + 1].met = reach[n].met \cup reach[n + 1].last
        /\ reach[n].last = {} => reach[n + 1].last = {}
        /\ reach[n + 1].last \cap reach[n].met = {}
    BY <2>2, LongerRound
  <2>4. Cardinality(reach[n].met) > n
    BY <2>1, <2>3
  <2>5. /\ IsFiniteSet(reach[n].met) /\ IsFiniteSet(reach[n + 1].met)
        /\ reach[n].met \in SUBSET reach[n + 1].met /\ reach[n].met # reach[n + 1].met
    BY <1>7, <2>1, <2>3
  <2>6. /\ Cardinality(reach[n].met) <= Cardinality(reach[n + 1].met)
        /\ Cardinality(reach[n].met) # Cardinality(reach[n + 1].met)
    BY <2>5, FS_Subset
  <2>7. Cardinality(reach[n].met) \in Nat /\ Cardinality(reach[n + 1].met) \in Nat
    BY <2>5, FS_CardinalityType
  <2> QED
    BY <2>4, <2>6, <2>7
<1>10. \A n \in Nat : n \in T
  <2>1. T \subseteq Nat
    OBVIOUS
  <2> HIDE DEF T
  <2> QED
    BY <1>8, <1>9, <2>1, EveryNumber
<1>11. reach[Len(code)].last = {}
  <2>1. /\ Cardinality(reach[Len(code)].met) <= Len(code) /\ IsFiniteSet(reach[Len(code)].met)
        /\ Cardinality(reach[Len(code)].met) \in Nat
    BY <1>2, <1>7, FS_CardinalityType
  <2> QED
    BY <1>2, <1>10, <2>1
<1> QED
  BY <1>1, <1>4, <1>11 DEF RoundHolds

-----------------------------------------------------------------------------
(* The verdict is exact *)

\* Marks of well behaved code are depths that a path has there.
OnPaths(s) ==
  WellBehaved(sections[s]) =>
    \A pc \in 0..Len(sections[s])-1 :
      stackAt[s][pc] # Unknown => <<pc, stackAt[s][pc]>> \in Paths(sections[s])

ExactInv ==
  /\ \A s \in Sections : OnPaths(s)
  /\ verdict \in Rejection => \E s \in Sections : ~WellBehaved(sections[s])

LEMMA SectionTypes ==
  ASSUME DInv, NEW s \in Sections
  PROVE  sections[s] \in Seq(Byte) /\ Len(sections[s]) \in Nat
<1>1. sections[s] \in Seq(Byte)
  BY DEF DInv, TypeOK
<1> QED
  BY <1>1, LenProperties

\* The offset taken from the worklist is on a path, with its mark, and so are its
\* successors with the next depth.
LEMMA TakenOnPath ==
  ASSUME DInv, phase = "visit", work # << >>, OnPaths(Name), WellBehaved(Analysed)
  PROVE  /\ Name \in Sections /\ Analysed \in Seq(Byte)
         /\ Pc \in 0..Len(Analysed)-1 /\ Marks[Pc] # Unknown
         /\ Decodable(Analysed, Pc) /\ NextStack \in 0..UINT16_MAX
         /\ \A t \in Successors(Analysed, Pc) : <<t, NextStack>> \in Paths(Analysed)
<1>1. Name \in Sections /\ current \in 1..3 /\ Len(Analysed) > 0
  BY NamesAre DEF DInv, WorkInv, Name
<1>2. Analysed \in Seq(Byte) /\ Len(Analysed) \in Nat
  BY <1>1, SectionTypes DEF Analysed
<1>3. Pc \in 0..Len(Analysed)-1 /\ Marks[Pc] # Unknown
  <2>1. work \in Seq(Nat)
    BY DEF DInv, TypeOK
  <2>2. Len(work) \in Nat /\ Len(work) # 0
    BY <2>1, LenProperties, EmptySeq
  <2>3. Len(work) \in 1..Len(work)
    BY <2>2
  <2>4. Holds(work, Pc)
    BY <2>3 DEF Pc, Holds
  <2> QED
    BY <2>4 DEF DInv, WorkInv
<1>4. PICK c : c = <<Pc, Marks[Pc]>>
  OBVIOUS
<1>5. c \in Paths(Analysed)
  BY <1>3, <1>4 DEF OnPaths, Analysed, Marks
<1>6. Decodable(Analysed, c[1]) /\ c[2] + StackDelta(Analysed, c[1]) \in 0..UINT16_MAX
  BY <1>5 DEF WellBehaved
<1>7. c[1] = Pc /\ c[2] + StackDelta(Analysed, c[1]) = NextStack
  BY <1>4 DEF NextStack
<1>8. Analysed # << >>
  BY <1>1, EmptySeq
<1>9. NextOnPath(Analysed, c) \subseteq Paths(Analysed)
  BY <1>2, <1>5, <1>8, PathsAreClosed
<1>10. NextOnPath(Analysed, c) = {<<t, NextStack>> : t \in Successors(Analysed, Pc)}
  BY <1>6, <1>7 DEF NextOnPath
<1> QED
  BY <1>1, <1>2, <1>3, <1>6, <1>7, <1>9, <1>10

LEMMA ExactVisit ==
  ASSUME DInv, ExactInv, Visit
  PROVE  ExactInv'
<1>1. /\ phase = "visit" /\ work # << >> /\ verdict' = verdict /\ sections' = sections
      /\ Name \in Sections /\ Name' = Name
  BY VisitFacts DEF Visit
<1>2. ASSUME NEW s \in Sections PROVE OnPaths(s)'
  <2> SUFFICES ASSUME WellBehaved(sections[s]), NEW pc \in 0..Len(sections[s])-1,
                      stackAt'[s][pc] # Unknown
               PROVE  <<pc, stackAt'[s][pc]>> \in Paths(sections[s])
    BY <1>1 DEF OnPaths
  <2>1. OnPaths(s)
    BY DEF ExactInv
  <2>2. CASE s # Name
    BY <2>1, <2>2, VisitMarks DEF OnPaths
  <2>3. CASE s = Name
    <3>1. /\ sections[s] = Analysed /\ stackAt[s] = Marks /\ stackAt'[s] = Marks'
      BY <1>1, <2>3 DEF Analysed, Marks
    <3>2. Marks'[pc] = IF pc \in Successors(Analysed, Pc) THEN NextStack ELSE Marks[pc]
      BY <3>1, VisitMarks
    <3>3. CASE pc \in Successors(Analysed, Pc)
      BY <1>1, <2>1, <2>3, <3>1, <3>2, <3>3, TakenOnPath
    <3>4. CASE pc \notin Successors(Analysed, Pc)
      BY <2>1, <3>1, <3>2, <3>4 DEF OnPaths
    <3> QED
      BY <3>3, <3>4
  <2> QED
    BY <2>2, <2>3
<1> QED
  BY <1>1, <1>2 DEF ExactInv

\* Only code that is not well behaved is refused.
LEMMA ExactRefusal ==
  ASSUME DInv, ExactInv, Refuse
  PROVE  ExactInv'
<1>1. /\ phase = "visit" /\ work # << >> /\ VisitFault # "none"
      /\ sections' = sections /\ stackAt' = stackAt
  BY DEF Refuse
<1>2. Name \in Sections
  BY <1>1, NamesAre DEF DInv, WorkInv, Name
<1>3. ~ WellBehaved(sections[Name])
  <2> SUFFICES ASSUME WellBehaved(Analysed) PROVE FALSE
    BY DEF Analysed
  <2>1. /\ Analysed \in Seq(Byte) /\ Pc \in 0..Len(Analysed)-1 /\ Marks[Pc] # Unknown
        /\ Decodable(Analysed, Pc) /\ NextStack \in 0..UINT16_MAX
        /\ \A t \in Successors(Analysed, Pc) : <<t, NextStack>> \in Paths(Analysed)
    BY <1>1, <1>2, TakenOnPath DEF ExactInv
  <2>2. Pc \in Nat /\ Len(Analysed) \in Nat
    BY <2>1, LenProperties
  <2>3. \A t \in Successors(Analysed, Pc) : t \in Nat /\ t < Len(Analysed)
    <3>1. \A c \in Paths(Analysed) : c[1] < Len(Analysed)
      BY DEF WellBehaved, Decodable
    <3>2. Successors(Analysed, Pc) \subseteq Nat
      BY <2>1, <2>2, SuccessorType
    <3> QED
      BY <2>1, <3>1, <3>2
  <2>4. ~ LeavesCode
    BY <2>2, <2>3 DEF LeavesCode
  <2>5. ~ Disagrees
    <3> SUFFICES ASSUME NEW t \in Successors(Analysed, Pc), Marks[t] # Unknown
                 PROVE  Marks[t] = NextStack
      BY DEF Disagrees
    <3>1. t \in 0..Len(Analysed)-1
      BY <2>2, <2>3
    <3>2. <<t, Marks[t]>> \in Paths(Analysed)
      BY <1>2, <3>1 DEF ExactInv, OnPaths, Analysed, Marks
    <3>3. <<t, NextStack>> \in Paths(Analysed)
      BY <2>1
    <3> QED
      BY <3>2, <3>3 DEF WellBehaved
  <2> QED
    BY <1>1, <2>1, <2>4, <2>5 DEF VisitFault
<1>4. \A s \in Sections : OnPaths(s)'
  BY <1>1 DEF ExactInv, OnPaths
<1> QED
  BY <1>1, <1>2, <1>3, <1>4 DEF ExactInv

LEMMA ExactStart ==
  ASSUME DInv, ExactInv, StartSection
  PROVE  ExactInv'
<1>1. verdict' = verdict /\ sections' = sections
  BY DEF StartSection
<1>2. current \in 1..3 /\ Name \in Sections
  <2>1. current \in 1..4 /\ current <= 3
    BY DEF DInv, TypeOK, StartSection
  <2> QED
    BY <2>1, NamesAre DEF Name
<1>3. CASE Analysed = << >>
  <2>1. stackAt' = stackAt
    BY <1>3 DEF StartSection
  <2> QED
    BY <1>1, <2>1 DEF ExactInv, OnPaths
<1>4. CASE Analysed # << >>
  <2>1. stackAt' = [stackAt EXCEPT ![Name] = [Marks EXCEPT ![0] = 0]] /\ DOMAIN stackAt = Sections
    BY <1>4 DEF StartSection, Marks, DInv, TypeOK
  <2>2. Analysed \in Seq(Byte) /\ Len(Analysed) \in Nat
        /\ Marks \in [0..Len(Analysed)-1 -> -1..UINT16_MAX]
    BY <1>2, SectionTypes DEF Analysed, Marks, DInv, TypeOK
  <2>3. ASSUME NEW s \in Sections PROVE OnPaths(s)'
    <3> SUFFICES ASSUME WellBehaved(sections[s]), NEW pc \in 0..Len(sections[s])-1,
                        stackAt'[s][pc] # Unknown
                 PROVE  <<pc, stackAt'[s][pc]>> \in Paths(sections[s])
      BY <1>1 DEF OnPaths
    <3>1. CASE s # Name
      BY <2>1, <3>1 DEF ExactInv, OnPaths
    <3>2. CASE s = Name
      <4>1. stackAt'[s] = [Marks EXCEPT ![0] = 0] /\ sections[s] = Analysed /\ stackAt[s] = Marks
        BY <1>2, <2>1, <3>2 DEF Analysed, Marks
      <4>2. CASE pc = 0
        <5>1. <<0, 0>> \in Paths(Analysed)
          BY <1>4, <2>2, <4>1, PathsAreClosed
        <5>2. stackAt'[s][0] = 0
          BY <2>2, <4>1, <4>2
        <5> QED
          BY <4>1, <4>2, <5>1, <5>2
      <4>3. CASE pc # 0
        <5>1. stackAt'[s][pc] = Marks[pc]
          BY <2>2, <4>1, <4>3
        <5> QED
          BY <4>1, <5>1 DEF ExactInv, OnPaths
      <4> QED
        BY <4>2, <4>3
    <3> QED
      BY <3>1, <3>2
  <2> QED
    BY <1>1, <2>3 DEF ExactInv
<1> QED
  BY <1>3, <1>4

\* The analysis is exact for code of any length: it accepts the programs in which every
\* path stays inside the code and within the stack of 65535 cells and meets an offset at
\* one depth only, and no others (compute_section_stack_depth).
THEOREM VerdictIsExact == DepthSpec => []VerdictExact
<1>1. DepthInit => ExactInv
  <2> SUFFICES ASSUME DepthInit PROVE ExactInv
    OBVIOUS
  <2>1. \A s \in Sections : \A pc \in 0..Len(sections[s])-1 : stackAt[s][pc] = Unknown
    BY DEF DepthInit
  <2> QED
    BY <2>1 DEF DepthInit, ExactInv, OnPaths, Rejection
<1>2. DInv /\ ExactInv /\ [DepthNext]_depthVars => ExactInv'
  <2> SUFFICES ASSUME DInv, ExactInv, [DepthNext]_depthVars PROVE ExactInv'
    OBVIOUS
  <2>1. CASE FinishSection \/ Accept \/ UNCHANGED depthVars
    <3>1. sections' = sections /\ stackAt' = stackAt /\ verdict' \in {verdict, "accepted"}
      BY <2>1 DEF FinishSection, Accept, depthVars
    <3> QED
      BY <3>1 DEF ExactInv, OnPaths, Rejection
  <2> QED
    BY <2>1, ExactStart, ExactVisit, ExactRefusal DEF DepthNext
<1>3. DInv /\ AcceptedCertified /\ ExactInv => VerdictExact
  <2> SUFFICES ASSUME DInv, AcceptedCertified, ExactInv, verdict # "running"
               PROVE  verdict = "accepted" <=> \A s \in Sections : WellBehaved(sections[s])
    BY DEF VerdictExact
  <2>1. CASE verdict = "accepted"
    <3>1. maxStack \in U16
      BY DEF DInv, TypeOK
    <3>2. \A s \in Sections : WellBehaved(sections[s])
      BY <2>1, <3>1, SectionTypes, CertifiedIsWellBehaved DEF AcceptedCertified
    <3> QED
      BY <2>1, <3>2
  <2>2. CASE verdict # "accepted"
    BY <2>2 DEF ExactInv, DInv, TypeOK
  <2> QED
    BY <2>1, <2>2
<1> QED
  BY <1>1, <1>2, <1>3, DepthInvariant, Certified, PTL DEF DepthSpec

\* The recorded maximum is not padded: it is the depth behind an instruction that the
\* analysis marked (stack_after > max_stack in compute_section_stack_depth).
THEOREM MaximumIsReached == DepthSpec => []MaxReached
<1>1. DepthInit => MaxReached
  BY DEF DepthInit, MaxReached
<1>2. DInv /\ MaxReached /\ Visit => MaxReached'
  <2> SUFFICES ASSUME DInv, MaxReached, Visit, maxStack' > 0 PROVE MaxReached'
    BY DEF MaxReached
  <2>1. /\ sections' = sections /\ Name \in Sections /\ DOMAIN Marks = 0..Len(Analysed)-1
        /\ Analysed = sections[Name] /\ Marks = stackAt[Name] /\ Marks' = stackAt'[Name]
        /\ Pc \in 0..Len(Analysed)-1 /\ Marks[Pc] # Unknown /\ Decodable(Analysed, Pc)
        /\ NextStack = Marks[Pc] + StackDelta(Analysed, Pc)
    BY VisitFacts DEF Analysed, Marks
  <2>2. DOMAIN stackAt'[Name] = 0..Len(Analysed)-1 /\ DOMAIN stackAt' = Sections
    BY <2>1, VisitMarks
  <2>3. CASE maxStack' = NextStack
    <3>1. /\ stackAt'[Name][Pc] # Unknown /\ Pc \in DOMAIN stackAt'[Name]
          /\ stackAt'[Name][Pc] + StackDelta(sections'[Name], Pc) = maxStack'
          /\ Decodable(sections'[Name], Pc)
      BY <2>1, <2>2, <2>3, VisitMarks
    <3> QED
      BY <2>1, <3>1 DEF MaxReached
  <2>4. CASE maxStack' = maxStack
    <3>1. PICK s \in Sections : \E i \in DOMAIN stackAt[s] :
            /\ stackAt[s][i] # Unknown /\ Decodable(sections[s], i)
            /\ stackAt[s][i] + StackDelta(sections[s], i) = maxStack
      BY <2>4 DEF MaxReached
    <3>2. PICK pc \in DOMAIN stackAt[s] :
            /\ stackAt[s][pc] # Unknown /\ Decodable(sections[s], pc)
            /\ stackAt[s][pc] + StackDelta(sections[s], pc) = maxStack
      BY <3>1
    <3>3. stackAt'[s][pc] = stackAt[s][pc] /\ pc \in DOMAIN stackAt'[s]
      <4>1. CASE s = Name
        BY <2>1, <2>2, <3>2, <4>1, VisitMarks
      <4>2. CASE s # Name
        BY <3>2, <4>2, VisitMarks
      <4> QED
        BY <4>1, <4>2
    <3> QED
      BY <2>1, <2>4, <3>2, <3>3 DEF MaxReached
  <2> QED
    BY <2>3, <2>4 DEF Visit, Peak
<1>3. DInv /\ MaxReached /\ StartSection => MaxReached'
  <2> SUFFICES ASSUME DInv, MaxReached, StartSection, maxStack > 0 PROVE MaxReached'
    BY DEF MaxReached, StartSection
  <2>1. PICK s \in Sections : \E pc \in DOMAIN stackAt[s] :
          /\ stackAt[s][pc] # Unknown /\ Decodable(sections[s], pc)
          /\ stackAt[s][pc] + StackDelta(sections[s], pc) = maxStack
    BY DEF MaxReached
  <2>2. /\ maxStack' = maxStack /\ sections' = sections /\ current \in 1..3 /\ phase = "start"
        /\ DOMAIN stackAt = Sections
        /\ stackAt' = stackAt \/ stackAt' = [stackAt EXCEPT ![Name] = [@ EXCEPT ![0] = 0]]
    <3>1. current \in 1..4 /\ current <= 3
      BY DEF DInv, TypeOK, StartSection
    <3> QED
      BY <3>1 DEF DInv, TypeOK, StartSection
  <2>3. s # Name
    <3> SUFFICES ASSUME s = Name PROVE FALSE
      OBVIOUS
    <3>1. current >= current
      BY <2>2
    <3>2. \A i \in 0..Len(sections[s])-1 : stackAt[s][i] = Unknown
      BY <2>2, <3>1 DEF DInv, UntouchedInv, Name
    <3>3. DOMAIN stackAt[s] = 0..Len(sections[s])-1
      BY DEF DInv, TypeOK
    <3> QED
      BY <2>1, <3>2, <3>3
  <2>4. stackAt'[s] = stackAt[s]
    BY <2>2, <2>3
  <2> QED
    BY <2>1, <2>2, <2>4 DEF MaxReached
<1>4. MaxReached /\ (FinishSection \/ Refuse \/ Accept \/ UNCHANGED depthVars) => MaxReached'
  <2> SUFFICES ASSUME MaxReached, FinishSection \/ Refuse \/ Accept \/ UNCHANGED depthVars
               PROVE  MaxReached'
    OBVIOUS
  <2>1. sections' = sections /\ stackAt' = stackAt /\ maxStack' = maxStack
    BY DEF FinishSection, Refuse, Accept, depthVars
  <2> QED
    BY <2>1 DEF MaxReached
<1>5. DInv /\ MaxReached /\ [DepthNext]_depthVars => MaxReached'
  BY <1>2, <1>3, <1>4 DEF DepthNext
<1> QED
  BY <1>1, <1>5, DepthInvariant, PTL DEF DepthSpec
=============================================================================
