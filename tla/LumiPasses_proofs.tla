-------------------------- MODULE LumiPasses_proofs -------------------------
(***************************************************************************)
(* The passes of the optimizer, for code of any length whose jumps lead    *)
(* forward to instructions.                                                *)
(***************************************************************************)
EXTENDS LumiPasses, LumiBytecode_proofs, FiniteSetTheorems

-----------------------------------------------------------------------------
(* Stepping over instructions *)

Following(code, pc) == pc + InstructionSize(code, pc)

LEMMA Sizes == \A code, pc : InstructionSize(code, pc) \in 1..3
BY DEF InstructionSize, EncodedSize

\* The walk goes on after the instruction at pc.
Goes(code, pc) == Decodable(code, pc) /\ Following(code, pc) < Len(code)

\* A function that is recursive from the end of an interval exists: here the offsets that
\* are met from each offset, where next says how the walk goes on.
LEMMA WalkExists ==
  ASSUME NEW len \in Nat, NEW goes, NEW next,
         \A pc \in 0..len : goes[pc] => next[pc] \in pc+1..len
  PROVE  \E f : f = [pc \in 0..len |-> IF goes[pc] THEN {pc} \cup f[next[pc]] ELSE {pc}]
<1> DEFINE Walk(n, f) == f = [pc \in len-n..len |-> IF goes[pc] THEN {pc} \cup f[next[pc]] ELSE {pc}]
           T == {n \in Nat : n <= len => \E f : Walk(n, f)}
<1>1. 0 \in T
  <2> DEFINE f == [pc \in len-0..len |-> {pc}]
  <2>1. \A pc \in len-0..len : pc = len /\ ~goes[pc] OBVIOUS
  <2>2. Walk(0, f) BY <2>1
  <2> HIDE DEF Walk, f
  <2> QED BY <2>2
<1>2. ASSUME NEW n \in T PROVE n + 1 \in T
  <2> SUFFICES ASSUME n + 1 <= len PROVE \E f : Walk(n + 1, f)
    OBVIOUS
  <2>1. PICK f : Walk(n, f)
    <3> HIDE DEF Walk
    <3>1. n <= len OBVIOUS
    <3> QED BY <3>1
  <2> DEFINE g == [pc \in len-(n+1)..len |-> IF goes[pc] THEN {pc} \cup f[next[pc]] ELSE {pc}]
  <2>2. \A pc \in len-n..len : pc \in len-(n+1)..len /\ g[pc] = f[pc]
    <3>1. \A pc \in len-n..len : pc \in len-(n+1)..len OBVIOUS
    <3> QED BY <2>1, <3>1
  <2>3. \A pc \in len-(n+1)..len : goes[pc] => next[pc] \in len-n..len
    <3> SUFFICES ASSUME NEW pc \in len-(n+1)..len, goes[pc] PROVE next[pc] \in len-n..len
      OBVIOUS
    <3>1. pc \in 0..len OBVIOUS
    <3>2. next[pc] \in pc+1..len BY <3>1
    <3> QED BY <3>2
  <2>4. \A pc \in len-(n+1)..len : goes[pc] => f[next[pc]] = g[next[pc]]
    BY <2>2, <2>3
  <2>5. Walk(n + 1, g)
    BY <2>4
  <2> HIDE DEF Walk, g
  <2> QED BY <2>5
<1>3. \A n \in Nat : n \in T
  <2>1. T \subseteq Nat OBVIOUS
  <2> HIDE DEF T
  <2> QED BY <1>1, <1>2, <2>1, EveryNumber
<1>4. PICK f : Walk(len, f)
  <2> HIDE DEF Walk
  <2>1. len \in T BY <1>3
  <2> QED BY <2>1
<1>5. len - len = 0 OBVIOUS
<1> QED BY <1>4, <1>5

\* The recursive function of Starts exists and computes what it says.
LEMMA StartsByWalk ==
  ASSUME NEW code \in Seq(Byte), code # << >>
  PROVE  \E from : /\ Starts(code) = from[0]
                   /\ \A pc \in 0..Len(code) :
                        from[pc] = IF Goes(code, pc) THEN {pc} \cup from[Following(code, pc)] ELSE {pc}
<1> DEFINE len == Len(code)
           goes == [pc \in 0..len |-> Goes(code, pc)]
           next == [pc \in 0..len |-> Following(code, pc)]
           Walks(f) == f = [pc \in 0..Len(code) |->
                               LET next_1 == pc + InstructionSize(code, pc) IN
                               IF Decodable(code, pc) /\ next_1 < Len(code) THEN {pc} \cup f[next_1] ELSE {pc}]
<1>1. len \in Nat BY LenProperties
<1>2. \A pc \in 0..len : goes[pc] => next[pc] \in pc+1..len
  <2> SUFFICES ASSUME NEW pc \in 0..len, Goes(code, pc) PROVE Following(code, pc) \in pc+1..len
    OBVIOUS
  <2>1. Following(code, pc) < len BY DEF Goes
  <2>2. InstructionSize(code, pc) \in 1..3 BY Sizes
  <2> QED BY <1>1, <2>1, <2>2 DEF Following
<1>3. \E f : Walks(f)
  <2>1. PICK f : f = [pc \in 0..len |-> IF goes[pc] THEN {pc} \cup f[next[pc]] ELSE {pc}]
    <3>1. \A g, n : (\A pc \in 0..len : g[pc] => n[pc] \in pc+1..len)
                    => \E f : f = [pc \in 0..len |-> IF g[pc] THEN {pc} \cup f[n[pc]] ELSE {pc}]
      BY <1>1, WalkExists
    <3> HIDE DEF goes, next, len
    <3> QED BY <1>2, <3>1
  <2>2. f = [pc \in 0..len |-> IF Goes(code, pc) THEN {pc} \cup f[Following(code, pc)] ELSE {pc}]
    BY <2>1
  <2>3. Walks(f)
    BY <2>2 DEF Goes, Following
  <2> HIDE DEF Walks
  <2> QED BY <2>3
<1>4. PICK from : from = CHOOSE f : Walks(f)
  OBVIOUS
<1>5. Walks(from)
  <2> HIDE DEF Walks
  <2> QED BY <1>3, <1>4, Zenon
<1>6. Starts(code) = from[0]
  BY <1>4 DEF Starts
<1>7. \A pc \in 0..Len(code) :
        from[pc] = IF Goes(code, pc) THEN {pc} \cup from[Following(code, pc)] ELSE {pc}
  BY <1>5 DEF Goes, Following
<1> QED BY <1>6, <1>7

\* What such a walk meets is closed under going on, and no smaller set is: here goes is
\* the set of offsets after which the walk goes on.
Walked(len, goes, next, f) ==
  /\ \A pc \in 0..len-1 : pc \in goes => next[pc] \in pc+1..len-1
  /\ \A pc \in 0..len-1 : f[pc] = IF pc \in goes THEN {pc} \cup f[next[pc]] ELSE {pc}

Met(len, goes, next, S) ==
  /\ S \subseteq 0..len-1 /\ 0 \in S
  /\ \A pc \in S : pc \in goes => next[pc] \in S
  /\ \A T : 0 \in T /\ (\A pc \in T \cap (0..len-1) : pc \in goes => next[pc] \in T) => S \subseteq T

LEMMA WalkMeets ==
  ASSUME NEW len \in Nat \ {0}, NEW goes, NEW next, NEW f, Walked(len, goes, next, f)
  PROVE  Met(len, goes, next, f[0])
<1> USE DEF Walked
<1> DEFINE Fine(pc) == /\ pc \in f[pc] /\ \A q \in f[pc] : q \in 0..len-1 /\ (q \in goes => next[q] \in f[pc])
           Q == {n \in Nat : \A pc \in 0..len-1 : len - pc <= n => Fine(pc)}
<1>1. \A n \in Nat : n \in Q
  <2>1. 0 \in Q OBVIOUS
  <2>2. ASSUME NEW n \in Q PROVE n + 1 \in Q
    <3> SUFFICES ASSUME NEW pc \in 0..len-1, len - pc <= n + 1 PROVE Fine(pc)
      OBVIOUS
    <3>1. CASE pc \in goes
      <4>1. next[pc] \in 0..len-1 /\ len - next[pc] <= n
        <5>1. next[pc] \in pc+1..len-1 BY <3>1
        <5> QED BY <5>1
      <4>2. Fine(next[pc])
        <5> HIDE DEF Fine
        <5> QED BY <4>1
      <4>3. f[pc] = {pc} \cup f[next[pc]] BY <3>1
      <4> QED BY <4>2, <4>3, Zenon
    <3>2. CASE pc \notin goes
      <4>1. f[pc] = {pc} BY <3>2
      <4> QED BY <3>2, <4>1, Zenon
    <3> QED BY <3>1, <3>2
  <2>3. Q \subseteq Nat OBVIOUS
  <2> HIDE DEF Q
  <2> QED BY <2>1, <2>2, <2>3, EveryNumber
<1>2. Fine(0)
  <2> HIDE DEF Fine
  <2>1. len \in Q BY <1>1
  <2>2. 0 \in 0..len-1 /\ len - 0 <= len OBVIOUS
  <2> QED BY <2>1, <2>2
<1>3. ASSUME NEW T, 0 \in T, \A pc \in T \cap (0..len-1) : pc \in goes => next[pc] \in T
      PROVE  f[0] \subseteq T
  <2> DEFINE P == {n \in Nat : \A pc \in 0..len-1 : pc \in T /\ len - pc <= n => f[pc] \subseteq T}
  <2>1. 0 \in P OBVIOUS
  <2>2. ASSUME NEW n \in P PROVE n + 1 \in P
    <3> SUFFICES ASSUME NEW pc \in 0..len-1, pc \in T, len - pc <= n + 1 PROVE f[pc] \subseteq T
      OBVIOUS
    <3>1. CASE pc \in goes
      <4>1. next[pc] \in 0..len-1 /\ len - next[pc] <= n
        <5>1. next[pc] \in pc+1..len-1 BY <3>1
        <5> QED BY <5>1
      <4>2. next[pc] \in T BY <1>3, <3>1
      <4>3. f[next[pc]] \subseteq T BY <4>1, <4>2
      <4>4. f[pc] = {pc} \cup f[next[pc]] BY <3>1
      <4> QED BY <4>3, <4>4, Zenon
    <3>2. CASE pc \notin goes
      BY <3>2
    <3> QED BY <3>1, <3>2
  <2>3. P \subseteq Nat OBVIOUS
  <2>4. \A n \in Nat : n \in P
    <3> HIDE DEF P
    <3> QED BY <2>1, <2>2, <2>3, EveryNumber
  <2>5. len \in P /\ 0 \in 0..len-1 /\ len - 0 <= len BY <2>4
  <2> QED BY <1>3, <2>5
<1> QED BY <1>2, <1>3 DEF Met

\* The starts are closed under stepping over an instruction, and no smaller set is.
LEMMA StartsClosed ==
  ASSUME NEW code \in Seq(Byte), code # << >>
  PROVE  /\ Starts(code) \subseteq 0..Len(code)-1 /\ 0 \in Starts(code)
         /\ \A pc \in Starts(code) : Goes(code, pc) => Following(code, pc) \in Starts(code)
         /\ \A T : 0 \in T /\ (\A pc \in T \cap (0..Len(code)-1) : Goes(code, pc) => Following(code, pc) \in T)
                     => Starts(code) \subseteq T
<1> DEFINE len == Len(code)
           goes == {pc \in 0..len : Goes(code, pc)}
           next == [pc \in 0..len |-> Following(code, pc)]
<1>1. len \in Nat \ {0} /\ \A pc \in 0..len-1 : pc \in 0..len
  BY LenProperties, EmptySeq
<1>2. PICK from : /\ Starts(code) = from[0]
                  /\ \A pc \in 0..Len(code) :
                        from[pc] = IF Goes(code, pc) THEN {pc} \cup from[Following(code, pc)] ELSE {pc}
  BY StartsByWalk
<1>3. \A pc \in 0..len-1 : (pc \in goes <=> Goes(code, pc)) /\ next[pc] = Following(code, pc)
  BY <1>1
<1>4. \A pc \in 0..len-1 : pc \in goes => next[pc] \in pc+1..len-1
  <2> SUFFICES ASSUME NEW pc \in 0..len-1, Goes(code, pc) PROVE Following(code, pc) \in pc+1..len-1
    BY <1>3
  <2>1. Following(code, pc) < len BY DEF Goes
  <2>2. InstructionSize(code, pc) \in 1..3 BY Sizes
  <2> QED BY <1>1, <2>1, <2>2 DEF Following
<1> HIDE DEF goes, next, len
<1>5. \A pc \in 0..len-1 : from[pc] = IF pc \in goes THEN {pc} \cup from[next[pc]] ELSE {pc}
  BY <1>1, <1>2, <1>3 DEF len
<1>6. Met(len, goes, next, from[0])
  <2>1. Walked(len, goes, next, from) BY <1>4, <1>5 DEF Walked
  <2> QED BY <1>1, <2>1, WalkMeets
<1>7. \A pc \in from[0] : Goes(code, pc) => Following(code, pc) \in from[0]
  BY <1>3, <1>6 DEF Met
<1>8. ASSUME NEW T, 0 \in T, \A pc \in T \cap (0..len-1) : Goes(code, pc) => Following(code, pc) \in T
      PROVE  from[0] \subseteq T
  <2>1. \A pc \in T \cap (0..len-1) : pc \in goes => next[pc] \in T BY <1>3, <1>8
  <2> QED BY <1>6, <1>8, <2>1 DEF Met
<1> QED BY <1>2, <1>6, <1>7, <1>8 DEF len, Met

\* No start lies inside an instruction that begins at one.
LEMMA StartsApart ==
  ASSUME NEW code \in Seq(Byte), code # << >>
  PROVE  \A p, q \in Starts(code) : p < q => Following(code, p) <= q
<1> DEFINE S == Starts(code)
           Before(q) == \A p \in S : p < q => Following(code, p) <= q
           After(q) == \A p \in S : p <= q \/ Following(code, q) <= p
           T == {q \in S : Before(q)}
<1>1. S \subseteq Nat /\ 0 \in S /\ \A pc \in S : Goes(code, pc) => Following(code, pc) \in S
  BY StartsClosed, LenProperties
<1>2. \A pc \in S : Following(code, pc) \in Nat /\ pc < Following(code, pc)
  <2>1. \A pc : InstructionSize(code, pc) \in 1..3 BY Sizes
  <2> QED BY <1>1, <2>1 DEF Following
<1>3. \A U : 0 \in U /\ (\A pc \in U \cap (0..Len(code)-1) : Goes(code, pc) => Following(code, pc) \in U) => S \subseteq U
  BY StartsClosed
<1> HIDE DEF S
<1>4. ASSUME NEW q \in S, Before(q) PROVE After(q)
  <2> DEFINE U == {p \in S : p <= q \/ Following(code, q) <= p}
  <2>1. 0 \in U BY <1>1
  <2>2. ASSUME NEW p \in U, Goes(code, p) PROVE Following(code, p) \in U
    <3>1. p \in S /\ Following(code, p) \in S BY <1>1, <2>2
    <3>2. Following(code, p) <= q \/ Following(code, q) <= Following(code, p)
      BY <1>1, <1>2, <1>4, <2>2, <3>1
    <3> QED BY <3>1, <3>2
  <2>3. S \subseteq U BY <1>3, <2>1, <2>2
  <2> QED BY <2>3
<1>5. 0 \in T
  BY <1>1
<1>6. ASSUME NEW q \in T, Goes(code, q) PROVE Following(code, q) \in T
  <2>1. After(q) BY <1>4
  <2>2. q \in S /\ Following(code, q) \in S BY <1>1, <1>6
  <2>3. ASSUME NEW p \in S, p < Following(code, q) PROVE Following(code, p) <= Following(code, q)
    <3>1. p <= q BY <1>1, <1>2, <2>1, <2>2, <2>3
    <3>2. CASE p = q BY <1>2, <3>2
    <3>3. CASE p < q
      <4>1. Following(code, p) <= q BY <3>3
      <4> QED BY <1>1, <1>2, <2>2, <4>1
    <3> QED BY <1>1, <3>1, <3>2, <3>3
  <2> QED BY <2>2, <2>3
<1>7. S \subseteq T
  BY <1>3, <1>5, <1>6
<1> QED BY <1>7 DEF S

-----------------------------------------------------------------------------
(* Code that decodes *)

\* The instructions from the starts on cover the code, and each follows the one before.
Tiled(code) ==
  LET S == Starts(code) IN
  /\ Len(code) \in Nat \ {0}
  /\ 0 \in S
  /\ \A p \in S : /\ p \in Nat /\ Following(code, p) \in Nat
                  /\ p < Following(code, p) /\ Following(code, p) <= Len(code)
                  /\ Following(code, p) = p + InstructionSize(code, p)
                  /\ Following(code, p) \in S \cup {Len(code)}
  /\ \A p, q \in S : p < q => Following(code, p) <= q
  /\ \A j \in 0..Len(code)-1 : \E p \in S : p <= j /\ j < Following(code, p)

LEMMA DecodesTiled ==
  ASSUME NEW code \in Seq(Byte), code # << >>, Decodes(code)
  PROVE  Tiled(code)
<1> DEFINE S == Starts(code)
           T == {j \in Nat : j < Len(code) => \E p \in S : p <= j /\ j < Following(code, p)}
<1>1. /\ Len(code) \in Nat \ {0} /\ S \subseteq 0..Len(code)-1 /\ 0 \in S
      /\ \A pc \in S : Goes(code, pc) => Following(code, pc) \in S
      /\ \A p, q \in S : p < q => Following(code, p) <= q
  BY StartsClosed, StartsApart, LenProperties, EmptySeq
<1>2. \A p \in S : /\ p \in Nat /\ Following(code, p) \in Nat
                   /\ p < Following(code, p)
                   /\ Following(code, p) = p + InstructionSize(code, p)
                   /\ Following(code, p) <= Len(code)
                   /\ Following(code, p) < Len(code) => Goes(code, p)
  <2> SUFFICES ASSUME NEW p \in S
               PROVE  /\ p \in Nat /\ Following(code, p) \in Nat
                      /\ p < Following(code, p)
                      /\ Following(code, p) = p + InstructionSize(code, p)
                      /\ Following(code, p) <= Len(code)
                      /\ Following(code, p) < Len(code) => Goes(code, p)
    OBVIOUS
  <2>1. Decodable(code, p) /\ p \in Nat BY <1>1 DEF Decodes
  <2>2. p + InstructionSize(code, p) <= Len(code) BY <2>1 DEF Decodable, InstructionSize
  <2>3. InstructionSize(code, p) \in 1..3 BY Sizes
  <2> QED BY <1>1, <2>1, <2>2, <2>3 DEF Following, Goes
<1>3. \A p \in S : Following(code, p) \in S \cup {Len(code)}
  <2> SUFFICES ASSUME NEW p \in S, Following(code, p) # Len(code) PROVE Following(code, p) \in S
    OBVIOUS
  <2>1. p \in Nat /\ Following(code, p) \in Nat BY <1>1, <1>2
  <2>2. Following(code, p) < Len(code) BY <1>1, <1>2, <2>1
  <2> QED BY <1>1, <1>2, <2>2
<1> HIDE DEF S
<1>4. \A j \in Nat : j \in T
  <2>1. 0 \in T BY <1>1, <1>2
  <2>2. ASSUME NEW j \in T PROVE j + 1 \in T
    <3> SUFFICES ASSUME j + 1 < Len(code) PROVE \E p \in S : p <= j + 1 /\ j + 1 < Following(code, p)
      OBVIOUS
    <3>1. PICK p \in S : p <= j /\ j < Following(code, p) BY <1>1
    <3>2. p \in Nat /\ Following(code, p) \in Nat BY <1>1, <1>2
    <3>3. CASE j + 1 < Following(code, p) BY <3>1, <3>2, <3>3
    <3>4. CASE ~ (j + 1 < Following(code, p))
      <4>1. Following(code, p) = j + 1 BY <3>1, <3>2, <3>4
      <4>2. j + 1 \in S BY <1>1, <1>3, <4>1
      <4>3. j + 1 < Following(code, j + 1) BY <1>2, <4>2
      <4> QED BY <4>2, <4>3
    <3> QED BY <3>3, <3>4
  <2>3. T \subseteq Nat OBVIOUS
  <2> HIDE DEF T
  <2> QED BY <2>1, <2>2, <2>3, EveryNumber
<1>5. \A j \in 0..Len(code)-1 : \E p \in S : p <= j /\ j < Following(code, p)
  BY <1>1, <1>4
<1> QED BY <1>1, <1>2, <1>3, <1>5 DEF Tiled, S

\* Two codes with the same opcodes at the starts of one have the same starts.
SameOps(c, d) ==
  /\ Len(d) = Len(c)
  /\ \A p \in Starts(c) : ByteAt(d, p) = ByteAt(c, p)

LEMMA SameStarts ==
  ASSUME NEW c \in Seq(Byte), NEW d \in Seq(Byte), c # << >>, SameOps(c, d)
  PROVE  /\ Starts(d) = Starts(c)
         /\ \A p \in Starts(c) : /\ Decodable(d, p) <=> Decodable(c, p)
                                 /\ Following(d, p) = Following(c, p)
                                 /\ InstructionSize(d, p) = InstructionSize(c, p)
<1>1. d # << >>
  BY LenProperties, EmptySeq DEF SameOps
<1>2. \A p \in Starts(c) : /\ Decodable(d, p) <=> Decodable(c, p)
                           /\ Following(d, p) = Following(c, p)
                           /\ InstructionSize(d, p) = InstructionSize(c, p)
                           /\ Goes(d, p) <=> Goes(c, p)
  BY DEF SameOps, Decodable, Following, InstructionSize, Goes
<1>3. /\ 0 \in Starts(c) /\ Starts(c) \subseteq 0..Len(c)-1
      /\ \A pc \in Starts(c) : Goes(c, pc) => Following(c, pc) \in Starts(c)
      /\ \A T : 0 \in T /\ (\A pc \in T \cap (0..Len(c)-1) : Goes(c, pc) => Following(c, pc) \in T)
                  => Starts(c) \subseteq T
  BY StartsClosed
<1>4. /\ 0 \in Starts(d) /\ Starts(d) \subseteq 0..Len(c)-1
      /\ \A pc \in Starts(d) : Goes(d, pc) => Following(d, pc) \in Starts(d)
      /\ \A T : 0 \in T /\ (\A pc \in T \cap (0..Len(c)-1) : Goes(d, pc) => Following(d, pc) \in T)
                  => Starts(d) \subseteq T
  BY <1>1, StartsClosed DEF SameOps
<1>5. Starts(d) \subseteq Starts(c)
  <2>1. \A pc \in Starts(c) \cap (0..Len(c)-1) : Goes(d, pc) => Following(d, pc) \in Starts(c)
    BY <1>2, <1>3
  <2> QED BY <1>3, <1>4, <2>1
<1>6. Starts(c) \subseteq Starts(d)
  <2> DEFINE T == Starts(c) \cap Starts(d)
  <2>1. \A pc \in T \cap (0..Len(c)-1) : Goes(c, pc) => Following(c, pc) \in T
    BY <1>2, <1>3, <1>4
  <2>2. 0 \in T BY <1>3, <1>4
  <2>3. Starts(c) \subseteq T
    <3> HIDE DEF T
    <3> QED BY <1>3, <2>1, <2>2
  <2> QED BY <2>3
<1> QED BY <1>2, <1>5, <1>6

-----------------------------------------------------------------------------
(* Other operands *)

LEMMA U16BytesRead ==
  ASSUME NEW v \in U16
  PROVE  U16Bytes(v) \in Byte \X Byte /\ U16Bytes(v)[1] + 256 * U16Bytes(v)[2] = v
<1>1. v \in Nat /\ v <= 65535
  BY U16Nat DEF UINT16_MAX
<1> DEFINE high == v \div 256
<1>2. high \in 0..255 /\ v % 256 \in 0..255 /\ v = (v % 256) + 256 * high
  BY <1>1
<1>3. high % 256 = high
  <2> HIDE DEF high
  <2> QED BY <1>2
<1>4. U16Bytes(v) = <<v % 256, high>>
  BY <1>3 DEF U16Bytes
<1> HIDE DEF high
<1> QED BY <1>2, <1>4 DEF Byte, UINT8_MAX

LEMMA BytesOfU16 ==
  ASSUME NEW low \in 0..255, NEW high \in 0..255
  PROVE  U16Bytes(low + 256 * high)[1] = low /\ U16Bytes(low + 256 * high)[2] = high
<1> DEFINE v == low + 256 * high
<1>1. v \in Int /\ v % 256 = low /\ v \div 256 = high
  OBVIOUS
<1>2. high % 256 = high
  OBVIOUS
<1> HIDE DEF v
<1>3. U16Bytes(v)[1] = low /\ U16Bytes(v)[2] = high
  BY <1>1, <1>2 DEF U16Bytes
<1> QED BY <1>3 DEF v

\* An instruction of three bytes has an operand of 16 bits.
LEMMA OperandType ==
  ASSUME NEW code \in Seq(Byte), NEW p \in Nat, p + 3 <= Len(code)
  PROVE  ReadU16(code, p + 1) \in U16
<1>1. p + 1 + 1 \in 1..Len(code) /\ p + 2 + 1 \in 1..Len(code) /\ p + 2 = p + 1 + 1
  BY LenProperties
<1>2. ByteAt(code, p + 1) \in Byte /\ ByteAt(code, p + 2) \in Byte
  BY <1>1, ElementOfSeq DEF ByteAt
<1>3. ReadU16(code, p + 1) = ByteAt(code, p + 1) + 256 * ByteAt(code, p + 2)
  BY <1>1 DEF ReadU16
<1> QED BY <1>2, <1>3, U16Range

\* The instructions that have one.
Long(code) == {p \in Starts(code) : InstructionSize(code, p) = 3}

\* What it is to differ from code in operands only.
Rewritten(code, operands, d) ==
  /\ d \in Seq(Byte) /\ Len(d) = Len(code)
  /\ \A p \in Starts(code) : ByteAt(d, p) = ByteAt(code, p)
  /\ \A p \in DOMAIN operands : ReadU16(d, p + 1) = operands[p]
  /\ \A p \in Starts(code) \ DOMAIN operands :
       \A j \in p..Following(code, p)-1 : ByteAt(d, j) = ByteAt(code, j)

LEMMA RetargetedIs ==
  ASSUME NEW code \in Seq(Byte), Decodes(code),
         NEW operands, DOMAIN operands \subseteq Long(code), \A p \in DOMAIN operands : operands[p] \in U16
  PROVE  Rewritten(code, operands, Retargeted(code, operands))
<1> DEFINE d == Retargeted(code, operands)
           D == DOMAIN operands
           low == [p \in D |-> U16Bytes(operands[p])[1]]
           high == [p \in D |-> U16Bytes(operands[p])[2]]
           S == Starts(code)
<1>1. \A p \in D : low[p] \in Byte /\ high[p] \in Byte /\ low[p] + 256 * high[p] = operands[p]
  <2> TAKE p \in D
  <2>1. operands[p] \in U16 OBVIOUS
  <2>2. U16Bytes(operands[p]) \in Byte \X Byte
        /\ U16Bytes(operands[p])[1] + 256 * U16Bytes(operands[p])[2] = operands[p]
    BY <2>1, U16BytesRead
  <2> QED BY <2>2
<1>2. \A i \in DOMAIN code : d[i] = IF i - 2 \in D THEN low[i - 2]
                                    ELSE IF i - 3 \in D THEN high[i - 3] ELSE code[i]
  BY DEF Retargeted
<1>3. DOMAIN d = 1..Len(code) /\ DOMAIN code = 1..Len(code) /\ Len(code) \in Nat
  BY LenProperties DEF Retargeted
<1>4. \A i \in 1..Len(code) : code[i] \in Byte
  BY ElementOfSeq
<1> HIDE DEF low, high
<1>5. d \in Seq(Byte) /\ Len(d) = Len(code)
  <2>1. \A i \in 1..Len(code) : d[i] \in Byte
    <3> HIDE DEF d, D
    <3> QED BY <1>1, <1>2, <1>3, <1>4
  <2>2. d = [i \in 1..Len(code) |-> d[i]] BY <1>3 DEF Retargeted
  <2> HIDE DEF d
  <2>3. d \in [1..Len(code) -> Byte] BY <2>1, <2>2
  <2>4. d \in Seq(Byte) BY <1>3, <2>3, SeqDef
  <2> QED BY <1>3, <2>4, LenProperties
<1>6. \A p \in S, j \in Nat : p <= j /\ j < Following(code, p) /\ ~ (p \in D /\ j > p) => ByteAt(d, j) = ByteAt(code, j)
  <2> SUFFICES ASSUME NEW p \in S, NEW j \in Nat, p <= j, j < Following(code, p), ~ (p \in D /\ j > p)
               PROVE  ByteAt(d, j) = ByteAt(code, j)
    OBVIOUS
  <2>1. Tiled(code)
    <3>1. code # << >> BY DEF Starts
    <3> QED BY <3>1, DecodesTiled
  <2>2. /\ p \in Nat /\ j < Len(code)
        /\ \A q \in S : q \in Nat /\ (q < p => Following(code, q) <= p) /\ (p < q => Following(code, p) <= q)
        /\ \A q \in S : Following(code, q) \in Nat
    <3>1. p \in Nat /\ Following(code, p) \in Nat /\ Following(code, p) <= Len(code) /\ Len(code) \in Nat
      BY <2>1 DEF Tiled
    <3>2. j < Len(code) BY <3>1
    <3> QED BY <2>1, <3>1, <3>2 DEF Tiled
  <2>3. \A q \in D : q \in S /\ Following(code, q) = q + 3
    BY DEF Long, Following
  <2>4. j - 1 \notin D /\ j - 2 \notin D
    <3> SUFFICES ASSUME NEW q \in D, j = q + 1 \/ j = q + 2 PROVE FALSE
      <4>1. j - 1 \in D => j = (j - 1) + 1 OBVIOUS
      <4>2. j - 2 \in D => j = (j - 2) + 2 OBVIOUS
      <4> QED BY <4>1, <4>2
    <3>1. q \in S /\ q \in Nat /\ Following(code, q) = q + 3 BY <2>2, <2>3
    <3>2. q # p BY <3>1
    <3>3. CASE q < p BY <2>2, <3>1, <3>3
    <3>4. CASE p < q BY <2>2, <3>1, <3>4
    <3> QED BY <2>2, <3>1, <3>2, <3>3, <3>4
  <2>5. j + 1 \in 1..Len(code) /\ j + 1 - 2 = j - 1 /\ j + 1 - 3 = j - 2 BY <1>3, <2>2
  <2> HIDE DEF d, D
  <2> QED BY <1>2, <1>3, <2>4, <2>5 DEF ByteAt
<1>7. \A p \in S : p \in Nat /\ p < Following(code, p)
  <2> TAKE p \in S
  <2>1. code # << >> BY DEF Starts
  <2>2. Tiled(code) BY <2>1, DecodesTiled
  <2> QED BY <2>2 DEF Tiled
<1>8. \A p \in S : ByteAt(d, p) = ByteAt(code, p)
  <2> HIDE DEF d, D, S
  <2> QED BY <1>6, <1>7
<1>9. \A p \in D : ReadU16(d, p + 1) = operands[p]
  <2> TAKE p \in D
  <2>1. p \in S /\ p \in Nat /\ Following(code, p) = p + 3 BY <1>7 DEF Long, Following
  <2>2. Tiled(code)
    <3>1. code # << >> BY <2>1 DEF Starts
    <3> QED BY <3>1, DecodesTiled
  <2>3. p + 3 <= Len(code) BY <2>1, <2>2 DEF Tiled
  <2>4. p + 1 \notin D
    <3>1. ASSUME p + 1 \in S PROVE FALSE
      <4>1. Following(code, p) <= p + 1 BY <2>1, <2>2, <3>1 DEF Tiled
      <4> QED BY <2>1, <4>1
    <3> QED BY <3>1 DEF Long
  <2>5. p + 2 \in DOMAIN code /\ p + 3 \in DOMAIN code /\ p + 2 - 2 = p /\ p + 3 - 2 = p + 1 /\ p + 3 - 3 = p
        /\ p + 1 + 1 = p + 2 /\ p + 1 + 1 + 1 = p + 3
    BY <1>3, <2>1, <2>3
  <2>6. d[p + 2] = low[p] /\ d[p + 3] = high[p]
    <3> HIDE DEF d, D
    <3>1. \A i \in DOMAIN code : i - 2 = p => d[i] = low[p] BY <1>2
    <3>2. \A i \in DOMAIN code : i - 2 = p + 1 /\ i - 3 = p => d[i] = high[p] BY <1>2, <2>4
    <3>3. \A i : i = p + 2 => i \in DOMAIN code /\ i - 2 = p BY <1>3, <2>1, <2>3
    <3>4. \A i : i = p + 3 => i \in DOMAIN code /\ i - 2 = p + 1 /\ i - 3 = p BY <1>3, <2>1, <2>3
    <3>5. \A i : i = p + 2 => d[i] = low[p] BY <3>1, <3>3, Zenon
    <3>6. \A i : i = p + 3 => d[i] = high[p] BY <3>2, <3>4, Zenon
    <3> QED BY <3>5, <3>6, Zenon
  <2>7. ReadU16(d, p + 1) = d[p + 2] + 256 * d[p + 3]
    BY <2>5 DEF ReadU16, ByteAt
  <2> QED BY <1>1, <2>6, <2>7
<1>10. \A p \in S \ D : \A j \in p..Following(code, p)-1 : ByteAt(d, j) = ByteAt(code, j)
  <2> SUFFICES ASSUME NEW p \in S \ D, NEW j \in p..Following(code, p)-1 PROVE ByteAt(d, j) = ByteAt(code, j)
    OBVIOUS
  <2>1. p \in Nat /\ j \in Nat /\ p <= j /\ j < Following(code, p)
    <3>1. p \in Nat BY <1>7
    <3>2. Following(code, p) \in Int
      <4>1. InstructionSize(code, p) \in 1..3 BY Sizes
      <4> QED BY <3>1, <4>1 DEF Following
    <3> QED BY <3>1, <3>2
  <2> QED BY <1>6, <2>1
<1> QED BY <1>5, <1>8, <1>9, <1>10 DEF Rewritten

\* Where there is an operand.
LEMMA LongFacts ==
  ASSUME NEW code \in Seq(Byte), Decodes(code), NEW p \in Long(code)
  PROVE  /\ p \in Nat /\ Following(code, p) = p + 3 /\ p + 3 <= Len(code)
         /\ ReadU16(code, p + 1) \in U16
<1>1. p \in Starts(code) /\ InstructionSize(code, p) = 3 BY DEF Long
<1>2. code # << >> BY <1>1 DEF Starts
<1>3. Tiled(code) BY <1>2, DecodesTiled
<1>4. p \in Nat /\ Following(code, p) = p + 3 /\ p + 3 <= Len(code)
  BY <1>1, <1>3 DEF Tiled
<1> QED BY <1>4, OperandType

LEMMA LongOps ==
  ASSUME NEW code, NEW p \in Starts(code)
  PROVE  ByteAt(code, p) \in JumpOp \cup {PUSH_CONST_F32} => p \in Long(code)
BY DEF Long, InstructionSize, EncodedSize, JumpOp

\* Other operands leave the instructions where they are.
LEMMA RewrittenKeeps ==
  ASSUME NEW code \in Seq(Byte), Decodes(code),
         NEW operands, DOMAIN operands \subseteq Long(code), NEW d, Rewritten(code, operands, d)
  PROVE  /\ d \in Seq(Byte) /\ Len(d) = Len(code)
         /\ Starts(d) = Starts(code) /\ Decodes(d) /\ Jumps(d) = Jumps(code) /\ Long(d) = Long(code)
         /\ \A p \in Starts(code) : ByteAt(d, p) = ByteAt(code, p) /\ Following(d, p) = Following(code, p)
         /\ \A p \in Long(code) :
              ReadU16(d, p + 1) = IF p \in DOMAIN operands THEN operands[p] ELSE ReadU16(code, p + 1)
<1>1. d \in Seq(Byte) /\ Len(d) = Len(code) /\ \A p \in Starts(code) : ByteAt(d, p) = ByteAt(code, p)
  BY DEF Rewritten
<1>2. /\ Starts(d) = Starts(code)
      /\ \A p \in Starts(code) : /\ Decodable(d, p) <=> Decodable(code, p)
                                 /\ Following(d, p) = Following(code, p)
                                 /\ InstructionSize(d, p) = InstructionSize(code, p)
  <2>1. CASE code = << >>
    <3>1. d = << >> BY <1>1, <2>1, LenProperties, EmptySeq
    <3> QED BY <2>1, <3>1 DEF Starts
  <2>2. CASE code # << >>
    BY <1>1, <2>2, SameStarts DEF SameOps
  <2> QED BY <2>1, <2>2
<1>3. Decodes(d) /\ Jumps(d) = Jumps(code) /\ Long(d) = Long(code)
  BY <1>1, <1>2 DEF Decodes, Jumps, Long
<1>4. ASSUME NEW p \in Long(code), p \notin DOMAIN operands
      PROVE  ReadU16(d, p + 1) = ReadU16(code, p + 1)
  <2>1. p \in Nat /\ Following(code, p) = p + 3 BY LongFacts
  <2>2. p + 1 \in p..p+3-1 /\ p + 2 \in p..p+3-1 /\ p + 1 + 1 = p + 2 BY <2>1
  <2>3. p \in Starts(code) \ DOMAIN operands BY <1>4 DEF Long
  <2>4. \A j \in p..p+3-1 : ByteAt(d, j) = ByteAt(code, j) BY <2>1, <2>3 DEF Rewritten
  <2> QED BY <2>2, <2>4 DEF ReadU16
<1>5. \A p \in DOMAIN operands : ReadU16(d, p + 1) = operands[p]
  BY DEF Rewritten
<1> QED BY <1>1, <1>2, <1>3, <1>4, <1>5

-----------------------------------------------------------------------------
(* Functions that are recursive from 0 *)

Iterates(n, base, step, f) == f = [k \in 0..n |-> IF k = 0 THEN base ELSE step[k - 1][f[k - 1]]]

LEMMA IterationExists ==
  ASSUME NEW n \in Nat, NEW base, NEW step
  PROVE  \E f : Iterates(n, base, step, f)
<1> DEFINE T == {m \in Nat : \E f : Iterates(m, base, step, f)}
<1>1. 0 \in T
  <2> DEFINE f == [k \in 0..0 |-> base]
  <2>1. \A k \in 0..0 : k = 0 OBVIOUS
  <2>2. Iterates(0, base, step, f) BY <2>1 DEF Iterates
  <2> HIDE DEF f
  <2> QED BY <2>2
<1>2. ASSUME NEW m \in T PROVE m + 1 \in T
  <2>1. PICK f : Iterates(m, base, step, f) OBVIOUS
  <2> DEFINE g == [k \in 0..m+1 |-> IF k = 0 THEN base ELSE step[k - 1][f[k - 1]]]
  <2>2. \A k \in 0..m : k \in 0..m+1 /\ g[k] = f[k]
    BY <2>1 DEF Iterates
  <2>3. \A k \in 0..m+1 : k # 0 => k - 1 \in 0..m
    OBVIOUS
  <2>4. Iterates(m + 1, base, step, g)
    BY <2>2, <2>3 DEF Iterates
  <2> HIDE DEF g
  <2> QED BY <2>4
<1>3. T \subseteq Nat OBVIOUS
<1> HIDE DEF T
<1>4. n \in T BY <1>1, <1>2, <1>3, EveryNumber
<1> QED BY <1>4 DEF T

LEMMA IterationSteps ==
  ASSUME NEW n \in Nat, NEW base, NEW step, NEW f, Iterates(n, base, step, f)
  PROVE  f[0] = base /\ \A k \in 0..n-1 : f[k + 1] = step[k][f[k]]
<1>1. \A k \in 0..n-1 : k + 1 \in 0..n /\ k + 1 # 0 /\ k + 1 - 1 = k
  OBVIOUS
<1>2. f = [k \in 0..n |-> IF k = 0 THEN base ELSE step[k - 1][f[k - 1]]]
  BY DEF Iterates
<1>3. 0 \in 0..n /\ f[0] = base
  BY <1>2
<1> QED BY <1>1, <1>2, <1>3

LEMMA IterationIn ==
  ASSUME NEW n \in Nat, NEW base, NEW step, NEW f, Iterates(n, base, step, f),
         NEW V, base \in V, \A k \in 0..n-1 : \A v \in V : step[k][v] \in V
  PROVE  \A k \in 0..n : f[k] \in V
<1> DEFINE T == {k \in Nat : k <= n => f[k] \in V}
<1>1. f[0] = base /\ \A k \in 0..n-1 : f[k + 1] = step[k][f[k]]
  BY IterationSteps
<1>2. 0 \in T
  BY <1>1
<1>3. ASSUME NEW k \in T PROVE k + 1 \in T
  <2> SUFFICES ASSUME k + 1 <= n PROVE f[k + 1] \in V
    OBVIOUS
  <2>1. k \in 0..n-1 /\ f[k] \in V OBVIOUS
  <2>2. step[k][f[k]] \in V BY <2>1
  <2> QED BY <1>1, <2>1, <2>2
<1>4. T \subseteq Nat OBVIOUS
<1>5. \A k \in Nat : k \in T
  <2> HIDE DEF T
  <2> QED BY <1>2, <1>3, <1>4, EveryNumber
<1> QED BY <1>5

-----------------------------------------------------------------------------
(* How many are kept *)

\* How many numbers of S are below i.
Count(S, i) == Cardinality({j \in S : j < i})

LEMMA CountSteps ==
  ASSUME NEW S, S \subseteq Nat
  PROVE  /\ Count(S, 0) = 0
         /\ \A i \in Nat : Count(S, i) \in Nat /\ Count(S, i + 1) = Count(S, i) + (IF i \in S THEN 1 ELSE 0)
<1> SUFFICES ASSUME \A j \in S : j \in Nat
             PROVE  /\ Count(S, 0) = 0
                    /\ \A i \in Nat : Count(S, i) \in Nat /\ Count(S, i + 1) = Count(S, i) + (IF i \in S THEN 1 ELSE 0)
  OBVIOUS
<1>1. Count(S, 0) = 0
  <2>1. {j \in S : j < 0} = {}
    <3>1. \A j \in S : ~ (j < 0) OBVIOUS
    <3> QED BY <3>1, Zenon
  <2> QED BY <2>1, FS_EmptySet DEF Count
<1>2. ASSUME NEW i \in Nat PROVE IsFiniteSet({j \in S : j < i})
  <2>1. IsFiniteSet(0..i) BY FS_Interval
  <2>2. {j \in S : j < i} \in SUBSET (0..i)
    <3>1. \A j \in S : j < i => j \in 0..i OBVIOUS
    <3> QED BY <3>1, Zenon
  <2> QED BY <2>1, <2>2, FS_Subset
<1>3. ASSUME NEW i \in Nat
      PROVE  Count(S, i) \in Nat /\ Count(S, i + 1) = Count(S, i) + (IF i \in S THEN 1 ELSE 0)
  <2> DEFINE A == {j \in S : j < i}
             B == {j \in S : j < i + 1}
  <2>1. IsFiniteSet(A) BY <1>2
  <2>2. Cardinality(A) \in Nat BY <2>1, FS_CardinalityType
  <2>3. CASE i \in S
    <3>1. B = A \cup {i} /\ i \notin A
      <4>1. (\A j \in S : j < i + 1 <=> j < i \/ j = i) /\ ~ (i < i) OBVIOUS
      <4>2. \A j : j \in B <=> j \in A \cup {i} BY <2>3, <4>1, Zenon
      <4>3. B = A \cup {i}
        <5> HIDE DEF A, B
        <5> QED BY <4>2
      <4> QED BY <4>1, <4>3, Zenon
    <3>2. Cardinality(A \cup {i}) = Cardinality(A) + 1
      <4> HIDE DEF A
      <4> QED BY <2>1, <3>1, FS_AddElement
    <3> QED BY <2>2, <2>3, <3>1, <3>2 DEF Count
  <2>4. CASE i \notin S
    <3>1. B = A
      <4>1. \A j \in S : j < i + 1 <=> j < i BY <2>4
      <4> QED BY <4>1, Zenon
    <3> QED BY <2>2, <2>4, <3>1 DEF Count
  <2> QED BY <2>3, <2>4
<1> QED BY <1>1, <1>3

LEMMA CountOrder ==
  ASSUME NEW S, S \subseteq Nat, NEW i \in Nat, NEW n \in Nat
  PROVE  /\ Count(S, i) <= Count(S, i + n) /\ Count(S, i + n) <= Count(S, i) + n
         /\ (i \in S /\ n > 0) => Count(S, i) < Count(S, i + n)
         /\ (\A j \in i..i+n-1 : j \in S) => Count(S, i + n) = Count(S, i) + n
         /\ (\A j \in i..i+n-1 : j \notin S) => Count(S, i + n) = Count(S, i)
<1> DEFINE c == [k \in Nat |-> Count(S, k)]
           Fine(m) == /\ c[i] <= c[i + m] /\ c[i + m] <= c[i] + m
                      /\ (i \in S /\ m > 0) => c[i] < c[i + m]
                      /\ (\A j \in i..i+m-1 : j \in S) => c[i + m] = c[i] + m
                      /\ (\A j \in i..i+m-1 : j \notin S) => c[i + m] = c[i]
           T == {m \in Nat : Fine(m)}
<1>1. \A k \in Nat : c[k] \in Nat /\ c[k + 1] = c[k] + (IF k \in S THEN 1 ELSE 0)
  <2> TAKE k \in Nat
  <2>1. Count(S, k) \in Nat /\ Count(S, k + 1) = Count(S, k) + (IF k \in S THEN 1 ELSE 0) BY CountSteps
  <2>2. k + 1 \in Nat OBVIOUS
  <2> QED BY <2>1, <2>2
<1> HIDE DEF c
<1>2. 0 \in T
  <2>1. i + 0 = i /\ c[i] \in Nat /\ \A j \in i..i+0-1 : FALSE BY <1>1
  <2> QED BY <2>1
<1>3. ASSUME NEW m \in T PROVE m + 1 \in T
  <2>1. c[i + m + 1] = c[i + m] + (IF i + m \in S THEN 1 ELSE 0) /\ c[i + m] \in Nat /\ c[i] \in Nat
    BY <1>1
  <2>2. i + (m + 1) = i + m + 1 /\ i + m \in i..i+(m+1)-1 /\ \A j \in i..i+m-1 : j \in i..i+(m+1)-1 OBVIOUS
  <2>3. Fine(m) OBVIOUS
  <2>4. m = 0 => i + m = i OBVIOUS
  <2>5. c[i] <= c[i + (m + 1)] /\ c[i + (m + 1)] <= c[i] + (m + 1) BY <2>1, <2>2, <2>3
  <2>6. i \in S => c[i] < c[i + (m + 1)]
    <3> SUFFICES ASSUME i \in S PROVE c[i] < c[i + (m + 1)] OBVIOUS
    <3>1. CASE m = 0
      <4>1. c[i + 1] = c[i] + 1 /\ i + (m + 1) = i + 1 BY <1>1, <3>1
      <4> QED BY <2>1, <4>1
    <3>2. CASE m > 0
      BY <2>1, <2>2, <2>3, <3>2
    <3> QED BY <3>1, <3>2
  <2>7. (\A j \in i..i+(m+1)-1 : j \in S) => c[i + (m + 1)] = c[i] + (m + 1)
    <3> SUFFICES ASSUME \A j \in i..i+(m+1)-1 : j \in S PROVE c[i + (m + 1)] = c[i] + (m + 1) OBVIOUS
    <3>1. i + m \in S /\ \A j \in i..i+m-1 : j \in S BY <2>2
    <3>2. c[i + m] = c[i] + m BY <2>3, <3>1
    <3> QED BY <2>1, <2>2, <3>1, <3>2
  <2>8. (\A j \in i..i+(m+1)-1 : j \notin S) => c[i + (m + 1)] = c[i]
    <3> SUFFICES ASSUME \A j \in i..i+(m+1)-1 : j \notin S PROVE c[i + (m + 1)] = c[i] OBVIOUS
    <3>1. i + m \notin S /\ \A j \in i..i+m-1 : j \notin S BY <2>2
    <3>2. c[i + m] = c[i] BY <2>3, <3>1
    <3> QED BY <2>1, <2>2, <3>1, <3>2
  <2> QED BY <2>5, <2>6, <2>7, <2>8
<1>4. T \subseteq Nat OBVIOUS
<1>5. \A m \in Nat : m \in T
  <2> HIDE DEF T
  <2> QED BY <1>2, <1>3, <1>4, EveryNumber
<1>6. Fine(n) BY <1>5
<1>7. i + n \in Nat /\ c[i] = Count(S, i) /\ c[i + n] = Count(S, i + n)
  BY DEF c
<1> QED BY <1>6, <1>7

\* What a count does between two numbers.
LEMMA CountBetween ==
  ASSUME NEW S, S \subseteq Nat, NEW i \in Nat, NEW k \in Nat, i <= k
  PROVE  /\ Count(S, i) \in Nat /\ Count(S, k) \in Nat
         /\ Count(S, i) <= Count(S, k) /\ Count(S, k) <= Count(S, i) + (k - i)
         /\ (i \in S /\ i < k) => Count(S, i) < Count(S, k)
         /\ (\A j \in i..k-1 : j \in S) => Count(S, k) = Count(S, i) + (k - i)
         /\ (\A j \in i..k-1 : j \notin S) => Count(S, k) = Count(S, i)
<1>1. PICK n \in Nat : k = i + n /\ n = k - i
  <2>1. k - i \in Nat /\ k = i + (k - i) OBVIOUS
  <2> QED BY <2>1
<1>2. i < k => n > 0 BY <1>1
<1>3. Count(S, i) \in Nat /\ Count(S, k) \in Nat BY CountSteps
<1>4. /\ Count(S, i) <= Count(S, i + n) /\ Count(S, i + n) <= Count(S, i) + n
      /\ (i \in S /\ n > 0) => Count(S, i) < Count(S, i + n)
      /\ (\A j \in i..i+n-1 : j \in S) => Count(S, i + n) = Count(S, i) + n
      /\ (\A j \in i..i+n-1 : j \notin S) => Count(S, i + n) = Count(S, i)
  BY CountOrder
<1>5. i + n = k BY <1>1
<1> QED BY <1>1, <1>2, <1>3, <1>4, <1>5

\* Every number below a count is the count of one that is in the set.
LEMMA CountOnto ==
  ASSUME NEW S, S \subseteq Nat, NEW n \in Nat, NEW c \in Nat, c < Count(S, n)
  PROVE  \E i \in S : i < n /\ Count(S, i) = c
<1> DEFINE T == {m \in Nat : c < Count(S, m) => \E i \in S : i < m /\ Count(S, i) = c}
<1>1. 0 \in T
  <2>1. Count(S, 0) = 0 BY CountSteps
  <2> QED BY <2>1
<1>2. ASSUME NEW m \in T PROVE m + 1 \in T
  <2> SUFFICES ASSUME c < Count(S, m + 1) PROVE \E i \in S : i < m + 1 /\ Count(S, i) = c
    OBVIOUS
  <2>1. Count(S, m) \in Nat /\ Count(S, m + 1) = Count(S, m) + (IF m \in S THEN 1 ELSE 0) BY CountSteps
  <2>2. CASE c < Count(S, m)
    <3>1. PICK i \in S : i < m /\ Count(S, i) = c BY <2>2
    <3>2. i < m + 1 BY <3>1
    <3> QED BY <3>1, <3>2
  <2>3. CASE ~ (c < Count(S, m))
    <3>1. m \in S /\ Count(S, m) = c BY <2>1, <2>3
    <3>2. m < m + 1 OBVIOUS
    <3> QED BY <3>1, <3>2
  <2> QED BY <2>2, <2>3
<1>3. T \subseteq Nat OBVIOUS
<1>4. \A m \in Nat : m \in T
  <2> HIDE DEF T
  <2> QED BY <1>1, <1>2, <1>3, EveryNumber
<1> QED BY <1>4

\* What Selected keeps, and where.
LEMMA SelectedIs ==
  ASSUME NEW V, NEW seq \in Seq(V), NEW kept \in SUBSET Nat
  PROVE  LET s == Selected(seq, kept) IN
         /\ s \in Seq(V) /\ Len(s) = Count(kept, Len(seq))
         /\ \A i \in kept : i < Len(seq) => s[Count(kept, i) + 1] = seq[i + 1]
<1> DEFINE n == Len(seq)
           step == [k \in 0..n |-> [v \in Seq(V) |-> IF k \in kept THEN Append(v, seq[k + 1]) ELSE v]]
           Out(f) == f = [k \in 0..Len(seq) |->
                            IF k = 0 THEN << >>
                            ELSE IF k - 1 \in kept THEN Append(f[k - 1], seq[k]) ELSE f[k - 1]]
<1>1. n \in Nat /\ << >> \in Seq(V)
  BY LenProperties, EmptySeq
<1>2. \A k \in 0..n-1, v \in Seq(V) :
        /\ step[k][v] = IF k \in kept THEN Append(v, seq[k + 1]) ELSE v
        /\ step[k][v] \in Seq(V)
  <2> SUFFICES ASSUME NEW k \in 0..n-1, NEW v \in Seq(V)
               PROVE  /\ step[k][v] = IF k \in kept THEN Append(v, seq[k + 1]) ELSE v
                      /\ step[k][v] \in Seq(V)
    OBVIOUS
  <2>1. k \in 0..n /\ k + 1 \in 1..Len(seq) BY <1>1
  <2>2. seq[k + 1] \in V BY <2>1, ElementOfSeq
  <2>3. Append(v, seq[k + 1]) \in Seq(V) BY <2>2, AppendProperties
  <2> QED BY <2>1, <2>3
<1> HIDE DEF step, n
<1>3. ASSUME NEW f, Iterates(n, << >>, step, f) PROVE Out(f)
  <2>1. \A k \in 0..n-1 : \A v \in Seq(V) : step[k][v] \in Seq(V) BY <1>2
  <2>2. \A k \in 0..n : f[k] \in Seq(V) BY <1>1, <1>3, <2>1, IterationIn
  <2>3. f = [k \in 0..n |-> IF k = 0 THEN << >> ELSE step[k - 1][f[k - 1]]] BY <1>3 DEF Iterates
  <2>4. \A k \in 0..n : k # 0 => k - 1 \in 0..n-1 /\ k - 1 \in 0..n /\ k - 1 + 1 = k BY <1>1
  <2>5. \A k \in 0..n : k # 0 =>
          step[k - 1][f[k - 1]] = IF k - 1 \in kept THEN Append(f[k - 1], seq[k]) ELSE f[k - 1]
    BY <1>2, <2>2, <2>4
  <2> QED BY <2>3, <2>5 DEF n
<1>4. \E f : Out(f)
  <2>1. \E f : Iterates(n, << >>, step, f) BY <1>1, IterationExists
  <2> HIDE DEF Out
  <2> QED BY <1>3, <2>1
<1>5. PICK out : out = CHOOSE f : Out(f)
  OBVIOUS
<1>6. Out(out)
  <2> HIDE DEF Out
  <2> QED BY <1>4, <1>5, Zenon
<1>7. Selected(seq, kept) = out[n]
  BY <1>5 DEF Selected, n
<1>8. out[0] = << >> /\ \A k \in 0..n-1 : out[k + 1] = IF k \in kept THEN Append(out[k], seq[k + 1]) ELSE out[k]
  <2>1. 0 \in 0..n BY <1>1
  <2>2. \A k \in 0..n : k # 0 => out[k] = IF k - 1 \in kept THEN Append(out[k - 1], seq[k]) ELSE out[k - 1]
    BY <1>6 DEF n
  <2>3. \A k \in 0..n-1 : k + 1 \in 0..n /\ k + 1 # 0 /\ k + 1 - 1 = k BY <1>1
  <2>4. out[0] = << >> BY <1>6, <2>1 DEF n
  <2> HIDE DEF Out
  <2> QED BY <2>2, <2>3, <2>4
<1> HIDE DEF Out
<1> DEFINE Fine(k) == /\ out[k] \in Seq(V) /\ Len(out[k]) = Count(kept, k)
                      /\ \A i \in kept : i < k => out[k][Count(kept, i) + 1] = seq[i + 1]
           T == {k \in Nat : k <= n => Fine(k)}
<1>9. 0 \in T
  <2>1. Len(<< >>) = 0 OBVIOUS
  <2>2. \A i \in kept : ~ (i < 0) OBVIOUS
  <2> QED BY <1>1, <1>8, <2>1, <2>2, CountSteps
<1>10. ASSUME NEW k \in T PROVE k + 1 \in T
  <2> SUFFICES ASSUME k + 1 <= n PROVE Fine(k + 1)
    OBVIOUS
  <2>1. k \in 0..n-1 /\ k \in Nat /\ k <= n BY <1>1
  <2>2. Fine(k) BY <2>1
  <2>3. Count(kept, k) \in Nat /\ Count(kept, k + 1) = Count(kept, k) + (IF k \in kept THEN 1 ELSE 0)
    BY <2>1, CountSteps
  <2>4. CASE k \notin kept
    <3>1. out[k + 1] = out[k] BY <1>8, <2>1, <2>4
    <3>2. \A i \in kept : i < k + 1 => i < k BY <2>1, <2>4
    <3> QED BY <2>2, <2>3, <2>4, <3>1, <3>2
  <2>5. CASE k \in kept
    <3> DEFINE o == out[k]
               x == seq[k + 1]
    <3>1. out[k + 1] = Append(o, x) BY <1>8, <2>1, <2>5
    <3>2. x \in V
      <4>1. k + 1 \in 1..Len(seq) BY <2>1 DEF n
      <4> QED BY <4>1, ElementOfSeq
    <3>3. o \in Seq(V) /\ Len(o) = Count(kept, k) BY <2>2
    <3> HIDE DEF o, x
    <3>4. /\ Append(o, x) \in Seq(V) /\ Len(Append(o, x)) = Len(o) + 1
          /\ \A i \in 1..Len(o) : Append(o, x)[i] = o[i]
          /\ Append(o, x)[Len(o) + 1] = x
      BY <3>2, <3>3, AppendProperties
    <3>5. ASSUME NEW i \in kept, i < k + 1 PROVE out[k + 1][Count(kept, i) + 1] = seq[i + 1]
      <4>1. CASE i = k BY <3>1, <3>3, <3>4, <4>1 DEF x
      <4>2. CASE i < k
        <5>1. Count(kept, i) \in Nat /\ Count(kept, i) < Count(kept, k)
          <6>1. i \in Nat /\ i <= k /\ i < k BY <4>2
          <6> QED BY <2>1, <6>1, CountBetween
        <5>2. Count(kept, i) + 1 \in 1..Len(o) BY <2>3, <3>3, <5>1
        <5>3. o[Count(kept, i) + 1] = seq[i + 1] BY <2>2, <4>2 DEF o
        <5> QED BY <3>1, <3>4, <5>2, <5>3
      <4>3. i \in Nat OBVIOUS
      <4> QED BY <2>1, <3>5, <4>1, <4>2, <4>3
    <3> QED BY <2>3, <2>5, <3>1, <3>3, <3>4, <3>5
  <2> QED BY <2>4, <2>5
<1>11. T \subseteq Nat OBVIOUS
<1>12. \A k \in Nat : k \in T
  <2> HIDE DEF T
  <2> QED BY <1>9, <1>10, <1>11, EveryNumber
<1>13. Fine(n) BY <1>1, <1>12
<1> QED BY <1>7, <1>13 DEF n

-----------------------------------------------------------------------------
(* Threading jumps *)

\* Code whose jumps lead forward to instructions.
Forward(code) ==
  /\ code \in Seq(Byte)
  /\ Decodes(code)
  /\ \A pc \in Jumps(code) : Target(code, pc) > pc /\ Target(code, pc) \in Starts(code)

LEMMA ForwardFacts ==
  ASSUME NEW code, Forward(code)
  PROVE  /\ Len(code) \in Nat
         /\ Starts(code) \subseteq Nat /\ \A p \in Starts(code) : p < Len(code)
         /\ \A p \in Starts(code) : ByteAt(code, p) = JUMP => p \in Jumps(code)
         /\ \A p \in Jumps(code) : p \in Long(code) /\ p \in Starts(code) /\ Target(code, p) \in U16
<1>1. Len(code) \in Nat BY LenProperties DEF Forward
<1>2. \A p \in Starts(code) : p \in Nat /\ p < Len(code)
  <2> TAKE p \in Starts(code)
  <2>1. code \in Seq(Byte) /\ code # << >> BY DEF Starts, Forward
  <2>2. Starts(code) \subseteq 0..Len(code)-1 BY <2>1, StartsClosed
  <2> QED BY <1>1, <2>2
<1>3. \A p \in Starts(code) : ByteAt(code, p) = JUMP => p \in Jumps(code)
  BY DEF Jumps, JumpOp
<1>4. \A p \in Jumps(code) : p \in Long(code) /\ p \in Starts(code) /\ Target(code, p) \in U16
  <2> TAKE p \in Jumps(code)
  <2>1. p \in Long(code) /\ p \in Starts(code) BY LongOps DEF Jumps
  <2> QED BY <2>1, LongFacts DEF Forward, Target
<1> QED BY <1>1, <1>2, <1>3, <1>4

LEMMA ThreadedHops ==
  ASSUME NEW code, Forward(code), NEW t \in Starts(code), NEW n \in Nat
  PROVE  \E hop : /\ Threaded(code, t, n) = hop[n]
                  /\ hop[0] = t
                  /\ \A k \in 0..n-1 :
                       hop[k + 1] = IF ByteAt(code, hop[k]) = JUMP THEN Target(code, hop[k]) ELSE hop[k]
                  /\ \A k \in 0..n : hop[k] \in Starts(code)
<1> DEFINE S == Starts(code)
           next == [u \in S |-> IF ByteAt(code, u) = JUMP THEN Target(code, u) ELSE u]
           step == [k \in 0..n |-> next]
           Hops(f) == f = [k \in 0..n |->
                             IF k = 0 THEN t
                             ELSE LET u == f[k - 1] IN
                                  IF u < Len(code) /\ ByteAt(code, u) = JUMP THEN Target(code, u) ELSE u]
<1>1. \A u \in S : u < Len(code) /\ next[u] \in S
  BY ForwardFacts DEF Forward
<1>2. \A f : Iterates(n, t, step, f) => \A k \in 0..n : f[k] \in S
  <2> SUFFICES ASSUME NEW f, Iterates(n, t, step, f) PROVE \A k \in 0..n : f[k] \in S
    OBVIOUS
  <2>1. \A k \in 0..n-1 : \A v \in S : step[k][v] \in S BY <1>1
  <2> HIDE DEF step, S
  <2>2. t \in S BY DEF S
  <2> QED BY <2>1, <2>2, IterationIn
<1>3. \A f : Iterates(n, t, step, f) => Hops(f)
  <2> SUFFICES ASSUME NEW f, Iterates(n, t, step, f) PROVE Hops(f)
    OBVIOUS
  <2>1. f = [k \in 0..n |-> IF k = 0 THEN t ELSE step[k - 1][f[k - 1]]] BY DEF Iterates
  <2>2. \A k \in 0..n : k # 0 => k - 1 \in 0..n /\ f[k - 1] \in S BY <1>2
  <2>3. \A k \in 0..n : k # 0 => step[k - 1][f[k - 1]] =
            IF f[k - 1] < Len(code) /\ ByteAt(code, f[k - 1]) = JUMP THEN Target(code, f[k - 1]) ELSE f[k - 1]
    BY <1>1, <2>2
  <2> QED BY <2>1, <2>3
<1>4. \E f : Iterates(n, t, step, f)
  BY IterationExists
<1>5. \E f : Hops(f)
  <2> HIDE DEF Hops, step
  <2> QED BY <1>3, <1>4
<1>6. PICK hop : hop = CHOOSE f : Hops(f)
  OBVIOUS
<1>7. Hops(hop)
  <2> HIDE DEF Hops
  <2> QED BY <1>5, <1>6, Zenon
<1>8. Threaded(code, t, n) = hop[n]
  BY <1>6 DEF Threaded
<1>9. Iterates(n, t, step, hop)
  <2> DEFINE T == {k \in Nat : k <= n => hop[k] \in S}
  <2>1. 0 \in T BY <1>7
  <2>2. ASSUME NEW k \in T PROVE k + 1 \in T
    <3> SUFFICES ASSUME k + 1 <= n PROVE hop[k + 1] \in S
      OBVIOUS
    <3>1. hop[k] \in S /\ k + 1 \in 0..n /\ k + 1 # 0 /\ k + 1 - 1 = k OBVIOUS
    <3>2. hop[k + 1] = IF ByteAt(code, hop[k]) = JUMP THEN Target(code, hop[k]) ELSE hop[k]
      BY <1>1, <1>7, <3>1
    <3> QED BY <1>1, <3>1, <3>2
  <2>3. T \subseteq Nat OBVIOUS
  <2>4. \A k \in Nat : k \in T
    <3> HIDE DEF T
    <3> QED BY <2>1, <2>2, <2>3, EveryNumber
  <2>5. \A k \in 0..n : k # 0 => k - 1 \in 0..n /\ hop[k - 1] \in S BY <2>4
  <2>6. \A k \in 0..n : k # 0 => step[k - 1][hop[k - 1]] =
            IF hop[k - 1] < Len(code) /\ ByteAt(code, hop[k - 1]) = JUMP THEN Target(code, hop[k - 1]) ELSE hop[k - 1]
    BY <1>1, <2>5
  <2> QED BY <1>7, <2>6 DEF Iterates
<1>10. \A k \in 0..n : hop[k] \in S
  BY <1>2, <1>9
<1>11. hop[0] = t /\ \A k \in 0..n-1 : hop[k + 1] = step[k][hop[k]]
  <2> HIDE DEF step
  <2> QED BY <1>9, IterationSteps
<1>12. \A k \in 0..n-1 : hop[k + 1] = IF ByteAt(code, hop[k]) = JUMP THEN Target(code, hop[k]) ELSE hop[k]
  <2>1. \A k \in 0..n-1 : k \in 0..n OBVIOUS
  <2> QED BY <1>10, <1>11, <2>1
<1> QED BY <1>8, <1>10, <1>11, <1>12

\* Threading ends at an instruction that is not a jump, and in every set that has the
\* target and, with a jump, where it leads.
LEMMA ThreadedIs ==
  ASSUME NEW code, Forward(code), NEW t \in Starts(code)
  PROVE  LET u == Threaded(code, t, Len(code)) IN
         /\ u \in Starts(code) /\ u >= t /\ ByteAt(code, u) # JUMP
         /\ \A T : t \in T /\ (\A p \in T \cap Starts(code) : ByteAt(code, p) = JUMP => Target(code, p) \in T) => u \in T
<1> DEFINE S == Starts(code)
           n == Len(code)
<1>1. n \in Nat /\ \A p \in S : p \in Nat /\ p < n
  BY ForwardFacts
<1>2. PICK hop : /\ Threaded(code, t, n) = hop[n]
                 /\ hop[0] = t
                 /\ \A k \in 0..n-1 :
                      hop[k + 1] = IF ByteAt(code, hop[k]) = JUMP THEN Target(code, hop[k]) ELSE hop[k]
                 /\ \A k \in 0..n : hop[k] \in S
  BY <1>1, ThreadedHops
<1>3. \A p \in S : ByteAt(code, p) = JUMP => Target(code, p) \in S /\ Target(code, p) \in Nat /\ Target(code, p) > p
  BY <1>1, ForwardFacts DEF Forward
<1> HIDE DEF S, n
<1>4. \A T : t \in T /\ (\A p \in T \cap S : ByteAt(code, p) = JUMP => Target(code, p) \in T) => hop[n] \in T
  <2> SUFFICES ASSUME NEW T, t \in T, \A p \in T \cap S : ByteAt(code, p) = JUMP => Target(code, p) \in T
               PROVE  hop[n] \in T
    OBVIOUS
  <2> DEFINE K == {k \in Nat : k <= n => hop[k] \in T}
  <2>1. 0 \in K BY <1>2
  <2>2. ASSUME NEW k \in K PROVE k + 1 \in K
    <3> SUFFICES ASSUME k + 1 <= n PROVE hop[k + 1] \in T
      OBVIOUS
    <3>1. hop[k] \in T /\ k \in 0..n-1 /\ k \in 0..n BY <1>1
    <3> QED BY <1>2, <3>1
  <2>3. K \subseteq Nat OBVIOUS
  <2>4. \A k \in Nat : k \in K
    <3> HIDE DEF K
    <3> QED BY <2>1, <2>2, <2>3, EveryNumber
  <2> QED BY <1>1, <2>4
<1>5. hop[n] \in S
  BY <1>1, <1>2
<1>6. hop[n] >= t
  <2> DEFINE T == {p \in S : p >= t}
  <2>1. t \in S BY DEF S
  <2>2. t \in T BY <1>1, <2>1
  <2>3. ASSUME NEW p \in T \cap S, ByteAt(code, p) = JUMP PROVE Target(code, p) \in T
    <3>1. p \in Nat /\ p >= t /\ t \in Nat BY <1>1, <2>1
    <3>2. Target(code, p) \in S /\ Target(code, p) \in Nat /\ Target(code, p) > p BY <1>3, <2>3
    <3> QED BY <3>1, <3>2
  <2>4. hop[n] \in T
    <3> HIDE DEF T
    <3> QED BY <1>4, <2>2, <2>3
  <2> QED BY <2>4
<1>7. ByteAt(code, hop[n]) # JUMP
  <2> DEFINE K == {k \in Nat : k <= n => ByteAt(code, hop[k]) # JUMP \/ hop[k] >= k}
  <2>1. 0 \in K
    <3>1. 0 \in 0..n BY <1>1
    <3>2. hop[0] \in Nat BY <1>1, <1>2, <3>1
    <3> QED BY <3>2
  <2>2. ASSUME NEW k \in K PROVE k + 1 \in K
    <3> SUFFICES ASSUME k + 1 <= n PROVE ByteAt(code, hop[k + 1]) # JUMP \/ hop[k + 1] >= k + 1
      OBVIOUS
    <3>0. k \in 0..n-1 /\ k \in 0..n /\ k + 1 \in 0..n BY <1>1
    <3>1. k \in 0..n-1 /\ hop[k] \in S /\ hop[k] \in Nat /\ hop[k + 1] \in S /\ hop[k + 1] \in Nat
      BY <1>1, <1>2, <3>0
    <3>2. CASE ByteAt(code, hop[k]) # JUMP
      BY <1>2, <3>1, <3>2
    <3>3. CASE ByteAt(code, hop[k]) = JUMP
      <4>1. hop[k + 1] = Target(code, hop[k]) BY <1>2, <3>1, <3>3
      <4>2. hop[k + 1] > hop[k] BY <1>3, <3>1, <3>3, <4>1
      <4>3. hop[k] >= k BY <1>1, <3>3
      <4> QED BY <3>1, <4>2, <4>3
    <3> QED BY <3>2, <3>3
  <2>3. K \subseteq Nat OBVIOUS
  <2>4. \A k \in Nat : k \in K
    <3> HIDE DEF K
    <3> QED BY <2>1, <2>2, <2>3, EveryNumber
  <2>5. ByteAt(code, hop[n]) # JUMP \/ hop[n] >= n BY <1>1, <2>4
  <2>6. hop[n] \in Nat /\ hop[n] < n BY <1>1, <1>5
  <2> QED BY <1>1, <2>5, <2>6
<1> QED BY <1>2, <1>4, <1>5, <1>6, <1>7 DEF S, n

\* What threading leaves as it was: everything but where the jumps lead.
Moved(code, d) ==
  /\ Forward(d) /\ Len(d) = Len(code)
  /\ Starts(d) = Starts(code) /\ Jumps(d) = Jumps(code) /\ Long(d) = Long(code)
  /\ \A p \in Starts(code) : ByteAt(d, p) = ByteAt(code, p) /\ Following(d, p) = Following(code, p)
  /\ \A p \in Starts(code) \ Jumps(code) : \A j \in p..Following(code, p)-1 : ByteAt(d, j) = ByteAt(code, j)

LEMMA MovedTwice ==
  ASSUME NEW c, NEW d, NEW e, Moved(c, d), Moved(d, e)
  PROVE  Moved(c, e)
<1>1. ASSUME NEW p \in Starts(c) \ Jumps(c), NEW j \in p..Following(c, p)-1
      PROVE  ByteAt(e, j) = ByteAt(c, j)
  <2>1. p \in Starts(d) \ Jumps(d) /\ Following(d, p) = Following(c, p) BY DEF Moved
  <2>2. ByteAt(e, j) = ByteAt(d, j) BY <2>1 DEF Moved
  <2>3. ByteAt(d, j) = ByteAt(c, j) BY DEF Moved
  <2> QED BY <2>2, <2>3
<1>2. Starts(d) = Starts(c) BY DEF Moved
<1> QED BY <1>1, <1>2 DEF Moved

LEMMA RetargetIs ==
  ASSUME NEW c, Forward(c), NEW p \in Jumps(c), NEW u,
         NEW operands, DOMAIN operands = {p}, operands[p] = u
  PROVE  Retarget(c, p, u) = Retargeted(c, operands)
<1> DEFINE low == U16Bytes(u)[1]
           high == U16Bytes(u)[2]
<1>1. c \in Seq(Byte) /\ DOMAIN c = 1..Len(c) /\ Len(c) \in Nat
  BY LenProperties DEF Forward
<1>2. p \in Nat /\ p + 3 <= Len(c)
  <2>1. p \in Long(c) /\ Decodes(c) BY ForwardFacts DEF Forward
  <2> QED BY <1>1, <2>1, LongFacts
<1>3. \A q : q \in DOMAIN operands <=> q = p
  OBVIOUS
<1>4. operands[p] = u
  OBVIOUS
<1> HIDE DEF low, high
<1>5. ASSUME NEW i \in DOMAIN c
      PROVE  (IF i - 2 \in DOMAIN operands THEN U16Bytes(operands[i - 2])[1]
              ELSE IF i - 3 \in DOMAIN operands THEN U16Bytes(operands[i - 3])[2]
              ELSE c[i])
             = (IF i = p + 3 THEN high ELSE IF i = p + 2 THEN low ELSE c[i])
  <2>1. (i - 2 = p <=> i = p + 2) /\ (i - 3 = p <=> i = p + 3) /\ p + 2 # p + 3 BY <1>1, <1>2
  <2>2. CASE i = p + 2
    <3>1. i - 2 = p /\ i # p + 3 BY <2>1, <2>2
    <3> QED BY <1>3, <1>4, <2>2, <3>1 DEF low
  <2>3. CASE i = p + 3
    <3>1. i - 3 = p /\ i - 2 # p BY <2>1, <2>3
    <3> QED BY <1>3, <1>4, <2>3, <3>1 DEF high
  <2>4. CASE i # p + 2 /\ i # p + 3
    BY <1>3, <2>1, <2>4
  <2> QED BY <2>2, <2>3, <2>4
<1>6. Retargeted(c, operands) = [i \in DOMAIN c |-> IF i = p + 3 THEN high ELSE IF i = p + 2 THEN low ELSE c[i]]
  BY <1>5 DEF Retargeted
<1>7. Retarget(c, p, u) = [i \in DOMAIN c |-> IF i = p + 3 THEN high ELSE IF i = p + 2 THEN low ELSE c[i]]
  <2>1. Retarget(c, p, u) = [c EXCEPT ![p + 2] = low, ![p + 3] = high] BY DEF Retarget, low, high
  <2>2. p + 2 # p + 3 /\ p + 2 \in DOMAIN c /\ p + 3 \in DOMAIN c BY <1>1, <1>2
  <2> QED BY <2>1, <2>2
<1> QED BY <1>6, <1>7

\* One jump gets a later target.
LEMMA RetargetMoves ==
  ASSUME NEW c, Forward(c), NEW p \in Jumps(c), NEW u \in Starts(c), u >= Target(c, p), u \in U16
  PROVE  LET d == Retarget(c, p, u) IN
         /\ Moved(c, d)
         /\ Target(d, p) = u
         /\ \A q \in Jumps(c) : q # p => Target(d, q) = Target(c, q)
<1> DEFINE operands == [q \in {p} |-> u]
           d == Retarget(c, p, u)
<1>1. c \in Seq(Byte) /\ Decodes(c) BY DEF Forward
<1>2. p \in Long(c) /\ p \in Starts(c) /\ DOMAIN operands = {p} /\ operands[p] = u
  BY ForwardFacts
<1>3. Rewritten(c, operands, d)
  <2>1. d = Retargeted(c, operands)
    <3> HIDE DEF operands
    <3> QED BY <1>2, RetargetIs
  <2> HIDE DEF d, operands
  <2>2. DOMAIN operands \subseteq Long(c) /\ \A q \in DOMAIN operands : operands[q] \in U16
    BY <1>2
  <2> QED BY <1>1, <2>1, <2>2, RetargetedIs
<1> HIDE DEF operands, d
<1>4. /\ d \in Seq(Byte) /\ Len(d) = Len(c)
      /\ Starts(d) = Starts(c) /\ Decodes(d) /\ Jumps(d) = Jumps(c) /\ Long(d) = Long(c)
      /\ \A q \in Starts(c) : ByteAt(d, q) = ByteAt(c, q) /\ Following(d, q) = Following(c, q)
      /\ \A q \in Long(c) :
           ReadU16(d, q + 1) = IF q \in DOMAIN operands THEN operands[q] ELSE ReadU16(c, q + 1)
  <2>1. DOMAIN operands \subseteq Long(c) BY <1>2
  <2> QED BY <1>1, <1>3, <2>1, RewrittenKeeps
<1>5. Target(d, p) = u /\ \A q \in Jumps(c) : q # p => Target(d, q) = Target(c, q)
  <2>1. \A q \in Jumps(c) : q \in Long(c) BY ForwardFacts
  <2> QED BY <1>2, <1>4, <2>1 DEF Target
<1>6. Forward(d)
  <2> SUFFICES ASSUME NEW q \in Jumps(c) PROVE Target(d, q) > q /\ Target(d, q) \in Starts(c)
    BY <1>4 DEF Forward
  <2>1. Target(c, q) > q /\ Target(c, q) \in Starts(c) BY DEF Forward
  <2>2. q \in Nat /\ Target(c, q) \in Nat /\ u \in Nat
    <3>1. Starts(c) \subseteq Nat /\ q \in Starts(c) BY ForwardFacts
    <3> QED BY <2>1, <3>1
  <2>3. CASE q = p BY <1>5, <2>1, <2>2, <2>3
  <2>4. CASE q # p BY <1>5, <2>1, <2>4
  <2> QED BY <2>3, <2>4
<1>7. \A q \in Starts(c) \ Jumps(c) : \A j \in q..Following(c, q)-1 : ByteAt(d, j) = ByteAt(c, j)
  BY <1>2, <1>3 DEF Rewritten
<1> QED BY <1>4, <1>5, <1>6, <1>7 DEF Moved, d

\* A jump of code that is forward, threaded.
ThreadOne(c, p) == Retarget(c, p, Threaded(c, Target(c, p), Len(c)))

LEMMA ThreadOneMoves ==
  ASSUME NEW c, Forward(c), NEW p \in Jumps(c)
  PROVE  LET d == ThreadOne(c, p) IN
         /\ Moved(c, d)
         /\ Target(d, p) = Threaded(c, Target(c, p), Len(c)) /\ ByteAt(c, Target(d, p)) # JUMP
         /\ \A q \in Jumps(c) : q # p => Target(d, q) = Target(c, q)
<1> DEFINE u == Threaded(c, Target(c, p), Len(c))
<1>1. Target(c, p) \in Starts(c) BY DEF Forward
<1>2. u \in Starts(c) /\ u >= Target(c, p) /\ ByteAt(c, u) # JUMP BY <1>1, ThreadedIs
<1>3. u \in U16
  <2>1. PICK q \in Jumps(c) \cup {p} : u = Target(c, q)
    <3> DEFINE T == {Target(c, q) : q \in Jumps(c)}
    <3>1. Target(c, p) \in T OBVIOUS
    <3>2. \A q \in T \cap Starts(c) : ByteAt(c, q) = JUMP => Target(c, q) \in T BY ForwardFacts
    <3> HIDE DEF u
    <3>3. u \in T
      <4> HIDE DEF T
      <4> QED BY <1>1, <3>1, <3>2, ThreadedIs DEF u
    <3> QED BY <3>3
  <2> QED BY <2>1, ForwardFacts
<1> HIDE DEF u
<1>4. ThreadOne(c, p) = Retarget(c, p, u) BY DEF ThreadOne, u
<1> QED BY <1>2, <1>3, <1>4, RetargetMoves DEF u

\* The jump that has k - 1 jumps before it.
NthJump(code, k) == CHOOSE pc \in Jumps(code) : Cardinality({p \in Jumps(code) : p < pc}) = k - 1

LEMMA NthJumpIs ==
  ASSUME NEW code, Forward(code)
  PROVE  /\ Jumps(code) \subseteq Nat /\ Cardinality(Jumps(code)) = Count(Jumps(code), Len(code))
         /\ \A k \in 1..Cardinality(Jumps(code)) : NthJump(code, k) \in Jumps(code)
         /\ \A p \in Jumps(code) : NthJump(code, Count(Jumps(code), p) + 1) = p
<1> DEFINE S == Jumps(code)
           n == Len(code)
<1>1. n \in Nat /\ \A p \in S : p \in Nat /\ p < n
  <2>1. \A p \in S : p \in Starts(code) BY DEF Jumps
  <2> QED BY <2>1, ForwardFacts
<1>2. NthJump(code, 0 + 1) = NthJump(code, 1) OBVIOUS
<1> DEFINE nth == [k \in Nat |-> NthJump(code, k + 1)]
<1>3. \A k \in Nat : nth[k] = CHOOSE p \in S : Count(S, p) = k
  BY DEF NthJump, Count
<1>4. \A k \in Nat : (\E p \in S : Count(S, p) = k) => nth[k] \in S /\ Count(S, nth[k]) = k
  <2> HIDE DEF nth, S
  <2> QED BY <1>3
<1> HIDE DEF S, n
<1>5. S \subseteq Nat BY <1>1
<1>6. Cardinality(S) = Count(S, n)
  <2>1. S = {j \in S : j < n} BY <1>1, Zenon
  <2> QED BY <2>1 DEF Count
<1>7. \A p \in S : Count(S, p) \in Nat BY <1>1, <1>5, CountSteps
<1>8. ASSUME NEW p \in S, NEW q \in S, Count(S, p) = Count(S, q) PROVE p = q
  <2>1. p \in Nat /\ q \in Nat BY <1>1
  <2>2. ASSUME p < q PROVE FALSE
    <3> HIDE DEF nth
    <3>0. p <= q BY <2>1, <2>2
    <3>1. (p \in S /\ p < q) => Count(S, p) < Count(S, q) BY <1>5, <2>1, <3>0, CountBetween
    <3> QED BY <1>7, <1>8, <2>2, <3>1
  <2>3. ASSUME q < p PROVE FALSE
    <3> HIDE DEF nth
    <3>0. q <= p BY <2>1, <2>3
    <3>1. (q \in S /\ q < p) => Count(S, q) < Count(S, p) BY <1>5, <2>1, <3>0, CountBetween
    <3> QED BY <1>7, <1>8, <2>3, <3>1
  <2> QED BY <2>1, <2>2, <2>3
<1>9. ASSUME NEW k \in Nat, k < Cardinality(S) PROVE nth[k] \in S
  <2>1. \E p \in S : p < n /\ Count(S, p) = k BY <1>1, <1>5, <1>6, <1>9, CountOnto
  <2> HIDE DEF nth
  <2> QED BY <1>4, <2>1
<1>10. ASSUME NEW p \in S PROVE nth[Count(S, p)] = p
  <2>1. Count(S, p) \in Nat BY <1>7
  <2> HIDE DEF nth
  <2>2. nth[Count(S, p)] \in S /\ Count(S, nth[Count(S, p)]) = Count(S, p) BY <1>4, <2>1
  <2> QED BY <1>8, <2>2
<1>11. ASSUME NEW k \in 1..Cardinality(S) PROVE NthJump(code, k) \in S
  <2>1. Count(S, n) \in Nat
    <3> HIDE DEF nth
    <3> QED BY <1>1, <1>5, CountSteps
  <2>2. k - 1 \in Nat /\ k - 1 < Cardinality(S) /\ k - 1 + 1 = k BY <1>6, <2>1
  <2>3. nth[k - 1] = NthJump(code, k) BY <2>2
  <2> HIDE DEF nth
  <2> QED BY <1>9, <2>2, <2>3
<1>12. ASSUME NEW p \in S PROVE NthJump(code, Count(S, p) + 1) = p
  <2>1. Count(S, p) \in Nat BY <1>7
  <2>2. nth[Count(S, p)] = NthJump(code, Count(S, p) + 1) BY <2>1
  <2> HIDE DEF nth
  <2> QED BY <1>10, <2>2
<1> QED BY <1>5, <1>6, <1>11, <1>12 DEF S, n

\* The jumps threaded one after the other.
LEMMA JumpsThreaded ==
  ASSUME NEW code, Forward(code)
  PROVE  LET m == Cardinality(Jumps(code)) IN
         \E done : /\ ThreadJumps(code) = done[m]
                   /\ done[0] = code
                   /\ \A k \in 0..m-1 : done[k + 1] = ThreadOne(done[k], NthJump(code, k + 1))
                   /\ \A k \in 0..m : done[k] \in Seq(Byte) /\ Moved(code, done[k])
<1> DEFINE m == Cardinality(Jumps(code))
           jumps == Jumps(code)
           V == {d \in Seq(Byte) : Moved(code, d)}
           step == [k \in 0..m |-> [d \in V |-> ThreadOne(d, NthJump(code, k + 1))]]
           Done(f) == f = [k \in 0..m |->
                        IF k = 0 THEN code
                        ELSE LET c == f[k - 1] IN
                             Retarget(c, NthJump(code, k), Threaded(c, Target(c, NthJump(code, k)), Len(c)))]
<1>1. m \in Nat /\ code \in V
  <2>1. Len(code) \in Nat BY ForwardFacts
  <2>2. m \in Nat BY <2>1, NthJumpIs, CountSteps
  <2> QED BY <2>2 DEF Moved, Forward
<1>2. ASSUME NEW d \in V, NEW p \in jumps PROVE ThreadOne(d, p) \in V
  <2>1. Moved(code, d) /\ Forward(d) /\ p \in Jumps(d) BY DEF Moved
  <2>2. Moved(d, ThreadOne(d, p)) BY <2>1, ThreadOneMoves
  <2>3. Moved(code, ThreadOne(d, p)) BY <2>1, <2>2, MovedTwice
  <2> QED BY <2>3 DEF Moved, Forward
<1>3. \A k \in 1..m : NthJump(code, k) \in jumps
  BY NthJumpIs
<1>4. \A k \in 0..m-1, d \in V : step[k][d] = ThreadOne(d, NthJump(code, k + 1)) /\ step[k][d] \in V
  <2> SUFFICES ASSUME NEW k \in 0..m-1, NEW d \in V
               PROVE  step[k][d] = ThreadOne(d, NthJump(code, k + 1)) /\ step[k][d] \in V
    OBVIOUS
  <2> HIDE DEF m, jumps, V
  <2>1. k \in 0..m /\ k + 1 \in 1..m BY <1>1
  <2>2. step[k][d] = ThreadOne(d, NthJump(code, k + 1)) BY <2>1
  <2> QED BY <1>2, <1>3, <2>1, <2>2
<1> HIDE DEF m, jumps, V, step
<1>5. \A f : Iterates(m, code, step, f) => Done(f) /\ \A k \in 0..m : f[k] \in V
  <2> SUFFICES ASSUME NEW f, Iterates(m, code, step, f) PROVE Done(f) /\ \A k \in 0..m : f[k] \in V
    OBVIOUS
  <2>1. \A k \in 0..m-1 : \A v \in V : step[k][v] \in V BY <1>4
  <2>2. \A k \in 0..m : f[k] \in V BY <1>1, <2>1, IterationIn
  <2>3. f = [k \in 0..m |-> IF k = 0 THEN code ELSE step[k - 1][f[k - 1]]] BY DEF Iterates
  <2>4. \A k \in 0..m : k # 0 => k - 1 \in 0..m-1 /\ k - 1 \in 0..m /\ k - 1 + 1 = k BY <1>1
  <2>5. \A k \in 0..m : k # 0 => step[k - 1][f[k - 1]] = ThreadOne(f[k - 1], NthJump(code, k))
    BY <1>4, <2>2, <2>4
  <2> QED BY <2>2, <2>3, <2>5 DEF ThreadOne
<1>6. \E f : Done(f)
  <2>1. \E f : Iterates(m, code, step, f) BY <1>1, IterationExists
  <2> HIDE DEF Done
  <2> QED BY <1>5, <2>1
<1>7. PICK done : done = CHOOSE f : Done(f)
  OBVIOUS
<1>8. Done(done)
  <2> HIDE DEF Done
  <2> QED BY <1>6, <1>7, Zenon
<1>9. ThreadJumps(code) = done[m]
  BY <1>7 DEF ThreadJumps, m, NthJump
<1>10. \A k \in 0..m-1 : done[k + 1] = ThreadOne(done[k], NthJump(code, k + 1))
  <2> TAKE k \in 0..m-1
  <2>1. k + 1 \in 0..m /\ k + 1 # 0 /\ k + 1 - 1 = k BY <1>1
  <2>2. \A j \in 0..m : j # 0 => done[j] = ThreadOne(done[j - 1], NthJump(code, j)) BY <1>8 DEF ThreadOne
  <2> HIDE DEF Done
  <2> QED BY <2>1, <2>2
<1>11. done[0] = code
  <2>1. 0 \in 0..m BY <1>1
  <2> QED BY <1>8, <2>1
<1>12. \A k \in 0..m : done[k] \in V
  <2> DEFINE T == {k \in Nat : k <= m => done[k] \in V}
  <2>1. 0 \in T BY <1>1, <1>11
  <2>2. ASSUME NEW k \in T PROVE k + 1 \in T
    <3> SUFFICES ASSUME k + 1 <= m PROVE done[k + 1] \in V
      OBVIOUS
    <3>1. done[k] \in V /\ k \in 0..m-1 BY <1>1
    <3>2. done[k + 1] = step[k][done[k]] BY <1>4, <1>10, <3>1
    <3> QED BY <1>4, <3>1, <3>2
  <2>3. T \subseteq Nat OBVIOUS
  <2>4. \A k \in Nat : k \in T
    <3> HIDE DEF T
    <3> QED BY <2>1, <2>2, <2>3, EveryNumber
  <2> QED BY <1>1, <2>4
<1> QED BY <1>9, <1>10, <1>11, <1>12 DEF m, V

\* The same, told by the offsets walked over.
LEMMA ThreadJumpsSteps ==
  ASSUME NEW code, Forward(code)
  PROVE  \E passed : /\ ThreadJumps(code) = passed[Len(code)]
                     /\ passed[0] = code
                     /\ \A k \in 0..Len(code)-1 :
                          passed[k + 1] = IF k \in Jumps(code) THEN ThreadOne(passed[k], k) ELSE passed[k]
                     /\ \A k \in 0..Len(code) : Moved(code, passed[k])
<1> DEFINE S == Jumps(code)
           m == Cardinality(S)
           n == Len(code)
<1>1. PICK done : /\ ThreadJumps(code) = done[m]
                  /\ done[0] = code
                  /\ \A k \in 0..m-1 : done[k + 1] = ThreadOne(done[k], NthJump(code, k + 1))
                  /\ \A k \in 0..m : Moved(code, done[k])
  BY JumpsThreaded
<1>2. n \in Nat BY ForwardFacts
<1>3. S \subseteq Nat /\ m = Count(S, n) /\ \A p \in S : NthJump(code, Count(S, p) + 1) = p
  BY NthJumpIs
<1> DEFINE passed == [k \in 0..n |-> done[Count(S, k)]]
<1> HIDE DEF S, m, n
<1>4. \A k \in 0..n : Count(S, k) \in 0..m
  <2> TAKE k \in 0..n
  <2>1. k \in Nat /\ k <= n BY <1>2
  <2> HIDE DEF passed
  <2>2. Count(S, k) \in Nat /\ Count(S, n) \in Nat /\ Count(S, k) <= Count(S, n)
    BY <1>2, <1>3, <2>1, CountBetween
  <2> QED BY <1>3, <2>2
<1>5. ASSUME NEW k \in 0..n-1
      PROVE  passed[k + 1] = IF k \in S THEN ThreadOne(passed[k], k) ELSE passed[k]
  <2>1. k \in 0..n /\ k + 1 \in 0..n /\ k \in Nat BY <1>2
  <2>2. passed[k] = done[Count(S, k)] /\ passed[k + 1] = done[Count(S, k + 1)] BY <2>1
  <2>3. Count(S, k + 1) = Count(S, k) + (IF k \in S THEN 1 ELSE 0) /\ Count(S, k) \in Nat
    BY <1>3, <2>1, CountSteps
  <2>4. Count(S, k + 1) \in 0..m BY <1>4, <2>1
  <2> HIDE DEF passed
  <2>5. CASE k \in S
    <3>1. Count(S, k + 1) = Count(S, k) + 1 BY <2>3, <2>5
    <3>2. m \in Nat BY <1>2, <1>3, CountSteps
    <3>3. Count(S, k) \in 0..m-1 BY <2>3, <2>4, <3>1, <3>2
    <3>4. done[Count(S, k) + 1] = ThreadOne(done[Count(S, k)], NthJump(code, Count(S, k) + 1)) BY <1>1, <3>3
    <3> QED BY <1>3, <2>2, <2>5, <3>1, <3>4
  <2>6. CASE k \notin S
    <3>1. Count(S, k + 1) = Count(S, k) BY <2>3, <2>6
    <3> QED BY <2>2, <2>6, <3>1
  <2> QED BY <2>5, <2>6
<1>6. passed[0] = code
  <2>1. 0 \in 0..n BY <1>2
  <2>2. Count(S, 0) = 0
    <3> HIDE DEF passed
    <3> QED BY <1>3, CountSteps
  <2> QED BY <1>1, <2>1, <2>2
<1>7. ThreadJumps(code) = passed[n]
  <2>1. n \in 0..n BY <1>2
  <2> QED BY <1>1, <1>3, <2>1
<1>8. \A k \in 0..n : Moved(code, passed[k])
  BY <1>1, <1>4
<1> HIDE DEF passed
<1> QED BY <1>5, <1>6, <1>7, <1>8 DEF S, n

\* After threading no jump leads to a jump.
LEMMA ThreadJumpsMoves ==
  ASSUME NEW code, Forward(code)
  PROVE  LET d == ThreadJumps(code) IN
         Moved(code, d) /\ \A p \in Jumps(d) : ByteAt(d, Target(d, p)) # JUMP
<1> DEFINE n == Len(code)
           d == ThreadJumps(code)
<1>1. PICK passed : /\ d = passed[n]
                    /\ passed[0] = code
                    /\ \A k \in 0..n-1 :
                         passed[k + 1] = IF k \in Jumps(code) THEN ThreadOne(passed[k], k) ELSE passed[k]
                    /\ \A k \in 0..n : Moved(code, passed[k])
  BY ThreadJumpsSteps
<1>2. n \in Nat /\ \A p \in Jumps(code) : p \in Nat /\ p < n
  BY ForwardFacts
<1> HIDE DEF d, n
<1> DEFINE Done(k) == \A p \in Jumps(code) : p < k => ByteAt(code, Target(passed[k], p)) # JUMP
           T == {k \in Nat : k <= n => Done(k)}
<1>3. 0 \in T
  BY <1>2
<1>4. ASSUME NEW k \in T PROVE k + 1 \in T
  <2> SUFFICES ASSUME k + 1 <= n PROVE Done(k + 1)
    OBVIOUS
  <2> DEFINE c == passed[k]
             e == passed[k + 1]
  <2>1. k \in 0..n-1 /\ k \in 0..n BY <1>2
  <2>2. Moved(code, c) /\ Done(k) BY <1>1, <1>2, <2>1
  <2>3. e = IF k \in Jumps(code) THEN ThreadOne(c, k) ELSE c BY <1>1, <2>1
  <2> HIDE DEF c, e
  <2> SUFFICES ASSUME NEW p \in Jumps(code), p < k + 1 PROVE ByteAt(code, Target(e, p)) # JUMP
    BY DEF e
  <2>4. p < k \/ p = k BY <1>2, <2>1
  <2>5. CASE k \notin Jumps(code)
    <3>1. p < k /\ e = c BY <2>3, <2>4, <2>5
    <3> QED BY <2>2, <3>1 DEF c
  <2>6. CASE k \in Jumps(code)
    <3>1. Forward(c) /\ k \in Jumps(c) /\ Jumps(c) = Jumps(code) BY <2>2, <2>6 DEF Moved
    <3>2. /\ Moved(c, e) /\ ByteAt(c, Target(e, k)) # JUMP
          /\ \A q \in Jumps(c) : q # k => Target(e, q) = Target(c, q)
      BY <2>3, <2>6, <3>1, ThreadOneMoves
    <3>3. CASE p = k
      <4>1. Target(e, k) \in Starts(code)
        <5>1. Forward(e) /\ k \in Jumps(e) /\ Starts(e) = Starts(code) BY <2>2, <3>1, <3>2 DEF Moved
        <5> QED BY <5>1 DEF Forward
      <4>2. ByteAt(c, Target(e, k)) = ByteAt(code, Target(e, k)) BY <2>2, <4>1 DEF Moved
      <4> QED BY <3>2, <3>3, <4>2
    <3>4. CASE p < k
      <4>1. Target(e, p) = Target(c, p) BY <1>2, <2>1, <3>1, <3>2, <3>4
      <4> QED BY <2>2, <3>4, <4>1 DEF c
    <3> QED BY <2>4, <3>3, <3>4
  <2> QED BY <2>5, <2>6
<1>5. T \subseteq Nat OBVIOUS
<1>6. \A k \in Nat : k \in T
  <2> HIDE DEF T
  <2> QED BY <1>3, <1>4, <1>5, EveryNumber
<1>7. Done(n) BY <1>2, <1>6
<1>8. Moved(code, d) BY <1>1, <1>2
<1>9. ASSUME NEW p \in Jumps(d) PROVE ByteAt(d, Target(d, p)) # JUMP
  <2>1. p \in Jumps(code) /\ Forward(d) /\ Starts(d) = Starts(code) BY <1>8 DEF Moved
  <2>2. p < n BY <1>2, <2>1
  <2>3. ByteAt(code, Target(d, p)) # JUMP BY <1>1, <1>7, <2>1, <2>2
  <2>4. Target(d, p) \in Starts(code) BY <2>1 DEF Forward
  <2> QED BY <1>8, <2>3, <2>4 DEF Moved
<1> QED BY <1>8, <1>9 DEF d

\* To give a jump the target it has changes nothing.
LEMMA RetargetSame ==
  ASSUME NEW c, Forward(c), NEW p \in Jumps(c)
  PROVE  Retarget(c, p, Target(c, p)) = c
<1> DEFINE v == Target(c, p)
           operands == [q \in {p} |-> v]
<1>1. c \in Seq(Byte) /\ DOMAIN c = 1..Len(c) /\ Len(c) \in Nat
  BY LenProperties DEF Forward
<1>2. p \in Nat /\ p + 3 <= Len(c)
  <2>1. p \in Long(c) /\ Decodes(c) BY ForwardFacts DEF Forward
  <2> QED BY <1>1, <2>1, LongFacts
<1>3. p + 2 \in 1..Len(c) /\ p + 3 \in 1..Len(c) /\ p + 1 + 1 = p + 2 /\ p + 1 + 1 + 1 = p + 3
  BY <1>1, <1>2
<1>4. c[p + 2] \in Byte /\ c[p + 3] \in Byte
  BY <1>1, <1>3, ElementOfSeq
<1>5. v = c[p + 2] + 256 * c[p + 3]
  BY <1>3 DEF Target, ReadU16, ByteAt
<1>6. U16Bytes(v)[1] = c[p + 2] /\ U16Bytes(v)[2] = c[p + 3]
  <2>1. c[p + 2] \in 0..255 /\ c[p + 3] \in 0..255 BY <1>4 DEF Byte, UINT8_MAX
  <2> HIDE DEF v
  <2>2. PICK low \in 0..255 : low = c[p + 2] BY <2>1
  <2>3. PICK high \in 0..255 : high = c[p + 3] BY <2>1
  <2>4. v = low + 256 * high BY <1>5, <2>2, <2>3
  <2>5. U16Bytes(low + 256 * high)[1] = low /\ U16Bytes(low + 256 * high)[2] = high BY BytesOfU16
  <2> QED BY <2>2, <2>3, <2>4, <2>5, Zenon
<1> HIDE DEF v
<1>7. \A i \in DOMAIN c : (IF i - 2 \in DOMAIN operands THEN U16Bytes(operands[i - 2])[1]
                           ELSE IF i - 3 \in DOMAIN operands THEN U16Bytes(operands[i - 3])[2]
                           ELSE c[i]) = c[i]
  <2> SUFFICES ASSUME NEW i \in 1..Len(c)
               PROVE  (IF i - 2 \in DOMAIN operands THEN U16Bytes(operands[i - 2])[1]
                       ELSE IF i - 3 \in DOMAIN operands THEN U16Bytes(operands[i - 3])[2]
                       ELSE c[i]) = c[i]
    BY <1>1
  <2>1. \A q : q \in DOMAIN operands => q = p /\ operands[q] = v OBVIOUS
  <2>2. (i - 2 = p => i = p + 2) /\ (i - 3 = p => i = p + 3) BY <1>1, <1>2
  <2> HIDE DEF operands
  <2> QED BY <1>6, <2>1, <2>2
<1>8. Retargeted(c, operands) = [i \in DOMAIN c |-> c[i]]
  <2> HIDE DEF operands
  <2> QED BY <1>7 DEF Retargeted
<1>9. Retarget(c, p, v) = Retargeted(c, operands)
  <2>1. DOMAIN operands = {p} /\ operands[p] = v BY DEF operands
  <2> QED BY <2>1, RetargetIs
<1>10. c = [i \in DOMAIN c |-> c[i]]
  BY <1>1, SeqDef
<1> QED BY <1>8, <1>9, <1>10 DEF v

\* Where no jump leads to a jump, threading changes nothing.
LEMMA ThreadJumpsSettled ==
  ASSUME NEW code, Forward(code), \A p \in Jumps(code) : ByteAt(code, Target(code, p)) # JUMP
  PROVE  ThreadJumps(code) = code
<1>1. ASSUME NEW p \in Jumps(code) PROVE ThreadOne(code, p) = code
  <2> DEFINE t == Target(code, p)
             u == Threaded(code, t, Len(code))
  <2>1. t \in Starts(code) BY DEF Forward
  <2>2. u \in {t}
    <3>1. \A T : t \in T /\ (\A q \in T \cap Starts(code) : ByteAt(code, q) = JUMP => Target(code, q) \in T) => u \in T
      BY <2>1, ThreadedIs
    <3>2. \A q \in {t} \cap Starts(code) : ByteAt(code, q) # JUMP OBVIOUS
    <3> HIDE DEF t, u
    <3> QED BY <3>1, <3>2
  <2>3. u = t BY <2>2
  <2>4. ThreadOne(code, p) = Retarget(code, p, u) BY DEF ThreadOne
  <2> HIDE DEF u
  <2> QED BY <2>3, <2>4, RetargetSame
<1>2. PICK passed : /\ ThreadJumps(code) = passed[Len(code)]
                    /\ passed[0] = code
                    /\ \A k \in 0..Len(code)-1 :
                         passed[k + 1] = IF k \in Jumps(code) THEN ThreadOne(passed[k], k) ELSE passed[k]
  BY ThreadJumpsSteps
<1> DEFINE T == {k \in Nat : k <= Len(code) => passed[k] = code}
<1>3. Len(code) \in Nat BY ForwardFacts
<1>4. 0 \in T BY <1>2
<1>5. ASSUME NEW k \in T PROVE k + 1 \in T
  <2> SUFFICES ASSUME k + 1 <= Len(code) PROVE passed[k + 1] = code
    OBVIOUS
  <2>1. passed[k] = code /\ k \in 0..Len(code)-1 BY <1>3
  <2> QED BY <1>1, <1>2, <2>1
<1>6. T \subseteq Nat OBVIOUS
<1>7. \A k \in Nat : k \in T
  <2> HIDE DEF T
  <2> QED BY <1>4, <1>5, <1>6, EveryNumber
<1> QED BY <1>2, <1>3, <1>7

\* No chain is endless.
LEMMA ThreadAccepts ==
  ASSUME NEW code, Forward(code)
  PROVE  ThreadFault(code) = "none"
<1>1. ASSUME NEW p \in Jumps(code) PROVE ~Endless(code, Target(code, p))
  <2>1. Target(code, p) \in Starts(code) BY DEF Forward
  <2>2. ByteAt(code, Threaded(code, Target(code, p), Len(code))) # JUMP BY <2>1, ThreadedIs
  <2> QED BY <2>2 DEF Endless
<1> QED BY <1>1 DEF ThreadFault, Forward

-----------------------------------------------------------------------------
(* Where the instructions go when others are removed *)

\* Where offset i of code is without the instructions at dropped.
Place(code, dropped, i) == Count(BytesOf(code, Starts(code) \ dropped), i)

LEMMA KeptBytes ==
  ASSUME NEW code, Tiled(code), NEW kept, kept \subseteq Starts(code)
  PROVE  /\ \A j : j \in BytesOf(code, kept) => j \in Nat
         /\ \A p \in kept : \A j \in p..Following(code, p)-1 : j \in BytesOf(code, kept)
         /\ \A p \in Starts(code) \ kept : \A j \in p..Following(code, p)-1 : j \notin BytesOf(code, kept)
         /\ \A j \in BytesOf(code, kept) : \E p \in kept : p <= j /\ j < Following(code, p)
<1> DEFINE K == BytesOf(code, kept)
           S == Starts(code)
<1>1. \A p \in S : /\ p \in Nat /\ Following(code, p) \in Nat
                   /\ Following(code, p) = p + InstructionSize(code, p)
  BY DEF Tiled
<1>2. \A j : j \in K <=> \E p \in kept : j \in p..Following(code, p)-1
  <2>1. \A p \in kept : p..p+InstructionSize(code, p)-1 = p..Following(code, p)-1
    <3> TAKE p \in kept
    <3>1. Following(code, p) = p + InstructionSize(code, p) /\ p \in Nat BY <1>1
    <3>2. InstructionSize(code, p) \in 1..3 BY Sizes
    <3> QED BY <3>1, <3>2
  <2> QED BY <2>1 DEF BytesOf
<1> HIDE DEF K
<1>3. ASSUME NEW p \in S \ kept, NEW j \in p..Following(code, p)-1, j \in K PROVE FALSE
  <2>1. PICK q \in kept : j \in q..Following(code, q)-1 BY <1>2, <1>3
  <2>2. p \in Nat /\ q \in Nat /\ p # q /\ p \in S /\ q \in S /\ Following(code, p) \in Nat /\ Following(code, q) \in Nat
    BY <1>1
  <2>3. p <= j /\ j < Following(code, p) /\ q <= j /\ j < Following(code, q) /\ j \in Nat BY <2>1, <2>2
  <2>4. CASE p < q
    <3>1. Following(code, p) <= q BY <2>2, <2>4 DEF Tiled
    <3> QED BY <2>2, <2>3, <3>1
  <2>5. CASE q < p
    <3>1. Following(code, q) <= p BY <2>2, <2>5 DEF Tiled
    <3> QED BY <2>2, <2>3, <3>1
  <2> QED BY <2>2, <2>4, <2>5
<1>4. ASSUME NEW j \in K PROVE j \in Nat /\ \E p \in kept : p <= j /\ j < Following(code, p)
  <2>1. PICK p \in kept : j \in p..Following(code, p)-1 BY <1>2
  <2>2. p \in Nat /\ Following(code, p) \in Nat BY <1>1
  <2> QED BY <2>1, <2>2
<1> QED BY <1>2, <1>3, <1>4 DEF K

LEMMA PlaceIs ==
  ASSUME NEW code, Tiled(code), NEW dropped
  PROVE  /\ Place(code, dropped, 0) = 0
         /\ \A i \in Nat : Place(code, dropped, i) \in Nat
         /\ \A i, k \in Nat : i <= k => /\ Place(code, dropped, i) <= Place(code, dropped, k)
                                        /\ Place(code, dropped, k) <= Place(code, dropped, i) + (k - i)
         /\ \A p \in Starts(code) \ dropped : \A k \in 0..InstructionSize(code, p) :
              Place(code, dropped, p + k) = Place(code, dropped, p) + k
         /\ \A p \in Starts(code) \cap dropped : Place(code, dropped, Following(code, p)) = Place(code, dropped, p)
         /\ \A p \in Starts(code) \ dropped : \A k \in Nat : p < k =>
              Place(code, dropped, p) < Place(code, dropped, k)
<1> DEFINE kept == Starts(code) \ dropped
           K == BytesOf(code, kept)
           m(i) == Place(code, dropped, i)
<1>1. /\ K \subseteq Nat
      /\ \A p \in kept : \A j \in p..Following(code, p)-1 : j \in K
      /\ \A p \in Starts(code) \cap dropped : \A j \in p..Following(code, p)-1 : j \notin K
  <2>1. kept \subseteq Starts(code) /\ \A p \in Starts(code) \cap dropped : p \in Starts(code) \ kept OBVIOUS
  <2> HIDE DEF kept
  <2> QED BY <2>1, KeptBytes
<1>2. \A i : m(i) = Count(K, i) BY DEF Place
<1>3. \A p \in Starts(code) : /\ p \in Nat /\ Following(code, p) \in Nat /\ p < Following(code, p)
                              /\ Following(code, p) = p + InstructionSize(code, p)
  BY DEF Tiled
<1> HIDE DEF m, K
<1>4. m(0) = 0 BY <1>1, <1>2, CountSteps
<1>5. ASSUME NEW i \in Nat, NEW k \in Nat, i <= k
      PROVE  /\ m(i) <= m(k) /\ m(k) <= m(i) + (k - i)
             /\ (i \in K /\ i < k) => m(i) < m(k)
             /\ (\A j \in i..k-1 : j \in K) => m(k) = m(i) + (k - i)
             /\ (\A j \in i..k-1 : j \notin K) => m(k) = m(i)
  BY <1>1, <1>2, <1>5, CountBetween
<1>6. \A i \in Nat : m(i) \in Nat BY <1>1, <1>2, CountSteps
<1>7. ASSUME NEW p \in kept, NEW k \in 0..InstructionSize(code, p) PROVE m(p + k) = m(p) + k
  <2>1. p \in Nat /\ Following(code, p) = p + InstructionSize(code, p) BY <1>3
  <2>2. InstructionSize(code, p) \in 1..3 BY Sizes
  <2>3. p + k \in Nat /\ p <= p + k /\ (p + k) - p = k /\ \A j \in p..(p+k)-1 : j \in p..Following(code, p)-1
    BY <2>1, <2>2
  <2>4. \A j \in p..(p+k)-1 : j \in K BY <1>1, <2>3
  <2>5. m(p + k) = m(p) + ((p + k) - p) BY <1>5, <2>1, <2>3, <2>4
  <2> QED BY <2>3, <2>5
<1>8. ASSUME NEW p \in Starts(code) \cap dropped PROVE m(Following(code, p)) = m(p)
  <2>1. p \in Nat /\ Following(code, p) \in Nat /\ p <= Following(code, p) BY <1>3
  <2> QED BY <1>1, <1>5, <2>1
<1>9. ASSUME NEW p \in kept, NEW k \in Nat, p < k PROVE m(p) < m(k)
  <2>1. p \in Nat /\ p <= k BY <1>3, <1>9
  <2>2. p \in K
    <3>1. p \in p..Following(code, p)-1 BY <1>3
    <3> QED BY <1>1, <3>1
  <2> QED BY <1>5, <1>9, <2>1, <2>2
<1> QED BY <1>4, <1>5, <1>6, <1>7, <1>8, <1>9 DEF m

\* What comes at or after an offset is the first instruction kept from there on, or the end.
LEMMA NextKept ==
  ASSUME NEW code, Tiled(code), NEW dropped, NEW x \in Starts(code) \cup {Len(code)}
  PROVE  \/ \E q \in Starts(code) \ dropped : q >= x /\ Place(code, dropped, q) = Place(code, dropped, x)
         \/ /\ Place(code, dropped, x) = Place(code, dropped, Len(code))
            /\ \A q \in Starts(code) \ dropped : q < x
<1> DEFINE n == Len(code)
           S == Starts(code)
           kept == S \ dropped
           m(i) == Place(code, dropped, i)
           F(p) == Following(code, p)
           Goal(y) == (\E q \in kept : q >= y /\ m(q) = m(y)) \/ (m(y) = m(n) /\ \A q \in kept : q < y)
           T == {k \in Nat : \A y \in S \cup {n} : n - y <= k => Goal(y)}
<1>1. /\ n \in Nat
      /\ \A p \in S : p \in Nat /\ F(p) \in Nat /\ p < F(p) /\ F(p) <= n /\ F(p) \in S \cup {n}
      /\ \A p, q \in S : p < q => F(p) <= q
  BY DEF Tiled
<1>2. \A p \in S : p \in dropped => m(F(p)) = m(p)
  BY PlaceIs
<1> HIDE DEF n, S, m, F
<1>3. \A y \in S \cup {n} : y \in Nat /\ y <= n BY <1>1
<1>4. Goal(n)
  BY <1>1
<1>5. 0 \in T
  <2>1. \A y \in S \cup {n} : n - y <= 0 => y = n BY <1>1, <1>3
  <2> QED BY <1>4, <2>1
<1>6. ASSUME NEW k \in T PROVE k + 1 \in T
  <2> SUFFICES ASSUME NEW y \in S \cup {n}, n - y <= k + 1 PROVE Goal(y)
    OBVIOUS
  <2>1. CASE y = n BY <1>4, <2>1
  <2>2. CASE y \in kept BY <1>3, <2>2
  <2>3. CASE y \in S /\ y \in dropped
    <3>1. F(y) \in S \cup {n} /\ F(y) \in Nat /\ y \in Nat /\ y < F(y) /\ m(F(y)) = m(y) BY <1>1, <1>2, <2>3
    <3>2. n - F(y) <= k BY <1>1, <3>1
    <3>3. Goal(F(y)) BY <3>1, <3>2
    <3>4. CASE \E q \in kept : q >= F(y) /\ m(q) = m(F(y))
      <4>1. PICK q \in kept : q >= F(y) /\ m(q) = m(F(y)) BY <3>4
      <4>2. q \in Nat /\ q >= y /\ m(q) = m(y) BY <1>1, <3>1, <4>1
      <4> QED BY <4>2
    <3>5. CASE m(F(y)) = m(n) /\ \A q \in kept : q < F(y)
      <4>1. ASSUME NEW q \in kept PROVE q < y
        <5>1. q < F(y) /\ q \in S /\ q \in Nat /\ q # y BY <1>1, <2>3, <3>5
        <5>2. ASSUME y < q PROVE FALSE
          <6>1. F(y) <= q BY <1>1, <2>3, <5>1, <5>2
          <6> QED BY <3>1, <5>1, <6>1
        <5> QED BY <3>1, <5>1, <5>2
      <4> QED BY <3>1, <3>5, <4>1
    <3> QED BY <3>3, <3>4, <3>5
  <2> QED BY <2>1, <2>2, <2>3
<1>7. T \subseteq Nat OBVIOUS
<1>8. \A k \in Nat : k \in T
  <2> HIDE DEF T
  <2> QED BY <1>5, <1>6, <1>7, EveryNumber
<1>9. x \in S \cup {n} BY DEF S, n
<1>10. n - x \in Nat BY <1>1, <1>3, <1>9
<1>11. Goal(x) BY <1>8, <1>9, <1>10
<1> QED BY <1>11 DEF n, S, m

LEMMA MappedIs ==
  ASSUME NEW code, Tiled(code), NEW dropped, NEW t \in Starts(code) \cup {Len(code)}
  PROVE  Cardinality(BytesOf(code, {pc \in Starts(code) \ dropped : pc + InstructionSize(code, pc) <= t}))
           = Place(code, dropped, t)
<1> DEFINE S == Starts(code)
           kept == S \ dropped
           early == {pc \in kept : pc + InstructionSize(code, pc) <= t}
           K == BytesOf(code, kept)
           E == BytesOf(code, early)
<1>1. /\ Len(code) \in Nat
      /\ \A p \in S : /\ p \in Nat /\ Following(code, p) \in Nat /\ p < Following(code, p)
                      /\ Following(code, p) <= Len(code) /\ Following(code, p) = p + InstructionSize(code, p)
      /\ \A p, q \in S : p < q => Following(code, p) <= q
  BY DEF Tiled
<1>2. t \in Nat /\ \A p \in S : p < t => Following(code, p) <= t
  BY <1>1
<1>3. \A p : p \in early <=> p \in kept /\ Following(code, p) <= t
  BY <1>1
<1>4. /\ kept \subseteq S /\ early \subseteq S /\ early \subseteq kept
  OBVIOUS
<1> HIDE DEF early
<1>5. /\ \A p \in kept : \A j \in p..Following(code, p)-1 : j \in K
      /\ \A j \in K : j \in Nat /\ \E p \in kept : p <= j /\ j < Following(code, p)
  <2> HIDE DEF kept
  <2> QED BY <1>4, KeptBytes
<1>6. /\ \A p \in early : \A j \in p..Following(code, p)-1 : j \in E
      /\ \A j \in E : j \in Nat /\ \E p \in early : p <= j /\ j < Following(code, p)
  BY <1>4, KeptBytes
<1> HIDE DEF K, E, kept
<1>7. ASSUME NEW j \in E PROVE j \in K /\ j < t
  <2>1. PICK p \in early : p <= j /\ j < Following(code, p) BY <1>6
  <2>2. p \in kept /\ p \in S /\ j \in Nat /\ Following(code, p) <= t BY <1>3, <1>4, <1>6
  <2>3. p \in Nat /\ Following(code, p) \in Nat BY <1>1, <2>2
  <2>4. j \in p..Following(code, p)-1 BY <2>1, <2>2, <2>3
  <2> QED BY <1>2, <1>5, <2>1, <2>2, <2>3, <2>4
<1>8. ASSUME NEW j \in K, j < t PROVE j \in E
  <2>1. PICK p \in kept : p <= j /\ j < Following(code, p) BY <1>5
  <2>2. p \in S /\ p \in Nat /\ Following(code, p) \in Nat /\ j \in Nat BY <1>1, <1>4, <1>5
  <2>3. p < t BY <1>2, <1>8, <2>1, <2>2
  <2>4. p \in early BY <1>2, <1>3, <2>2, <2>3
  <2>5. j \in p..Following(code, p)-1 BY <2>1, <2>2
  <2> QED BY <1>6, <2>4, <2>5
<1>9. E = {j \in K : j < t}
  BY <1>7, <1>8
<1> QED BY <1>9 DEF Place, Count, K, E, kept, early

\* What removing the instructions at dropped makes of code.
Removed(code, dropped, d) ==
  LET m(i) == Place(code, dropped, i)
      kept == Starts(code) \ dropped
  IN  /\ d \in Seq(Byte) /\ Len(d) = m(Len(code))
      /\ \A p \in kept : ByteAt(d, m(p)) = ByteAt(code, p)
      /\ \A p \in kept \ Jumps(code) : \A k \in 0..InstructionSize(code, p)-1 : ByteAt(d, m(p) + k) = ByteAt(code, p + k)
      /\ \A p \in kept \cap Jumps(code) : Target(d, m(p)) = m(Target(code, p))

\* The bytes of c that are code's and stay are found at their places.
CarriedOver(code, dropped, c, d) ==
  /\ d \in Seq(Byte) /\ Len(d) = Place(code, dropped, Len(code))
  /\ \A p \in Starts(code) \ dropped : \A k \in 0..InstructionSize(code, p)-1 :
       ByteAt(d, Place(code, dropped, p) + k) = ByteAt(c, p + k)

LEMMA SelectedBytes ==
  ASSUME NEW code, Tiled(code), NEW dropped, NEW c \in Seq(Byte), Len(c) = Len(code)
  PROVE  CarriedOver(code, dropped, c, Selected(c, BytesOf(code, Starts(code) \ dropped)))
<1> DEFINE kept == Starts(code) \ dropped
           K == BytesOf(code, kept)
           d == Selected(c, K)
<1>1. K \subseteq Nat /\ \A p \in kept : \A j \in p..Following(code, p)-1 : j \in K
  <2>1. kept \subseteq Starts(code) OBVIOUS
  <2> HIDE DEF kept
  <2> QED BY <2>1, KeptBytes
<1>2. /\ d \in Seq(Byte) /\ Len(d) = Count(K, Len(c))
      /\ \A i \in K : i < Len(c) => d[Count(K, i) + 1] = c[i + 1]
  <2>1. \A T \in SUBSET Nat :
          /\ Selected(c, T) \in Seq(Byte) /\ Len(Selected(c, T)) = Count(T, Len(c))
          /\ \A i \in T : i < Len(c) => Selected(c, T)[Count(T, i) + 1] = c[i + 1]
    BY SelectedIs
  <2>2. K \in SUBSET Nat BY <1>1
  <2> HIDE DEF K
  <2> QED BY <2>1, <2>2
<1>3. \A i : Place(code, dropped, i) = Count(K, i) BY DEF Place
<1> HIDE DEF K, d
<1>4. ASSUME NEW p \in kept, NEW k \in 0..InstructionSize(code, p)-1
      PROVE  ByteAt(d, Place(code, dropped, p) + k) = ByteAt(c, p + k)
  <2>1. /\ p \in Nat /\ Following(code, p) = p + InstructionSize(code, p) /\ Following(code, p) <= Len(code)
        /\ Len(code) \in Nat
    BY DEF Tiled
  <2>2. InstructionSize(code, p) \in 1..3 BY Sizes
  <2>3. p + k \in p..Following(code, p)-1 /\ p + k < Len(c) /\ k \in 0..InstructionSize(code, p) BY <2>1, <2>2
  <2>4. p + k \in K BY <1>1, <2>3
  <2>5. Place(code, dropped, p + k) = Place(code, dropped, p) + k BY <2>3, PlaceIs
  <2> QED BY <1>2, <1>3, <2>3, <2>4, <2>5 DEF ByteAt
<1> QED BY <1>2, <1>3, <1>4 DEF d, K, CarriedOver

LEMMA PlaceOfAll ==
  ASSUME NEW code, Tiled(code), NEW i \in 0..Len(code)
  PROVE  Place(code, {}, i) = i
<1> DEFINE S == Starts(code)
           K == BytesOf(code, S)
<1>1. K \subseteq Nat /\ \A p \in S : \A j \in p..Following(code, p)-1 : j \in K
  <2>1. S \subseteq Starts(code) OBVIOUS
  <2> HIDE DEF S
  <2> QED BY <2>1, KeptBytes
<1>2. \A j \in 0..i-1 : j \in K
  <2> SUFFICES ASSUME NEW j \in 0..i-1 PROVE j \in K
    OBVIOUS
  <2>1. Len(code) \in Nat BY DEF Tiled
  <2>2. j \in 0..Len(code)-1 /\ j \in Nat BY <2>1
  <2>3. PICK p \in S : p <= j /\ j < Following(code, p) BY <2>2 DEF Tiled
  <2>4. p \in Nat /\ Following(code, p) \in Nat BY DEF Tiled
  <2>5. j \in p..Following(code, p)-1 BY <2>2, <2>3, <2>4
  <2> QED BY <1>1, <2>5
<1>3. S \ {} = S OBVIOUS
<1>4. Place(code, {}, i) = Count(K, i) BY <1>3 DEF Place
<1> HIDE DEF K
<1>5. i \in Nat /\ 0 <= i /\ i - 0 = i BY DEF Tiled
<1>6. Count(K, i) = Count(K, 0) + (i - 0) BY <1>1, <1>2, <1>5, CountBetween
<1>7. Count(K, 0) = 0 BY <1>1, CountSteps
<1> QED BY <1>4, <1>5, <1>6, <1>7

LEMMA ForwardTiled ==
  ASSUME NEW code, Forward(code), code # << >>
  PROVE  Tiled(code)
BY DecodesTiled DEF Forward

\* Removing instructions moves the others to their places, and the targets with them.
LEMMA WithoutRemoves ==
  ASSUME NEW code, Forward(code), code # << >>, NEW dropped
  PROVE  Removed(code, dropped, Without(code, dropped))
<1> DEFINE S == Starts(code)
           kept == S \ dropped
           m(i) == Place(code, dropped, i)
           Mapped(t) == Cardinality(BytesOf(code, {pc \in kept : pc + InstructionSize(code, pc) <= t}))
           operands == [pc \in kept \cap Jumps(code) |-> Mapped(Target(code, pc))]
           c == Retargeted(code, operands)
           d == Selected(c, BytesOf(code, kept))
<1>1. Tiled(code) /\ code \in Seq(Byte) /\ Decodes(code)
  BY ForwardTiled DEF Forward
<1>2. CASE dropped = {}
  <2>1. Without(code, dropped) = code BY <1>2 DEF Without
  <2>2. \A i \in 0..Len(code) : m(i) = i BY <1>1, <1>2, PlaceOfAll
  <2>3. Len(code) \in Nat /\ Len(code) \in 0..Len(code) BY <1>1 DEF Tiled
  <2>4. \A p \in S : p \in 0..Len(code) /\ m(p) = p
    <3> TAKE p \in S
    <3>1. p \in Nat /\ p < Len(code) BY ForwardFacts
    <3>2. p \in 0..Len(code) BY <2>3, <3>1
    <3> QED BY <2>2, <3>2
  <2>5. \A p \in Jumps(code) : m(Target(code, p)) = Target(code, p) BY <2>4 DEF Forward
  <2> HIDE DEF m, S
  <2> QED BY <1>1, <2>1, <2>2, <2>3, <2>4, <2>5 DEF Removed, m, S
<1>3. CASE dropped # {}
  <2>1. Without(code, dropped) = d BY <1>3 DEF Without
  <2>2. \A p \in Jumps(code) : Mapped(Target(code, p)) = m(Target(code, p))
    <3> TAKE p \in Jumps(code)
    <3>1. Target(code, p) \in S \cup {Len(code)} BY DEF Forward
    <3> QED BY <1>1, <3>1, MappedIs
  <2> HIDE DEF Mapped
  <2>3. \A p \in Jumps(code) : m(Target(code, p)) \in U16
    <3> TAKE p \in Jumps(code)
    <3>1. Target(code, p) \in U16 BY ForwardFacts
    <3>2. Target(code, p) \in Nat /\ Target(code, p) <= UINT16_MAX /\ UINT16_MAX \in Nat BY <3>1, U16Nat, Limits
    <3>3. m(0) = 0 /\ m(Target(code, p)) \in Nat /\ m(Target(code, p)) <= m(0) + (Target(code, p) - 0)
      BY <1>1, <3>2, PlaceIs
    <3> HIDE DEF m
    <3> QED BY <3>2, <3>3, U16Nat
  <2>4. /\ DOMAIN operands = kept \cap Jumps(code)
        /\ \A p \in kept \cap Jumps(code) : operands[p] = m(Target(code, p)) /\ operands[p] \in U16 /\ p \in Long(code)
    <3>1. \A p \in Jumps(code) : p \in Long(code) BY ForwardFacts
    <3> HIDE DEF m, kept
    <3> QED BY <2>2, <2>3, <3>1
  <2> HIDE DEF operands
  <2>5. Rewritten(code, operands, c)
    <3>1. DOMAIN operands \subseteq Long(code) /\ \A p \in DOMAIN operands : operands[p] \in U16 BY <2>4
    <3> QED BY <1>1, <3>1, RetargetedIs
  <2> HIDE DEF c
  <2>6. c \in Seq(Byte) /\ Len(c) = Len(code) BY <2>5 DEF Rewritten
  <2>7. /\ d \in Seq(Byte) /\ Len(d) = m(Len(code))
        /\ \A p \in kept : \A k \in 0..InstructionSize(code, p)-1 : ByteAt(d, m(p) + k) = ByteAt(c, p + k)
    <3>1. CarriedOver(code, dropped, c, d) BY <1>1, <2>6, SelectedBytes
    <3> QED BY <3>1 DEF CarriedOver
  <2> HIDE DEF d
  <2>8. \A p \in kept : p \in Nat /\ InstructionSize(code, p) \in 1..3 /\ m(p) \in Nat
                        /\ Following(code, p) = p + InstructionSize(code, p)
    <3> TAKE p \in kept
    <3>1. p \in Nat /\ Following(code, p) = p + InstructionSize(code, p) BY <1>1 DEF Tiled
    <3>2. m(p) \in Nat BY <1>1, <3>1, PlaceIs
    <3> QED BY <3>1, <3>2, Sizes
  <2>9. ASSUME NEW p \in kept PROVE ByteAt(d, m(p)) = ByteAt(code, p)
    <3>1. 0 \in 0..InstructionSize(code, p)-1 /\ m(p) + 0 = m(p) /\ p + 0 = p
      <4> HIDE DEF m, kept
      <4> QED BY <2>8
    <3>2. ByteAt(d, m(p)) = ByteAt(c, p)
      <4>1. ByteAt(d, m(p) + 0) = ByteAt(c, p + 0) BY <2>7, <3>1
      <4> HIDE DEF m, kept
      <4> QED BY <3>1, <4>1
    <3> QED BY <2>5, <3>2 DEF Rewritten
  <2>10. ASSUME NEW p \in kept \ Jumps(code), NEW k \in 0..InstructionSize(code, p)-1
         PROVE  ByteAt(d, m(p) + k) = ByteAt(code, p + k)
    <3>1. p \in S \ DOMAIN operands BY <2>4
    <3>2. p + k \in p..Following(code, p)-1
      <4>1. p \in kept OBVIOUS
      <4> HIDE DEF kept
      <4> QED BY <2>8, <4>1
    <3>3. ByteAt(c, p + k) = ByteAt(code, p + k) BY <2>5, <3>1, <3>2 DEF Rewritten
    <3> QED BY <2>7, <3>3
  <2>11. ASSUME NEW p \in kept \cap Jumps(code) PROVE Target(d, m(p)) = m(Target(code, p))
    <3>1. InstructionSize(code, p) = 3 BY <2>4 DEF Long
    <3> DEFINE pp == m(p)
    <3>2. 1 \in 0..InstructionSize(code, p)-1 /\ 2 \in 0..InstructionSize(code, p)-1 BY <3>1
    <3>3. ByteAt(d, pp + 1) = ByteAt(c, p + 1) /\ ByteAt(d, pp + 2) = ByteAt(c, p + 2) BY <2>7, <3>2
    <3>4. pp \in Nat /\ p \in Nat BY <2>8
    <3> HIDE DEF pp
    <3>5. pp + 1 + 1 = pp + 2 /\ p + 1 + 1 = p + 2 BY <3>4
    <3>6. ReadU16(d, pp + 1) = ReadU16(c, p + 1) BY <3>3, <3>5 DEF ReadU16
    <3>7. ReadU16(c, p + 1) = operands[p] BY <2>4, <2>5 DEF Rewritten
    <3>8. operands[p] = m(Target(code, p)) BY <2>4
    <3> QED BY <3>6, <3>7, <3>8 DEF Target, pp
  <2> QED BY <2>1, <2>7, <2>9, <2>10, <2>11 DEF Removed
<1> QED BY <1>2, <1>3

\* The code that is left begins an instruction where each one that stays went, and leads
\* forward as before, if something stays at or after every target.
LEMMA RemovedForward ==
  ASSUME NEW c, Forward(c), c # << >>, NEW dropped, NEW d, Removed(c, dropped, d),
         Starts(c) \ dropped # {},
         \A p \in Jumps(c) \ dropped : \E q \in Starts(c) \ dropped : q >= Target(c, p)
  PROVE  /\ d # << >> /\ Forward(d)
         /\ Starts(d) = {Place(c, dropped, p) : p \in Starts(c) \ dropped}
         /\ \A p \in Starts(c) \ dropped : /\ ByteAt(d, Place(c, dropped, p)) = ByteAt(c, p)
                                           /\ InstructionSize(d, Place(c, dropped, p)) = InstructionSize(c, p)
                                           /\ Following(d, Place(c, dropped, p)) = Place(c, dropped, Following(c, p))
                                           /\ Place(c, dropped, p) \in Jumps(d) <=> p \in Jumps(c)
<1> DEFINE S == Starts(c)
           kept == S \ dropped
           m(i) == Place(c, dropped, i)
           n == Len(c)
           P == {m(p) : p \in kept}
<1>1. Tiled(c) BY ForwardTiled
<1>2. /\ n \in Nat
      /\ \A p \in S : /\ p \in Nat /\ Following(c, p) \in Nat /\ p < Following(c, p) /\ Following(c, p) <= n
                      /\ Following(c, p) = p + InstructionSize(c, p)
                      /\ Following(c, p) \in S \cup {n}
      /\ \A p, q \in S : p < q => Following(c, p) <= q
  BY <1>1 DEF Tiled
<1>3. /\ m(0) = 0
      /\ \A i \in Nat : m(i) \in Nat
      /\ \A i, k \in Nat : i <= k => m(i) <= m(k)
      /\ \A p \in kept : \A k \in 0..InstructionSize(c, p) : m(p + k) = m(p) + k
      /\ \A p \in kept : \A k \in Nat : p < k => m(p) < m(k)
  BY <1>1, PlaceIs
<1>4. ASSUME NEW x \in S \cup {n}
      PROVE  \/ \E q \in kept : q >= x /\ m(q) = m(x)
             \/ m(x) = m(n) /\ \A q \in kept : q < x
  BY <1>1, NextKept
<1>5. /\ d \in Seq(Byte) /\ Len(d) = m(n)
      /\ \A p \in kept : ByteAt(d, m(p)) = ByteAt(c, p)
      /\ \A p \in kept \cap Jumps(c) : Target(d, m(p)) = m(Target(c, p))
  BY DEF Removed
<1>6. /\ \A p \in S : Decodable(c, p)
      /\ \A p \in Jumps(c) : p \in S /\ Target(c, p) > p /\ Target(c, p) \in S
      /\ kept # {} /\ \A p \in Jumps(c) \ dropped : \E q \in kept : q >= Target(c, p)
  BY DEF Forward, Decodes, Jumps
<1>7. \A p \in kept : InstructionSize(c, p) \in 1..3
  BY Sizes
<1> HIDE DEF m, n, S
<1>8. ASSUME NEW p \in kept
      PROVE  /\ InstructionSize(d, m(p)) = InstructionSize(c, p)
             /\ Following(d, m(p)) = m(Following(c, p))
             /\ m(p) < m(Following(c, p)) /\ m(Following(c, p)) <= Len(d)
             /\ m(p) \in Nat /\ m(Following(c, p)) \in Nat
             /\ Decodable(d, m(p))
  <2>1. p \in S OBVIOUS
  <2>2. InstructionSize(d, m(p)) = InstructionSize(c, p) BY <1>5 DEF InstructionSize
  <2>3. m(p + InstructionSize(c, p)) = m(p) + InstructionSize(c, p)
    <3>1. InstructionSize(c, p) \in 0..InstructionSize(c, p) BY <1>7
    <3> QED BY <1>3, <3>1
  <2>4. Following(c, p) = p + InstructionSize(c, p) /\ p < Following(c, p) /\ Following(c, p) <= n
        /\ p \in Nat /\ Following(c, p) \in Nat
    BY <1>2, <2>1
  <2>5. Following(d, m(p)) = m(Following(c, p))
    <3>1. Following(d, m(p)) = m(p) + InstructionSize(c, p) BY <2>2 DEF Following
    <3> QED BY <2>3, <2>4, <3>1
  <2>6. m(Following(c, p)) <= m(n) /\ m(p) < m(Following(c, p)) /\ m(p) \in Nat /\ m(Following(c, p)) \in Nat
    BY <1>2, <1>3, <2>4
  <2>7. ByteAt(d, m(p)) \in Opcode BY <1>5, <1>6, <2>1 DEF Decodable
  <2>8. m(p) < Len(d) /\ m(n) \in Nat BY <1>2, <1>3, <1>5, <2>6
  <2>9. m(p) + EncodedSize(ByteAt(d, m(p))) <= Len(d)
    <3>1. m(p) + InstructionSize(d, m(p)) <= Len(d) BY <1>5, <2>2, <2>3, <2>4, <2>6
    <3> QED BY <3>1 DEF InstructionSize
  <2>10. Decodable(d, m(p)) BY <2>7, <2>8, <2>9 DEF Decodable
  <2> QED BY <1>5, <2>2, <2>5, <2>6, <2>10
<1>9. 0 \in P
  <2>1. 0 \in S BY <1>1 DEF Tiled, S
  <2>2. PICK q \in kept : TRUE BY <1>6
  <2>3. ~ (q < 0) BY <1>2
  <2>4. PICK r \in kept : m(r) = m(0) BY <1>4, <2>1, <2>3
  <2> QED BY <1>3, <2>4
<1>10. d # << >>
  <2>1. PICK q \in kept : TRUE BY <1>6
  <2>2. m(q) < Len(d) /\ m(q) \in Nat BY <1>2, <1>3, <1>5, <1>8, <2>1
  <2>3. Len(d) # 0 BY <2>2
  <2> QED BY <1>5, <2>3, EmptySeq
<1>11. Starts(d) \subseteq P
  <2>1. \A T : 0 \in T /\ (\A pc \in T \cap (0..Len(d)-1) : Goes(d, pc) => Following(d, pc) \in T) => Starts(d) \subseteq T
    BY <1>5, <1>10, StartsClosed
  <2>2. ASSUME NEW p \in kept, Goes(d, m(p)) PROVE Following(d, m(p)) \in P
    <3>1. m(Following(c, p)) < m(n) BY <1>5, <1>8, <2>2 DEF Goes
    <3>2. Following(c, p) \in S \cup {n} /\ m(Following(c, p)) \in Nat BY <1>2, <1>8
    <3>3. m(Following(c, p)) # m(n) BY <3>1, <3>2
    <3>4. PICK q \in kept : m(q) = m(Following(c, p)) BY <1>4, <3>2, <3>3
    <3>5. Following(d, m(p)) = m(q) BY <1>8, <3>4
    <3> QED BY <3>5
  <2>3. \A pc \in P \cap (0..Len(d)-1) : Goes(d, pc) => Following(d, pc) \in P BY <2>2
  <2> HIDE DEF P
  <2> QED BY <1>9, <2>1, <2>3
<1>12. Decodes(d)
  BY <1>8, <1>11 DEF Decodes
<1>13. Tiled(d)
  BY <1>5, <1>10, <1>12, DecodesTiled
<1>14. ASSUME NEW p \in kept PROVE m(p) \in Starts(d)
  <2>1. m(p) \in Nat /\ m(p) < Len(d) /\ Len(d) \in Nat BY <1>2, <1>3, <1>5, <1>8
  <2>2. m(p) \in 0..Len(d)-1 BY <2>1
  <2>3. PICK s \in Starts(d) : s <= m(p) /\ m(p) < Following(d, s) BY <1>13, <2>2 DEF Tiled
  <2>4. PICK q \in kept : s = m(q) BY <1>11
  <2>5. m(q) <= m(p) /\ m(p) < m(Following(c, q)) BY <1>8, <2>3, <2>4
  <2>6. p \in Nat /\ q \in Nat /\ p \in S /\ q \in S /\ m(q) \in Nat /\ m(Following(c, q)) \in Nat /\ Following(c, q) \in Nat
    BY <1>2, <1>8
  <2>7. CASE p < q
    <3>1. m(p) < m(q) BY <1>3, <2>6, <2>7
    <3> QED BY <2>1, <2>5, <2>6, <3>1
  <2>8. CASE q < p
    <3>1. Following(c, q) <= p BY <1>2, <2>6, <2>8
    <3>2. m(Following(c, q)) <= m(p) BY <1>3, <2>6, <3>1
    <3> QED BY <2>1, <2>5, <2>6, <3>2
  <2>9. CASE p = q BY <2>3, <2>4, <2>9
  <2> QED BY <2>6, <2>7, <2>8, <2>9
<1>15. Starts(d) = P
  BY <1>11, <1>14
<1>16. \A p \in kept : m(p) \in Jumps(d) <=> p \in Jumps(c)
  BY <1>5, <1>14 DEF Jumps, S
<1>17. Forward(d)
  <2>1. ASSUME NEW s \in Jumps(d) PROVE Target(d, s) > s /\ Target(d, s) \in Starts(d)
    <3>1. PICK p \in kept : s = m(p)
      <4>1. s \in Starts(d) BY DEF Jumps
      <4> QED BY <1>11, <4>1
    <3> DEFINE t == Target(c, p)
    <3>2. p \in Jumps(c) BY <1>16, <3>1
    <3>3. t > p /\ t \in S /\ Target(d, s) = m(t) BY <1>5, <1>6, <3>1, <3>2
    <3>4. PICK r \in kept : r >= t BY <1>6, <3>2
    <3> HIDE DEF t
    <3>5. t \in Nat /\ r \in Nat /\ p \in Nat BY <1>2, <3>3
    <3>6. PICK q \in kept : m(q) = m(t) BY <1>4, <3>3, <3>4, <3>5
    <3>7. m(p) < m(t) BY <1>3, <3>3, <3>5
    <3>8. m(p) \in Nat /\ m(t) \in Nat BY <1>3, <3>5
    <3> QED BY <1>14, <3>1, <3>3, <3>6, <3>7, <3>8
  <2> QED BY <1>5, <1>12, <2>1 DEF Forward
<1> QED BY <1>5, <1>8, <1>10, <1>15, <1>16, <1>17 DEF S, m

-----------------------------------------------------------------------------
(* What is reached *)

LEMMA ForwardSuccessors ==
  ASSUME NEW c, Forward(c), NEW p \in Starts(c)
  PROVE  Successors(c, p) \subseteq Starts(c)
<1>1. Decodable(c, p) /\ c # << >> BY DEF Forward, Decodes, Starts
<1>2. ByteAt(c, p) \in JumpOp => Target(c, p) \in Starts(c)
  BY DEF Forward, Jumps
<1>3. p + InstructionSize(c, p) < Len(c) => p + InstructionSize(c, p) \in Starts(c)
  <2>1. Tiled(c) BY <1>1, ForwardTiled
  <2>2. Following(c, p) = p + InstructionSize(c, p) /\ Following(c, p) \in Starts(c) \cup {Len(c)} /\ Len(c) \in Nat
    BY <2>1 DEF Tiled
  <2> QED BY <2>2
<1> QED BY <1>2, <1>3 DEF Successors

\* Closed under where the instructions of c lead.
ClosedUnder(c, T) == \A p \in T \cap Starts(c) : Successors(c, p) \subseteq T

LEMMA ReachedIs ==
  ASSUME NEW c, Forward(c), c # << >>
  PROVE  /\ Reached(c) \subseteq Starts(c) /\ 0 \in Reached(c) /\ ClosedUnder(c, Reached(c))
         /\ \A T : 0 \in T /\ ClosedUnder(c, T) => Reached(c) \subseteq T
<1> DEFINE S == Starts(c)
           n == Cardinality(S)
           V == [met : SUBSET S, last : SUBSET S]
           far(v) == (UNION {Successors(c, pc) : pc \in {p \in v.last : Decodable(c, p)}}) \ v.met
           base == [met |-> {0}, last |-> {0}]
           step == [k \in 0..n |-> [v \in V |-> [met |-> v.met \cup far(v), last |-> far(v)]]]
           Reach(f) == f = [k \in 0..Cardinality(Starts(c)) |->
                              IF k = 0 THEN [met |-> {0}, last |-> {0}]
                              ELSE LET nearer == f[k - 1]
                                       farther == (UNION {Successors(c, pc) : pc \in {p \in nearer.last : Decodable(c, p)}})
                                                    \ nearer.met
                                   IN  [met |-> nearer.met \cup farther, last |-> farther]]
<1>1. Tiled(c) /\ 0 \in S
  BY ForwardTiled DEF Tiled
<1>2. IsFiniteSet(S) /\ n \in Nat
  <2>1. S \subseteq Nat /\ \A p \in S : p < Len(c) BY ForwardFacts
  <2>2. Len(c) \in Nat BY ForwardFacts
  <2>3. IsFiniteSet(0..Len(c)) BY <2>2, FS_Interval
  <2>4. S \in SUBSET (0..Len(c))
    <3>1. \A p \in S : p \in Nat /\ p < Len(c) BY <2>1
    <3>2. \A p \in S : p \in 0..Len(c) BY <2>2, <3>1
    <3> QED BY <3>2
  <2> HIDE DEF S
  <2>5. IsFiniteSet(S) BY <2>3, <2>4, FS_Subset
  <2> QED BY <2>5, FS_CardinalityType
<1>3. \A p \in S : Decodable(c, p) /\ Successors(c, p) \subseteq S
  BY ForwardSuccessors DEF Forward, Decodes
<1>4. \A v \in V : \A x : x \in far(v) <=> x \notin v.met /\ \E p \in v.last : x \in Successors(c, p)
  <2> SUFFICES ASSUME NEW v \in V, NEW x PROVE x \in far(v) <=> x \notin v.met /\ \E p \in v.last : x \in Successors(c, p)
    OBVIOUS
  <2>1. v.last \subseteq S OBVIOUS
  <2> QED BY <1>3, <2>1
<1>5. \A v \in V : far(v) \subseteq S
  <2> SUFFICES ASSUME NEW v \in V, NEW x \in far(v) PROVE x \in S
    OBVIOUS
  <2>1. PICK p \in v.last : x \in Successors(c, p) OBVIOUS
  <2>2. p \in S OBVIOUS
  <2> QED BY <1>3, <2>1, <2>2
<1>6. \A k \in 0..n-1, v \in V : step[k][v] = [met |-> v.met \cup far(v), last |-> far(v)] /\ step[k][v] \in V
  <2> SUFFICES ASSUME NEW k \in 0..n-1, NEW v \in V
               PROVE  step[k][v] = [met |-> v.met \cup far(v), last |-> far(v)] /\ step[k][v] \in V
    OBVIOUS
  <2>1. far(v) \in SUBSET S /\ v.met \in SUBSET S BY <1>5
  <2>2. k \in 0..n BY <1>2
  <2> HIDE DEF far
  <2> QED BY <2>1, <2>2
<1>7. base \in V
  BY <1>1
<1> HIDE DEF step, far, base, V, n
<1>8. ASSUME NEW f, Iterates(n, base, step, f) PROVE Reach(f)
  <2>1. \A k \in 0..n-1 : \A v \in V : step[k][v] \in V BY <1>6
  <2>2. \A k \in 0..n : f[k] \in V BY <1>2, <1>7, <1>8, <2>1, IterationIn
  <2>3. f = [k \in 0..n |-> IF k = 0 THEN base ELSE step[k - 1][f[k - 1]]] BY <1>8 DEF Iterates
  <2>4. \A k \in 0..n : k # 0 => k - 1 \in 0..n-1 /\ k - 1 \in 0..n BY <1>2
  <2>5. \A k \in 0..n : k # 0 =>
          step[k - 1][f[k - 1]] = [met |-> f[k - 1].met \cup far(f[k - 1]), last |-> far(f[k - 1])]
    BY <1>6, <2>2, <2>4
  <2>6. f = [k \in 0..n |-> IF k = 0 THEN base ELSE [met |-> f[k - 1].met \cup far(f[k - 1]), last |-> far(f[k - 1])]]
    BY <2>3, <2>5
  <2> QED BY <2>6 DEF n, far, base
<1>9. \E f : Reach(f)
  <2>1. \E f : Iterates(n, base, step, f) BY <1>2, IterationExists
  <2> HIDE DEF Reach
  <2> QED BY <1>8, <2>1
<1>10. PICK reach : reach = CHOOSE f : Reach(f)
  OBVIOUS
<1>11. Reach(reach)
  <2> HIDE DEF Reach
  <2> QED BY <1>9, <1>10, Zenon
<1>12. Reached(c) = reach[n].met
  BY <1>10 DEF Reached, n
<1>13. reach = [k \in 0..n |-> IF k = 0 THEN base
                               ELSE [met |-> reach[k - 1].met \cup far(reach[k - 1]), last |-> far(reach[k - 1])]]
  BY <1>11 DEF n, far, base
<1>14. /\ reach[0] = base
       /\ \A k \in 0..n-1 : reach[k + 1] = [met |-> reach[k].met \cup far(reach[k]), last |-> far(reach[k])]
  <2>1. 0 \in 0..n BY <1>2
  <2>2. \A k \in 0..n : k # 0 =>
          reach[k] = [met |-> reach[k - 1].met \cup far(reach[k - 1]), last |-> far(reach[k - 1])]
    BY <1>13
  <2>3. \A k \in 0..n-1 : k + 1 \in 0..n /\ k + 1 # 0 /\ k + 1 - 1 = k BY <1>2
  <2>4. reach[0] = base BY <1>13, <2>1
  <2> QED BY <2>2, <2>3, <2>4
<1> HIDE DEF Reach
<1> DEFINE Fine(k) == LET v == reach[k] IN
                      /\ v \in V /\ v.last \subseteq v.met /\ 0 \in v.met
                      /\ \A p \in v.met \ v.last : Successors(c, p) \subseteq v.met
                      /\ v.last = {} \/ Cardinality(v.met) >= k + 1
                      /\ \A T : 0 \in T /\ ClosedUnder(c, T) => v.met \subseteq T
           K == {k \in Nat : k <= n => Fine(k)}
<1>15. 0 \in K
  <2>1. Cardinality({0}) = 1 BY FS_Singleton
  <2>2. base.met = {0} /\ base.last = {0} BY DEF base
  <2>3. Cardinality(base.met) >= 0 + 1 BY <2>1, <2>2
  <2>4. /\ base \in V /\ base.last \subseteq base.met /\ 0 \in base.met
        /\ \A p \in base.met \ base.last : Successors(c, p) \subseteq base.met
        /\ \A T : 0 \in T /\ ClosedUnder(c, T) => base.met \subseteq T
    BY <1>7, <2>2
  <2>5. Fine(0) BY <1>14, <2>3, <2>4
  <2> QED BY <2>5
<1>16. ASSUME NEW k \in K PROVE k + 1 \in K
  <2> SUFFICES ASSUME k + 1 <= n PROVE Fine(k + 1)
    OBVIOUS
  <2> DEFINE v == reach[k]
             w == reach[k + 1]
             F == far(v)
  <2>1. k \in 0..n-1 /\ k \in Nat /\ k <= n BY <1>2
  <2>2. Fine(k) BY <2>1
  <2>3. v \in V /\ v.last \subseteq v.met /\ 0 \in v.met /\ v.met \subseteq S /\ v.last \subseteq S
    BY <2>2 DEF V
  <2>4. w = [met |-> v.met \cup F, last |-> F] BY <1>14, <2>1
  <2>5. w.met = v.met \cup F /\ w.last = F BY <2>4
  <2>6. w \in V BY <1>6, <2>1, <2>3, <2>4
  <2>7. \A x : x \in F <=> x \notin v.met /\ \E p \in v.last : x \in Successors(c, p) BY <1>4, <2>3
  <2>8. \A p \in v.met \ v.last : Successors(c, p) \subseteq v.met BY <2>2
  <2>9. \A T : 0 \in T /\ ClosedUnder(c, T) => v.met \subseteq T BY <2>2
  <2>10. v.last = {} \/ Cardinality(v.met) >= k + 1 BY <2>2
  <2> HIDE DEF v, w, F
  <2>11. \A p \in w.met \ w.last : Successors(c, p) \subseteq w.met
    BY <2>5, <2>7, <2>8
  <2>12. ASSUME NEW T, 0 \in T, ClosedUnder(c, T) PROVE w.met \subseteq T
    <3>1. v.met \subseteq T BY <2>9, <2>12
    <3>2. \A p \in v.last : Successors(c, p) \subseteq T BY <2>3, <2>12, <3>1 DEF ClosedUnder
    <3> QED BY <2>5, <2>7, <3>1, <3>2
  <2>13. w.last = {} \/ Cardinality(w.met) >= (k + 1) + 1
    <3> SUFFICES ASSUME w.last # {} PROVE Cardinality(w.met) >= (k + 1) + 1
      OBVIOUS
    <3>1. v.last # {} BY <2>5, <2>7
    <3>2. v.met \subseteq w.met /\ v.met # w.met BY <2>5, <2>7
    <3>3. w.met \in SUBSET S BY <2>6 DEF V
    <3>4. IsFiniteSet(w.met)
      <4> HIDE DEF S
      <4> QED BY <1>2, <3>3, FS_Subset
    <3>5. IsFiniteSet(v.met) /\ Cardinality(v.met) <= Cardinality(w.met) /\ Cardinality(v.met) # Cardinality(w.met)
      <4>1. v.met \in SUBSET w.met BY <3>2
      <4> QED BY <3>2, <3>4, <4>1, FS_Subset
    <3>6. Cardinality(w.met) \in Nat /\ Cardinality(v.met) \in Nat BY <3>4, <3>5, FS_CardinalityType
    <3> QED BY <2>1, <2>10, <3>1, <3>5, <3>6
  <2> QED BY <2>3, <2>5, <2>6, <2>11, <2>12, <2>13 DEF w
<1>17. K \subseteq Nat OBVIOUS
<1>18. \A k \in Nat : k \in K
  <2> HIDE DEF K
  <2> QED BY <1>15, <1>16, <1>17, EveryNumber
<1>19. Fine(n) BY <1>2, <1>18
<1> DEFINE v == reach[n]
<1>20. v.last = {}
  <2>1. v.met \in SUBSET S BY <1>19 DEF V
  <2>2. Cardinality(v.met) <= n /\ Cardinality(v.met) \in Nat
    <3> HIDE DEF S, v
    <3>1. IsFiniteSet(v.met) /\ Cardinality(v.met) <= Cardinality(S) BY <1>2, <2>1, FS_Subset
    <3> QED BY <3>1, FS_CardinalityType DEF n
  <2> QED BY <1>2, <1>19, <2>2
<1>21. v.met \subseteq S /\ 0 \in v.met /\ \A p \in v.met : Successors(c, p) \subseteq v.met
  BY <1>19, <1>20 DEF V
<1>22. \A T : 0 \in T /\ ClosedUnder(c, T) => v.met \subseteq T
  BY <1>19
<1> QED BY <1>12, <1>21, <1>22 DEF ClosedUnder

-----------------------------------------------------------------------------
(* Removing what is not reached, and jumps to the next instruction *)

\* Something stays at or after every target that stays.
Sound(c, dropped) ==
  /\ Starts(c) \ dropped # {}
  /\ \A p \in Jumps(c) \ dropped : \E q \in Starts(c) \ dropped : q >= Target(c, p)

\* What Without makes of c, in one: where everything is, and that it is forward.
Squeezed(c, dropped, d) ==
  /\ Removed(c, dropped, d) /\ d # << >> /\ Forward(d)
  /\ Starts(d) = {Place(c, dropped, p) : p \in Starts(c) \ dropped}
  /\ \A p \in Starts(c) \ dropped : /\ ByteAt(d, Place(c, dropped, p)) = ByteAt(c, p)
                                    /\ InstructionSize(d, Place(c, dropped, p)) = InstructionSize(c, p)
                                    /\ Following(d, Place(c, dropped, p)) = Place(c, dropped, Following(c, p))
                                    /\ Place(c, dropped, p) \in Jumps(d) <=> p \in Jumps(c)
  /\ \A p \in Jumps(c) \ dropped : Target(d, Place(c, dropped, p)) = Place(c, dropped, Target(c, p))

LEMMA WithoutSqueezes ==
  ASSUME NEW c, Forward(c), c # << >>, NEW dropped, Sound(c, dropped)
  PROVE  Squeezed(c, dropped, Without(c, dropped))
<1> DEFINE d == Without(c, dropped)
<1>1. Removed(c, dropped, d) BY WithoutRemoves
<1> HIDE DEF d
<1>2. /\ Starts(c) \ dropped # {}
      /\ \A p \in Jumps(c) \ dropped : \E q \in Starts(c) \ dropped : q >= Target(c, p)
  BY DEF Sound
<1>3. /\ d # << >> /\ Forward(d)
      /\ Starts(d) = {Place(c, dropped, p) : p \in Starts(c) \ dropped}
      /\ \A p \in Starts(c) \ dropped : /\ ByteAt(d, Place(c, dropped, p)) = ByteAt(c, p)
                                        /\ InstructionSize(d, Place(c, dropped, p)) = InstructionSize(c, p)
                                        /\ Following(d, Place(c, dropped, p)) = Place(c, dropped, Following(c, p))
                                        /\ Place(c, dropped, p) \in Jumps(d) <=> p \in Jumps(c)
  BY <1>1, <1>2, RemovedForward
<1>4. \A p \in Jumps(c) \ dropped : Target(d, Place(c, dropped, p)) = Place(c, dropped, Target(c, p))
  <2>1. \A p \in Jumps(c) \ dropped : p \in (Starts(c) \ dropped) \cap Jumps(c) BY DEF Jumps
  <2> QED BY <1>1, <2>1 DEF Removed
<1> QED BY <1>1, <1>3, <1>4 DEF Squeezed, d

\* Where an instruction leads is where the instruction at its place leads.
LEMMA SqueezedSuccessors ==
  ASSUME NEW c, Forward(c), c # << >>, NEW dropped, NEW d, Squeezed(c, dropped, d),
         NEW p \in Starts(c) \ dropped, NEW s \in Successors(c, p), Place(c, dropped, s) < Len(d)
  PROVE  Place(c, dropped, s) \in Successors(d, Place(c, dropped, p))
<1> DEFINE m(i) == Place(c, dropped, i)
           op == ByteAt(c, p)
<1>1. /\ ByteAt(d, m(p)) = op
      /\ m(p) + InstructionSize(d, m(p)) = m(Following(c, p))
  BY DEF Squeezed, Following
<1>2. CASE op \in JumpOp /\ s = Target(c, p)
  <2>1. p \in Jumps(c) \ dropped BY <1>2 DEF Jumps
  <2>2. Target(d, m(p)) = m(s) BY <1>2, <2>1 DEF Squeezed
  <2> QED BY <1>1, <1>2, <2>2 DEF Successors
<1>3. CASE op \notin {JUMP, HALT} /\ s = p + InstructionSize(c, p)
  <2>1. m(p) + InstructionSize(d, m(p)) = m(s) BY <1>1, <1>3 DEF Following
  <2> QED BY <1>1, <1>3, <2>1 DEF Successors
<1> QED BY <1>2, <1>3 DEF Successors

LEMMA SqueezedPushes ==
  ASSUME NEW c, Forward(c), c # << >>, NEW dropped, NEW d, Squeezed(c, dropped, d)
  PROVE  PushedBy(d) \subseteq PushedBy(c)
<1> SUFFICES ASSUME NEW s \in Starts(d), ByteAt(d, s) = PUSH_CONST_F32
             PROVE  ReadU16(d, s + 1) \in PushedBy(c)
  BY DEF PushedBy
<1>1. PICK p \in Starts(c) \ dropped : s = Place(c, dropped, p)
  BY DEF Squeezed
<1>2. ByteAt(c, p) = PUSH_CONST_F32 BY <1>1 DEF Squeezed
<1>3. p \in Long(c) /\ p \notin Jumps(c)
  <2>1. p \in Long(c) BY <1>2, LongOps
  <2> QED BY <1>2, <2>1 DEF Jumps, JumpOp, PUSH_CONST_F32, JUMP, JUMP_IF_FALSE
<1>4. p \in Nat /\ InstructionSize(c, p) = 3 /\ s \in Nat
  <2>1. Tiled(c) /\ p \in Nat BY ForwardTiled DEF Tiled
  <2> QED BY <1>1, <1>3, <2>1, PlaceIs DEF Long
<1>5. /\ \A k \in 0..3-1 : ByteAt(d, s + k) = ByteAt(c, p + k)
      /\ s + 1 + 1 = s + 2 /\ p + 1 + 1 = p + 2
  BY <1>1, <1>3, <1>4 DEF Squeezed, Removed
<1>6. ReadU16(d, s + 1) = ReadU16(c, p + 1)
  <2>1. 1 \in 0..3-1 /\ 2 \in 0..3-1 OBVIOUS
  <2> QED BY <1>5, <2>1 DEF ReadU16
<1> QED BY <1>2, <1>6 DEF PushedBy

NoHops(c) == \A p \in Jumps(c) : ByteAt(c, Target(c, p)) # JUMP

\* The jumps that are reached lead to what is reached, so what is not can be removed.
LEMMA UnreachableSound ==
  ASSUME NEW c, Forward(c), c # << >>
  PROVE  Sound(c, Starts(c) \ Reached(c))
<1> DEFINE S == Starts(c)
           R == Reached(c)
           dropped == S \ R
<1>1. R \subseteq S /\ 0 \in R /\ \A p \in R : Successors(c, p) \subseteq R
  BY ReachedIs DEF ClosedUnder
<1>2. S \ dropped = R BY <1>1
<1>3. \A p \in Jumps(c) \ dropped : Target(c, p) \in R /\ Target(c, p) \in Nat
  <2> TAKE p \in Jumps(c) \ dropped
  <2>1. p \in R /\ ByteAt(c, p) \in JumpOp BY DEF Jumps
  <2>2. Target(c, p) \in Successors(c, p) BY <2>1 DEF Successors
  <2>3. \A q \in S : q \in Nat BY ForwardTiled DEF Tiled
  <2> QED BY <1>1, <2>1, <2>2, <2>3
<1>4. \A p \in Jumps(c) \ dropped : Target(c, p) >= Target(c, p) BY <1>3
<1>5. Sound(c, dropped)
  <2> HIDE DEF R, S, dropped
  <2> QED BY <1>1, <1>2, <1>3, <1>4 DEF Sound, S
<1> QED BY <1>5

\* What is not reached can be removed, and then everything is reached.
LEMMA UnreachableIs ==
  ASSUME NEW c, Forward(c)
  PROVE  LET d == RemoveUnreachable(c) IN
         /\ UnreachableFault(c) = "none"
         /\ Forward(d) /\ PushedBy(d) \subseteq PushedBy(c) /\ Starts(d) = Reached(d)
         /\ NoHops(c) => NoHops(d)
<1>1. CASE c = << >>
  <2>1. Starts(c) = {} /\ Reached(c) = {} BY <1>1 DEF Starts, Reached
  <2>2. RemoveUnreachable(c) = c BY <2>1 DEF RemoveUnreachable, Without
  <2>3. UnreachableFault(c) = "none" BY <2>1 DEF UnreachableFault, Forward
  <2> QED BY <2>1, <2>2, <2>3
<1>2. CASE c # << >>
  <2> DEFINE S == Starts(c)
             R == Reached(c)
             dropped == S \ R
             m(i) == Place(c, dropped, i)
             d == RemoveUnreachable(c)
  <2>1. /\ R \subseteq S /\ 0 \in R /\ \A p \in R : Successors(c, p) \subseteq R
        /\ \A T : 0 \in T /\ ClosedUnder(c, T) => R \subseteq T
    BY <1>2, ReachedIs DEF ClosedUnder
  <2>2. UnreachableFault(c) = "none" BY <2>1 DEF UnreachableFault, Forward
  <2>3. S \ dropped = R BY <2>1
  <2>4. Tiled(c) BY <1>2, ForwardTiled
  <2>5. \A p \in Jumps(c) \ dropped : Target(c, p) \in R /\ Target(c, p) \in Nat
    <3> TAKE p \in Jumps(c) \ dropped
    <3>1. p \in R /\ ByteAt(c, p) \in JumpOp BY DEF Jumps
    <3>2. Target(c, p) \in Successors(c, p) BY <3>1 DEF Successors
    <3>3. \A q \in S : q \in Nat BY <2>4 DEF Tiled
    <3> QED BY <2>1, <3>1, <3>2, <3>3
  <2>6. Sound(c, dropped) BY <1>2, UnreachableSound
  <2>7. d = Without(c, dropped) BY DEF RemoveUnreachable
  <2> HIDE DEF d
  <2>8. Squeezed(c, dropped, d)
    <3> HIDE DEF dropped
    <3> QED BY <1>2, <2>6, <2>7, WithoutSqueezes
  <2>9. Forward(d) /\ d # << >> /\ PushedBy(d) \subseteq PushedBy(c)
    <3> HIDE DEF dropped
    <3> QED BY <1>2, <2>8, SqueezedPushes DEF Squeezed
  <2>10. ASSUME NEW p \in R
         PROVE  m(p) \in Starts(d) /\ m(p) < Len(d) /\ ByteAt(d, m(p)) = ByteAt(c, p)
                /\ (m(p) \in Jumps(d) <=> p \in Jumps(c)) /\ (p \in Jumps(c) => Target(d, m(p)) = m(Target(c, p)))
    <3>1. p \in S \ dropped BY <2>3
    <3>2. m(p) \in Starts(d) BY <2>8, <3>1 DEF Squeezed
    <3>3. m(p) < Len(d) BY <2>9, <3>2, ForwardFacts
    <3>4. ByteAt(d, m(p)) = ByteAt(c, p) /\ (m(p) \in Jumps(d) <=> p \in Jumps(c)) BY <2>8, <3>1 DEF Squeezed
    <3>5. p \in Jumps(c) => Target(d, m(p)) = m(Target(c, p)) BY <2>8, <3>1 DEF Squeezed
    <3> QED BY <3>2, <3>3, <3>4, <3>5
  <2>11. \A s \in Starts(d) : \E p \in R : s = m(p)
    BY <2>3, <2>8 DEF Squeezed
  <2>12. ASSUME NEW p \in R, NEW s \in Successors(c, p) PROVE m(s) \in Successors(d, m(p))
    <3>1. s \in R /\ p \in S \ dropped BY <2>1, <2>3
    <3>2. m(s) < Len(d) BY <2>10, <3>1
    <3> HIDE DEF dropped, S, R
    <3> QED BY <1>2, <2>8, <3>1, <3>2, SqueezedSuccessors DEF S
  <2> HIDE DEF dropped, S
  <2>13. Reached(d) \subseteq Starts(d) /\ 0 \in Reached(d) /\ \A p \in Reached(d) : Successors(d, p) \subseteq Reached(d)
    BY <2>9, ReachedIs DEF ClosedUnder
  <2>14. Starts(d) \subseteq Reached(d)
    <3> DEFINE T == {p \in R : m(p) \in Reached(d)}
    <3>1. m(0) = 0 BY <2>4, PlaceIs
    <3>2. 0 \in T BY <2>1, <2>13, <3>1
    <3>3. ClosedUnder(c, T)
      <4> SUFFICES ASSUME NEW p \in T, NEW s \in Successors(c, p) PROVE s \in T
        BY DEF ClosedUnder
      <4>1. s \in R BY <2>1
      <4>2. m(s) \in Successors(d, m(p)) /\ m(p) \in Reached(d) BY <2>12
      <4>3. m(s) \in Reached(d) BY <2>13, <4>2
      <4> QED BY <4>1, <4>3
    <3>4. R \subseteq T
      <4> HIDE DEF T, R
      <4> QED BY <2>1, <3>2, <3>3
    <3> QED BY <2>11, <3>4
  <2>15. ASSUME NoHops(c) PROVE NoHops(d)
    <3> SUFFICES ASSUME NEW s \in Jumps(d) PROVE ByteAt(d, Target(d, s)) # JUMP
      BY DEF NoHops
    <3>1. PICK p \in R : s = m(p)
      <4>1. s \in Starts(d) BY DEF Jumps
      <4> QED BY <2>11, <4>1
    <3>2. p \in Jumps(c) /\ Target(d, s) = m(Target(c, p)) BY <2>10, <3>1
    <3>3. Target(c, p) \in R
      <4>1. p \in Jumps(c) \ dropped BY <3>1, <3>2 DEF dropped
      <4> QED BY <2>5, <4>1
    <3>4. ByteAt(d, Target(d, s)) = ByteAt(c, Target(c, p)) BY <2>10, <3>2, <3>3
    <3> QED BY <2>15, <3>2, <3>4 DEF NoHops
  <2>16. Starts(d) = Reached(d) BY <2>13, <2>14
  <2> QED BY <2>2, <2>9, <2>15, <2>16 DEF d
<1> QED BY <1>1, <1>2

\* The last instruction is no jump to the next one.
LEMMA LastStays ==
  ASSUME NEW c, Forward(c), c # << >>
  PROVE  \E z \in Starts(c) \ NoopJumps(c) : \A q \in Starts(c) : q <= z
<1>1. Tiled(c) BY ForwardTiled
<1>2. Len(c) \in Nat \ {0} BY <1>1 DEF Tiled
<1>3. Len(c) - 1 \in 0..Len(c)-1 BY <1>2
<1>4. PICK z \in Starts(c) : z <= Len(c) - 1 /\ Len(c) - 1 < Following(c, z)
  BY <1>1, <1>3 DEF Tiled
<1>5. z \in Nat /\ Following(c, z) = Len(c)
  <2>1. z \in Nat /\ Following(c, z) \in Nat /\ Following(c, z) <= Len(c) BY <1>1 DEF Tiled
  <2> QED BY <1>2, <1>4, <2>1
<1>6. ASSUME NEW q \in Starts(c) PROVE q <= z
  <2>1. q \in Nat /\ q < Len(c) BY ForwardFacts
  <2>2. z < q => Following(c, z) <= q BY <1>1 DEF Tiled
  <2> QED BY <1>2, <1>5, <2>1, <2>2
<1>7. z \notin NoopJumps(c)
  <2> SUFFICES ASSUME ByteAt(c, z) = JUMP, Target(c, z) = z + 3 PROVE FALSE
    BY DEF NoopJumps
  <2>1. z \in Jumps(c) /\ z \in Long(c) BY ForwardFacts
  <2>2. Following(c, z) = z + 3 BY <2>1 DEF Long, Following
  <2>3. Target(c, z) \in Starts(c) BY <2>1 DEF Forward
  <2>4. Len(c) < Len(c) BY <1>5, <2>2, <2>3, ForwardFacts
  <2> QED BY <1>2, <2>4
<1> QED BY <1>6, <1>7

\* As the last instruction stays, jumps to the next one can be removed.
LEMMA NoopsSound ==
  ASSUME NEW c, Forward(c), c # << >>
  PROVE  Sound(c, NoopJumps(c))
<1>1. PICK z \in Starts(c) \ NoopJumps(c) : \A q \in Starts(c) : q <= z
  BY LastStays
<1>2. ASSUME NEW p \in Jumps(c) \ NoopJumps(c)
      PROVE  \E q \in Starts(c) \ NoopJumps(c) : q >= Target(c, p)
  <2>1. Target(c, p) \in Starts(c) BY DEF Forward
  <2>2. Target(c, p) \in Nat /\ z \in Nat /\ Target(c, p) <= z BY <1>1, <2>1, ForwardFacts
  <2>3. z >= Target(c, p) BY <2>2
  <2> QED BY <1>1, <2>3
<1> QED BY <1>1, <1>2 DEF Sound

\* A jump to the next instruction leads to what follows it.
LEMMA NoopsFollow ==
  ASSUME NEW c, Forward(c), NEW p \in NoopJumps(c)
  PROVE  p \in Starts(c) /\ p \in Jumps(c) /\ ByteAt(c, p) = JUMP /\ Target(c, p) = Following(c, p)
<1>1. p \in Starts(c) /\ ByteAt(c, p) = JUMP /\ Target(c, p) = p + 3 BY DEF NoopJumps
<1>2. p \in Jumps(c) /\ p \in Long(c) BY <1>1, ForwardFacts
<1>3. Following(c, p) = p + 3 BY <1>2 DEF Long, Following
<1> QED BY <1>1, <1>2, <1>3

\* Jumps to the next instruction can be removed; where no jump leads to a jump and
\* everything is reached, that stays so, and no such jump is left.
LEMMA NoopsAre ==
  ASSUME NEW c, Forward(c)
  PROVE  LET d == RemoveNoopJumps(c) IN
         /\ NoopFault(c) = "none"
         /\ Forward(d) /\ PushedBy(d) \subseteq PushedBy(c)
         /\ NoHops(c) /\ Starts(c) = Reached(c) => NoHops(d) /\ Starts(d) = Reached(d) /\ NoopJumps(d) = {}
<1>0. NoopFault(c) = "none"
  <2>1. ASSUME NEW p \in Jumps(c), Target(c, p) > Len(c) PROVE FALSE
    <3>1. Target(c, p) \in Starts(c) BY DEF Forward
    <3>2. Target(c, p) < Len(c) /\ Target(c, p) \in Nat /\ Len(c) \in Nat BY <3>1, ForwardFacts
    <3> QED BY <2>1, <3>2
  <2> QED BY <2>1 DEF NoopFault, Forward
<1>1. CASE c = << >>
  <2>1. Starts(c) = {} BY <1>1 DEF Starts
  <2>2. NoopJumps(c) = {} BY <2>1 DEF NoopJumps
  <2>3. RemoveNoopJumps(c) = c BY <2>2 DEF RemoveNoopJumps, Without
  <2> QED BY <1>0, <2>2, <2>3
<1>2. CASE c # << >>
  <2> DEFINE S == Starts(c)
             dropped == NoopJumps(c)
             kept == S \ dropped
             m(i) == Place(c, dropped, i)
             d == RemoveNoopJumps(c)
  <2>1. PICK z \in kept : \A q \in S : q <= z
    BY <1>2, LastStays
  <2>2. Tiled(c) BY <1>2, ForwardTiled
  <2>3. /\ \A p \in S : /\ p \in Nat /\ Following(c, p) \in Nat /\ p < Following(c, p)
                        /\ Following(c, p) \in S \cup {Len(c)}
        /\ \A p, q \in S : p < q => Following(c, p) <= q
        /\ Len(c) \in Nat /\ 0 \in S
    BY <2>2 DEF Tiled
  <2>4. \A p \in Jumps(c) : p \in S /\ Target(c, p) > p /\ Target(c, p) \in S
    BY DEF Forward, Jumps
  <2>5. \A p \in dropped : p \in S /\ p \in Jumps(c) /\ ByteAt(c, p) = JUMP /\ Target(c, p) = Following(c, p)
    BY NoopsFollow
  <2>6. Sound(c, dropped) BY <1>2, NoopsSound
  <2>7. d = Without(c, dropped) BY DEF RemoveNoopJumps
  <2> HIDE DEF d, dropped
  <2>8. Squeezed(c, dropped, d) BY <1>2, <2>6, <2>7, WithoutSqueezes
  <2>9. Forward(d) /\ d # << >> /\ PushedBy(d) \subseteq PushedBy(c)
    BY <1>2, <2>8, SqueezedPushes DEF Squeezed
  <2>10. /\ m(0) = 0
         /\ \A i \in Nat : m(i) \in Nat
         /\ \A i, k \in Nat : i <= k => m(i) <= m(k)
         /\ \A p \in kept : \A k \in Nat : p < k => m(p) < m(k)
         /\ \A p \in S \cap dropped : m(Following(c, p)) = m(p)
    BY <2>2, PlaceIs
  <2>11. \A p \in kept : /\ m(p) \in Starts(d) /\ ByteAt(d, m(p)) = ByteAt(c, p)
                         /\ m(p) \in Jumps(d) <=> p \in Jumps(c)
                         /\ p \in Jumps(c) => Target(d, m(p)) = m(Target(c, p))
                         /\ Following(d, m(p)) = m(Following(c, p))
    BY <2>8 DEF Squeezed
  <2>12. \A s \in Starts(d) : \E p \in kept : s = m(p)
    BY <2>8 DEF Squeezed
  <2>13. \A s \in Jumps(d) : \E p \in kept \cap Jumps(c) : s = m(p)
    <3> TAKE s \in Jumps(d)
    <3>1. s \in Starts(d) BY DEF Jumps
    <3> QED BY <2>11, <2>12, <3>1
  <2>14. ASSUME NEW p \in kept, NEW s \in Successors(c, p), s \in S
         PROVE  m(s) \in Successors(d, m(p))
    <3>1. m(s) < Len(d)
      <4>1. m(z) \in Starts(d) /\ z \in S /\ z \in Nat /\ s \in Nat /\ s <= z BY <2>1, <2>3, <2>11, <2>14
      <4>2. m(s) <= m(z) /\ m(s) \in Nat /\ m(z) \in Nat BY <2>10, <4>1
      <4>3. m(z) < Len(d) /\ Len(d) \in Nat BY <2>9, <4>1, ForwardFacts
      <4> HIDE DEF m
      <4> QED BY <4>2, <4>3
    <3> QED BY <1>2, <2>8, <3>1, SqueezedSuccessors
  <2>15. ASSUME NoHops(c), S = Reached(c) PROVE NoHops(d) /\ Starts(d) = Reached(d) /\ NoopJumps(d) = {}
    <3>1. \A p \in Jumps(c) : Target(c, p) \in kept
      <4> TAKE p \in Jumps(c)
      <4>1. Target(c, p) \in S /\ ByteAt(c, Target(c, p)) # JUMP BY <2>4, <2>15 DEF NoHops
      <4> QED BY <2>5, <4>1
    <3>2. NoHops(d)
      <4> SUFFICES ASSUME NEW s \in Jumps(d) PROVE ByteAt(d, Target(d, s)) # JUMP
        BY DEF NoHops
      <4>1. PICK p \in kept \cap Jumps(c) : s = m(p) BY <2>13
      <4>2. Target(d, s) = m(Target(c, p)) BY <2>11, <4>1
      <4>3. ByteAt(d, Target(d, s)) = ByteAt(c, Target(c, p)) BY <2>11, <3>1, <4>1, <4>2
      <4> QED BY <2>15, <4>1, <4>3 DEF NoHops
    <3>3. /\ \A T : 0 \in T /\ ClosedUnder(c, T) => S \subseteq T
          /\ \A p \in S : Successors(c, p) \subseteq S
      BY <1>2, <2>15, ReachedIs, ForwardSuccessors
    <3>4. Reached(d) \subseteq Starts(d) /\ 0 \in Reached(d) /\ \A p \in Reached(d) : Successors(d, p) \subseteq Reached(d)
      BY <2>9, ReachedIs DEF ClosedUnder
    <3>5. Starts(d) \subseteq Reached(d)
      <4> DEFINE T == {p \in S : m(p) \in Reached(d)}
      <4>1. 0 \in T BY <2>3, <2>10, <3>4
      <4>2. ClosedUnder(c, T)
        <5> SUFFICES ASSUME NEW p \in T, NEW s \in Successors(c, p) PROVE s \in T
          BY DEF ClosedUnder
        <5>1. s \in S BY <3>3
        <5>2. CASE p \in dropped
          <6>1. Target(c, p) = Following(c, p) /\ ByteAt(c, p) = JUMP BY <2>5, <5>2
          <6>2. s = Following(c, p) BY <6>1 DEF Successors, JumpOp
          <6>3. m(s) = m(p) BY <2>10, <5>2, <6>2
          <6> QED BY <5>1, <6>3
        <5>3. CASE p \notin dropped
          <6>1. m(s) \in Successors(d, m(p)) BY <2>14, <5>1, <5>3
          <6>2. m(s) \in Reached(d) BY <3>4, <6>1
          <6> QED BY <5>1, <6>2
        <5> QED BY <5>2, <5>3
      <4>3. S \subseteq T
        <5> HIDE DEF T, S
        <5> QED BY <3>3, <4>1, <4>2
      <4> QED BY <2>12, <4>3
    <3>6. ASSUME NEW s \in NoopJumps(d) PROVE FALSE
      <4>1. s \in Starts(d) /\ ByteAt(d, s) = JUMP /\ Target(d, s) = s + 3 BY DEF NoopJumps
      <4>2. PICK p \in kept : s = m(p) BY <2>12, <4>1
      <4>3. ByteAt(c, p) = JUMP /\ p \in Jumps(c) /\ p \in S BY <2>11, <4>1, <4>2, ForwardFacts
      <4> DEFINE t == Target(c, p)
                 q == Following(c, p)
      <4>4. t \in kept /\ t \in S /\ t \in Nat /\ q \in Nat /\ p \in Nat /\ p < q /\ q <= t
        BY <2>3, <2>4, <3>1, <4>3
      <4>5. m(t) = m(q)
        <5>1. s \in Long(d) BY <4>1, ForwardFacts, <2>9
        <5>2. Following(d, s) = s + 3 BY <5>1 DEF Long, Following
        <5> QED BY <2>11, <4>1, <4>2, <4>3, <5>2
      <4>6. q # t
        <5>1. q = p + 3
          <6>1. p \in Long(c) BY <4>3, ForwardFacts
          <6> QED BY <6>1 DEF Long, Following
        <5>2. p \notin NoopJumps(c) BY <4>2 DEF dropped
        <5> QED BY <4>3, <5>1, <5>2 DEF NoopJumps
      <4>7. q < t BY <4>4, <4>6
      <4>8. q \in S
        <5>1. t < Len(c) BY <4>4, ForwardFacts
        <5>2. q # Len(c) BY <2>3, <4>4, <4>7, <5>1
        <5> QED BY <2>3, <4>3, <5>2
      <4>9. q \in dropped
        <5> SUFFICES ASSUME q \in kept PROVE FALSE
          BY <4>8
        <5>1. m(q) < m(t) /\ m(q) \in Nat BY <2>10, <4>4, <4>7
        <5> QED BY <4>5, <5>1
      <4> DEFINE T == S \ {q}
      <4>10. ClosedUnder(c, T)
        <5> SUFFICES ASSUME NEW r \in T, q \in Successors(c, r) PROVE FALSE
          BY <3>3 DEF ClosedUnder
        <5>1. ByteAt(c, q) = JUMP BY <2>5, <4>9
        <5>2. CASE ByteAt(c, r) \in JumpOp /\ q = Target(c, r)
          <6>1. r \in Jumps(c) BY <5>2 DEF Jumps
          <6> QED BY <2>15, <5>1, <5>2, <6>1 DEF NoHops
        <5>3. CASE ByteAt(c, r) \notin {JUMP, HALT} /\ q = r + InstructionSize(c, r)
          <6>1. r \in S /\ r \in Nat /\ Following(c, r) = Following(c, p) BY <2>3, <5>3 DEF Following
          <6>2. ~ (r < p) /\ ~ (p < r)
            <7>1. r < p => Following(c, r) <= p BY <2>3, <4>3, <6>1
            <7>2. p < r => Following(c, p) <= r BY <2>3, <4>3, <6>1
            <7>3. r < Following(c, r) BY <2>3, <6>1
            <7> QED BY <4>4, <6>1, <7>1, <7>2, <7>3
          <6>3. r = p BY <4>4, <6>1, <6>2
          <6> QED BY <4>3, <5>3, <6>3
        <5> QED BY <5>2, <5>3 DEF Successors
      <4>11. 0 \in T BY <2>3, <4>4
      <4>12. S \subseteq T
        <5> HIDE DEF T, S
        <5> QED BY <3>3, <4>10, <4>11
      <4> QED BY <4>8, <4>12
    <3> QED BY <3>2, <3>4, <3>5, <3>6
  <2> QED BY <1>0, <2>9, <2>15 DEF d
<1> QED BY <1>1, <1>2

-----------------------------------------------------------------------------
(* Renumbering the constants *)

Pushing(c) == {p \in Starts(c) : ByteAt(c, p) = PUSH_CONST_F32}

LEMMA PushingFacts ==
  ASSUME NEW c, Forward(c)
  PROVE  /\ \A p \in Pushing(c) : p \in Starts(c) /\ p \in Long(c) /\ p \notin Jumps(c) /\ ReadU16(c, p + 1) \in U16
         /\ PushedBy(c) = {ReadU16(c, p + 1) : p \in Pushing(c)}
<1>1. ASSUME NEW p \in Pushing(c)
      PROVE  p \in Starts(c) /\ p \in Long(c) /\ p \notin Jumps(c) /\ ReadU16(c, p + 1) \in U16
  <2>1. p \in Starts(c) /\ ByteAt(c, p) = PUSH_CONST_F32 BY DEF Pushing
  <2>2. p \in Long(c) BY <2>1, LongOps
  <2>3. p \notin Jumps(c) BY <2>1 DEF Jumps, JumpOp, PUSH_CONST_F32, JUMP, JUMP_IF_FALSE
  <2> QED BY <2>1, <2>2, <2>3, LongFacts DEF Forward
<1> QED BY <1>1 DEF PushedBy, Pushing

LEMMA MovedPushes ==
  ASSUME NEW c, Forward(c), NEW d, Moved(c, d)
  PROVE  /\ PushedBy(d) = PushedBy(c)
         /\ \A p \in Pushing(c) : ReadU16(d, p + 1) = ReadU16(c, p + 1)
<1>1. Starts(d) = Starts(c) /\ \A p \in Starts(c) : ByteAt(d, p) = ByteAt(c, p) BY DEF Moved
<1>2. Pushing(d) = Pushing(c) BY <1>1 DEF Pushing
<1>3. ASSUME NEW p \in Pushing(c) PROVE ReadU16(d, p + 1) = ReadU16(c, p + 1)
  <2>1. p \in Starts(c) \ Jumps(c) /\ p \in Long(c) BY PushingFacts
  <2>2. p \in Nat /\ Following(c, p) = p + 3 BY <2>1, LongFacts DEF Forward
  <2>3. \A j \in p..p+3-1 : ByteAt(d, j) = ByteAt(c, j) BY <2>1, <2>2 DEF Moved
  <2>4. p + 1 \in p..p+3-1 /\ p + 2 \in p..p+3-1 /\ p + 1 + 1 = p + 2 BY <2>2
  <2> QED BY <2>3, <2>4 DEF ReadU16
<1> QED BY <1>2, <1>3 DEF PushedBy, Pushing

\* Renumbering changes the operands of the pushes and nothing else.
Renamed(c, used, d) ==
  /\ Forward(d) /\ Len(d) = Len(c)
  /\ Starts(d) = Starts(c) /\ Jumps(d) = Jumps(c) /\ Pushing(d) = Pushing(c)
  /\ \A p \in Starts(c) : ByteAt(d, p) = ByteAt(c, p) /\ Following(d, p) = Following(c, p)
  /\ \A p \in Jumps(c) : Target(d, p) = Target(c, p)
  /\ \A p \in Pushing(c) : ReadU16(d, p + 1) = Count(used, ReadU16(c, p + 1))
  /\ \A p \in Starts(c) \ Pushing(c) : \A j \in p..Following(c, p)-1 : ByteAt(d, j) = ByteAt(c, j)

LEMMA RenumberedRenames ==
  ASSUME NEW c, Forward(c), NEW used, used \subseteq Nat
  PROVE  Renamed(c, used, Renumbered(c, used))
<1> DEFINE operands == [p \in Pushing(c) |-> Cardinality({i \in used : i < ReadU16(c, p + 1)})]
           d == Renumbered(c, used)
<1>1. d = Retargeted(c, operands)
  BY DEF Renumbered, Pushing
<1>2. /\ DOMAIN operands = Pushing(c)
      /\ \A p \in Pushing(c) : operands[p] = Count(used, ReadU16(c, p + 1)) /\ operands[p] \in U16 /\ p \in Long(c)
  <2> SUFFICES ASSUME NEW p \in Pushing(c)
               PROVE  operands[p] = Count(used, ReadU16(c, p + 1)) /\ operands[p] \in U16 /\ p \in Long(c)
    OBVIOUS
  <2> DEFINE r == ReadU16(c, p + 1)
  <2>1. r \in U16 /\ p \in Long(c) BY PushingFacts
  <2>2. operands[p] = Count(used, r) BY DEF Count
  <2> HIDE DEF r, operands
  <2>3. r \in Nat /\ r <= UINT16_MAX /\ UINT16_MAX \in Nat BY <2>1, U16Nat, Limits
  <2>4. Count(used, 0) = 0 BY CountSteps
  <2>5. Count(used, r) \in Nat /\ Count(used, r) <= Count(used, 0) + (r - 0)
    <3>1. 0 \in Nat /\ 0 <= r BY <2>3
    <3> QED BY <2>3, <3>1, CountBetween
  <2>6. Count(used, r) \in U16 BY <2>3, <2>4, <2>5, U16Nat
  <2> QED BY <2>1, <2>2, <2>6 DEF r
<1> HIDE DEF operands, d
<1>3. c \in Seq(Byte) /\ Decodes(c) /\ DOMAIN operands \subseteq Long(c)
  BY <1>2 DEF Forward
<1>4. Rewritten(c, operands, d)
  BY <1>1, <1>2, <1>3, RetargetedIs
<1>5. /\ d \in Seq(Byte) /\ Len(d) = Len(c)
      /\ Starts(d) = Starts(c) /\ Decodes(d) /\ Jumps(d) = Jumps(c) /\ Long(d) = Long(c)
      /\ \A p \in Starts(c) : ByteAt(d, p) = ByteAt(c, p) /\ Following(d, p) = Following(c, p)
      /\ \A p \in Long(c) :
           ReadU16(d, p + 1) = IF p \in DOMAIN operands THEN operands[p] ELSE ReadU16(c, p + 1)
  BY <1>3, <1>4, RewrittenKeeps
<1>6. \A p \in Jumps(c) : Target(d, p) = Target(c, p)
  <2> TAKE p \in Jumps(c)
  <2>1. p \in Long(c) /\ p \notin Pushing(c) BY ForwardFacts, PushingFacts
  <2> QED BY <1>2, <1>5, <2>1 DEF Target
<1>7. Forward(d) BY <1>5, <1>6 DEF Forward
<1>8. Pushing(d) = Pushing(c) BY <1>5 DEF Pushing
<1>9. \A p \in Pushing(c) : ReadU16(d, p + 1) = Count(used, ReadU16(c, p + 1))
  BY <1>2, <1>5
<1>10. \A p \in Starts(c) \ Pushing(c) : \A j \in p..Following(c, p)-1 : ByteAt(d, j) = ByteAt(c, j)
  BY <1>2, <1>4 DEF Rewritten
<1> QED BY <1>5, <1>6, <1>7, <1>8, <1>9, <1>10 DEF Renamed, d

\* The pushes of the renumbered code are the counts of those of the code.
LEMMA RenamedPushes ==
  ASSUME NEW c, Forward(c), NEW used, NEW d, Renamed(c, used, d)
  PROVE  PushedBy(d) = {Count(used, i) : i \in PushedBy(c)}
<1>1. PushedBy(d) = {ReadU16(d, p + 1) : p \in Pushing(c)} BY PushingFacts DEF Renamed
<1>2. PushedBy(c) = {ReadU16(c, p + 1) : p \in Pushing(c)} BY PushingFacts
<1>3. \A p \in Pushing(c) : ReadU16(d, p + 1) = Count(used, ReadU16(c, p + 1)) BY DEF Renamed
<1> QED BY <1>1, <1>2, <1>3

\* Nothing that the other passes look for is changed by renumbering.
LEMMA RenamedSettled ==
  ASSUME NEW c, Forward(c), NEW used, NEW d, Renamed(c, used, d)
  PROVE  /\ NoHops(c) => NoHops(d)
         /\ NoopJumps(d) = NoopJumps(c)
         /\ Starts(c) = Reached(c) => Starts(d) = Reached(d)
<1>1. /\ Forward(d) /\ Len(d) = Len(c) /\ Starts(d) = Starts(c) /\ Jumps(d) = Jumps(c)
      /\ \A p \in Starts(c) : ByteAt(d, p) = ByteAt(c, p) /\ Following(d, p) = Following(c, p)
      /\ \A p \in Jumps(c) : Target(d, p) = Target(c, p)
  BY DEF Renamed
<1>2. \A p \in Starts(c) : ByteAt(c, p) \in JumpOp => p \in Jumps(c)
  BY DEF Jumps
<1>3. NoHops(c) => NoHops(d)
  <2>1. \A p \in Jumps(c) : Target(c, p) \in Starts(c) BY DEF Forward
  <2> QED BY <1>1, <2>1 DEF NoHops
<1>4. NoopJumps(d) = NoopJumps(c)
  BY <1>1, <1>2 DEF NoopJumps, JumpOp
<1>5. ASSUME Starts(c) = Reached(c) PROVE Starts(d) = Reached(d)
  <2>1. CASE c = << >>
    <3>1. d = << >> BY <1>1, <2>1, LenProperties, EmptySeq DEF Forward
    <3> QED BY <1>1, <1>5, <2>1, <3>1
  <2>2. CASE c # << >>
    <3>1. d # << >>
      <4>1. 0 \in Starts(c) BY <2>2, StartsClosed DEF Forward
      <4> QED BY <1>1, <4>1 DEF Starts
    <3>2. \A p \in Starts(c) : Successors(d, p) = Successors(c, p)
      <4> TAKE p \in Starts(c)
      <4>1. p + InstructionSize(d, p) = p + InstructionSize(c, p) BY <1>1 DEF Following
      <4> QED BY <1>1, <1>2, <4>1 DEF Successors
    <3>3. 0 \in Reached(d) /\ ClosedUnder(d, Reached(d)) /\ Reached(d) \subseteq Starts(d) BY <1>1, <3>1, ReachedIs
    <3>4. ClosedUnder(c, Reached(d)) BY <1>1, <3>2, <3>3 DEF ClosedUnder
    <3>5. Reached(c) \subseteq Reached(d) BY <2>2, <3>3, <3>4, ReachedIs
    <3> QED BY <1>1, <1>5, <3>3, <3>5
  <2> QED BY <2>1, <2>2
<1> QED BY <1>3, <1>4, <1>5

LEMMA WellFormedIs ==
  \A c, pool : WellFormed(c, pool) <=> Forward(c) /\ PushedBy(c) \subseteq 0..Len(pool)-1
BY DEF WellFormed, Forward

\* Compaction numbers the constants that are left in their order.
LEMMA CompactIs ==
  ASSUME NEW cs, NEW V, NEW pool \in Seq(V), \A s \in Sections : WellFormed(cs[s], pool)
  PROVE  LET used == Used(cs)
             kept == KeptConstants(pool, used)
             ds == Compacted(cs, pool)
         IN  /\ CompactFault(cs, pool) = "none"
             /\ used \subseteq 0..Len(pool)-1
             /\ kept \in Seq(V)
             /\ \A s \in Sections : Renamed(cs[s], used, ds[s]) /\ WellFormed(ds[s], kept)
             /\ \A i \in used : Count(used, i) + 1 \in 1..Len(kept) /\ kept[Count(used, i) + 1] = pool[i + 1]
             /\ Used(ds) = 0..Len(kept)-1
<1> DEFINE used == Used(cs)
           kept == KeptConstants(pool, used)
           ds == Compacted(cs, pool)
<1>1. \A s \in Sections : Forward(cs[s]) /\ PushedBy(cs[s]) \subseteq 0..Len(pool)-1
  BY WellFormedIs
<1>2. used \subseteq 0..Len(pool)-1 /\ Len(pool) \in Nat
  BY <1>1, LenProperties DEF Used
<1>3. CompactFault(cs, pool) = "none"
  BY <1>2 DEF CompactFault
<1>4. used \in SUBSET Nat /\ \A i \in used : i \in Nat /\ i < Len(pool)
  <2>1. \A i \in used : i \in 0..Len(pool)-1 BY <1>2
  <2>2. \A i \in used : i \in Nat /\ i < Len(pool) BY <1>2, <2>1
  <2> QED BY <2>2
<1>5. /\ kept \in Seq(V) /\ Len(kept) = Count(used, Len(pool))
      /\ \A i \in used : kept[Count(used, i) + 1] = pool[i + 1]
  <2>1. /\ Selected(pool, used) \in Seq(V) /\ Len(Selected(pool, used)) = Count(used, Len(pool))
        /\ \A i \in used : i < Len(pool) => Selected(pool, used)[Count(used, i) + 1] = pool[i + 1]
    <3> HIDE DEF used
    <3> QED BY <1>4, SelectedIs
  <2> QED BY <1>4, <2>1 DEF KeptConstants
<1>6. \A s \in Sections : Renamed(cs[s], used, ds[s])
  <2>1. CASE pool # << >>
    <3>1. \A s \in Sections : ds[s] = Renumbered(cs[s], used) BY <2>1 DEF Compacted
    <3> HIDE DEF used, ds
    <3> QED BY <1>1, <1>4, <3>1, RenumberedRenames
  <2>2. CASE pool = << >>
    <3>1. ds = cs /\ Len(pool) = 0 BY <2>2 DEF Compacted
    <3>2. 0..Len(pool)-1 = {} BY <3>1
    <3>3. \A s \in Sections : PushedBy(cs[s]) = {} BY <1>1, <3>2
    <3>4. \A s \in Sections : Pushing(cs[s]) = {} BY <3>3 DEF PushedBy, Pushing
    <3> HIDE DEF used, ds
    <3> QED BY <1>1, <3>1, <3>4 DEF Renamed
  <2> QED BY <2>1, <2>2
<1>7. \A s \in Sections : PushedBy(ds[s]) = {Count(used, i) : i \in PushedBy(cs[s])}
  <2> HIDE DEF used, ds
  <2> QED BY <1>1, <1>6, RenamedPushes
<1> HIDE DEF ds, kept
<1>8. Used(ds) = {Count(used, i) : i \in used}
  <2> DEFINE counted == {Count(used, i) : i \in used}
  <2>1. \A i : i \in used <=> \E s \in Sections : i \in PushedBy(cs[s]) BY Zenon DEF Used
  <2>2. \A k : k \in Used(ds) <=> \E s \in Sections : k \in PushedBy(ds[s]) BY Zenon DEF Used
  <2> HIDE DEF used
  <2>3. \A s \in Sections : \A k : k \in PushedBy(ds[s]) <=> \E i \in PushedBy(cs[s]) : k = Count(used, i) BY <1>7
  <2>4. \A k : k \in counted <=> \E i \in used : k = Count(used, i) OBVIOUS
  <2> HIDE DEF counted
  <2>5. ASSUME NEW k \in Used(ds) PROVE k \in counted
    <3>1. PICK s \in Sections : k \in PushedBy(ds[s]) BY <2>2
    <3>2. PICK i \in PushedBy(cs[s]) : k = Count(used, i) BY <2>3, <3>1
    <3>3. i \in used BY <2>1, <3>2
    <3> QED BY <2>4, <3>2, <3>3
  <2>6. ASSUME NEW k \in counted PROVE k \in Used(ds)
    <3>1. PICK i \in used : k = Count(used, i) BY <2>4
    <3>2. PICK s \in Sections : i \in PushedBy(cs[s]) BY <2>1
    <3>3. k \in PushedBy(ds[s]) BY <2>3, <3>1, <3>2
    <3> QED BY <2>2, <3>3
  <2>7. Used(ds) = counted BY <2>5, <2>6
  <2> QED BY <2>7 DEF counted
<1> HIDE DEF used
<1>9. Len(kept) \in Nat /\ \A i \in used : Count(used, i) \in Nat /\ Count(used, i) < Len(kept)
  <2>1. \A i \in used : Count(used, i) \in Nat /\ Count(used, Len(pool)) \in Nat /\ Count(used, i) < Count(used, Len(pool))
    <3> TAKE i \in used
    <3>1. i \in Nat /\ i < Len(pool) /\ i <= Len(pool) BY <1>2, <1>4
    <3> QED BY <1>2, <1>4, <3>1, CountBetween
  <2>2. Len(kept) \in Nat BY <1>5, LenProperties
  <2> QED BY <1>5, <2>1, <2>2
<1>10. \A i \in used : Count(used, i) + 1 \in 1..Len(kept) /\ Count(used, i) \in 0..Len(kept)-1
  BY <1>9
<1>11. Used(ds) = 0..Len(kept)-1
  <2>1. ASSUME NEW k \in 0..Len(kept)-1 PROVE k \in Used(ds)
    <3>1. k \in Nat /\ k < Count(used, Len(pool)) BY <1>5, <1>9, <2>1
    <3>2. \E i \in used : i < Len(pool) /\ Count(used, i) = k BY <1>2, <1>4, <3>1, CountOnto
    <3> QED BY <1>8, <3>2
  <2> QED BY <1>8, <1>10, <2>1
<1>12. \A s \in Sections : WellFormed(ds[s], kept)
  <2> TAKE s \in Sections
  <2>1. Forward(ds[s]) BY <1>6 DEF Renamed
  <2>2. PushedBy(ds[s]) \subseteq 0..Len(kept)-1 BY <1>11 DEF Used
  <2> QED BY <2>1, <2>2, WellFormedIs
<1> QED BY <1>2, <1>3, <1>5, <1>6, <1>10, <1>11, <1>12 DEF ds, kept, used

-----------------------------------------------------------------------------
(* The passes *)

\* The shape of the state.
PassType ==
  /\ DOMAIN codes = Sections
  /\ constants \in Seq(Range(constants))

\* The constants that are left are of the values of the constants.
LEMMA KeptInSeq ==
  ASSUME NEW V, NEW pool \in Seq(V), NEW used, used \subseteq Nat
  PROVE  KeptConstants(pool, used) \in Seq(V)
BY SelectedIs DEF KeptConstants

\* Of no constants none are left.
LEMMA NothingSelected ==
  ASSUME NEW kept
  PROVE  Selected(<< >>, kept) = << >>
<1> DEFINE Out(f) == f = [k \in 0..Len(<< >>) |->
                            IF k = 0 THEN << >>
                            ELSE IF k - 1 \in kept THEN Append(f[k - 1], << >>[k]) ELSE f[k - 1]]
           g == [k \in 0..Len(<< >>) |-> << >>]
<1>1. Len(<< >>) = 0 /\ 0 \in 0..Len(<< >>) /\ \A k \in 0..Len(<< >>) : k = 0
  <2>1. Len(<< >>) = 0 BY EmptySeq
  <2> QED BY <2>1
<1>2. \E f : Out(f)
  <2>1. Out(g) BY <1>1
  <2> HIDE DEF Out, g
  <2> QED BY <2>1
<1>3. PICK out : out = CHOOSE f : Out(f)
  OBVIOUS
<1>4. Out(out)
  <2> HIDE DEF Out
  <2> QED BY <1>2, <1>3, Zenon
<1>5. Selected(<< >>, kept) = out[Len(<< >>)]
  BY <1>3 DEF Selected
<1> QED BY <1>1, <1>4, <1>5

\* The state keeps its shape: three sections, and a sequence of constants.
THEOREM PassTyped == PassSpec => []PassType
<1>1. PassInit => PassType
  BY UnoptimizedAssumption DEF PassInit, PassType
<1>2. PassType /\ [PassNext]_passVars => PassType'
  <2> SUFFICES ASSUME PassType, [PassNext]_passVars PROVE PassType'
    OBVIOUS
  <2>1. CASE Thread BY <2>1 DEF Thread, Sweep, PassType
  <2>2. CASE DropUnreachable BY <2>2 DEF DropUnreachable, Sweep, PassType
  <2>3. CASE DropNoopJumps BY <2>3 DEF DropNoopJumps, Sweep, PassType
  <2>4. CASE ThreadAgain BY <2>4 DEF ThreadAgain, Sweep, PassType
  <2>5. CASE CompactConstants
    <3>1. CASE CompactFault(codes, constants) = "none"
      <4>1. constants' = KeptConstants(constants, Used(codes)) /\ codes' = Compacted(codes, constants)
        BY <2>5, <3>1 DEF CompactConstants
      <4>2. DOMAIN codes' = Sections
        BY <4>1 DEF Compacted, PassType
      <4>3. constants' \in Seq(Range(constants))
        <5>1. CASE constants = << >>
          <6>1. constants' = << >> BY <4>1, <5>1, NothingSelected DEF KeptConstants
          <6> QED BY <6>1, EmptySeq
        <5>2. CASE constants # << >>
          <6>1. Used(codes) \subseteq 0..Len(constants)-1 BY <3>1, <5>2 DEF CompactFault
          <6>2. Used(codes) \subseteq Nat
            <7> HIDE DEF Used
            <7>1. \A i \in 0..Len(constants)-1 : i \in Nat BY LenProperties DEF PassType
            <7> QED BY <6>1, <7>1
          <6> QED BY <4>1, <6>2, KeptInSeq DEF PassType
        <5> QED BY <5>1, <5>2
      <4>4. constants' \in Seq(Range(constants'))
        BY <4>3, SeqOfRange
      <4> QED BY <4>2, <4>4 DEF PassType
    <3>2. CASE CompactFault(codes, constants) # "none"
      BY <2>5, <3>2 DEF CompactConstants, PassType
    <3> QED BY <3>1, <3>2
  <2>6. CASE UNCHANGED passVars BY <2>6 DEF passVars, PassType
  <2> QED BY <2>1, <2>2, <2>3, <2>4, <2>5, <2>6 DEF PassNext
<1> QED BY <1>1, <1>2, PTL DEF PassSpec

-----------------------------------------------------------------------------
(* The passes keep code well formed *)

\* A pass accepts c and makes d of it, which is as well formed.
Accepted(c, fault, d) ==
  Forward(c) => fault = "none" /\ Forward(d) /\ PushedBy(d) \subseteq PushedBy(c)

\* The three passes over the instructions do.
LEMMA PassesAccept ==
  \A c : /\ Accepted(c, ThreadFault(c), ThreadJumps(c))
         /\ Accepted(c, UnreachableFault(c), RemoveUnreachable(c))
         /\ Accepted(c, NoopFault(c), RemoveNoopJumps(c))
<1> SUFFICES ASSUME NEW c, Forward(c)
             PROVE  /\ Accepted(c, ThreadFault(c), ThreadJumps(c))
                    /\ Accepted(c, UnreachableFault(c), RemoveUnreachable(c))
                    /\ Accepted(c, NoopFault(c), RemoveNoopJumps(c))
  BY DEF Accepted
<1>1. Accepted(c, ThreadFault(c), ThreadJumps(c))
  <2>1. Moved(c, ThreadJumps(c)) BY ThreadJumpsMoves
  <2>2. PushedBy(ThreadJumps(c)) = PushedBy(c) BY <2>1, MovedPushes
  <2>3. Forward(ThreadJumps(c)) BY <2>1 DEF Moved
  <2> QED BY <2>2, <2>3, ThreadAccepts DEF Accepted
<1>2. Accepted(c, UnreachableFault(c), RemoveUnreachable(c)) BY UnreachableIs DEF Accepted
<1>3. Accepted(c, NoopFault(c), RemoveNoopJumps(c)) BY NoopsAre DEF Accepted
<1> QED BY <1>1, <1>2, <1>3

\* Well-formed code stays so when it is accepted.
LEMMA AcceptedWellFormed ==
  ASSUME NEW c, NEW fault, NEW d, Accepted(c, fault, d), NEW pool, WellFormed(c, pool)
  PROVE  fault = "none" /\ WellFormed(d, pool)
<1>1. Forward(c) /\ PushedBy(c) \subseteq 0..Len(pool)-1 BY WellFormedIs
<1>2. fault = "none" /\ Forward(d) /\ PushedBy(d) \subseteq PushedBy(c) BY <1>1 DEF Accepted
<1> QED BY <1>1, <1>2, WellFormedIs

AllWellFormed == \A s \in Sections : WellFormed(codes[s], constants)

\* A pass that takes well-formed code leaves well-formed code.
LEMMA WellFormedStep ==
  ASSUME PassType, AllWellFormed, PassNext
  PROVE  refusal' = "none" /\ AllWellFormed'
<1>1. CASE Thread
  <2>1. \A s \in Sections : ThreadFault(codes[s]) = "none" /\ WellFormed(ThreadJumps(codes[s]), constants)
    BY PassesAccept, AcceptedWellFormed DEF AllWellFormed
  <2>2. /\ codes' = [s \in Sections |-> ThreadJumps(codes[s])]
        /\ UNCHANGED <<refusal, constants>> /\ refusal = "none"
    BY <1>1, <2>1 DEF Thread, Sweep
  <2> QED BY <2>1, <2>2 DEF AllWellFormed
<1>2. CASE DropUnreachable
  <2>1. \A s \in Sections : UnreachableFault(codes[s]) = "none" /\ WellFormed(RemoveUnreachable(codes[s]), constants)
    BY PassesAccept, AcceptedWellFormed DEF AllWellFormed
  <2>2. /\ codes' = [s \in Sections |-> RemoveUnreachable(codes[s])]
        /\ UNCHANGED <<refusal, constants>> /\ refusal = "none"
    BY <1>2, <2>1 DEF DropUnreachable, Sweep
  <2> QED BY <2>1, <2>2 DEF AllWellFormed
<1>3. CASE DropNoopJumps
  <2>1. \A s \in Sections : NoopFault(codes[s]) = "none" /\ WellFormed(RemoveNoopJumps(codes[s]), constants)
    BY PassesAccept, AcceptedWellFormed DEF AllWellFormed
  <2>2. /\ codes' = [s \in Sections |-> RemoveNoopJumps(codes[s])]
        /\ UNCHANGED <<refusal, constants>> /\ refusal = "none"
    BY <1>3, <2>1 DEF DropNoopJumps, Sweep
  <2> QED BY <2>1, <2>2 DEF AllWellFormed
<1>4. CASE ThreadAgain
  <2>1. \A s \in Sections : ThreadFault(codes[s]) = "none" /\ WellFormed(ThreadJumps(codes[s]), constants)
    BY PassesAccept, AcceptedWellFormed DEF AllWellFormed
  <2>2. /\ codes' = [s \in Sections |-> ThreadJumps(codes[s])]
        /\ UNCHANGED <<refusal, constants>> /\ refusal = "none"
    BY <1>4, <2>1 DEF ThreadAgain, Sweep
  <2> QED BY <2>1, <2>2 DEF AllWellFormed
<1>5. CASE CompactConstants
  <2>1. /\ CompactFault(codes, constants) = "none"
        /\ \A s \in Sections :
             WellFormed(Compacted(codes, constants)[s], KeptConstants(constants, Used(codes)))
    BY CompactIs DEF PassType, AllWellFormed
  <2>2. /\ codes' = Compacted(codes, constants) /\ constants' = KeptConstants(constants, Used(codes))
        /\ UNCHANGED refusal /\ refusal = "none"
    BY <1>5, <2>1 DEF CompactConstants
  <2> QED BY <2>1, <2>2 DEF AllWellFormed
<1> QED BY <1>1, <1>2, <1>3, <1>4, <1>5 DEF PassNext

\* No pass refuses code whose jumps lead forward to instructions and which pushes what
\* there is, and every pass leaves such code (the set_emit_error calls of the passes).
THEOREM WellFormedKept == PassSpec => KeepsWellFormed
<1>1. PassType /\ [PassNext]_passVars =>
        [(\A s \in Sections : WellFormed(codes[s], constants)) =>
           refusal' = "none" /\ \A s \in Sections : WellFormed(codes'[s], constants') ]_passVars
  BY WellFormedStep DEF AllWellFormed
<1> QED BY <1>1, PassTyped, PTL DEF PassSpec, KeepsWellFormed

-----------------------------------------------------------------------------
(* One round is enough *)

\* What the passes so far have made of well-formed code: a second threading finds
\* nothing to do because the two removals keep NoHops.
SettledInv ==
  /\ PassType
  /\ refusal = "none"
  /\ AllWellFormed
  /\ pass \in {"thread", "unreachable", "noops", "thread again", "constants", "done"}
  /\ pass # "thread" => \A s \in Sections : NoHops(codes[s])
  /\ pass \in {"noops", "thread again", "constants", "done"} => \A s \in Sections : Starts(codes[s]) = Reached(codes[s])
  /\ pass \in {"thread again", "constants", "done"} => \A s \in Sections : NoopJumps(codes[s]) = {}
  /\ pass = "done" => Used(codes) = 0..Len(constants)-1

LEMMA SettledInvStep ==
  ASSUME SettledInv, PassNext
  PROVE  SettledInv'
<1>1. PassType /\ AllWellFormed /\ \A s \in Sections : Forward(codes[s])
  BY WellFormedIs DEF SettledInv, AllWellFormed
<1>2. PassType'
  <2>1. CASE CompactConstants
    <3>1. Used(codes) \subseteq Nat
      <4>1. Used(codes) \subseteq 0..Len(constants)-1 BY <1>1, CompactIs DEF PassType, AllWellFormed
      <4>2. \A i \in 0..Len(constants)-1 : i \in Nat BY <1>1, LenProperties DEF PassType
      <4> HIDE DEF Used
      <4> QED BY <4>1, <4>2
    <3>2. CompactFault(codes, constants) = "none" BY <1>1, CompactIs DEF PassType, AllWellFormed
    <3>3. constants' = KeptConstants(constants, Used(codes)) /\ codes' = Compacted(codes, constants)
      BY <2>1, <3>2 DEF CompactConstants
    <3>4. constants' \in Seq(Range(constants)) BY <1>1, <3>1, <3>3, KeptInSeq DEF PassType
    <3>5. constants' \in Seq(Range(constants')) BY <3>4, SeqOfRange
    <3>6. DOMAIN codes' = Sections BY <1>1, <3>3 DEF Compacted, PassType
    <3> QED BY <3>5, <3>6 DEF PassType
  <2>2. CASE ~CompactConstants
    BY <1>1, <2>2 DEF PassNext, Thread, DropUnreachable, DropNoopJumps, ThreadAgain, Sweep, PassType
  <2> QED BY <2>1, <2>2
<1>3. refusal' = "none" /\ AllWellFormed'
  BY <1>1, WellFormedStep
<1>4. CASE Thread
  <2>1. \A s \in Sections : NoHops(ThreadJumps(codes[s]))
    BY <1>1, ThreadJumpsMoves DEF NoHops
  <2>2. codes' = [s \in Sections |-> ThreadJumps(codes[s])] /\ pass' = "unreachable"
    BY <1>1, <1>4, ThreadAccepts DEF Thread, Sweep
  <2>3. \A s \in Sections : NoHops(codes'[s]) BY <2>1, <2>2
  <2> QED BY <1>2, <1>3, <2>2, <2>3 DEF SettledInv
<1>5. CASE DropUnreachable
  <2>1. \A s \in Sections : NoHops(codes[s]) BY <1>5 DEF SettledInv, DropUnreachable, Sweep
  <2>2. \A s \in Sections : /\ NoHops(RemoveUnreachable(codes[s]))
                            /\ Starts(RemoveUnreachable(codes[s])) = Reached(RemoveUnreachable(codes[s]))
    BY <1>1, <2>1, UnreachableIs
  <2>3. codes' = [s \in Sections |-> RemoveUnreachable(codes[s])] /\ pass' = "noops"
    BY <1>1, <1>5, UnreachableIs DEF DropUnreachable, Sweep
  <2>4. \A s \in Sections : NoHops(codes'[s]) /\ Starts(codes'[s]) = Reached(codes'[s]) BY <2>2, <2>3
  <2> QED BY <1>2, <1>3, <2>3, <2>4 DEF SettledInv
<1>6. CASE DropNoopJumps
  <2>1. \A s \in Sections : NoHops(codes[s]) /\ Starts(codes[s]) = Reached(codes[s])
    BY <1>6 DEF SettledInv, DropNoopJumps, Sweep
  <2>2. \A s \in Sections : /\ NoHops(RemoveNoopJumps(codes[s]))
                            /\ Starts(RemoveNoopJumps(codes[s])) = Reached(RemoveNoopJumps(codes[s]))
                            /\ NoopJumps(RemoveNoopJumps(codes[s])) = {}
    BY <1>1, <2>1, NoopsAre
  <2>3. codes' = [s \in Sections |-> RemoveNoopJumps(codes[s])] /\ pass' = "thread again"
    BY <1>1, <1>6, NoopsAre DEF DropNoopJumps, Sweep
  <2>4. \A s \in Sections : NoHops(codes'[s]) /\ Starts(codes'[s]) = Reached(codes'[s]) /\ NoopJumps(codes'[s]) = {}
    BY <2>2, <2>3
  <2> QED BY <1>2, <1>3, <2>3, <2>4 DEF SettledInv
<1>7. CASE ThreadAgain
  <2>1. \A s \in Sections : NoHops(codes[s]) /\ Starts(codes[s]) = Reached(codes[s]) /\ NoopJumps(codes[s]) = {}
    BY <1>7 DEF SettledInv, ThreadAgain, Sweep
  <2>2. \A s \in Sections : ThreadJumps(codes[s]) = codes[s]
    BY <1>1, <2>1, ThreadJumpsSettled DEF NoHops
  <2>3. codes' = [s \in Sections |-> ThreadJumps(codes[s])] /\ pass' = "constants"
    BY <1>1, <1>7, ThreadAccepts DEF ThreadAgain, Sweep
  <2>4. \A s \in Sections : NoHops(codes'[s]) /\ Starts(codes'[s]) = Reached(codes'[s]) /\ NoopJumps(codes'[s]) = {}
    BY <2>1, <2>2, <2>3
  <2> QED BY <1>2, <1>3, <2>3, <2>4 DEF SettledInv
<1>8. CASE CompactConstants
  <2>1. \A s \in Sections : NoHops(codes[s]) /\ Starts(codes[s]) = Reached(codes[s]) /\ NoopJumps(codes[s]) = {}
    BY <1>8 DEF SettledInv, CompactConstants
  <2>2. /\ CompactFault(codes, constants) = "none"
        /\ \A s \in Sections : Renamed(codes[s], Used(codes), Compacted(codes, constants)[s])
        /\ Used(Compacted(codes, constants)) = 0..Len(KeptConstants(constants, Used(codes)))-1
    BY <1>1, CompactIs DEF PassType, AllWellFormed
  <2>3. codes' = Compacted(codes, constants) /\ constants' = KeptConstants(constants, Used(codes)) /\ pass' = "done"
    BY <1>8, <2>2 DEF CompactConstants
  <2>4. \A s \in Sections : NoHops(codes'[s]) /\ Starts(codes'[s]) = Reached(codes'[s]) /\ NoopJumps(codes'[s]) = {}
    BY <1>1, <2>1, <2>2, <2>3, RenamedSettled
  <2>5. Used(codes') = 0..Len(constants')-1 BY <2>2, <2>3
  <2> QED BY <1>2, <1>3, <2>3, <2>4, <2>5 DEF SettledInv
<1> QED BY <1>4, <1>5, <1>6, <1>7, <1>8 DEF PassNext

\* The passes keep it.
THEOREM SettledInvariant == PassSpec /\ AllWellFormed => []SettledInv
<1>1. PassInit /\ PassType /\ AllWellFormed => SettledInv
  BY DEF PassInit, SettledInv
<1>2. SettledInv /\ [PassNext]_passVars => SettledInv'
  <2>1. SettledInv /\ UNCHANGED passVars => SettledInv'
    BY DEF SettledInv, passVars, PassType, AllWellFormed
  <2> QED BY <2>1, SettledInvStep
<1> QED BY <1>1, <1>2, PassTyped, PTL DEF PassSpec

\* Well-formed code is settled after the five passes: no jump leads to a jump or to the
\* next instruction, every instruction is reachable and every constant is pushed, so
\* that no pass would find more (the order of the calls in optimize_emitted_bytecode).
\* None of the passes refuses it either.
THEOREM WellFormedSettles == PassSpec /\ AllWellFormed => [](Settled /\ refusal = "none")
<1>1. SettledInv => Settled /\ refusal = "none"
  <2> SUFFICES ASSUME SettledInv, pass = "done" PROVE Settled
    BY DEF Settled, SettledInv
  <2>1. \A s \in Sections : NoHops(codes[s]) /\ Starts(codes[s]) = Reached(codes[s]) /\ NoopJumps(codes[s]) = {}
    BY DEF SettledInv
  <2>2. \A s \in Sections : Forward(codes[s]) BY WellFormedIs DEF SettledInv, AllWellFormed
  <2>3. \A s \in Sections : ThreadJumps(codes[s]) = codes[s] BY <2>1, <2>2, ThreadJumpsSettled DEF NoHops
  <2> QED BY <2>1, <2>3 DEF SettledInv, Settled
<1> QED BY <1>1, SettledInvariant, PTL

-----------------------------------------------------------------------------
(* What the code does *)

From(code, pc, f, t) == IF t \in pc+1..Len(code) THEN f[t] ELSE <<"goes elsewhere">>

Pushed(code, pool, pc) ==
  LET k == ReadU16(code, pc + 1) + 1 IN IF k \in DOMAIN pool THEN <<pool[k]>> ELSE << >>

\* The tree of Behaviour at pc, from the tree of what follows and that of the target.
Node(code, pool, pc, onward, aside) ==
  IF ~Decodable(code, pc) THEN <<"runs off">>
  ELSE CASE ByteAt(code, pc) = HALT -> <<"halts">>
         [] ByteAt(code, pc) = JUMP -> aside
         [] ByteAt(code, pc) = JUMP_IF_FALSE -> <<"tests", onward, aside>>
         [] ByteAt(code, pc) = PUSH_CONST_F32 -> <<"pushes", Pushed(code, pool, pc), onward>>
         [] OTHER -> <<"does", Instruction(code, pc), onward>>

NodeOn(code, pool, pc, f) ==
  Node(code, pool, pc, From(code, pc, f, pc + InstructionSize(code, pc)), From(code, pc, f, Target(code, pc)))

Tree(code, pool, f) == f = [pc \in 0..Len(code) |-> NodeOn(code, pool, pc, f)]

\* A node looks at the offsets after it only.
LEMMA NodeLooksAhead ==
  ASSUME NEW code, NEW pool, NEW pc, NEW f, NEW g, \A t \in pc+1..Len(code) : f[t] = g[t]
  PROVE  NodeOn(code, pool, pc, f) = NodeOn(code, pool, pc, g)
<1>1. \A t : From(code, pc, f, t) = From(code, pc, g, t) BY DEF From
<1> QED BY <1>1 DEF NodeOn

\* So there is a tree.
LEMMA TreeExists ==
  ASSUME NEW code \in Seq(Byte), NEW pool
  PROVE  \E f : Tree(code, pool, f)
<1> DEFINE len == Len(code)
           Grown(n, f) == f = [pc \in len-n..len |-> NodeOn(code, pool, pc, f)]
           T == {n \in Nat : n <= len => \E f : Grown(n, f)}
<1>1. len \in Nat BY LenProperties
<1>2. 0 \in T
  <2> DEFINE f == [pc \in len-0..len |-> NodeOn(code, pool, pc, << >>)]
  <2>1. \A pc \in len-0..len : NodeOn(code, pool, pc, << >>) = NodeOn(code, pool, pc, f)
    <3> TAKE pc \in len-0..len
    <3>1. pc + 1..Len(code) = {} BY <1>1
    <3> HIDE DEF f
    <3> QED BY <3>1, NodeLooksAhead
  <2>2. f = [pc \in len-0..len |-> NodeOn(code, pool, pc, f)]
    <3> DEFINE g == f
    <3>1. \A pc \in len-0..len : NodeOn(code, pool, pc, << >>) = NodeOn(code, pool, pc, g) BY <2>1
    <3>2. g = [pc \in len-0..len |-> NodeOn(code, pool, pc, << >>)] OBVIOUS
    <3> HIDE DEF g
    <3>3. g = [pc \in len-0..len |-> NodeOn(code, pool, pc, g)] BY <3>1, <3>2
    <3> QED BY <3>3 DEF g
  <2>3. Grown(0, f) BY <2>2
  <2> HIDE DEF Grown, f
  <2> QED BY <2>3
<1>3. ASSUME NEW n \in T PROVE n + 1 \in T
  <2> SUFFICES ASSUME n + 1 <= len PROVE \E f : Grown(n + 1, f)
    OBVIOUS
  <2>1. PICK f : Grown(n, f)
    <3> HIDE DEF Grown
    <3>1. n <= len BY <1>1
    <3> QED BY <3>1
  <2>2. PICK g : g = [pc \in len-(n+1)..len |-> NodeOn(code, pool, pc, f)]
    OBVIOUS
  <2>3. \A pc \in len-n..len : pc \in len-(n+1)..len BY <1>1
  <2>4. \A pc \in len-n..len : g[pc] = f[pc] BY <2>1, <2>2, <2>3
  <2>5. \A pc \in len-(n+1)..len : NodeOn(code, pool, pc, f) = NodeOn(code, pool, pc, g)
    <3> TAKE pc \in len-(n+1)..len
    <3>1. \A t \in pc+1..Len(code) : t \in len-n..len BY <1>1
    <3>2. \A t \in pc+1..Len(code) : f[t] = g[t] BY <2>4, <3>1
    <3> QED BY <3>2, NodeLooksAhead
  <2>6. Grown(n + 1, g) BY <2>2, <2>5
  <2> HIDE DEF Grown
  <2> QED BY <2>6
<1>4. \A n \in Nat : n \in T
  <2>1. T \subseteq Nat OBVIOUS
  <2> HIDE DEF T
  <2> QED BY <1>2, <1>3, <2>1, EveryNumber
<1>5. PICK f : Grown(len, f)
  <2> HIDE DEF Grown
  <2>1. len \in T BY <1>1, <1>4
  <2> QED BY <1>1, <2>1
<1>6. len - len = 0 BY <1>1
<1> QED BY <1>5, <1>6 DEF Tree

\* And Behaviour is its root.
LEMMA BehaviourIs ==
  ASSUME NEW code \in Seq(Byte), NEW pool
  PROVE  \E f : Behaviour(code, pool) = f[0] /\ Tree(code, pool, f)
<1> DEFINE Grows(f) ==
             f = [pc \in 0..Len(code) |->
                   LET op == ByteAt(code, pc)
                       next == pc + InstructionSize(code, pc)
                       pushed == ReadU16(code, pc + 1) + 1
                       To(t) == IF t \in pc+1..Len(code) THEN f[t] ELSE <<"goes elsewhere">>
                   IN  IF ~Decodable(code, pc) THEN <<"runs off">>
                       ELSE CASE op = HALT -> <<"halts">>
                              [] op = JUMP -> To(Target(code, pc))
                              [] op = JUMP_IF_FALSE -> <<"tests", To(next), To(Target(code, pc))>>
                              [] op = PUSH_CONST_F32 -> <<"pushes", IF pushed \in DOMAIN pool THEN <<pool[pushed]>> ELSE << >>, To(next)>>
                              [] OTHER -> <<"does", Instruction(code, pc), To(next)>>]
<1>1. \A f : Tree(code, pool, f) <=> Grows(f)
  BY DEF Tree, NodeOn, Node, From, Pushed
<1>2. \E f : Grows(f)
  <2> HIDE DEF Grows
  <2> QED BY <1>1, TreeExists
<1>3. PICK f : f = CHOOSE g : Grows(g)
  OBVIOUS
<1>4. Grows(f)
  <2> HIDE DEF Grows
  <2> QED BY <1>2, <1>3, Zenon
<1>5. Behaviour(code, pool) = f[0]
  BY <1>3 DEF Behaviour
<1>6. Tree(code, pool, f)
  <2> HIDE DEF Grows
  <2> QED BY <1>1, <1>4
<1> QED BY <1>5, <1>6

\* A tree of forward code, instruction by instruction.
Grew(c, pool, f) ==
  /\ f[Len(c)] = <<"runs off">>
  /\ \A x \in Starts(c) :
       /\ ByteAt(c, x) = HALT => f[x] = <<"halts">>
       /\ ByteAt(c, x) = JUMP => f[x] = f[Target(c, x)]
       /\ ByteAt(c, x) = JUMP_IF_FALSE => f[x] = <<"tests", f[Following(c, x)], f[Target(c, x)]>>
       /\ ByteAt(c, x) = PUSH_CONST_F32 => f[x] = <<"pushes", Pushed(c, pool, x), f[Following(c, x)]>>
       /\ ByteAt(c, x) \notin {HALT, JUMP, JUMP_IF_FALSE, PUSH_CONST_F32} =>
            f[x] = <<"does", Instruction(c, x), f[Following(c, x)]>>

LEMMA TreeGrew ==
  ASSUME NEW c, Forward(c), NEW pool, NEW f, Tree(c, pool, f)
  PROVE  Grew(c, pool, f)
<1>1. Len(c) \in Nat /\ \A x \in 0..Len(c) : f[x] = NodeOn(c, pool, x, f)
  BY ForwardFacts DEF Tree
<1>2. f[Len(c)] = <<"runs off">>
  <2>1. Len(c) \in 0..Len(c) /\ ~ (Len(c) < Len(c)) BY <1>1
  <2>2. ~Decodable(c, Len(c)) BY <2>1 DEF Decodable
  <2> QED BY <1>1, <2>1, <2>2 DEF NodeOn, Node
<1>3. ASSUME NEW x \in Starts(c)
      PROVE  /\ Decodable(c, x) /\ f[x] = NodeOn(c, pool, x, f)
             /\ From(c, x, f, x + InstructionSize(c, x)) = f[Following(c, x)]
             /\ ByteAt(c, x) \in JumpOp => From(c, x, f, Target(c, x)) = f[Target(c, x)]
  <2>1. x \in Nat /\ x < Len(c) /\ x \in 0..Len(c) BY <1>1, ForwardFacts
  <2>2. Decodable(c, x) BY DEF Forward, Decodes
  <2>3. x + InstructionSize(c, x) \in x+1..Len(c)
    <3>1. InstructionSize(c, x) \in 1..3 BY Sizes
    <3>2. x + InstructionSize(c, x) <= Len(c) BY <2>2 DEF Decodable, InstructionSize
    <3> QED BY <1>1, <2>1, <3>1, <3>2
  <2>4. ASSUME ByteAt(c, x) \in JumpOp PROVE Target(c, x) \in x+1..Len(c)
    <3>1. x \in Jumps(c) BY <2>4 DEF Jumps
    <3>2. Target(c, x) > x /\ Target(c, x) \in Starts(c) BY <3>1 DEF Forward
    <3>3. Target(c, x) \in Nat /\ Target(c, x) < Len(c) BY <3>2, ForwardFacts
    <3> QED BY <1>1, <2>1, <3>2, <3>3
  <2> QED BY <1>1, <2>1, <2>2, <2>3, <2>4 DEF From, Following
<1>4. ASSUME NEW x \in Starts(c)
      PROVE  /\ ByteAt(c, x) = HALT => f[x] = <<"halts">>
             /\ ByteAt(c, x) = JUMP => f[x] = f[Target(c, x)]
             /\ ByteAt(c, x) = JUMP_IF_FALSE => f[x] = <<"tests", f[Following(c, x)], f[Target(c, x)]>>
             /\ ByteAt(c, x) = PUSH_CONST_F32 => f[x] = <<"pushes", Pushed(c, pool, x), f[Following(c, x)]>>
             /\ ByteAt(c, x) \notin {HALT, JUMP, JUMP_IF_FALSE, PUSH_CONST_F32} =>
                  f[x] = <<"does", Instruction(c, x), f[Following(c, x)]>>
  <2> DEFINE onward == f[Following(c, x)]
             aside == From(c, x, f, Target(c, x))
  <2>1. f[x] = Node(c, pool, x, onward, aside) /\ Decodable(c, x)
    BY <1>3 DEF NodeOn
  <2>2. ByteAt(c, x) \in JumpOp => aside = f[Target(c, x)] BY <1>3
  <2> HIDE DEF onward, aside
  <2>3. /\ ByteAt(c, x) = HALT => f[x] = <<"halts">>
        /\ ByteAt(c, x) = JUMP => f[x] = aside
        /\ ByteAt(c, x) = JUMP_IF_FALSE => f[x] = <<"tests", onward, aside>>
        /\ ByteAt(c, x) = PUSH_CONST_F32 => f[x] = <<"pushes", Pushed(c, pool, x), onward>>
        /\ ByteAt(c, x) \notin {HALT, JUMP, JUMP_IF_FALSE, PUSH_CONST_F32} => f[x] = <<"does", Instruction(c, x), onward>>
    BY <2>1 DEF Node, HALT, JUMP, JUMP_IF_FALSE, PUSH_CONST_F32
  <2>4. ByteAt(c, x) = JUMP => f[x] = f[Target(c, x)] BY <2>2, <2>3 DEF JumpOp
  <2>5. ByteAt(c, x) = JUMP_IF_FALSE => f[x] = <<"tests", onward, f[Target(c, x)]>> BY <2>2, <2>3 DEF JumpOp
  <2> QED BY <2>3, <2>4, <2>5 DEF onward
<1> QED BY <1>2, <1>4 DEF Grew

\* In d, x of c has become nothing: it is a jump to where m takes it anyway.
Skipped(c, X, m, x) ==
  x \in Starts(c) /\ ByteAt(c, x) = JUMP /\ Target(c, x) \in X /\ m[Target(c, x)] = m[x]

\* In d, the instruction at x of c is at m[x], with the same instruction after it; a jump
\* leads to where c goes as well, be it in more steps (f is the tree of c).
Carried(c, pool, f, d, left, X, m, x) ==
  /\ x \in Starts(c) /\ m[x] \in Starts(d) /\ ByteAt(d, m[x]) = ByteAt(c, x)
  /\ ByteAt(c, x) \notin {HALT, JUMP} => Following(c, x) \in X /\ m[Following(c, x)] = Following(d, m[x])
  /\ ByteAt(c, x) \in JumpOp => \E z \in X : z > x /\ f[z] = f[Target(c, x)] /\ Target(d, m[x]) = m[z]
  /\ ByteAt(c, x) = PUSH_CONST_F32 => Pushed(d, left, m[x]) = Pushed(c, pool, x)
  /\ ByteAt(c, x) \notin {HALT, JUMP, JUMP_IF_FALSE, PUSH_CONST_F32} => Instruction(d, m[x]) = Instruction(c, x)

Mirrored(c, pool, f, d, left, X, m) ==
  \A x \in X : \/ x = Len(c) /\ m[x] = Len(d)
               \/ Skipped(c, X, m, x)
               \/ Carried(c, pool, f, d, left, X, m, x)

Alike(X, m, f, g) == \A x \in X : g[m[x]] = f[x]

\* Then d does at m[x] what c does at x: from the end of the code down.
LEMMA MirrorsDo ==
  ASSUME NEW c, Forward(c), NEW pool, NEW f, Grew(c, pool, f),
         NEW d, Forward(d), NEW left, NEW g, Grew(d, left, g),
         NEW X \in SUBSET (Starts(c) \cup {Len(c)}), NEW m, Mirrored(c, pool, f, d, left, X, m)
  PROVE  Alike(X, m, f, g)
<1> DEFINE T == {n \in Nat : \A x \in X : x >= Len(c) - n => g[m[x]] = f[x]}
<1>1. Len(c) \in Nat /\ \A x \in X : x \in Nat /\ x <= Len(c)
  BY ForwardFacts
<1>2. ASSUME NEW x \in X, \A y \in X : y > x => g[m[y]] = f[y]
      PROVE  g[m[x]] = f[x]
  <2>1. CASE x = Len(c) /\ m[x] = Len(d)
    BY <2>1 DEF Grew
  <2>2. CASE Skipped(c, X, m, x)
    <3>1. x \in Starts(c) /\ ByteAt(c, x) = JUMP /\ Target(c, x) \in X /\ m[Target(c, x)] = m[x] BY <2>2 DEF Skipped
    <3>2. f[x] = f[Target(c, x)] BY <3>1 DEF Grew
    <3>3. Target(c, x) > x
      <4>1. x \in Jumps(c) BY <3>1, ForwardFacts
      <4> QED BY <4>1 DEF Forward
    <3> QED BY <1>2, <3>1, <3>2, <3>3
  <2>3. CASE Carried(c, pool, f, d, left, X, m, x)
    <3> DEFINE op == ByteAt(c, x)
    <3>1. x \in Starts(c) /\ m[x] \in Starts(d) /\ ByteAt(d, m[x]) = op BY <2>3 DEF Carried
    <3>2. op \notin {HALT, JUMP} => g[Following(d, m[x])] = f[Following(c, x)]
      <4> SUFFICES ASSUME op \notin {HALT, JUMP} PROVE g[Following(d, m[x])] = f[Following(c, x)]
        OBVIOUS
      <4>1. Following(c, x) \in X /\ m[Following(c, x)] = Following(d, m[x]) BY <2>3 DEF Carried
      <4>2. Following(c, x) > x
        <5>1. InstructionSize(c, x) \in 1..3 /\ x \in Nat BY <1>1, Sizes
        <5> QED BY <5>1 DEF Following
      <4> QED BY <1>2, <4>1, <4>2
    <3>3. op \in JumpOp => g[Target(d, m[x])] = f[Target(c, x)]
      <4> SUFFICES ASSUME op \in JumpOp PROVE g[Target(d, m[x])] = f[Target(c, x)]
        OBVIOUS
      <4>1. PICK z \in X : z > x /\ f[z] = f[Target(c, x)] /\ Target(d, m[x]) = m[z] BY <2>3 DEF Carried
      <4> QED BY <1>2, <4>1
    <3>4. CASE op = HALT BY <3>1, <3>4 DEF Grew
    <3>5. CASE op = JUMP
      <4>1. g[m[x]] = g[Target(d, m[x])] /\ f[x] = f[Target(c, x)] BY <3>1, <3>5 DEF Grew
      <4> QED BY <3>3, <3>5, <4>1 DEF JumpOp
    <3>6. CASE op = JUMP_IF_FALSE
      <4>1. /\ g[m[x]] = <<"tests", g[Following(d, m[x])], g[Target(d, m[x])]>>
            /\ f[x] = <<"tests", f[Following(c, x)], f[Target(c, x)]>>
        BY <3>1, <3>6 DEF Grew
      <4>2. op \in JumpOp /\ op \notin {HALT, JUMP} BY <3>6 DEF JumpOp, HALT, JUMP, JUMP_IF_FALSE
      <4> QED BY <3>2, <3>3, <4>1, <4>2
    <3>7. CASE op = PUSH_CONST_F32
      <4>1. /\ g[m[x]] = <<"pushes", Pushed(d, left, m[x]), g[Following(d, m[x])]>>
            /\ f[x] = <<"pushes", Pushed(c, pool, x), f[Following(c, x)]>>
        BY <3>1, <3>7 DEF Grew
      <4>2. op \notin {HALT, JUMP} BY <3>7 DEF HALT, JUMP, PUSH_CONST_F32
      <4>3. Pushed(d, left, m[x]) = Pushed(c, pool, x) BY <2>3, <3>7 DEF Carried
      <4> QED BY <3>2, <4>1, <4>2, <4>3
    <3>8. CASE op \notin {HALT, JUMP, JUMP_IF_FALSE, PUSH_CONST_F32}
      <4>1. /\ g[m[x]] = <<"does", Instruction(d, m[x]), g[Following(d, m[x])]>>
            /\ f[x] = <<"does", Instruction(c, x), f[Following(c, x)]>>
        BY <3>1, <3>8 DEF Grew
      <4>2. Instruction(d, m[x]) = Instruction(c, x) BY <2>3, <3>8 DEF Carried
      <4> QED BY <3>2, <3>8, <4>1, <4>2
    <3> QED BY <3>4, <3>5, <3>6, <3>7, <3>8
  <2> QED BY <2>1, <2>2, <2>3 DEF Mirrored
<1>3. 0 \in T
  <2> SUFFICES ASSUME NEW x \in X, x >= Len(c) - 0 PROVE g[m[x]] = f[x]
    OBVIOUS
  <2>1. \A y \in X : ~ (y > x) BY <1>1
  <2> QED BY <1>2, <2>1
<1>4. ASSUME NEW n \in T PROVE n + 1 \in T
  <2> SUFFICES ASSUME NEW x \in X, x >= Len(c) - (n + 1) PROVE g[m[x]] = f[x]
    OBVIOUS
  <2>1. \A y \in X : y > x => y >= Len(c) - n BY <1>1
  <2>2. \A y \in X : y > x => g[m[y]] = f[y] BY <2>1
  <2> QED BY <1>2, <2>2
<1>5. \A n \in Nat : n \in T
  <2>1. T \subseteq Nat OBVIOUS
  <2> HIDE DEF T
  <2> QED BY <1>3, <1>4, <2>1, EveryNumber
<1>6. Len(c) \in T /\ \A x \in X : x >= Len(c) - Len(c)
  <2>1. Len(c) \in T
    <3> HIDE DEF T
    <3> QED BY <1>1, <1>5
  <2> QED BY <1>1, <2>1
<1> QED BY <1>6 DEF Alike

\* A mirror of c from its first instruction behaves as c does.
LEMMA MirrorBehaves ==
  ASSUME NEW c, Forward(c), NEW pool, NEW d, Forward(d), NEW left, NEW m,
         \A f : Grew(c, pool, f) =>
           \E X \in SUBSET (Starts(c) \cup {Len(c)}) : 0 \in X /\ m[0] = 0 /\ Mirrored(c, pool, f, d, left, X, m)
  PROVE  Behaviour(d, left) = Behaviour(c, pool)
<1>1. c \in Seq(Byte) /\ d \in Seq(Byte) BY DEF Forward
<1>2. PICK f : Behaviour(c, pool) = f[0] /\ Tree(c, pool, f) BY <1>1, BehaviourIs
<1>3. PICK g : Behaviour(d, left) = g[0] /\ Tree(d, left, g) BY <1>1, BehaviourIs
<1>4. Grew(c, pool, f) /\ Grew(d, left, g) BY <1>2, <1>3, TreeGrew
<1>5. PICK X \in SUBSET (Starts(c) \cup {Len(c)}) : 0 \in X /\ m[0] = 0 /\ Mirrored(c, pool, f, d, left, X, m)
  BY <1>4
<1>6. g[m[0]] = f[0]
  <2>1. Alike(X, m, f, g) BY <1>4, <1>5, MirrorsDo
  <2> QED BY <1>5, <2>1 DEF Alike
<1> QED BY <1>2, <1>3, <1>5, <1>6

\* An instruction is its bytes.
LEMMA SameInstruction ==
  ASSUME NEW c \in Seq(Byte), NEW d \in Seq(Byte), NEW x \in Nat, NEW y \in Nat,
         InstructionSize(d, y) = InstructionSize(c, x),
         x + InstructionSize(c, x) <= Len(c), y + InstructionSize(c, x) <= Len(d),
         \A k \in 0..InstructionSize(c, x)-1 : ByteAt(d, y + k) = ByteAt(c, x + k)
  PROVE  Instruction(d, y) = Instruction(c, x)
<1> DEFINE n == InstructionSize(c, x)
           s == SubSeq(c, x + 1, x + n)
           t == SubSeq(d, y + 1, y + n)
<1>1. n \in 1..3 /\ Len(c) \in Nat /\ Len(d) \in Nat BY Sizes, LenProperties
<1>2. Instruction(c, x) = s /\ Instruction(d, y) = t BY DEF Instruction
<1> HIDE DEF n
<1>3. /\ \A i \in x+1..x+n : c[i] \in Byte
      /\ \A i \in y+1..y+n : d[i] \in Byte
  <2>1. \A i \in x+1..x+n : i \in 1..Len(c) BY <1>1 DEF n
  <2>2. \A i \in y+1..y+n : i \in 1..Len(d) BY <1>1 DEF n
  <2> QED BY <2>1, <2>2, ElementOfSeq
<1>4. /\ s \in Seq(Byte) /\ Len(s) = n
      /\ \A i \in 1..n : s[i] = c[x + i]
  <2>1. /\ s \in Seq(Byte) /\ Len(s) = IF x + 1 <= x + n THEN x + n - (x + 1) + 1 ELSE 0
        /\ \A i \in 1..x+n-(x+1)+1 : s[i] = c[x + 1 + i - 1]
    BY <1>1, <1>3, SubSeqProperties
  <2>2. x + 1 <= x + n /\ x + n - (x + 1) + 1 = n /\ \A i \in 1..n : x + 1 + i - 1 = x + i BY <1>1
  <2> HIDE DEF s
  <2> QED BY <2>1, <2>2
<1>5. /\ t \in Seq(Byte) /\ Len(t) = n
      /\ \A i \in 1..n : t[i] = d[y + i]
  <2>1. /\ t \in Seq(Byte) /\ Len(t) = IF y + 1 <= y + n THEN y + n - (y + 1) + 1 ELSE 0
        /\ \A i \in 1..y+n-(y+1)+1 : t[i] = d[y + 1 + i - 1]
    BY <1>1, <1>3, SubSeqProperties
  <2>2. y + 1 <= y + n /\ y + n - (y + 1) + 1 = n /\ \A i \in 1..n : y + 1 + i - 1 = y + i BY <1>1
  <2> HIDE DEF t
  <2> QED BY <2>1, <2>2
<1>6. \A i \in 1..n : d[y + i] = c[x + i]
  <2> TAKE i \in 1..n
  <2>1. i - 1 \in 0..n-1 /\ y + (i - 1) + 1 = y + i /\ x + (i - 1) + 1 = x + i BY <1>1
  <2>2. ByteAt(d, y + (i - 1)) = ByteAt(c, x + (i - 1)) BY <2>1 DEF n
  <2> QED BY <2>1, <2>2 DEF ByteAt
<1> HIDE DEF s, t
<1>7. s = t
  <2>1. \A i \in 1..n : s[i] = t[i] BY <1>4, <1>5, <1>6
  <2> QED BY <1>4, <1>5, <2>1, SeqEqual
<1> QED BY <1>2, <1>7

\* d has the instructions of c where c has them, but for where jumps go and which
\* numbers the constants have.
SamePlaces(c, pool, d, left) ==
  /\ Forward(c) /\ Forward(d)
  /\ Len(d) = Len(c) /\ Starts(d) = Starts(c)
  /\ \A x \in Starts(c) : ByteAt(d, x) = ByteAt(c, x) /\ Following(d, x) = Following(c, x)
  /\ \A x \in Starts(c) \ (Jumps(c) \cup Pushing(c)) : \A j \in x..Following(c, x)-1 : ByteAt(d, j) = ByteAt(c, j)
  /\ \A x \in Pushing(c) : Pushed(d, left, x) = Pushed(c, pool, x)

\* What is left to show is where the jumps go.
LEMMA SamePlacesBehave ==
  ASSUME NEW c, NEW pool, NEW d, NEW left, SamePlaces(c, pool, d, left),
         \A f : Grew(c, pool, f) => \A x \in Jumps(c) :
           Target(d, x) \in Starts(c) /\ Target(d, x) > x /\ f[Target(d, x)] = f[Target(c, x)]
  PROVE  Behaviour(d, left) = Behaviour(c, pool)
<1> DEFINE m == [i \in 0..Len(c) |-> i]
           X == Starts(c) \cup {Len(c)}
<1>1. /\ Forward(c) /\ Forward(d) /\ Len(d) = Len(c) /\ Starts(d) = Starts(c)
      /\ \A x \in Starts(c) : ByteAt(d, x) = ByteAt(c, x) /\ Following(d, x) = Following(c, x)
  BY DEF SamePlaces
<1>2. Len(c) \in Nat /\ \A x \in X : x \in 0..Len(c) /\ m[x] = x
  <2>1. Len(c) \in Nat /\ \A x \in Starts(c) : x \in Nat /\ x < Len(c) BY <1>1, ForwardFacts
  <2>2. \A x \in X : x \in 0..Len(c) BY <2>1
  <2> QED BY <2>1, <2>2
<1>3. 0 \in X /\ m[0] = 0
  <2>1. 0 \in X
    <3>1. CASE c = << >>
      <4>1. Len(c) = 0 BY <3>1, EmptySeq
      <4> QED BY <4>1
    <3>2. CASE c # << >> BY <1>1, <3>2, StartsClosed DEF Forward
    <3> QED BY <3>1, <3>2
  <2> QED BY <1>2, <2>1
<1>4. ASSUME NEW x \in Starts(c)
      PROVE  /\ Following(c, x) \in X
             /\ x \in Nat /\ x + InstructionSize(c, x) <= Len(c) /\ InstructionSize(d, x) = InstructionSize(c, x)
  <2>1. c # << >> BY DEF Starts
  <2>2. Tiled(c) BY <1>1, <2>1, ForwardTiled
  <2>3. InstructionSize(d, x) = InstructionSize(c, x) BY <1>1 DEF InstructionSize
  <2> QED BY <2>2, <2>3 DEF Tiled
<1>5. ASSUME NEW x \in Starts(c), ByteAt(c, x) \notin {HALT, JUMP, JUMP_IF_FALSE, PUSH_CONST_F32}
      PROVE  Instruction(d, x) = Instruction(c, x)
  <2>1. x \in Starts(c) \ (Jumps(c) \cup Pushing(c)) BY <1>5 DEF Jumps, Pushing, JumpOp
  <2>2. \A j \in x..Following(c, x)-1 : ByteAt(d, j) = ByteAt(c, j) BY <2>1 DEF SamePlaces
  <2>3. x \in Nat /\ InstructionSize(c, x) \in 1..3 BY <1>4, Sizes
  <2>4. \A k \in 0..InstructionSize(c, x)-1 : x + k \in x..Following(c, x)-1 BY <2>3 DEF Following
  <2>5. \A k \in 0..InstructionSize(c, x)-1 : ByteAt(d, x + k) = ByteAt(c, x + k) BY <2>2, <2>4
  <2> QED BY <1>1, <1>4, <2>5, SameInstruction DEF Forward
<1>6. ASSUME NEW f, Grew(c, pool, f)
      PROVE  Mirrored(c, pool, f, d, left, X, m)
  <2>1. ASSUME NEW x \in Starts(c) PROVE Carried(c, pool, f, d, left, X, m, x)
    <3>1. m[x] = x /\ Following(c, x) \in X /\ m[Following(c, x)] = Following(d, x)
      BY <1>1, <1>2, <1>4
    <3>2. ASSUME ByteAt(c, x) \in JumpOp
          PROVE  \E z \in X : z > x /\ f[z] = f[Target(c, x)] /\ Target(d, m[x]) = m[z]
      <4>1. x \in Jumps(c) BY <3>2 DEF Jumps
      <4>2. Target(d, x) \in Starts(c) /\ Target(d, x) > x /\ f[Target(d, x)] = f[Target(c, x)] BY <1>6, <4>1
      <4>3. Target(d, x) \in X /\ m[Target(d, x)] = Target(d, x) BY <1>2, <4>2
      <4> QED BY <3>1, <4>2, <4>3
    <3>3. ByteAt(c, x) = PUSH_CONST_F32 => Pushed(d, left, x) = Pushed(c, pool, x)
      BY DEF Pushing, SamePlaces
    <3> HIDE DEF X, m
    <3> QED BY <1>1, <1>5, <3>1, <3>2, <3>3 DEF Carried
  <2>2. Len(c) \in X /\ m[Len(c)] = Len(d) BY <1>1, <1>2
  <2> QED BY <2>1, <2>2 DEF Mirrored
<1>7. X \in SUBSET (Starts(c) \cup {Len(c)}) OBVIOUS
<1> HIDE DEF X, m
<1> QED BY <1>1, <1>3, <1>6, <1>7, MirrorBehaves

-----------------------------------------------------------------------------
(* No pass changes what the code does *)

\* Threading one jump leads to where its chain leads.
LEMMA ThreadOneBehaves ==
  ASSUME NEW c, Forward(c), NEW p \in Jumps(c), NEW pool
  PROVE  Behaviour(ThreadOne(c, p), pool) = Behaviour(c, pool)
<1> DEFINE d == ThreadOne(c, p)
           t == Target(c, p)
<1>1. /\ Moved(c, d) /\ Target(d, p) = Threaded(c, t, Len(c))
      /\ \A q \in Jumps(c) : q # p => Target(d, q) = Target(c, q)
  BY ThreadOneMoves
<1> HIDE DEF d
<1>2. SamePlaces(c, pool, d, pool)
  <2>1. \A x \in Pushing(c) : ReadU16(d, x + 1) = ReadU16(c, x + 1) BY <1>1, MovedPushes
  <2>2. \A x \in Pushing(c) : Pushed(d, pool, x) = Pushed(c, pool, x) BY <2>1 DEF Pushed
  <2> QED BY <1>1, <2>2 DEF SamePlaces, Moved
<1>3. ASSUME NEW f, Grew(c, pool, f), NEW x \in Jumps(c)
      PROVE  Target(d, x) \in Starts(c) /\ Target(d, x) > x /\ f[Target(d, x)] = f[Target(c, x)]
  <2>1. Target(c, x) \in Starts(c) /\ Target(c, x) > x BY DEF Forward
  <2>2. CASE x # p BY <1>1, <2>1, <2>2
  <2>3. CASE x = p
    <3> DEFINE u == Threaded(c, t, Len(c))
               T == {q \in Starts(c) : f[q] = f[t]}
    <3>1. t \in Starts(c) /\ t > p BY <2>1, <2>3
    <3>2. \A q \in T \cap Starts(c) : ByteAt(c, q) = JUMP => Target(c, q) \in T
      <4> SUFFICES ASSUME NEW q \in T, ByteAt(c, q) = JUMP PROVE Target(c, q) \in T
        OBVIOUS
      <4>1. q \in Jumps(c) BY ForwardFacts
      <4>2. Target(c, q) \in Starts(c) BY <4>1 DEF Forward
      <4>3. f[q] = f[Target(c, q)] BY <1>3 DEF Grew
      <4> QED BY <4>2, <4>3
    <3>3. t \in T BY <3>1
    <3>4. /\ u \in Starts(c) /\ u >= t
          /\ \A S : t \in S /\ (\A q \in S \cap Starts(c) : ByteAt(c, q) = JUMP => Target(c, q) \in S) => u \in S
      <4> HIDE DEF t
      <4> QED BY <3>1, ThreadedIs
    <3>5. u \in T
      <4> HIDE DEF T, u, t
      <4> QED BY <3>2, <3>3, <3>4
    <3>6. u > p
      <4>1. u \in Nat /\ t \in Nat /\ p \in Nat
        <5>1. p \in Starts(c) BY DEF Jumps
        <5> QED BY <3>1, <3>4, <5>1, ForwardFacts
      <4> HIDE DEF u, t
      <4> QED BY <3>1, <3>4, <4>1
    <3> QED BY <1>1, <2>3, <3>4, <3>5, <3>6
  <2> QED BY <2>2, <2>3
<1>4. Behaviour(d, pool) = Behaviour(c, pool) BY <1>2, <1>3, SamePlacesBehave
<1> QED BY <1>4 DEF d

\* So does threading one after the other.
LEMMA ThreadJumpsBehaves ==
  ASSUME NEW c, Forward(c), NEW pool
  PROVE  Behaviour(ThreadJumps(c), pool) = Behaviour(c, pool)
<1>1. PICK passed : /\ ThreadJumps(c) = passed[Len(c)]
                    /\ passed[0] = c
                    /\ \A k \in 0..Len(c)-1 :
                         passed[k + 1] = IF k \in Jumps(c) THEN ThreadOne(passed[k], k) ELSE passed[k]
                    /\ \A k \in 0..Len(c) : Moved(c, passed[k])
  BY ThreadJumpsSteps
<1> DEFINE T == {k \in Nat : k <= Len(c) => Behaviour(passed[k], pool) = Behaviour(c, pool)}
<1>2. Len(c) \in Nat BY ForwardFacts
<1>3. 0 \in T BY <1>1
<1>4. ASSUME NEW k \in T PROVE k + 1 \in T
  <2> SUFFICES ASSUME k + 1 <= Len(c) PROVE Behaviour(passed[k + 1], pool) = Behaviour(c, pool)
    OBVIOUS
  <2>1. k \in 0..Len(c)-1 /\ k \in 0..Len(c) /\ k <= Len(c) BY <1>2
  <2>2. Behaviour(passed[k], pool) = Behaviour(c, pool) BY <2>1
  <2>3. Forward(passed[k]) /\ Jumps(passed[k]) = Jumps(c) BY <1>1, <2>1 DEF Moved
  <2>4. CASE k \in Jumps(c)
    <3>1. passed[k + 1] = ThreadOne(passed[k], k) BY <1>1, <2>1, <2>4
    <3>2. Behaviour(ThreadOne(passed[k], k), pool) = Behaviour(passed[k], pool)
      BY <2>3, <2>4, ThreadOneBehaves
    <3> QED BY <2>2, <3>1, <3>2
  <2>5. CASE k \notin Jumps(c)
    <3>1. passed[k + 1] = passed[k] BY <1>1, <2>1, <2>5
    <3> QED BY <2>2, <3>1
  <2> QED BY <2>4, <2>5
<1>5. Len(c) \in T
  <2>1. T \subseteq Nat OBVIOUS
  <2> HIDE DEF T
  <2> QED BY <1>2, <1>3, <1>4, <2>1, EveryNumber
<1> QED BY <1>1, <1>2, <1>5

\* The constants that are used are left, each at the number of those used below it.
SameConstants(used, pool, left) ==
  /\ DOMAIN pool = 1..Len(pool) /\ DOMAIN left = 1..Len(left) /\ Len(pool) \in Nat
  /\ used \subseteq 0..Len(pool)-1
  /\ \A i \in used : Count(used, i) + 1 \in 1..Len(left) /\ left[Count(used, i) + 1] = pool[i + 1]

\* The numbers of the constants that are left are those of the same constants.
LEMMA RenamedBehaves ==
  ASSUME NEW c, Forward(c), NEW used, NEW d, Renamed(c, used, d), NEW pool, NEW left,
         SameConstants(used, pool, left), PushedBy(c) \subseteq used
  PROVE  Behaviour(d, left) = Behaviour(c, pool)
<1> USE DEF SameConstants
<1>1. ASSUME NEW x \in Pushing(c) PROVE Pushed(d, left, x) = Pushed(c, pool, x)
  <2> DEFINE i == ReadU16(c, x + 1)
  <2>1. i \in used BY PushingFacts
  <2>2. i \in 0..Len(pool)-1 BY <2>1
  <2>3. ReadU16(d, x + 1) = Count(used, i) BY DEF Renamed
  <2> HIDE DEF i
  <2>4. i + 1 \in DOMAIN pool BY <2>2
  <2>5. Count(used, i) + 1 \in DOMAIN left /\ left[Count(used, i) + 1] = pool[i + 1] BY <2>1
  <2>6. Pushed(c, pool, x) = <<pool[i + 1]>> BY <2>4 DEF Pushed, i
  <2>7. Pushed(d, left, x) = <<left[Count(used, i) + 1]>> BY <2>3, <2>5 DEF Pushed
  <2> QED BY <2>5, <2>6, <2>7
<1>2. SamePlaces(c, pool, d, left)
  BY <1>1 DEF SamePlaces, Renamed
<1>3. \A x \in Jumps(c) : Target(d, x) = Target(c, x) /\ Target(c, x) > x /\ Target(c, x) \in Starts(c)
  BY DEF Renamed, Forward
<1> QED BY <1>2, <1>3, SamePlacesBehave

\* The offsets that a removal must respect: closed under going on, and where an
\* instruction is dropped it is a jump to where the code goes on anyway.
Respected(c, dropped, X) ==
  /\ X \in SUBSET (Starts(c) \cup {Len(c)}) /\ 0 \in X
  /\ \A x \in X \cap Starts(c) \cap dropped :
       ByteAt(c, x) = JUMP /\ Target(c, x) \in X /\ Target(c, x) = Following(c, x)
  /\ \A x \in (X \cap Starts(c)) \ dropped :
       /\ ByteAt(c, x) \notin {HALT, JUMP} => Following(c, x) \in X
       /\ ByteAt(c, x) \in JumpOp => Target(c, x) \in X

\* The instructions that are left keep their bytes, but for where jumps go.
LEMMA SqueezedInstructions ==
  ASSUME NEW c, Forward(c), c # << >>, NEW dropped, NEW d, Squeezed(c, dropped, d),
         NEW x \in Starts(c) \ dropped, NEW pool
  PROVE  LET y == Place(c, dropped, x) IN
         /\ ByteAt(c, x) = PUSH_CONST_F32 => Pushed(d, pool, y) = Pushed(c, pool, x)
         /\ ByteAt(c, x) \notin {HALT, JUMP, JUMP_IF_FALSE, PUSH_CONST_F32} => Instruction(d, y) = Instruction(c, x)
<1> DEFINE y == Place(c, dropped, x)
           n == InstructionSize(c, x)
<1>1. Tiled(c) BY ForwardTiled
<1>2. x \in Nat /\ x + n <= Len(c) BY <1>1 DEF Tiled
<1>3. y \in Nat BY <1>1, <1>2, PlaceIs
<1>4. y \in Starts(d) /\ InstructionSize(d, y) = n /\ Forward(d) /\ d # << >> BY DEF Squeezed
<1>5. y + n <= Len(d)
  <2>1. Tiled(d) BY <1>4, ForwardTiled
  <2> HIDE DEF y
  <2>2. Following(d, y) = y + InstructionSize(d, y) /\ Following(d, y) <= Len(d) BY <1>4, <2>1 DEF Tiled
  <2> QED BY <1>4, <2>2
<1>6. x \notin Jumps(c) => \A k \in 0..n-1 : ByteAt(d, y + k) = ByteAt(c, x + k)
  <2>1. Removed(c, dropped, d) BY DEF Squeezed
  <2> QED BY <2>1 DEF Removed
<1> HIDE DEF y
<1>7. ASSUME ByteAt(c, x) = PUSH_CONST_F32 PROVE Pushed(d, pool, y) = Pushed(c, pool, x)
  <2>1. x \in Pushing(c) BY <1>7 DEF Pushing
  <2>2. x \notin Jumps(c) /\ x \in Long(c) BY <2>1, PushingFacts
  <2>3. n = 3 BY <2>2 DEF Long
  <2>4. \A k \in 0..2 : ByteAt(d, y + k) = ByteAt(c, x + k) BY <1>6, <2>2, <2>3
  <2>5. ByteAt(d, y + 1) = ByteAt(c, x + 1) /\ ByteAt(d, y + 2) = ByteAt(c, x + 2) BY <2>4
  <2>6. x + 1 + 1 = x + 2 /\ y + 1 + 1 = y + 2 BY <1>2, <1>3
  <2>7. ReadU16(d, y + 1) = ReadU16(c, x + 1) BY <2>5, <2>6 DEF ReadU16
  <2> QED BY <2>7 DEF Pushed
<1>8. ASSUME ByteAt(c, x) \notin {HALT, JUMP, JUMP_IF_FALSE, PUSH_CONST_F32} PROVE Instruction(d, y) = Instruction(c, x)
  <2>1. x \notin Jumps(c) BY <1>8 DEF Jumps, JumpOp
  <2>2. \A k \in 0..n-1 : ByteAt(d, y + k) = ByteAt(c, x + k) BY <1>6, <2>1
  <2> QED BY <1>2, <1>3, <1>4, <1>5, <2>2, SameInstruction DEF Forward
<1> QED BY <1>7, <1>8 DEF y

LEMMA SqueezedBehaves ==
  ASSUME NEW c, Forward(c), c # << >>, NEW dropped, NEW d, Squeezed(c, dropped, d),
         NEW X, Respected(c, dropped, X), NEW pool
  PROVE  Behaviour(d, pool) = Behaviour(c, pool)
<1> DEFINE m == [i \in 0..Len(c) |-> Place(c, dropped, i)]
<1>1. Tiled(c) BY ForwardTiled
<1>2. /\ Len(c) \in Nat
      /\ \A x \in Starts(c) : /\ x \in Nat /\ x < Len(c) /\ Following(c, x) \in Nat /\ Following(c, x) <= Len(c)
                              /\ x < Following(c, x)
  BY <1>1, ForwardFacts DEF Tiled
<1>3. \A x \in X : x \in 0..Len(c) /\ m[x] = Place(c, dropped, x)
  <2>1. \A x \in X : x \in Starts(c) \/ x = Len(c) BY DEF Respected
  <2>2. \A x \in X : x \in 0..Len(c) BY <1>2, <2>1
  <2> QED BY <2>2
<1>4. 0 \in X /\ m[0] = 0
  <2>1. 0 \in X BY DEF Respected
  <2> QED BY <1>1, <1>3, <2>1, PlaceIs
<1> HIDE DEF m
<1>5. ASSUME NEW f, Grew(c, pool, f) PROVE Mirrored(c, pool, f, d, pool, X, m)
  <2>1. ASSUME NEW x \in X, x = Len(c) PROVE m[x] = Len(d)
    <3>1. Len(d) = Place(c, dropped, Len(c)) BY DEF Squeezed, Removed
    <3> QED BY <1>3, <2>1, <3>1
  <2>2. ASSUME NEW x \in X, x \in Starts(c), x \in dropped PROVE Skipped(c, X, m, x)
    <3>1. ByteAt(c, x) = JUMP /\ Target(c, x) \in X /\ Target(c, x) = Following(c, x)
      BY <2>2 DEF Respected
    <3>2. Place(c, dropped, Following(c, x)) = Place(c, dropped, x) BY <1>1, <2>2, PlaceIs
    <3>3. m[Target(c, x)] = m[x] BY <1>3, <3>1, <3>2
    <3> QED BY <2>2, <3>1, <3>3 DEF Skipped
  <2>3. ASSUME NEW x \in X, x \in Starts(c), x \notin dropped PROVE Carried(c, pool, f, d, pool, X, m, x)
    <3>1. m[x] = Place(c, dropped, x) /\ x \in Starts(c) \ dropped BY <1>3, <2>3
    <3>2. m[x] \in Starts(d) /\ ByteAt(d, m[x]) = ByteAt(c, x) BY <3>1 DEF Squeezed
    <3>3. ByteAt(c, x) \notin {HALT, JUMP} => Following(c, x) \in X /\ m[Following(c, x)] = Following(d, m[x])
      <4>1. ByteAt(c, x) \notin {HALT, JUMP} => Following(c, x) \in X BY <2>3 DEF Respected
      <4>2. Following(d, m[x]) = Place(c, dropped, Following(c, x)) BY <3>1 DEF Squeezed
      <4> QED BY <1>3, <4>1, <4>2
    <3>4. ASSUME ByteAt(c, x) \in JumpOp
          PROVE  \E z \in X : z > x /\ f[z] = f[Target(c, x)] /\ Target(d, m[x]) = m[z]
      <4>1. x \in Jumps(c) \ dropped BY <2>3, <3>4 DEF Jumps
      <4>2. Target(c, x) > x BY <4>1 DEF Forward
      <4>3. Target(c, x) \in X BY <2>3, <3>4 DEF Respected
      <4>4. Target(d, m[x]) = Place(c, dropped, Target(c, x)) BY <3>1, <4>1 DEF Squeezed
      <4> QED BY <1>3, <4>2, <4>3, <4>4
    <3>5. /\ ByteAt(c, x) = PUSH_CONST_F32 => Pushed(d, pool, m[x]) = Pushed(c, pool, x)
          /\ ByteAt(c, x) \notin {HALT, JUMP, JUMP_IF_FALSE, PUSH_CONST_F32} => Instruction(d, m[x]) = Instruction(c, x)
      BY <3>1, SqueezedInstructions
    <3> QED BY <2>3, <3>2, <3>3, <3>4, <3>5 DEF Carried
  <2>4. \A x \in X : x \in Starts(c) \/ x = Len(c) BY DEF Respected
  <2> QED BY <2>1, <2>2, <2>3, <2>4 DEF Mirrored
<1>6. X \in SUBSET (Starts(c) \cup {Len(c)}) /\ Forward(d) BY DEF Respected, Squeezed
<1> QED BY <1>4, <1>5, <1>6, MirrorBehaves

\* Without code that nothing reaches a section does what it did.
LEMMA UnreachableBehaves ==
  ASSUME NEW c, Forward(c), NEW pool
  PROVE  Behaviour(RemoveUnreachable(c), pool) = Behaviour(c, pool)
<1>1. CASE c = << >>
  <2>1. Starts(c) = {} BY <1>1 DEF Starts
  <2>2. RemoveUnreachable(c) = c BY <2>1 DEF RemoveUnreachable, Without
  <2> QED BY <2>2
<1>2. CASE c # << >>
  <2> DEFINE R == Reached(c)
             dropped == Starts(c) \ R
             X == R \cup {Len(c)}
  <2>1. R \subseteq Starts(c) /\ 0 \in R /\ \A x \in R : Successors(c, x) \subseteq R
    BY <1>2, ReachedIs DEF ClosedUnder
  <2>2. Squeezed(c, dropped, RemoveUnreachable(c))
    BY <1>2, UnreachableSound, WithoutSqueezes DEF RemoveUnreachable
  <2>3. \A x \in R : ByteAt(c, x) \notin {HALT, JUMP} => Following(c, x) \in X
    <3> SUFFICES ASSUME NEW x \in R, ByteAt(c, x) \notin {HALT, JUMP}, Following(c, x) # Len(c)
                 PROVE  Following(c, x) \in R
      OBVIOUS
    <3>1. x \in Starts(c) BY <2>1
    <3>2. Tiled(c) BY <1>2, ForwardTiled
    <3>3. Following(c, x) \in Starts(c) BY <3>1, <3>2 DEF Tiled
    <3>4. Following(c, x) < Len(c) BY <3>3, ForwardFacts
    <3>5. Following(c, x) \in Successors(c, x) BY <3>4 DEF Successors, Following
    <3> QED BY <2>1, <3>5
  <2>4. \A x \in R : ByteAt(c, x) \in JumpOp => Target(c, x) \in X
    <3> SUFFICES ASSUME NEW x \in R, ByteAt(c, x) \in JumpOp PROVE Target(c, x) \in R
      OBVIOUS
    <3>1. Target(c, x) \in Successors(c, x) BY DEF Successors
    <3> QED BY <2>1, <3>1
  <2>5. \A x \in X \cap Starts(c) : x \in R /\ x \notin dropped
    <3> SUFFICES ASSUME NEW x \in Starts(c), x \in X PROVE x \in R
      OBVIOUS
    <3>1. x # Len(c)
      <4>1. x < Len(c) /\ x \in Nat /\ Len(c) \in Nat BY ForwardFacts
      <4> QED BY <4>1
    <3> QED BY <3>1
  <2> HIDE DEF R
  <2>6. Respected(c, dropped, X)
    <3>1. X \in SUBSET (Starts(c) \cup {Len(c)}) /\ 0 \in X BY <2>1
    <3> HIDE DEF X, dropped
    <3> QED BY <2>3, <2>4, <2>5, <3>1 DEF Respected
  <2> HIDE DEF X, dropped
  <2> QED BY <1>2, <2>2, <2>6, SqueezedBehaves
<1> QED BY <1>1, <1>2

\* Without the jumps to the next instruction it does too.
LEMMA NoopsBehave ==
  ASSUME NEW c, Forward(c), NEW pool
  PROVE  Behaviour(RemoveNoopJumps(c), pool) = Behaviour(c, pool)
<1>1. CASE c = << >>
  <2>1. Starts(c) = {} BY <1>1 DEF Starts
  <2>2. NoopJumps(c) = {} BY <2>1 DEF NoopJumps
  <2>3. RemoveNoopJumps(c) = c BY <2>2 DEF RemoveNoopJumps, Without
  <2> QED BY <2>3
<1>2. CASE c # << >>
  <2> DEFINE X == Starts(c) \cup {Len(c)}
  <2>1. Squeezed(c, NoopJumps(c), RemoveNoopJumps(c))
    BY <1>2, NoopsSound, WithoutSqueezes DEF RemoveNoopJumps
  <2>2. 0 \in Starts(c) /\ \A x \in Starts(c) : Following(c, x) \in X
    BY <1>2, ForwardTiled DEF Tiled
  <2>3. \A x \in Starts(c) : ByteAt(c, x) \in JumpOp => Target(c, x) \in X
    BY DEF Jumps, Forward
  <2>4. \A x \in NoopJumps(c) : ByteAt(c, x) = JUMP /\ Target(c, x) = Following(c, x)
    BY NoopsFollow
  <2>5. Respected(c, NoopJumps(c), X)
    <3>1. X \in SUBSET (Starts(c) \cup {Len(c)}) /\ 0 \in X BY <2>2
    <3>2. \A x \in X \cap Starts(c) : x \in Starts(c) OBVIOUS
    <3> HIDE DEF X
    <3> QED BY <2>2, <2>3, <2>4, <3>1, <3>2 DEF Respected
  <2> HIDE DEF X
  <2> QED BY <1>2, <2>1, <2>5, SqueezedBehaves
<1> QED BY <1>1, <1>2

\* A pass over well-formed code, or none, leaves it doing what it did.
LEMMA BehaviourStep ==
  ASSUME SettledInv, PassNext
  PROVE  \A s \in Sections : Behaviour(codes'[s], constants') = Behaviour(codes[s], constants)
<1>1. PassType /\ AllWellFormed /\ \A s \in Sections : Forward(codes[s])
  BY WellFormedIs DEF SettledInv, AllWellFormed
<1>2. CASE Thread \/ ThreadAgain
  <2>1. constants' = constants /\ codes' = [s \in Sections |-> ThreadJumps(codes[s])]
    BY <1>1, <1>2, ThreadAccepts DEF Thread, ThreadAgain, Sweep
  <2> QED BY <1>1, <2>1, ThreadJumpsBehaves
<1>3. CASE DropUnreachable
  <2>1. constants' = constants /\ codes' = [s \in Sections |-> RemoveUnreachable(codes[s])]
    BY <1>1, <1>3, UnreachableIs DEF DropUnreachable, Sweep
  <2> QED BY <1>1, <2>1, UnreachableBehaves
<1>4. CASE DropNoopJumps
  <2>1. constants' = constants /\ codes' = [s \in Sections |-> RemoveNoopJumps(codes[s])]
    BY <1>1, <1>4, NoopsAre DEF DropNoopJumps, Sweep
  <2> QED BY <1>1, <2>1, NoopsBehave
<1>5. CASE CompactConstants
  <2> DEFINE used == Used(codes)
             kept == KeptConstants(constants, used)
             ds == Compacted(codes, constants)
  <2>0. constants \in Seq(Range(constants)) /\ \A s \in Sections : WellFormed(codes[s], constants)
    BY <1>1 DEF PassType, AllWellFormed
  <2>1. /\ CompactFault(codes, constants) = "none"
        /\ used \subseteq 0..Len(constants)-1 /\ kept \in Seq(Range(constants))
        /\ \A s \in Sections : Renamed(codes[s], used, ds[s])
        /\ \A i \in used : Count(used, i) + 1 \in 1..Len(kept) /\ kept[Count(used, i) + 1] = constants[i + 1]
    <3> DEFINE whole ==
          LET used_1 == Used(codes)
              kept_1 == KeptConstants(constants, used_1)
              ds_1 == Compacted(codes, constants)
          IN  /\ CompactFault(codes, constants) = "none"
              /\ used_1 \subseteq 0..Len(constants)-1
              /\ kept_1 \in Seq(Range(constants))
              /\ \A s \in Sections : Renamed(codes[s], used_1, ds_1[s]) /\ WellFormed(ds_1[s], kept_1)
              /\ \A i \in used_1 : Count(used_1, i) + 1 \in 1..Len(kept_1) /\ kept_1[Count(used_1, i) + 1] = constants[i + 1]
              /\ Used(ds_1) = 0..Len(kept_1)-1
    <3>1. whole BY <2>0, CompactIs
    <3> QED BY <3>1
  <2>2. codes' = ds /\ constants' = kept BY <1>5, <2>1 DEF CompactConstants
  <2>3. \A s \in Sections : PushedBy(codes[s]) \subseteq used BY DEF Used
  <2> HIDE DEF used, kept, ds
  <2>4. DOMAIN constants = 1..Len(constants) /\ DOMAIN kept = 1..Len(kept) /\ Len(constants) \in Nat
    BY <1>1, <2>1, LenProperties DEF PassType
  <2>5. \A s \in Sections : Behaviour(ds[s], kept) = Behaviour(codes[s], constants)
    <3> TAKE s \in Sections
    <3>1. Forward(codes[s]) /\ Renamed(codes[s], used, ds[s]) /\ PushedBy(codes[s]) \subseteq used
      BY <1>1, <2>1, <2>3
    <3>2. SameConstants(used, constants, kept) BY <2>1, <2>4 DEF SameConstants
    <3> QED BY <3>1, <3>2, RenamedBehaves
  <2> QED BY <2>2, <2>5
<1> QED BY <1>2, <1>3, <1>4, <1>5 DEF PassNext

\* Well-formed code does what it did after every pass: the same instructions on the
\* same decisions, with the same constants, whatever was threaded, removed and
\* renumbered (redirected targets, pc_map, the mapping of the constants).
THEOREM WellFormedBehaves == PassSpec /\ AllWellFormed => KeepsBehaviour
<1>1. SettledInv /\ [PassNext]_passVars =>
        [\A s \in Sections : Behaviour(codes'[s], constants') = Behaviour(codes[s], constants) ]_passVars
  BY BehaviourStep
<1> QED BY <1>1, SettledInvariant, PTL DEF PassSpec, KeepsBehaviour
=============================================================================
