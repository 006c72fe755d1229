--------------------------- MODULE LumiCertificate --------------------------
(***************************************************************************)
(* What the depths found by the optimizer's stack analysis have to satisfy *)
(* to be of use to the virtual machine, and what they have to be.          *)
(***************************************************************************)
EXTENDS LumiBytecode

Unknown == -1   \* the mark of an offset that the analysis has not reached

\* What accepted code comes with: a depth for every offset that execution reaches,
\* the same on every path, with all of the depths after an instruction in 0..max.
Certifies(depth, code, max) ==
  /\ Len(code) > 0 => depth[0] = 0
  /\ \A pc \in 0..Len(code)-1 : depth[pc] # Unknown =>
       LET after == depth[pc] + StackDelta(code, pc) IN
         /\ Decodable(code, pc)
         /\ after \in 0..max
         /\ \A t \in Successors(code, pc) : t < Len(code) /\ depth[t] = after

\* The reference: the pairs of offset and depth on the paths from offset 0 of at most
\* Len(code) instructions.
NextOnPath(code, c) ==
  IF ~Decodable(code, c[1]) THEN {}
  ELSE {<<t, c[2] + StackDelta(code, c[1])>> : t \in Successors(code, c[1])}

\* met: all pairs of the paths of at most some number of instructions; last: those of
\* them that shorter paths do not have.
EmptyPath == [met |-> {<<0, 0>>}, last |-> {<<0, 0>>}]
OneLonger(code, shorter) ==
  LET longer == (UNION {NextOnPath(code, c) : c \in shorter.last}) \ shorter.met
  IN  [met |-> shorter.met \cup longer, last |-> longer]

Paths(code) ==
  LET reach[n \in 0..Len(code)] ==
        IF n = 0 THEN EmptyPath ELSE OneLonger(code, reach[n - 1])
  IN  IF code = << >> THEN {} ELSE reach[Len(code)].met

WellBehaved(code) ==
  LET paths == Paths(code) IN
  \A c \in paths :
    /\ Decodable(code, c[1])
    /\ c[2] + StackDelta(code, c[1]) \in 0..UINT16_MAX
    /\ \A d \in paths : d[1] = c[1] => d = c
=============================================================================
