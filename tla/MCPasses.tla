------------------------------ MODULE MCPasses ------------------------------
(* Instances of LumiPasses: every section of a few blocks with forward jumps. *)
EXTENDS LumiPasses

Blocks == 4   \* how many blocks a section has before its HALT

Store(k) == <<PUSH_CONST_F32>> \o U16Bytes(k) \o <<STORE_GLOBAL, 0, 0>>
SizeOf(b) == CASE b.kind = "store" -> 6 [] b.kind = "test" -> 5 [] b.kind = "goto" -> 3

\* A block stores a constant, tests an input, or jumps, the last two to a later block
\* or to the HALT.
Block(i) ==
  [kind : {"store"}, arg : {0, 2}]
    \cup [kind : {"test", "goto"}, arg : (i+1)..(Blocks+1)]

Shapes == {<<a, b, c, d>> : a \in Block(1), b \in Block(2), c \in Block(3), d \in Block(4)}

Assembled(f) ==
  LET offset[i \in 1..Blocks+1] == IF i = 1 THEN 0 ELSE offset[i - 1] + SizeOf(f[i - 1])
      Bytes(b) == CASE b.kind = "store" -> Store(b.arg)
                    [] b.kind = "test" -> <<LOAD_INPUT, 4, JUMP_IF_FALSE>> \o U16Bytes(offset[b.arg])
                    [] b.kind = "goto" -> <<JUMP>> \o U16Bytes(offset[b.arg])
  IN  FlattenSeq([i \in 1..Blocks |-> Bytes(f[i])]) \o <<HALT>>

\* Code that no emitter writes, most of which is refused.
Malformed ==
  {<<0>>, <<JUMP, 0>>, <<JUMP, 0, 0>>, <<JUMP, 3, 0, JUMP, 0, 0>>, <<JUMP, 9, 0>>,
   Store(9) \o <<HALT>>, <<LOAD_INPUT, 4, JUMP_IF_FALSE, 1, 0, HALT>>,
   <<LOAD_INPUT, 4, JUMP_IF_FALSE, 0, 0, JUMP, 2, 0, HALT>>, <<HALT, JUMP, 90, 0>>, << >>}

With(init, render) ==
  [codes |-> [s \in Sections |-> CASE s = "init" -> init
                                   [] s = "update" -> Store(1) \o <<HALT>>
                                   [] s = "render" -> render],
   constants |-> <<10, 11, 12, 13>>]

MCUnoptimized ==
  {With(<<HALT>>, Assembled(f)) : f \in Shapes} \cup {With(code, Store(3) \o <<HALT>>) : code \in Malformed}
=============================================================================
