---------------------------- MODULE MCStackDepth ----------------------------
(***************************************************************************)
(* Instances of LumiStackDepth: programs as the compiler emits them, and   *)
(* every sequence of up to three instructions over a small alphabet, alone *)
(* and behind a push, in one of the sections, which holds code of every    *)
(* kind the pass refuses.                                                  *)
(***************************************************************************)
EXTENDS LumiStackDepth, SequencesExt, FiniteSetsExt

I3(op, u) == <<op>> \o U16Bytes(u)

\* A conditional that leaves one value on both paths, and a backward loop.
Conditional ==
  <<LOAD_INPUT, 4>> \o I3(JUMP_IF_FALSE, 11) \o I3(PUSH_CONST_F32, 0) \o I3(JUMP, 14)
    \o I3(PUSH_CONST_F32, 1) \o <<SET_COLOR, HALT>>
Counting == I3(PUSH_CONST_F32, 0) \o <<DUP>> \o I3(STORE_GLOBAL, 0) \o I3(JUMP_IF_FALSE, 0) \o <<HALT>>
Builtins == <<LOAD_INPUT, 0, DUP, DUP, RGB, DUP, CALL_BUILTIN, 10, 2, SET_COLOR, HALT>>

Alphabet == {I3(PUSH_CONST_F32, 0), <<DUP>>, <<ADD>>, <<HALT>>, <<0>>, I3(JUMP, 0), I3(JUMP_IF_FALSE, 1),
             I3(JUMP_IF_FALSE, 4), I3(JUMP_IF_FALSE, 7), <<CALL_BUILTIN, 1, 1>>, <<LOAD_INPUT>>}
Sequences == UNION {[1..n -> Alphabet] : n \in 0..3}

Emit(init, update, render) == [s \in Sections |-> CASE s = "init" -> init [] s = "update" -> update [] s = "render" -> render]

MCEmitted ==
  {Emit(<<HALT>>, Counting, Conditional), Emit(Counting, Builtins, Conditional), Emit(<<HALT>>, Conditional, Builtins)}
  \cup {Emit(<<HALT>>, before \o FlattenSeq(s), <<HALT>>) :
          s \in Sequences, before \in {<< >>, I3(PUSH_CONST_F32, 0)}}
=============================================================================
