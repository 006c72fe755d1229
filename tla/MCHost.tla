-------------------------------- MODULE MCHost --------------------------------
(* Instances of LumiHost over the programs and floats of MCPrograms. *)
EXTENDS LumiHost, MCPrograms

\* global g = 2; key var a = 0; key var b = 1;
\* update { g = rand(); } render { a = a + g; color = rand(); }
Dice == [Base EXCEPT
  !.update = Call(BUILTIN_RAND, 0) \o I3(STORE_GLOBAL, 0) \o Halts,
  !.render = I3(LOAD_KEY, 0) \o I3(LOAD_GLOBAL, 0) \o I1(ADD) \o I3(STORE_KEY, 0)
          \o Call(BUILTIN_RAND, 0) \o I1(SET_COLOR) \o Halts]

\* update fails on sqrt(-1) when dt is negative.
Fails == [Base EXCEPT
  !.update = In(INPUT_DT) \o Call(BUILTIN_SQRT, 1) \o I3(STORE_GLOBAL, 0) \o Halts]

\* Needs more stack than there is.
Deep == [Base EXCEPT !.maxStack = 9]

HostPrograms == {Counter, Dice, Fails, Deep}

Plain(dt) == [s \in InputSlot |-> IF s = INPUT_DT THEN dt ELSE 1]
HostInputs == {Plain(1), Plain(-1)}
Cmd(name, key, dt) == [name |-> name, key |-> key, inputs |-> Plain(dt)]
MCCommands ==
  {Cmd("init", 0, 1), Cmd("reset", 0, 1), Cmd("malformed", 0, 1), Cmd("update", 0, 1), Cmd("update", 0, -1)}
    \cup {Cmd("render", key, 1) : key \in 0..2}

MCRandomAt(n) == IF n % 3 = 1 THEN 1 ELSE 0
=============================================================================
