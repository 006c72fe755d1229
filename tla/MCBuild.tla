------------------------------ MODULE MCBuild ------------------------------
(***************************************************************************)
(* Instances of LumiBuild with a size_t of eight bits, so that the bytes of *)
(* 64 floats wrap, and with storage too small for some programs.           *)
(***************************************************************************)
EXTENDS LumiBuild

F(n) == <<0, 0, n, 63>>
Tiny == [programType |-> 1, maxStack |-> 1, constants |-> <<F(1)>>, initialGlobals |-> << >>,
         initialKeys |-> << >>, init |-> <<26>>, update |-> <<26>>, render |-> <<1, 0, 0, 25, 26>>]
Stateful == [programType |-> 2, maxStack |-> 2, constants |-> <<F(2), F(3)>>, initialGlobals |-> <<F(4)>>,
             initialKeys |-> <<F(5), F(6)>>, init |-> <<26>>, update |-> <<3, 0, 0, 4, 0, 0, 26>>, render |-> <<5, 1, 0, 25, 26>>]
MCBytecodes == {Tiny, Stateful}

Capacities(floats, code) == [part \in PartNames |-> IF part \in FloatParts THEN floats ELSE code]
Storage(floats, code, globals, cells, stack, slots) ==
  [program |-> Capacities(floats, code), globals |-> globals, keyCells |-> cells, stack |-> stack, keySlots |-> slots]
\* Room for everything; capacities too small for the second program; a product that overflows.
MCStorages ==
  {Storage(3, 8, 2, 4, 2, 2), Storage(3, 5, 2, 4, 2, 2), Storage(3, 8, 0, 4, 2, 2),
   Storage(3, 8, 2, 3, 2, 2), Storage(3, 8, 2, 4, 1, 2), Storage(3, 8, 2, 4, 2, 130)}

\* 4 * 65 and 4 * 66 are 4 and 8 in a size_t of eight bits.
MCFieldValues == {3, 65, 66}

MCCommandLines ==
  {<<"a", "-o", "out">>, <<"-O=2", "-o", "-O", "b">>, <<"bad", "-o", "out", "-O">>,
   <<"a">>, <<"a", "-o">>, <<"a", "b", "-o", "out">>, <<"-O4", "a", "-o", "out">>, <<"-o", "out", "-o", "a">>, <<"a", "-x", "-o", "out">>}
MCCompiled(path, level) == CASE path = "a" /\ level = 0 -> Tiny [] path = "b" /\ level = 2 -> Stateful [] OTHER -> Refused

\* Nothing, the header, and one byte less than the first program.
MCCuts == {0, HeaderSize, Serialized(Tiny).size - 1}
MCTails == {<<0>>}
=============================================================================
