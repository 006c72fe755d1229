-------------------------------- MODULE MCVM --------------------------------
(***************************************************************************)
(* An instance of LumiStackSafety, and with it of LumiVM, over the         *)
(* programs of MCPrograms and a few with deeper stacks; stack_at is        *)
(* computed from the paths through the code.                               *)
(***************************************************************************)
EXTENDS LumiStackSafety, MCPrograms

\* Expressions nested four deep, one branch deeper than the other.
Nested == [Base EXCEPT !.maxStack = 4,
  !.render = <<LOAD_INPUT, 0, DUP, DUP, DUP, ADD, MUL, SUB>> \o I3(JUMP_IF_FALSE, 17)
    \o <<LOAD_INPUT, 1, DUP, ADD, SET_COLOR, HALT>> \o <<LOAD_INPUT, 4, SET_COLOR, HALT>>]

\* Accepted although ADD finds only one cell.
OneOperand == [Base EXCEPT !.update = <<LOAD_INPUT, INPUT_DT, ADD, HALT>>]

\* Deeper than the runs' stack: lumi_vm_init_state has to refuse it.
TooDeep == [Base EXCEPT !.maxStack = 5, !.update = <<LOAD_INPUT, INPUT_DT, DUP, DUP, DUP, DUP, HALT>>]

AcceptedPrograms == CompiledPrograms \cup {Loop, Nested, OneOperand, TooDeep}
MCProgramSet == AcceptedPrograms \cup Faulty

AllPaths == [p \in AcceptedPrograms |-> [mode \in Mode |-> Paths(Section(p, mode))]]
MCDepthAt(p, mode, pc) ==
  LET here == {c \in AllPaths[p][mode] : c[1] = pc}
  IN  IF here = {} THEN -1 ELSE (CHOOSE c \in here : TRUE)[2]
=============================================================================
