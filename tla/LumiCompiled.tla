---------------------------- MODULE LumiCompiled ----------------------------
(***************************************************************************)
(* The whole path of a Lumi program: compiled by LumiEmitter at some       *)
(* optimization level and run by LumiVM, against what LumiLanguage says    *)
(* that its source means.                                                  *)
(***************************************************************************)
EXTENDS LumiVM, LumiEmitter

CONSTANTS
  Sources,        \* the programs to compile
  Compiler(_, _)  \* the compiler that is checked, given a source and a level: Compile

VARIABLES
  source, level,  \* what was compiled
  before          \* globals, keys and output when the running call was entered

compiledVars == <<vars, source, level, before>>

Levels == 0..3
Now == [globals |-> globals, keys |-> keys, output |-> output, error |-> error]

\* What lumic accepted, before the host has created a state for it.
CompiledInit ==
  /\ \E s \in Sources, l \in Levels : \E built \in {Compiler(s, l)} :
       Ok(built) /\ source = s /\ level = l /\ program = Image(built)
  /\ Uncreated
  /\ before = Now

\* One host, which resets and asks again at will and never passes a key that is none.
HostAction ==
  \/ InitState \/ ResetState
  \/ \E installed \in BOOLEAN : SetRandom(installed)
  \/ RunInit
  \/ \E inputs \in Inputs : RunUpdate(inputs) \/ \E key \in 0..KeySlots-1 : RunRender(key, inputs)

CompiledNext ==
  /\ HostAction \/ Step
  /\ before' = IF status = "idle" /\ status' = "running" THEN Now ELSE before
  /\ UNCHANGED <<source, level>>

CompiledSpec == CompiledInit /\ [][CompiledNext]_compiledVars

-----------------------------------------------------------------------------
(* Properties *)

\* The compiled program does, call by call, what its source means, whatever the
\* level: the same globals, key variables, colour and success (lumi_emit_bytecode
\* and execute_section).
Visible == IF status = "running" THEN before ELSE Now
Language == INSTANCE LumiLanguage WITH
  created <- status # "uncreated",
  global <- IF status = "uncreated" THEN << >> ELSE [i \in 1..GlobalCount |-> Visible.globals[i - 1]],
  rows <- [k \in 0..KeySlots-1 |->
             IF status = "uncreated" THEN << >>
             ELSE [i \in 1..KeyCount |-> Visible.keys[k * KeyCount + i - 1]]],
  random <- randomFn,
  call <- IF status = "running" THEN [section |-> frame.mode, key |-> frame.key, inputs |-> frame.inputs]
          ELSE [section |-> "none"],
  shown <- [color |-> Visible.output.color, hasColor |-> Visible.output.hasColor,
            error |-> Visible.error]

MeansWhatItSays == Language!LanguageSpec

\* A render that returns without an error has set a colour, whichever way it went
\* (stmt_list_guarantees_color).
RenderPaints == [][
  frame.mode = "render" /\ status = "running" /\ status' = "idle" /\ error' = NoError
    => output'.hasColor ]_vars
=============================================================================
