------------------------------- MODULE LumiHost -------------------------------
(***************************************************************************)
(* The host tool lumivm: it loads one program, creates its state, installs *)
(* C's rand as the random provider and executes the commands of its        *)
(* standard input one after the other, each to its end, with the virtual   *)
(* machine of LumiVM.  Loading itself is LumiLoader's.                     *)
(*                                                                         *)
(* Blank lines and comments change nothing and are left out.  A report is  *)
(* the state that a command prints; the digits are not modelled.           *)
(***************************************************************************)
EXTENDS LumiVM, FiniteSets

CONSTANTS
  Commands,      \* the command lines: [name, key, inputs]
  RandomAt(_),   \* the n-th number of rand() after srand(HOST_RANDOM_SEED), of RandomCell
  MaxCommands    \* bound: the commands of a session

ASSUME HostAssumption ==
  /\ MaxCommands \in Nat
  /\ Commands \subseteq [name : {"init", "update", "render", "reset", "malformed"}, key : Nat, inputs : Inputs]

VARIABLES
  reader,    \* where main is
  current,   \* the command being executed
  position,  \* how many numbers rand() has given since srand
  reads,     \* how many commands were read
  log,       \* the commands with their reports, split at resets
  exitCode   \* of main

hostVars == <<reader, current, position, reads, log, exitCode>>

NoCommand == [name |-> "none", key |-> 0, inputs |-> NoInputs]
Running == 9   \* stands for an exit code that does not exist yet

HostInit ==
  /\ Init
  /\ reader = "starting"
  /\ current = NoCommand
  /\ position = 0
  /\ reads = 0
  /\ log = <<<< >>>>
  /\ exitCode = Running

Exit(code) == reader' = "exited" /\ exitCode' = code

\* lumi_vm_init_state
Start ==
  /\ reader = "starting"
  /\ InitState
  /\ IF error' = NoError THEN reader' = "seeding" /\ UNCHANGED exitCode ELSE Exit(1)
  /\ UNCHANGED <<current, position, reads, log>>

\* srand and lumi_vm_set_random
Seed ==
  /\ reader = "seeding"
  /\ SetRandom(TRUE)
  /\ position' = 0
  /\ reader' = "reading"
  /\ UNCHANGED <<current, reads, log, exitCode>>

Reads(command, name) ==
  /\ reader = "reading"
  /\ reads < MaxCommands
  /\ command.name = name
  /\ reads' = reads + 1

ReadReset_KeepsStream(command) ==  \* mutant: srand is not called again
  /\ Reads(command, "reset")
  /\ ResetState
  /\ log' = Append(log, << >>)
  /\ UNCHANGED <<reader, current, exitCode, position>>

ReadReset(command) ==
  /\ Reads(command, "reset")
  /\ ResetState
  /\ position' = 0
  /\ log' = Append(log, << >>)
  /\ UNCHANGED <<reader, current, exitCode>>

\* The command calls the machine, and main waits for it.
Calls(command) ==
  /\ reader' = "waiting"
  /\ current' = command
  /\ UNCHANGED <<position, log, exitCode>>

ReadInit(command) == Reads(command, "init") /\ RunInit /\ Calls(command)

ReadUpdate(command) == Reads(command, "update") /\ RunUpdate(command.inputs) /\ Calls(command)

ReadRender(command) ==
  Reads(command, "render") /\ RunRender(command.key, command.inputs) /\ Calls(command)

ReadRenderBadKey(command) ==
  /\ Reads(command, "render")
  /\ RunRenderBadKey(command.key)
  /\ Exit(1)
  /\ UNCHANGED <<current, position, log>>

\* An unknown command, or numbers that sscanf does not find.
ReadMalformed(command) ==
  /\ Reads(command, "malformed")
  /\ Exit(1)
  /\ UNCHANGED <<vars, current, position, log>>

EndOfInput ==
  /\ reader = "reading"
  /\ Exit(0)
  /\ UNCHANGED <<vars, current, position, reads, log>>

-----------------------------------------------------------------------------
\* The instruction asks host_rand for a number.
DrawsRandom == Executes({CALL_BUILTIN}) /\ ByteAt(Code, frame.pc + 1) = BUILTIN_RAND

Run ==
  /\ reader = "waiting"
  /\ Step
  /\ IF DrawsRandom
     THEN /\ frame'.stack[Len(frame'.stack)] = RandomAt(position)
          /\ position' = position + 1
     ELSE UNCHANGED position
  /\ UNCHANGED <<reader, current, reads, log, exitCode>>

\* What the command prints, given what it is.
Shown(command) ==
  [steps |-> output.executed,
   globals |-> IF command.name = "init" THEN << >> ELSE [i \in 1..GlobalCount |-> globals[i - 1]],
   color |-> IF command.name = "render" THEN output.color ELSE Zero,
   row |-> IF command.name # "render" THEN << >>
           ELSE [i \in 1..KeyCount |-> keys[command.key * KeyCount + i - 1]]]

AppendReport(command) ==
  log' = [log EXCEPT ![Len(log)] = Append(@, [command |-> command, report |-> Shown(command)])]

Finish_Ignores ==  \* mutant: a failed call prints nothing and the loop goes on
  /\ reader = "waiting" /\ status = "idle"
  /\ reader' = "reading"
  /\ current' = NoCommand
  /\ IF error = NoError THEN AppendReport(current) ELSE UNCHANGED log
  /\ UNCHANGED <<vars, position, reads, exitCode>>

Finish ==
  /\ reader = "waiting" /\ status = "idle"
  /\ current' = NoCommand
  /\ IF error = NoError
     THEN reader' = "reading" /\ AppendReport(current) /\ UNCHANGED exitCode
     ELSE Exit(1) /\ UNCHANGED log
  /\ UNCHANGED <<vars, position, reads>>

-----------------------------------------------------------------------------
Read ==
  \E command \in Commands :
    \/ ReadReset(command) \/ ReadInit(command) \/ ReadUpdate(command) \/ ReadRender(command)
    \/ ReadRenderBadKey(command) \/ ReadMalformed(command)

HostNext == Start \/ Seed \/ Read \/ EndOfInput \/ Run \/ Finish

HostSpec == HostInit /\ [][HostNext]_<<vars, hostVars>>

\* main is one thread that goes on until it returns; whether there is another line to
\* read is not its own decision.
FairHostSpec == HostSpec /\ WF_<<vars, hostVars>>(Start \/ Seed \/ Run \/ Finish)

-----------------------------------------------------------------------------
(* Properties *)

\* A reset starts the session over: the same commands after the start or after any
\* reset get the same reports, random numbers, key variables and steps included (the
\* reset branch of main and lumi_vm_reset_state).
Replays ==
  \A i, j \in DOMAIN log : \A n \in 1..Len(log[i]) :
    n <= Len(log[j]) =>
      \/ \E m \in 1..n : log[i][m].command # log[j][m].command
      \/ log[i][n].report = log[j][n].report

\* No command is passed over: a session that ends with exit code 0 has a report, or a
\* reset, for every command it read, and one in progress for all but the current one.
Reports == UNION {{segment} \X (1..Len(log[segment])) : segment \in DOMAIN log}
Resets == Len(log) - 1
NothingSwallowed ==
  LET answered == Cardinality(Reports) + Resets
  IN  /\ exitCode = 0 => reads = answered
      /\ reader = "reading" => reads = answered
      /\ reader = "waiting" => reads = answered + 1

\* Every command is answered by a report or by the end of the session.
Answered == reader = "waiting" ~> reader \in {"reading", "exited"}
=============================================================================
