--------------------------- MODULE LumiHost_proofs ---------------------------
(***************************************************************************)
(* The host tool uses the virtual machine as LumiVM allows, so that what   *)
(* is proved of the machine holds in its sessions, and it answers every    *)
(* command that it reads, for every program and every session.             *)
(*                                                                         *)
(* A reset starts the session over.  Between two commands everything that  *)
(* the reports depend on is in View, and one step of the machine is a      *)
(* function, Advance, of it: so every segment of the log follows a trail   *)
(* of the same course from the same Beginning, and two trails stay         *)
(* together for as long as the commands are the same.                      *)
(***************************************************************************)
EXTENDS LumiHost, LumiVM_proofs, FiniteSetTheorems

\* What the commands print.
Report == [steps : Nat, globals : Seq(Cell), color : Cell, row : Seq(Cell)]
Entry == [command : Commands, report : Report]

HostTypeOK ==
  /\ reader \in {"starting", "seeding", "reading", "waiting", "exited"}
  /\ current \in Commands \cup {NoCommand}
  /\ position \in Nat
  /\ reads \in 0..MaxCommands
  /\ log \in Seq(Seq(Entry)) /\ log # << >>
  /\ exitCode \in {0, 1, Running}

\* Where main is and where the machine is.  A command that is waited for renders an
\* existing key, so its report shows a row of the storage.
InStep ==
  /\ exitCode = Running <=> reader # "exited"
  /\ reader = "starting" => status = "uncreated"
  /\ reader \in {"seeding", "reading"} => status = "idle"
  /\ reader = "waiting" =>
       /\ status # "uncreated" /\ current \in Commands
       /\ current.name = "render" => current.key < KeySlots

\* The count of NothingSwallowed, in every state of the reader.
AllCounted ==
  LET answered == Cardinality(Reports) + Resets
  IN  /\ IsFiniteSet(Reports)
      /\ reader \in {"starting", "seeding", "reading"} \/ exitCode = 0 => reads = answered
      /\ reader = "waiting" => reads = answered + 1

HostInv == HostTypeOK /\ InStep /\ AllCounted

-----------------------------------------------------------------------------
(* main is a host of the machine *)

LEMMA CommandInputs ==
  ASSUME NEW command \in Commands
  PROVE  command.inputs \in Inputs /\ command.key \in Nat
BY HostAssumption

LEMMA HostSteps ==
  ASSUME [HostNext]_<<vars, hostVars>>
  PROVE  [Next]_vars
<1>1. CASE Start
  BY <1>1 DEF Start, Next, HostCall
<1>2. CASE Seed
  BY <1>2 DEF Seed, Next, HostCall
<1>3. CASE Run
  BY <1>3 DEF Run, Next
<1>4. CASE EndOfInput \/ Finish
  BY <1>4 DEF EndOfInput, Finish
<1>5. ASSUME NEW command \in Commands,
             \/ ReadReset(command) \/ ReadInit(command) \/ ReadUpdate(command) \/ ReadRender(command)
             \/ ReadRenderBadKey(command) \/ ReadMalformed(command)
      PROVE  [Next]_vars
  <2>1. CASE ReadReset(command)
    BY <2>1 DEF ReadReset, Next, HostCall
  <2>2. CASE ReadInit(command)
    BY <2>2 DEF ReadInit, Next, HostCall
  <2>3. CASE ReadUpdate(command)
    BY <2>3, CommandInputs DEF ReadUpdate, Next, HostCall
  <2>4. CASE ReadRender(command)
    <3>1. RunRender(command.key, command.inputs) /\ command.key < KeySlots
      BY <2>4 DEF ReadRender, RunRender
    <3>2. command.key \in 0..KeySlots
      BY <3>1, CommandInputs, StorageAssumption
    <3> QED
      BY <3>1, <3>2, CommandInputs DEF Next, HostCall
  <2>5. CASE ReadRenderBadKey(command)  \* what it does is the same for every such key
    <3>1. RunRenderBadKey(command.key)
      BY <2>5 DEF ReadRenderBadKey
    <3>2. KeySlots \in 0..KeySlots /\ KeySlots >= KeySlots
      BY StorageAssumption
    <3>3. RunRenderBadKey(KeySlots)
      BY <3>1, <3>2 DEF RunRenderBadKey
    <3> QED
      BY <3>2, <3>3 DEF Next, HostCall
  <2>6. CASE ReadMalformed(command)
    BY <2>6 DEF ReadMalformed
  <2> QED
    BY <1>5, <2>1, <2>2, <2>3, <2>4, <2>5, <2>6
<1>6. CASE UNCHANGED <<vars, hostVars>>
  BY <1>6
<1> QED
  BY <1>1, <1>2, <1>3, <1>4, <1>5, <1>6 DEF HostNext, Read

\* lumivm calls the machine as LumiVM allows a host to: every theorem about LumiVM holds
\* of its sessions, whatever the commands (main of vm_main.c).
THEOREM HostUsesMachine == HostSpec => Spec
<1>1. HostInit => Init
  BY DEF HostInit
<1>2. [HostNext]_<<vars, hostVars>> => [Next]_vars
  BY HostSteps
<1> QED
  BY <1>1, <1>2, PTL DEF HostSpec, Spec

-----------------------------------------------------------------------------
(* What a command prints *)

\* A report is read off the state and, for a render, off the row of an existing key.
LEMMA ShownType ==
  ASSUME IInv, status # "uncreated", NEW command \in Commands,
         command.name = "render" => command.key < KeySlots
  PROVE  Shown(command) \in Report
<1>1. TypeOK /\ StorageHolds
  BY DEF IInv, FitsStorage, StorageHolds
<1>2. GlobalCount \in Nat /\ KeyCount \in Nat /\ KeySlots \in Nat
  BY <1>1, CountTypes, StorageAssumption
<1>3. /\ output.executed \in Nat /\ output.color \in Cell /\ Zero \in Cell
      /\ globals \in [0..GlobalCapacity-1 -> Cell] /\ keys \in [0..KeyCellCapacity-1 -> Cell]
  BY <1>1, CellAssumption DEF TypeOK
<1>4. [i \in 1..GlobalCount |-> globals[i - 1]] \in Seq(Cell)
  <2>1. ASSUME NEW i \in 1..GlobalCount PROVE globals[i - 1] \in Cell
    BY <1>1, <1>3, GlobalCell
  <2> QED
    BY <1>2, <2>1, IsASeq
<1>5. ASSUME command.name = "render"
      PROVE  [i \in 1..KeyCount |-> keys[command.key * KeyCount + i - 1]] \in Seq(Cell)
  <2>1. command.key \in 0..KeySlots-1
    BY <1>2, <1>5, CommandInputs
  <2>2. ASSUME NEW i \in 1..KeyCount PROVE keys[command.key * KeyCount + i - 1] \in Cell
    BY <1>1, <1>3, <2>1, RowCell
  <2> QED
    BY <1>2, <2>2, IsASeq
<1>6. << >> \in Seq(Cell)
  BY EmptySeq
<1> QED
  BY <1>3, <1>4, <1>5, <1>6 DEF Shown, Report

-----------------------------------------------------------------------------
(* The log grows by a report or by an empty segment *)

LEMMA EmptyLog ==
  ASSUME log = <<<< >>>>
  PROVE  log \in Seq(Seq(Entry)) /\ log # << >> /\ Reports = {} /\ Resets = 0
<1>1. Len(log) = 1 /\ DOMAIN log = {1} /\ log[1] = << >> /\ Len(log[1]) = 0
  OBVIOUS
<1>2. log \in Seq(Seq(Entry)) /\ log # << >>
  BY EmptySeq
<1> QED
  BY <1>1, <1>2 DEF Reports, Resets

LEMMA Reset ==
  ASSUME log \in Seq(Seq(Entry)), log' = Append(log, << >>)
  PROVE  log' \in Seq(Seq(Entry)) /\ log' # << >> /\ Reports' = Reports /\ Resets' = Resets + 1
<1>1. << >> \in Seq(Entry) /\ Len(<< >>) = 0
  BY EmptySeq
<1>2. /\ log' \in Seq(Seq(Entry)) /\ Len(log') = Len(log) + 1 /\ Len(log) \in Nat
      /\ DOMAIN log = 1..Len(log) /\ DOMAIN log' = 1..Len(log)+1
      /\ \A segment \in 1..Len(log) : log'[segment] = log[segment]
      /\ log'[Len(log) + 1] = << >>
  BY <1>1, AppendProperties, LenProperties
<1>3. Reports' = Reports
  <2>1. \A segment \in DOMAIN log' : 1..Len(log'[segment]) =
          IF segment \in DOMAIN log THEN 1..Len(log[segment]) ELSE {}
    BY <1>1, <1>2
  <2> QED
    BY <1>2, <2>1 DEF Reports
<1> QED
  BY <1>2, <1>3 DEF Resets

LEMMA Reported ==
  ASSUME log \in Seq(Seq(Entry)), log # << >>, IsFiniteSet(Reports),
         NEW entry \in Entry, log' = [log EXCEPT ![Len(log)] = Append(log[Len(log)], entry)]
  PROVE  /\ log' \in Seq(Seq(Entry)) /\ log' # << >> /\ Resets' = Resets
         /\ IsFiniteSet(Reports') /\ Cardinality(Reports') = Cardinality(Reports) + 1
<1> DEFINE last == Len(log)
           new == <<last, Len(log[last]) + 1>>
<1>1. last \in 1..last /\ last \in Nat /\ DOMAIN log = 1..last
  BY LenProperties, EmptySeq
<1>2. log[last] \in Seq(Entry) /\ Len(log[last]) \in Nat
  BY <1>1, ElementOfSeq, LenProperties
<1>3. /\ Append(log[last], entry) \in Seq(Entry)
      /\ Len(Append(log[last], entry)) = Len(log[last]) + 1
  BY <1>2, AppendProperties
<1>4. /\ log' \in Seq(Seq(Entry)) /\ Len(log') = last /\ DOMAIN log' = 1..last
      /\ \A segment \in 1..last :
           log'[segment] = IF segment = last THEN Append(log[last], entry) ELSE log[segment]
  BY <1>1, <1>3, ExceptSeq, LenProperties
<1>5. log' # << >> /\ Resets' = Resets
  BY <1>1, <1>4 DEF Resets
<1>6. Reports' = Reports \cup {new}
  <2>1. \A segment \in 1..last :
          1..Len(log'[segment]) =
            IF segment = last THEN (1..Len(log[last])) \cup {Len(log[last]) + 1}
            ELSE 1..Len(log[segment])
    <3>1. \A n \in Nat : 1..n+1 = (1..n) \cup {n + 1}
      OBVIOUS
    <3> QED
      BY <1>2, <1>3, <1>4, <3>1
  <2> HIDE DEF last
  <2> QED
    BY <1>1, <1>4, <2>1 DEF Reports
<1>7. new \notin Reports
  <2>1. ASSUME new \in Reports PROVE Len(log[last]) + 1 \in 1..Len(log[last])
    BY <2>1 DEF Reports
  <2> QED
    BY <1>2, <2>1
<1> QED
  BY <1>4, <1>5, <1>6, <1>7, FS_AddElement

-----------------------------------------------------------------------------
(* The invariant *)

LEMMA HostInits == HostInit => HostInv
<1> SUFFICES ASSUME HostInit PROVE HostInv
  OBVIOUS
<1>1. /\ status = "uncreated" /\ reader = "starting" /\ current = NoCommand /\ position = 0
      /\ reads = 0 /\ log = <<<< >>>> /\ exitCode = Running
  BY DEF HostInit, Init, Uncreated
<1>2. log \in Seq(Seq(Entry)) /\ log # << >> /\ Reports = {} /\ Resets = 0
  BY <1>1, EmptyLog
<1>3. HostTypeOK
  BY <1>1, <1>2, HostAssumption DEF HostTypeOK
<1>4. IsFiniteSet(Reports) /\ Cardinality(Reports) = 0
  BY <1>2, FS_EmptySet
<1> QED
  BY <1>1, <1>2, <1>3, <1>4 DEF HostInv, InStep, AllCounted, Running

\* A command that is read and waited for.
LEMMA CallSteps ==
  ASSUME HostInv, NEW command \in Commands, NEW name, Reads(command, name), Calls(command),
         status' = "running", command.name = "render" => command.key < KeySlots
  PROVE  HostInv'
<1>1. /\ reader = "reading" /\ reads < MaxCommands /\ reads' = reads + 1
      /\ reader' = "waiting" /\ current' = command /\ UNCHANGED <<position, log, exitCode>>
  BY DEF Reads, Calls
<1>2. reads' \in 0..MaxCommands
  BY <1>1, HostAssumption DEF HostInv, HostTypeOK
<1>3. HostTypeOK'
  BY <1>1, <1>2 DEF HostInv, HostTypeOK
<1>4. InStep'
  BY <1>1 DEF HostInv, InStep
<1>5. AllCounted'
  <2>1. Reports' = Reports /\ Resets' = Resets
    BY <1>1 DEF Reports, Resets
  <2>2. exitCode # 0
    BY <1>1 DEF HostInv, InStep, Running
  <2> QED
    BY <1>1, <2>1, <2>2 DEF HostInv, AllCounted
<1> QED
  BY <1>3, <1>4, <1>5 DEF HostInv

\* The steps that end the session with 1: nothing has to be counted any more.
LEMMA FailingSteps ==
  ASSUME HostInv, Exit(1), UNCHANGED <<position, log>>, current' \in {current, NoCommand},
         reads' \in 0..MaxCommands
  PROVE  HostInv'
<1>1. reader' = "exited" /\ exitCode' = 1
  BY DEF Exit
<1>2. HostTypeOK' /\ InStep'
  BY <1>1 DEF HostInv, HostTypeOK, InStep, Running
<1>3. AllCounted'
  BY <1>1 DEF HostInv, AllCounted, Reports, Resets
<1> QED
  BY <1>2, <1>3 DEF HostInv

LEMMA ReadSteps ==
  ASSUME HostInv, Read
  PROVE  HostInv'
<1> PICK command \in Commands :
      \/ ReadReset(command) \/ ReadInit(command) \/ ReadUpdate(command) \/ ReadRender(command)
      \/ ReadRenderBadKey(command) \/ ReadMalformed(command)
  BY DEF Read
<1>1. reads' = reads + 1 /\ reads < MaxCommands => reads' \in 0..MaxCommands
  BY HostAssumption DEF HostInv, HostTypeOK
<1>2. CASE ReadReset(command)
  <2>1. /\ reader = "reading" /\ reads < MaxCommands /\ reads' = reads + 1 /\ position' = 0
        /\ log' = Append(log, << >>) /\ UNCHANGED <<reader, current, exitCode>>
        /\ status = "idle" /\ status' = status
    BY <1>2 DEF ReadReset, Reads, ResetState
  <2>2. log' \in Seq(Seq(Entry)) /\ log' # << >> /\ Reports' = Reports /\ Resets' = Resets + 1
    BY <2>1, Reset DEF HostInv, HostTypeOK
  <2>3. HostTypeOK' /\ InStep'
    BY <1>1, <2>1, <2>2 DEF HostInv, HostTypeOK, InStep
  <2>4. AllCounted'
    <3>1. IsFiniteSet(Reports) /\ reads = Cardinality(Reports) + Resets
      BY <2>1 DEF HostInv, AllCounted
    <3>2. Cardinality(Reports) \in Nat /\ Resets \in Int
      BY <3>1, FS_CardinalityType, LenProperties DEF HostInv, HostTypeOK, Resets
    <3>3. reads' = Cardinality(Reports') + Resets'
      BY <2>1, <2>2, <3>1, <3>2
    <3> QED
      BY <2>1, <2>2, <3>1, <3>3 DEF AllCounted
  <2> QED
    BY <2>3, <2>4 DEF HostInv
<1>3. CASE ReadInit(command)
  <2>1. Reads(command, "init") /\ Calls(command) /\ status' = "running" /\ command.name = "init"
    BY <1>3 DEF ReadInit, Reads, RunInit, Enter
  <2> QED
    BY <2>1, CallSteps
<1>4. CASE ReadUpdate(command)
  <2>1. Reads(command, "update") /\ Calls(command) /\ status' = "running" /\ command.name = "update"
    BY <1>4 DEF ReadUpdate, Reads, RunUpdate, Enter
  <2> QED
    BY <2>1, CallSteps
<1>5. CASE ReadRender(command)
  <2>1. Reads(command, "render") /\ Calls(command) /\ status' = "running" /\ command.key < KeySlots
    BY <1>5 DEF ReadRender, RunRender, Enter
  <2> QED
    BY <2>1, CallSteps
<1>6. CASE ReadRenderBadKey(command)
  BY <1>1, <1>6, FailingSteps DEF ReadRenderBadKey, Reads
<1>7. CASE ReadMalformed(command)
  BY <1>1, <1>7, FailingSteps DEF ReadMalformed, Reads
<1> QED
  BY <1>2, <1>3, <1>4, <1>5, <1>6, <1>7

LEMMA FinishStep ==
  ASSUME IInv, HostInv, Finish
  PROVE  HostInv'
<1>1. /\ reader = "waiting" /\ current' = NoCommand /\ UNCHANGED <<vars, position, reads>>
      /\ status = "idle" /\ status' = status
  BY DEF Finish, vars
<1>2. CASE error = NoError
  <2>1. reader' = "reading" /\ AppendReport(current) /\ exitCode' = exitCode
    BY <1>2 DEF Finish
  <2>2. current \in Commands /\ (current.name = "render" => current.key < KeySlots)
    BY <1>1 DEF HostInv, InStep
  <2>3. [command |-> current, report |-> Shown(current)] \in Entry
    BY <1>1, <2>2, ShownType DEF Entry
  <2>4. /\ log' \in Seq(Seq(Entry)) /\ log' # << >> /\ Resets' = Resets
        /\ IsFiniteSet(Reports') /\ Cardinality(Reports') = Cardinality(Reports) + 1
    <3>1. log \in Seq(Seq(Entry)) /\ log # << >> /\ IsFiniteSet(Reports)
      BY DEF HostInv, HostTypeOK, AllCounted
    <3>2. log' = [log EXCEPT ![Len(log)] =
                    Append(log[Len(log)], [command |-> current, report |-> Shown(current)])]
      BY <2>1 DEF AppendReport
    <3> QED
      BY <2>3, <3>1, <3>2, Reported
  <2>5. HostTypeOK' /\ InStep'
    BY <1>1, <2>1, <2>4 DEF HostInv, HostTypeOK, InStep
  <2>6. AllCounted'
    <3>1. reads = Cardinality(Reports) + Resets + 1
      BY <1>1 DEF HostInv, AllCounted
    <3>2. Cardinality(Reports) \in Nat /\ Resets \in Int
      BY FS_CardinalityType, LenProperties DEF HostInv, HostTypeOK, Resets, AllCounted
    <3>3. reads' = Cardinality(Reports') + Resets'
      BY <1>1, <2>4, <3>1, <3>2
    <3> QED
      BY <2>1, <2>4, <3>3 DEF AllCounted
  <2> QED
    BY <2>5, <2>6 DEF HostInv
<1>3. CASE error # NoError
  <2>1. Exit(1) /\ UNCHANGED <<log, position>>
    BY <1>1, <1>3 DEF Finish
  <2> QED
    BY <1>1, <2>1, FailingSteps DEF HostInv, HostTypeOK
<1> QED
  BY <1>2, <1>3

LEMMA HostNextInv == IInv /\ HostInv /\ [HostNext]_<<vars, hostVars>> => HostInv'
<1> SUFFICES ASSUME IInv, HostInv, [HostNext]_<<vars, hostVars>> PROVE HostInv'
  OBVIOUS
<1>1. CASE Start
  <2>1. /\ reader = "starting" /\ InitState /\ UNCHANGED <<current, position, reads, log>>
        /\ \/ error' = NoError /\ reader' = "seeding" /\ exitCode' = exitCode
           \/ Exit(1)
    BY <1>1 DEF Start
  <2>2. CASE error' = NoError /\ reader' = "seeding" /\ exitCode' = exitCode
    <3>1. status' = "idle"
      BY <2>1, <2>2 DEF InitState
    <3>2. HostTypeOK' /\ InStep'
      BY <2>1, <2>2, <3>1 DEF HostInv, HostTypeOK, InStep
    <3>3. AllCounted'
      BY <2>1, <2>2 DEF HostInv, AllCounted, Reports, Resets
    <3> QED
      BY <3>2, <3>3 DEF HostInv
  <2>3. CASE Exit(1)
    BY <2>1, <2>3, FailingSteps DEF HostInv, HostTypeOK
  <2> QED
    BY <2>1, <2>2, <2>3
<1>2. CASE Seed
  <2>1. /\ reader = "seeding" /\ reader' = "reading" /\ position' = 0
        /\ UNCHANGED <<current, reads, log, exitCode, status>> /\ status = "idle"
    BY <1>2 DEF Seed, SetRandom
  <2>2. HostTypeOK' /\ InStep'
    BY <2>1 DEF HostInv, HostTypeOK, InStep
  <2>3. AllCounted'
    BY <2>1 DEF HostInv, AllCounted, Reports, Resets
  <2> QED
    BY <2>2, <2>3 DEF HostInv
<1>3. CASE Read
  BY <1>3, ReadSteps
<1>4. CASE EndOfInput
  <2>1. /\ reader = "reading" /\ reader' = "exited" /\ exitCode' = 0
        /\ UNCHANGED <<current, position, reads, log>>
    BY <1>4 DEF EndOfInput, Exit
  <2>2. HostTypeOK' /\ InStep'
    BY <2>1 DEF HostInv, HostTypeOK, InStep, Running
  <2>3. AllCounted'
    BY <2>1 DEF HostInv, AllCounted, Reports, Resets
  <2> QED
    BY <2>2, <2>3 DEF HostInv
<1>5. CASE Run
  <2>1. /\ reader = "waiting" /\ Step /\ position' \in {position, position + 1}
        /\ UNCHANGED <<reader, current, reads, log, exitCode>>
    BY <1>5 DEF Run
  <2>2. status' # "uncreated"
    <3>1. status = "running" /\ status' \in {"running", "idle"}
      BY <2>1, Zenon DEF Step, PushConst, LoadInput, LoadGlobal, StoreGlobal, LoadKey, StoreKey, Dup, Binary,
        Unary, CallBuiltin, SqrtDomainError, DirectBuiltin, Jump, JumpIfFalse, SetColor, Halt,
        Trap, FallOff, Replace, Continue, Return, Executes, Executing
    <3> QED
      BY <3>1
  <2>3. HostTypeOK' /\ InStep'
    BY <2>1, <2>2 DEF HostInv, HostTypeOK, InStep
  <2>4. AllCounted'
    BY <2>1 DEF HostInv, AllCounted, Reports, Resets
  <2> QED
    BY <2>3, <2>4 DEF HostInv
<1>6. CASE Finish
  BY <1>6, FinishStep
<1>7. CASE UNCHANGED <<vars, hostVars>>
  BY <1>7 DEF vars, hostVars, HostInv, HostTypeOK, InStep, AllCounted, Reports, Resets
<1> QED
  BY <1>1, <1>2, <1>3, <1>4, <1>5, <1>6, <1>7 DEF HostNext

LEMMA HostInvariance == HostSpec => []HostInv
<1>1. HostSpec => []IInv
  BY HostUsesMachine, Invariance, PTL
<1> QED
  BY <1>1, HostInits, HostNextInv, PTL DEF HostSpec

\* lumivm passes no command over: a session that ends well has printed a report, or been
\* reset, for every line that it read, however long it is (main of vm_main.c).
THEOREM NoCommandSwallowed == HostSpec => []NothingSwallowed
<1>1. HostInv => NothingSwallowed
  BY DEF HostInv, AllCounted, NothingSwallowed
<1> QED
  BY <1>1, HostInvariance, PTL

\* No session of lumivm, whatever its commands, makes the machine leave its storage.
THEOREM HostAccessSafe == HostSpec => []MemorySafe
BY HostUsesMachine, AccessSafe, PTL

-----------------------------------------------------------------------------
(* A reset starts the session over *)

\* A builtin finds its arguments on the stack.  execute_section takes their number from the
\* program, and a call with fewer reads cells of its args that it never wrote; that
\* it does not happen is due to the compiler's check of the arity (emit_builtin).
ArgumentsGiven ==
  Executing /\ Op = CALL_BUILTIN /\ ByteAt(Code, frame.pc + 1) \in BuiltinId
    => Argc >= BuiltinArity[ByteAt(Code, frame.pc + 1)]

\* What the following steps depend on: the machine, the stream of rand, and the command.
View ==
  [globals |-> globals, keys |-> keys, frame |-> frame,
   output |-> IF reader = "waiting" THEN output ELSE NoOutput,
   status |-> status, failed |-> error # NoError, position |-> position, current |-> current,
   done |-> log[Len(log)]]

\* What LumiHost defines, of a recorded view c of a session with program p.
At(p, c) == INSTANCE LumiHost WITH
  program <- p, globals <- c.globals, keys <- c.keys, frame <- c.frame, output <- c.output,
  status <- c.status, position <- c.position, current <- c.current

Builtin(p, c) == ByteAt(At(p, c)!Code, c.frame.pc + 1)
Draws(p, c) == At(p, c)!Op = CALL_BUILTIN /\ Builtin(p, c) = BUILTIN_RAND

\* The call fails at the next instruction, or runs off its section.
Stops(p, c) ==
  \/ c.frame.pc >= Len(At(p, c)!Code)
  \/ At(p, c)!Fault # NoError
  \/ At(p, c)!Op = CALL_BUILTIN /\ \E args \in At(p, c)!ArgFrames(Builtin(p, c)) : SqrtDomain(Builtin(p, c), args)

OneOf(S) == CHOOSE x \in S : TRUE
Called(p, c) ==
  IF Builtin(p, c) = BUILTIN_RAND THEN RandomAt(c.position)
  ELSE BuiltinResult(Builtin(p, c), OneOf(At(p, c)!ArgFrames(Builtin(p, c))))
CalledDirectly(p, c) ==
  LET argc == Pops(At(p, c)!Code, c.frame.pc)
      op == At(p, c)!Op
      id == IF op = CLAMP THEN BUILTIN_CLAMP ELSE IF op = DIST THEN BUILTIN_DIST
            ELSE IF op = RGB THEN BUILTIN_RGB ELSE BUILTIN_HSV
  IN  BuiltinResult(id, At(p, c)!Top(argc) \o [i \in 1..4-argc |-> Zero])

\* The value that the next instruction puts in the place of its operands.
Value(p, c) ==
  LET op == At(p, c)!Op
      stack == c.frame.stack
      depth == Len(stack)
  IN  IF op = PUSH_CONST_F32 THEN p.constants[At(p, c)!Operand + 1]
      ELSE IF op = LOAD_INPUT THEN At(p, c)!InputValue(Builtin(p, c))
      ELSE IF op = LOAD_GLOBAL THEN c.globals[At(p, c)!Operand]
      ELSE IF op = LOAD_KEY THEN c.keys[At(p, c)!KeyBase + At(p, c)!Operand]
      ELSE IF op \in BinaryOp THEN BinaryResult(op, stack[depth - 1], stack[depth])
      ELSE IF op \in UnaryOp THEN UnaryResult(op, stack[depth])
      ELSE IF op = CALL_BUILTIN THEN Called(p, c)
      ELSE CalledDirectly(p, c)

StackAfter(p, c) ==
  LET op == At(p, c)!Op
      stack == c.frame.stack
  IN  IF op = JUMP THEN stack
      ELSE IF op = DUP THEN Append(stack, stack[Len(stack)])
      ELSE IF op \in {STORE_GLOBAL, STORE_KEY, SET_COLOR, JUMP_IF_FALSE} THEN At(p, c)!Below(1)
      ELSE Append(At(p, c)!Below(Pops(At(p, c)!Code, c.frame.pc)), Value(p, c))

PcAfter(p, c) ==
  IF At(p, c)!Op = JUMP \/ At(p, c)!JumpTaken THEN At(p, c)!Operand ELSE At(p, c)!NextPc

\* The view after the next instruction.
Ended(c, failed, final) ==
  [globals |-> c.globals, keys |-> c.keys, frame |-> NoFrame, output |-> final, status |-> "idle",
   failed |-> failed, position |-> c.position, current |-> c.current, done |-> c.done]
Advance(p, c) ==
  LET op == At(p, c)!Op
      top == c.frame.stack[Len(c.frame.stack)]
  IN  IF Stops(p, c) THEN Ended(c, TRUE, c.output)
      ELSE IF op = HALT THEN Ended(c, FALSE, [c.output EXCEPT !.executed = c.frame.steps + 1])
      ELSE [globals |-> IF op = STORE_GLOBAL THEN [c.globals EXCEPT ![At(p, c)!Operand] = top]
                        ELSE c.globals,
            keys |-> IF op = STORE_KEY THEN [c.keys EXCEPT ![At(p, c)!KeyBase + At(p, c)!Operand] = top]
                     ELSE c.keys,
            frame |-> [c.frame EXCEPT !.pc = PcAfter(p, c), !.stack = StackAfter(p, c),
                                      !.steps = c.frame.steps + 1],
            output |-> IF op = SET_COLOR THEN [c.output EXCEPT !.color = top, !.hasColor = TRUE]
                       ELSE c.output,
            status |-> "running", failed |-> c.failed,
            position |-> IF Draws(p, c) THEN c.position + 1 ELSE c.position,
            current |-> c.current, done |-> c.done]

\* The view after a command has been read, and after it has been reported.
Entered(c, command) ==
  [globals |-> c.globals, keys |-> c.keys, output |-> NoOutput, status |-> "running",
   frame |-> [NoFrame EXCEPT
      !.mode = command.name, !.key = IF command.name = "render" THEN command.key ELSE 0,
      !.inputs = IF command.name = "init" THEN NoInputs ELSE command.inputs],
   failed |-> c.failed, position |-> c.position, current |-> command, done |-> c.done]

Finished(p, c) ==
  [globals |-> c.globals, keys |-> c.keys, output |-> NoOutput, status |-> c.status, frame |-> c.frame,
   failed |-> c.failed, position |-> c.position, current |-> NoCommand,
   done |-> Append(c.done, [command |-> c.current, report |-> At(p, c)!Shown(c.current)])]

Beginning ==
  [globals |-> ResetGlobals, keys |-> ResetKeys, frame |-> NoFrame, output |-> NoOutput,
   status |-> "idle", failed |-> FALSE, position |-> 0, current |-> NoCommand, done |-> << >>]

\* Session p leads from c to d.  Which command is read is the only choice.
Leads(p, c, d) ==
  \/ c.current = NoCommand /\ d.current # NoCommand /\ d = Entered(c, d.current)
  \/ c.current # NoCommand /\ c.status = "running" /\ d = Advance(p, c)
  \/ c.current # NoCommand /\ c.status # "running" /\ d = Finished(p, c)

\* Of two views of a segment, c is the earlier one: its reports stay, and the
\* command that is executed is the one reported next.
Before(c, d) ==
  /\ Len(c.done) <= Len(d.done)
  /\ \A m \in 1..Len(c.done) : d.done[m] = c.done[m]
  /\ c.current # NoCommand =>
       IF Len(d.done) = Len(c.done) THEN d.current = c.current
       ELSE d.done[Len(c.done) + 1].command = c.current

\* The views of a segment one after the other.
Trail(p, begin, t, n) ==
  /\ t[0] = begin
  /\ \A k \in 0..n-1 : Leads(p, t[k], t[k + 1])
  /\ \A k \in 0..n : t[k].done \in Seq(Entry) /\ Before(t[k], t[n])

\* Every segment has gone from the same beginning by these steps.
Followed ==
  \A i \in 1..Len(log) : \E n \in Nat : \E t :
    /\ Trail(program, Beginning, t, n)
    /\ t[n].done = log[i]
    /\ i = Len(log) /\ reader \in {"reading", "waiting"} => t[n] = View
Poised ==
  /\ reader # "waiting" /\ reader # "exited" => current = NoCommand
  /\ reader \in {"seeding", "reading"} => error = NoError
  /\ reader = "starting" => position = 0
  /\ reader \in {"starting", "seeding"} => log = <<<< >>>>
  /\ reader = "seeding" => globals = ResetGlobals /\ keys = ResetKeys

-----------------------------------------------------------------------------
LEMMA DoneAfter ==
  ASSUME NEW p, NEW c, NEW d, Leads(p, c, d)
  PROVE  /\ c.current = NoCommand => d.done = c.done
         /\ c.current # NoCommand =>
              \/ d.done = c.done /\ d.current = c.current
              \/ \E entry : d.done = Append(c.done, entry) /\ entry.command = c.current /\ d.current = NoCommand
<1>1. CASE c.current = NoCommand /\ d.current # NoCommand /\ d = Entered(c, d.current)
  <2>1. Entered(c, d.current).done = c.done
    BY DEF Entered
  <2> QED BY <1>1, <2>1
<1>2. CASE c.current # NoCommand /\ c.status = "running" /\ d = Advance(p, c)
  <2>1. Advance(p, c).done = c.done /\ Advance(p, c).current = c.current
    BY DEF Advance, Ended
  <2> QED BY <1>2, <2>1
<1>3. CASE c.current # NoCommand /\ c.status # "running" /\ d = Finished(p, c)
  <2> DEFINE entry == [command |-> c.current, report |-> At(p, c)!Shown(c.current)]
  <2>1. entry.command = c.current /\ d.done = Append(c.done, entry) /\ d.current = NoCommand
    BY <1>3 DEF Finished
  <2> QED BY <1>3, <2>1
<1> QED BY <1>1, <1>2, <1>3 DEF Leads

LEMMA BeforeNext ==
  ASSUME NEW p, NEW c, NEW d, NEW e, Before(c, d), Leads(p, d, e),
         c.done \in Seq(Entry), d.done \in Seq(Entry), e.done \in Seq(Entry)
  PROVE  Before(c, e)
<1>0. Len(c.done) \in Nat /\ Len(d.done) \in Nat /\ Len(e.done) \in Nat
  BY LenProperties
<1>1. CASE d.current = NoCommand
  <2>1. e.done = d.done BY <1>1, DoneAfter
  <2> QED BY <1>1, <2>1 DEF Before
<1>2. CASE d.current # NoCommand /\ e.done = d.done /\ e.current = d.current
  BY <1>2 DEF Before
<1>3. ASSUME NEW entry, d.done \in Seq(Entry), e.done = Append(d.done, entry), entry.command = d.current
      PROVE  Before(c, e)
  <2>1. /\ Len(e.done) = Len(d.done) + 1 /\ e.done[Len(d.done) + 1] = entry
        /\ \A m \in 1..Len(d.done) : e.done[m] = d.done[m]
    BY <1>3
  <2> QED BY <1>0, <1>3, <2>1 DEF Before
<1> QED BY <1>1, <1>2, <1>3, DoneAfter

LEMMA BeforeItself ==
  ASSUME NEW c, c.done \in Seq(Entry)
  PROVE  Before(c, c)
BY LenProperties DEF Before

LEMMA TrailGrows ==
  ASSUME NEW p, NEW begin, NEW t, NEW n \in Nat, NEW d, Trail(p, begin, t, n),
         Leads(p, t[n], d), d.done \in Seq(Entry)
  PROVE  \E u : Trail(p, begin, u, n + 1) /\ u[n + 1] = d
<1> DEFINE u == [k \in 0..n+1 |-> IF k <= n THEN t[k] ELSE d]
<1>1. u[n + 1] = d /\ (\A k \in 0..n : u[k] = t[k]) /\ u[0] = t[0]
  OBVIOUS
<1> HIDE DEF u
<1>2. ASSUME NEW k \in 0..n PROVE Leads(p, u[k], u[k + 1])
  <2>1. CASE k = n BY <1>1, <2>1
  <2>2. CASE k # n
    <3>1. k \in 0..n-1 /\ k + 1 \in 0..n BY <2>2
    <3> QED BY <1>1, <3>1 DEF Trail
  <2> QED BY <2>1, <2>2
<1>3. ASSUME NEW k \in 0..n+1 PROVE u[k].done \in Seq(Entry) /\ Before(u[k], u[n + 1])
  <2>1. CASE k = n + 1 BY <1>1, <2>1, BeforeItself
  <2>2. CASE k # n + 1
    <3>1. k \in 0..n /\ n \in 0..n BY <2>2
    <3>2. t[k].done \in Seq(Entry) /\ t[n].done \in Seq(Entry) /\ Before(t[k], t[n]) BY <3>1 DEF Trail
    <3>3. Before(t[k], d) BY <3>2, BeforeNext
    <3> QED BY <1>1, <3>1, <3>2, <3>3
  <2> QED BY <2>1, <2>2
<1>4. (n + 1) - 1 = n OBVIOUS
<1> QED BY <1>1, <1>2, <1>3, <1>4 DEF Trail

LEMMA TrailBegins ==
  ASSUME NEW p, NEW begin, begin.done \in Seq(Entry)
  PROVE  Trail(p, begin, [k \in 0..0 |-> begin], 0)
<1> DEFINE t == [k \in 0..0 |-> begin]
<1>1. t[0] = begin /\ \A k \in 0..0 : t[k] = begin OBVIOUS
<1> HIDE DEF t
<1>2. Trail(p, begin, t, 0) BY <1>1, BeforeItself DEF Trail
<1> QED BY <1>2 DEF t

\* Two trails whose commands are the same up to the count-th.
SameCommands(p, begin, t, n, u, m, count) ==
  /\ Trail(p, begin, t, n) /\ Trail(p, begin, u, m)
  /\ count \in 1..Len(t[n].done) /\ count \in 1..Len(u[m].done)
  /\ \A i \in 1..count : t[n].done[i].command = u[m].done[i].command

\* Two segments with the same commands have the same reports.
LEMMA Together ==
  ASSUME NEW p, NEW begin, NEW t, NEW n \in Nat, NEW u, NEW m \in Nat, NEW count \in Nat,
         SameCommands(p, begin, t, n, u, m, count)
  PROVE  t[n].done[count] = u[m].done[count]
<1> SUFFICES ASSUME Trail(p, begin, t, n), Trail(p, begin, u, m),
                    count \in 1..Len(t[n].done), count \in 1..Len(u[m].done),
                    \A i \in 1..count : t[n].done[i].command = u[m].done[i].command
             PROVE  t[n].done[count] = u[m].done[count]
  BY DEF SameCommands
<1> DEFINE Met(j) == j \in 0..n /\ j \in 0..m /\ u[j] = t[j] /\ Len(t[j].done) >= count
           Reaches == {k \in Nat : k <= n => (k <= m /\ u[k] = t[k]) \/ \E j \in Nat : Met(j)}
<1>1. 0 \in Reaches BY DEF Trail
<1>2. ASSUME NEW k \in Reaches PROVE k + 1 \in Reaches
  <2> SUFFICES ASSUME k + 1 <= n, ~ \E j \in Nat : Met(j) PROVE k + 1 <= m /\ u[k + 1] = t[k + 1]
    OBVIOUS
  <2>1. k \in Nat /\ k <= m /\ u[k] = t[k] /\ k \in 0..n-1 /\ k \in 0..n /\ k \in 0..m OBVIOUS
  <2> DEFINE c == t[k]
  <2>2. ~(Len(c.done) >= count) BY <2>1
  <2>3. /\ c.done \in Seq(Entry) /\ Len(c.done) \in Nat
        /\ Before(c, t[n]) /\ Before(c, u[m]) /\ Leads(p, c, t[k + 1])
    BY <2>1, LenProperties DEF Trail
  <2>4. Len(c.done) < count /\ Len(c.done) + 1 \in 1..count BY <2>2, <2>3
  <2>5. k # m
    <3> SUFFICES ASSUME k = m PROVE FALSE OBVIOUS
    <3>1. c = u[m] BY <2>1
    <3> QED BY <2>2, <3>1
  <2>6. k + 1 <= m /\ k \in 0..m-1 BY <2>1, <2>5
  <2>7. Leads(p, c, u[k + 1]) BY <2>1, <2>6 DEF Trail
  <2>8. t[k + 1] = u[k + 1]
    <3>1. CASE c.current # NoCommand BY <2>3, <2>7, <3>1 DEF Leads
    <3>2. CASE c.current = NoCommand
      <4>1. /\ t[k + 1].current # NoCommand /\ t[k + 1] = Entered(c, t[k + 1].current)
            /\ u[k + 1].current # NoCommand /\ u[k + 1] = Entered(c, u[k + 1].current)
        BY <2>3, <2>7, <3>2 DEF Leads
      <4>2. t[k + 1].done = c.done /\ u[k + 1].done = c.done BY <2>3, <2>7, <3>2, DoneAfter
      <4>3. k + 1 \in 0..n /\ k + 1 \in 0..m BY <2>1, <2>6
      <4>4. Before(t[k + 1], t[n]) /\ Before(u[k + 1], u[m]) BY <4>3 DEF Trail
      <4>5. Len(t[n].done) # Len(c.done) /\ Len(u[m].done) # Len(c.done) BY <2>4
      <4>6. /\ t[n].done[Len(c.done) + 1].command = t[k + 1].current
            /\ u[m].done[Len(c.done) + 1].command = u[k + 1].current
        BY <4>1, <4>2, <4>4, <4>5 DEF Before
      <4>7. t[k + 1].current = u[k + 1].current BY <2>4, <4>6
      <4> QED BY <4>1, <4>7
    <3> QED BY <3>1, <3>2
  <2> QED BY <2>6, <2>8
<1>3. \A k \in Nat : k \in Reaches
  <2>1. Reaches \subseteq Nat OBVIOUS
  <2> HIDE DEF Reaches
  <2> QED BY <1>1, <1>2, <2>1, EveryNumber
<1>4. PICK j \in Nat : Met(j)
  <2>1. n \in Reaches BY <1>3
  <2>2. Len(t[n].done) >= count /\ n \in 0..n OBVIOUS
  <2> QED BY <2>1, <2>2
<1>5. j \in 0..n /\ j \in 0..m /\ u[j] = t[j] /\ Len(t[j].done) >= count BY <1>4
<1>6. Before(t[j], t[n]) /\ Before(u[j], u[m]) /\ t[j].done \in Seq(Entry) BY <1>5 DEF Trail
<1>7. count \in 1..Len(t[j].done)
  <2>1. Len(t[j].done) \in Nat BY <1>6, LenProperties
  <2> QED BY <1>5, <2>1
<1> QED BY <1>5, <1>6, <1>7 DEF Before

-----------------------------------------------------------------------------
(* The machine is a function of its view *)

\* The copies of the operators on code do what those do.
LEMMA SameOperators ==
  ASSUME NEW p, NEW c
  PROVE  /\ \A code, pc : At(p, c)!ByteAt(code, pc) = ByteAt(code, pc)
         /\ \A code, pc : At(p, c)!ReadU16(code, pc) = ReadU16(code, pc)
         /\ \A code, pc : At(p, c)!Decodable(code, pc) = Decodable(code, pc)
         /\ \A code, pc : At(p, c)!InstructionSize(code, pc) = InstructionSize(code, pc)
         /\ \A code, pc : At(p, c)!Pops(code, pc) = Pops(code, pc)
         /\ \A code, pc : At(p, c)!StackDelta(code, pc) = StackDelta(code, pc)
         /\ At(p, c)!Opcode = Opcode /\ At(p, c)!BuiltinId = BuiltinId /\ At(p, c)!InputSlot = InputSlot
         /\ At(p, c)!KeyOp = KeyOp
         /\ \A cell : At(p, c)!Truthy(cell) = Truthy(cell)
<1>1. \A code, pc : At(p, c)!ByteAt(code, pc) = ByteAt(code, pc)
  BY DEF At!ByteAt, ByteAt
<1>2. \A code, pc : At(p, c)!ReadU16(code, pc) = ReadU16(code, pc)
  BY <1>1 DEF At!ReadU16, ReadU16
<1>3. At(p, c)!Opcode = Opcode /\ At(p, c)!BuiltinId = BuiltinId /\ At(p, c)!InputSlot = InputSlot
  BY DEF At!Opcode, Opcode, At!BuiltinId, BuiltinId, At!InputSlot, InputSlot
<1>4. \A op : At(p, c)!EncodedSize(op) = EncodedSize(op)
  BY Zenon DEF At!EncodedSize, EncodedSize, At!PUSH_CONST_F32, PUSH_CONST_F32, At!LOAD_GLOBAL, LOAD_GLOBAL,
    At!STORE_GLOBAL, STORE_GLOBAL, At!LOAD_KEY, LOAD_KEY, At!STORE_KEY, STORE_KEY,
    At!CALL_BUILTIN, CALL_BUILTIN, At!JUMP, JUMP, At!JUMP_IF_FALSE, JUMP_IF_FALSE, At!LOAD_INPUT, LOAD_INPUT
<1>5. \A code, pc : At(p, c)!Decodable(code, pc) = Decodable(code, pc)
  BY <1>1, <1>3, <1>4 DEF At!Decodable, Decodable
<1>6. \A code, pc : At(p, c)!InstructionSize(code, pc) = InstructionSize(code, pc)
  BY <1>1, <1>4 DEF At!InstructionSize, InstructionSize
<1>7. At(p, c)!UnaryOp = UnaryOp /\ At(p, c)!BinaryOp = BinaryOp /\ At(p, c)!KeyOp = KeyOp
  BY Zenon DEF At!UnaryOp, UnaryOp, At!BinaryOp, BinaryOp, At!ArithOp, ArithOp, At!KeyOp, KeyOp,
    At!LOAD_KEY, LOAD_KEY, At!STORE_KEY, STORE_KEY,
    At!NEG, NEG, At!NOT, NOT, At!ADD, ADD, At!SUB, SUB, At!MUL, MUL, At!DIV, DIV, At!MOD, MOD, At!EQ, EQ,
    At!NE, NE, At!LT, LT, At!LE, LE, At!GT, GT, At!GE, GE, At!AND, AND, At!OR, OR
<1>8. \A code, pc : At(p, c)!Pops(code, pc) = Pops(code, pc)
  BY <1>1, <1>7, Zenon DEF At!Pops, Pops, At!PUSH_CONST_F32, PUSH_CONST_F32, At!LOAD_GLOBAL, LOAD_GLOBAL,
    At!STORE_GLOBAL, STORE_GLOBAL, At!LOAD_KEY, LOAD_KEY, At!STORE_KEY, STORE_KEY,
    At!CALL_BUILTIN, CALL_BUILTIN, At!JUMP, JUMP, At!JUMP_IF_FALSE, JUMP_IF_FALSE, At!LOAD_INPUT, LOAD_INPUT,
    At!HALT, HALT, At!SET_COLOR, SET_COLOR, At!DUP, DUP, At!CLAMP, CLAMP, At!RGB, RGB, At!HSV, HSV, At!DIST, DIST
<1>9. \A code, pc : At(p, c)!Pushes(code, pc) = Pushes(code, pc)
  BY <1>1, Zenon DEF At!Pushes, Pushes, At!STORE_GLOBAL, STORE_GLOBAL, At!STORE_KEY, STORE_KEY,
    At!JUMP, JUMP, At!JUMP_IF_FALSE, JUMP_IF_FALSE, At!HALT, HALT, At!SET_COLOR, SET_COLOR, At!DUP, DUP
<1>10. \A code, pc : At(p, c)!StackDelta(code, pc) = StackDelta(code, pc)
  BY <1>8, <1>9 DEF At!StackDelta, StackDelta
<1>11. \A cell : At(p, c)!Truthy(cell) = Truthy(cell)
  BY DEF At!Truthy, Truthy
<1> QED BY <1>1, <1>2, <1>3, <1>5, <1>6, <1>7, <1>8, <1>10, <1>11

LEMMA Seen ==
  ASSUME NEW c, c.frame = frame, c.globals = globals, c.keys = keys, c.status = status, c.output = output
  PROVE  /\ At(program, c)!Code = Code /\ At(program, c)!Op = Op /\ At(program, c)!Operand = Operand
         /\ At(program, c)!NextPc = NextPc /\ At(program, c)!KeyBase = KeyBase
         /\ At(program, c)!Fault = Fault /\ At(program, c)!JumpTaken = JumpTaken
         /\ \A n : At(program, c)!Below(n) = Below(n) /\ At(program, c)!Top(n) = Top(n)
         /\ \A slot : At(program, c)!InputValue(slot) = InputValue(slot)
         /\ \A id : At(program, c)!ArgFrames(id) = ArgFrames(id)
         /\ \A command : At(program, c)!Shown(command) = Shown(command)
<1>1. At(program, c)!Code = Code
  BY Zenon DEF At!Code, Code, At!Section, Section
<1>2. At(program, c)!Op = Op /\ At(program, c)!Depth = Depth
  BY <1>1, SameOperators DEF At!Op, Op, At!Depth, Depth
<1>3. At(program, c)!Operand = Operand /\ At(program, c)!NextPc = NextPc
      /\ At(program, c)!Argc = Argc
  BY <1>1, SameOperators DEF At!Operand, Operand, At!NextPc, NextPc, At!Argc, Argc
<1>4. At(program, c)!KeyCount = KeyCount /\ At(program, c)!GlobalCount = GlobalCount
      /\ At(program, c)!KeyBase = KeyBase
  BY DEF At!KeyCount, KeyCount, At!GlobalCount, GlobalCount, At!KeyBase, KeyBase
<1>5. \A n : At(program, c)!Below(n) = Below(n) /\ At(program, c)!Top(n) = Top(n)
  BY <1>2, Zenon DEF At!Below, Below, At!Top, Top
<1>6. \A slot : At(program, c)!InputValue(slot) = InputValue(slot)
  BY SameOperators, Zenon DEF At!InputValue, InputValue
<1>7. At(program, c)!JumpTaken = JumpTaken
  BY <1>2, SameOperators, Zenon DEF At!JumpTaken, JumpTaken, At!JUMP_IF_FALSE, JUMP_IF_FALSE
<1>8. At(program, c)!Available = Available
  <2>1. \A slot : At(program, c)!InputAllowed(slot) = InputAllowed(slot)
    BY Zenon DEF At!InputAllowed, InputAllowed, At!INPUT_DT, INPUT_DT, At!INPUT_SPEED, INPUT_SPEED
  <2> QED BY <1>1, <1>2, <2>1, SameOperators, Zenon DEF At!Available, Available, At!LOAD_INPUT, LOAD_INPUT,
    At!SET_COLOR, SET_COLOR
<1>9. At(program, c)!OperandInRange = OperandInRange
  BY <1>1, <1>2, <1>3, <1>4, SameOperators, Zenon DEF At!OperandInRange, OperandInRange, At!PUSH_CONST_F32,
    PUSH_CONST_F32, At!LOAD_GLOBAL, LOAD_GLOBAL, At!STORE_GLOBAL, STORE_GLOBAL, At!CALL_BUILTIN, CALL_BUILTIN,
    At!JUMP, JUMP
<1>10. At(program, c)!Fault = Fault
  <2>1. /\ At(program, c)!Decodable(Code, frame.pc) = Decodable(Code, frame.pc)
        /\ At(program, c)!Pops(Code, frame.pc) = Pops(Code, frame.pc)
        /\ At(program, c)!StackDelta(Code, frame.pc) = StackDelta(Code, frame.pc)
        /\ At(program, c)!ByteAt(Code, frame.pc + 1) = ByteAt(Code, frame.pc + 1)
        /\ At(program, c)!Opcode = Opcode /\ At(program, c)!BuiltinId = BuiltinId
    BY SameOperators
  <2>2. At(program, c)!CALL_BUILTIN = CALL_BUILTIN /\ At(program, c)!NoError = NoError
    BY DEF At!CALL_BUILTIN, CALL_BUILTIN, At!NoError, NoError
  <2> QED BY <1>1, <1>2, <1>3, <1>7, <1>8, <1>9, <2>1, <2>2, Zenon DEF At!Fault, Fault
<1>11. \A id : At(program, c)!ArgFrames(id) = ArgFrames(id)
  <2>1. At(program, c)!BuiltinArity = BuiltinArity
    BY SameOperators, Zenon DEF At!BuiltinArity, BuiltinArity, At!BUILTIN_RAND, BUILTIN_RAND,
      At!BUILTIN_MIN, BUILTIN_MIN, At!BUILTIN_MAX, BUILTIN_MAX, At!BUILTIN_POW, BUILTIN_POW,
      At!BUILTIN_CLAMP, BUILTIN_CLAMP, At!BUILTIN_RGB, BUILTIN_RGB, At!BUILTIN_HSV, BUILTIN_HSV,
      At!BUILTIN_LERP, BUILTIN_LERP, At!BUILTIN_DIST, BUILTIN_DIST, At!BUILTIN_ABS, BUILTIN_ABS,
      At!BUILTIN_SQRT, BUILTIN_SQRT
  <2>2. At(program, c)!Top(Argc) = Top(Argc)
    BY <1>5
  <2> SUFFICES ASSUME NEW id PROVE At(program, c)!ArgFrames(id) = ArgFrames(id)
    OBVIOUS
  <2> QED BY <1>3, <2>1, <2>2, Zenon DEF At!ArgFrames, ArgFrames
<1>12. \A command : At(program, c)!Shown(command) = Shown(command)
  BY <1>4, Zenon DEF At!Shown, Shown
<1> QED BY <1>1, <1>2, <1>3, <1>4, <1>5, <1>6, <1>7, <1>10, <1>11, <1>12

\* A builtin with its arguments is applied to them, and nothing is left to chance.
LEMMA OneArgumentFrame ==
  ASSUME TypeOK, Executes({CALL_BUILTIN}), ArgumentsGiven, NEW a \in ArgFrames(ByteAt(Code, frame.pc + 1)),
         NEW b \in ArgFrames(ByteAt(Code, frame.pc + 1))
  PROVE  a = b
<1> DEFINE id == ByteAt(Code, frame.pc + 1)
<1>1. Argc \in Nat /\ id \in BuiltinId /\ Executing /\ Op = CALL_BUILTIN
  BY StackEffect, Decoded DEF Executes
<1>2. BuiltinArity[id] \in Nat /\ ~(BuiltinArity[id] > Argc)
  <2>1. BuiltinArity[id] \in 0..4 /\ Argc >= BuiltinArity[id] BY <1>1, Arity DEF ArgumentsGiven
  <2> QED BY <1>1, <2>1
<1>3. \A f, g \in [1..Argc - Argc -> Cell] : f = g
  <2>1. 1..Argc - Argc = {} BY <1>1
  <2>2. \A S : \A f, g \in [{} -> S] : f = g OBVIOUS
  <2> QED BY <2>1, <2>2
<1>4. ArgFrames(id) = {Top(Argc) \o unwritten \o [i \in 1..4-Argc |-> Zero] : unwritten \in [1..Argc-Argc -> Cell]}
  BY <1>2, Zenon DEF ArgFrames
<1> HIDE DEF id
<1> QED BY <1>3, <1>4, Zenon DEF id

\* What View sees while main waits.
LEMMA Watching ==
  ASSUME reader = "waiting"
  PROVE  /\ View.globals = globals /\ View.keys = keys /\ View.frame = frame /\ View.output = output
         /\ View.status = status /\ View.failed = (error # NoError) /\ View.position = position
         /\ View.current = current /\ View.done = log[Len(log)]
BY DEF View

LEMMA WatchingNext ==
  ASSUME reader = "waiting", reader' = "waiting", UNCHANGED <<current, log>>
  PROVE  View' = [globals |-> globals', keys |-> keys', frame |-> frame', output |-> output',
                  status |-> status', failed |-> error' # NoError, position |-> position',
                  current |-> View.current, done |-> View.done]
BY DEF View, NoError

LEMMA SeenNow ==
  ASSUME reader = "waiting"
  PROVE  /\ At(program, View)!Code = Code /\ At(program, View)!Op = Op /\ At(program, View)!Operand = Operand
         /\ At(program, View)!NextPc = NextPc /\ At(program, View)!KeyBase = KeyBase
         /\ At(program, View)!Fault = Fault /\ At(program, View)!JumpTaken = JumpTaken
         /\ \A n : At(program, View)!Below(n) = Below(n) /\ At(program, View)!Top(n) = Top(n)
         /\ \A slot : At(program, View)!InputValue(slot) = InputValue(slot)
         /\ \A id : At(program, View)!ArgFrames(id) = ArgFrames(id)
         /\ \A command : At(program, View)!Shown(command) = Shown(command)
         /\ Builtin(program, View) = ByteAt(Code, frame.pc + 1)
         /\ Draws(program, View) <=> Op = CALL_BUILTIN /\ ByteAt(Code, frame.pc + 1) = BUILTIN_RAND
<1> DEFINE c == View
<1>1. c.frame = frame /\ c.globals = globals /\ c.keys = keys /\ c.status = status /\ c.output = output
  BY Watching
<1> HIDE DEF c
<1>2. /\ At(program, c)!Code = Code /\ At(program, c)!Op = Op /\ At(program, c)!Operand = Operand
      /\ At(program, c)!NextPc = NextPc /\ At(program, c)!KeyBase = KeyBase
      /\ At(program, c)!Fault = Fault /\ At(program, c)!JumpTaken = JumpTaken
      /\ \A n : At(program, c)!Below(n) = Below(n) /\ At(program, c)!Top(n) = Top(n)
      /\ \A slot : At(program, c)!InputValue(slot) = InputValue(slot)
      /\ \A id : At(program, c)!ArgFrames(id) = ArgFrames(id)
      /\ \A command : At(program, c)!Shown(command) = Shown(command)
  BY <1>1, Seen
<1>3. Builtin(program, c) = ByteAt(Code, frame.pc + 1)
  BY <1>1, <1>2 DEF Builtin
<1>4. Draws(program, c) <=> Op = CALL_BUILTIN /\ ByteAt(Code, frame.pc + 1) = BUILTIN_RAND
  BY <1>2, <1>3 DEF Draws
<1> QED BY <1>2, <1>3, <1>4 DEF c

\* A call that fails.
LEMMA StopsAsSeen ==
  ASSUME IInv, Run, SqrtDomainError \/ Trap \/ FallOff
  PROVE  View' = Advance(program, View)
<1> DEFINE id == ByteAt(Code, frame.pc + 1)
<1>1. /\ reader = "waiting" /\ reader' = "waiting" /\ UNCHANGED <<current, log>> /\ status = "running"
      /\ DrawsRandom \/ position' = position
  BY DEF Run, SqrtDomainError, Trap, FallOff, Executing
<1>2. PICK message : Return(message) /\ message # NoError /\ output' = output
  BY DEF SqrtDomainError, Trap, FallOff, NoError
<1>3. ~DrawsRandom
  <2> SUFFICES ASSUME DrawsRandom PROVE FALSE OBVIOUS
  <2>1. Executes({CALL_BUILTIN}) /\ id = BUILTIN_RAND BY DEF DrawsRandom
  <2>2. Executing /\ Fault = NoError /\ frame.pc < Len(Code) BY <2>1 DEF Executes, Executing
  <2>3. ~Trap BY <2>2 DEF Trap
  <2>4. ~FallOff
    <3>0. TypeOK BY DEF IInv
    <3>1. frame.pc \in Nat BY <3>0 DEF TypeOK
    <3>2. Len(Code) \in Nat BY <3>0, CodeType
    <3>3. ~(frame.pc >= Len(Code)) BY <2>2, <3>1, <3>2
    <3> QED BY <3>3, Zenon DEF FallOff
  <2>5. ~SqrtDomainError
    <3>1. id # BUILTIN_SQRT BY <2>1 DEF BUILTIN_RAND, BUILTIN_SQRT
    <3>2. \A args : ~SqrtDomain(id, args) BY <3>1 DEF SqrtDomain
    <3> QED BY <3>2, Zenon DEF SqrtDomainError
  <2> QED BY <2>3, <2>4, <2>5
<1>4. Stops(program, View)
  <2>1. View.frame = frame BY <1>1, Watching
  <2>2. CASE FallOff BY <1>1, <2>1, <2>2, SeenNow DEF FallOff, Stops
  <2>3. CASE Trap BY <1>1, <2>1, <2>3, SeenNow DEF Trap, Stops
  <2>4. CASE SqrtDomainError BY <1>1, <2>1, <2>4, SeenNow DEF SqrtDomainError, Stops
  <2> QED BY <2>2, <2>3, <2>4
<1>5. /\ status' = "idle" /\ error' = message /\ frame' = NoFrame /\ UNCHANGED <<globals, keys, position>>
      /\ output' = output
  BY <1>1, <1>2, <1>3 DEF Return
<1>6. View' = [globals |-> View.globals, keys |-> View.keys, frame |-> NoFrame, output |-> View.output,
               status |-> "idle", failed |-> TRUE, position |-> View.position, current |-> View.current,
               done |-> View.done]
  <2>1. (error' # NoError) = TRUE BY <1>2, <1>5
  <2> QED BY <1>1, <1>5, <2>1, Watching, WatchingNext
<1> QED BY <1>4, <1>6 DEF Advance, Ended

\* An instruction that passes every check.
LEMMA GoesOnAsSeen ==
  ASSUME IInv, ArgumentsGiven, Run, NEW ops, Executes(ops), Op = CALL_BUILTIN => CallBuiltin
  PROVE  /\ reader = "waiting" /\ reader' = "waiting" /\ UNCHANGED <<current, log>>
         /\ ~Stops(program, View)
         /\ DrawsRandom <=> Draws(program, View)
<1> DEFINE id == ByteAt(Code, frame.pc + 1)
<1>1. reader = "waiting" /\ reader' = "waiting" /\ UNCHANGED <<current, log>>
  BY DEF Run
<1>2. TypeOK BY DEF IInv
<1>3. frame.pc \in Nat /\ frame.pc < Len(Code) /\ Len(Code) \in Nat /\ Fault = NoError /\ Op \in ops
  BY <1>2, Decoded, CodeType DEF Executes
<1>4. ~(frame.pc >= Len(Code)) BY <1>3
<1>5. ASSUME Op = CALL_BUILTIN PROVE ~ \E args \in ArgFrames(id) : SqrtDomain(id, args)
  <2>1. Executes({CALL_BUILTIN}) BY <1>5 DEF Executes
  <2>2. CallBuiltin BY <1>5
  <2>3. PICK args \in ArgFrames(id) : ~SqrtDomain(id, args) BY <2>2, Zenon DEF CallBuiltin
  <2> QED BY <1>2, <2>1, <2>3, OneArgumentFrame
<1>6. View.frame = frame BY <1>1, Watching
<1>7. ~Stops(program, View) BY <1>1, <1>3, <1>4, <1>5, <1>6, SeenNow DEF Stops
<1>8. DrawsRandom <=> Draws(program, View)
  <2>1. Op = CALL_BUILTIN => Executes({CALL_BUILTIN}) BY DEF Executes
  <2>2. Executes({CALL_BUILTIN}) => Op = CALL_BUILTIN BY DEF Executes
  <2> QED BY <1>1, <2>1, <2>2, SeenNow DEF DrawsRandom
<1> QED BY <1>1, <1>7, <1>8

LEMMA ContinuesAsSeen ==
  ASSUME IInv, ArgumentsGiven, Run, NEW ops, Executes(ops), Op = CALL_BUILTIN => CallBuiltin, Op # HALT,
         Continue(PcAfter(program, View), StackAfter(program, View)),
         globals' = IF Op = STORE_GLOBAL THEN [globals EXCEPT ![Operand] = frame.stack[Depth]] ELSE globals,
         keys' = IF Op = STORE_KEY THEN [keys EXCEPT ![KeyBase + Operand] = frame.stack[Depth]] ELSE keys,
         output' = IF Op = SET_COLOR THEN [output EXCEPT !.color = frame.stack[Depth], !.hasColor = TRUE]
                   ELSE output
  PROVE  View' = Advance(program, View)
<1>1. /\ reader = "waiting" /\ reader' = "waiting" /\ UNCHANGED <<current, log>>
      /\ ~Stops(program, View) /\ (DrawsRandom <=> Draws(program, View))
  BY GoesOnAsSeen
<1>2. /\ frame' = [frame EXCEPT !.pc = PcAfter(program, View), !.stack = StackAfter(program, View),
                                !.steps = frame.steps + 1]
      /\ status' = status /\ error' = error /\ status = "running"
  BY DEF Continue, Executes, Executing
<1>3. position' = IF Draws(program, View) THEN position + 1 ELSE position
  BY <1>1 DEF Run
<1>4. /\ View.globals = globals /\ View.keys = keys /\ View.frame = frame /\ View.output = output
      /\ View.failed = (error # NoError) /\ View.position = position
  BY <1>1, Watching
<1>5. /\ At(program, View)!Op = Op /\ At(program, View)!Operand = Operand /\ At(program, View)!KeyBase = KeyBase
  BY <1>1, SeenNow
<1>6. View' = [globals |-> globals', keys |-> keys', frame |-> frame', output |-> output',
               status |-> "running", failed |-> View.failed, position |-> position',
               current |-> View.current, done |-> View.done]
  BY <1>1, <1>2, <1>4, WatchingNext
<1>7. Advance(program, View) =
        [globals |-> globals', keys |-> keys', frame |-> frame', output |-> output',
         status |-> "running", failed |-> View.failed, position |-> position',
         current |-> View.current, done |-> View.done]
  BY <1>1, <1>2, <1>3, <1>4, <1>5, Zenon DEF Advance, Depth
<1> QED BY <1>6, <1>7

\* What the next instruction makes of the program counter and the stack.
LEMMA AfterNow ==
  ASSUME reader = "waiting"
  PROVE  /\ PcAfter(program, View) = IF Op = JUMP \/ JumpTaken THEN Operand ELSE NextPc
         /\ StackAfter(program, View) =
              IF Op = JUMP THEN frame.stack
              ELSE IF Op = DUP THEN Append(frame.stack, frame.stack[Depth])
              ELSE IF Op \in {STORE_GLOBAL, STORE_KEY, SET_COLOR, JUMP_IF_FALSE} THEN Below(1)
              ELSE Append(Below(Pops(Code, frame.pc)), Value(program, View))
         /\ Value(program, View) =
              IF Op = PUSH_CONST_F32 THEN program.constants[Operand + 1]
              ELSE IF Op = LOAD_INPUT THEN InputValue(ByteAt(Code, frame.pc + 1))
              ELSE IF Op = LOAD_GLOBAL THEN globals[Operand]
              ELSE IF Op = LOAD_KEY THEN keys[KeyBase + Operand]
              ELSE IF Op \in BinaryOp THEN BinaryResult(Op, frame.stack[Depth - 1], frame.stack[Depth])
              ELSE IF Op \in UnaryOp THEN UnaryResult(Op, frame.stack[Depth])
              ELSE IF Op = CALL_BUILTIN THEN Called(program, View)
              ELSE CalledDirectly(program, View)
         /\ Called(program, View) =
              IF ByteAt(Code, frame.pc + 1) = BUILTIN_RAND THEN RandomAt(position)
              ELSE BuiltinResult(ByteAt(Code, frame.pc + 1),
                                 OneOf(ArgFrames(ByteAt(Code, frame.pc + 1))))
         /\ CalledDirectly(program, View) =
              BuiltinResult(IF Op = CLAMP THEN BUILTIN_CLAMP ELSE IF Op = DIST THEN BUILTIN_DIST
                            ELSE IF Op = RGB THEN BUILTIN_RGB ELSE BUILTIN_HSV,
                            Top(Pops(Code, frame.pc)) \o [i \in 1..4-Pops(Code, frame.pc) |-> Zero])
<1> DEFINE c == View
           popped == Pops(Code, frame.pc)
           id == ByteAt(Code, frame.pc + 1)
<1>1. c.frame = frame /\ c.globals = globals /\ c.keys = keys /\ c.position = position
  BY Watching
<1>2. /\ At(program, c)!Code = Code /\ At(program, c)!Op = Op /\ At(program, c)!Operand = Operand
      /\ At(program, c)!NextPc = NextPc /\ At(program, c)!KeyBase = KeyBase
      /\ At(program, c)!JumpTaken = JumpTaken
      /\ At(program, c)!Below(1) = Below(1) /\ At(program, c)!Below(popped) = Below(popped)
      /\ At(program, c)!Top(popped) = Top(popped)
      /\ At(program, c)!InputValue(id) = InputValue(id)
      /\ At(program, c)!ArgFrames(id) = ArgFrames(id)
      /\ Builtin(program, c) = id
      /\ Draws(program, c) <=> Op = CALL_BUILTIN /\ id = BUILTIN_RAND
  BY SeenNow
<1>3. Len(frame.stack) = Depth BY DEF Depth
<1> HIDE DEF c
<1>4. PcAfter(program, c) = IF Op = JUMP \/ JumpTaken THEN Operand ELSE NextPc
  BY <1>2, Zenon DEF PcAfter
<1>5. Op # CALL_BUILTIN \/ (Draws(program, c) <=> id = BUILTIN_RAND)
  BY <1>2
<1>6. Pops(Code, frame.pc) = popped OBVIOUS
<1> HIDE DEF popped, id
<1>7. StackAfter(program, c) =
              IF Op = JUMP THEN frame.stack
              ELSE IF Op = DUP THEN Append(frame.stack, frame.stack[Depth])
              ELSE IF Op \in {STORE_GLOBAL, STORE_KEY, SET_COLOR, JUMP_IF_FALSE} THEN Below(1)
              ELSE Append(Below(popped), Value(program, c))
  BY <1>1, <1>2, <1>3, <1>6, Zenon DEF StackAfter
<1>8. Value(program, c) =
              IF Op = PUSH_CONST_F32 THEN program.constants[Operand + 1]
              ELSE IF Op = LOAD_INPUT THEN InputValue(id)
              ELSE IF Op = LOAD_GLOBAL THEN globals[Operand]
              ELSE IF Op = LOAD_KEY THEN keys[KeyBase + Operand]
              ELSE IF Op \in BinaryOp THEN BinaryResult(Op, frame.stack[Depth - 1], frame.stack[Depth])
              ELSE IF Op \in UnaryOp THEN UnaryResult(Op, frame.stack[Depth])
              ELSE IF Op = CALL_BUILTIN THEN Called(program, c)
              ELSE CalledDirectly(program, c)
  BY <1>1, <1>2, <1>3, Zenon DEF Value
<1>9. Called(program, c) =
        IF id = BUILTIN_RAND THEN RandomAt(position)
        ELSE BuiltinResult(id, OneOf(ArgFrames(id)))
  BY <1>1, <1>2, Zenon DEF Called
<1>10. CalledDirectly(program, c) =
         BuiltinResult(IF Op = CLAMP THEN BUILTIN_CLAMP ELSE IF Op = DIST THEN BUILTIN_DIST
                       ELSE IF Op = RGB THEN BUILTIN_RGB ELSE BUILTIN_HSV,
                       Top(popped) \o [i \in 1..4-popped |-> Zero])
  BY <1>1, <1>2, <1>6, Zenon DEF CalledDirectly
<1> QED BY <1>4, <1>7, <1>8, <1>9, <1>10, Zenon DEF c, popped, id

\* A rule for the instructions that put one value in the place of their operands.
LEMMA ReplacesAsSeen ==
  ASSUME IInv, ArgumentsGiven, Run, NEW ops, Executes(ops), Op = CALL_BUILTIN => CallBuiltin,
         Op \notin {JUMP, DUP, STORE_GLOBAL, STORE_KEY, SET_COLOR, JUMP_IF_FALSE, HALT},
         Replace(Value(program, View))
  PROVE  View' = Advance(program, View)
<1>1. reader = "waiting" BY DEF Run
<1>2. ~JumpTaken BY DEF JumpTaken
<1>3. /\ PcAfter(program, View) = NextPc
      /\ StackAfter(program, View) = Append(Below(Pops(Code, frame.pc)), Value(program, View))
  BY <1>1, <1>2, AfterNow
<1>4. /\ Continue(PcAfter(program, View), StackAfter(program, View))
      /\ globals' = globals /\ keys' = keys /\ output' = output
  BY <1>3 DEF Replace
<1> QED BY <1>4, ContinuesAsSeen

LEMMA PushesAsSeen ==
  ASSUME IInv, ArgumentsGiven, Run, PushConst \/ LoadInput \/ LoadGlobal \/ LoadKey \/ Binary \/ Unary
  PROVE  View' = Advance(program, View)
<1> DEFINE quiet == {JUMP, DUP, STORE_GLOBAL, STORE_KEY, SET_COLOR, JUMP_IF_FALSE, HALT, CALL_BUILTIN}
<1>1. reader = "waiting" BY DEF Run
<1>2. CASE PushConst
  <2>1. Executes({PUSH_CONST_F32}) /\ Op = PUSH_CONST_F32 /\ Replace(program.constants[Operand + 1])
    BY <1>2 DEF PushConst, Executes
  <2>2. Value(program, View) = program.constants[Operand + 1] BY <1>1, <2>1, AfterNow
  <2>3. Op \notin quiet BY <2>1 DEF PUSH_CONST_F32, JUMP, DUP, STORE_GLOBAL, STORE_KEY, SET_COLOR,
    JUMP_IF_FALSE, HALT, CALL_BUILTIN
  <2> QED BY <2>1, <2>2, <2>3, ReplacesAsSeen
<1>3. CASE LoadInput
  <2>1. Executes({LOAD_INPUT}) /\ Op = LOAD_INPUT /\ Replace(InputValue(ByteAt(Code, frame.pc + 1)))
    BY <1>3 DEF LoadInput, Executes
  <2>2. Op \notin quiet \cup {PUSH_CONST_F32} BY <2>1 DEF PUSH_CONST_F32, LOAD_INPUT, JUMP, DUP, STORE_GLOBAL,
    STORE_KEY, SET_COLOR, JUMP_IF_FALSE, HALT, CALL_BUILTIN
  <2>3. Value(program, View) = InputValue(ByteAt(Code, frame.pc + 1)) BY <1>1, <2>1, <2>2, AfterNow
  <2> QED BY <2>1, <2>2, <2>3, ReplacesAsSeen
<1>4. CASE LoadGlobal
  <2>1. Executes({LOAD_GLOBAL}) /\ Op = LOAD_GLOBAL /\ Replace(globals[Operand])
    BY <1>4 DEF LoadGlobal, Executes
  <2>2. Op \notin quiet \cup {PUSH_CONST_F32, LOAD_INPUT} BY <2>1 DEF PUSH_CONST_F32, LOAD_INPUT, LOAD_GLOBAL,
    JUMP, DUP, STORE_GLOBAL, STORE_KEY, SET_COLOR, JUMP_IF_FALSE, HALT, CALL_BUILTIN
  <2>3. Value(program, View) = globals[Operand] BY <1>1, <2>1, <2>2, AfterNow
  <2> QED BY <2>1, <2>2, <2>3, ReplacesAsSeen
<1>5. CASE LoadKey
  <2>1. Executes({LOAD_KEY}) /\ Op = LOAD_KEY /\ Replace(keys[KeyBase + Operand])
    BY <1>5 DEF LoadKey, Executes
  <2>2. Op \notin quiet \cup {PUSH_CONST_F32, LOAD_INPUT, LOAD_GLOBAL} BY <2>1 DEF PUSH_CONST_F32, LOAD_INPUT,
    LOAD_GLOBAL, LOAD_KEY, JUMP, DUP, STORE_GLOBAL, STORE_KEY, SET_COLOR, JUMP_IF_FALSE, HALT, CALL_BUILTIN
  <2>3. Value(program, View) = keys[KeyBase + Operand] BY <1>1, <2>1, <2>2, AfterNow
  <2> QED BY <2>1, <2>2, <2>3, ReplacesAsSeen
<1>6. CASE Binary
  <2>1. /\ Executes(BinaryOp) /\ Op \in BinaryOp
        /\ Replace(BinaryResult(Op, frame.stack[Depth - 1], frame.stack[Depth]))
    BY <1>6 DEF Binary, Executes
  <2>2. Op \notin quiet \cup {PUSH_CONST_F32, LOAD_INPUT, LOAD_GLOBAL, LOAD_KEY} BY <2>1 DEF PUSH_CONST_F32,
    LOAD_INPUT, LOAD_GLOBAL, LOAD_KEY, JUMP, DUP, STORE_GLOBAL, STORE_KEY, SET_COLOR, JUMP_IF_FALSE, HALT,
    CALL_BUILTIN, BinaryOp, ArithOp, ADD, SUB, MUL, DIV, MOD, EQ, NE, LT, LE, GT, GE, AND, OR
  <2>3. Value(program, View) = BinaryResult(Op, frame.stack[Depth - 1], frame.stack[Depth])
    BY <1>1, <2>1, <2>2, AfterNow
  <2> QED BY <2>1, <2>2, <2>3, ReplacesAsSeen
<1>7. CASE Unary
  <2>1. Executes(UnaryOp) /\ Op \in UnaryOp /\ Replace(UnaryResult(Op, frame.stack[Depth]))
    BY <1>7 DEF Unary, Executes
  <2>2. Op \notin quiet \cup {PUSH_CONST_F32, LOAD_INPUT, LOAD_GLOBAL, LOAD_KEY} \cup BinaryOp
    BY <2>1 DEF PUSH_CONST_F32,
    LOAD_INPUT, LOAD_GLOBAL, LOAD_KEY, JUMP, DUP, STORE_GLOBAL, STORE_KEY, SET_COLOR, JUMP_IF_FALSE, HALT,
    CALL_BUILTIN, BinaryOp, ArithOp, ADD, SUB, MUL, DIV, MOD, EQ, NE, LT, LE, GT, GE, AND, OR, UnaryOp, NEG, NOT
  <2>3. Value(program, View) = UnaryResult(Op, frame.stack[Depth]) BY <1>1, <2>1, <2>2, AfterNow
  <2> QED BY <2>1, <2>2, <2>3, ReplacesAsSeen
<1> QED BY <1>2, <1>3, <1>4, <1>5, <1>6, <1>7

LEMMA BuiltinsAsSeen ==
  ASSUME IInv, ArgumentsGiven, Run, CallBuiltin \/ DirectBuiltin
  PROVE  View' = Advance(program, View)
<1> DEFINE quiet == {JUMP, DUP, STORE_GLOBAL, STORE_KEY, SET_COLOR, JUMP_IF_FALSE, HALT,
                     PUSH_CONST_F32, LOAD_INPUT, LOAD_GLOBAL, LOAD_KEY} \cup BinaryOp \cup UnaryOp
           id == ByteAt(Code, frame.pc + 1)
<1>1. reader = "waiting" /\ TypeOK BY DEF Run, IInv
<1>2. CASE CallBuiltin
  <2>1. /\ Executes({CALL_BUILTIN}) /\ Op = CALL_BUILTIN
        /\ \E args \in ArgFrames(id) : \E value \in BuiltinOutcomes(id, args) : Replace(value)
    BY <1>2, Zenon DEF CallBuiltin, Executes
  <2>2. PICK args \in ArgFrames(id) : \E value \in BuiltinOutcomes(id, args) : Replace(value)
    BY <2>1
  <2>3. PICK value \in BuiltinOutcomes(id, args) : Replace(value)
    BY <2>2
  <2>4. Op \notin quiet
    BY <2>1 DEF PUSH_CONST_F32,
    LOAD_INPUT, LOAD_GLOBAL, LOAD_KEY, JUMP, DUP, STORE_GLOBAL, STORE_KEY, SET_COLOR, JUMP_IF_FALSE, HALT,
    CALL_BUILTIN, BinaryOp, ArithOp, ADD, SUB, MUL, DIV, MOD, EQ, NE, LT, LE, GT, GE, AND, OR, UnaryOp, NEG, NOT
  <2>5. Value(program, View) = Called(program, View) BY <1>1, <2>1, <2>4, AfterNow
  <2>6. value = Called(program, View)
    <3>1. CASE id = BUILTIN_RAND
      <4>1. DrawsRandom BY <2>1, <3>1 DEF DrawsRandom
      <4>2. frame'.stack[Len(frame'.stack)] = RandomAt(position) BY <4>1 DEF Run
      <4>3. frame'.stack = Append(Below(Pops(Code, frame.pc)), value)
        BY <1>1, <2>3 DEF Replace, Continue, TypeOK
      <4>4. Below(Pops(Code, frame.pc)) \in Seq(Cell)
        <5>1. Pops(Code, frame.pc) \in 0..Depth BY <1>1, <2>1, StackEffect
        <5> QED BY <1>1, <5>1, StackCells
      <4>5. frame'.stack[Len(frame'.stack)] = value BY <4>3, <4>4
      <4> QED BY <1>1, <3>1, <4>2, <4>5, AfterNow
    <3>2. CASE id # BUILTIN_RAND
      <4>1. value = BuiltinResult(id, args) BY <3>2 DEF BuiltinOutcomes
      <4>2. OneOf(ArgFrames(id)) \in ArgFrames(id) BY DEF OneOf
      <4>3. OneOf(ArgFrames(id)) = args BY <1>1, <2>1, <4>2, OneArgumentFrame
      <4> QED BY <1>1, <3>2, <4>1, <4>3, AfterNow
    <3> QED BY <3>1, <3>2
  <2> QED BY <1>2, <2>1, <2>3, <2>4, <2>5, <2>6, ReplacesAsSeen
<1>3. CASE DirectBuiltin
  <2>1. /\ Executes(DirectBuiltinOp) /\ Op \in DirectBuiltinOp
        /\ Replace(BuiltinResult(IF Op = CLAMP THEN BUILTIN_CLAMP ELSE IF Op = DIST THEN BUILTIN_DIST
                                 ELSE IF Op = RGB THEN BUILTIN_RGB ELSE BUILTIN_HSV,
                                 Top(Pops(Code, frame.pc)) \o [i \in 1..4-Pops(Code, frame.pc) |-> Zero]))
    <3>1. Executes(DirectBuiltinOp) /\ Op \in DirectBuiltinOp BY <1>3 DEF DirectBuiltin, Executes
    <3>2. (CASE Op = CLAMP -> BUILTIN_CLAMP [] Op = DIST -> BUILTIN_DIST
             [] Op = RGB -> BUILTIN_RGB [] Op = HSV -> BUILTIN_HSV)
          = IF Op = CLAMP THEN BUILTIN_CLAMP ELSE IF Op = DIST THEN BUILTIN_DIST
            ELSE IF Op = RGB THEN BUILTIN_RGB ELSE BUILTIN_HSV
      BY <3>1, SMT DEF DirectBuiltinOp, CLAMP, DIST, RGB, HSV
    <3> QED BY <1>3, <3>1, <3>2, Zenon DEF DirectBuiltin
  <2>2. Op \notin quiet \cup {CALL_BUILTIN}
    BY <2>1 DEF PUSH_CONST_F32, DirectBuiltinOp, CLAMP, DIST, RGB, HSV,
    LOAD_INPUT, LOAD_GLOBAL, LOAD_KEY, JUMP, DUP, STORE_GLOBAL, STORE_KEY, SET_COLOR, JUMP_IF_FALSE, HALT,
    CALL_BUILTIN, BinaryOp, ArithOp, ADD, SUB, MUL, DIV, MOD, EQ, NE, LT, LE, GT, GE, AND, OR, UnaryOp, NEG, NOT
  <2>3. Value(program, View) = CalledDirectly(program, View) BY <1>1, <2>2, AfterNow
  <2>4. Replace(Value(program, View)) BY <1>1, <2>1, <2>3, AfterNow, Zenon
  <2> QED BY <2>1, <2>2, <2>4, ReplacesAsSeen
<1> QED BY <1>2, <1>3

LEMMA MovesAsSeen ==
  ASSUME IInv, ArgumentsGiven, Run, StoreGlobal \/ StoreKey \/ Dup \/ Jump \/ JumpIfFalse \/ SetColor
  PROVE  View' = Advance(program, View)
<1>1. reader = "waiting" BY DEF Run
<1>2. CASE StoreGlobal
  <2>1. /\ Executes({STORE_GLOBAL}) /\ Op = STORE_GLOBAL
        /\ globals' = [globals EXCEPT ![Operand] = frame.stack[Depth]]
        /\ Continue(NextPc, Below(1)) /\ UNCHANGED <<keys, output>>
    BY <1>2 DEF StoreGlobal, Executes
  <2>2. Op \notin {JUMP, DUP, JUMP_IF_FALSE, HALT, CALL_BUILTIN, STORE_KEY, SET_COLOR}
    BY <2>1 DEF STORE_GLOBAL, JUMP, DUP, JUMP_IF_FALSE, HALT, CALL_BUILTIN, STORE_KEY, SET_COLOR
  <2>3. PcAfter(program, View) = NextPc /\ StackAfter(program, View) = Below(1)
    BY <1>1, <2>1, <2>2, AfterNow DEF JumpTaken
  <2> QED BY <2>1, <2>2, <2>3, ContinuesAsSeen
<1>3. CASE StoreKey
  <2>1. /\ Executes({STORE_KEY}) /\ Op = STORE_KEY
        /\ keys' = [keys EXCEPT ![KeyBase + Operand] = frame.stack[Depth]]
        /\ Continue(NextPc, Below(1)) /\ UNCHANGED <<globals, output>>
    BY <1>3 DEF StoreKey, Executes
  <2>2. Op \notin {JUMP, DUP, JUMP_IF_FALSE, HALT, CALL_BUILTIN, STORE_GLOBAL, SET_COLOR}
    BY <2>1 DEF STORE_GLOBAL, JUMP, DUP, JUMP_IF_FALSE, HALT, CALL_BUILTIN, STORE_KEY, SET_COLOR
  <2>3. PcAfter(program, View) = NextPc /\ StackAfter(program, View) = Below(1)
    BY <1>1, <2>1, <2>2, AfterNow DEF JumpTaken
  <2> QED BY <2>1, <2>2, <2>3, ContinuesAsSeen
<1>4. CASE SetColor
  <2>1. /\ Executes({SET_COLOR}) /\ Op = SET_COLOR
        /\ output' = [output EXCEPT !.color = frame.stack[Depth], !.hasColor = TRUE]
        /\ Continue(NextPc, Below(1)) /\ UNCHANGED <<globals, keys>>
    BY <1>4 DEF SetColor, Executes
  <2>2. Op \notin {JUMP, DUP, JUMP_IF_FALSE, HALT, CALL_BUILTIN, STORE_GLOBAL, STORE_KEY}
    BY <2>1 DEF STORE_GLOBAL, JUMP, DUP, JUMP_IF_FALSE, HALT, CALL_BUILTIN, STORE_KEY, SET_COLOR
  <2>3. PcAfter(program, View) = NextPc /\ StackAfter(program, View) = Below(1)
    BY <1>1, <2>1, <2>2, AfterNow DEF JumpTaken
  <2> QED BY <2>1, <2>2, <2>3, ContinuesAsSeen
<1>5. CASE Dup
  <2>1. /\ Executes({DUP}) /\ Op = DUP /\ Continue(NextPc, Append(frame.stack, frame.stack[Depth]))
        /\ UNCHANGED <<globals, keys, output>>
    BY <1>5 DEF Dup, Executes
  <2>2. Op \notin {JUMP, JUMP_IF_FALSE, HALT, CALL_BUILTIN, STORE_GLOBAL, STORE_KEY, SET_COLOR}
    BY <2>1 DEF STORE_GLOBAL, JUMP, DUP, JUMP_IF_FALSE, HALT, CALL_BUILTIN, STORE_KEY, SET_COLOR
  <2>3. PcAfter(program, View) = NextPc /\ StackAfter(program, View) = Append(frame.stack, frame.stack[Depth])
    BY <1>1, <2>1, <2>2, AfterNow DEF JumpTaken
  <2> QED BY <2>1, <2>2, <2>3, ContinuesAsSeen
<1>6. CASE Jump
  <2>1. Executes({JUMP}) /\ Op = JUMP /\ Continue(Operand, frame.stack) /\ UNCHANGED <<globals, keys, output>>
    BY <1>6 DEF Jump, Executes
  <2>2. Op \notin {DUP, JUMP_IF_FALSE, HALT, CALL_BUILTIN, STORE_GLOBAL, STORE_KEY, SET_COLOR}
    BY <2>1 DEF STORE_GLOBAL, JUMP, DUP, JUMP_IF_FALSE, HALT, CALL_BUILTIN, STORE_KEY, SET_COLOR
  <2>3. PcAfter(program, View) = Operand /\ StackAfter(program, View) = frame.stack
    BY <1>1, <2>1, AfterNow
  <2> QED BY <2>1, <2>2, <2>3, ContinuesAsSeen
<1>7. CASE JumpIfFalse
  <2>1. /\ Executes({JUMP_IF_FALSE}) /\ Op = JUMP_IF_FALSE
        /\ Continue(IF JumpTaken THEN Operand ELSE NextPc, Below(1)) /\ UNCHANGED <<globals, keys, output>>
    BY <1>7 DEF JumpIfFalse, Executes
  <2>2. Op \notin {DUP, JUMP, HALT, CALL_BUILTIN, STORE_GLOBAL, STORE_KEY, SET_COLOR}
    BY <2>1 DEF STORE_GLOBAL, JUMP, DUP, JUMP_IF_FALSE, HALT, CALL_BUILTIN, STORE_KEY, SET_COLOR
  <2>3. /\ PcAfter(program, View) = IF JumpTaken THEN Operand ELSE NextPc
        /\ StackAfter(program, View) = Below(1)
    BY <1>1, <2>1, <2>2, AfterNow
  <2> QED BY <2>1, <2>2, <2>3, ContinuesAsSeen
<1> QED BY <1>2, <1>3, <1>4, <1>5, <1>6, <1>7

LEMMA HaltsAsSeen ==
  ASSUME IInv, ArgumentsGiven, Run, Halt
  PROVE  View' = Advance(program, View)
<1>1. Executes({HALT}) /\ Op = HALT /\ output' = [output EXCEPT !.executed = frame.steps + 1] /\ Return(NoError)
  BY DEF Halt, Executes
<1>2. Op # CALL_BUILTIN BY <1>1 DEF HALT, CALL_BUILTIN
<1>3. /\ reader = "waiting" /\ reader' = "waiting" /\ UNCHANGED <<current, log>>
      /\ ~Stops(program, View) /\ (DrawsRandom <=> Draws(program, View))
  BY <1>1, <1>2, GoesOnAsSeen
<1>4. ~DrawsRandom BY <1>2 DEF DrawsRandom, Executes
<1>5. /\ status' = "idle" /\ error' = NoError /\ frame' = NoFrame /\ UNCHANGED <<globals, keys, position>>
  BY <1>1, <1>4 DEF Return, Run
<1>6. /\ View.globals = globals /\ View.keys = keys /\ View.frame = frame /\ View.output = output
      /\ View.position = position /\ At(program, View)!Op = Op
  BY <1>3, Watching, SeenNow
<1>7. View' = Ended(View, FALSE, [View.output EXCEPT !.executed = View.frame.steps + 1])
  <2>1. (error' # NoError) = FALSE BY <1>5
  <2> QED BY <1>1, <1>3, <1>5, <1>6, <2>1, WatchingNext DEF Ended
<1> QED BY <1>1, <1>3, <1>6, <1>7 DEF Advance

LEMMA RunAsSeen ==
  ASSUME IInv, ArgumentsGiven, Run
  PROVE  View' = Advance(program, View)
BY StopsAsSeen, PushesAsSeen, BuiltinsAsSeen, MovesAsSeen, HaltsAsSeen DEF Run, Step

-----------------------------------------------------------------------------
(* Every segment follows the same course *)

LEMMA FollowedNext ==
  ASSUME program' = program, Beginning' = Beginning
  PROVE  Followed' <=>
           \A i \in 1..Len(log') : \E n \in Nat : \E t :
             /\ Trail(program, Beginning, t, n)
             /\ t[n].done = log'[i]
             /\ i = Len(log') /\ reader' \in {"reading", "waiting"} => t[n] = View'
BY DEF Followed

\* The reader goes on from what View sees.
LEMMA FollowedLeads ==
  ASSUME HostInv, HostInv', Followed, program' = program, Beginning' = Beginning,
         Len(log') = Len(log), \A i \in 1..Len(log) : i # Len(log) => log'[i] = log[i],
         reader \in {"reading", "waiting"}, Leads(program, View, View')
  PROVE  Followed'
<1> SUFFICES ASSUME NEW i \in 1..Len(log)
             PROVE  \E n \in Nat : \E t :
                      /\ Trail(program, Beginning, t, n)
                      /\ t[n].done = log'[i]
                      /\ i = Len(log') /\ reader' \in {"reading", "waiting"} => t[n] = View'
  BY FollowedNext
<1>1. PICK n \in Nat : \E t :
           /\ Trail(program, Beginning, t, n)
           /\ t[n].done = log[i]
           /\ i = Len(log) /\ reader \in {"reading", "waiting"} => t[n] = View
  BY DEF Followed
<1>2. PICK t :
           /\ Trail(program, Beginning, t, n)
           /\ t[n].done = log[i]
           /\ i = Len(log) /\ reader \in {"reading", "waiting"} => t[n] = View
  BY <1>1
<1>3. CASE i # Len(log)
  <2>1. log'[i] = log[i] BY <1>3
  <2> QED BY <1>2, <1>3, <2>1
<1>4. CASE i = Len(log)
  <2>1. View'.done = log'[Len(log')] BY DEF View
  <2>2. log'[Len(log')] \in Seq(Entry)
    <3>1. log' \in Seq(Seq(Entry)) BY DEF HostInv, HostTypeOK
    <3> QED BY <1>4, <3>1, ElementOfSeq
  <2>3. Leads(program, t[n], View') BY <1>2, <1>4
  <2> DEFINE d == View'
  <2>4. d.done \in Seq(Entry) BY <2>1, <2>2
  <2>5. PICK u : Trail(program, Beginning, u, n + 1) /\ u[n + 1] = d
    <3> HIDE DEF d
    <3>1. Leads(program, t[n], d) BY <2>3 DEF d
    <3> QED BY <1>2, <2>4, <3>1, TrailGrows
  <2>6. n + 1 \in Nat OBVIOUS
  <2> QED BY <1>4, <2>1, <2>5, <2>6
<1> QED BY <1>3, <1>4

\* The last segment is at its beginning.
LEMMA FollowedAfresh ==
  ASSUME HostInv, Followed, program' = program, Beginning' = Beginning,
         Len(log') \in {Len(log), Len(log) + 1},
         \A i \in 1..Len(log') : i # Len(log') => i \in 1..Len(log) /\ log'[i] = log[i],
         log'[Len(log')] = << >>, View' = Beginning
  PROVE  Followed'
<1> SUFFICES ASSUME NEW i \in 1..Len(log')
             PROVE  \E n \in Nat : \E t :
                      /\ Trail(program, Beginning, t, n)
                      /\ t[n].done = log'[i]
                      /\ i = Len(log') /\ reader' \in {"reading", "waiting"} => t[n] = View'
  BY FollowedNext
<1>1. CASE i # Len(log') BY <1>1 DEF Followed
<1>2. CASE i = Len(log')
  <2> DEFINE b == Beginning
  <2>1. b.done = << >> /\ b.done \in Seq(Entry) BY EmptySeq DEF Beginning
  <2> DEFINE t == [k \in 0..0 |-> b]
  <2>2. Trail(program, b, t, 0)
    <3> HIDE DEF b
    <3> QED BY <2>1, TrailBegins
  <2>3. t[0] = b OBVIOUS
  <2>4. t[0].done = log'[i] BY <1>2, <2>1, <2>3
  <2> HIDE DEF t
  <2>5. 0 \in Nat OBVIOUS
  <2> QED BY <2>2, <2>3, <2>4, <2>5
<1> QED BY <1>1, <1>2

\* Nobody reads any more, or not yet.
LEMMA FollowedAway ==
  ASSUME Followed, program' = program, Beginning' = Beginning, log' = log,
         reader' \notin {"reading", "waiting"} \/ (reader' = reader /\ View' = View)
  PROVE  Followed'
BY FollowedNext DEF Followed

\* No step changes what a reset restores.
LEMMA RestoresAgain ==
  ASSUME TypeOK, program' = program, globals' = globals \/ globals' = ResetGlobals,
         keys' = keys \/ keys' = ResetKeys
  PROVE  ResetGlobals' = ResetGlobals /\ ResetKeys' = ResetKeys
<1>1. GlobalCount' = GlobalCount /\ KeyCells' = KeyCells /\ KeyCount' = KeyCount
  BY DEF GlobalCount, KeyCells, KeyCount
<1>2. ResetGlobals' = [i \in 0..GlobalCapacity-1 |->
                         IF i < GlobalCount THEN program.initialGlobals[i + 1] ELSE globals'[i]]
  BY <1>1 DEF ResetGlobals
<1>3. ResetKeys' = [i \in 0..KeyCellCapacity-1 |->
                      IF i < KeyCells THEN program.initialKeys[(i % KeyCount) + 1] ELSE keys'[i]]
  BY <1>1 DEF ResetKeys
<1>4. ResetGlobals' = ResetGlobals BY <1>2 DEF ResetGlobals
<1>5. ResetKeys' = ResetKeys BY <1>3 DEF ResetKeys
<1> QED BY <1>4, <1>5

LEMMA StoresInside ==
  ASSUME IInv, StoreGlobal \/ StoreKey
  PROVE  ResetGlobals' = ResetGlobals /\ ResetKeys' = ResetKeys
<1>1. TypeOK BY DEF IInv
<1>2. /\ globals \in [0..GlobalCapacity-1 -> Cell] /\ keys \in [0..KeyCellCapacity-1 -> Cell]
      /\ program' = program
      /\ GlobalCount' = GlobalCount /\ KeyCells' = KeyCells /\ KeyCount' = KeyCount
  BY <1>1 DEF TypeOK, StoreGlobal, StoreKey, Continue, GlobalCount, KeyCells, KeyCount
<1>3. CASE StoreGlobal
  <2>1. /\ Executes({STORE_GLOBAL}) /\ globals' = [globals EXCEPT ![Operand] = frame.stack[Depth]] /\ keys' = keys
    BY <1>3 DEF StoreGlobal
  <2>2. Op = STORE_GLOBAL /\ OperandInRange BY <1>1, <2>1, Decoded
  <2>3. Operand < GlobalCount BY <2>2 DEF OperandInRange
  <2>4. \A i \in 0..GlobalCapacity-1 : ~(i < GlobalCount) => globals'[i] = globals[i] BY <1>2, <2>1, <2>3
  <2>5. ResetGlobals' = [i \in 0..GlobalCapacity-1 |->
                         IF i < GlobalCount THEN program.initialGlobals[i + 1] ELSE globals'[i]]
    BY <1>2 DEF ResetGlobals
  <2>6. ResetGlobals' = ResetGlobals BY <2>4, <2>5 DEF ResetGlobals
  <2>7. ResetKeys' = ResetKeys BY <1>2, <2>1 DEF ResetKeys
  <2> QED BY <2>6, <2>7
<1>4. CASE StoreKey
  <2>1. /\ Executes({STORE_KEY}) /\ keys' = [keys EXCEPT ![KeyBase + Operand] = frame.stack[Depth]]
        /\ globals' = globals
    BY <1>4 DEF StoreKey
  <2>2. Executes(KeyOp) BY <2>1 DEF Executes, KeyOp
  <2>3. /\ KeyBase \in Nat /\ Operand \in Nat /\ Operand < KeyCount /\ frame.key \in 0..KeySlots-1
    BY <2>2, KeyIndex
  <2>4. KeyBase + Operand < KeyCells
    <3>1. KeyCount \in Nat /\ KeySlots \in Nat BY <1>1, CountTypes, StorageAssumption
    <3>2. frame.key \in Nat /\ frame.key < KeySlots BY <2>3, <3>1
    <3> QED BY <2>3, <3>1, <3>2, RowBound DEF KeyBase, KeyCells
  <2>5. \A i \in 0..KeyCellCapacity-1 : ~(i < KeyCells) => keys'[i] = keys[i] BY <1>2, <2>1, <2>4
  <2>6. ResetKeys' = [i \in 0..KeyCellCapacity-1 |->
                      IF i < KeyCells THEN program.initialKeys[(i % KeyCount) + 1] ELSE keys'[i]]
    BY <1>2 DEF ResetKeys
  <2>7. ResetKeys' = ResetKeys BY <2>5, <2>6 DEF ResetKeys
  <2>8. ResetGlobals' = ResetGlobals BY <1>2, <2>1 DEF ResetGlobals
  <2> QED BY <2>7, <2>8
<1> QED BY <1>3, <1>4

LEMMA BeginningKept ==
  ASSUME IInv, [HostNext]_<<vars, hostVars>>
  PROVE  program' = program /\ Beginning' = Beginning /\ ResetGlobals' = ResetGlobals /\ ResetKeys' = ResetKeys
<1>1. [Next]_vars BY HostSteps
<1>2. TypeOK BY DEF IInv
<1>3. CASE StoreGlobal \/ StoreKey
  <2>1. program' = program BY <1>3 DEF StoreGlobal, StoreKey, Continue
  <2> QED BY <1>3, <2>1, StoresInside DEF Beginning
<1>4. CASE ~(StoreGlobal \/ StoreKey)
  <2>1. /\ program' = program /\ (globals' = globals \/ globals' = ResetGlobals)
        /\ keys' = keys \/ keys' = ResetKeys
    BY <1>1, <1>4, Zenon DEF Next, Step, HostCall, vars, PushConst, LoadInput, LoadGlobal, LoadKey, Dup, Binary,
        Unary, CallBuiltin, SqrtDomainError, DirectBuiltin, Jump, JumpIfFalse, SetColor, Halt,
        Trap, FallOff, Replace, Continue, Return, InitState, ResetState, SetRandom, RunInit, RunUpdate,
        RunRender, RunRenderBadKey, Enter
  <2> QED BY <1>2, <2>1, RestoresAgain DEF Beginning
<1> QED BY <1>3, <1>4

-----------------------------------------------------------------------------
LEMMA CommandNames == \A command \in Commands : command # NoCommand
<1> SUFFICES ASSUME NEW command \in Commands PROVE command # NoCommand
  OBVIOUS
<1>1. command.name \in {"init", "update", "render", "reset", "malformed"} BY HostAssumption
<1>2. NoCommand.name = "none" BY DEF NoCommand
<1> QED BY <1>1, <1>2

LEMMA LastOfLog ==
  ASSUME HostInv
  PROVE  Len(log) \in 1..Len(log) /\ Len(log) \in Nat /\ log[Len(log)] \in Seq(Entry)
<1>1. log \in Seq(Seq(Entry)) /\ log # << >> BY DEF HostInv, HostTypeOK
<1>2. Len(log) \in Nat \ {0} BY <1>1, EmptySeq
<1> QED BY <1>1, <1>2, ElementOfSeq

\* A command that is read.
LEMMA EntersAsSeen ==
  ASSUME IInv, HostInv, HostInv', Poised, Followed, program' = program, Beginning' = Beginning,
         NEW command \in Commands, ReadInit(command) \/ ReadUpdate(command) \/ ReadRender(command)
  PROVE  Followed' /\ Poised'
<1>1. /\ reader = "reading" /\ reader' = "waiting" /\ current' = command /\ UNCHANGED <<position, log>>
      /\ status' = "running" /\ output' = NoOutput /\ UNCHANGED <<globals, keys, error>>
  BY DEF ReadInit, ReadUpdate, ReadRender, Reads, Calls, RunInit, RunUpdate, RunRender, Enter
<1>2. frame' = [NoFrame EXCEPT
         !.mode = command.name, !.key = IF command.name = "render" THEN command.key ELSE 0,
         !.inputs = IF command.name = "init" THEN NoInputs ELSE command.inputs]
  <2>1. CASE ReadInit(command)
    BY <2>1 DEF ReadInit, Reads, RunInit, Enter, NoFrame
  <2>2. CASE ReadUpdate(command)
    BY <2>2 DEF ReadUpdate, Reads, RunUpdate, Enter
  <2>3. CASE ReadRender(command)
    BY <2>3 DEF ReadRender, Reads, RunRender, Enter
  <2> QED BY <2>1, <2>2, <2>3
<1>3. View' = Entered(View, command)
  <2>1. /\ View.globals = globals /\ View.keys = keys /\ View.failed = (error # NoError)
        /\ View.position = position /\ View.done = log[Len(log)]
    BY DEF View
  <2>2. View' = [globals |-> globals', keys |-> keys', frame |-> frame', output |-> output',
                 status |-> status', failed |-> error' # NoError, position |-> position', current |-> current',
                 done |-> log'[Len(log')]]
    BY <1>1 DEF View, NoError
  <2> QED BY <1>1, <1>2, <2>1, <2>2 DEF Entered
<1>4. View.current = NoCommand /\ command # NoCommand
  BY <1>1, CommandNames DEF View, Poised
<1>5. View'.current = command BY <1>3 DEF Entered
<1>6. Leads(program, View, View') BY <1>3, <1>4, <1>5 DEF Leads
<1>7. Followed' BY <1>1, <1>6, FollowedLeads
<1>8. Poised' BY <1>1 DEF Poised
<1> QED BY <1>7, <1>8

\* The machine, once it is idle, is as it was at the beginning.
LEMMA AfreshAsSeen ==
  ASSUME IInv', reader' \in {"reading"}, status' = "idle", error' = NoError, position' = 0, current' = NoCommand,
         globals' = ResetGlobals, keys' = ResetKeys, log'[Len(log')] = << >>
  PROVE  View' = Beginning
<1>1. frame' = NoFrame BY DEF IInv, NoFrameLeft
<1>2. View' = [globals |-> globals', keys |-> keys', frame |-> frame', output |-> NoOutput,
               status |-> status', failed |-> error' # NoError, position |-> position', current |-> current',
               done |-> log'[Len(log')]]
  BY DEF View, NoError, NoOutput
<1>3. (error' # NoError) = FALSE OBVIOUS
<1> QED BY <1>1, <1>2, <1>3 DEF Beginning

LEMMA ReportsAsSeen ==
  ASSUME IInv, HostInv, HostInv', Poised, Followed, program' = program, Beginning' = Beginning, Finish
  PROVE  Followed' /\ Poised'
<1>1. /\ reader = "waiting" /\ status = "idle" /\ current' = NoCommand
      /\ UNCHANGED <<globals, keys, frame, output, status, error, position>>
  BY DEF Finish, vars
<1>2. CASE error = NoError
  <2>1. reader' = "reading" /\ AppendReport(current) BY <1>2 DEF Finish
  <2> DEFINE entry == [command |-> current, report |-> Shown(current)]
  <2>2. /\ Len(log') = Len(log) /\ log'[Len(log)] = Append(log[Len(log)], entry)
        /\ \A i \in 1..Len(log) : i # Len(log) => log'[i] = log[i]
    <3> DEFINE last == Len(log)
               longer == Append(log[last], entry)
    <3>1. log \in Seq(Seq(Entry)) /\ last \in 1..last /\ last \in Nat BY LastOfLog DEF HostInv, HostTypeOK
    <3>2. log' = [log EXCEPT ![last] = longer] BY <2>1 DEF AppendReport
    <3>3. DOMAIN log = 1..last /\ log \in [1..last -> Seq(Entry)] BY <3>1
    <3>4. log' \in Seq(Seq(Entry)) BY DEF HostInv, HostTypeOK
    <3> HIDE DEF longer
    <3>5. DOMAIN log' = 1..last /\ \A i \in 1..last : log'[i] = IF i = last THEN longer ELSE log[i]
      BY <3>1, <3>2, <3>3
    <3>6. DOMAIN log' = 1..Len(log') /\ Len(log') \in Nat BY <3>4, LenProperties
    <3>7. Len(log') = last
      <4> HIDE DEF last
      <4> QED BY <3>1, <3>5, <3>6
    <3>8. longer = Append(log[last], entry) BY DEF longer
    <3> QED BY <3>1, <3>5, <3>7, <3>8
  <2>3. /\ View.globals = globals /\ View.keys = keys /\ View.frame = frame /\ View.status = status
        /\ View.failed = (error # NoError) /\ View.position = position
        /\ View.current = current /\ View.done = log[Len(log)]
        /\ At(program, View)!Shown(current) = Shown(current)
    BY <1>1, Watching, SeenNow
  <2>4. View' = [globals |-> globals', keys |-> keys', frame |-> frame', output |-> NoOutput,
                 status |-> status', failed |-> error' # NoError, position |-> position', current |-> current',
                 done |-> log'[Len(log')]]
    BY <2>1 DEF View, NoError, NoOutput
  <2>5. View' = Finished(program, View)
    BY <1>1, <2>2, <2>3, <2>4 DEF Finished
  <2>6. View.current # NoCommand /\ View.status # "running"
    BY <1>1, <2>3, CommandNames DEF HostInv, InStep
  <2>7. Leads(program, View, View') BY <2>5, <2>6 DEF Leads
  <2>8. Followed' BY <1>1, <2>2, <2>7, FollowedLeads
  <2>9. Poised' BY <1>1, <1>2, <2>1 DEF Poised
  <2> QED BY <2>8, <2>9
<1>3. CASE error # NoError
  <2>1. reader' = "exited" /\ log' = log BY <1>3 DEF Finish, Exit
  <2> QED BY <2>1, FollowedAway DEF Poised
<1> QED BY <1>2, <1>3

LEMMA FollowedSteps ==
  ASSUME IInv, IInv', HostInv, HostInv', Poised, Followed, ArgumentsGiven, [HostNext]_<<vars, hostVars>>
  PROVE  Followed' /\ Poised'
<1>1. program' = program /\ Beginning' = Beginning /\ ResetGlobals' = ResetGlobals /\ ResetKeys' = ResetKeys
  BY BeginningKept
<1>2. CASE Start
  <2>1. /\ log' = log /\ UNCHANGED <<current, position>> /\ reader = "starting"
        /\ \/ reader' = "exited"
           \/ reader' = "seeding" /\ error' = NoError /\ globals' = ResetGlobals /\ keys' = ResetKeys
    BY <1>2 DEF Start, InitState, Exit
  <2>2. Followed' BY <1>1, <2>1, FollowedAway
  <2>3. Poised' BY <1>1, <2>1 DEF Poised
  <2> QED BY <2>2, <2>3
<1>3. CASE Seed
  <2>1. /\ reader = "seeding" /\ reader' = "reading" /\ position' = 0 /\ log' = log /\ current' = current
        /\ UNCHANGED <<globals, keys, error>> /\ status' = "idle"
    BY <1>3 DEF Seed, SetRandom
  <2>2. /\ log = <<<< >>>> /\ error = NoError /\ current = NoCommand
        /\ globals = ResetGlobals /\ keys = ResetKeys
    BY <2>1 DEF Poised
  <2>3. Len(log') = 1 /\ Len(log) = 1 /\ log'[Len(log')] = << >> BY <2>1, <2>2
  <2>4. View' = Beginning BY <2>1, <2>2, <2>3, AfreshAsSeen
  <2>5. Followed' BY <1>1, <2>3, <2>4, FollowedAfresh
  <2>6. Poised' BY <2>1, <2>2 DEF Poised
  <2> QED BY <2>5, <2>6
<1>4. CASE Read
  <2> PICK command \in Commands :
        \/ ReadReset(command) \/ ReadInit(command) \/ ReadUpdate(command) \/ ReadRender(command)
        \/ ReadRenderBadKey(command) \/ ReadMalformed(command)
    BY <1>4 DEF Read
  <2>1. CASE ReadReset(command)
    <3>1. /\ reader = "reading" /\ reader' = "reading" /\ position' = 0 /\ log' = Append(log, << >>)
          /\ current' = current /\ error' = error /\ status' = "idle"
          /\ globals' = ResetGlobals /\ keys' = ResetKeys
      BY <2>1 DEF ReadReset, Reads, ResetState
    <3>2. error = NoError /\ current = NoCommand BY <3>1 DEF Poised
    <3>3. /\ Len(log') = Len(log) + 1 /\ log'[Len(log')] = << >>
          /\ \A i \in 1..Len(log') : i # Len(log') => i \in 1..Len(log) /\ log'[i] = log[i]
      <4>1. log \in Seq(Seq(Entry)) /\ Len(log) \in Nat BY LastOfLog DEF HostInv, HostTypeOK
      <4>2. Len(log') = Len(log) + 1 /\ log'[Len(log) + 1] = << >> /\ \A i \in 1..Len(log) : log'[i] = log[i]
        BY <3>1, <4>1
      <4> QED BY <4>1, <4>2
    <3>4. View' = Beginning BY <3>1, <3>2, <3>3, AfreshAsSeen
    <3>5. Followed' BY <1>1, <3>3, <3>4, FollowedAfresh
    <3>6. Poised' BY <3>1, <3>2 DEF Poised
    <3> QED BY <3>5, <3>6
  <2>2. CASE ReadInit(command) \/ ReadUpdate(command) \/ ReadRender(command)
    BY <1>1, <2>2, EntersAsSeen
  <2>3. CASE ReadRenderBadKey(command) \/ ReadMalformed(command)
    <3>1. reader' = "exited" /\ log' = log BY <2>3 DEF ReadRenderBadKey, ReadMalformed, Exit
    <3> QED BY <1>1, <3>1, FollowedAway DEF Poised
  <2> QED BY <2>1, <2>2, <2>3
<1>5. CASE EndOfInput
  <2>1. reader' = "exited" /\ log' = log BY <1>5 DEF EndOfInput, Exit
  <2> QED BY <1>1, <2>1, FollowedAway DEF Poised
<1>6. CASE Run
  <2>1. /\ reader = "waiting" /\ UNCHANGED <<reader, current, log>> BY <1>6 DEF Run
  <2>2. status = "running"
    BY <1>6, Zenon DEF Run, Step, PushConst, LoadInput, LoadGlobal, StoreGlobal, LoadKey, StoreKey, Dup, Binary,
        Unary, CallBuiltin, SqrtDomainError, DirectBuiltin, Jump, JumpIfFalse, SetColor, Halt,
        Trap, FallOff, Executes, Executing
  <2>3. View' = Advance(program, View) BY <1>6, RunAsSeen
  <2>4. View.current # NoCommand /\ View.status = "running"
    BY <2>1, <2>2, Watching, CommandNames DEF HostInv, InStep
  <2>5. Leads(program, View, View') BY <2>3, <2>4 DEF Leads
  <2>6. Followed' BY <1>1, <2>1, <2>5, FollowedLeads
  <2>7. Poised' BY <2>1 DEF Poised
  <2> QED BY <2>6, <2>7
<1>7. CASE Finish
  BY <1>1, <1>7, ReportsAsSeen
<1>8. CASE UNCHANGED <<vars, hostVars>>
  <2>1. /\ UNCHANGED <<globals, keys, frame, output, status, error>>
        /\ UNCHANGED <<reader, current, position, log>>
    BY <1>8 DEF vars, hostVars
  <2>2. View' = View BY <2>1 DEF View
  <2>3. Followed' BY <1>1, <2>1, <2>2, FollowedAway
  <2>4. Poised' BY <1>1, <2>1 DEF Poised
  <2> QED BY <2>3, <2>4
<1> QED BY <1>2, <1>3, <1>4, <1>5, <1>6, <1>7, <1>8 DEF HostNext

LEMMA FollowedInits == HostInit => Followed /\ Poised
<1> SUFFICES ASSUME HostInit PROVE Followed /\ Poised
  OBVIOUS
<1>1. log = <<<< >>>> /\ reader = "starting" /\ current = NoCommand /\ position = 0 BY DEF HostInit
<1>2. Len(log) = 1 /\ log[1] = << >> BY <1>1
<1>3. Followed
  <2> SUFFICES \E n \in Nat : \E t : Trail(program, Beginning, t, n) /\ t[n].done = << >>
    BY <1>1, <1>2 DEF Followed
  <2> DEFINE b == Beginning
             t == [k \in 0..0 |-> b]
  <2>1. b.done = << >> /\ b.done \in Seq(Entry) BY EmptySeq DEF Beginning
  <2>2. Trail(program, b, t, 0)
    <3> HIDE DEF b
    <3> QED BY <2>1, TrailBegins
  <2>3. t[0].done = << >> BY <2>1
  <2> HIDE DEF t
  <2>4. 0 \in Nat OBVIOUS
  <2> QED BY <2>2, <2>3, <2>4
<1>4. Poised BY <1>1 DEF Poised
<1> QED BY <1>3, <1>4

LEMMA FollowedReplays ==
  ASSUME HostInv, Followed
  PROVE  Replays
<1> SUFFICES ASSUME NEW i \in DOMAIN log, NEW j \in DOMAIN log, NEW n \in 1..Len(log[i]), n <= Len(log[j]),
                    \A m \in 1..n : log[i][m].command = log[j][m].command
             PROVE  log[i][n].report = log[j][n].report
  BY DEF Replays
<1>1. i \in 1..Len(log) /\ j \in 1..Len(log) /\ n \in Nat /\ n \in 1..Len(log[j])
  <2>1. log \in Seq(Seq(Entry)) BY DEF HostInv, HostTypeOK
  <2>2. DOMAIN log = 1..Len(log) BY <2>1
  <2>3. Len(log[i]) \in Nat /\ Len(log[j]) \in Nat BY <2>1, <2>2, ElementOfSeq, LenProperties
  <2> QED BY <2>2, <2>3
<1> DEFINE b == Beginning
<1>2. PICK k \in Nat : \E t : Trail(program, b, t, k) /\ t[k].done = log[i] BY <1>1 DEF Followed
<1>3. PICK t : Trail(program, b, t, k) /\ t[k].done = log[i] BY <1>2
<1>4. PICK l \in Nat : \E u : Trail(program, b, u, l) /\ u[l].done = log[j] BY <1>1 DEF Followed
<1>5. PICK u : Trail(program, b, u, l) /\ u[l].done = log[j] BY <1>4
<1> HIDE DEF b
<1>6. t[k].done[n] = u[l].done[n]
  <2>1. /\ n \in 1..Len(t[k].done) /\ n \in 1..Len(u[l].done)
        /\ \A m \in 1..n : t[k].done[m].command = u[l].done[m].command
    BY <1>1, <1>3, <1>5
  <2>2. Trail(program, b, t, k) /\ Trail(program, b, u, l) BY <1>3, <1>5
  <2>3. n \in Nat /\ k \in Nat /\ l \in Nat BY <1>1
  <2>4. SameCommands(program, b, t, k, u, l, n) BY <2>1, <2>2 DEF SameCommands
  <2> QED BY <2>3, <2>4, Together
<1> QED BY <1>3, <1>5, <1>6

\* The same commands after the start or after any reset get the same reports, whatever
\* ran before, for every program whose builtin calls have their arguments on the stack
\* (the reset branch of main, lumi_vm_reset_state and host_rand).
THEOREM ResetsReplay == HostSpec /\ []ArgumentsGiven => []Replays
<1>1. HostSpec => []IInv
  BY HostUsesMachine, Invariance, PTL
<1>2. IInv /\ IInv' /\ HostInv /\ HostInv' /\ Poised /\ Followed /\ ArgumentsGiven /\ [HostNext]_<<vars, hostVars>>
        => (Followed /\ Poised)'
  BY FollowedSteps
<1>3. HostInv /\ Followed => Replays
  BY FollowedReplays
<1> QED
  BY <1>1, <1>2, <1>3, FollowedInits, HostInvariance, PTL DEF HostSpec
=============================================================================
