------------------------------- MODULE LumiVM -------------------------------
(***************************************************************************)
(* The Lumi virtual machine: one loaded program, one runtime state laid    *)
(* out in the caller's static storage, and the calls a host makes on it.   *)
(*                                                                         *)
(* A host call of run_init, run_update or run_render is not atomic here:   *)
(* execute_section advances one instruction per step, so that what a call  *)
(* has already done when it fails half way is visible, and so that the     *)
(* stack, the step counter and the writes of each instruction are.         *)
(*                                                                         *)
(* Cells and the float operations on them are those of LumiFloat.          *)
(***************************************************************************)
EXTENDS LumiFloat

CONSTANTS
  RandomCell,       \* what an installed random provider may return
  Programs,         \* the programs that may be loaded
  Inputs,           \* the inputs a host passes to update and render
  KeySlots,         \* key_slots of lumi_vm_init_state
  GlobalCapacity, KeyCellCapacity, StackCapacity,   \* lumi_vm_state_storage
  SIZE_MAX          \* the largest size_t

ASSUME RandomAssumption == RandomCell \subseteq Cell

ASSUME StorageAssumption ==
  /\ KeySlots \in Nat /\ GlobalCapacity \in Nat /\ KeyCellCapacity \in Nat
  /\ StackCapacity \in Nat /\ SIZE_MAX \in Nat

Mode == {"init", "update", "render"}

\* lumi_vm_program
Program ==
  [constants : Seq(Cell), initialGlobals : Seq(Cell), initialKeys : Seq(Cell),
   init : Seq(Byte), update : Seq(Byte), render : Seq(Byte), maxStack : U16]

Section(p, mode) ==
  CASE mode = "init" -> p.init
    [] mode = "update" -> p.update
    [] mode = "render" -> p.render

ASSUME ProgramAssumption == Programs \subseteq Program

ASSUME InputAssumption == Inputs \subseteq [InputSlot -> Cell]

VARIABLES
  program,   \* the loaded program
  status,    \* "uncreated" before lumi_vm_init_state, then "idle" or "running"
  globals,   \* the caller's cells for globals, of which the program uses a prefix
  keys,      \* the caller's cells for key variables, one row per key slot
  randomFn,  \* whether a random provider is installed
  frame,     \* the local variables of execute_section
  output,    \* lumi_vm_output of the last call
  error      \* the message of the last call's lumi_vm_error, or NoError

vars == <<program, status, globals, keys, randomFn, frame, output, error>>

NoError == "none"
InitMessage ==
  {"runtime global storage too small", "runtime key storage size overflow",
   "runtime key storage too small", "runtime stack too small"}
RunMessage ==
  {"unknown opcode", "truncated operand", "not available in this section", "operand out of range",
   "stack underflow", "unknown builtin", "stack overflow", "jump target out of range",
   "sqrt expects non-negative input", "program terminated without halt", "key index out of range"}
Message == {NoError} \cup InitMessage \cup RunMessage
NoOutput == [color |-> Zero, hasColor |-> FALSE, executed |-> 0]
NoInputs == [s \in InputSlot |-> Zero]
NoFrame == [mode |-> "init", key |-> 0, inputs |-> NoInputs,
            pc |-> 0, stack |-> << >>, steps |-> 0]

GlobalCount == Len(program.initialGlobals)
KeyCount == Len(program.initialKeys)
KeyCells == KeyCount * KeySlots

-----------------------------------------------------------------------------
(* Creating and resetting the state *)

\* The storage arrays as lumi_vm_reset_state leaves them: every global and every
\* key's row at its initial value, the caller's other cells as they were.
ResetGlobals_Truncates ==  \* mutant: the cells past the program's globals are lost
  [i \in 0..GlobalCount-1 |-> program.initialGlobals[i + 1]]

ResetGlobals ==
  [i \in 0..GlobalCapacity-1 |->
     IF i < GlobalCount THEN program.initialGlobals[i + 1] ELSE globals[i]]

ResetKeys_FirstRow ==  \* mutant: only the row of key 0 is restored
  [c \in 0..KeyCellCapacity-1 |->
     IF c < KeyCount THEN program.initialKeys[c + 1] ELSE keys[c]]

ResetKeys ==
  [c \in 0..KeyCellCapacity-1 |->
     IF c < KeyCells THEN program.initialKeys[(c % KeyCount) + 1] ELSE keys[c]]

InitStateFault_NoKeyCapacity ==  \* mutant: the key storage is not measured
  IF GlobalCount > GlobalCapacity THEN "runtime global storage too small"
  ELSE IF program.maxStack > StackCapacity THEN "runtime stack too small"
  ELSE NoError

InitStateFault_NoStackCapacity ==  \* mutant: the stack is not measured
  IF GlobalCount > GlobalCapacity THEN "runtime global storage too small"
  ELSE IF KeyCells > SIZE_MAX THEN "runtime key storage size overflow"
  ELSE IF KeyCells > KeyCellCapacity THEN "runtime key storage too small"
  ELSE NoError

\* What lumi_vm_init_state reports, in the order of its checks.
InitStateFault ==
  IF GlobalCount > GlobalCapacity THEN "runtime global storage too small"
  ELSE IF KeyCells > SIZE_MAX THEN "runtime key storage size overflow"
  ELSE IF KeyCells > KeyCellCapacity THEN "runtime key storage too small"
  ELSE IF program.maxStack > StackCapacity THEN "runtime stack too small"
  ELSE NoError

\* A program is loaded and there is no state.
Uncreated ==
  /\ status = "uncreated"
  /\ \E c \in {Zero, One} : \* whatever the caller's storage held
       /\ globals = [i \in 0..GlobalCapacity-1 |-> c]
       /\ keys = [i \in 0..KeyCellCapacity-1 |-> c]
  /\ randomFn = FALSE
  /\ frame = NoFrame
  /\ output = NoOutput
  /\ error = NoError

Init == program \in Programs /\ Uncreated

\* lumi_vm_init_state
InitState ==
  /\ status # "running"
  /\ error' = InitStateFault
  /\ IF InitStateFault = NoError
     THEN /\ status' = "idle"
          /\ randomFn' = FALSE
          /\ globals' = ResetGlobals
          /\ keys' = ResetKeys
     ELSE UNCHANGED <<status, randomFn, globals, keys>>
  /\ UNCHANGED <<program, frame, output>>

\* lumi_vm_reset_state: neither the init section nor the random provider is touched.
ResetState ==
  /\ status = "idle"
  /\ globals' = ResetGlobals
  /\ keys' = ResetKeys
  /\ UNCHANGED <<program, status, randomFn, frame, output, error>>

\* lumi_vm_set_random, with a provider or with NULL
SetRandom(installed) ==
  /\ status = "idle"
  /\ randomFn' = installed
  /\ UNCHANGED <<program, status, globals, keys, frame, output, error>>

-----------------------------------------------------------------------------
(* Entering execute_section *)

Enter_KeepsOutput(mode, key, inputs) ==  \* mutant: the output of the last call is not cleared
  /\ status = "idle"
  /\ status' = "running"
  /\ frame' = [NoFrame EXCEPT !.mode = mode, !.key = key, !.inputs = inputs]
  /\ UNCHANGED <<program, globals, keys, randomFn, output, error>>

Enter(mode, key, inputs) ==
  /\ status = "idle"
  /\ status' = "running"
  /\ frame' = [NoFrame EXCEPT !.mode = mode, !.key = key, !.inputs = inputs]
  /\ output' = NoOutput
  /\ UNCHANGED <<program, globals, keys, randomFn, error>>

RunInit == Enter("init", 0, NoInputs)

RunUpdate(inputs) == Enter("update", 0, inputs)

RunRender(key, inputs) == key < KeySlots /\ Enter("render", key, inputs)

\* The key is checked before the output is cleared, which keeps its last content.
RunRenderBadKey(key) ==
  /\ status = "idle"
  /\ key >= KeySlots
  /\ error' = "key index out of range"
  /\ UNCHANGED <<program, status, globals, keys, randomFn, frame, output>>

-----------------------------------------------------------------------------
(* The instruction about to be executed *)

Code == Section(program, frame.mode)
Op == ByteAt(Code, frame.pc)
Operand == ReadU16(Code, frame.pc + 1)
Argc == ByteAt(Code, frame.pc + 2)
NextPc == frame.pc + InstructionSize(Code, frame.pc)
Depth == Len(frame.stack)
KeyBase_Unscaled == frame.key  \* mutant: the row's length is forgotten
KeyBase == frame.key * KeyCount

\* The n topmost cells, the last pushed one last, and the cells below them.
Top(n) == SubSeq(frame.stack, Depth - n + 1, Depth)
Below(n) == SubSeq(frame.stack, 1, Depth - n)

Executing == status = "running" /\ frame.pc < Len(Code)

\* input_allowed
InputAllowed(slot) ==
  \/ frame.mode = "render"
  \/ frame.mode = "update" /\ slot \in {INPUT_DT, INPUT_SPEED}

\* input_value: an unknown slot reads as zero.
InputValue(slot) == IF slot \in InputSlot THEN frame.inputs[slot] ELSE Zero

\* The section check of inputs, key variables and the colour.
Available ==
  /\ Op = LOAD_INPUT => InputAllowed(ByteAt(Code, frame.pc + 1))
  /\ Op \in KeyOp \cup {SET_COLOR} => frame.mode = "render"

OperandInRange_LastPlusOne ==  \* mutant: an index one past the end passes
  /\ Op = PUSH_CONST_F32 => Operand < Len(program.constants)
  /\ Op \in {LOAD_GLOBAL, STORE_GLOBAL} => Operand < GlobalCount
  /\ Op \in KeyOp => Operand <= KeyCount
  /\ Op = CALL_BUILTIN => Argc <= 4
  /\ Op = JUMP => Operand < Len(Code)

\* The operand is an index the instruction may use.  A conditional jump's is only
\* looked at when the jump is taken.
OperandInRange ==
  /\ Op = PUSH_CONST_F32 => Operand < Len(program.constants)
  /\ Op \in {LOAD_GLOBAL, STORE_GLOBAL} => Operand < GlobalCount
  /\ Op \in KeyOp => Operand < KeyCount
  /\ Op = CALL_BUILTIN => Argc <= 4
  /\ Op = JUMP => Operand < Len(Code)

JumpTaken == Op = JUMP_IF_FALSE /\ ~Truthy(frame.stack[Depth])

\* What the instruction reports, in the order of the checks.  The square root's
\* check of its argument is a step of its own, SqrtDomainError.
Fault ==
  IF Op \notin Opcode THEN "unknown opcode"
  ELSE IF ~Decodable(Code, frame.pc) THEN "truncated operand"
  ELSE IF ~Available THEN "not available in this section"
  ELSE IF ~OperandInRange THEN "operand out of range"
  ELSE IF Depth < Pops(Code, frame.pc) THEN "stack underflow"
  ELSE IF Op = CALL_BUILTIN /\ ByteAt(Code, frame.pc + 1) \notin BuiltinId THEN "unknown builtin"
  ELSE IF Depth + StackDelta(Code, frame.pc) > StackCapacity THEN "stack overflow"
  ELSE IF JumpTaken /\ Operand >= Len(Code) THEN "jump target out of range"
  ELSE NoError

-----------------------------------------------------------------------------
(* The instructions *)

Return_OnlySuccess(message) ==  \* mutant: an error is set and the loop goes on
  /\ status' = IF message = NoError THEN "idle" ELSE status
  /\ error' = message
  /\ frame' = IF message = NoError THEN NoFrame ELSE frame
  /\ UNCHANGED <<program, globals, keys, randomFn>>

\* The call returns: its local variables are gone.
Return(message) ==
  /\ status' = "idle"
  /\ error' = message
  /\ frame' = NoFrame
  /\ UNCHANGED <<program, globals, keys, randomFn>>

\* The loop goes on at pc with this stack.
Continue(pc, stack) ==
  /\ frame' = [frame EXCEPT !.pc = pc, !.stack = stack, !.steps = @ + 1]
  /\ UNCHANGED <<program, status, randomFn, error>>

\* The instruction at pc is one of ops and passes every check.
Executes(ops) == Executing /\ Op \in ops /\ Fault = NoError

\* An instruction whose only effect is to put value in the place of its operands.
Replace(value) ==
  /\ Continue(NextPc, Append(Below(Pops(Code, frame.pc)), value))
  /\ UNCHANGED <<globals, keys, output>>

PushConst == Executes({PUSH_CONST_F32}) /\ Replace(program.constants[Operand + 1])

LoadInput ==
  Executes({LOAD_INPUT}) /\ Replace(InputValue(ByteAt(Code, frame.pc + 1)))

LoadGlobal == Executes({LOAD_GLOBAL}) /\ Replace(globals[Operand])

StoreGlobal ==
  /\ Executes({STORE_GLOBAL})
  /\ globals' = [globals EXCEPT ![Operand] = frame.stack[Depth]]
  /\ Continue(NextPc, Below(1))
  /\ UNCHANGED <<keys, output>>

LoadKey == Executes({LOAD_KEY}) /\ Replace(keys[KeyBase + Operand])

StoreKey ==
  /\ Executes({STORE_KEY})
  /\ keys' = [keys EXCEPT ![KeyBase + Operand] = frame.stack[Depth]]
  /\ Continue(NextPc, Below(1))
  /\ UNCHANGED <<globals, output>>

Dup_Popped ==  \* mutant: the cell is popped and pushed once
  /\ Executes({DUP})
  /\ Continue(NextPc, frame.stack)
  /\ UNCHANGED <<globals, keys, output>>

Dup ==
  /\ Executes({DUP})
  /\ Continue(NextPc, Append(frame.stack, frame.stack[Depth]))
  /\ UNCHANGED <<globals, keys, output>>

Binary ==
  Executes(BinaryOp) /\ Replace(BinaryResult(Op, frame.stack[Depth - 1], frame.stack[Depth]))

Unary == Executes(UnaryOp) /\ Replace(UnaryResult(Op, frame.stack[Depth]))

\* args[0..3] of the C code: the popped cells, then cells it never wrote, which may
\* hold anything.  Of those only the ones the builtin reads are varied.
ArgFrames(id) ==
  LET read == IF BuiltinArity[id] > Argc THEN BuiltinArity[id] ELSE Argc
  IN  {Top(Argc) \o unwritten \o [i \in 1..4-read |-> Zero] :
         unwritten \in [1..read-Argc -> Cell]}

\* What the builtin may return: rand asks the provider, if there is one.
BuiltinOutcomes(id, args) ==
  IF id # BUILTIN_RAND THEN {BuiltinResult(id, args)}
  ELSE IF randomFn THEN RandomCell
  ELSE {Zero}

CallBuiltin ==
  /\ Executes({CALL_BUILTIN})
  /\ LET id == ByteAt(Code, frame.pc + 1) IN
       \E args \in ArgFrames(id) :
         /\ ~SqrtDomain(id, args)
         /\ \E value \in BuiltinOutcomes(id, args) : Replace(value)

SqrtDomainError ==
  /\ Executing
  /\ Op = CALL_BUILTIN
  /\ Fault \in {NoError, "stack overflow"}
  /\ LET id == ByteAt(Code, frame.pc + 1) IN
       \E args \in ArgFrames(id) : SqrtDomain(id, args)
  /\ Return("sqrt expects non-negative input")
  /\ UNCHANGED output

\* The opcodes of the builtins clamp, dist, rgb and hsv.
DirectBuiltin ==
  /\ Executes(DirectBuiltinOp)
  /\ LET id == CASE Op = CLAMP -> BUILTIN_CLAMP [] Op = DIST -> BUILTIN_DIST
                 [] Op = RGB -> BUILTIN_RGB [] Op = HSV -> BUILTIN_HSV
         argc == Pops(Code, frame.pc)
     IN  Replace(BuiltinResult(id, Top(argc) \o [i \in 1..4-argc |-> Zero]))

Jump ==
  /\ Executes({JUMP})
  /\ Continue(Operand, frame.stack)
  /\ UNCHANGED <<globals, keys, output>>

JumpIfFalse ==
  /\ Executes({JUMP_IF_FALSE})
  /\ Continue(IF JumpTaken THEN Operand ELSE NextPc, Below(1))
  /\ UNCHANGED <<globals, keys, output>>

SetColor ==
  /\ Executes({SET_COLOR})
  /\ output' = [output EXCEPT !.color = frame.stack[Depth], !.hasColor = TRUE]
  /\ Continue(NextPc, Below(1))
  /\ UNCHANGED <<globals, keys>>

Halt ==
  /\ Executes({HALT})
  /\ output' = [output EXCEPT !.executed = frame.steps + 1]
  /\ Return(NoError)

\* An instruction fails one of its checks: what earlier instructions wrote stays.
Trap ==
  /\ Executing
  /\ Fault # NoError
  /\ Return(Fault)
  /\ UNCHANGED output

\* The loop ends without HALT.
FallOff ==
  /\ status = "running"
  /\ frame.pc >= Len(Code)
  /\ Return("program terminated without halt")
  /\ UNCHANGED output

-----------------------------------------------------------------------------
Step ==
  \/ PushConst \/ LoadInput \/ LoadGlobal \/ StoreGlobal \/ LoadKey \/ StoreKey
  \/ Dup \/ Binary \/ Unary \/ CallBuiltin \/ SqrtDomainError \/ DirectBuiltin
  \/ Jump \/ JumpIfFalse \/ SetColor \/ Halt \/ Trap \/ FallOff

HostCall ==
  \/ InitState
  \/ ResetState
  \/ \E installed \in BOOLEAN : SetRandom(installed)
  \/ RunInit
  \/ \E inputs \in Inputs : RunUpdate(inputs)
  \/ \E key \in 0..KeySlots, inputs \in Inputs : RunRender(key, inputs)
  \/ \E key \in 0..KeySlots : RunRenderBadKey(key)

Next == Step \/ HostCall

Spec == Init /\ [][Next]_vars

\* The machine has no thread of its own but runs to the end of a call once entered.
FairSpec == Spec /\ WF_vars(Step)

-----------------------------------------------------------------------------
(* Properties *)

TypeOK ==
  /\ program \in Program
  /\ status \in {"uncreated", "idle", "running"}
  /\ globals \in [0..GlobalCapacity-1 -> Cell]
  /\ keys \in [0..KeyCellCapacity-1 -> Cell]
  /\ randomFn \in BOOLEAN
  /\ frame \in [mode : Mode, key : Nat, inputs : [InputSlot -> Cell],
                pc : Nat, stack : Seq(Cell), steps : Nat]
  /\ output \in [color : Cell, hasColor : BOOLEAN, executed : Nat]
  /\ error \in Message

\* A state exists only over storage that holds it, and a running call addresses an
\* existing key and a stack inside the caller's array.
FitsStorage ==
  status # "uncreated" =>
    /\ GlobalCount <= GlobalCapacity
    /\ KeyCells <= KeyCellCapacity
    /\ program.maxStack <= StackCapacity
    /\ frame.mode = "render" /\ status = "running" => frame.key < KeySlots
    /\ Len(frame.stack) <= StackCapacity

\* Whatever the bytecode, the next instruction reads and writes inside the storage
\* the caller gave (execute_section's index checks, reset_state's layout): a global
\* inside the globals in use, a key variable inside the row of the rendered key.
MemorySafe ==
  /\ Executes({LOAD_GLOBAL, STORE_GLOBAL}) => Operand \in 0..GlobalCapacity-1
  /\ Executes(KeyOp) =>
       /\ KeyBase + Operand \in 0..KeyCellCapacity-1
       /\ KeyBase <= KeyBase + Operand /\ KeyBase + Operand < KeyBase + KeyCount
  /\ Executes({PUSH_CONST_F32}) => Operand + 1 \in DOMAIN program.constants
  /\ Executes(Opcode) =>
       Depth >= Pops(Code, frame.pc) /\ Depth + StackDelta(Code, frame.pc) <= StackCapacity

\* The offsets the machine may go on at after the instruction at pc, the end included.
Onward(code, pc) ==
  LET op == ByteAt(code, pc) IN
  IF ~Decodable(code, pc) THEN {}
  ELSE (IF op \in JumpOp THEN {Target(code, pc)} ELSE {})
         \cup (IF op \notin {JUMP, HALT} THEN {pc + InstructionSize(code, pc)} ELSE {})

\* Where n instructions from offset 0 may lead, without and with a SET_COLOR among them.
Paints(code, pc) == pc < Len(code) /\ ByteAt(code, pc) = SET_COLOR
OneFurther(code, way) ==
  LET From(pcs) == UNION {Onward(code, pc) : pc \in pcs}
      painting == {pc \in way.clear : Paints(code, pc)}
  IN  [clear |-> From(way.clear \ painting), painted |-> From(way.painted \cup painting)]
Way(code, n) ==
  LET way[k \in 0..n] ==
        IF k = 0 THEN [clear |-> {0}, painted |-> {}] ELSE OneFurther(code, way[k - 1])
  IN  way[n]

\* A frame is where its instructions lead, with a colour or without.
OnWay(code, f, colored) ==
  f.pc \in IF colored THEN Way(code, f.steps).painted ELSE Way(code, f.steps).clear

\* A call that runs, and one that returns in whatever way, shows a colour exactly when
\* the path its own instructions took came past SET_COLOR, and only in a render: what
\* an earlier call left is gone, also when this one traps (execute_section's memset,
\* the section check of SET_COLOR).  A render that is refused for its key has not run.
ColorOfOwnRun == [][
  /\ status' = "running" => OnWay(Section(program', frame'.mode), frame', output'.hasColor)
  /\ status = "running" =>
       /\ output'.hasColor <=> output.hasColor \/ Executes({SET_COLOR})
       /\ output'.hasColor => frame.mode = "render" ]_vars

\* A render call writes no other key's row, and init and update write none
\* (key_base and the section check): the cells that change while a call runs lie
\* in the row of the key it renders.
OnlyOwnRow == [][
  status = "running" =>
    \A c \in 0..KeyCellCapacity-1 : keys'[c] # keys[c] =>
      frame.mode = "render" /\ c \div KeyCount = frame.key ]_vars

\* Every call returns to its host.  Programs of the compiler only jump forward.
CallsReturn == status = "running" ~> status = "idle"

\* The state promised by LumiStore, read off the flat arrays: key k's row is the
\* KeyCount cells from k * KeyCount.
Created == status # "uncreated"
StoredImage == [globals |-> program.initialGlobals, row |-> program.initialKeys]
StoredGlobals == IF Created THEN [i \in 1..GlobalCount |-> globals[i - 1]] ELSE << >>
StoredRows ==
  [k \in 0..KeySlots-1 |->
     IF Created THEN [i \in 1..KeyCount |-> keys[k * KeyCount + i - 1]] ELSE << >>]
StoredCall ==
  IF status = "running" THEN [mode |-> frame.mode, key |-> frame.key]
  ELSE [mode |-> "none", key |-> 0]

Store == INSTANCE LumiStore WITH
  image <- StoredImage, created <- Created, global <- StoredGlobals, rows <- StoredRows,
  call <- StoredCall, painted <- output.hasColor

\* The machine implements the state model: sections share the globals, each key has
\* variables of its own that only its own renders write, only render sets a colour,
\* and creating or resetting the state restores every initial value.
ImplementsStore == Store!StoreSpec
=============================================================================
