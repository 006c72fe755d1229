----------------------------- MODULE LumiLoader -----------------------------
(***************************************************************************)
(* From a compiled program to a program and a state in static storage:     *)
(* lumi_bytecode_serialize writes the image, and the loading half of vm.c  *)
(* measures it, decides whether it fits, copies it and creates the state.  *)
(*                                                                         *)
(* Between the two the image is a file: its writer may be stopped before   *)
(* all of it is written, it may be cut short, extended, or carry other     *)
(* header fields than were written.  The host may load one image after     *)
(* another into the same storage, with or without asking lumi_vm_can_load  *)
(* first.                                                                  *)
(*                                                                         *)
(* Sizes are size_t: sums and products are taken modulo SIZE_MAX + 1.  A   *)
(* float is the four bytes of its encoding.                                *)
(***************************************************************************)
EXTENDS Integers, Sequences

CONSTANTS
  Bytecodes,    \* the compiled programs
  Storages,     \* lumi_vm_program_storage and lumi_vm_state_storage of a host
  SIZE_MAX,     \* the largest size_t
  FieldValues,  \* what a damaged 32-bit header field may hold
  Tails,        \* what may follow an image in its file
  NoProgram,    \* stands for a lumi_vm_program or lumi_vm_state that was not filled in
  MaxDamage, MaxFiles,  \* bounds: damages of a file, files of a behaviour
  Cuts          \* bound: the sizes of a file that is cut short or not written to its end

MAGIC == "LUMI"                 \* 0x4C554D49
HeaderSize == 36
FloatSize == 4
ProgramTypes == {1, 2}          \* LUMI_PROGRAM_STATIC, LUMI_PROGRAM_ANIMATION
Byte == 0..255
Float == [1..FloatSize -> Byte]

SizeT(n) == n % (SIZE_MAX + 1)

\* The parts of an image behind the header.
FloatParts == {"constants", "initialGlobals", "initialKeys"}
PartNames == FloatParts \cup {"init", "update", "render"}
UnitSize(part) == IF part \in FloatParts THEN FloatSize ELSE 1

ASSUME LoaderAssumption ==
  /\ SIZE_MAX \in Nat /\ FieldValues \subseteq 0..SIZE_MAX /\ Tails \subseteq Seq(Byte)
  /\ MaxDamage \in Nat /\ MaxFiles \in Nat \ {0} /\ Cuts \subseteq Nat
  /\ \A b \in Bytecodes :
       /\ b.programType \in ProgramTypes /\ b.maxStack \in Nat
       /\ \A part \in FloatParts : b[part] \in Seq(Float)
       /\ \A part \in PartNames \ FloatParts : b[part] \in Seq(Byte)

\* The arrays that a host passes exist in memory: they and the header together have
\* fewer bytes than size_t can count.
CapacityBytes(s) ==
  HeaderSize + FloatSize * (s.program["constants"] + s.program["initialGlobals"] + s.program["initialKeys"])
             + s.program["init"] + s.program["update"] + s.program["render"]
ASSUME StorageAssumption ==
  \A s \in Storages :
    /\ s.program \in [PartNames -> Nat]
    /\ s.globals \in Nat /\ s.keyCells \in Nat /\ s.stack \in Nat /\ s.keySlots \in Nat
    /\ CapacityBytes(s) <= SIZE_MAX

VARIABLES
  storage,   \* the host's storage and key_slots
  source,    \* the compiled program that the file was written from
  file,      \* [size, header, body]
  damage,    \* how often the file was changed
  files,     \* how many files there were
  asked,     \* the answer of lumi_vm_can_load for this file, or "never"
  contents,  \* the arrays of the program storage
  program,   \* [counts, file, damaged]: lumi_vm_program and what it was loaded from, or NoProgram
  stateFor,  \* the counts of the program for which the state was created, or NoProgram
  reply      \* what the last call reported

loaderVars == <<storage, source, file, damage, files, asked, contents, program, stateFor, reply>>

-----------------------------------------------------------------------------
(* lumi_bytecode_serialize *)

HeaderOf(b) ==
  [magic |-> MAGIC, version |-> 1, programType |-> b.programType, maxStack |-> b.maxStack,
   reserved |-> 0, counts |-> [part \in PartNames |-> Len(b[part])]]

\* A part as memcpy takes it: floats are one byte after another.
PartBytes(b, part) ==
  IF part \in FloatParts
  THEN [k \in 1..FloatSize * Len(b[part]) |->
          b[part][((k - 1) \div FloatSize) + 1][((k - 1) % FloatSize) + 1]]
  ELSE b[part]

BodyOf_KeysFirst(b) ==  \* mutant: the keys' initial values before the globals'
  PartBytes(b, "constants") \o PartBytes(b, "initialKeys") \o PartBytes(b, "initialGlobals")
    \o PartBytes(b, "init") \o PartBytes(b, "update") \o PartBytes(b, "render")

BodyOf(b) ==
  PartBytes(b, "constants") \o PartBytes(b, "initialGlobals") \o PartBytes(b, "initialKeys")
    \o PartBytes(b, "init") \o PartBytes(b, "update") \o PartBytes(b, "render")

Serialized(b) ==
  LET body == BodyOf(b) IN [size |-> HeaderSize + Len(body), header |-> HeaderOf(b), body |-> body]

\* The first bytes of a file.  A part of a header is kept as the whole, which nobody reads.
Beginning(f, size) ==
  [size |-> size, header |-> f.header,
   body |-> SubSeq(f.body, 1, IF size < HeaderSize THEN 0 ELSE size - HeaderSize)]

-----------------------------------------------------------------------------
(* lumi_vm_measure_bytecode *)

\* The size the header promises, as the C program computes it.
ExpectedSize(h) ==
  SizeT(HeaderSize + FloatSize * h.counts["constants"] + FloatSize * h.counts["initialGlobals"]
         + FloatSize * h.counts["initialKeys"] + h.counts["init"] + h.counts["update"] + h.counts["render"])

MeasureFault_Shorter(f) ==  \* mutant: a file longer than promised passes
  IF f.size < HeaderSize THEN "bytecode too small"
  ELSE IF f.header.magic # MAGIC THEN "invalid bytecode magic"
  ELSE IF ExpectedSize(f.header) > f.size THEN "bytecode size mismatch"
  ELSE "ok"

MeasureFault(f) ==
  IF f.size < HeaderSize THEN "bytecode too small"
  ELSE IF f.header.magic # MAGIC THEN "invalid bytecode magic"
  ELSE IF f.header.version # 1 THEN "unsupported bytecode version"
  ELSE IF f.header.programType \notin ProgramTypes THEN "unsupported program type"
  ELSE IF f.header.reserved # 0 THEN "reserved header field must be zero"
  ELSE IF ExpectedSize(f.header) # f.size THEN "bytecode size mismatch"
  ELSE "ok"

-----------------------------------------------------------------------------
(* lumi_vm_can_load, lumi_vm_load_program and lumi_vm_init_state *)

KeyCells(counts) == counts["initialKeys"] * storage.keySlots

StateFault(counts, maxStack) ==
  IF counts["initialGlobals"] > storage.globals THEN "runtime global storage too small"
  ELSE IF KeyCells(counts) > SIZE_MAX THEN "runtime key storage size overflow"
  ELSE IF KeyCells(counts) > storage.keyCells THEN "runtime key storage too small"
  ELSE IF maxStack > storage.stack THEN "runtime stack too small"
  ELSE "ok"

FitsProgram_FloatsOnly(counts) ==  \* mutant: the code sections are not compared
  \A part \in FloatParts : counts[part] <= storage.program[part]

FitsProgram(counts) == \A part \in PartNames : counts[part] <= storage.program[part]

CanLoad_NoStack(h) ==  \* mutant: the stack is left to lumi_vm_init_state
  /\ KeyCells(h.counts) <= SIZE_MAX
  /\ FitsProgram(h.counts)
  /\ h.counts["initialGlobals"] <= storage.globals
  /\ KeyCells(h.counts) <= storage.keyCells

\* What lumi_vm_can_load answers about the requirements, which measuring copied from
\* the header.
CanLoad(h) ==
  /\ KeyCells(h.counts) <= SIZE_MAX
  /\ FitsProgram(h.counts)
  /\ h.counts["initialGlobals"] <= storage.globals
  /\ KeyCells(h.counts) <= storage.keyCells
  /\ h.maxStack <= storage.stack

LoadFault(f) ==
  IF MeasureFault(f) # "ok" THEN MeasureFault(f)
  ELSE IF ~FitsProgram(f.header.counts) THEN "program storage too small"
  ELSE "ok"

\* The offset in the body where the cursor stands for a part.
Cursor(h, part) ==
  LET n(p) == UnitSize(p) * h.counts[p] IN
  CASE part = "constants" -> 0
    [] part = "initialGlobals" -> n("constants")
    [] part = "initialKeys" -> n("constants") + n("initialGlobals")
    [] part = "init" -> n("constants") + n("initialGlobals") + n("initialKeys")
    [] part = "update" -> n("constants") + n("initialGlobals") + n("initialKeys") + n("init")
    [] part = "render" -> n("constants") + n("initialGlobals") + n("initialKeys") + n("init") + n("update")

\* The unit with index i of a part: a float or a byte of code.
UnitAt(f, part, i) ==
  LET at == Cursor(f.header, part) + UnitSize(part) * i IN
  IF part \in FloatParts THEN SubSeq(f.body, at + 1, at + FloatSize) ELSE f.body[at + 1]

Copied_Replaced(f) ==  \* mutant: an array becomes what is copied into it
  [part \in PartNames |-> [i \in 1..f.header.counts[part] |-> UnitAt(f, part, i - 1)]]

\* memcpy into each array: the units behind the ones copied keep what they held.
Copied(f) ==
  [part \in PartNames |->
     [i \in 1..storage.program[part] |->
        IF i <= f.header.counts[part] THEN UnitAt(f, part, i - 1) ELSE contents[part][i]]]

-----------------------------------------------------------------------------
Blank(part) == IF part \in FloatParts THEN [i \in 1..FloatSize |-> 0] ELSE 0

LoaderInit ==
  /\ storage \in Storages
  /\ source \in Bytecodes
  /\ file = Serialized(source)
  /\ damage = 0
  /\ files = 1
  /\ asked = "never"
  /\ contents = [part \in PartNames |-> [i \in 1..storage.program[part] |-> Blank(part)]]
  /\ program = NoProgram
  /\ stateFor = NoProgram
  /\ reply = "ok"

\* write_file: the file becomes empty, and then it is the beginning of another image.
OpenFile(b) ==
  /\ files < MaxFiles
  /\ source' = b
  /\ file' = Beginning(Serialized(b), 0)
  /\ damage' = 0
  /\ files' = files + 1
  /\ asked' = "never"
  /\ UNCHANGED <<storage, contents, program, stateFor, reply>>

WriteFile(size) ==
  /\ damage = 0 /\ file.size < size /\ size <= Serialized(source).size
  /\ file' = Beginning(Serialized(source), size)
  /\ asked' = "never"
  /\ UNCHANGED <<storage, source, damage, files, contents, program, stateFor, reply>>

Damaged(f) ==
  /\ damage < MaxDamage
  /\ file' = f
  /\ damage' = damage + 1
  /\ asked' = "never"
  /\ UNCHANGED <<storage, source, files, contents, program, stateFor, reply>>

Truncate(size) ==
  /\ size < file.size
  /\ Damaged(Beginning(file, size))

Extend(tail) ==
  /\ file.size >= HeaderSize
  /\ Damaged([file EXCEPT !.size = @ + Len(tail), !.body = @ \o tail])

\* One header field reads as something else.
AlterCount(part, n) == Damaged([file EXCEPT !.header.counts[part] = n])
AlterField ==
  \/ Damaged([file EXCEPT !.header.magic = "other"])
  \/ Damaged([file EXCEPT !.header.version = 2])
  \/ Damaged([file EXCEPT !.header.programType = 3])
  \/ Damaged([file EXCEPT !.header.reserved = 1])
  \/ \E n \in FieldValues : Damaged([file EXCEPT !.header.maxStack = n])

\* lumi_vm_measure_bytecode, and lumi_vm_can_load on the requirements it returned
Ask ==
  /\ MeasureFault(file) = "ok"
  /\ asked' = IF CanLoad(file.header) THEN "yes" ELSE "no"
  /\ UNCHANGED <<storage, source, file, damage, files, contents, program, stateFor, reply>>

\* lumi_vm_load_program
Load ==
  /\ reply' = LoadFault(file)
  /\ IF LoadFault(file) = "ok"
     THEN /\ contents' = Copied(file)
          /\ program' = [counts |-> file.header.counts, maxStack |-> file.header.maxStack,
                         from |-> source, intact |-> damage = 0]
     ELSE UNCHANGED <<contents, program>>
  /\ UNCHANGED <<storage, source, file, damage, files, asked, stateFor>>

\* lumi_vm_init_state for the loaded program
CreateState ==
  /\ program # NoProgram
  /\ reply' = StateFault(program.counts, program.maxStack)
  /\ stateFor' = IF reply' = "ok" THEN program.counts ELSE stateFor
  /\ UNCHANGED <<storage, source, file, damage, files, asked, contents, program>>

\* Whatever happens to the file that lumic does not do, and the host.
Damage ==
  \/ \E size \in Cuts : Truncate(size)
  \/ \E tail \in Tails : Extend(tail)
  \/ \E part \in PartNames, n \in FieldValues : AlterCount(part, n)
  \/ AlterField
Host == Ask \/ Load \/ CreateState

LoaderNext ==
  \/ \E b \in Bytecodes : OpenFile(b)
  \/ \E size \in Cuts \cup {Serialized(source).size} : WriteFile(size)
  \/ Damage \/ Host

LoaderSpec == LoaderInit /\ [][LoaderNext]_loaderVars

-----------------------------------------------------------------------------
(* Properties *)

TypeOK ==
  /\ storage \in Storages /\ source \in Bytecodes
  /\ file.size = IF file.size < HeaderSize THEN file.size ELSE HeaderSize + Len(file.body)
  /\ file.header.counts \in [PartNames -> Nat] /\ file.header.maxStack \in Nat
  /\ damage \in 0..MaxDamage /\ files \in 1..MaxFiles
  /\ asked \in {"never", "yes", "no"}
  /\ \A part \in PartNames : DOMAIN contents[part] = 1..storage.program[part]
  /\ program # NoProgram => program.counts \in [PartNames -> Nat] /\ program.maxStack \in Nat
  /\ stateFor # NoProgram => stateFor \in [PartNames -> Nat]

\* Whatever the header of an accepted image says, every copy of lumi_vm_load_program
\* reads bytes of the image and writes cells of the storage, and together the parts
\* are the whole image, although measuring adds the sizes modulo SIZE_MAX + 1.
CopiesInside ==
  LoadFault(file) = "ok" =>
    \A part \in PartNames :
      LET counts == file.header.counts
          end == HeaderSize + Cursor(file.header, part) + UnitSize(part) * counts[part]
      IN  /\ counts[part] <= storage.program[part]
          /\ end <= file.size
          /\ part = "render" => end = file.size

\* lumi_vm_can_load decides: after its yes neither the loading nor the creation of the
\* state is refused, after its no one of them is.
CanLoadDecides ==
  asked # "never" =>
    (asked = "yes" <=> /\ LoadFault(file) = "ok"
                       /\ StateFault(file.header.counts, file.header.maxStack) = "ok")

\* A program loaded from an image that nobody changed is the program that was compiled,
\* in every array, also after images that were refused or that another one replaced.
RoundTrip ==
  program # NoProgram /\ program.intact =>
    \A part \in PartNames :
      SubSeq(contents[part], 1, program.counts[part]) = program.from[part]

\* A file that was only cut short or extended is never taken for a program
\* (lumi_vm_measure_bytecode compares the sizes exactly).
WrongLengthRefused ==
  file.header = HeaderOf(source) /\ file.size # Serialized(source).size => LoadFault(file) # "ok"
=============================================================================
