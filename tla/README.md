# Verification of Lumi

Lumi is a small language for per-key lighting on keyboards. `lumic` compiles a
`.lumi` source to a `.lbc` file of bytecode; a virtual machine written for
embedded hosts loads the file into memory the host provides and runs its three
sections (`init`, `update`, `render`); `lumivm` is a command-line host; a
language server serves editors. This directory holds TLA+ models of those parts,
the TLC runs that check them on small instances, and proofs that TLAPS checks.

Run a model with `tlc -workers 2 -config X.cfg M`, a proof with `tlapm M.tla`.
`PROJECT.json` maps every definition that stands for code to its lines.

## Inventory

| part | code | state it keeps | operations |
|---|---|---|---|
| lexer | `lexer.c` | cursor, line, column | the next token |
| parser | `parser.c` 97-955 | lexer, current token, first error | text to syntax tree |
| emitter | `parser.c` 957-2464, 3119-3254 | symbols, constants, three code buffers, stack counter, error | fold, simplify, emit a statement, expression, program |
| optimizer | `parser.c` 2466-2946, 3100 | the code buffers and the constants | thread jumps, remove unreachable code, remove empty jumps, compact constants |
| stack analysis | `parser.c` 2948-3098 | depth per offset, worklist | maximum depth of a section, or refusal |
| serializer | `bytecode.c` | a byte buffer | program to `.lbc` image |
| loader | `vm.c` 133-320 | program and state storage of the host | measure, can_load, load_program, init_state |
| virtual machine | `vm.c` 322-727 | globals, key variables, stack, output, error | reset_state, set_random, run_init, run_update, run_render |
| host tool | `vm_main.c` | one program, one state, the stream of `rand` | the commands `init`, `update`, `render`, `reset` |
| language server | `lsp_main.c` | open documents, whether shutdown was asked for | requests and notifications of the protocol; positions, words, symbols and unused names of a text |
| compile interface | `compiler.c` | none | parse, then emit |
| `lumic` | `main.c` | the file it writes | arguments, compile, write |
| build, Zephyr glue, tests, examples | | | |

How they interact: the parser hands a tree to the emitter, which calls the
optimizer and the stack analysis on its own buffers from `-O2` on; `lumic` writes the
program to a file, over the one that was there, while a host may read it; the loader copies the file into arrays of the host, and the
machine runs it there, called by the host, one call at a time, with the random
function the host installed. Nothing is concurrent within a process. The server
and its editor are two processes joined by two pipes: the editor writes without
waiting, so what the server answers may be about a text the editor has already
replaced.

### What is hard

- **Untrusted bytecode.** Every operand indexes an array of the host. The checks
  are spread over thirty-one opcodes, three loader functions and two size computations.
- **State across calls.** Globals and the rows of the keys persist; sections run
  in any order; a run may fail in its middle and the host may go on.
- **Four optimization levels.** The tree is rewritten while it is walked; code is
  moved after it was emitted; names are looked up before and after they are declared.
- **Two ways to know the stack.** Below `-O2` a counter kept by hand, above it a
  worklist over the code; the machine trusts neither, but hosts size their stack by it.
- **Three readings of a text.** The parser, the token scans of the editor's outline and
  completion, and the walk by characters of hover each know a part of the language.
- **A file written in place.** Whoever reads it may see a part of it, and `lumic` may
  fail or be killed in its middle.
- **Sessions.** Resets have to replay; an editor may die, hang up, or ask about
  documents that are gone.

Allocation failures, the places that the tree keeps for the emitter's messages, and the wording of
output are left out everywhere.

### What makes each part correct

| part | property | where |
|---|---|---|
| virtual machine | no bytecode leads outside the caller's arrays or the row of the rendered key; a call that runs shows only colours of its own run | `MemorySafe`, `ColorOfOwnRun`, `OnlyOwnRow` |
| | the abstract state model is implemented; compiled programs return | `ImplementsStore`, `CallsReturn` |
| loader | copies stay inside; can_load is right; what is written is what is read; wrong lengths are refused | `CopiesInside`, `CanLoadDecides`, `RoundTrip`, `WrongLengthRefused` |
| stack analysis | ends, within its worklist; the verdict depends on the code alone; the maximum is reached and never exceeded | `Returns`, `WorklistFits`, `VerdictExact`, `MaxReached`, `AcceptedCertified` |
| analysis and machine | accepted code never overflows, leaves its code or finds an unknown opcode | `DepthPredicted`, `NoStructuralFault` |
| optimizer | behaviour is kept, nothing well-formed is refused, one round suffices | `KeepsBehaviour`, `KeepsWellFormed`, `Settled` |
| lexer and parser | the tree is what the language says; what is accepted is written with the same tokens | `ReadsBack` |
| lexer and editor | a reported place is shown there, hover finds the word and knows it | `PositionsAgree` |
| editor's scans | outline and completion have what the parser finds; an unused `let` is not needed | `SymbolsComplete`, `UnusedUnneeded` |
| `lumic` | the exit code tells what became of the file | `ExitTells` |
| emitter | accepted sources run without structural errors within the recorded stack and give every builtin its arguments, whatever the level; no level faults its own code, or refuses what the one below accepts but for elements that nothing uses or reaches | `Runnable`, `LevelsAgree` |
| compiler and machine | the program does what the source says; renders paint | `MeansWhatItSays`, `RenderPaints` |
| host tool | resets replay; failures end the session; commands are answered | `Replays`, `NothingSwallowed`, `Answered` |
| `rand` | below one (violated) | `BelowOne` |
| language server | texts and diagnostics agree with the editor; answers fit; requests are answered; it ends with its editor | `InSync`, `AnswersFit`, `Answered`, `EndsWithEditor`, `ExitCodeTells` |

The hazards behind these, each at its line, are in `PROJECT.json`.

## Modules

    LumiBytecode ── LumiFloat ─┬─ LumiVM ─┬─ LumiHost
         │                     │          ├─ LumiStackSafety ── LumiCertificate
         │                     │          └─ LumiCompiled ── LumiLanguage
         │                     └─ LumiSyntax ─┬─ LumiEmitter ───────────────┬─ LumiCompiler
         │                                    └─ LumiLexer ── LumiParser ─┬─ LumiEditor
         │                                                                └─ LumiGrammar (abstract)
         ├─ LumiOptimizer ── LumiPasses         (LumiEmitter uses LumiOptimizer, LumiCertificate)
         └─ LumiCertificate ── LumiStackDepth
    LumiLoader ── LumiBuild      LumiStore (abstract)   LumiRandom   LumiJson ── LumiLsp

- **LumiBytecode**: opcodes, inputs, builtins, instruction sizes, stack effects and
  successors. One definition of each for all modules, though the C code has two
  (`bytecode_instruction_size` in the compiler, the switch in the machine).
- **LumiFloat**: what the opcodes and builtins do with cells. The type of cells
  and float arithmetic are constants with the few assumptions the proofs need; the
  comparisons, the guards against zero and the domain of `sqrt` are written out.
- **LumiVM**: the machine and its host. `globals`, `keys`, `output`, `error`,
  `randomFn` are the C structures; `frame` holds the locals of `execute_section`
  (`pc`, stack, key base) while `status = "running"`. Each opcode is an action;
  `Trap` is an instruction that returns an error. `StoreSpec` of **LumiStore** is
  the abstract promise, implemented under the mapping in `ImplementsStore`.
- **LumiLoader**: header, image and the three loader functions, with `SIZE_MAX` a
  constant so that sizes wrap in small instances as they do at 2^32.
  The file is what a writer has left of an image, and what happens to it afterwards.
- **LumiBuild**: `lumic`, one process after another on the same output, before LumiLoader's
  host. A process is its phase, what `fwrite` took, and its exit code; what it does before
  `fopen` is one step. Each write passes on a longer beginning of the image (`Flush`), `fwrite`
  may take less than it is given, `fclose` may lose what was taken, and `Kill` may come
  between any two steps. Every step is one of LumiLoader or leaves the file alone, which is
  the theorem `BuildImplementsLoader`.
- **LumiLexer**: a text is a sequence of pieces, a run of letters, a run of digits or
  another character, so that every boundary the lexer finds is a boundary of pieces and
  columns are still counted in characters. `NumberOf`, what `strtod` makes of the rest of
  the text, is a constant.
- **LumiParser**: one operator for each parsing function; the functions that only ask for
  one part after another are the list of those parts (`Phrase`). The six functions for
  binary operators are one with a level. A parse ends in a program or at the token that is reported.
- **LumiGrammar** (abstract): the language as LANGUAGE.md has it, in both directions: how a
  program is written with as few parentheses as its operators allow, and which tokens are
  statements, by trying every way to divide them. It maps to no code.
- **LumiEditor**: what the server reads out of a text: `position_to_offset`,
  `word_at_position`, the hover tables, the two token scans and the names that are never read.
- **LumiStackDepth**: `compute_section_stack_depth`, one worklist entry a step.
  **LumiCertificate** says what its result is a certificate of, and defines the same
  maximum by paths. **LumiStackSafety** runs
  certified programs on LumiVM, beside others.
- **LumiOptimizer**: the passes as operators on code, with the offsets that are walked over, what is
  reached and the chains of jumps as functions that are recursive in a number; **LumiPasses** applies them one
  step at a time and compares the code before and after by the tree of what it does.
- **LumiSyntax**, **LumiEmitter**: the tree and the emitter. The emitter struct is a
  record passed along; operators on statements return the statement as they leave it
  because `simplify_expr` rewrites in place. The field `pending` is an error that was reported
  by a function that went on: at -O0 of an index in a `let`, from -O2 on of an index that
  `assignment_is_dead_store` came across (`DeadStoreFault`). The statement after it is refused with it.
- **LumiLanguage** (abstract): what a source means, by direct evaluation of the tree with
  names bound to values, a run being one step. It is the reference
  `MeansWhatItSays` compares with, written from LANGUAGE.md's notions of scope,
  `let` and loops and the float operations of LumiFloat, and maps to no code.
- **LumiCompiler** parses a text and compiles it at the four levels in turn, and looks at it as
  the editor does; **LumiCompiled** runs a compiled program on LumiVM next to LumiLanguage. The
  compiler is a parameter of both, and the parser and the writer of LumiCompiler are
  (`Compiler <- Compile`, `Parser <- Parse`, `Writer <- ProgramText` in every
  configuration), so another one can be put in its place. It also keeps TLC's statistics, which
  expand operators into each other, from growing with their mutual recursion.
- **LumiHost**: the command loop of `lumivm` around LumiVM; `rand` is a position in
  a fixed sequence that `srand` rewinds. **LumiRandom**: `host_rand` in a float
  format of `Precision` bits.
- **LumiJson**, **LumiLsp**: messages as trees with the look-ups the server makes in
  them; the server and the editor with two bounded pipes.

`MC*` modules and `.cfg` files are the instances, `MCPrograms` the programs and the
floats that several of them share, `*_proofs` the proofs. LumiRandom, whose constants are numbers, is run
as it is (`LumiRandom.cfg`), with as many bits beyond the precision as the program has: seven.

## Runs

| run | shows | instance |
|---|---|---|
| `virtual_machine` | memory safety for any bytes, isolation of rows, refinement of the store, termination; accepted code runs at its predicted depths | 2 keys, 2 globals, stack 4; programs with counters, branches, builtins, randomness; one program for each way to fail (truncated and unknown instructions, indices at and after the end, underflow, overflow, bad jumps, wrong sections); nesting to the stack's limit, underflow that the analysis accepts, a program the host refuses |
| `stack_analysis` | verdict, bounds and termination of the analysis | all sequences of up to three of eleven instructions, alone and after a push, and programs with branches and loops |
| `build_and_load` | a file written, failed on, killed over, damaged and loaded | `size_t` of 8 bits, two programs and a text that does not compile, six storages, one damage a file, two files, writes that stop at nothing, behind the header, or one byte before the end of the shorter program |
| `host_session` | sessions | four commands of eight, programs that count, draw, fail and do not fit |
| `rand_half_open` | finding | `host_rand` with 3 bits of precision, 10 bits of `rand`: seven fewer, as 24 and 31 |
| `lsp_session` | documents, answers and exit codes of the server | pipes of two messages, up to four sent, two documents, two texts, every method |
| `lsp_liveness` | answers come and the server ends | pipes of two messages, up to three sent, one document |
| `lsp_empty_document` | finding | the same pipes, a text that is empty |
| `optimizer_passes` | each pass | all sections of four blocks (store, test, jump forward) and a `HALT`, and ten that no emitter writes |
| `compiler_any_text` | parsing, emission at all levels, and the editor's view | the text of every render of two statements of a grammar with known and unknown conditions, both storages, arrays, loops, `let`, faulty names, indices and arities, elements in branches, `let`s and loops that are never reached next to stores that are overwritten, and every pair of operators in both groupings; up to four pieces of eight (parentheses, brackets, signs, newlines) or parts of numbers in the place of an expression; layouts, mistakes, and every word by itself |
| `compiled_programs` | compiled programs against their meaning | nine programs and three that are refused, the cells -1..2 with arithmetic that wraps and a NaN, one key, any order of calls |
| `compiled_loop` | finding | one program |

The bounds are chosen at the edge of the behaviour: two keys are the fewest that
can disturb each other; a stack of four is filled by the nested programs and
overrun by others; eight bits make `4 * 64` wrap; two files give a load over a
loaded program and a write over another's file; four pieces are the fewest for a pair of
parentheses around an operation that lacks an operand; four commands allow two draws on both sides of a reset; pipes of
two messages are full while the editor still writes. In `optimizer_passes` four
blocks give chains of two jumps, unreachable chains between reachable blocks, and
jumps that become empty when what they skip is removed. The cells of the
runs have no infinity and no negative zero (see the last section).

Deadlock checking is off where the system may stop: the passes, the compilations
and the analysis end, a session ends, the server exits.

### Fairness

- `FairSpec` (LumiVM): weak fairness of `Step`, the interpreter loop: a call that was
  entered is executed. The host owes nothing: it may never call.
- `FairDepthSpec`: the analysis is a loop and goes on.
- `FairHostSpec`: a command that was read is carried out; commands may cease.
- `FairLspSpec`: the server reads what is in its pipe and writes when there is
  room, and the editor reads what the server wrote, as editors with asynchronous
  pipes do. Without the latter both could wait on full pipes. The editor may hang
  up or die and need not write.

### Findings

Three runs are expected to be violated; `PROJECT.json` quotes the documentation each contradicts.

1. `compiled_loop` (`parser.c:2263`): from -O1 on, the body of a `for` keeps the first
   value of its variable, since simplification replaces it in the one tree that all
   rounds are emitted from. LANGUAGE.md says that loops are unrolled.
2. `rand_half_open` (`vm_main.c:22`): `rand()` can be exactly 1, outside `[0, 1)`.
3. `lsp_empty_document` (`lsp_main.c:407`): an empty document ends the server.

Five more were met on the way. Each has a configuration of its own beside the runs,
which ends with a violation:

4. `MCCompiled_names.cfg` (`MeansWhatItSays`, `parser.c:2407`): from -O2 on, a store is
   dropped although it is read through an index with a name that the look-ahead of
   `assignment_is_dead_store` cannot evaluate yet.
5. `MCCompiled_lets.cfg` (`MeansWhatItSays`, `parser.c:2031`): a `let` that is not constant is
   evaluated again at each use, after what it is made of has changed.
6. `MCCompiler_let.cfg` (`ReportedIsRefused`, `parser.c:2288`): at -O0 a bad index in a
   final unused `let` is reported and accepted.
7. `MCLsp_string_id.cfg` (`RepliesIdentify`, `lsp_main.c:442`): a string id comes back
   without its quotes.
8. `MCCompiler_levels.cfg` (`AcceptedAbove`, `parser.c:2410`): `g = if 0 { a[9] } else { 1 }` is
   accepted at -O1 and refused at -O2, since the look for a dead store reports the index in a
   value that has not been simplified yet. `LevelsAgree` says what is left of the levels' agreement.

The programs of 1, 4, 5, 6 and 8 were also compiled with the C code, with the same outcome. So were
sources of two statements of the grammar and all those around overwritten stores, each at the four
levels: the model accepts what the C code accepts. Its message differs only where an index contains an
element and both are at fault; then the model gives that of the outer one.

## Proofs

Assumptions: those the modules name. `CellAssumption` and its neighbours in LumiFloat (cells
contain zero and one and are closed under the operations), `ProgramAssumption`
(programs have the fields of `lumi_vm_program`), the natural-number capacities
(`StorageAssumption`) and the types of the inputs and random numbers of LumiVM,
`LoaderAssumption` and `EmittedAssumption` for the loader and the analysis, `ImageAssumption` (an
image was in memory, so `size_t` counts its bytes), and `LspAssumption` (the ids of requests are
distinct and none is the name of a member the server looks up; no uri is the word `text`). Nothing is
assumed of the bytes of a program, except by `AcceptedAssumption` of LumiStackSafety,
which says of the accepted programs what `Certified` proves of the analysis; `UnoptimizedAssumption` of LumiPasses
says that code is made of bytes.

- **LumiVM_proofs**: `TypeCorrect`, `StorageFits` and `AccessSafe` for every program,
  storage, number of keys and float. The invariant `IInv` adds to the type that a state exists only
  over storage that holds it (`FitsStorage`) and that no frame is left between
  calls (`NoFrameLeft`); without the former the row of a key could lie outside
  `keys`. The lemmas follow what instructions
  have in common: push one value (`ReplaceSteps`), pop (`PopSteps`), copy (`DupStep`), return (`ReturnSteps`).
  `AccessSafe` follows from `IInv` and the guards of `Fault` in the order the code has them.
  `StoreImplemented`: the machine implements the state model of
  LumiStore: initial states map to initial states, and each instruction and each call
  to a step of the store or to a stutter, under the mapping written out in LumiVM. `RowsIsolated`: a call
  changes no row but that of its key, since the base that a render computes is kept in
  the frame and two keys' rows do not overlap (a fact about products, for any number of
  cells a key). `ColorsRendered`: a call that runs
  shows a colour exactly when the path its own instructions took came past `SET_COLOR`. `Way` is the
  offsets that n instructions lead to from the start of the code, without and with a `SET_COLOR` among them;
  the invariant `ColorOfCall` says that the frame is on the way, on the side its colour belongs to. To
  enter a section clears the output and starts at its beginning, and each instruction goes one
  further (`WaySteps`, `FurtherOnWay`, `GoesOnward`). A render that is refused for its key does not run, and what
  the render before it showed is still there (`vm.c:374`).
- **LumiHost_proofs**: `HostUsesMachine`, that the tool makes only the calls the machine's
  specification allows, which carries every theorem about the machine over to a session
  (`HostAccessSafe`). `NoCommandSwallowed`: a line that was read is still being worked on, or was answered,
  refused or applied. `ResetsReplay`, that the same commands after the start or after any reset get the same
  reports. `View` records what the next steps depend on: the machine, the place in the stream of `rand`, the
  command that is waited for and the reports since the reset. A step of the machine is a function of
  it (`Advance`), shown instruction by instruction, and only a command that is read can lead from one view to
  two others. So every segment of the log is the end of a trail (`Trail`) that begins at
  the same `Beginning` (`Followed`, the invariant), and two trails stay together for as long as the commands
  they read are the same (`Together`, by induction). The theorem has one hypothesis, `ArgumentsGiven`: a builtin
  called with fewer arguments than it takes reads cells of `args` that were never written (`vm.c:525`), so a
  replay need not repeat its value. The machine does not check it, `emit_builtin` does, and
  `Runnable` says of what is written at any level that each call has as many as the arity.
- **LumiStackDepth_proofs**: `DepthTypes`, `WorklistBounded` (the worklist never holds more
  entries than the section has bytes) and `Certified` (accepted code comes with a certificate).
  The invariant relates the worklist to the offsets that have a depth but have not been
  taken (no entry occurs twice), and says of an offset already taken that its successors have their depth.
  `MaximumIsReached`: the maximum is the depth behind an instruction with a mark. `VerdictIsExact`
  compares the verdict with a definition that knows no worklist (`WellBehaved`: the depths along all paths
  from the entry). Accepted code is well behaved, because every path runs along the
  certificate (induction over its length). Nothing well behaved is refused, because every mark the analysis sets
  is the depth on some path; for that the paths of at most as many steps as
  there are pairs of an offset and a depth have to be all of them, which is shown by counting
  (a step that adds no pair is the last to add one).
- **LumiStackSafety_proofs**: `RunsAsPredicted` (the depth of the machine's stack
  is that of the certificate at its `pc`) and `StructurallySafe` (so no overflow,
  no unknown instruction, no run off the code). The first is inductive together with `IInv`.
- **LumiBuild_proofs**, for the loader: `CopiesStayInside`, `CanLoadIsExact` and `LoaderTypes`
  for every image, storage and width of `size_t`, and `LoadedIsCompiled`. The latter
  needs that a file that was not touched is a beginning of the image of its source
  (`FileInv`), that a load takes no beginning but the whole, for the header promises the size of
  the whole, and that each part of the image lies where the cursor of the
  loader looks (`PartsPlaced`). For `lumic`: `BuildImplementsLoader`, that `BuildSpec` implies `LoaderSpec`,
  so that the theorems about the loader hold while `lumic` writes, fails or is killed (`BuildCopiesInside`,
  `BuildCanLoadDecides`, `BuildTypes`, `BuildRoundTrip`); `BuildWrongLengthRefused`; and `BuildExitTells`, what
  the exit code says. Its invariant is that a file that `lumic` opened and nobody else touched is the
  beginning of the image, as long as what was passed on, which is no more than `fwrite` took; when
  the process has ended, the size of the file is what the code says it is.
- **LumiPasses_proofs**, for code of any length and any table of constants, if it is well formed: its jumps
  lead forward to instructions, and it pushes constants there are (`WellFormed`). `WellFormedKept`: no pass refuses such
  code, and each leaves such code. `WellFormedSettles`: after the passes none of them would find more. `WellFormedBehaves`:
  every pass leaves the tree of what a section does. Nothing is assumed of the instructions, not even that
  they balance the stack. The argument goes from the bytes up:
    - the instructions of decodable code tile it (`DecodesTiled`), so an operand can be written without
      touching another instruction (`RetargetedIs`);
    - an instruction that stays goes to the number of bytes that stay before it (`Place`), which is what `pc_map` and the
      targets are (`MappedIs`), so the code that is left is squeezed together and decodes into what was left of
      it (`Squeezed`);
    - the chain of jumps that threading follows ends, since it leads forward (`ThreadedIs`), and constants are numbered
      by counting in the same way (`Count`).

  One round is enough because of what each pass keeps of the earlier ones' work: `SettledInv` says that from the first threading on no
  jump leads to a jump (`NoHops`), from the second pass on everything is reached, and from the third on no jump leads to the next
  instruction; so the second threading finds nothing. That a removed empty jump leaves no new one is the hard step: between
  that jump and its target there would be a jump that nothing reaches. For the behaviour, one lemma (`MirrorsDo`)
  compares two codes from their ends down, given a place in the new code for each offset of the old that
  matters; every pass is an instance of it.
- **LumiLsp_proofs**, for every set of documents and texts, every capacity of the pipes and every number
  of messages. First what the look-ups find in each message an editor writes, then what the server does
  with it, in the order of its dispatch. The invariant `LspInv` says that the server's store is a state
  of the editor's history: each message in the pipe leads from the state before it to the next (`Linked`), each
  request is answered in the pipe back exactly when it has been taken (`InTurn`),
  and what the editor shows, once it has read that pipe, is what the
  store holds (`Displayed`). From it follow `DocumentsInSync` and, for ids that are numbers, `AnswersInOrder`; with
  string ids finding 7 refutes it. `SessionEnds` (what the exit code tells) and `ServesReadableTexts` are
  for texts that `json_token_to_string` hands over; for others finding 3 refutes the latter.
- **LumiBytecode_proofs**: what a decodable instruction gives: sizes, operands and
  successors within range.

Induction over numbers is done by the least counterexample (`EveryNumber`), and functions
that are recursive in a number are taken from a proof that one exists (`PathsBySteps`, `IterationExists`, `TreeExists`).

Model-checked only:

- liveness (`CallsReturn`, `Returns`, `Answered`, `EndsWithEditor`): the prover handles neither fairness nor
  `ENABLED`;
- the lexer, the parser, the editor's view and the emitter, with the refinement of `LumiLanguage`: they
  are recursive over text or tree, and what such an operator computes for every input
  cannot be proved here;
- what the passes do to code that is not well formed, of which the run has ten sections. That the emitter writes no other
  is seen in `compiler_any_text`, where no pass refuses the code of a source (`LevelsAgree`, `Runnable`);
- `LumiRandom`, where the finding is.

## Plan

Done: the machine, the loader, the analysis, the optimizer, the compiler from text to
file at all levels, `lumic`, the host session and the server, and the safety
of the machine, its store, the loader, `lumic`, the analysis, the passes, the host and the server as theorems. Next, in this order:

1. That the emitter writes well-formed code, as a theorem about its operations on the code buffers.
2. More of the system: the framing of the server's messages, a model of `hsv_to_rgb` over
   bounded floats, cells with NaN and negative zero for the folding rules.

## Not modelled, and observations

- Allocation failures: the parser then may return success with a part of the program
  (`parser.c:328`, an error is reported only where one is set), the serializer and the passes give up.
- The wording of messages and the places that the emitter reports; `PositionsAgree` is about
  the places of tokens. Framing (`Content-Length`) and the JSON texts of answers.
- Texts that end in `let`, `global`, `key` or `global var` make the token scans read past the end
  of the text (`lsp_main.c:953`, `974`, `1121`): the end is taken for the name. The models
  end there with `BehindText`; `SymbolsComplete` speaks of texts that parse.
- A number token ends before an exponent, but its value is what `strtod` reads, so `1e5` is 100000 followed
  by the name `e5`, and `1.1.1` is 1.1 (`lexer.c:116`); both are in the instance.
- The place of a newline token is on the line behind it, one column before the first (`lexer.c:98`), and the end of
  the text is one column past it; an error reported there is shown there.
- Hover past the end of a line answers for the first word of the next (`lsp_main.c:566`).
- A newline may stand before `else` in an expression (`parser.c:260`) and not in a
  statement (`parser.c:674`), where the error is reported at the `else`.
- `fclose` is not checked (`main.c:57`): `lumic` may exit with 0 and leave a part of the file, which the loader
  refuses; the old program is gone in any case. `ExitTells` says this much.
- Names are unused by name, not by scope: a read of another name of the same spelling counts. The
  converse, that what is shown as unused is not needed, is `UnusedUnneeded`, which is about `let`: an
  unused variable is still part of the file, and an unused loop variable still counts its rounds.
- The host's `read_file` is one step: a file that `lumic` writes again with one of the same length
  while it is read could be taken for a mixture of both.
- `lumivm` reads lines into 256 bytes (`vm_main.c:126`); a longer line is taken for several commands. Commands
  of the model are shorter.
- Code beyond 65535 bytes (`emit_u16` takes the low bits of offsets) needs instances too large for TLC.
- Constants are compared with `==`, so `-0.0` becomes `0.0` when that came first
  (`parser.c:1327`); `x * 0` is folded to `0` though it may be NaN (`parser.c:1731`);
  folding uses the compiling host's `libm`. No program of the runs shows these.
- Which errors are found depends on the level: branches of known conditions, dropped
  stores and loops that run zero times are not looked at above -O0 (`parser.c:2143`).
- An array of one element cannot be indexed (`parser.c:1160`).
- `hsv_to_rgb` does not return for an infinite hue (`vm.c:101`).
- `didChange` uses the first of its changes only (`lsp_main.c:1385`), which is all an
  editor sends to a server that asks for whole texts; `json_object_get` takes a string
  value for a key (`lsp_main.c:343`).
- `init` is run by the host, not by creating or resetting the state.
