------------------------------ MODULE LumiBuild ------------------------------
(***************************************************************************)
(* lumic, one process after another, each of which may be killed at any    *)
(* moment, and the host that reads the file they write whenever it likes.  *)
(* Every command line names the same output.                               *)
(***************************************************************************)
EXTENDS LumiLoader, SequencesExt

CONSTANTS
  CommandLines,    \* the arguments that lumic is started with
  Compiled(_, _),  \* what the text in a file compiles to at a level, or Refused
  Refused

VARIABLE
  lumic  \* the latest process: [phase, exit, opened, taken, lost]

buildVars == <<loaderVars, lumic>>

NoPath == "no path"
Running == -1   \* stands for the exit code of a process that has none yet
Killed == -9

-----------------------------------------------------------------------------
(* The arguments *)

\* parse_optimization
Levels ==
  [o \in {"-O", "-O1", "-O=1"} |-> 1] @@ [o \in {"-O0", "-O=0"} |-> 0]
    @@ [o \in {"-O2", "-O=2"} |-> 2] @@ [o \in {"-O3", "-O=3"} |-> 3]

IsFlag(arg) == SubSeq(arg, 1, 1) = "-"
IsLevel(arg) == Len(arg) > 1 /\ SubSeq(arg, 1, 2) = "-O"

NoArguments == [ok |-> TRUE, input |-> NoPath, output |-> NoPath, level |-> 0, expects |-> FALSE]

\* One argument after those that have made c: what follows -o is a path whatever it is.
Take(c, arg) ==
  CASE ~c.ok -> c
    [] c.ok /\ c.expects -> [c EXCEPT !.output = arg, !.expects = FALSE]
    [] c.ok /\ ~c.expects /\ arg = "-o" -> [c EXCEPT !.ok = c.output = NoPath, !.expects = TRUE]
    [] c.ok /\ ~c.expects /\ IsLevel(arg) /\ arg \in DOMAIN Levels -> [c EXCEPT !.level = Levels[arg]]
    [] c.ok /\ ~c.expects /\ ~IsFlag(arg) -> [c EXCEPT !.ok = c.input = NoPath, !.input = arg]
    [] OTHER -> [c EXCEPT !.ok = FALSE]

Arguments(args) ==
  LET c == FoldLeft(Take, NoArguments, args)
  IN  [c EXCEPT !.ok = c.ok /\ ~c.expects /\ NoPath \notin {c.input, c.output}]

ASSUME BuildAssumption ==
  \A args \in CommandLines :
    LET c == Arguments(args) IN Compiled(c.input, c.level) \in Bytecodes \cup {Refused}

\* An image is in memory before it is written, so that size_t counts its bytes.
ASSUME ImageAssumption == \A b \in Bytecodes : HeaderSize + Len(BodyOf(b)) <= SIZE_MAX

-----------------------------------------------------------------------------
(* lumic *)

Process(phase, exit, opened) ==
  [phase |-> phase, exit |-> exit, opened |-> opened, taken |-> 0, lost |-> FALSE]

Ended == lumic.phase = "ended"

BuildInit == LoaderInit /\ lumic = Process("ended", Running, FALSE)

\* Nobody sees what lumic does before it opens the output: it has read its arguments and
\* the source (read_file), and lumi_compile_source_with_options and
\* lumi_bytecode_serialize have made an image.
Open(args) ==
  LET command == Arguments(args)
      image == Compiled(command.input, command.level)
  IN  /\ Ended
      /\ command.ok /\ image # Refused
      /\ OpenFile(image)
      /\ lumic' = Process("writing", Running, TRUE)

\* One of these has failed, or fopen.  The input may always be unreadable.
GiveUp == Ended /\ lumic' = Process("ended", 1, FALSE) /\ UNCHANGED loaderVars

\* fwrite takes all the bytes or fewer.
Write ==
  /\ lumic.phase = "writing"
  /\ \E n \in Cuts \cup {Serialized(source).size} :
       n <= Serialized(source).size /\ lumic' = [lumic EXCEPT !.phase = "closing", !.taken = n]
  /\ UNCHANGED loaderVars

\* The library passes on bytes that it has taken, in fwrite or in fclose.
Flush(size) == lumic.phase = "closing" /\ size <= lumic.taken /\ WriteFile(size) /\ UNCHANGED lumic

\* fclose, whose result is ignored: what the library has taken may be lost.
Exit(code) ==
  /\ lumic' = [Process("ended", code, TRUE) EXCEPT !.lost = file.size < lumic.taken]
  /\ UNCHANGED loaderVars

Close_IgnoresCount ==  \* mutant: what fwrite returned is not compared
  lumic.phase = "closing" /\ Exit(0)

Close == lumic.phase = "closing" /\ Exit(IF lumic.taken = Serialized(source).size THEN 0 ELSE 1)

Kill == ~Ended /\ Exit(Killed)

BuildNext ==
  \/ \E args \in CommandLines : Open(args)
  \/ GiveUp \/ Write \/ Close \/ Kill
  \/ \E size \in Cuts \cup {Serialized(source).size} : Flush(size)
  \/ (Ended /\ Damage /\ UNCHANGED lumic)
  \/ (Host /\ UNCHANGED lumic)

BuildSpec == BuildInit /\ [][BuildNext]_buildVars

-----------------------------------------------------------------------------
(* Properties *)

\* The exit code tells what became of the file: after 0 it is the program of this
\* command, unless fclose lost a part of it, and then no loader takes it; after a failure
\* a file that a loader takes is the one that was there before; and lumic that was killed
\* has left the one or the other (write_file and main against lumi_vm_measure_bytecode).
ExitTells ==
  Ended /\ damage = 0 =>
    /\ lumic.exit = 0 /\ ~lumic.lost => file = Serialized(source)
    /\ MeasureFault(file) = "ok" =>
         /\ lumic.exit \in {0, Killed} => file = Serialized(source)
         /\ lumic.exit = 1 => ~lumic.opened
=============================================================================
