---------------------------- MODULE LumiCompiler ----------------------------
(***************************************************************************)
(* The compile interface, from the text of a program to the file that      *)
(* lumic writes, at each optimization level in turn; and the editor's view *)
(* of the same text.                                                       *)
(***************************************************************************)
EXTENDS LumiEmitter, LumiEditor, LumiGrammar

CONSTANTS
  Sources,         \* programs, to be compiled from the text they are written as
  Fragments,       \* texts that end in a render section with anything in its block
  Texts,           \* other texts
  Writer(_),       \* how a program is written: ProgramText
  Parser(_),       \* the parser that is checked, given a text: Parse
  Compiler(_, _)   \* the emitter that is checked, given a program and a level: Compile

VARIABLES
  source,  \* the program that is compiled, or NoSource or Fragment
  text,    \* its text
  parsed,  \* what the parser made of it, or NotParsed
  level,   \* the next level, 4 after the last
  built    \* the emitter at the end of the last compilation

compilerVars == <<source, text, parsed, level, built>>

NoSource == [kind |-> "none"]
Fragment == [kind |-> "fragment"]
NotParsed == [tokens |-> << >>, ok |-> FALSE, at |-> 0, program |-> NoProgram]

\* An animation with the sections that have statements.
Animation(tree) ==
  [declared |-> {"type"} \cup {s \in Sections : tree[s] # << >>}, type |-> "animation", tree |-> tree]

CompilerInit ==
  /\ \/ \E s \in Sources : source = Animation(s) /\ text = Writer(Animation(s))
     \/ source = Fragment /\ text \in Fragments
     \/ source = NoSource /\ text \in Texts
  /\ parsed = NotParsed
  /\ level = 0
  /\ built = NewEmitter(0)

\* lumi_parse.  Every compilation of a text parses it anew, to the same end.
ParseText ==
  /\ parsed = NotParsed
  /\ parsed' = Parser(text)
  /\ UNCHANGED <<source, text, level, built>>

\* lumi_compile_source_with_options on a parsed program: the checks of lumi_emit_bytecode
\* that come before the first variable, and the rest of it.
CompileProgram(program, l) ==
  IF "type" \notin program.declared THEN Fail(NewEmitter(l), "program type must be declared")
  ELSE IF "render" \notin program.declared THEN Fail(NewEmitter(l), "render section must be defined")
  ELSE Compiler(program.tree, l)

\* Levels outside of 0..3 are taken for the nearest of these.
Build ==
  /\ parsed.ok /\ level \in 0..3
  /\ built' = CompileProgram(parsed.program, level)
  /\ level' = level + 1
  /\ UNCHANGED <<source, text, parsed>>

CompilerSpec == CompilerInit /\ [][ParseText \/ Build]_compilerVars

-----------------------------------------------------------------------------
(* Properties *)

Written == level > 0 /\ Ok(built)

\* Above -O0, which accepts lets that -O1 refuses, each level accepts what the one below
\* accepts (emit_stmt_list at each level).  A store that is dropped makes it false.
AcceptedAbove == [][ Written /\ level > 1 => Ok(built') ]_compilerVars

\* What the emitter and the analysis say of code that the emitter itself got wrong.
InternalFaults == {
  "internal stack underflow while emitting bytecode", "if expression branch must leave one value",
  "if statement branch must preserve stack depth", "invalid stack depth while recomputing bytecode"}

\* What resolve_symbol_slot says of an array element.
ElementFaults == {
  "unknown symbol", "symbol is not an array", "array index must be compile-time integer", "array index out of bounds"}

\* No level finds a fault in its own code, and none refuses what the level below accepts
\* for anything it has made of it: rules, passes and direct opcodes fit together.  A
\* source may be refused above -O0 for an element in a let that nothing uses, which
\* simplify_expr looks at, and from -O2 on for one in a branch or a loop that never
\* runs, which assignment_is_dead_store looks at; -O3 has no such reason.
Says(types) == \E t \in ToSet(parsed.tokens) : t.type \in types
LevelsAgree ==
  [][ /\ built'.error \notin InternalFaults
      /\ Written /\ ~Ok(built') =>
           /\ built'.error \in ElementFaults
           /\ \/ level = 1 /\ Says({"let"})
              \/ level = 2 /\ Says({"if", "for"}) ]_compilerVars

\* A compilation that has reported an error does not succeed (lumi_emit_bytecode).
ReportedIsRefused == Written => built.pending = NoMessage

\* The operand of the instruction at pc names what exists, where it may be used.
OperandExists(section, code, pc) ==
  LET op == ByteAt(code, pc)
      index == ReadU16(code, pc + 1)
  IN  /\ op = PUSH_CONST_F32 => index < Len(built.constants)
      /\ op \in {LOAD_GLOBAL, STORE_GLOBAL} => index < Len(built.initial.global)
      /\ op \in KeyOp => section = "render" /\ index < Len(built.initial.key)
      /\ op = SET_COLOR => section = "render"
      /\ op = LOAD_INPUT => SectionAllowsInput(section, ByteAt(code, pc + 1))
      /\ op = CALL_BUILTIN => ByteAt(code, pc + 2) = BuiltinArity[ByteAt(code, pc + 1)]

\* The parser reads what is written: the text of a program as that program; the tokens
\* of a block if and only if they are statements of the language; and any text it
\* accepts as a program that is written with the same tokens, but for newlines and
\* parentheses (parse_statement, parse_expression and the levels between them).
Essence(ts) ==
  LET Kept(i) == ts[i].type \notin {"newline", "(", ")"}
      Said(i) == CASE ts[i].type = "number" -> ts[i].number
                   [] ts[i].type = Name /\ ts[i + 1].type = "(" -> NameOf(Builtin(ts[i].spelling))
                   [] OTHER -> ts[i].spelling
      kept == SelectSeq([i \in DOMAIN ts |-> i], Kept)
  IN  [n \in DOMAIN kept |-> Said(kept[n])]
InBlock(ts) ==
  LET open == CHOOSE i \in DOMAIN ts : ts[i].type = "{"
  IN  AreStmts(ts, open + 1, Len(ts) - 2)
ReadsBack ==
  level = 0 /\ parsed # NotParsed =>
    /\ source \notin {NoSource, Fragment} => parsed.ok /\ parsed.program = source
    /\ source = Fragment => (parsed.ok <=> InBlock(parsed.tokens))
    /\ parsed.ok => Essence(Parser(Writer(parsed.program)).tokens) = Essence(parsed.tokens)

\* What is written at any level gives the machine nothing to refuse but a negative
\* square root: on every path each instruction decodes, finds its operands on the
\* stack and in the pools, keeps the depth within the recorded maximum, and leads
\* forward to another instruction until a HALT (the checks of execute_section).
Runnable ==
  Written =>
    \A s \in Sections :
      LET code == built.codes[s] IN
      /\ code # << >> /\ WellBehaved(code)
      /\ \A c \in Paths(code) :
           /\ c[2] >= Pops(code, c[1])
           /\ c[2] + StackDelta(code, c[1]) <= built.max
           /\ OperandExists(s, code, c[1])
           /\ Successors(code, c[1]) = {} => ByteAt(code, c[1]) = HALT
           /\ \A t \in Successors(code, c[1]) : t > c[1] /\ t < Len(code)

\* The lexer and the language server, which count lines and columns in different ways,
\* mean the same place: what is reported at a token is shown at the token, and hover
\* at either end of a word finds that word, and knows it if and only if the compiler does
\* (make_token, position_to_offset, word_at_position, the tables of append_hover).
Meaning(t) ==
  CASE t.type \in Sections -> "section"
    [] t.type \in Keywords \ Sections -> "keyword"
    [] t.spelling \in DOMAIN InputNames -> "input"
    [] t.spelling \in DOMAIN BuiltinNames -> "function"
    [] OTHER -> "null"
PositionsAgree ==
  level = 0 /\ source \in {NoSource, Fragment} => \A t \in ToSet(parsed.tokens) :
    LET place == PositionOf(t) IN
    t.type \notin {"newline", "eof"} =>
      /\ PositionToPiece(text, 1, place.line, place.character) = t.start
      /\ t.type \in Keywords \cup {Name} /\ ~IsWord(text, t.start - 1) =>
           \A n \in {0, Len(t.spelling)} : WordAt(text, place.line, place.character + n) = t.spelling
      /\ HoverKind(t.spelling) = Meaning(t)

\* The outline of a text that parses has its variables and sections, each once and in
\* place, and the editor completes to its variables and lets: the scans of the tokens
\* find what the parser finds (append_document_symbols, collect_document_symbols).
SymbolsComplete ==
  level = 0 /\ parsed.ok =>
    LET outline == DocumentSymbols(parsed.tokens, 1)
        tree == parsed.program.tree
        vars == {v.name : v \in ToSet(tree.vars)}
        lets == {d.name : d \in {l \in Locals(tree.init \o tree.update \o tree.render) : l.kind = "let"}}
    IN  /\ {s.name : s \in ToSet(outline)} = vars \cup (parsed.program.declared \ {"type"})
        /\ Len(outline) = Len(tree.vars) + Cardinality(parsed.program.declared \ {"type"})
        /\ \A s \in ToSet(outline) : WordAt(text, s.position.line, s.position.character) = s.name
        /\ {s.name : s \in ToSet(CompletionSymbols(parsed.tokens, 1))} = vars \cup lets

\* A let that is shown as unused is not needed: -O0 writes the same file whatever its
\* value is, and accepts the program without it (collect_lsp_warnings against emit_stmt).
RECURSIVE Instead(_, _, _)
Instead(list, name, lets) ==
  LET Changed(s) ==
        CASE s.kind = "let" /\ s.name = name -> lets
          [] s.kind = "if" -> <<[s EXCEPT !.then = Instead(@, name, lets), !.else = Instead(@, name, lets)]>>
          [] s.kind = "for" -> <<[s EXCEPT !.body = Instead(@, name, lets)]>>
          [] OTHER -> <<s>>
  IN  FlattenSeq([i \in DOMAIN list |-> Changed(list[i])])
UnusedUnneeded ==
  level = 1 /\ Ok(built) =>
    \A d \in Unused(parsed.program.tree) :
      LET Change(list, lets) == Instead(list, d.name, lets)
          With(lets) ==
            Compiler([parsed.program.tree EXCEPT !.init = Change(@, lets), !.update = Change(@, lets),
                                                 !.render = Change(@, lets)], 0)
          other == With(<<Let(d.name, Num(Zero))>>)
      IN  d.kind = "let" => Ok(With(<< >>)) /\ Ok(other) /\ Image(other) = Image(built)
=============================================================================
