----------------------------- MODULE LumiEditor -----------------------------
(***************************************************************************)
(* What the language server derives from a text: the place of a position   *)
(* and the word there, the symbols, the completions and the unused names.  *)
(* Only the last of them come from the parser; the others are readings of  *)
(* their own.                                                              *)
(***************************************************************************)
EXTENDS LumiParser

-----------------------------------------------------------------------------
(* Positions: lines and characters are counted from 0 *)

\* position_to_offset: the piece that holds the character so many lines and characters
\* after piece i, which begins a line.  The end of a line is its newline, and what is
\* past it the beginning of the next line.
RECURSIVE PositionToPiece(_, _, _, _)
PositionToPiece(text, i, line, character) ==
  IF i > Len(text) THEN i
  ELSE IF line > 0 THEN PositionToPiece(text, i + 1, IF text[i] = "\n" THEN line - 1 ELSE line, character)
  ELSE IF character < Len(text[i]) THEN i
  ELSE IF text[i] = "\n" THEN i + 1
  ELSE PositionToPiece(text, i + 1, 0, character - Len(text[i]))

IsWord(text, i) == i \in DOMAIN text /\ text[i] \in Words \cup Numerals

RECURSIVE WordStart(_, _)
WordStart(text, i) == IF IsWord(text, i - 1) THEN WordStart(text, i - 1) ELSE i

\* word_at_position: the word that holds the position or ends at it, "" if there is none.
WordAt(text, line, character) ==
  LET at == PositionToPiece(text, 1, line, character)
      inside == IF at > Len(text) /\ at > 1 THEN at - 1 ELSE at
      word == IF ~IsWord(text, inside) /\ IsWord(text, inside - 1) THEN inside - 1 ELSE inside
  IN  IF IsWord(text, word)
      THEN Spelling(SubSeq(text, WordStart(text, word), RunEnd(text, word, "identifier") - 1)) ELSE ""

\* Where a diagnostic or a symbol that is reported at this token begins.
PositionOf(token) ==
  [line |-> token.line - 1, character |-> IF token.column > 0 THEN token.column - 1 ELSE 0]

-----------------------------------------------------------------------------
(* Words of the language: keyword_info, input_info, builtin_info *)

HoverKind(word) ==
  CASE word \in {"type", "global", "key", "var", "let", "color", "if", "else", "for", "in"} -> "keyword"
    [] word \in {"init", "update", "render"} -> "section"
    [] word \in {"x", "y", "dt", "delta_ms", "speed", "pressed", "press", "pressed_percentage"} -> "input"
    [] word \in {"abs", "sin", "cos", "sqrt", "ceil", "floor", "round", "clamp", "dist", "lerp", "min", "max",
                 "pow", "rand", "rgb", "hsv"} -> "function"
    [] OTHER -> "null"

-----------------------------------------------------------------------------
(* Symbols: scans of the tokens from i on *)

Symbol(token) == [name |-> token.spelling, position |-> PositionOf(token)]

\* A scan that has consumed the end of the text reads on behind it.
BehindText == <<[name |-> "behind the text", position |-> "none"]>>

\* The name after `global var` or `key var`, and how many tokens were read to see it.
NameAt(ts, i) == IF ts[i].type = Name THEN <<Symbol(ts[i])>> ELSE << >>
AfterStorage_NextToken(ts, i) ==  \* mutant: the name is looked for right after the storage
  [found |-> NameAt(ts, i + 1), next |-> i + 2]
AfterStorage(ts, i) ==
  IF ts[i + 1].type = "var" THEN [found |-> NameAt(ts, i + 2), next |-> i + 3]
  ELSE [found |-> << >>, next |-> i + 2]

\* append_document_symbols
RECURSIVE DocumentSymbols(_, _)
DocumentSymbols(ts, i) ==
  LET type == ts[i].type
      var == AfterStorage(ts, i)
  IN  CASE i > Len(ts) -> BehindText
        [] i <= Len(ts) /\ type \in {"eof", "invalid"} -> << >>
        [] i <= Len(ts) /\ type \in {"global", "key"} -> var.found \o DocumentSymbols(ts, var.next)
        [] i <= Len(ts) /\ type \in {"init", "update", "render"} ->
             <<Symbol(ts[i])>> \o DocumentSymbols(ts, i + 1)
        [] OTHER -> DocumentSymbols(ts, i + 1)

\* collect_document_symbols: the names to complete to, of variables and of lets
RECURSIVE CompletionSymbols(_, _)
CompletionSymbols(ts, i) ==
  LET type == ts[i].type
      var == AfterStorage(ts, i)
  IN  CASE i > Len(ts) -> BehindText
        [] i <= Len(ts) /\ type \in {"eof", "invalid"} -> << >>
        [] i <= Len(ts) /\ type \in {"global", "key"} -> var.found \o CompletionSymbols(ts, var.next)
        [] i <= Len(ts) /\ type = "let" -> NameAt(ts, i + 1) \o CompletionSymbols(ts, i + 2)
        [] OTHER -> CompletionSymbols(ts, i + 1)

-----------------------------------------------------------------------------
(* Unused names: collect_lsp_warnings *)

RECURSIVE ExprNames(_), ListNames(_), Locals(_)

\* collect_warning_expr
ExprNames(e) ==
  CASE e.kind \in {"number", "none"} -> {}
    [] e.kind = "symbol" -> {e.name}
    [] e.kind = "index" -> {e.name} \cup ExprNames(e.index)
    [] e.kind = "unary" -> ExprNames(e.operand)
    [] e.kind = "binary" -> ExprNames(e.left) \cup ExprNames(e.right)
    [] e.kind = "call" -> UNION {ExprNames(e.args[i]) : i \in DOMAIN e.args}
    [] e.kind = "ifexpr" -> ExprNames(e.condition) \cup ExprNames(e.then) \cup ExprNames(e.else)

StmtNames_NoIndex(s) ==  \* mutant: what the index of an assignment reads is not counted
  CASE s.kind \in {"let", "color", "assign"} -> ExprNames(s.value)
    [] s.kind = "if" -> ExprNames(s.condition) \cup ListNames(s.then) \cup ListNames(s.else)
    [] s.kind = "for" -> ExprNames(s.start) \cup ExprNames(s.end) \cup ListNames(s.body)

\* collect_warning_stmt_list: the names that are read, and the local ones that are declared
StmtNames(s) ==
  CASE s.kind \in {"let", "color"} -> ExprNames(s.value)
    [] s.kind = "assign" -> ExprNames(s.index) \cup ExprNames(s.value)
    [] s.kind = "if" -> ExprNames(s.condition) \cup ListNames(s.then) \cup ListNames(s.else)
    [] s.kind = "for" -> ExprNames(s.start) \cup ExprNames(s.end) \cup ListNames(s.body)
ListNames(list) == UNION {StmtNames(list[i]) : i \in DOMAIN list}

StmtLocals(s) ==
  CASE s.kind = "let" -> {[kind |-> "let", name |-> s.name]}
    [] s.kind = "for" -> {[kind |-> "for", name |-> s.name]} \cup Locals(s.body)
    [] s.kind = "if" -> Locals(s.then) \cup Locals(s.else)
    [] OTHER -> {}
Locals(list) == UNION {StmtLocals(list[i]) : i \in DOMAIN list}

\* The names of a program that a warning is shown for.
Unused(tree) ==
  LET all == tree.init \o tree.update \o tree.render
      vars == ToSet(tree.vars)
      read == ListNames(all) \cup UNION {ExprNames(v.initializer) : v \in vars}
  IN  {d \in Locals(all) \cup {[kind |-> "var", name |-> v.name] : v \in vars} : d.name \notin read}
=============================================================================
