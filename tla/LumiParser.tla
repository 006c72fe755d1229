----------------------------- MODULE LumiParser -----------------------------
(***************************************************************************)
(* The recursive-descent parser: from the tokens of a text to a program,   *)
(* or to the token at which it gives up.  Every construct is the list of   *)
(* its parts, in the order in which the parser asks for them; a part is    *)
(* the type of a token or one of those below.  Allocations succeed.        *)
(***************************************************************************)
EXTENDS LumiLexer

CONSTANTS
  CellOf(_),  \* the cell that a number is converted to
  CountOf(_)  \* the size_t that a number is equal to, 0 if there is none

Newlines == "newlines"      \* skip_newlines
Expr == "an expression"     \* parse_expression
Block == "a block"          \* parse_block
Size == "an array size"     \* of parse_var_decl
Name == "identifier"        \* a token whose spelling is kept

\* What some parts have come to: the next token and what they say, or the token that
\* is reported.
Done(at, got) == [ok |-> TRUE, at |-> at, got |-> got]
Refuse(at) == [ok |-> FALSE, at |-> at, got |-> << >>]
Made(r, Make(_)) == IF r.ok THEN Done(r.at, <<Make(r.got)>>) ELSE r

\* parse_expression .. parse_factor: binary operators, the weakest first
Operators ==
  << ("||" :> OR), ("&&" :> AND), ("==" :> EQ @@ "!=" :> NE),
     ("<" :> LT @@ "<=" :> LE @@ ">" :> GT @@ ">=" :> GE),
     ("+" :> ADD @@ "-" :> SUB), ("*" :> MUL @@ "/" :> DIV @@ "%" :> MOD) >>
UnaryOperators == ("-" :> NEG @@ "!" :> NOT)

\* The name of each builtin, which emit_builtin looks up for a call.
BuiltinNames ==
  [abs |-> BUILTIN_ABS, sin |-> 6, cos |-> 7, sqrt |-> BUILTIN_SQRT, ceil |-> 14, floor |-> 15, round |-> 16,
   clamp |-> BUILTIN_CLAMP, dist |-> BUILTIN_DIST, lerp |-> BUILTIN_LERP, min |-> BUILTIN_MIN,
   max |-> BUILTIN_MAX, pow |-> BUILTIN_POW, rand |-> BUILTIN_RAND, rgb |-> BUILTIN_RGB, hsv |-> BUILTIN_HSV]
Builtin(name) == IF name \in DOMAIN BuiltinNames THEN BuiltinNames[name] ELSE 0

RECURSIVE SkipNewlines(_, _)
SkipNewlines(ts, i) == IF ts[i].type = "newline" THEN SkipNewlines(ts, i + 1) ELSE i

RECURSIVE Phrase(_, _, _), Binary(_, _, _), BinaryRest(_, _, _), Unary(_, _), Arguments(_, _), Statements(_, _)

-----------------------------------------------------------------------------
(* Expressions *)

\* parse_primary and parse_if_expression
Primary(ts, i) ==
  LET type == ts[i].type
      name == ts[i].spelling
      next == ts[i + 1].type
      argument == SkipNewlines(ts, i + 2)
  IN  CASE type = "number" -> Done(i + 1, <<Num(CellOf(ts[i].number))>>)
        [] type = "if" ->
             Made(Phrase(ts, i, <<"if", Expr, "{", Newlines, Expr, Newlines, "}", Newlines,
                                  "else", "{", Newlines, Expr, Newlines, "}">>),
                  LAMBDA g : IfX(g[1], g[2], g[3]))
        [] type = Name /\ next = "(" ->
             LET args == IF ts[argument].type = ")" THEN Done(argument + 1, << >>) ELSE Arguments(ts, argument)
             IN  Made(args, LAMBDA g : Fn(Builtin(name), g))
        [] type = Name /\ next = "[" -> Made(Phrase(ts, i + 1, <<"[", Expr, "]">>), LAMBDA g : Elem(name, g[1]))
        [] type = Name /\ next \notin {"(", "["} -> Done(i + 1, <<Sym(name)>>)
        [] type = "(" -> Phrase(ts, i, <<"(", Newlines, Expr, Newlines, ")">>)
        [] OTHER -> Refuse(i)

\* The arguments of a call, up to its closing parenthesis.
Arguments(ts, i) ==
  LET first == Phrase(ts, i, <<Expr, Newlines>>)
      more == Arguments(ts, SkipNewlines(ts, first.at + 1))
      end == Phrase(ts, first.at, <<")">>)
  IN  IF ~first.ok THEN first
      ELSE IF ts[first.at].type = "," THEN [more EXCEPT !.got = first.got \o @]
      ELSE [end EXCEPT !.got = first.got]

Unary(ts, i) ==
  IF ts[i].type \in DOMAIN UnaryOperators
  THEN Made(Unary(ts, i + 1), LAMBDA g : Un(UnaryOperators[ts[i].type], g[1]))
  ELSE Primary(ts, i)

BinaryRest_Right(ts, left, level) ==  \* mutant: operators group to the right
  IF left.ok /\ ts[left.at].type \in DOMAIN Operators[level]
  THEN Made(Binary(ts, left.at + 1, level), LAMBDA g : Bin(Operators[level][ts[left.at].type], left.got[1], g[1]))
  ELSE left

\* The loop of each of parse_factor .. parse_expression.
BinaryRest(ts, left, level) ==
  IF left.ok /\ ts[left.at].type \in DOMAIN Operators[level]
  THEN BinaryRest(ts,
         Made(Binary(ts, left.at + 1, level + 1),
              LAMBDA g : Bin(Operators[level][ts[left.at].type], left.got[1], g[1])),
         level)
  ELSE left

Binary(ts, i, level) ==
  IF level > Len(Operators) THEN Unary(ts, i) ELSE BinaryRest(ts, Binary(ts, i, level + 1), level)

-----------------------------------------------------------------------------
(* Statements *)

IfStatement(ts, i) ==
  LET then == Phrase(ts, i, <<"if", Expr, "{", Block>>)
      else == IF ts[then.at].type = "else" THEN Phrase(ts, then.at, <<"else", "{", Block>>)
              ELSE Done(then.at, << << >> >>)
  IN  IF then.ok THEN Made(else, LAMBDA g : IfS(then.got[1], then.got[2], g[1])) ELSE then

\* parse_statement: an assignment is told by its second token.
Statement(ts, i) ==
  LET type == ts[i].type
      next == ts[i + 1].type
      From(parts, Make(_)) == Made(Phrase(ts, i, parts), Make)
  IN  CASE type = "let" -> From(<<"let", Name, "=", Expr>>, LAMBDA g : Let(g[1], g[2]))
        [] type = Name /\ next = "=" -> From(<<Name, "=", Expr>>, LAMBDA g : Set(g[1], g[2]))
        [] type = Name /\ next = "[" ->
             From(<<Name, "[", Expr, "]", "=", Expr>>, LAMBDA g : SetElem(g[1], g[2], g[3]))
        [] type = "color" -> From(<<"color", Expr>>, LAMBDA g : Color(g[1]))
        [] type = "if" -> IfStatement(ts, i)
        [] type = "for" ->
             From(<<"for", Name, "in", Expr, "..", Expr, "{", Block>>, LAMBDA g : For(g[1], g[2], g[3], g[4]))
        [] OTHER -> Refuse(i)

\* The statements of parse_block, up to its closing brace.
Statements(ts, i) ==
  LET first == Statement(ts, i)
      rest == Statements(ts, SkipNewlines(ts, first.at))
  IN  IF ts[i].type \in {"}", "eof"} THEN Done(i, << >>)
      ELSE IF first.ok THEN [rest EXCEPT !.got = first.got \o @]
      ELSE first

-----------------------------------------------------------------------------
(* Parts *)

\* One part: expect for a type of token, or what the part is named for.
Part(ts, i, part) ==
  LET list == Statements(ts, SkipNewlines(ts, i))
  IN  CASE part = Newlines -> Done(SkipNewlines(ts, i), << >>)
        [] part = Expr -> Binary(ts, i, 1)
        [] part = Block ->
             IF list.ok THEN [Phrase(ts, list.at, <<"}">>) EXCEPT !.got = <<list.got>>] ELSE list
        [] part = Size ->
             IF ts[i].type = "number" /\ CountOf(ts[i].number) > 0
             THEN Done(i + 1, <<CountOf(ts[i].number)>>) ELSE Refuse(i)
        [] OTHER ->
             IF ts[i].type = part THEN Done(i + 1, IF part = Name THEN <<ts[i].spelling>> ELSE << >>)
             ELSE Refuse(i)

Phrase(ts, i, parts) ==
  LET first == Part(ts, i, Head(parts))
      rest == Phrase(ts, first.at, Tail(parts))
  IN  IF parts = << >> THEN Done(i, << >>)
      ELSE IF first.ok THEN [rest EXCEPT !.got = first.got \o @]
      ELSE first

-----------------------------------------------------------------------------
(* lumi_parse *)

\* parse_var_decl
Declaration(ts, i) ==
  LET head == Phrase(ts, i, <<ts[i].type, "var", Name>>)
      sized == ts[head.at].type = "["
      rest == Phrase(ts, head.at, IF sized THEN <<"[", Size, "]", "=", Expr>> ELSE <<"=", Expr>>)
  IN  IF head.ok
      THEN Made(rest, LAMBDA g : Var(ts[i].type, head.got[1], IF sized THEN g[1] ELSE 1, Last(g)))
      ELSE head

NoProgram == [declared |-> {}, type |-> "none", tree |-> Source(<< >>, << >>, << >>, << >>)]

\* The program of the tokens from i on, after those that have made p.  declared holds
\* "type" once the type is known and the names of the sections that are present.
RECURSIVE TopLevel(_, _, _)
TopLevel(ts, i, p) ==
  LET type == ts[i].type
      next == ts[i + 1]
      var == Declaration(ts, i)
      section == Phrase(ts, i, <<type, "{", Block>>)
      Then(r, q) == IF r.ok THEN TopLevel(ts, SkipNewlines(ts, r.at), q)
                    ELSE [ok |-> FALSE, at |-> r.at, program |-> NoProgram]
  IN  CASE type = "eof" -> [ok |-> TRUE, at |-> i, program |-> p]
        [] type = "type" /\ "type" \notin p.declared ->
             Then(IF next.spelling \in {"static", "animation"} THEN Done(i + 2, << >>) ELSE Refuse(i + 1),
                  [p EXCEPT !.declared = @ \cup {"type"}, !.type = next.spelling])
        [] type \in {"global", "key"} -> Then(var, [p EXCEPT !.tree.vars = @ \o var.got])
        [] type \in {"init", "update", "render"} \ p.declared ->
             Then(section, [p EXCEPT !.declared = @ \cup {type}, !.tree[type] = section.got[1]])
        [] OTHER -> Then(Refuse(i), p)

Parse(text) ==
  LET ts == Tokens(text)
      end == TopLevel(ts, SkipNewlines(ts, 1), NoProgram)
  IN  [tokens |-> ts, ok |-> end.ok, at |-> end.at, program |-> end.program]
=============================================================================
