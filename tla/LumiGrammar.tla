---------------------------- MODULE LumiGrammar -----------------------------
(***************************************************************************)
(* The language of LANGUAGE.md, against which the parser is checked: how a *)
(* program is written, with the fewest parentheses that C's precedence of  *)
(* operators allows, and which tokens are statements.                      *)
(***************************************************************************)
EXTENDS LumiParser

Sign == OR :> "||" @@ AND :> "&&" @@ EQ :> "==" @@ NE :> "!=" @@ LT :> "<" @@ LE :> "<=" @@ GT :> ">" @@ GE :> ">="
          @@ ADD :> "+" @@ SUB :> "-" @@ MUL :> "*" @@ DIV :> "/" @@ MOD :> "%" @@ NEG :> "-" @@ NOT :> "!"

Precedence(op) ==
  CASE op = OR -> 1 [] op = AND -> 2 [] op \in {EQ, NE} -> 3 [] op \in {LT, LE, GT, GE} -> 4
    [] op \in {ADD, SUB} -> 5 [] op \in {MUL, DIV, MOD} -> 6
Tightest == 7

\* A sign in the pieces of a text.
Spelled(sign) == IF Len(sign) = 1 THEN <<sign>> ELSE <<SubSeq(sign, 1, 1), SubSeq(sign, 2, 2)>>

NameOf(id) == IF id = 0 THEN "f" ELSE CHOOSE name \in DOMAIN BuiltinNames : BuiltinNames[name] = id

-----------------------------------------------------------------------------
(* Writing *)

RECURSIVE ExprText(_, _), ListText(_)

\* An expression where only operators at least this tight may stand by themselves.
ExprText(e, tight) ==
  CASE e.kind = "number" -> <<ToString(e.value)>>
    [] e.kind = "symbol" -> <<e.name>>
    [] e.kind = "index" -> <<e.name, "[">> \o ExprText(e.index, 1) \o <<"]">>
    [] e.kind = "unary" -> Spelled(Sign[e.op]) \o ExprText(e.operand, Tightest)
    [] e.kind = "binary" /\ Precedence(e.op) >= tight ->
         ExprText(e.left, Precedence(e.op)) \o <<" ">> \o Spelled(Sign[e.op]) \o <<" ">>
           \o ExprText(e.right, Precedence(e.op) + 1)
    [] e.kind = "binary" /\ Precedence(e.op) < tight -> <<"(">> \o ExprText(e, 1) \o <<")">>
    [] e.kind = "call" ->
         <<NameOf(e.id), "(">>
           \o FlattenSeq([i \in DOMAIN e.args |-> (IF i = 1 THEN << >> ELSE <<",", "\n">>) \o ExprText(e.args[i], 1)])
           \o <<")">>
    [] e.kind = "ifexpr" ->
         <<"if", " ">> \o ExprText(e.condition, 1) \o <<" ", "{", "\n">> \o ExprText(e.then, 1)
           \o <<"\n", "}", " ", "else", " ", "{", " ">> \o ExprText(e.else, 1) \o <<"}">>

StmtText(s) ==
  CASE s.kind = "let" -> <<"let", " ", s.name, "=">> \o ExprText(s.value, 1)
    [] s.kind = "assign" /\ s.index = NoExpr -> <<s.name, " ", "=", " ">> \o ExprText(s.value, 1)
    [] s.kind = "assign" /\ s.index # NoExpr ->
         <<s.name, "[">> \o ExprText(s.index, 1) \o <<"]", "=">> \o ExprText(s.value, 1)
    [] s.kind = "color" -> <<"color", " ">> \o ExprText(s.value, 1)
    [] s.kind = "if" ->
         <<"if", " ">> \o ExprText(s.condition, 1) \o ListText(s.then)
           \o (IF s.else = << >> THEN << >> ELSE <<"else">> \o ListText(s.else))
    [] s.kind = "for" ->
         <<"for", " ", s.name, " ", "in", " ">> \o ExprText(s.start, 1) \o <<".", ".">> \o ExprText(s.end, 1)
           \o ListText(s.body)

\* A block: a statement a line.
ListText(list) == <<"{", "\n">> \o FlattenSeq([i \in DOMAIN list |-> StmtText(list[i]) \o <<"\n">>]) \o <<"}">>

VarText(v) ==
  <<v.storage, " ", "var", " ", v.name>> \o (IF v.size = 1 THEN << >> ELSE <<"[", ToString(v.size), "]">>)
    \o <<"=">> \o ExprText(v.initializer, 1) \o <<"\n">>

\* The text of a program, in the order of LANGUAGE.md.
ProgramText(program) ==
  LET tree == program.tree
      Section(name) == IF name \in program.declared THEN <<name>> \o ListText(tree[name]) \o <<"\n">> ELSE << >>
      type == IF "type" \in program.declared THEN <<"type", " ", program.type, "\n">> ELSE << >>
  IN  type \o FlattenSeq([i \in DOMAIN tree.vars |-> VarText(tree.vars[i])])
        \o Section("init") \o Section("update") \o Section("render")

-----------------------------------------------------------------------------
(* Recognizing *)

BinarySigns == {Sign[op] : op \in DOMAIN Sign \ {NOT}}

\* Whether the tokens from i to j are an expression, however it is grouped.
RECURSIVE IsExpr(_, _, _)
IsExpr(ts, i, j) ==
  \/ i = j /\ ts[i].type \in {"number", Name}
  \/ i < j /\ ts[i].type \in {"-", "!"} /\ IsExpr(ts, i + 1, j)
  \/ \E k \in i+1..j-1 : ts[k].type \in BinarySigns /\ IsExpr(ts, i, k - 1) /\ IsExpr(ts, k + 1, j)
  \/ i < j - 2 /\ ts[i].type = Name /\ ts[i + 1].type = "[" /\ ts[j].type = "]" /\ IsExpr(ts, i + 2, j - 1)
  \/ i < j /\ ts[j].type = ")" /\
       LET open == IF ts[i].type = Name THEN i + 1 ELSE i
           lined(a, b) == \A n \in a..b : ts[n].type = "newline"
       IN  /\ ts[open].type = "("
           /\ \/ open > i /\ lined(open + 1, j - 1)   \* a call without arguments
              \/ \E a, b \in open+1..j-1 :
                   a <= b /\ lined(open + 1, a - 1) /\ lined(b + 1, j - 1) /\ IsExpr(ts, a, b)

IsStmt(ts, i, j) ==
  \/ i < j /\ ts[i].type = "color" /\ IsExpr(ts, i + 1, j)
  \/ i < j /\ ts[i].type = Name /\
       \E k \in i+1..j-1 :
         /\ ts[k].type = "=" /\ IsExpr(ts, k + 1, j)
         /\ k > i + 1 => ts[i + 1].type = "[" /\ IsExpr(ts, i, k - 1)

\* Whether the tokens from i to j are statements of these two kinds.
RECURSIVE AreStmts(_, _, _)
AreStmts(ts, i, j) ==
  \/ i > j
  \/ ts[i].type = "newline" /\ AreStmts(ts, i + 1, j)
  \/ \E k \in i..j : IsStmt(ts, i, k) /\ AreStmts(ts, k + 1, j)
=============================================================================
