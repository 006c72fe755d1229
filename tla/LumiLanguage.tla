---------------------------- MODULE LumiLanguage ----------------------------
(***************************************************************************)
(* What a Lumi program means, stated on its syntax tree as the language    *)
(* guide does: sections run their statements in order, a let names the     *)
(* value its expression had, a loop runs its body once for each value of   *)
(* its variable, every operand is evaluated, and a negative square root    *)
(* ends the section where it stands.  There is no bytecode, no stack and   *)
(* no optimization level here; only programs the compiler accepts are      *)
(* given a meaning.                                                        *)
(***************************************************************************)
EXTENDS LumiSyntax, SequencesExt

CONSTANTS
  RandomCell,    \* what an installed random provider may return
  Sources, Inputs, KeySlots,
  AsIndex(_), OfIndex(_)

-----------------------------------------------------------------------------
(* The variables of a program *)

Declared(source, storage) == SelectSeq(source.vars, LAMBDA v : v.storage = storage)

VarOf(source, name) == source.vars[CHOOSE i \in DOMAIN source.vars : source.vars[i].name = name]
IsVar(source, name) == \E i \in DOMAIN source.vars : source.vars[i].name = name

\* The position of a variable's first cell among the cells of its storage.
Base(source, name) ==
  LET vars == Declared(source, VarOf(source, name).storage)
      at == CHOOSE i \in DOMAIN vars : vars[i].name = name
      cells[n \in 0..Len(vars)] == IF n = 0 THEN 1 ELSE cells[n - 1] + vars[n].size
  IN  cells[at - 1]

-----------------------------------------------------------------------------
(* The meaning of expressions and statements.  A run holds the cells, the names *)
(* bound by let and for, the colour and whether a square root has failed.       *)

RECURSIVE Values(_, _), ValuesOf(_, _)

Failed == << >>   \* the outcome of a failing expression; a value v is <<v>>

\* The outcomes of several operands: a sequence of values, or Failed.
ValuesOf(run, xs) ==
  IF xs = << >> THEN {<< << >> >>}
  ELSE UNION { IF first = Failed THEN {Failed}
               ELSE {IF rest = Failed THEN Failed ELSE << first \o rest[1] >> : rest \in ValuesOf(run, Tail(xs))} :
               first \in Values(run, Head(xs)) }

\* The outcomes of applying an operation to the outcomes of its operands.
Apply(run, xs, Operation(_)) ==
  {IF vs = Failed THEN Failed ELSE Operation(vs[1]) : vs \in ValuesOf(run, xs)}

Padded(vs) == [i \in 1..4 |-> IF i \in DOMAIN vs THEN vs[i] ELSE Zero]

IndexOf(run, index) ==
  IF index = NoExpr THEN 0 ELSE AsIndex((CHOOSE v \in Values(run, index) : TRUE)[1])

ReadVar(run, name, index) ==
  run.cells[VarOf(run.source, name).storage][Base(run.source, name) + IndexOf(run, index)]

Values(run, x) ==
  CASE x.kind = "number" -> {<<x.value>>}
    [] x.kind = "symbol" ->
         IF x.name \in DOMAIN run.locals THEN {<<run.locals[x.name]>>}
         ELSE IF x.name \in DOMAIN InputNames THEN {<<run.inputs[InputNames[x.name]]>>}
         ELSE {<<ReadVar(run, x.name, NoExpr)>>}
    [] x.kind = "index" -> {<<ReadVar(run, x.name, x.index)>>}
    [] x.kind = "unary" -> Apply(run, <<x.operand>>, LAMBDA vs : <<UnaryResult(x.op, vs[1])>>)
    [] x.kind = "binary" -> Apply(run, <<x.left, x.right>>, LAMBDA vs : <<BinaryResult(x.op, vs[1], vs[2])>>)
    [] x.kind = "call" ->
         IF x.id = BUILTIN_RAND THEN {<<v>> : v \in IF run.random THEN RandomCell ELSE {Zero}}
         ELSE Apply(run, x.args, LAMBDA vs : IF SqrtDomain(x.id, vs) THEN Failed
                                             ELSE <<BuiltinResult(x.id, Padded(vs))>>)
    [] x.kind = "ifexpr" ->
         UNION {IF c = Failed THEN {Failed} ELSE Values(run, IF Truthy(c[1]) THEN x.then ELSE x.else) :
                  c \in Values(run, x.condition)}

\* The runs after an expression whose value is used by Then.
Using(run, x, Then(_)) ==
  UNION {IF v = Failed THEN {[run EXCEPT !.failed = TRUE]} ELSE Then(v[1]) : v \in Values(run, x)}

Bind(run, name, v) == [run EXCEPT !.locals = (name :> v) @@ @]

RECURSIVE Exec(_, _)

\* The runs after a list of statements, whose names end with it.
ExecList(run, list) ==
  LET after[n \in 0..Len(list)] ==
        IF n = 0 THEN {run}
        ELSE UNION {IF r.failed THEN {r} ELSE Exec(r, list[n]) : r \in after[n - 1]}
  IN  {[r EXCEPT !.locals = run.locals] : r \in after[Len(list)]}

\* The runs after one statement.
Exec(run, s) ==
  CASE s.kind = "let" -> Using(run, s.value, LAMBDA v : {Bind(run, s.name, v)})
    [] s.kind = "assign" ->
         LET storage == VarOf(run.source, s.name).storage
             at == Base(run.source, s.name) + IndexOf(run, s.index)
         IN  Using(run, s.value, LAMBDA v : {[run EXCEPT !.cells[storage][at] = v]})
    [] s.kind = "color" -> Using(run, s.value, LAMBDA v : {[run EXCEPT !.color = v, !.hasColor = TRUE]})
    [] s.kind = "if" ->
         Using(run, s.condition, LAMBDA c : ExecList(run, IF Truthy(c) THEN s.then ELSE s.else))
    [] s.kind = "for" ->
         LET start == IndexOf(run, s.start)
             rounds[n \in 0..IndexOf(run, s.end) - start] ==
               IF n = 0 THEN {run}
               ELSE UNION {IF r.failed THEN {r}
                           ELSE ExecList(Bind(r, s.name, OfIndex(start + n - 1)), s.body) :
                             r \in rounds[n - 1]}
         IN  {[r EXCEPT !.locals = run.locals] : r \in rounds[IndexOf(run, s.end) - start]}

-----------------------------------------------------------------------------
(* Programs *)

VARIABLES
  source,   \* the program
  created,  \* whether it has a state
  global,   \* the cells of its global variables
  rows,     \* the cells of its key variables, for each key
  random,   \* whether a random provider is installed
  call,     \* the section being run, for which key and with which inputs
  shown     \* the colour of the last section run, and how it ended

languageVars == <<source, created, global, rows, random, call, shown>>

NoCall == [section |-> "none"]
Nothing == [color |-> Zero, hasColor |-> FALSE, error |-> "none"]

\* Initializers are constants.
InitialCells(s, storage) ==
  LET run == [locals |-> << >>, inputs |-> << >>, cells |-> << >>, source |-> s, random |-> FALSE]
      vars == Declared(s, storage)
  IN  FlattenSeq([i \in DOMAIN vars |->
        [j \in 1..vars[i].size |-> (CHOOSE v \in Values(run, vars[i].initializer) : TRUE)[1]]])

StartingAt(c) ==
  [source |-> source, random |-> random, inputs |-> c.inputs, locals |-> << >>,
   cells |-> [global |-> global, key |-> IF c.section = "render" THEN rows[c.key] ELSE << >>],
   color |-> Zero, hasColor |-> FALSE, failed |-> FALSE]

StatementsOf(section) == source[section]

LanguageInit ==
  /\ source \in Sources
  /\ created = FALSE
  /\ global = << >>
  /\ rows = [k \in 0..KeySlots-1 |-> << >>]
  /\ random = FALSE
  /\ call = NoCall
  /\ shown = Nothing

Restore ==
  /\ call = NoCall
  /\ created' = TRUE
  /\ global' = InitialCells(source, "global")
  /\ rows' = [k \in 0..KeySlots-1 |-> InitialCells(source, "key")]
  /\ random' \in {random, FALSE}
  /\ shown' \in {shown, [shown EXCEPT !.error = "none"]}
  /\ UNCHANGED <<source, call>>

Provide ==
  /\ call = NoCall
  /\ random' \in BOOLEAN
  /\ UNCHANGED <<source, created, global, rows, call, shown>>

Begin(section, key, inputs) ==
  /\ call = NoCall
  /\ created
  /\ call' = [section |-> section, key |-> key, inputs |-> inputs]
  /\ UNCHANGED <<source, created, global, rows, random, shown>>

\* The section has run: its whole effect at once.
Finish ==
  /\ call # NoCall
  /\ call' = NoCall
  /\ \E r \in ExecList(StartingAt(call), StatementsOf(call.section)) :
       /\ global' = r.cells["global"]
       /\ rows' = IF call.section = "render" THEN [rows EXCEPT ![call.key] = r.cells["key"]] ELSE rows
       /\ shown' = [color |-> r.color, hasColor |-> r.hasColor,
                     error |-> IF r.failed THEN "sqrt expects non-negative input" ELSE "none"]
  /\ UNCHANGED <<source, created, random>>

LanguageNext ==
  \/ Restore \/ Provide \/ Finish
  \/ \E inputs \in Inputs :
       \/ Begin("update", 0, inputs)
       \/ \E key \in 0..KeySlots-1 : Begin("render", key, inputs)
  \/ Begin("init", 0, [s \in InputSlot |-> Zero])

LanguageSpec == LanguageInit /\ [][LanguageNext]_languageVars
=============================================================================
