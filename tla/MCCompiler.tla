----------------------------- MODULE MCCompiler -----------------------------
(***************************************************************************)
(* Instances of LumiCompiler: programs whose render section is two         *)
(* statements of a small grammar before the colour, valid or not; every    *)
(* text of a few tokens in the place of the statements; and texts with the *)
(* layouts and the mistakes that these do not have.                        *)
(***************************************************************************)
EXTENDS LumiCompiler, MCPrograms

MCAsIndex(c) == IF c \in 0..2 THEN c ELSE -1
MCOfIndex(i) == Wrap(i)

MCWords ==
  Keywords \cup DOMAIN BuiltinNames \cup DOMAIN InputNames \cup {"static", "animation", "g", "k", "a", "t", "i", "f", "e"}
MCNumerals == {"0", "1", "2", "9"}

\* The integers 0, 1 and 2; a fraction, a power of ten and 9 are any other number, for
\* which the cell of the NaN stands.
MCNumberOf(pieces) ==
  LET At(i) == IF i \in DOMAIN pieces THEN pieces[i] ELSE EndOfText
      fraction == At(1) = "." \/ (At(2) = "." /\ At(3) \in MCNumerals)
      mantissa == IF At(2) # "." THEN 1 ELSE IF fraction THEN 3 ELSE 2
      power == At(mantissa + 1) = "e" /\ At(mantissa + 2) \in MCNumerals
  IN  IF fraction \/ power THEN NaN
      ELSE CASE At(1) = "0" -> 0 [] At(1) = "1" -> 1 [] At(1) = "2" -> 2 [] OTHER -> NaN
MCCellOf(n) == n
MCCountOf(n) == IF n = NaN THEN 0 ELSE n

-----------------------------------------------------------------------------
(* Programs: g and k are variables, a is an array, t and i are names that may be bound. *)

G == Sym("g")
Rand == Fn(BUILTIN_RAND, << >>)
Sqrt(v) == Fn(BUILTIN_SQRT, <<v>>)

Atoms == {Num(0), Num(1), G, Sym("k"), Sym("t"), Sym("i"), Elem("a", Sym("i")), Rand, Sym("x")}
Exprs ==
  Atoms
    \cup {Bin(op, l, r) : op \in {ADD, MUL, AND}, l \in {Num(0), G, Rand, Sym("t")}, r \in {Num(0), Num(1), G, Rand}}
    \cup {IfX(c, Bin(DIV, G, Num(1)), Sqrt(G)) : c \in {Num(0), G, Rand}}
    \cup {Un(NOT, Sym("t")), Fn(BUILTIN_CLAMP, <<G, G, G>>), Fn(BUILTIN_MIN, <<G, Num(0)>>), Fn(0, <<G>>), Fn(BUILTIN_RGB, <<G>>)}

Small == {<< >>, <<Set("g", G)>>, <<Color(Rand)>>, <<Let("t", Num(1))>>}
Lets == {Let("t", v) : v \in {Num(1), G, Rand, Elem("a", Num(2)), IfX(Rand, Elem("a", G), Num(1))}}
Loops == {For("i", Num(0), end, body) : end \in {Num(0), Num(2), G},
            body \in Small \cup {<<Set("g", Elem("a", Sym("i")))>>, <<Set("g", Bin(MUL, Sym("i"), Rand))>>}}
Core ==
  {Set("g", v) : v \in {Num(1), G, Rand, Sym("t"), Bin(ADD, Sym("t"), G)}} \cup Lets
    \cup {SetElem("a", index, Num(1)) : index \in {Num(1), Num(2), G, Sym("t")}}
    \cup {IfS(G, then, << >>) : then \in Small}

\* Elements where nothing comes, around an assignment and an assignment that overwrites it.
Known(value) == IfX(Num(0), value, Num(1))
Odd == {Elem("a", Num(1)), Elem("a", Num(2)), Elem("a", G), Elem("t", Num(0)), Elem("g", Num(0)), Elem("a", Elem("a", Num(2)))}
Never(element) ==
  {Set("g", Known(element)), Let("t", Known(element)), Let("t", Fn(BUILTIN_MIN, <<G, element>>)), SetElem("a", Num(1), Known(element)),
   IfS(Known(element), << >>, << >>), IfS(Num(0), <<Set("g", element)>>, << >>), For("i", Num(0), Num(0), <<Set("g", element)>>)}
Overwritten == {Set("g", Num(1)), SetElem("a", Num(1), Num(1))}
Shadows ==
  {<<first, never, last>> : first \in Overwritten, never \in UNION {Never(element) : element \in Odd}, last \in Overwritten}

Stmts ==
  Core \cup {Set("g", v) : v \in Exprs} \cup Loops
    \cup {IfS(c, then, else) : c \in {Num(0), G}, then \in Small, else \in Small}
    \cup {IfS(Rand, then, << >>) : then \in Small}

MCVars == <<Var("global", "g", 1, Num(1)), Var("key", "k", 1, Bin(ADD, Num(1), Num(0))), Var("global", "a", 2, Num(0))>>
Rendering(list) == Source(MCVars, <<Set("g", Bin(ADD, G, Num(1)))>>, << >>, list)

\* How operators group.
Both == {ADD, SUB, MUL, LT, EQ, AND, OR}
Grouped ==
  {Bin(p, Bin(q, G, Num(1)), Num(2)) : p \in Both, q \in Both} \cup {Bin(p, Num(2), Bin(q, G, Num(1))) : p \in Both, q \in Both}
    \cup {Bin(p, Un(NEG, G), Un(NOT, Un(NEG, Num(1)))) : p \in Both} \cup {Un(q, Bin(p, G, Num(1))) : p \in Both, q \in {NEG, NOT}}

MCSources ==
  {Source(MCVars, << >>, <<s>>, <<Color(Num(0))>>) : s \in Stmts}
    \cup {Rendering(<<s, t, Color(G)>>) : s \in Stmts, t \in Core}
    \cup {Rendering(<<s, t, Color(G)>>) : s \in Core, t \in Stmts}
    \cup {Rendering(Append(list, Color(G))) : list \in Shadows}
    \cup {Source(MCVars, << >>, << >>, first \o <<s>>) : s \in Stmts, first \in {<< >>, <<Color(Num(0))>>}}
    \cup {Source(<<Var("key", "g", 1, v)>>, << >>, << >>, <<Color(G)>>) : v \in Exprs \cup Grouped}

-----------------------------------------------------------------------------
(* Texts *)

Static == <<"type", " ", "static", "\n">>
InRender(pieces) == Static \o <<"key", " ", "var", " ", "f", "=", "1", "\n", "render", "{">> \o pieces \o <<"\n", "}">>
Of(pieces, n) == UNION {[1..m -> pieces] : m \in 0..n}
Spaced(pieces) == FlattenSeq([i \in DOMAIN pieces |-> <<pieces[i], " ">>])

\* Anything in the place of an expression or a statement, and in the place of a number.
MCFragments ==
  {InRender(<<"color", " ">> \o pieces) : pieces \in
     Of({"f", "-", "(", ")", "1", "[", "]", "\n"}, 4) \cup Of({"f", "-", "!", "(", ")", "1", "\n", "="}, 3)
       \cup Of({"1", "0", ".", "e"}, 4) \cup Of({"1", ".", "e", "-", " ", "<", "&"}, 3)}

Layouts == {
  Static \o <<"\r", "\n", "\t", "render", "{", "\n", "\n", "color", " ", "min", "(", "\n", "1", ",", "\n", "2", "\n", ")", "}">>,
  InRender(Spaced(<<"color", "if", "1", "{", "2", "}", "\n", "else", "{", "1", "}">>)),
  Static \o Spaced(<<"render", "{", "if", "x", "{", "color", "1", "}", "\n", "else", "{", "color", "2", "}", "}">>),
  Static \o Spaced(<<"render", "{", "if", "x", "{", "color", "1", "}", "else", "if", "y", "{", "}", "}">>),
  Static \o Spaced(<<"render", "{", "for", "i", "in", "0", ".", ".", "1", "{", "}", "color", "1", "}">>),
  Static \o Spaced(<<"render", "{", "let", "x", "1", "=", "2", "color", "x", "1", "}">>),
  Static \o <<"render", "{", "let", " ", "t", "1", "=", "2", "color", " ", "t", "1", "}">>}
Mistakes == {
  << >>, <<"\n">>, Spaced(<<"render", "{", "color", "1", "}">>), Static, Static \o Static, Spaced(<<"type", "g">>), Spaced(<<"type", "1">>),
  Static \o Spaced(<<"render", "{", "color", "1", "}", "\n", "render", "{", "}">>), Static \o Spaced(<<"render", "{", "color", "1">>),
  Static \o Spaced(<<"init", "{", "}", "update", "{", "let", "1", "}">>), Static \o Spaced(<<"global", "let", "g", "=", "1">>),
  Static \o Spaced(<<"key", "var", "k", "[", "0", "]", "=", "1">>), Static \o Spaced(<<"key", "var", "k", "[", "g", "]", "=", "1">>),
  Static \o Spaced(<<"global", "var", "g", "[", "2", "]", "render", "{", "}">>), Static \o Spaced(<<"global", "var", "1">>),
  Static \o Spaced(<<"render", "{", "color", "min", "(", "1", ",", ")", "}">>), Static \o Spaced(<<"render", "{", "for", "1", "in">>),
  Static \o <<"let">>, Static \o <<"global">>, Static \o <<"key", " ", "var">>, Static \o <<"&", "#", "g">>}

Programs == {ProgramText(Animation(Source(MCVars, << >>, <<s>>, <<Color(G)>>))) : s \in Stmts}
MCTexts == Layouts \cup Mistakes \cup Programs \cup {<<w>> : w \in MCWords}
=============================================================================
