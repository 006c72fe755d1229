----------------------------- MODULE MCCompiled -----------------------------
(***************************************************************************)
(* Instances of LumiCompiled: source programs that between them use every  *)
(* construct of the language and every rule of the emitter, over the cells *)
(* of MCPrograms.                                                          *)
(***************************************************************************)
EXTENDS LumiCompiled, MCPrograms

MCAsIndex(c) == IF c \in 0..2 THEN c ELSE -1
MCOfIndex(i) == Wrap(i)

G == Sym("g")
K == Sym("k")
X == Sym("x")
Dt == Sym("dt")
Pressed == Sym("pressed")
At(i) == Elem("a", i)
Rand == Fn(BUILTIN_RAND, << >>)
Sqrt(v) == Fn(BUILTIN_SQRT, <<v>>)
Plain == <<Var("global", "g", 1, Num(1)), Var("key", "k", 1, Un(NEG, Num(1)))>>
Arrays == <<Var("global", "a", 2, Num(0)), Var("global", "g", 1, Bin(ADD, Num(1), Num(0)))>>

\* Shared and per-key state, read and written by different sections.
Counting == Source(Plain,
  <<Set("g", Num(0))>>,
  <<Set("g", Bin(ADD, G, Bin(MUL, Dt, Sym("speed"))))>>,
  <<Set("k", Bin(ADD, K, G)), IfS(Pressed, <<Set("k", G)>>, << >>),
    Color(IfX(Bin(LT, K, G), K, Un(NOT, G)))>>)

\* Random numbers and failing square roots that no rule may drop.
Chancy == Source(Plain,
  <<Set("g", Bin(SUB, G, Rand)), Set("g", Bin(MUL, Num(0), Sqrt(Bin(SUB, G, Num(1)))))>>,
  <<Set("g", Bin(SUB, G, Num(1))), Set("g", Bin(AND, Num(0), Sqrt(G)))>>,
  <<Set("k", Num(2)), Let("r", Rand), Color(Bin(ADD, Sym("r"), Sqrt(Num(1)))), Set("k", Bin(MUL, Rand, Num(0))),
    IfS(Bin(GT, Rand, Num(2)), << >>, << >>), IfS(Sqrt(G), << >>, << >>), Set("k", Num(1))>>)

\* Jumps to jumps, branches of known conditions and empty branches.
Branching == Source(Plain,
  <<IfS(Num(1), <<Let("t", Num(2)), Set("g", Sym("t"))>>, <<Set("g", Num(0))>>),
    IfS(Bin(EQ, Num(1), Num(0)), <<Set("g", Num(0))>>, << >>), IfS(G, << >>, << >>)>>,
  <<IfS(Dt, <<IfS(G, <<Set("g", Num(0))>>, <<Set("g", Num(1))>>)>>,
        <<IfS(Sym("speed"), << >>, <<Set("g", Num(2))>>)>>)>>,
  <<Color(IfX(G, IfX(Pressed, Num(0), Num(1)), IfX(Num(0), Rand, Num(2))))>>)

\* A colour on every branch, at different depths.
Choosing == Source(Plain, << >>,
  <<Set("g", IfX(Dt, Num(0), G))>>,
  <<IfS(Pressed,
        <<IfS(G, <<Color(K)>>, <<IfS(K, <<Set("k", Num(1)), Color(Num(2))>>, <<Color(X)>>)>>)>>,
        <<Set("k", IfX(G, Num(0), Num(2))), Color(Num(0))>>)>>)

\* The algebraic rules of -O2, with operands that may and may not be dropped.
Algebra == Source(Plain,
  <<Set("g", Bin(ADD, Bin(MUL, G, Num(1)), Bin(MUL, G, Num(0))))>>,
  <<Set("g", Bin(ADD, Num(0), Bin(SUB, Bin(DIV, G, Num(1)), Bin(DIV, Num(0), Dt)))),
    Set("g", Bin(ADD, G, Bin(MOD, Num(0), G)))>>,
  <<Set("k", Bin(ADD, Bin(AND, Num(0), K), Bin(OR, K, Num(2)))),
    Set("k", Bin(ADD, K, Bin(AND, G, Num(0)))), Set("k", Bin(SUB, K, Bin(OR, Num(1), X))),
    Color(Bin(MUL, Num(1), Bin(ADD, K, Num(0))))>>)

\* Equal operands and the opcodes of builtins at -O3.
Sharing == Source(Plain,
  <<Set("g", Fn(BUILTIN_CLAMP, <<G, Num(0), Num(1)>>))>>,
  <<Set("g", Bin(MUL, Bin(ADD, Dt, G), Bin(ADD, Dt, G)))>>,
  <<Set("k", Fn(BUILTIN_DIST, <<X, X, X, X>>)), Set("k", Bin(ADD, Bin(SUB, K, G), Bin(SUB, K, G))),
    Color(IfX(Bin(EQ, Rand, Rand), Fn(BUILTIN_RGB, <<K, G, X>>), Fn(BUILTIN_HSV, <<G, G, Num(1)>>)))>>)

\* Stores that a later one overwrites, with and without a reader between them.
Overwriting == Source(Arrays,
  <<SetElem("a", Num(0), Num(1)), SetElem("a", Num(1), Num(2)), SetElem("a", Num(0), At(Num(1))),
    SetElem("a", Bin(SUB, Num(2), Num(1)), Num(0))>>,
  <<Set("g", Num(2)), SetElem("a", Num(0), G), Set("g", Num(0)), Set("g", Bin(ADD, G, Num(1)))>>,
  <<Set("g", Num(0)), Color(G), Set("g", Num(1)), Set("g", Rand), Set("g", Bin(MUL, X, Num(2))),
    IfS(Pressed, <<Set("g", Num(0))>>, << >>)>>)

\* Loops that run once, never, or without their variable, and names used again
\* once their scope has ended.
Unrolled == Source(Arrays,
  <<For("i", Num(0), Num(1), <<SetElem("a", Sym("i"), Bin(ADD, Sym("i"), Num(2)))>>),
    For("i", Num(1), Num(1), <<SetElem("a", Sym("i"), Rand)>>)>>,
  <<For("i", Num(0), Num(2), <<Set("g", Bin(ADD, G, Num(1))), Let("t", Dt), SetElem("a", Num(1), Sym("t"))>>),
    Let("t", Num(1)), Set("g", Bin(SUB, G, Sym("t")))>>,
  <<For("j", Num(0), Num(2), <<IfS(Pressed, <<Set("g", Rand)>>, << >>)>>), Color(At(Num(0)))>>)

\* The colour on what is left of branches of known conditions, next to colours in a branch
\* that is dropped, a loop that is unrolled and one that never runs.
Painting == Source(Plain, << >>, << >>,
  <<Set("k", Num(2)),
    IfS(Bin(LT, Num(1), Num(0)), <<Color(Num(1))>>,
        <<IfS(Num(1), <<IfS(Pressed, <<Color(K)>>, <<Set("k", Num(0)), Color(X)>>)>>, <<Color(Num(0))>>)>>),
    For("j", Num(1), Num(1), <<Color(Num(1))>>),
    For("j", Num(0), Num(2), <<IfS(K, <<Set("k", Num(1))>>, <<Color(G)>>)>>)>>)

\* A colour on one branch only, of a condition that is not known, or is, or in a loop:
\* refused at every level.
HalfPainted ==
  {Source(Plain, << >>, << >>, <<s>>) :
     s \in {IfS(Pressed, <<Color(K)>>, <<Set("k", G)>>), IfS(Num(0), <<Color(K)>>, <<Set("k", G)>>),
            For("j", Num(0), Num(0), <<Color(G)>>)}}

MCSources == HalfPainted \cup {Painting, Counting, Chancy, Branching, Choosing, Algebra, Sharing, Overwriting, Unrolled}

\* A loop whose variable has more than one value.
Summing == Source(Plain, <<For("i", Num(0), Num(2), <<Set("g", Bin(ADD, G, Sym("i")))>>)>>, << >>, <<Color(G)>>)
LoopSources == {Summing}

\* A name for a value that changes afterwards.
Keeping == Source(Plain, <<Let("t", G), Set("g", Num(2)), Set("g", Bin(SUB, G, Sym("t")))>>, << >>, <<Color(G)>>)
LetSources == {Keeping}

\* A store read through an index that has a name.
Naming == Source(Arrays,
  <<SetElem("a", Num(0), Num(2)), Let("i", Num(0)), Set("g", At(Sym("i"))), SetElem("a", Num(0), Num(1))>>,
  << >>, <<Color(G)>>)
NameSources == {Naming}
=============================================================================
