----------------------------- MODULE LumiFloat ------------------------------
(***************************************************************************)
(* The 32-bit cells of Lumi programs and what the machine does with them.  *)
(*                                                                         *)
(* A cell is read as an IEEE float or as a packed colour.  The values, the *)
(* float comparisons, the arithmetic and the math library are parameters:  *)
(* they belong to the C implementation.  The control the machine puts      *)
(* around them is written out: a zero divisor gives zero, comparisons and  *)
(* logic give 0 or 1, clamping and the minimum go by float comparisons.    *)
(***************************************************************************)
EXTENDS LumiBytecode

CONSTANTS
  Cell,             \* the values of a cell
  Zero, One,        \* the cells holding 0.0f and 1.0f
  FEq(_, _),        \* float ==
  FLess(_, _),      \* float <
  FArith(_, _, _),  \* FArith(op, a, b): the float arithmetic of ADD .. MOD
  FNeg(_),          \* float negation
  FBuiltin(_, _)    \* FBuiltin(id, args): the math library and colour packing

ASSUME CellAssumption ==
  /\ Zero \in Cell /\ One \in Cell
  /\ \A a, b \in Cell :
       /\ FEq(a, b) \in BOOLEAN /\ FLess(a, b) \in BOOLEAN
       /\ FNeg(a) \in Cell
       /\ \A op \in ArithOp : FArith(op, a, b) \in Cell

\* A builtin is applied to the four cells of args, of which it reads its own.
ASSUME BuiltinAssumption ==
  \A id \in BuiltinId : \A args \in [1..4 -> Cell] : FBuiltin(id, args) \in Cell

\* is_truthy: a NaN is truthy.
Truthy(c) == ~FEq(c, Zero)
Truth(b) == IF b THEN One ELSE Zero

BinaryResult(op, a, b) ==
  CASE op \in ArithOp -> IF op \in {DIV, MOD} /\ FEq(b, Zero) THEN Zero ELSE FArith(op, a, b)
    [] op = EQ -> Truth(FEq(a, b))
    [] op = NE -> Truth(~FEq(a, b))
    [] op = LT -> Truth(FLess(a, b))
    [] op = LE -> Truth(FLess(a, b) \/ FEq(a, b))
    [] op = GT -> Truth(FLess(b, a))
    [] op = GE -> Truth(FLess(b, a) \/ FEq(b, a))
    [] op = AND -> Truth(Truthy(a) /\ Truthy(b))
    [] op = OR -> Truth(Truthy(a) \/ Truthy(b))

UnaryResult(op, a) == IF op = NEG THEN FNeg(a) ELSE Truth(~Truthy(a))

Clamp(x, lo, hi) ==
  LET raised == IF FLess(x, lo) THEN lo ELSE x
  IN  IF FLess(hi, raised) THEN hi ELSE raised

\* The value of a builtin other than rand.
BuiltinResult(id, args) ==
  CASE id = BUILTIN_CLAMP -> Clamp(args[1], args[2], args[3])
    [] id = BUILTIN_MIN -> IF FLess(args[1], args[2]) THEN args[1] ELSE args[2]
    [] id = BUILTIN_MAX -> IF FLess(args[2], args[1]) THEN args[1] ELSE args[2]
    [] id \in BuiltinId \ {BUILTIN_CLAMP, BUILTIN_MIN, BUILTIN_MAX} -> FBuiltin(id, args)

\* The one argument a builtin refuses.
SqrtDomain(id, args) == id = BUILTIN_SQRT /\ FLess(args[1], Zero)
=============================================================================
