------------------------------ MODULE MathArith ------------------------------
(***************************************************************************)
(* The C arithmetic the expression evaluator of BashMath is built on: long *)
(* long values of Width bits and int values of IntWidth bits.  What C      *)
(* leaves undefined (signed overflow, a shift by a negative count or past  *)
(* the width, a left shift of a negative value) has no value: an operation *)
(* returns <<v>>, or <<>> when it has none.                                *)
(***************************************************************************)
EXTENDS Integers, Sequences, Bitwise

CONSTANTS Width,      \* bits of a long long, small in the model
          IntWidth    \* bits of an int

ASSUME WidthAssumption == /\ Width \in Nat /\ IntWidth \in Nat
                          /\ 1 < IntWidth /\ IntWidth <= Width

\* The values of w bits, read as unsigned and as two's complement numbers.
Unsigned(v, w) == v % 2^w
TwosComplement(u, w) == IF u < 2^(w - 1) THEN u ELSE u - 2^w

Representable(v) == -(2^(Width - 1)) <= v /\ v < 2^(Width - 1)
Checked(v) == IF Representable(v) THEN <<v>> ELSE <<>>

\* The conversion of a long long to an int keeps the low bits.
ToInt(v) == TwosComplement(Unsigned(v, IntWidth), IntWidth)

Magnitude(a) == IF a < 0 THEN -a ELSE a

\* C's division rounds toward zero; TLA+'s rounds down.
Quotient(a, b) == LET q == Magnitude(a) \div Magnitude(b)
                  IN  IF (a < 0) = (b < 0) THEN q ELSE -q

BitOr(x, y) == x | y
BitXor(x, y) == x ^^ y
BitAnd(x, y) == x & y
OnBits(Op(_, _), a, b) ==
  TwosComplement(Op(Unsigned(a, Width), Unsigned(b, Width)), Width)

ShiftCount(b) == b >= 0 /\ b < Width

\* The value of "a op b" for the operators of the grammar but `**`.
Apply(op, a, b) ==
  CASE op = "BIT_OR"   -> <<OnBits(BitOr, a, b)>>
    [] op = "BIT_XOR"  -> <<OnBits(BitXor, a, b)>>
    [] op = "BIT_AND"  -> <<OnBits(BitAnd, a, b)>>
    [] op = "LSHIFT"   -> IF a >= 0 /\ ShiftCount(b) THEN Checked(a * 2^b) ELSE <<>>
    [] op = "RSHIFT"   -> IF ShiftCount(b) THEN <<a \div 2^b>> ELSE <<>>
    [] op = "PLUS"     -> Checked(a + b)
    [] op = "MINUS"    -> Checked(a - b)
    [] op = "MULTIPLY" -> Checked(a * b)
    [] op = "DIVIDE"   -> IF b = 0 THEN <<>> ELSE Checked(Quotient(a, b))
    [] op = "MODULUS"  -> IF b = 0 THEN <<>> ELSE <<a - b * Quotient(a, b)>>

\* The operators of each level of the grammar, the loosest binding first.
Operators == << {"BIT_OR"}, {"BIT_XOR"}, {"BIT_AND"}, {"LSHIFT", "RSHIFT"},
                {"PLUS", "MINUS"}, {"MULTIPLY", "DIVIDE", "MODULUS"} >>
SignLevel == 5
Levels == Len(Operators)
==============================================================================
