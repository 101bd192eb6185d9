----------------------------- MODULE MathGrammar -----------------------------
(***************************************************************************)
(* What a line means by the grammar that the head comment of mp_parser.c   *)
(* gives and the help text prints, each nonterminal being the set of the   *)
(* values its derivations of a span of tokens have: no index moves, no     *)
(* token is consumed, and nothing is decided by looking ahead.  A value is *)
(* <<v>>, or <<>> where a derivation divides by zero, reads a name env     *)
(* gives no value, or leaves C's arithmetic.  `**` is raising to a power,  *)
(* as README.md lists it among the operators.                              *)
(***************************************************************************)
EXTENDS MathArith, TLC, FiniteSets

Defined(c) == c # <<>>
Lift(F(_, _), a, b) == IF Defined(a) /\ Defined(b) THEN F(a[1], b[1]) ELSE <<>>
Pairs(F(_, _), A, B) == {Lift(F, p[1], p[2]) : p \in A \X B}

Minus(c) == IF Defined(c) THEN Checked(-c[1]) ELSE <<>>
RECURSIVE Raised(_, _)
Raised(b, e) == IF e = 0 THEN <<1>>
                ELSE IF e < 0 THEN <<>>
                ELSE LET c == Raised(b, e - 1) IN IF c = <<>> THEN c ELSE Checked(b * c[1])
Power(b, e) == Raised(b, e)

Is(toks, i, types) == toks[i].type \in types
Sign == {"PLUS", "MINUS"}
Negative(toks, i, j) == Cardinality({k \in i..j : Is(toks, k, {"MINUS"})}) % 2 = 1

RECURSIVE Values(_, _, _, _, _)

\* Factor -> LPAREN Exp RPAREN | {(PLUS | MINUS)} Numeric | LValue
Factor(toks, env, i, j) ==
  UNION { IF i + 1 < j /\ Is(toks, i, {"LPAREN"}) /\ Is(toks, j, {"RPAREN"})
          THEN Values(1, toks, env, i + 1, j - 1) ELSE {},
          IF Is(toks, j, {"NUMERIC"}) /\ \A k \in i..(j - 1) : Is(toks, k, Sign)
          THEN {IF Negative(toks, i, j) THEN <<-toks[j].val>> ELSE <<toks[j].val>>} ELSE {},
          IF i = j /\ Is(toks, i, {"IDENTIFIER"})
          THEN {IF toks[i].lvalue \in DOMAIN env THEN <<env[toks[i].lvalue]>> ELSE <<>>}
          ELSE {} }

\* Exponent -> Factor [EXPONENTIAL Factor]
Exponent(toks, env, i, j) ==
  Factor(toks, env, i, j) \cup
  UNION {Pairs(Power, Factor(toks, env, i, k - 1), Factor(toks, env, k + 1, j)) :
         k \in {k \in (i + 1)..(j - 1) : Is(toks, k, {"EXPONENTIATE"})}}

\* The levels BitwiseOr, ..., Term: X -> Y {op Y}, grouping to the left; Arith
\* may begin with a sign.
Operand(level, toks, env, i, j) ==
  IF level = Levels THEN Exponent(toks, env, i, j)
  ELSE Values(level + 1, toks, env, i, j)

Values(level, toks, env, i, j) ==
  IF i > j THEN {} ELSE
  UNION { Operand(level, toks, env, i, j),
          IF level # SignLevel \/ i = j THEN {}
          ELSE IF Is(toks, i, {"PLUS"}) THEN Operand(level, toks, env, i + 1, j)
          ELSE IF Is(toks, i, {"MINUS"})
          THEN {Minus(c) : c \in Operand(level, toks, env, i + 1, j)} ELSE {},
          UNION { LET op(a, b) == Apply(toks[k].type, a, b)
                  IN  Pairs(op, Values(level, toks, env, i, k - 1),
                                Operand(level, toks, env, k + 1, j)) :
                  k \in {k \in (i + 1)..(j - 1) : Is(toks, k, Operators[level])} } }

Exp(toks, env, i, j) == Values(1, toks, env, i, j)

Bind(env, n, v) == (n :> v) @@ env

\* Assignment -> LValue ASSIGN Exp
IsAssignment(toks) == Len(toks) > 2 /\ Is(toks, 1, {"IDENTIFIER"}) /\ Is(toks, 2, {"ASSIGN"})

\* Summation -> KW_SUM LValue KW_OVER Exp RANGE Exp KW_IN Exp
IsSummation(toks) == /\ Len(toks) > 7
                     /\ Is(toks, 1, {"KW_SUM"}) /\ Is(toks, 2, {"IDENTIFIER"})
                     /\ Is(toks, 3, {"KW_OVER"})

\* The target of a line that binds one.
Target(toks) == IF IsAssignment(toks) THEN {toks[1].lvalue}
                ELSE IF IsSummation(toks) THEN {toks[2].lvalue} ELSE {}

Meaning(v, env) == [val |-> v, env |-> env]

\* The sum of the body for the target from lower to upper, and at lower alone
\* when the range is reversed.
RECURSIVE Sums(_, _, _, _, _, _)
Sums(toks, env, i, n, lower, upper) ==
  LET last == Exp(toks, Bind(env, n, upper), i, Len(toks))
      Sum(a, b) == Checked(a + b)
  IN  IF upper <= lower THEN Exp(toks, Bind(env, n, lower), i, Len(toks))
      ELSE Pairs(Sum, Sums(toks, env, i, n, lower, upper - 1), last)

SummationMeanings(toks, env) ==
  LET n == toks[2].lvalue
      Splits == {s \in (5..Len(toks)) \X (7..Len(toks)) :
                   /\ s[1] < s[2] /\ Is(toks, s[1], {"RANGE"}) /\ Is(toks, s[2], {"KW_IN"})}
      Of(s, lo, up) ==
        IF Defined(lo) /\ Defined(up)
        THEN {Meaning(c, Bind(env, n, IF up[1] < lo[1] THEN lo[1] ELSE up[1])) :
              c \in Sums(toks, env, s[2] + 1, n, lo[1], up[1])}
        ELSE {Meaning(<<>>, env) : c \in Exp(toks, Bind(env, n, 0), s[2] + 1, Len(toks))}
  IN  UNION {UNION {Of(s, b[1], b[2]) : b \in Exp(toks, env, 4, s[1] - 1) \X
                                              Exp(toks, env, s[1] + 1, s[2] - 1)} :
             s \in Splits}

\* Block -> Assignment | Summation | Exp
Meanings(toks, env) ==
  UNION { {Meaning(c, env) : c \in Exp(toks, env, 1, Len(toks))},
          IF IsAssignment(toks)
          THEN {Meaning(c, IF Defined(c) THEN Bind(env, toks[1].lvalue, c[1]) ELSE env) :
                c \in Exp(toks, env, 3, Len(toks))} ELSE {},
          IF IsSummation(toks) THEN SummationMeanings(toks, env) ELSE {} }
==============================================================================
