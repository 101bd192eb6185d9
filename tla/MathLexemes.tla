----------------------------- MODULE MathLexemes -----------------------------
(***************************************************************************)
(* What the text of a line should be cut into: the lexemes of the grammar  *)
(* at mp_parser.c:8, each as long as it can be.  The module describes      *)
(* lexemes as sets of texts; it moves no index and reads no character      *)
(* ahead.                                                                  *)
(***************************************************************************)
EXTENDS MathScanner

Over(S, w) == w # <<>> /\ \A i \in DOMAIN w : w[i] \in S
Prefixed(w, p) == Len(w) > 1 /\ w[1] = "0" /\ w[2] = p

\* Numeric -> ['0x' | '0b' | '0'] NUMBER
IsNumber(w) == \/ Over(Decimal, w)
               \/ Prefixed(w, "b") /\ Over(Decimal, SubSeq(w, 3, Len(w)))
               \/ Prefixed(w, "x") /\ Over(Decimal \cup HexLetters, SubSeq(w, 3, Len(w)))

IsWord(w) == Over(Letters, w) /\ Len(w) <= MAX_IDENT_LENGTH

Symbol == [w \in {<<c>> : c \in DOMAIN Single} |-> Single[w[1]]]
Long == [w \in {<<"*">>, <<"*", "*">>, <<"<", "<">>, <<">", ">">>, <<".", ".", ".">>} |->
           CASE w = <<"*">> -> "MULTIPLY" [] w = <<"*", "*">> -> "EXPONENTIATE"
             [] w = <<"<", "<">> -> "LSHIFT" [] w = <<">", ">">> -> "RSHIFT"
             [] w = <<".", ".", ".">> -> "RANGE"]

IsLexeme(w) == IsNumber(w) \/ IsWord(w) \/ w \in DOMAIN Symbol \cup DOMAIN Long

Base(w) == IF Prefixed(w, "x") THEN 16 ELSE IF Prefixed(w, "b") THEN 2
           ELSE IF w[1] = "0" THEN 8 ELSE 10
Numerals(w) == IF Base(w) \in {2, 16} THEN SubSeq(w, 3, Len(w)) ELSE w

\* The value of a number, by the weights of its digits.
Weight(w, i) == Digit[w[i]] * Base(w)^(Len(w) - i)
RECURSIVE Total(_, _)
Total(w, I) == IF I = {} THEN 0
               ELSE LET i == CHOOSE i \in I : TRUE IN Weight(w, i) + Total(w, I \ {i})
ValueOf(w) == Total(w, (Len(w) - Len(Numerals(w)) + 1)..Len(w))
InBase(w) == \A i \in DOMAIN Numerals(w) : Digit[Numerals(w)[i]] < Base(w)

TokenOf(w) == IF IsNumber(w) THEN Number(ValueOf(w))
              ELSE IF IsWord(w) THEN Word(w)
              ELSE Token(IF w \in DOMAIN Symbol THEN Symbol[w] ELSE Long[w])

\* The lexemes of a text without spaces, and what is left where none begins.
RECURSIVE Lexemes(_)
Lexemes(t) ==
  LET ends == {j \in DOMAIN t : IsLexeme(SubSeq(t, 1, j))}
  IN  IF ends = {} THEN <<t>>
      ELSE LET j == CHOOSE j \in ends : \A k \in ends : k <= j
           IN  <<SubSeq(t, 1, j)>> \o Lexemes(SubSeq(t, j + 1, Len(t)))

LastToken(rest) == Token(IF rest = <<>> THEN "ENDOFFILE" ELSE "ILLEGAL")
Reading(lexemes) == [i \in DOMAIN lexemes |->
                       IF i = Len(lexemes) THEN LastToken(lexemes[i]) ELSE TokenOf(lexemes[i])]

\* A text whose numbers have digits, all of their base, and where no number 0
\* is followed by what would be a prefix with it.
Documented(lexemes) ==
  \A i \in 1..(Len(lexemes) - 1) : IsNumber(lexemes[i]) =>
    /\ InBase(lexemes[i])
    /\ Numerals(lexemes[i]) = <<"0">> => lexemes[i + 1] = <<>> \/ lexemes[i + 1][1] \notin {"b", "x"}

------------------------------------------------------------------------------

TypeOK == /\ pos \in 2..(Len(text) + 2)
          /\ ch \in {NUL} \cup {text[i] : i \in DOMAIN text}
          /\ \A i \in DOMAIN toks : toks[i].val \in Int
          /\ Len(toks) <= Len(text) + 1

\* Where every number is written as the grammar says, the scanner cuts the text
\* into its longest lexemes, gives each the token it stands for and each number
\* its value, and stops at the first character no lexeme begins with.
LongestMatch ==
  Done /\ " " \notin {text[i] : i \in DOMAIN text} /\ Documented(Lexemes(text)) =>
    toks = Reading(Lexemes(text))

RECURSIVE AllTokens(_, _)
AllTokens(t, s) == LET r == NextToken(t, s)
                   IN  IF r.tok.type \in {"ENDOFFILE", "ILLEGAL"} THEN <<r.tok>>
                       ELSE <<r.tok>> \o AllTokens(t, r.s)

Without(t, i) == SubSeq(t, 1, i - 1) \o SubSeq(t, i + 1, Len(t))
Neighbours(t, i) ==
  LET left  == {j \in 1..(i - 1) : t[j] # " "}
      right == {j \in (i + 1)..Len(t) : t[j] # " "}
  IN  {t[j] : j \in {j \in left : \A k \in left : k <= j}
                    \cup {j \in right : \A k \in right : j <= k}}
BetweenLetters(t, i) == Neighbours(t, i) \subseteq Letters /\ Neighbours(t, i) # {}

\* A space means something only between two letters: anywhere else, inside a
\* number or an operator too, the line reads as it does without it.
SpacesOnlySeparateWords ==
  Done => \A i \in DOMAIN text : text[i] = " " /\ ~BetweenLetters(text, i) =>
            toks = AllTokens(Without(text, i), Start(Without(text, i)))
==============================================================================
