------------------------------- MODULE MCMath -------------------------------
(***************************************************************************)
(* Sessions of a few lines of every kind, typed in every order; and, after *)
(* "x = 2" as the first line and with y never bound, every sequence of a   *)
(* few tokens, the operators of all levels in pairs, and summations.       *)
(***************************************************************************)
EXTENDS MathSession

CONSTANTS Words5, Words3,  \* what lines of up to five and up to three tokens are made of
          Numbers          \* the numbers of those of up to three

Words(S, n) == UNION {[1..k -> S] : k \in 1..n}
Tokens(S) == {T(t) : t \in S}
Operands == {NUM(n) : n \in Numbers} \cup {ID("x"), ID("y")}
Binary == Tokens(UNION {Operators[l] : l \in 1..Levels})

XIs(e) == <<ID("x"), T("ASSIGN")>> \o e
SumLine(lo, up, body) == <<T("KW_SUM"), ID("y"), T("KW_OVER")>> \o lo
                         \o <<T("RANGE")>> \o up \o <<T("KW_IN")>> \o body

EveryKind ==
  { XIs(<<NUM(2)>>), XIs(<<ID("x"), T("PLUS"), NUM(1)>>), XIs(<<ID("y")>>),
    XIs(<<NUM(1), T("DIVIDE"), NUM(0)>>), XIs(<<NUM(1), T("RPAREN")>>),
    <<ID("y"), T("ASSIGN"), ID("x")>>, <<ID("y"), T("ASSIGN"), ID("y")>>,
    <<ID("x"), T("MULTIPLY"), ID("y")>>, <<ID("z"), T("ILLEGAL"), ID("x")>>,
    <<T("KW_HELP")>>, <<T("KW_SUM"), NUM(3)>>,
    SumLine(<<NUM(1)>>, <<ID("x")>>, <<ID("y"), T("MULTIPLY"), ID("x")>>),
    SumLine(<<NUM(0)>>, <<NUM(2)>>, <<NUM(1), T("DIVIDE"), ID("y")>>) }

Flat == {<<a, p, b, q, c>> : a \in {NUM(3), ID("x")}, b \in {NUM(0), ID("x")},
                             c \in {NUM(3), ID("y")}, p \in Binary, q \in Binary}

Low == {<<NUM(0)>>, <<T("MINUS"), NUM(3)>>, <<ID("x"), T("DIVIDE"), NUM(0)>>}
High == {<<ID("x")>>, <<T("MINUS"), NUM(3)>>, <<NUM(3), T("MINUS")>>, <<ID("y")>>}
Bodies == Words(Tokens({"MINUS", "MULTIPLY", "LPAREN", "RPAREN"}) \cup {ID("x"), ID("y")}, 3)
          \cup {<<NUM(3), T("DIVIDE"), ID("y")>>}

Generated == Words(Tokens(Words5) \cup (Operands \ {NUM(3)}), 5)
             \cup Words(Tokens(Words3) \cup Operands, 3)
             \cup Flat \cup {SumLine(lo, up, b) : lo \in Low, up \in High, b \in Bodies}

MCLines(k, last) ==
  IF last \notin EveryKind \cup {<<>>} THEN {}
  ELSE EveryKind \cup (IF k = 2 /\ last = XIs(<<NUM(2)>>) THEN Generated ELSE {})
=============================================================================
