----------------------------- MODULE MathScanner -----------------------------
(***************************************************************************)
(* The scanner of BashMath: mp_scanner.c, get_identifier_token() and the   *)
(* scanning loop of handle_expression().  The text of a line is a sequence *)
(* of characters; what follows it in the cleared buffer is NUL, which is   *)
(* also ENDOFFILE.                                                         *)
(***************************************************************************)
EXTENDS Integers, Sequences, FiniteSets

CONSTANTS Texts,            \* the lines that may be scanned
          MAX_IDENT_LENGTH,
          Decimal, HexLetters, OtherLetters    \* the characters the lines use

VARIABLES text,   \* buffer
          pos,    \* buff_idx, counted from 1
          ch,     \* nextCh
          toks    \* token_stream

vars == <<text, pos, ch, toks>>

NUL == "NUL"
Letters == HexLetters \cup OtherLetters
Digit == [c \in Decimal \cup HexLetters |->
            CASE c = "0" -> 0 [] c = "1" -> 1 [] c = "7" -> 7 [] c = "8" -> 8
              [] c = "a" -> 10 [] c = "b" -> 11]

Char(t, i) == IF i <= Len(t) THEN t[i] ELSE NUL

\* The scanner between two characters: the index and the character it holds.
At(i, c) == [idx |-> i, ch |-> c]

\* The first index from i on that is not a space.
RECURSIVE SkipSpaces(_, _)
SkipSpaces(t, i) == IF Char(t, i) = " " THEN SkipSpaces(t, i + 1) ELSE i

AtEnd(t, s) == s.idx = Len(t) + 2

\* Mutant: spaces are characters like any other.
GetNextCharOrSpace(t, s) ==
  IF AtEnd(t, s) THEN At(s.idx, NUL) ELSE At(s.idx + 1, Char(t, s.idx))
\* Mutant: the end of the buffer is not looked for.
GetNextCharUnbounded(t, s) == LET i == SkipSpaces(t, s.idx) IN At(i + 1, Char(t, i))

\* get_next_char(), which passes over spaces wherever it is called.
GetNextChar(t, s) ==
  IF AtEnd(t, s) THEN At(s.idx, NUL)
  ELSE LET i == SkipSpaces(t, s.idx) IN At(i + 1, Char(t, i))

\* What get_next_char_report_whitespace() adds to it.
SkippedWhitespace(t, s) == ~AtEnd(t, s) /\ Char(t, s.idx) = " "

Read(s, tok) == [s |-> s, tok |-> tok]
Token(t) == [type |-> t, val |-> 0, lvalue |-> <<>>]
Number(v) == [Token("NUMERIC") EXCEPT !.val = v]

Keyword(word) ==
  CASE word = <<"s", "u", "m">>      -> "KW_SUM"
    [] word = <<"o", "v", "e", "r">> -> "KW_OVER"
    [] word = <<"i", "n">>           -> "KW_IN"
    [] word = <<"h", "e", "l", "p">> -> "KW_HELP"
    [] OTHER                         -> "IDENTIFIER"

Word(word) == [Token(Keyword(word)) EXCEPT !.lvalue = word]

\* get_identifier_token(): letters up to white space, a character that is not
\* a letter, or the length an identifier may have.
RECURSIVE Identifier(_, _, _)
Identifier(t, s, word) ==
  LET n == GetNextChar(t, s)
      w == Append(word, s.ch)
  IN  IF n.ch \in Letters /\ ~SkippedWhitespace(t, s) /\ Len(w) < MAX_IDENT_LENGTH
      THEN Identifier(t, n, w) ELSE Read(n, Word(w))

\* Mutant: only decimal digits continue a number.
LegalDecimal(c, base) == c \in Decimal

LegalNumeric(c, base) == c \in Decimal \/ (base = 16 /\ c \in HexLetters)

\* strtoll(): the digits of the base that number begins with; a leading 0
\* means octal where no base is given.
RECURSIVE Positional(_, _, _)
Positional(number, base, acc) ==
  IF number = <<>> \/ number[1] \notin DOMAIN Digit THEN acc
  ELSE IF Digit[number[1]] >= base THEN acc
  ELSE Positional(Tail(number), base, base * acc + Digit[number[1]])

StrToLL(number, base) ==
  LET b == IF base # 0 THEN base ELSE IF number[1] = "0" THEN 8 ELSE 10
  IN  IF number[1] = "+" THEN Positional(Tail(number), b, 0)
      ELSE IF number[1] = "-" THEN -Positional(Tail(number), b, 0)
      ELSE Positional(number, b, 0)

RECURSIVE Digits(_, _, _, _)
Digits(t, s, base, number) ==
  IF LegalNumeric(s.ch, base) THEN Digits(t, GetNextChar(t, s), base, Append(number, s.ch))
  ELSE Read(s, Number(StrToLL(number, base)))

\* The two characters after a prefix, whatever they are: the first is taken to
\* be a digit.
AfterPrefix(t, s) == LET first == GetNextChar(t, s)
                     IN  [c |-> first.ch, s |-> GetNextChar(t, first)]

GetNumericalValue(t, s) ==
  LET n   == [c |-> s.ch, s |-> GetNextChar(t, s)]
      bin == n.c = "0" /\ n.s.ch = "b"
      d   == IF bin THEN AfterPrefix(t, n.s) ELSE n
      hex == d.c = "0" /\ d.s.ch \in {"x", "X"}
      e   == IF hex THEN AfterPrefix(t, d.s) ELSE d
      base == IF hex THEN 16 ELSE IF bin THEN 2 ELSE 0
  IN  Digits(t, e.s, base, <<e.c>>)

Single == [c \in {"/", "%", "+", "-", "(", ")", "^", "&", "|", "="} |->
             CASE c = "/" -> "DIVIDE" [] c = "%" -> "MODULUS" [] c = "+" -> "PLUS"
               [] c = "-" -> "MINUS" [] c = "(" -> "LPAREN" [] c = ")" -> "RPAREN"
               [] c = "^" -> "BIT_XOR" [] c = "&" -> "BIT_AND" [] c = "|" -> "BIT_OR"
               [] c = "=" -> "ASSIGN"]

\* The operator that begins with s.ch, n being the scanner one character on.
Operator(t, s, n) ==
  LET doubled == n.ch = s.ch
      m == GetNextChar(t, n)
  IN  CASE s.ch = "*" -> IF doubled THEN Read(m, Token("EXPONENTIATE"))
                                    ELSE Read(n, Token("MULTIPLY"))
        [] s.ch = ">" /\ doubled -> Read(m, Token("RSHIFT"))
        [] s.ch = "<" /\ doubled -> Read(m, Token("LSHIFT"))
        [] s.ch = "." /\ doubled -> IF m.ch = "." THEN Read(GetNextChar(t, m), Token("RANGE"))
                                                  ELSE Read(m, Token("ILLEGAL"))
        [] s.ch \in DOMAIN Single -> Read(n, Token(Single[s.ch]))
        [] OTHER -> Read(n, Token("ILLEGAL"))

\* next(): one token.
NextToken(t, s) ==
  IF s.ch = NUL THEN Read(s, Token("ENDOFFILE"))
  ELSE IF s.ch \in Letters THEN Identifier(t, s, <<>>)
  ELSE IF s.ch \in Decimal THEN GetNumericalValue(t, s)
  ELSE Operator(t, s, GetNextChar(t, s))

Start(t) == GetNextChar(t, At(1, NUL))

------------------------------------------------------------------------------

Init == /\ text \in Texts
        /\ pos = Start(text).idx /\ ch = Start(text).ch
        /\ toks = <<>>

Done == toks # <<>> /\ toks[Len(toks)].type \in {"ENDOFFILE", "ILLEGAL"}

\* One turn of the scanning loop of handle_expression().
ScanToken == /\ ~Done
             /\ LET r == NextToken(text, At(pos, ch))
                IN  pos' = r.s.idx /\ ch' = r.s.ch /\ toks' = Append(toks, r.tok)
             /\ UNCHANGED text

Next == ScanToken

Spec == Init /\ [][Next]_vars
==============================================================================
