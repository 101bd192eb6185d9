------------------------------ MODULE MathParser ------------------------------
(***************************************************************************)
(* The recursive-descent evaluator of BashMath: mp_parser.c, the handling  *)
(* of one expression in mp_main.c and the error functions of mp_error.c.   *)
(*                                                                         *)
(* The parsing functions share the token stream, its index and the error   *)
(* flag as C globals; here they take the machine m and return it changed,  *)
(* with the long long they return in m.val:                                *)
(*   toks   the token stream, the ENDOFFILE token included                 *)
(*   idx    token_stream_idx, counted from 1                               *)
(*   err    error_encountered                                              *)
(*   ids    the identifiers of the session, by name                        *)
(*   ub     some value of this line is undefined in C, nothing is said of  *)
(*          what the line computes from there on                           *)
(*   crash  a NULL identifier was dereferenced                             *)
(* A token's column is left out: only the text of an error shows it.       *)
(***************************************************************************)
EXTENDS MathArith, TLC

CONSTANTS Garbage,   \* the 0x80808080 a token holds until it is given a value
          Beef       \* the 0xBEEF parse_factor() starts from

NUM(v) == [type |-> "NUMERIC", val |-> v, lvalue |-> ""]
ID(n)  == [type |-> "IDENTIFIER", val |-> Garbage, lvalue |-> n]
T(t)   == [type |-> t, val |-> Garbage, lvalue |-> ""]

Peek(m) == IF m.idx <= Len(m.toks) THEN m.toks[m.idx] ELSE T("ILLEGAL")
IsMatch(m, t) == ~m.err /\ Peek(m).type = t
StopParsing(m) == [m EXCEPT !.err = TRUE]

\* match() advances over the token it expects, after an error too.
Match(m, t) == IF Peek(m).type = t THEN [m EXCEPT !.idx = @ + 1] ELSE StopParsing(m)

Return(m, v) == [m EXCEPT !.val = v]
ReturnChecked(m, c) == IF c = <<>> THEN [m EXCEPT !.ub = TRUE, !.val = 0]
                                   ELSE [m EXCEPT !.val = c[1]]

\* Mutant: a zero divisor is not reported.
CombineUnchecked(op, left, r) ==
  IF op \in {"DIVIDE", "MODULUS"} /\ r.val = 0 THEN Return(r, left)
  ELSE ReturnChecked(r, Apply(op, left, r.val))

\* "left op right", right being what the operand function returned in r.
Combine(op, left, r) ==
  IF op \in {"DIVIDE", "MODULUS"} /\ r.val = 0
  THEN StopParsing(Return(r, left))               \* div_by_zero_error()
  ELSE ReturnChecked(r, Apply(op, left, r.val))

\* `**` squares its left operand as many times as its right one says.
RECURSIVE Squared(_, _)
Squared(c, n) == IF n <= 0 \/ c = <<>> THEN c ELSE Squared(Checked(c[1] * c[1]), n - 1)

\* { (PLUS | MINUS) } before a number: the sign they add up to is left in val.
RECURSIVE Signs(_)
Signs(m) == IF IsMatch(m, "MINUS")     THEN Signs(Return(Match(m, "MINUS"), -m.val))
            ELSE IF IsMatch(m, "PLUS") THEN Signs(Match(m, "PLUS"))
            ELSE m

\* Mutant: an RPAREN ends an expression anywhere, not only after an LPAREN.
EmptyAnywhere(m) == m.idx > 1

\* "()" is accepted only directly after its "(".
EmptyParentheses(m) == m.idx > 1 /\ m.toks[m.idx - 1].type = "LPAREN"

\* The name parse_get_lvalue() copies; "" is not the name of an identifier.
LValue(m) == Peek(m).lvalue

RECURSIVE Parse(_, _), Chain(_, _)

ParseExp(m) == Parse(1, m)

Close(r) == IF IsMatch(r, "RPAREN") THEN Match(r, "RPAREN") ELSE StopParsing(r)

\* The value of the identifier that has just been matched.
ValueOf(id, r) == IF id.assigned THEN Return(r, id.val) ELSE StopParsing(Return(r, Beef))

\* The value of the next token is taken before the token is looked at.
ParseNumeric(r) == Match(ReturnChecked(r, Checked(r.val * Peek(r).val)), "NUMERIC")

ParseFactor(m) ==
  IF IsMatch(m, "LPAREN")          THEN Close(ParseExp(Match(m, "LPAREN")))
  ELSE IF IsMatch(m, "RPAREN")     THEN IF EmptyParentheses(m) THEN Return(m, 0)
                                        ELSE StopParsing(Return(m, Beef))
  ELSE IF IsMatch(m, "IDENTIFIER") THEN ValueOf(m.ids[LValue(m)], Match(m, "IDENTIFIER"))
  ELSE ParseNumeric(Signs(Return(m, 1)))

Raise(base, power) == ReturnChecked(power, Squared(<<base.val>>, ToInt(power.val)))
MayRaise(base) == IF IsMatch(base, "EXPONENTIATE")
                  THEN Raise(base, ParseFactor(Match(base, "EXPONENTIATE")))
                  ELSE base
ParseExponent(m) == MayRaise(ParseFactor(m))

Negated(r) == ReturnChecked(r, Checked(-r.val))

\* [PLUS | MINUS] Term, which only parse_arith() accepts.
ParseSigned(m) ==
  IF IsMatch(m, "MINUS") THEN Negated(Parse(SignLevel + 1, Match(m, "MINUS")))
  ELSE Parse(SignLevel + 1, IF IsMatch(m, "PLUS") THEN Match(m, "PLUS") ELSE m)

\* parse_bitwise_or() to parse_term(): one operand, then {op operand}.
Parse(level, m) ==
  IF level > Levels THEN ParseExponent(m)
  ELSE Chain(level, IF level = SignLevel THEN ParseSigned(m) ELSE Parse(level + 1, m))

OperatorNext(level, m) == ~m.err /\ Peek(m).type \in Operators[level]
Advance(m) == Match(m, Peek(m).type)

\* Mutant: the right operand takes the rest of its level.
ChainToRight(level, m) ==
  IF OperatorNext(level, m)
  THEN Combine(Peek(m).type, m.val, Parse(level, Advance(m)))
  ELSE m

Chain(level, m) ==
  IF OperatorNext(level, m)
  THEN Chain(level, Combine(Peek(m).type, m.val, Parse(level + 1, Advance(m))))
  ELSE m

------------------------------------------------------------------------------

Assign(m, name, v) == [m EXCEPT !.ids[name].val = v]
MarkAssigned(m, name) == [m EXCEPT !.ids[name].assigned = TRUE]

\* The target is marked as assigned before its value is parsed, and is given
\* the value parse_exp() returned whether or not there was an error.
Store(target, r) == Assign(r, target, r.val)
AssignTo(target, m) == Store(target, ParseExp(Match(MarkAssigned(m, target), "ASSIGN")))
ParseAssignment(m) == AssignTo(LValue(m), Match(m, "IDENTIFIER"))

\* One pass over the body of a summation, from the current token.
Accumulate(acc, r) == ReturnChecked(r, Checked(acc + r.val))
Pass(m, target, i) == Accumulate(m.val, ParseExp(Assign(m, target, i)))

Rewind(m, n) == [m EXCEPT !.idx = @ - n]

RECURSIVE Passes(_, _, _, _, _)

\* The loop of parse_summation(); one whose sum is undefined is cut short.
Passes(m, tokensInExp, target, i, upper) ==
  IF i > upper \/ m.err \/ m.ub THEN m
  ELSE Passes(Rewind(Pass(m, target, i), tokensInExp), tokensInExp, target, i + 1, upper)

\* parse_summation(), from the pass at the lower bound back to its start.
Repeat(target, lower, upper, first, tokensInExp) ==
  Rewind(Passes(Rewind(first, tokensInExp), tokensInExp, target, lower + 1, upper),
         -tokensInExp)
FirstPass(target, lower, upper, start, first) ==
  Repeat(target, lower, upper, first, first.idx - start)
Body(target, lower, upper, m) ==
  FirstPass(target, lower, upper, m.idx, Pass(Return(m, 0), target, lower))
Upper(target, lower, m) == Body(target, lower, ToInt(m.val), Match(m, "KW_IN"))
Lower(target, m) == Upper(target, ToInt(m.val), ParseExp(Match(m, "RANGE")))
SumOver(target, m) == Lower(target, ParseExp(Match(MarkAssigned(m, target), "KW_OVER")))

\* get_identifier() returns NULL for the target of a summation that has none.
ParseTarget(m) == IF Peek(m).type = "IDENTIFIER"
                  THEN SumOver(LValue(m), Match(m, "IDENTIFIER"))
                  ELSE [m EXCEPT !.crash = TRUE]
ParseSummation(m) == ParseTarget(Match(m, "KW_SUM"))

ParseBlock(m) ==
  IF IsMatch(m, "KW_SUM") THEN ParseSummation(m)
  ELSE IF IsMatch(m, "IDENTIFIER") /\ m.toks[m.idx + 1].type = "ASSIGN"
  THEN ParseAssignment(m)
  ELSE ParseExp(m)

------------------------------------------------------------------------------

Mentioned(toks) ==
  {toks[i].lvalue : i \in {j \in DOMAIN toks : toks[j].type = "IDENTIFIER"}}
Unassigned(names) == [n \in names |-> [val |-> Garbage, assigned |-> FALSE]]

\* Mutant: a name that is known already is entered anew.
ReenterIdentifiers(ids, toks) == Unassigned(Mentioned(toks)) @@ ids

\* add_identifier() for every name of the tokens scanned: a new identifier
\* enters the session unassigned, a known one stays as it is.
AddIdentifiers(ids, toks) == ids @@ Unassigned(Mentioned(toks))

\* The scanner stops at the first token it cannot read.
Scanned(line) ==
  LET bad == {i \in DOMAIN line : line[i].type = "ILLEGAL"}
  IN  IF bad = {} THEN Append(line, T("ENDOFFILE"))
      ELSE SubSeq(line, 1, CHOOSE i \in bad : \A j \in bad : i <= j)

Outcome(kind, v, ids) == [kind |-> kind, val |-> v, ids |-> ids]

Verdict(m) ==
  CASE m.crash                      -> "crash"
    [] ~m.crash /\ m.ub             -> "undefined"
    [] ~m.crash /\ ~m.ub /\ m.err   -> "error"
    [] ~m.crash /\ ~m.ub /\ ~m.err  ->
         IF m.idx = Len(m.toks) THEN "answer" ELSE "unknown sequence"

Machine(toks, ids) == [toks |-> toks, idx |-> 1, err |-> FALSE, ids |-> ids,
                       ub |-> FALSE, crash |-> FALSE, val |-> 0]
Evaluated(m) == Outcome(Verdict(m), m.val, m.ids)

\* One line: what is printed for it, and the identifiers it leaves.
Handle(known, toks) ==
  IF toks[Len(toks)].type = "ILLEGAL" \/ Len(toks) = 1 THEN Outcome("error", 0, known)
  ELSE IF toks[1].type = "KW_HELP"                      THEN Outcome("help", 0, known)
  ELSE Evaluated(ParseBlock(Machine(toks, known)))
HandleExpression(ids, line) == Handle(AddIdentifiers(ids, Scanned(line)), Scanned(line))
==============================================================================
