----------------------------- MODULE MathSession -----------------------------
(***************************************************************************)
(* A session of expression lines: what shell_getc() hands to               *)
(* handle_expression(), one line after the other, the identifiers staying  *)
(* from line to line.  env is a history variable: the names that a line    *)
(* answered in the session bound, with the values the grammar gives them.  *)
(***************************************************************************)
EXTENDS MathParser, FiniteSets

CONSTANTS MaxLines,    \* bound on the lines of a session
          Lines(_, _)  \* Lines(k, last): the lines, as tokens, that may be typed as
                       \* the k-th, after the line last

ASSUME LinesAssumption == MaxLines \in Nat

VARIABLES ids,         \* the identifiers of mp_main.c, by name
          entered,     \* the last line
          before,      \* the identifiers it was typed with
          out,         \* what was printed for it
          env, known,  \* history: the values bound, and as of before the last line
          count

vars == <<ids, entered, before, out, env, known, count>>

G == INSTANCE MathGrammar

Init ==
  /\ ids = <<>> /\ before = <<>> /\ env = <<>> /\ known = <<>>
  /\ entered = <<>> /\ out = Outcome("help", 0, <<>>) /\ count = 0

\* The names a line begins to bind, whatever follows.
Aimed(line) ==
  {line[i].lvalue : i \in {j \in 1..2 : /\ j <= Len(line) /\ line[j].type = "IDENTIFIER"
                            /\ IF j = 1 THEN Len(line) > 1 /\ line[2].type = "ASSIGN"
                               ELSE line[1].type = "KW_SUM"}}

\* What a line answered with v binds by the grammar; a line that is refused
\* leaves its own target without a known value, and every other name alone.
Rebound(line, o) ==
  LET meant == {d \in G!Meanings(line, env) : o.kind = "answer" /\ d.val = <<o.val>>}
  IN  IF meant # {} THEN (CHOOSE d \in meant : TRUE).env
      ELSE [n \in DOMAIN env \ Aimed(line) |-> env[n]]

EnterLine(line) ==
  /\ out.kind # "crash"            \* the shell is gone
  /\ LET o == HandleExpression(ids, line)
     IN  /\ out' = o /\ ids' = o.ids
         /\ env' = Rebound(line, o)
  /\ entered' = line /\ before' = ids /\ known' = env
  /\ count' = count + 1

Next == count < MaxLines /\ \E line \in Lines(count + 1, entered) : EnterLine(line)

Spec == Init /\ [][Next]_vars

------------------------------------------------------------------------------

Meanings == IF count = 0 THEN {} ELSE G!Meanings(entered, known)
Meant(d) == G!Defined(d.val)

\* A line that the grammar of mp_parser.c derives, and that neither reads a name
\* nobody bound nor divides by zero, is answered with the value the grammar's
\* precedence and grouping give it, and binds its target to what it should: an
\* assignment to the value, a summation to the last number of its range.
DerivedIsAnswered ==
  Meanings # {} /\ (\A d \in Meanings : Meant(d)) =>
    /\ out.kind = "answer"
    /\ \E d \in Meanings :
         /\ d.val = <<out.val>>
         /\ \A n \in DOMAIN d.env : ids[n] = [val |-> d.env[n], assigned |-> TRUE]

\* An expression that reads a name without a value, or divides by zero, is never
\* answered, however deep in it that is and whatever follows.
UndefinedIsRefused ==
  /\ Meanings # {} /\ G!Target(entered) = {}
  /\ \A d \in Meanings : ~Meant(d)
  /\ \A n \in DOMAIN before : before[n].assigned => n \in DOMAIN known
  => out.kind # "answer"

EmptyParens(line) == \E i \in 1..(Len(line) - 1) :
                        line[i].type = "LPAREN" /\ line[i + 1].type = "RPAREN"

\* The evaluator answers no line outside the grammar but for "()", so it never
\* prints the value of half a line.
AnsweredIsDerived ==
  out.kind = "answer" => Meanings # {} \/ EmptyParens(entered)

\* A name has the value that the last answered line to bind it gave it, whatever
\* was typed, answered or refused, after that line; only a refused line that
\* begins to bind the same name may take it away.
SessionAgrees ==
  \A n \in DOMAIN env : n \in DOMAIN ids /\ ids[n] = [val |-> env[n], assigned |-> TRUE]
==============================================================================
