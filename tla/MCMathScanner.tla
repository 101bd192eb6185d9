---------------------------- MODULE MCMathScanner ----------------------------
EXTENDS MathLexemes

CONSTANTS MaxLen,      \* bound on the characters of a line
          Characters   \* what the lines are made of

AllTexts == UNION {[1..n -> Characters] : n \in 1..MaxLen}
Keywords == {<<"s", "u", "m">>, <<"i", "n">>, <<"o", "v", "e", "r">>, <<"h", "e", "l", "p">>}
\* Lines of a keyword and what may touch it.
MCTexts == AllTexts \cup {k \o t : k \in Keywords, t \in {<<>>} \cup {<<c>> : c \in Characters}}
==============================================================================
