----------------------------- MODULE Dictionary -----------------------------
(***************************************************************************)
(* What the tables behind array variables promise: two dictionaries, one   *)
(* that is seen and one put aside, that are what the last request makes of *)
(* them, and reads that answer what was written last.                      *)
(***************************************************************************)
EXTENDS Integers, Sequences

CONSTANT ABSENT

VARIABLES
  seen, aside,  \* functions from the keys that are set to their values
  request,      \* what was asked last
  answer        \* what the last read answered

EMPTY == <<>>

Put(d, k, v) == [j \in DOMAIN d \cup {k} |-> IF j = k THEN v ELSE d[j]]
Drop(d, k) == [j \in DOMAIN d \ {k} |-> d[j]]
Get(d, k) == IF k \in DOMAIN d THEN d[k] ELSE ABSENT

\* A new key 0 comes, or the smallest goes, and the others are renumbered.
Pushed(d, v) == [j \in {0} \cup {k + 1 : k \in DOMAIN d} |-> IF j = 0 THEN v ELSE d[j - 1]]
Popped(d) == [j \in {k - 1 : k \in {m \in DOMAIN d : \E n \in DOMAIN d : n < m}} |-> d[j + 1]]

Result(d, r) ==
  CASE r.op = "put" -> Put(d, r.key, r.value)
    [] r.op = "drop" -> Drop(d, r.key)
    [] r.op = "push" -> Pushed(d, r.value)
    [] r.op = "pop" -> Popped(d)
    [] r.op = "clear" -> EMPTY
    [] OTHER -> d

Init == seen = EMPTY /\ aside = EMPTY /\ answer = ABSENT

Next ==
  LET r == request' IN
  /\ answer' = IF r.op = "get" THEN Get(seen, r.key) ELSE ABSENT
  /\ CASE r.op = "keep" -> aside' = seen /\ seen' = seen
       [] r.op = "put back" -> seen' = aside /\ aside' = EMPTY
       [] r.op = "overwrite" -> DOMAIN seen' = DOMAIN seen /\ aside' = aside
       [] OTHER -> IF r.aside THEN aside' = Result(aside, r) /\ seen' = seen
                              ELSE seen' = Result(seen, r) /\ aside' = aside

Spec == Init /\ [][Next]_<<seen, aside, request, answer>>
=============================================================================
