--------------------------- MODULE DynamicScoping ---------------------------
(***************************************************************************)
(* What the variables promise: dynamic scoping.  Each call is a frame that *)
(* binds a name at most once; the innermost frame that binds it counts,    *)
(* and a frame takes its bindings away with it, except those its caller    *)
(* gave it that were exported since: they go to the frame below, and on    *)
(* from there, to the last one, which is global.                           *)
(*                                                                         *)
(*   frames  innermost first.  bound has what each name is bound to; given *)
(*           the names the caller gave values, locals those declared       *)
(*           local, kept those that outlive the frame.  A mark binds       *)
(*           nothing: an eval that was given nothing, or a trap handler,   *)
(*           which has set aside what was pending                          *)
(*   pending the values for the next command                               *)
(*                                                                         *)
(* Unknown is one exception: a name given to a declaration of itself in a  *)
(* function that has it already.                                           *)
(***************************************************************************)
EXTENDS Integers, Sequences, FiniteSetsExt

CONSTANTS Names, Values, Absent, Unset, Unknown

VARIABLES frames, pending
vars == <<frames, pending>>

Nothing == [n \in Names |-> Absent]
Frame(kind, bound, given) ==
  [kind |-> kind, bound |-> bound, given |-> given, locals |-> {}, kept |-> {}, aside |-> Nothing]
Given(p) == {n \in Names : p[n] # Absent}

Init == frames = <<Frame("global", Nothing, {})>> /\ pending = Nothing

Last(fs) == Len(fs)
Holder(fs, n) == Min({k \in DOMAIN fs : fs[k].bound[n] # Absent} \cup {Last(fs)})
Functions(fs) == {k \in DOMAIN fs : fs[k].kind = "function"}
InFunction(fs, k) == \E f \in Functions(fs) : f >= k
SameCall(fs, k) == \A f \in Functions(fs) : f >= k

\* Frame k changes what it has of n to b; what is unknown stays so.
Rebind(fs, k, n, b) == [fs EXCEPT ![k].bound[n] = IF @ = Unknown THEN Unknown ELSE b]
Write(fs, n, b) == Rebind(fs, Holder(fs, n), n, b)

Keep(fs, k, n) ==
  [fs EXCEPT ![k].kept = @ \cup IF n \in fs[k].given THEN {n} ELSE {}]

\* The innermost frame that is no mark takes the values got.
Hand(fs, got, local) ==
  LET t == Min({k \in DOMAIN fs : fs[k].kind # "mark"})
      taken == {n \in Names : got[n] # Absent /\ fs[t].bound[n] # Unknown}
      lasting == IF t = Last(fs) THEN {} ELSE taken
  IN  [fs EXCEPT ![t].bound = [n \in Names |-> IF n \in taken THEN got[n] ELSE @[n]],
                 ![t].given = @ \cup lasting,
                 ![t].kept = @ \cup lasting,
                 ![t].locals = @ \cup (lasting \cap local)]

------------------------------------------------------------------------------
(* Commands. *)

Finish == pending' = Nothing /\ UNCHANGED frames

Assign(n, v) == frames' = Write(frames, n, v) /\ pending' = Nothing

AssignBefore(n, v) == pending' = [pending EXCEPT ![n] = v] /\ UNCHANGED frames

\* A given variable is marked to outlive the call.
Exported(fs, n) ==
  LET k == Holder(fs, n) IN IF InFunction(fs, k) THEN Keep(fs, k, n) ELSE fs

Export(n) ==
  /\ frames' = IF pending[n] # Absent THEN Write(frames, n, pending[n]) ELSE Exported(frames, n)
  /\ pending' = Nothing

ExportAssigning(n, v) ==
  /\ frames' = IF pending[n] # Absent THEN Write(frames, n, v)
                                      ELSE Exported(Write(frames, n, v), n)
  /\ pending' = Nothing

\* n becomes local to the running function where that has it, or anew with b.
MadeLocal(fs, n, b) ==
  LET f == Min(Functions(fs))
      k == Holder(fs, n)
  IN  IF pending[n] = Absent /\ SameCall(fs, k)
      THEN [fs EXCEPT ![k].locals = @ \cup IF fs[k].bound[n] = Unknown THEN {} ELSE {n}]
      ELSE IF fs[f].bound[n] = Absent
      THEN [fs EXCEPT ![f].bound[n] = b, ![f].locals = @ \cup {n}]
      ELSE [fs EXCEPT ![f].bound[n] = Unknown, ![f].given = @ \ {n},
                      ![f].kept = @ \ {n}, ![f].locals = @ \ {n}]

\* The values a new local variable may start with: one that was given, by the
\* command or by a caller, is inherited.
Inherited(n) ==
  LET k == Holder(frames, n)
  IN  IF pending[n] # Absent THEN {pending[n]}
      ELSE IF frames[k].bound[n] = Unknown THEN Values \cup {Unset}
      ELSE IF n \in frames[k].given THEN {frames[k].bound[n]} ELSE {Unset}

Local(n) ==
  /\ Functions(frames) # {}
  /\ \E b \in Inherited(n) : frames' = MadeLocal(frames, n, b)
  /\ pending' = Nothing

LocalAssigning(n, v) ==
  /\ Functions(frames) # {}
  /\ frames' = LET made == MadeLocal(frames, n, v)
               IN  IF pending[n] = Absent THEN Write(made, n, v) ELSE made
  /\ pending' = Nothing

Declare(n) ==
  LET k == Holder(frames, n)
      none == [m \in Names |-> IF m = n THEN pending[n] ELSE Absent]
  IN  /\ IF Functions(frames) # {}
         THEN \E b \in Inherited(n) :
                LET made == MadeLocal(frames, n, b)
                IN  frames' = IF pending[n] = Absent /\ SameCall(frames, k)
                              THEN Keep(made, k, n) ELSE made
         ELSE frames' = IF pending[n] = Absent THEN Keep(frames, k, n)
                        ELSE Hand(Write(frames, n, pending[n]), none, {})
      /\ pending' = Nothing

\* A variable of the running function stays local to it.
UnsetFrom(fs, k, n) ==
  LET stays == n \in fs[k].locals /\ SameCall(fs, k)
  IN  [fs EXCEPT ![k].bound[n] = IF stays THEN Unset ELSE Absent, ![k].given = @ \ {n},
                 ![k].kept = @ \ {n}, ![k].locals = IF stays THEN @ ELSE @ \ {n}]

UnsetVariable(n) ==
  LET k == Holder(frames, n)
  IN  /\ IF pending[n] # Absent \/ frames[k].bound[n] = Absent THEN UNCHANGED frames
         ELSE IF frames[k].bound[n] # Unknown THEN frames' = UnsetFrom(frames, k, n)
         ELSE \E b \in Values \cup {Unset, Unknown}, roles \in SUBSET {"given", "locals", "kept"} :
                frames' = [fs \in DOMAIN frames |->
                             IF fs # k THEN frames[fs]
                             ELSE [r \in DOMAIN frames[k] |->
                                     IF r = "bound" THEN [frames[k].bound EXCEPT ![n] = b]
                                     ELSE IF r \in roles THEN frames[k][r] \cup {n}
                                     ELSE frames[k][r]]]
      /\ pending' = Nothing

\* A variable given to read is assigned and goes.
Read(n, v) == IF pending[n] # Absent THEN Finish ELSE Assign(n, v)

------------------------------------------------------------------------------
(* Calls. *)

Push(frame) == frames' = <<frame>> \o frames /\ pending' = Nothing

CallFunction == Push(Frame("function", pending, Given(pending)))
CallEval == Push(IF pending = Nothing THEN Frame("mark", Nothing, {})
                                      ELSE Frame("eval", pending, Given(pending)))
EnterHandler == Push([Frame("mark", Nothing, {}) EXCEPT !.aside = pending])

\* What is pending when a call is left by an error stays pending.
Leave ==
  LET frame == Head(frames)
      mayGive(n) == IF frame.bound[n] = Unknown THEN Values \cup {Absent}
                    ELSE IF n \in frame.kept THEN {frame.bound[n]} ELSE {Absent}
      unknown == {n \in Names : frame.bound[n] = Unknown}
  IN  /\ Len(frames) > 1
      /\ \E got \in [Names -> Values \cup {Absent}], extra \in SUBSET unknown :
           /\ \A n \in Names : got[n] \in mayGive(n)
           /\ frames' = Hand(Tail(frames), got, frame.locals \cup extra)
      /\ pending' \in {pending, Nothing, frame.aside}

------------------------------------------------------------------------------
Next ==
  \/ Finish \/ CallFunction \/ CallEval \/ EnterHandler \/ Leave
  \/ \E n \in Names :
       \/ Export(n) \/ Local(n) \/ Declare(n) \/ UnsetVariable(n)
       \/ \E v \in Values :
            \/ Assign(n, v) \/ AssignBefore(n, v) \/ ExportAssigning(n, v)
            \/ LocalAssigning(n, v) \/ Read(n, v)

Spec == Init /\ [][Next]_vars
==============================================================================
