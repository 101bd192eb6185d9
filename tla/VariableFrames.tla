--------------------------- MODULE VariableFrames ---------------------------
(***************************************************************************)
(* The contexts, the temporary environment and what trap handlers set      *)
(* aside, as the frames of DynamicScoping.                                 *)
(***************************************************************************)
EXTENDS VariableScopes

CONSTANTS Absent, Unset, Unknown

BoundIn(table, n) ==
  IF table[n] = <<>> THEN Absent
  ELSE IF Len(table[n]) > 1 THEN Unknown
  ELSE IF table[n][1].value = NoValue THEN Unset
  ELSE table[n][1].value

\* A global variable without a value is none, and its attributes do not count.
Value(b) == IF b = Unset THEN Absent ELSE b
WithAll(table, as) == {n \in Names : Len(table[n]) = 1 /\ as \subseteq table[n][1].attributes}

Pending(table) == [n \in Names |-> BoundIn(table, n)]
NothingPending == [n \in Names |-> Absent]

FrameOf(table, kind) ==
  [kind |-> kind, bound |-> Pending(table), given |-> WithAll(table, {"tempvar"}),
   locals |-> WithAll(table, {"local"}), kept |-> WithAll(table, {"tempvar", "propagate"}),
   aside |-> NothingPending]

MarkOf(c) ==
  [kind |-> "mark", bound |-> NothingPending, given |-> {}, locals |-> {}, kept |-> {},
   aside |-> IF c.kind = "handler" THEN Pending(c.temporary_env) ELSE NothingPending]

Bottom ==
  [kind |-> "global", bound |-> [n \in Names |-> Value(BoundIn(s.contexts[Global(s)].table, n))],
   given |-> {}, locals |-> {}, kept |-> {}, aside |-> NothingPending]

\* Every active call, and the global context, is a frame.
Frames ==
  Append([k \in DOMAIN calls |->
            IF Pushing(calls[k]) THEN FrameOf(s.contexts[ContextOf(k)].table, calls[k].kind)
            ELSE MarkOf(calls[k])],
         Bottom)

D == INSTANCE DynamicScoping WITH frames <- Frames, pending <- Pending(s.temporary_env)

\* A name has the value that the innermost call which binds it gave it, whatever
\* commands, declarations and unsets run, through nested functions, evals and
\* trap handlers and through every way of leaving them; the bindings of a call
\* end with it, save those its caller gave it and that were exported in it.
IsDynamicScoping == D!Spec
==============================================================================
