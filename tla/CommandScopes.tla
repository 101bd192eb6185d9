--------------------------- MODULE CommandScopes ----------------------------
(***************************************************************************)
(* What redirections promise.  A command that redirects descriptors opens  *)
(* a scope; however it ends, the descriptors it redirected are again what  *)
(* they were when it redirected them, and no other descriptor changes with *)
(* its end.  Redirections of exec outlive exec, but not the scopes around  *)
(* it that redirected the same descriptors; a descriptor the shell chooses *)
(* for {var} stays open.                                                   *)
(***************************************************************************)
EXTENDS Integers, Sequences, FiniteSetsExt

CONSTANTS Descriptors, Chosen, NOTHING

VARIABLES
  view,    \* what each descriptor refers to, for a command that runs now
  scopes   \* kind and what each redirected descriptor was, innermost last

Inner == scopes[Len(scopes)]
Around == SubSeq(scopes, 1, Len(scopes) - 1)

\* What the descriptors are once the scopes after the first n have ended: the
\* outermost of those that redirected a descriptor ends last.
Redirecting(fd, n) == {i \in n + 1 .. Len(scopes) : fd \in DOMAIN scopes[i].saved}
Back(n) ==
  [fd \in Descriptors |-> IF Redirecting(fd, n) = {} THEN view[fd]
                          ELSE scopes[Min(Redirecting(fd, n))].saved[fd]]

Init == scopes = <<>>

Open ==
  /\ Len(scopes') = Len(scopes) + 1
  /\ SubSeq(scopes', 1, Len(scopes)) = scopes
  /\ DOMAIN scopes'[Len(scopes')].saved = {}
  /\ view' = view

\* Some descriptors change; those not yet redirected in this scope are saved,
\* but not the one, if any, that the shell has chosen.
Redirect ==
  /\ scopes # <<>>
  /\ Len(scopes') = Len(scopes)
  /\ SubSeq(scopes', 1, Len(scopes) - 1) = Around
  /\ LET was == Inner.saved
         is == scopes'[Len(scopes)].saved
     IN /\ DOMAIN was \subseteq DOMAIN is
        /\ \A fd \in DOMAIN is : is[fd] = IF fd \in DOMAIN was THEN was[fd] ELSE view[fd]
        /\ \E chosen \in {{}} \cup {{fd} : fd \in {d \in Chosen : view[d] = NOTHING}} :
             \A fd \in Descriptors \ (DOMAIN is \cup chosen) : view'[fd] = view[fd]

\* The innermost scopes end.
Close ==
  \E n \in 0 .. Len(scopes) - 1 :
    /\ scopes' = SubSeq(scopes, 1, n)
    /\ view' = Back(n)

Keep ==
  /\ scopes # <<>> /\ Inner.kind = "exec"
  /\ scopes' = Around
  /\ view' = view

Next == Open \/ Redirect \/ Close \/ Keep

Spec == Init /\ [][Next]_<<view, scopes>>
=============================================================================
