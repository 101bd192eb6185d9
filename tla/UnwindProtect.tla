--------------------------- MODULE UnwindProtect ---------------------------
(***************************************************************************)
(* unwind_prot.c: the list of cleanups that a throw to top level runs, as  *)
(* operators on a sequence whose head is the element added last.  An       *)
(* element is the beginning of a frame, which carries only its tag, or a   *)
(* call of a cleanup function with its argument.                           *)
(***************************************************************************)
EXTENDS Integers, SequencesExt

Frame(tag) == [cleanup |-> "none", arg |-> tag]
Cleanup(function, arg) == [cleanup |-> function, arg |-> arg]

IsFrame(elt, tag) == elt.cleanup = "none" /\ elt.arg = tag

begin_unwind_frame(list, tag) == <<Frame(tag)>> \o list
add_unwind_protect(list, function, arg) == <<Cleanup(function, arg)>> \o list

\* How many elements go when a frame is run or discarded: those down to the
\* last frame of that tag, or all of them if there is none.
Depth(list, tag) ==
  LET at == SelectInSeq(list, LAMBDA elt : IsFrame(elt, tag))
  IN IF at = 0 THEN Len(list) ELSE at

discard_unwind_frame(list, tag) == SubSeq(list, Depth(list, tag) + 1, Len(list))
=============================================================================
