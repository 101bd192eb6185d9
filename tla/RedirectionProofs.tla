-------------------------- MODULE RedirectionProofs --------------------------
(***************************************************************************)
(* Proofs about RedirectedCommands for every number of descriptors and     *)
(* files, every depth of commands and whatever happens at a bad moment:    *)
(* the unwind-protect list is that of the commands in progress.  Then what *)
(* one redirection does to the shell's record of descriptors, and what     *)
(* undoing a list, or the lists of several commands, does.                 *)
(***************************************************************************)
EXTENDS RedirectionScopes, NatLemmas, SequenceTheorems, FiniteSetTheorems, TLAPS

----------------------------------------------------------------------------
(* The unwind-protect list, read from the element that was added first.    *)
IsSeq(list) == \E S : list \in Seq(S)

Nth(list, h) == list[Len(list) + 1 - h]

\* v is what is left of u when it is as long as L again.
Below(v, u, L) ==
  /\ IsSeq(v) /\ L \in 0 .. Len(u) /\ Len(v) = L
  /\ \A h \in 1 .. L : Nth(v, h) = Nth(u, h)

LEMMA BelowItself ==
  ASSUME NEW u, IsSeq(u)
  PROVE  Len(u) \in Nat /\ Below(u, u, Len(u))
BY DEF IsSeq, Below

Push(x, u) == <<x>> \o u

LEMMA PushedBy ==
  /\ \A list, tag : begin_unwind_frame(list, tag) = Push(Frame(tag), list)
  /\ \A list, function, arg :
       add_unwind_protect(list, function, arg) = Push(Cleanup(function, arg), list)
BY DEF begin_unwind_frame, add_unwind_protect, Push

LEMMA Pushed ==
  ASSUME NEW u, IsSeq(u), NEW x
  PROVE  /\ IsSeq(Push(x, u)) /\ Len(Push(x, u)) = Len(u) + 1
         /\ \A h \in 1 .. Len(u) : Nth(Push(x, u), h) = Nth(u, h)
         /\ Nth(Push(x, u), Len(u) + 1) = x
<1>1. PICK T : u \in Seq(T) /\ <<x>> \in Seq(T)
  <2>1. PICK S : u \in Seq(S)
    BY DEF IsSeq
  <2>2. u \in Seq(S \cup {x}) /\ <<x>> \in Seq(S \cup {x})
    BY <2>1
  <2> QED
    BY <2>2
<1>2. PICK v : v = Push(x, u)
  OBVIOUS
<1>3. PICK t : t = <<x>>
  OBVIOUS
<1>4. t \in Seq(T) /\ Len(t) = 1 /\ t[1] = x /\ Len(u) \in Nat
  BY <1>1, <1>3
<1>5. /\ v \in Seq(T) /\ Len(v) = Len(t) + Len(u)
      /\ \A i \in 1 .. Len(t) + Len(u) : v[i] = IF i <= Len(t) THEN t[i] ELSE u[i - Len(t)]
  <2>1. v = t \o u
    BY <1>2, <1>3 DEF Push
  <2> QED
    BY <1>1, <1>3, <2>1, ConcatProperties
<1>6. Len(v) = Len(u) + 1
  BY <1>4, <1>5
<1>7. \A h \in 1 .. Len(u) : Nth(v, h) = Nth(u, h)
  <2> SUFFICES ASSUME NEW h \in 1 .. Len(u)
               PROVE  v[Len(v) + 1 - h] = u[Len(u) + 1 - h]
    BY DEF Nth
  <2>1. Len(u) + 2 - h \in 1 .. Len(t) + Len(u) /\ ~(Len(u) + 2 - h <= Len(t))
        /\ Len(u) + 2 - h - Len(t) = Len(u) + 1 - h
    BY <1>4
  <2>2. Len(v) + 1 - h = Len(u) + 2 - h
    BY <1>4, <1>6
  <2> QED
    BY <1>5, <2>1, <2>2
<1>8. Nth(v, Len(u) + 1) = x
  <2>1. Len(v) + 1 - (Len(u) + 1) = 1 /\ 1 \in 1 .. Len(t) + Len(u) /\ 1 <= Len(t)
    BY <1>4, <1>6
  <2> QED
    BY <1>4, <1>5, <2>1 DEF Nth
<1> QED
  BY <1>2, <1>5, <1>6, <1>7, <1>8 DEF IsSeq

\* discard_unwind_frame() takes what is above the last frame of that tag, and
\* the frame.
LEMMA DiscardTo ==
  ASSUME NEW u, NEW v, NEW L, IsSeq(u), Below(v, u, L), NEW tag, NEW h \in 1 .. L,
         IsFrame(Nth(u, h), tag), \A g \in h + 1 .. L : ~IsFrame(Nth(u, g), tag)
  PROVE  Below(discard_unwind_frame(v, tag), u, h - 1)
<1> DEFINE at == {i \in 1 .. Len(v) : IsFrame(v[i], tag)}
           i == L + 1 - h
<1>1. PICK S : v \in Seq(S)
  BY DEF Below, IsSeq
<1>2. L \in Nat /\ Len(v) = L /\ Len(u) \in Nat /\ L <= Len(u)
  BY DEF Below, IsSeq
<1>3. \A j \in 1 .. L : L + 1 - j \in 1 .. L /\ v[j] = Nth(u, L + 1 - j)
  <2> SUFFICES ASSUME NEW j \in 1 .. L
               PROVE  L + 1 - j \in 1 .. L /\ v[j] = Nth(u, L + 1 - j)
    OBVIOUS
  <2>1. L + 1 - j \in 1 .. L /\ L + 1 - (L + 1 - j) = j
    BY <1>2
  <2> QED
    BY <1>2, <2>1 DEF Below, Nth
<1>4. i \in 1 .. L /\ L + 1 - i = h
  BY <1>2
<1> HIDE DEF i
<1>5. i \in at /\ \A j \in at : i <= j
  <2>1. i \in at
    BY <1>2, <1>3, <1>4
  <2>2. ASSUME NEW j \in at
        PROVE  i <= j
    <3>1. IsFrame(Nth(u, L + 1 - j), tag) /\ j \in 1 .. L /\ L + 1 - j \in 1 .. L
      BY <1>2, <1>3
    <3>2. ~(L + 1 - j \in h + 1 .. L)
      BY <3>1
    <3> QED
      BY <1>2, <1>4, <3>1, <3>2
  <2> QED
    BY <2>1, <2>2
<1>6. Depth(v, tag) = i
  <2>1. at \subseteq Nat /\ at # {}
    BY <1>2, <1>5
  <2>2. Min(at) = i
    <3>1. Min(at) \in at /\ \A y \in at : Min(at) <= y
      BY <1>5 DEF Min
    <3> QED
      BY <1>5, <2>1, <3>1
  <2>3. SelectInSeq(v, LAMBDA elt : IsFrame(elt, tag)) = i
    BY <1>2, <2>1, <2>2 DEF SelectInSeq
  <2> QED
    BY <1>4, <2>3 DEF Depth
<1>7. PICK d : d = SubSeq(v, i + 1, L)
  OBVIOUS
<1>8. /\ d \in Seq(S) /\ Len(d) = h - 1
      /\ \A k \in 1 .. h - 1 : d[k] = v[i + k]
  <2>1. i + 1 \in Int /\ L \in Int /\ \A k \in i + 1 .. L : v[k] \in S
    BY <1>1, <1>2, <1>4
  <2>2. /\ d \in Seq(S) /\ Len(d) = (IF i + 1 <= L THEN L - (i + 1) + 1 ELSE 0)
        /\ \A k \in 1 .. L - (i + 1) + 1 : d[k] = v[i + 1 + k - 1]
    BY <1>7, <2>1, SubSeqProperties
  <2>3. L - (i + 1) + 1 = h - 1 /\ h - 1 \in Nat
    BY <1>2, <1>4
  <2>4. \A k \in 1 .. h - 1 : i + 1 + k - 1 = i + k
    BY <1>4
  <2>5. Len(d) = h - 1
    BY <1>2, <1>4, <2>2, <2>3
  <2> QED
    BY <2>2, <2>3, <2>4, <2>5
<1>9. \A g \in 1 .. h - 1 : Nth(d, g) = Nth(u, g)
  <2> SUFFICES ASSUME NEW g \in 1 .. h - 1
               PROVE  d[Len(d) + 1 - g] = Nth(u, g)
    BY DEF Nth
  <2>1. Len(d) = h - 1 /\ h \in Int /\ g \in Int /\ h - g \in 1 .. h - 1
    BY <1>2, <1>8
  <2>2. Len(d) + 1 - g = h - g
    BY <2>1
  <2>3. i + (h - g) \in 1 .. L /\ L + 1 - (i + (h - g)) = g
    BY <1>2, <1>4, <2>1
  <2>4. d[h - g] = v[i + (h - g)]
    BY <1>8, <2>1
  <2> QED
    BY <1>3, <2>2, <2>3, <2>4
<1>10. h - 1 \in 0 .. Len(u)
  BY <1>2
<1>11. discard_unwind_frame(v, tag) = d
  BY <1>2, <1>6, <1>7 DEF discard_unwind_frame
<1> QED
  BY <1>8, <1>9, <1>10, <1>11 DEF Below, IsSeq
----------------------------------------------------------------------------
(* What an activation has on the list, the first element added first.      *)
ProperCall(c) ==
  /\ c.kind \in Kinds /\ c.running \in BOOLEAN
  /\ c = [kind |-> c.kind, running |-> c.running,
          my_undo_list |-> c.my_undo_list, exec_undo_list |-> c.exec_undo_list]
  /\ ~c.running => c.my_undo_list = <<>> /\ c.exec_undo_list = <<>> /\ c.kind # "handler"
  /\ c.running => c.kind \notin {"exec", "null"}
  /\ c.kind = "handler" => c.my_undo_list = <<>>

Named == {"function", "builtin", "exec"}
Opened == <<Frame("simple-command"), Frame("saved_fifos")>>

Protected(c) ==
  CASE c.kind \in Named /\ ~c.running -> Opened
    [] c.kind = "handler" ->
         <<Frame("parse_and_execute_top"), Frame("pe_dispose")>>
    [] c.kind = "group" /\ c.my_undo_list # <<>> ->
         <<Frame("loop_redirections"), Cleanup("cleanup_redirects", c.my_undo_list)>>
    [] c.kind = "group" /\ c.my_undo_list = <<>> /\ c.exec_undo_list # <<>> ->
         <<Frame("loop_redirections")>>
    [] c.kind = "function" /\ c.running /\ c.my_undo_list = <<>> ->
         <<Frame("simple-command"), Frame("saved_fifos"), Frame("function_calling")>>
    [] c.kind = "function" /\ c.running /\ c.my_undo_list # <<>> ->
         <<Frame("simple-command"), Frame("saved_fifos"), Frame("saved-redirects"),
           Cleanup("cleanup_redirects", c.my_undo_list), Frame("function_calling")>>
    [] c.kind = "builtin" /\ c.running /\ c.my_undo_list = <<>> ->
         <<Frame("simple-command"), Frame("saved_fifos"),
           Frame("parse_and_execute_top"), Frame("pe_dispose")>>
    [] c.kind = "builtin" /\ c.running /\ c.my_undo_list # <<>> ->
         <<Frame("simple-command"), Frame("saved_fifos"), Frame("saved-redirects"),
           Cleanup("cleanup_redirects", c.my_undo_list),
           Frame("parse_and_execute_top"), Frame("pe_dispose")>>
    [] OTHER -> <<>>

\* Where its cleanup stands.
CleanupAt(c) == IF c.kind = "group" THEN 2 ELSE 4

LEMMA Elements ==
  /\ \A tag, other : IsFrame(Frame(tag), other) <=> tag = other
  /\ \A tag : Frame(tag).cleanup = "none"
  /\ \A list : Cleanup("cleanup_redirects", list).cleanup # "none"
  /\ \A list, tag : ~IsFrame(Cleanup("cleanup_redirects", list), tag)
BY DEF Frame, Cleanup, IsFrame

LEMMA Shapes ==
  ASSUME NEW c, ProperCall(c), NEW P, P = Protected(c)
  PROVE  /\ c.kind \in Named /\ ~c.running =>
              Len(P) = 2 /\ P[1] = Frame("simple-command") /\ P[2] = Frame("saved_fifos")
         /\ c.kind = "handler" =>
              Len(P) = 2 /\ P[1] = Frame("parse_and_execute_top")
              /\ P[2] = Frame("pe_dispose")
         /\ c.kind = "group" /\ c.my_undo_list # <<>> =>
              Len(P) = 2 /\ P[1] = Frame("loop_redirections")
              /\ P[2] = Cleanup("cleanup_redirects", c.my_undo_list)
         /\ c.kind = "group" /\ c.my_undo_list = <<>> /\ c.exec_undo_list # <<>> =>
              Len(P) = 1 /\ P[1] = Frame("loop_redirections")
         /\ c.kind = "function" /\ c.running /\ c.my_undo_list = <<>> =>
              Len(P) = 3 /\ P[1] = Frame("simple-command") /\ P[2] = Frame("saved_fifos")
              /\ P[3] = Frame("function_calling")
         /\ c.kind = "function" /\ c.running /\ c.my_undo_list # <<>> =>
              Len(P) = 5 /\ P[1] = Frame("simple-command") /\ P[2] = Frame("saved_fifos")
              /\ P[3] = Frame("saved-redirects")
              /\ P[4] = Cleanup("cleanup_redirects", c.my_undo_list)
              /\ P[5] = Frame("function_calling")
         /\ c.kind = "builtin" /\ c.running /\ c.my_undo_list = <<>> =>
              Len(P) = 4 /\ P[1] = Frame("simple-command") /\ P[2] = Frame("saved_fifos")
              /\ P[3] = Frame("parse_and_execute_top") /\ P[4] = Frame("pe_dispose")
         /\ c.kind = "builtin" /\ c.running /\ c.my_undo_list # <<>> =>
              Len(P) = 6 /\ P[1] = Frame("simple-command") /\ P[2] = Frame("saved_fifos")
              /\ P[3] = Frame("saved-redirects")
              /\ P[4] = Cleanup("cleanup_redirects", c.my_undo_list)
              /\ P[5] = Frame("parse_and_execute_top") /\ P[6] = Frame("pe_dispose")
         /\ c.kind = "null" => Len(P) = 0
         /\ c.kind = "group" /\ c.my_undo_list = <<>> /\ c.exec_undo_list = <<>> => Len(P) = 0
<1>1. CASE c.kind \in Named /\ ~c.running
  <2>1. P =
          <<Frame("simple-command"), Frame("saved_fifos")>>
    BY <1>1 DEF ProperCall, Protected, Kinds, Named, Opened
  <2> QED
    BY <1>1, <2>1 DEF ProperCall, Named
<1>2. CASE c.kind = "handler"
  <2>1. P =
          <<Frame("parse_and_execute_top"), Frame("pe_dispose")>>
    BY <1>2 DEF ProperCall, Protected, Kinds, Named, Opened
  <2> QED
    BY <1>2, <2>1 DEF ProperCall, Named
<1>3. CASE c.kind = "group" /\ c.my_undo_list # <<>>
  <2>1. P =
          <<Frame("loop_redirections"), Cleanup("cleanup_redirects", c.my_undo_list)>>
    BY <1>3 DEF ProperCall, Protected, Kinds, Named, Opened
  <2> QED
    BY <1>3, <2>1 DEF ProperCall, Named
<1>4. CASE c.kind = "group" /\ c.my_undo_list = <<>> /\ c.exec_undo_list # <<>>
  <2>1. P =
          <<Frame("loop_redirections")>>
    BY <1>4 DEF ProperCall, Protected, Kinds, Named, Opened
  <2> QED
    BY <1>4, <2>1 DEF ProperCall, Named
<1>5. CASE c.kind = "function" /\ c.running /\ c.my_undo_list = <<>>
  <2>1. P =
          <<Frame("simple-command"), Frame("saved_fifos"), Frame("function_calling")>>
    BY <1>5 DEF ProperCall, Protected, Kinds, Named, Opened
  <2> QED
    BY <1>5, <2>1 DEF ProperCall, Named
<1>6. CASE c.kind = "function" /\ c.running /\ c.my_undo_list # <<>>
  <2>1. P =
          <<Frame("simple-command"), Frame("saved_fifos"), Frame("saved-redirects"),
          Cleanup("cleanup_redirects", c.my_undo_list), Frame("function_calling")>>
    BY <1>6 DEF ProperCall, Protected, Kinds, Named, Opened
  <2> QED
    BY <1>6, <2>1 DEF ProperCall, Named
<1>7. CASE c.kind = "builtin" /\ c.running /\ c.my_undo_list = <<>>
  <2>1. P =
          <<Frame("simple-command"), Frame("saved_fifos"), Frame("parse_and_execute_top"),
          Frame("pe_dispose")>>
    BY <1>7 DEF ProperCall, Protected, Kinds, Named, Opened
  <2> QED
    BY <1>7, <2>1 DEF ProperCall, Named
<1>8. CASE c.kind = "builtin" /\ c.running /\ c.my_undo_list # <<>>
  <2>1. P =
          <<Frame("simple-command"), Frame("saved_fifos"), Frame("saved-redirects"),
          Cleanup("cleanup_redirects", c.my_undo_list), Frame("parse_and_execute_top"),
          Frame("pe_dispose")>>
    BY <1>8 DEF ProperCall, Protected, Kinds, Named, Opened
  <2> QED
    BY <1>8, <2>1 DEF ProperCall, Named
<1>9. CASE \/ c.kind = "null"
           \/ c.kind = "group" /\ c.my_undo_list = <<>> /\ c.exec_undo_list = <<>>
  <2>1. P = <<>>
    BY <1>9 DEF ProperCall, Protected, Kinds, Named
  <2> QED
    BY <1>9, <2>1 DEF Named
<1> QED
  BY <1>1, <1>2, <1>3, <1>4, <1>5, <1>6, <1>7, <1>8, <1>9 DEF ProperCall, Kinds, Named

\* Where the frames are that an end of the command discards.
LEMMA TagPlaces ==
  ASSUME NEW c, ProperCall(c), NEW P, P = Protected(c)
  PROVE  /\ Len(P) \in Nat
         /\ c.kind \in Named =>
              /\ Len(P) >= 2 /\ IsFrame(P[1], "simple-command")
              /\ \A m \in 2 .. Len(P) : ~IsFrame(P[m], "simple-command")
         /\ c.kind = "group" /\ (c.my_undo_list # <<>> \/ c.exec_undo_list # <<>>) =>
              /\ Len(P) >= 1 /\ IsFrame(P[1], "loop_redirections")
              /\ \A m \in 2 .. Len(P) : ~IsFrame(P[m], "loop_redirections")
         /\ c.kind = "function" /\ c.running =>
              Len(P) >= 3 /\ IsFrame(P[Len(P)], "function_calling")
         /\ c.kind = "builtin" /\ c.running =>
              /\ Len(P) >= 4 /\ IsFrame(P[Len(P) - 1], "parse_and_execute_top")
              /\ ~IsFrame(P[Len(P)], "parse_and_execute_top")
              /\ IsFrame(P[Len(P)], "pe_dispose") /\ P[Len(P)] = Frame("pe_dispose")
         /\ c.kind = "handler" =>
              /\ Len(P) = 2 /\ IsFrame(P[1], "parse_and_execute_top")
              /\ ~IsFrame(P[2], "parse_and_execute_top") /\ P[2] = Frame("pe_dispose")
              /\ IsFrame(P[2], "pe_dispose")
<1>1. CASE c.kind \in Named /\ ~c.running
  BY <1>1, Shapes, Elements DEF ProperCall, Named
<1>2. CASE c.kind = "handler"
  BY <1>2, Shapes, Elements DEF ProperCall, Named
<1>3. CASE c.kind = "group" /\ c.my_undo_list # <<>>
  BY <1>3, Shapes, Elements DEF ProperCall, Named
<1>4. CASE c.kind = "group" /\ c.my_undo_list = <<>> /\ c.exec_undo_list # <<>>
  BY <1>4, Shapes, Elements DEF ProperCall, Named
<1>5. CASE c.kind = "function" /\ c.running /\ c.my_undo_list = <<>>
  <2>1. Len(P) = 3 /\ P[1] = Frame("simple-command") /\ P[2] = Frame("saved_fifos")
        /\ P[3] = Frame("function_calling")
    BY <1>5, Shapes
  <2>2. \A m \in 1 .. Len(P) : m = 1 \/ m = 2 \/ m = 3
    BY <2>1
  <2>3. \A m \in 2 .. Len(P) : ~IsFrame(P[m], "simple-command")
    BY <2>1, <2>2, Elements
  <2>4. P[Len(P)] = Frame("function_calling")
    BY <2>1
  <2>5. Len(P) \in Nat /\ Len(P) >= 3
    BY <2>1
  <2> QED
    BY <1>5, <2>1, <2>3, <2>4, <2>5, Elements
<1>6. CASE c.kind = "function" /\ c.running /\ c.my_undo_list # <<>>
  <2>1. Len(P) = 5 /\ P[1] = Frame("simple-command") /\ P[2] = Frame("saved_fifos")
        /\ P[3] = Frame("saved-redirects")
        /\ P[4] = Cleanup("cleanup_redirects", c.my_undo_list)
        /\ P[5] = Frame("function_calling")
    BY <1>6, Shapes
  <2>2. \A m \in 1 .. Len(P) : m = 1 \/ m = 2 \/ m = 3 \/ m = 4 \/ m = 5
    BY <2>1
  <2>3. \A m \in 2 .. Len(P) : ~IsFrame(P[m], "simple-command")
    BY <2>1, <2>2, Elements
  <2>4. P[Len(P)] = Frame("function_calling")
    BY <2>1
  <2>5. Len(P) \in Nat /\ Len(P) >= 3
    BY <2>1
  <2> QED
    BY <1>6, <2>1, <2>3, <2>4, <2>5, Elements
<1>7. CASE c.kind = "builtin" /\ c.running /\ c.my_undo_list = <<>>
  <2>1. Len(P) = 4 /\ P[1] = Frame("simple-command") /\ P[2] = Frame("saved_fifos")
        /\ P[3] = Frame("parse_and_execute_top") /\ P[4] = Frame("pe_dispose")
    BY <1>7, Shapes
  <2>2. \A m \in 1 .. Len(P) : m = 1 \/ m = 2 \/ m = 3 \/ m = 4
    BY <2>1
  <2>3. \A m \in 2 .. Len(P) : ~IsFrame(P[m], "simple-command")
    BY <2>1, <2>2, Elements
  <2>4. P[Len(P)] = Frame("pe_dispose") /\ P[Len(P) - 1] = Frame("parse_and_execute_top")
    BY <2>1
  <2>5. Len(P) \in Nat /\ Len(P) >= 4
    BY <2>1
  <2> QED
    BY <1>7, <2>1, <2>3, <2>4, <2>5, Elements
<1>8. CASE c.kind = "builtin" /\ c.running /\ c.my_undo_list # <<>>
  <2>1. Len(P) = 6 /\ P[1] = Frame("simple-command") /\ P[2] = Frame("saved_fifos")
        /\ P[3] = Frame("saved-redirects")
        /\ P[4] = Cleanup("cleanup_redirects", c.my_undo_list)
        /\ P[5] = Frame("parse_and_execute_top") /\ P[6] = Frame("pe_dispose")
    BY <1>8, Shapes
  <2>2. \A m \in 1 .. Len(P) : m = 1 \/ m = 2 \/ m = 3 \/ m = 4 \/ m = 5 \/ m = 6
    BY <2>1
  <2>3. \A m \in 2 .. Len(P) : ~IsFrame(P[m], "simple-command")
    BY <2>1, <2>2, Elements
  <2>4. P[Len(P)] = Frame("pe_dispose") /\ P[Len(P) - 1] = Frame("parse_and_execute_top")
    BY <2>1
  <2>5. Len(P) \in Nat /\ Len(P) >= 4
    BY <2>1
  <2> QED
    BY <1>8, <2>1, <2>3, <2>4, <2>5, Elements
<1>9. CASE \/ c.kind = "null"
           \/ c.kind = "group" /\ c.my_undo_list = <<>> /\ c.exec_undo_list = <<>>
  BY <1>9, Shapes DEF ProperCall, Named
<1> QED
  BY <1>1, <1>2, <1>3, <1>4, <1>5, <1>6, <1>7, <1>8, <1>9 DEF ProperCall, Kinds, Named

LEMMA OthersHaveNoSuchFrame ==
  ASSUME NEW c, ProperCall(c), NEW P, P = Protected(c), NEW m \in 1 .. Len(P)
  PROVE  /\ IsFrame(P[m], "function_calling") => c.kind = "function"
         /\ IsFrame(P[m], "pe_dispose") => c.kind \in {"builtin", "handler"} /\ c.running
<1>1. CASE c.kind \in Named /\ ~c.running
  BY <1>1, Shapes, Elements DEF ProperCall, Named
<1>2. CASE c.kind = "handler"
  BY <1>2, Shapes, Elements DEF ProperCall, Named
<1>3. CASE c.kind = "group" /\ c.my_undo_list # <<>>
  BY <1>3, Shapes, Elements DEF ProperCall, Named
<1>4. CASE c.kind = "group" /\ c.my_undo_list = <<>> /\ c.exec_undo_list # <<>>
  BY <1>4, Shapes, Elements DEF ProperCall, Named
<1>5. CASE c.kind = "function" /\ c.running /\ c.my_undo_list = <<>>
  <2>1. Len(P) = 3 /\ P[1] = Frame("simple-command") /\ P[2] = Frame("saved_fifos")
        /\ P[3] = Frame("function_calling")
    BY <1>5, Shapes
  <2>2. m = 1 \/ m = 2 \/ m = 3
    BY <2>1
  <2> QED
    BY <1>5, <2>1, <2>2, Elements DEF ProperCall, Named
<1>6. CASE c.kind = "function" /\ c.running /\ c.my_undo_list # <<>>
  <2>1. Len(P) = 5 /\ P[1] = Frame("simple-command") /\ P[2] = Frame("saved_fifos")
        /\ P[3] = Frame("saved-redirects")
        /\ P[4] = Cleanup("cleanup_redirects", c.my_undo_list)
        /\ P[5] = Frame("function_calling")
    BY <1>6, Shapes
  <2>2. m = 1 \/ m = 2 \/ m = 3 \/ m = 4 \/ m = 5
    BY <2>1
  <2> QED
    BY <1>6, <2>1, <2>2, Elements DEF ProperCall, Named
<1>7. CASE c.kind = "builtin" /\ c.running /\ c.my_undo_list = <<>>
  <2>1. Len(P) = 4 /\ P[1] = Frame("simple-command") /\ P[2] = Frame("saved_fifos")
        /\ P[3] = Frame("parse_and_execute_top") /\ P[4] = Frame("pe_dispose")
    BY <1>7, Shapes
  <2>2. m = 1 \/ m = 2 \/ m = 3 \/ m = 4
    BY <2>1
  <2> QED
    BY <1>7, <2>1, <2>2, Elements DEF ProperCall, Named
<1>8. CASE c.kind = "builtin" /\ c.running /\ c.my_undo_list # <<>>
  <2>1. Len(P) = 6 /\ P[1] = Frame("simple-command") /\ P[2] = Frame("saved_fifos")
        /\ P[3] = Frame("saved-redirects")
        /\ P[4] = Cleanup("cleanup_redirects", c.my_undo_list)
        /\ P[5] = Frame("parse_and_execute_top") /\ P[6] = Frame("pe_dispose")
    BY <1>8, Shapes
  <2>2. m = 1 \/ m = 2 \/ m = 3 \/ m = 4 \/ m = 5 \/ m = 6
    BY <2>1
  <2> QED
    BY <1>8, <2>1, <2>2, Elements DEF ProperCall, Named
<1>9. CASE \/ c.kind = "null"
           \/ c.kind = "group" /\ c.my_undo_list = <<>> /\ c.exec_undo_list = <<>>
  BY <1>9, Shapes DEF ProperCall, Named
<1> QED
  BY <1>1, <1>2, <1>3, <1>4, <1>5, <1>6, <1>7, <1>8, <1>9 DEF ProperCall, Kinds, Named

LEMMA CleanupPlaces ==
  ASSUME NEW c, ProperCall(c), NEW P, P = Protected(c)
  PROVE  /\ \A m \in 1 .. Len(P) :
               P[m].cleanup # "none" => c.my_undo_list # <<>> /\ m = CleanupAt(c)
         /\ c.my_undo_list # <<>> =>
              /\ CleanupAt(c) \in 1 .. Len(P)
              /\ P[CleanupAt(c)] = Cleanup("cleanup_redirects", c.my_undo_list)
<1>1. CASE c.kind \in Named /\ ~c.running
  BY <1>1, Shapes, Elements DEF ProperCall, Named, CleanupAt
<1>2. CASE c.kind = "handler"
  BY <1>2, Shapes, Elements DEF ProperCall, Named, CleanupAt
<1>3. CASE c.kind = "group" /\ c.my_undo_list # <<>>
  BY <1>3, Shapes, Elements DEF ProperCall, Named, CleanupAt
<1>4. CASE c.kind = "group" /\ c.my_undo_list = <<>> /\ c.exec_undo_list # <<>>
  <2>1. Len(P) = 1 /\ P[1] = Frame("loop_redirections")
    BY <1>4, Shapes
  <2>2. \A m \in 1 .. Len(P) : m = 1
    BY <2>1
  <2> QED
    BY <1>4, <2>1, <2>2, Elements
<1>5. CASE c.kind = "function" /\ c.running /\ c.my_undo_list = <<>>
  <2>1. Len(P) = 3 /\ P[1] = Frame("simple-command") /\ P[2] = Frame("saved_fifos")
        /\ P[3] = Frame("function_calling")
    BY <1>5, Shapes
  <2>2. \A m \in 1 .. Len(P) : m = 1 \/ m = 2 \/ m = 3
    BY <2>1
  <2> QED
    BY <1>5, <2>1, <2>2, Elements DEF ProperCall, Named, CleanupAt
<1>6. CASE c.kind = "function" /\ c.running /\ c.my_undo_list # <<>>
  <2>1. Len(P) = 5 /\ P[1] = Frame("simple-command") /\ P[2] = Frame("saved_fifos")
        /\ P[3] = Frame("saved-redirects")
        /\ P[4] = Cleanup("cleanup_redirects", c.my_undo_list)
        /\ P[5] = Frame("function_calling")
    BY <1>6, Shapes
  <2>2. \A m \in 1 .. Len(P) : m = 1 \/ m = 2 \/ m = 3 \/ m = 4 \/ m = 5
    BY <2>1
  <2> QED
    BY <1>6, <2>1, <2>2, Elements DEF ProperCall, Named, CleanupAt
<1>7. CASE c.kind = "builtin" /\ c.running /\ c.my_undo_list = <<>>
  <2>1. Len(P) = 4 /\ P[1] = Frame("simple-command") /\ P[2] = Frame("saved_fifos")
        /\ P[3] = Frame("parse_and_execute_top") /\ P[4] = Frame("pe_dispose")
    BY <1>7, Shapes
  <2>2. \A m \in 1 .. Len(P) : m = 1 \/ m = 2 \/ m = 3 \/ m = 4
    BY <2>1
  <2> QED
    BY <1>7, <2>1, <2>2, Elements DEF ProperCall, Named, CleanupAt
<1>8. CASE c.kind = "builtin" /\ c.running /\ c.my_undo_list # <<>>
  <2>1. Len(P) = 6 /\ P[1] = Frame("simple-command") /\ P[2] = Frame("saved_fifos")
        /\ P[3] = Frame("saved-redirects")
        /\ P[4] = Cleanup("cleanup_redirects", c.my_undo_list)
        /\ P[5] = Frame("parse_and_execute_top") /\ P[6] = Frame("pe_dispose")
    BY <1>8, Shapes
  <2>2. \A m \in 1 .. Len(P) : m = 1 \/ m = 2 \/ m = 3 \/ m = 4 \/ m = 5 \/ m = 6
    BY <2>1
  <2> QED
    BY <1>8, <2>1, <2>2, Elements DEF ProperCall, Named, CleanupAt
<1>9. CASE \/ c.kind = "null"
           \/ c.kind = "group" /\ c.my_undo_list = <<>> /\ c.exec_undo_list = <<>>
  BY <1>9, Shapes DEF ProperCall, Named
<1> QED
  BY <1>1, <1>2, <1>3, <1>4, <1>5, <1>6, <1>7, <1>8, <1>9 DEF ProperCall, Kinds, Named
----------------------------------------------------------------------------
(* The list is that of the commands in progress, one upon another.         *)
Proper(cs) ==
  /\ IsSeq(cs)
  /\ \A k \in 1 .. Len(cs) : ProperCall(cs[k])
  /\ \A k \in 1 .. Len(cs) : k < Len(cs) => cs[k].running \/ cs[k + 1].kind = "handler"

Stacked(u, cs, height) ==
  /\ IsSeq(u) /\ Proper(cs)
  /\ height \in [0 .. Len(cs) -> Nat] /\ height[0] = 0 /\ height[Len(cs)] = Len(u)
  /\ \A k \in 1 .. Len(cs) : height[k] = height[k - 1] + Len(Protected(cs[k]))
  /\ \A i, k \in 0 .. Len(cs) : i <= k => height[i] <= height[k]
  /\ \A k \in 1 .. Len(cs) : \A m \in 1 .. Len(Protected(cs[k])) :
       Nth(u, height[k - 1] + m) = Protected(cs[k])[m]

\* The commands in progress when all but the first i are over, and when another
\* has begun then.
Prefix(ds, cs, i) ==
  /\ IsSeq(ds) /\ i \in 0 .. Len(cs) /\ Len(ds) = i
  /\ \A k \in 1 .. i : ds[k] = cs[k]

Extension(ds, cs, i, c) ==
  /\ IsSeq(ds) /\ i \in 0 .. Len(cs) /\ Len(ds) = i + 1
  /\ \A k \in 1 .. i : ds[k] = cs[k]
  /\ ds[i + 1] = c

LEMMA Numbers ==
  ASSUME NEW u, NEW cs, NEW height, Stacked(u, cs, height)
  PROVE  /\ Len(cs) \in Nat /\ Len(u) \in Nat
         /\ \A k \in 0 .. Len(cs) : height[k] \in 0 .. Len(u)
         /\ \A k \in 1 .. Len(cs) : Len(Protected(cs[k])) \in Nat
<1>1. Len(cs) \in Nat /\ Len(u) \in Nat
  BY DEF Stacked, Proper, IsSeq
<1>2. \A k \in 0 .. Len(cs) : height[k] \in Nat /\ height[k] <= height[Len(cs)]
  BY <1>1 DEF Stacked
<1>3. \A k \in 1 .. Len(cs) : Len(Protected(cs[k])) \in Nat
  BY TagPlaces DEF Stacked, Proper
<1> QED
  BY <1>1, <1>2, <1>3 DEF Stacked

LEMMA SegmentOf ==
  ASSUME NEW u, NEW cs, NEW height, Stacked(u, cs, height), NEW h \in 1 .. Len(u)
  PROVE  \E k \in 1 .. Len(cs) : \E m \in 1 .. Len(Protected(cs[k])) : h = height[k - 1] + m
<1> DEFINE T == {k \in 0 .. Len(cs) : h <= height[k]}
<1>1. Len(cs) \in T /\ T \subseteq Nat
  BY Numbers DEF Stacked
<1>2. PICK k \in T : \A y \in T : k <= y
  BY <1>1, LeastNat
<1>3. k \in 1 .. Len(cs)
  BY <1>2, Numbers DEF Stacked
<1>4. k - 1 \in 0 .. Len(cs) /\ ~(k - 1 \in T)
  BY <1>2, <1>3, Numbers
<1>5. height[k - 1] < h /\ h <= height[k] /\ height[k - 1] \in Nat
  BY <1>2, <1>3, <1>4, Numbers
<1>6. height[k] = height[k - 1] + Len(Protected(cs[k])) /\ Len(Protected(cs[k])) \in Nat
  BY <1>3, Numbers DEF Stacked
<1>7. h - height[k - 1] \in 1 .. Len(Protected(cs[k])) /\ h = height[k - 1] + (h - height[k - 1])
  BY <1>5, <1>6
<1> QED
  BY <1>3, <1>7

\* What discard_unwind_frame() leaves when activation i has the frame.
LEMMA DiscardCall ==
  ASSUME NEW u, NEW cs, NEW height, Stacked(u, cs, height),
         NEW v, NEW L, Below(v, u, L), NEW tag,
         NEW i \in 1 .. Len(cs), NEW P, P = Protected(cs[i]), NEW p \in 1 .. Len(P),
         IsFrame(P[p], tag), \A m \in p + 1 .. Len(P) : ~IsFrame(P[m], tag),
         height[i - 1] + p <= L,
         \/ L <= height[i]
         \/ \A k \in i + 1 .. Len(cs) : \A m \in 1 .. Len(Protected(cs[k])) :
              ~IsFrame(Protected(cs[k])[m], tag)
  PROVE  Below(discard_unwind_frame(v, tag), u, height[i - 1] + p - 1)
<1>1. PICK h : h = height[i - 1] + p
  OBVIOUS
<1>2. /\ height[i - 1] \in Nat /\ height[i] \in Nat /\ Len(P) \in Nat /\ L \in 0 .. Len(u)
      /\ Len(u) \in Nat /\ Len(cs) \in Nat
  BY Numbers DEF Below
<1>3. h \in 1 .. L
  BY <1>1, <1>2
<1>4. IsFrame(Nth(u, h), tag)
  BY <1>1 DEF Stacked
<1>5. ASSUME NEW g \in h + 1 .. L, IsFrame(Nth(u, g), tag)
      PROVE  FALSE
  <2>1. g \in 1 .. Len(u)
    BY <1>2, <1>3
  <2>8. PICK k \in 1 .. Len(cs) :
          \E m \in 1 .. Len(Protected(cs[k])) : g = height[k - 1] + m
    BY <2>1, SegmentOf
  <2>2. PICK m \in 1 .. Len(Protected(cs[k])) : g = height[k - 1] + m
    BY <2>8
  <2>3. IsFrame(Protected(cs[k])[m], tag)
    BY <1>5, <2>2 DEF Stacked
  <2>4. /\ height[k - 1] \in Nat /\ height[k] \in Nat /\ Len(Protected(cs[k])) \in Nat
        /\ height[k] = height[k - 1] + Len(Protected(cs[k]))
    <3>1. k \in 0 .. Len(cs) /\ k - 1 \in 0 .. Len(cs)
      BY <1>2
    <3> QED
      BY <3>1, Numbers, <1>2 DEF Stacked
  <2>9. g \in Nat /\ g > h /\ m \in Nat /\ m >= 1 /\ m <= Len(Protected(cs[k])) /\ p \in Nat /\ p >= 1
    BY <1>2, <1>3, <2>4
  <2>10. height[k - 1] < g /\ g <= height[k]
    <3>1. PICK a, b, l : a = height[k - 1] /\ b = height[k] /\ l = Len(Protected(cs[k]))
      OBVIOUS
    <3>2. a \in Nat /\ b \in Nat /\ l \in Nat /\ b = a + l /\ m <= l
      BY <2>4, <2>9, <3>1
    <3>3. g = a + m
      BY <2>2, <3>1
    <3>4. a < g /\ g <= b
      BY ONLY <3>2, <3>3, <2>9
    <3> QED
      BY <3>1, <3>4
  <2>5. CASE k < i
    <3>1. height[k] <= height[i - 1]
      BY <2>5, <1>2 DEF Stacked
    <3>2. g <= height[i - 1]
      BY <3>1, <2>4, <2>9, <2>10, <1>2
    <3> QED
      BY <3>2, <2>9, <1>1, <1>2
  <2>6. CASE k = i
    <3>1. m \in p + 1 .. Len(P)
      BY <2>6, <2>2, <1>1, <1>2, <2>4
    <3> QED
      BY <3>1, <2>3, <2>6
  <2>7. CASE k > i
    <3>1. height[i] <= height[k - 1]
      BY <2>7, <1>2 DEF Stacked
    <3>2. ~(L <= height[i])
      BY <3>1, <2>4, <2>9, <2>10, <1>2, <1>3
    <3>3. k \in i + 1 .. Len(cs)
      BY <2>7, <1>2
    <3> QED
      BY <3>2, <3>3, <2>3
  <2> QED
    BY <2>5, <2>6, <2>7, <1>2
<1>6. IsSeq(u)
  BY DEF Stacked
<1>7. Below(discard_unwind_frame(v, tag), u, h - 1)
  BY <1>3, <1>4, <1>5, <1>6, DiscardTo
<1>8. h - 1 = height[i - 1] + p - 1
  BY <1>1, <1>2
<1> QED
  BY <1>7, <1>8

LEMMA Truncated ==
  ASSUME NEW u, NEW cs, NEW height, Stacked(u, cs, height),
         NEW ds, NEW i, Prefix(ds, cs, i), NEW w, Below(w, u, height[i])
  PROVE  \E g : Stacked(w, ds, g)
<1>1. PICK g : g = [k \in 0 .. i |-> height[k]]
  OBVIOUS
<1>2. Len(cs) \in Nat /\ Len(u) \in Nat /\ i \in 0 .. Len(cs) /\ Len(ds) = i
  BY Numbers DEF Prefix
<1>3. \A k \in 1 .. i : ds[k] = cs[k] /\ k \in 1 .. Len(cs) /\ k - 1 \in 0 .. i
  BY <1>2 DEF Prefix
<1>4. Proper(ds)
  <2>1. ASSUME NEW k \in 1 .. i, k < i
        PROVE  ds[k].running \/ ds[k + 1].kind = "handler"
    <3>1. k + 1 \in 1 .. i /\ k < Len(cs) /\ k \in 1 .. Len(cs)
      BY <1>2, <2>1
    <3> QED
      BY <1>3, <3>1 DEF Proper, Stacked
  <2>2. \A k \in 1 .. i : ProperCall(ds[k])
    BY <1>3 DEF Proper, Stacked
  <2> QED
    BY <1>2, <2>1, <2>2 DEF Proper, Prefix
<1>5. \A k \in 0 .. i : g[k] = height[k] /\ k \in 0 .. Len(cs)
  BY <1>1, <1>2
<1>6. g \in [0 .. i -> Nat] /\ g[0] = 0 /\ g[i] = Len(w) /\ IsSeq(w)
  <2>1. \A k \in 0 .. i : height[k] \in Nat
    BY <1>5, Numbers
  <2> QED
    BY <1>1, <1>2, <2>1 DEF Stacked, Below
<1>7. \A k \in 1 .. i : g[k] = g[k - 1] + Len(Protected(ds[k]))
  <2> SUFFICES ASSUME NEW k \in 1 .. i
               PROVE  g[k] = g[k - 1] + Len(Protected(ds[k]))
    OBVIOUS
  <2>1. k \in 0 .. i /\ k - 1 \in 0 .. i /\ k \in 1 .. Len(cs)
    BY <1>2
  <2>2. height[k] = height[k - 1] + Len(Protected(cs[k]))
    BY <2>1 DEF Stacked
  <2> QED
    BY <1>3, <1>5, <2>1, <2>2
<1>8. \A j, k \in 0 .. i : j <= k => g[j] <= g[k]
  BY <1>5 DEF Stacked
<1>9. ASSUME NEW k \in 1 .. i, NEW m \in 1 .. Len(Protected(ds[k]))
      PROVE  Nth(w, g[k - 1] + m) = Protected(ds[k])[m]
  <2>1. ds[k] = cs[k] /\ k \in 1 .. Len(cs) /\ g[k - 1] = height[k - 1]
    BY <1>3, <1>5
  <2>2. Nth(u, g[k - 1] + m) = Protected(ds[k])[m]
    BY <2>1 DEF Stacked
  <2>3. /\ height[k] <= height[i] /\ height[k] = height[k - 1] + Len(Protected(ds[k]))
        /\ height[k - 1] \in Nat /\ height[k] \in Nat /\ height[i] \in Nat
        /\ Len(Protected(ds[k])) \in Nat
    <3>1. k \in 0 .. Len(cs) /\ k <= i /\ k - 1 \in 0 .. Len(cs)
      BY <1>2
    <3> QED
      BY <1>2, <2>1, <3>1, Numbers DEF Stacked
  <2>4. g[k - 1] + m \in 1 .. height[i]
    BY <2>1, <2>3
  <2> QED
    BY <2>2, <2>4 DEF Below
<1>10. Stacked(w, ds, g)
  BY <1>2, <1>4, <1>6, <1>7, <1>8, <1>9 DEF Stacked
<1> QED
  BY <1>10
\* An activation is put on the list above those before it.
LEMMA Extended ==
  ASSUME NEW u, NEW cs, NEW height, Stacked(u, cs, height),
         NEW ds, NEW i, NEW c, Extension(ds, cs, i, c), ProperCall(c),
         i = 0 \/ cs[i].running \/ c.kind = "handler",
         NEW w, IsSeq(w), NEW P, P = Protected(c), Len(w) = height[i] + Len(P),
         \A h \in 1 .. height[i] : Nth(w, h) = Nth(u, h),
         \A m \in 1 .. Len(P) : Nth(w, height[i] + m) = P[m]
  PROVE  \E g : Stacked(w, ds, g)
<1>1. PICK g : g = [k \in 0 .. i + 1 |-> IF k = i + 1 THEN Len(w) ELSE height[k]]
  OBVIOUS
<1>2. /\ Len(cs) \in Nat /\ Len(u) \in Nat /\ i \in 0 .. Len(cs) /\ Len(ds) = i + 1
      /\ height[i] \in Nat /\ Len(P) \in Nat /\ Len(w) \in Nat /\ Len(w) >= height[i]
  <2>1. /\ Len(cs) \in Nat /\ Len(u) \in Nat /\ i \in 0 .. Len(cs) /\ Len(ds) = i + 1
        /\ height[i] \in Nat
    BY Numbers DEF Extension
  <2>2. Len(P) \in Nat
    BY TagPlaces
  <2> QED
    BY <2>1, <2>2
<1>3. \A k \in 1 .. i : ds[k] = cs[k] /\ k \in 1 .. Len(cs) /\ k - 1 \in 0 .. i
  BY <1>2 DEF Extension
<1>4. ds[i + 1] = c
  BY DEF Extension
<1>5. \A k \in 0 .. i : g[k] = height[k] /\ k \in 0 .. Len(cs) /\ height[k] \in Nat
                        /\ height[k] <= height[i]
  <2> SUFFICES ASSUME NEW k \in 0 .. i
               PROVE  /\ g[k] = height[k] /\ k \in 0 .. Len(cs) /\ height[k] \in Nat
                      /\ height[k] <= height[i]
    OBVIOUS
  <2>1. k \in 0 .. Len(cs) /\ k # i + 1 /\ k \in 0 .. i + 1 /\ k <= i
    BY <1>2
  <2>2. height[k] <= height[i] /\ height[k] \in Nat
    BY <1>2, <2>1, Numbers DEF Stacked
  <2> QED
    BY <1>1, <2>1, <2>2
<1>6. g[i + 1] = Len(w)
  BY <1>1, <1>2
<1>7. \A k \in 1 .. i + 1 : k \in 1 .. i \/ k = i + 1
  BY <1>2
<1>8. \A k \in 0 .. i + 1 : k \in 0 .. i \/ k = i + 1
  BY <1>2
<1>9. Proper(ds)
  <2>1. ASSUME NEW k \in 1 .. i + 1, k < i + 1
        PROVE  ds[k].running \/ ds[k + 1].kind = "handler"
    <3>1. k \in 1 .. i /\ ds[k] = cs[k] /\ k \in 1 .. Len(cs)
      BY <1>3, <1>7, <2>1, <1>2
    <3>2. CASE k = i
      BY <3>1, <3>2, <1>4, <1>2
    <3>3. CASE k # i
      <4>1. k + 1 \in 1 .. i /\ k < Len(cs)
        BY <3>1, <3>3, <1>2
      <4>2. cs[k].running \/ cs[k + 1].kind = "handler"
        BY <4>1, <3>1 DEF Stacked, Proper
      <4> QED
        BY <1>3, <3>1, <4>1, <4>2
    <3> QED
      BY <3>2, <3>3
  <2>2. \A k \in 1 .. i + 1 : ProperCall(ds[k])
    BY <1>3, <1>4, <1>7 DEF Proper, Stacked
  <2> QED
    BY <1>2, <2>1, <2>2 DEF Proper, Extension
<1>10. g \in [0 .. i + 1 -> Nat] /\ g[0] = 0
  <2>1. \A k \in 0 .. i + 1 : g[k] \in Nat
    BY <1>2, <1>5, <1>6, <1>8
  <2>2. g[0] = height[0]
    BY <1>2, <1>5
  <2> QED
    BY <1>1, <2>1, <2>2 DEF Stacked
<1>11. \A k \in 1 .. i + 1 : g[k] = g[k - 1] + Len(Protected(ds[k]))
  <2>1. ASSUME NEW k \in 1 .. i
        PROVE  g[k] = g[k - 1] + Len(Protected(ds[k]))
    <3>1. k \in 0 .. i /\ k - 1 \in 0 .. i /\ k \in 1 .. Len(cs)
      BY <1>2
    <3>2. height[k] = height[k - 1] + Len(Protected(cs[k]))
      BY <3>1 DEF Stacked
    <3> QED
      BY <1>3, <1>5, <3>1, <3>2
  <2> SUFFICES ASSUME NEW k \in 1 .. i + 1
               PROVE  g[k] = g[k - 1] + Len(Protected(ds[k]))
    OBVIOUS
  <2>3. k \in 1 .. i \/ k = i + 1
    BY <1>7
  <2>4. CASE k = i + 1
    <3>1. k - 1 = i /\ i \in 0 .. i
      BY <1>2, <2>4
    <3>2. g[k] = Len(w) /\ ds[k] = c
      BY <2>4, <1>4, <1>6
    <3>3. g[k - 1] = height[i]
      BY <1>5, <3>1
    <3> QED
      BY <3>2, <3>3
  <2> QED
    BY <2>1, <2>3, <2>4
<1>12. \A j, k \in 0 .. i + 1 : j <= k => g[j] <= g[k]
  <2> SUFFICES ASSUME NEW j \in 0 .. i + 1, NEW k \in 0 .. i + 1, j <= k
               PROVE  g[j] <= g[k]
    OBVIOUS
  <2>1. CASE k \in 0 .. i
    <3>1. j \in 0 .. i
      BY <2>1, <1>2
    <3> QED
      BY <2>1, <3>1, <1>5 DEF Stacked
  <2>2. CASE k = i + 1 /\ j \in 0 .. i
    BY <2>2, <1>2, <1>5, <1>6
  <2>3. CASE k = i + 1 /\ j = i + 1
    BY <2>3, <1>2, <1>6
  <2> QED
    BY <2>1, <2>2, <2>3, <1>8
<1>13. ASSUME NEW k \in 1 .. i + 1, NEW m \in 1 .. Len(Protected(ds[k]))
       PROVE  Nth(w, g[k - 1] + m) = Protected(ds[k])[m]
  <2>1. CASE k \in 1 .. i
    <3>1. ds[k] = cs[k] /\ k \in 1 .. Len(cs) /\ k - 1 \in 0 .. i /\ k \in 0 .. i
      BY <1>2, <1>3, <2>1
    <3>2. g[k - 1] = height[k - 1]
      BY <1>5, <3>1
    <3>3. Nth(u, height[k - 1] + m) = Protected(ds[k])[m]
      BY <3>1 DEF Stacked
    <3>4. height[k - 1] + m \in 1 .. height[i]
      <4>1. PICK a, b, l, t : /\ a = height[k - 1] /\ b = height[k]
                              /\ l = Len(Protected(ds[k])) /\ t = height[i]
        OBVIOUS
      <4>2. b = a + l
        BY <3>1, <4>1 DEF Stacked
      <4>3. a \in Nat /\ b \in Nat /\ t \in Nat /\ b <= t
        BY <1>5, <3>1, <4>1, <1>2
      <4>4. l \in Nat /\ m \in 1 .. l
        BY <3>1, <4>1, Numbers
      <4>5. a + m \in 1 .. t
        BY ONLY <4>2, <4>3, <4>4
      <4> QED
        BY <4>1, <4>5
    <3> QED
      BY <3>2, <3>3, <3>4
  <2>2. CASE k = i + 1
    <3>1. ds[k] = c /\ g[k - 1] = height[i]
      BY <2>2, <1>2, <1>4, <1>5
    <3> QED
      BY <3>1
  <2> QED
    BY <1>7, <2>1, <2>2
<1>14. Stacked(w, ds, g)
  BY <1>2, <1>6, <1>9, <1>10, <1>11, <1>12, <1>13 DEF Stacked
<1> QED
  BY <1>14

----------------------------------------------------------------------------
(* What an interrupt would undo can be read off.                           *)
LEMMA StackedOwes ==
  ASSUME NEW height, Stacked(unwind_protect_list, calls, height)
  PROVE  UndoneOnce
<1> DEFINE u == unwind_protect_list
           owing == {i \in DOMAIN calls : calls[i].my_undo_list # <<>>}
           cleanups == {j \in DOMAIN u : u[j].cleanup # "none"}
           From(i) == height[i - 1] + CleanupAt(calls[i])
<1>1. Len(u) \in Nat /\ Len(calls) \in Nat /\ DOMAIN u = 1 .. Len(u) /\ DOMAIN calls = 1 .. Len(calls)
  BY DEF Stacked, Proper, IsSeq
<1>2. ASSUME NEW i \in owing
      PROVE  /\ i \in 1 .. Len(calls) /\ From(i) \in Nat
             /\ height[i - 1] < From(i) /\ From(i) <= height[i]
             /\ height[i - 1] \in Nat /\ height[i] \in Nat /\ height[i] <= Len(u)
             /\ From(i) \in 1 .. Len(u)
             /\ Nth(u, From(i)) = Cleanup("cleanup_redirects", calls[i].my_undo_list)
  <2>1. i \in 1 .. Len(calls) /\ ProperCall(calls[i])
    BY <1>1 DEF Stacked, Proper
  <2>2. PICK P, at : P = Protected(calls[i]) /\ at = CleanupAt(calls[i])
    OBVIOUS
  <2>3. at \in 1 .. Len(P) /\ P[at] = Cleanup("cleanup_redirects", calls[i].my_undo_list)
    BY <2>1, <2>2, CleanupPlaces
  <2>4. Nth(u, height[i - 1] + at) = P[at]
    BY <2>1, <2>2, <2>3 DEF Stacked
  <2>5. PICK a, b, l : a = height[i - 1] /\ b = height[i] /\ l = Len(P)
    OBVIOUS
  <2>6. i - 1 \in 0 .. Len(calls) /\ i \in 0 .. Len(calls)
    BY <1>1, <2>1
  <2>7. a \in Nat /\ b \in Nat /\ b <= Len(u) /\ l \in Nat /\ b = a + l
    BY <2>1, <2>2, <2>5, <2>6, Numbers DEF Stacked
  <2>8. a + at \in 1 .. b /\ a < a + at
    BY <2>3, <2>5, <2>7
  <2> QED
    BY <1>1, <2>1, <2>2, <2>3, <2>4, <2>5, <2>7, <2>8
<1>3. PICK place : place = [i \in owing |-> Len(u) + 1 - From(i)]
  OBVIOUS
<1> HIDE DEF From
<1>4. ASSUME NEW i \in owing
      PROVE  /\ place[i] \in cleanups
             /\ u[place[i]].arg = calls[i].my_undo_list
  <2>1. place[i] = Len(u) + 1 - From(i) /\ place[i] \in 1 .. Len(u)
    BY <1>1, <1>2, <1>3
  <2>2. u[place[i]] = Cleanup("cleanup_redirects", calls[i].my_undo_list)
    BY <1>2, <2>1 DEF Nth
  <2> QED
    BY <1>1, <2>1, <2>2 DEF Cleanup
<1>5. ASSUME NEW i \in owing, NEW j \in owing, i < j
      PROVE  place[j] < place[i]
  <2>1. height[i] <= height[j - 1]
    <3>1. i \in 0 .. Len(calls) /\ j - 1 \in 0 .. Len(calls) /\ i <= j - 1
      BY <1>1, <1>2, <1>5
    <3> QED
      BY <3>1 DEF Stacked
  <2>2. From(i) < From(j)
    BY <1>2, <2>1
  <2> QED
    BY <1>1, <1>2, <1>3, <2>2
<1>6. ASSUME NEW j \in cleanups
      PROVE  \E i \in owing : place[i] = j
  <2>1. PICK h : h = Len(u) + 1 - j
    OBVIOUS
  <2>2. h \in 1 .. Len(u) /\ Len(u) + 1 - h = j /\ Nth(u, h) = u[j]
    BY <1>1, <2>1 DEF Nth
  <2>3. PICK k \in 1 .. Len(calls) :
          \E m \in 1 .. Len(Protected(calls[k])) : h = height[k - 1] + m
    BY <2>2, SegmentOf
  <2>4. PICK m \in 1 .. Len(Protected(calls[k])) : h = height[k - 1] + m
    BY <2>3
  <2>5. PICK P : P = Protected(calls[k])
    OBVIOUS
  <2>6. P[m] = u[j] /\ ProperCall(calls[k])
    BY <2>2, <2>4, <2>5 DEF Stacked, Proper
  <2>7. calls[k].my_undo_list # <<>> /\ m = CleanupAt(calls[k])
    BY <2>4, <2>5, <2>6, CleanupPlaces
  <2>8. k \in owing /\ From(k) = h
    BY <1>1, <2>4, <2>7 DEF From
  <2> QED
    BY <1>3, <2>2, <2>8
<1> HIDE DEF owing, cleanups
<1>7. place \in [owing -> cleanups] /\ {place[i] : i \in owing} = cleanups
  BY <1>3, <1>4, <1>6
<1> QED
  BY <1>4, <1>5, <1>7 DEF UndoneOnce, owing, cleanups
----------------------------------------------------------------------------
(* The steps.                                                              *)
Winding == \E height : Stacked(unwind_protect_list, calls, height)

LEMMA CallLists ==
  ASSUME NEW cs, IsSeq(cs), NEW n, n = Len(cs), NEW c
  PROVE  /\ n \in Nat
         /\ cs # <<>> => n >= 1 /\ Last(cs) = cs[n]
         /\ \A i \in 0 .. n : Prefix(SubSeq(cs, 1, i), cs, i)
         /\ cs # <<>> => Prefix(Front(cs), cs, n - 1)
         /\ Extension(Append(cs, c), cs, n, c)
         /\ cs # <<>> => Extension(Append(Front(cs), c), cs, n - 1, c)
<1>1. PICK S : cs \in Seq(S)
  BY DEF IsSeq
<1>2. PICK T : cs \in Seq(T) /\ c \in T
  <2>1. cs \in Seq(S \cup {c})
    BY <1>1
  <2> QED
    BY <2>1
<1>3. n \in Nat /\ (cs # <<>> => n >= 1 /\ Last(cs) = cs[n])
  BY <1>2 DEF Last
<1>4. ASSUME NEW i \in 0 .. n
      PROVE  /\ SubSeq(cs, 1, i) \in Seq(T) /\ Len(SubSeq(cs, 1, i)) = i
             /\ \A k \in 1 .. i : SubSeq(cs, 1, i)[k] = cs[k]
  <2>1. PICK d : d = SubSeq(cs, 1, i)
    OBVIOUS
  <2>2. 1 \in Int /\ i \in Int /\ \A k \in 1 .. i : cs[k] \in T
    BY <1>2, <1>3
  <2>3. /\ d \in Seq(T) /\ Len(d) = (IF 1 <= i THEN i - 1 + 1 ELSE 0)
        /\ \A k \in 1 .. i - 1 + 1 : d[k] = cs[1 + k - 1]
    BY <2>1, <2>2, SubSeqProperties
  <2>4. Len(d) = i /\ i - 1 + 1 = i /\ \A k \in 1 .. i : 1 + k - 1 = k
    BY <1>3, <2>3
  <2> QED
    BY <2>1, <2>3, <2>4
<1>5. \A i \in 0 .. n : Prefix(SubSeq(cs, 1, i), cs, i)
  BY <1>4 DEF Prefix, IsSeq
<1>6. cs # <<>> => Prefix(Front(cs), cs, n - 1)
  <2>1. Front(cs) = SubSeq(cs, 1, n - 1)
    BY DEF Front
  <2> QED
    BY <1>3, <1>5, <2>1
<1>7. ASSUME NEW d \in Seq(T)
      PROVE  /\ Append(d, c) \in Seq(T) /\ Len(Append(d, c)) = Len(d) + 1
             /\ \A k \in 1 .. Len(d) : Append(d, c)[k] = d[k]
             /\ Append(d, c)[Len(d) + 1] = c
  BY <1>2, AppendProperties
<1>8. Extension(Append(cs, c), cs, n, c)
  BY <1>2, <1>3, <1>7 DEF Extension, IsSeq
<1>9. ASSUME cs # <<>>
      PROVE  Extension(Append(Front(cs), c), cs, n - 1, c)
  <2>1. PICK d : d = Front(cs)
    OBVIOUS
  <2>2. n - 1 \in 0 .. n /\ d = SubSeq(cs, 1, n - 1)
    BY <1>3, <1>9, <2>1 DEF Front
  <2>3. d \in Seq(T) /\ Len(d) = n - 1 /\ \A k \in 1 .. n - 1 : d[k] = cs[k]
    BY <1>4, <2>2
  <2>4. /\ Append(d, c) \in Seq(T) /\ Len(Append(d, c)) = n - 1 + 1
        /\ \A k \in 1 .. n - 1 : Append(d, c)[k] = cs[k]
        /\ Append(d, c)[n - 1 + 1] = c
    BY <1>7, <2>3
  <2> QED
    BY <2>1, <2>2, <2>4 DEF Extension, IsSeq
<1> QED
  BY <1>3, <1>5, <1>6, <1>8, <1>9

\* Where the top one stands.
LEMMA TopCall ==
  ASSUME NEW height, Stacked(unwind_protect_list, calls, height), calls # <<>>,
         NEW n, n = Len(calls)
  PROVE  /\ n \in Nat /\ n >= 1 /\ Top = calls[n] /\ ProperCall(Top)
         /\ IsSeq(unwind_protect_list) /\ Len(unwind_protect_list) \in Nat
         /\ height[n] = Len(unwind_protect_list) /\ height[n - 1] \in Nat
         /\ height[n] = height[n - 1] + Len(Protected(Top))
         /\ Len(Protected(Top)) \in Nat
         /\ n > 1 => calls[n - 1].running \/ Top.kind = "handler"
         /\ Prefix(Popped, calls, n - 1)
         /\ \A c : Extension(WithTop(c), calls, n - 1, c)
<1>1. IsSeq(calls)
  BY DEF Stacked, Proper
<1>2. /\ n \in Nat /\ n >= 1 /\ Top = calls[n]
      /\ Prefix(Popped, calls, n - 1)
      /\ \A c : Extension(WithTop(c), calls, n - 1, c)
  BY <1>1, CallLists DEF Top, Popped, WithTop
<1>3. n \in 1 .. n /\ n - 1 \in 0 .. n
  BY <1>2
<1>4. n > 1 => calls[n - 1].running \/ calls[n].kind = "handler"
  <2> SUFFICES ASSUME n > 1
               PROVE  calls[n - 1].running \/ calls[n].kind = "handler"
    OBVIOUS
  <2>1. n - 1 \in 1 .. n /\ n - 1 < n /\ n - 1 + 1 = n
    BY <1>2
  <2> QED
    BY <2>1 DEF Stacked, Proper
<1>5. ProperCall(calls[n]) /\ height[n] = height[n - 1] + Len(Protected(calls[n]))
  BY <1>3 DEF Stacked, Proper
<1> QED
  BY <1>2, <1>3, <1>4, <1>5, Numbers DEF Stacked

\* The top one begins or goes on, with more on the list.
LEMMA ForMore ==
  ASSUME NEW height, Stacked(unwind_protect_list, calls, height), NEW i, NEW c,
         Extension(calls', calls, i, c), ProperCall(c),
         i = 0 \/ calls[i].running \/ c.kind = "handler",
         IsSeq(unwind_protect_list'), NEW P, P = Protected(c),
         Len(unwind_protect_list') = height[i] + Len(P),
         \A h \in 1 .. height[i] : Nth(unwind_protect_list', h) = Nth(unwind_protect_list, h),
         \A m \in 1 .. Len(P) : Nth(unwind_protect_list', height[i] + m) = P[m]
  PROVE  Winding'
<1>1. PICK w, ds : w = unwind_protect_list' /\ ds = calls'
  OBVIOUS
<1>2. /\ Extension(ds, calls, i, c) /\ IsSeq(w) /\ Len(w) = height[i] + Len(P)
      /\ \A h \in 1 .. height[i] : Nth(w, h) = Nth(unwind_protect_list, h)
      /\ \A m \in 1 .. Len(P) : Nth(w, height[i] + m) = P[m]
  BY <1>1, Zenon DEF Nth
<1>3. \E g : Stacked(w, ds, g)
  BY <1>2, Extended
<1> QED
  BY <1>1, <1>3 DEF Winding

LEMMA ForLess ==
  ASSUME NEW height, Stacked(unwind_protect_list, calls, height), NEW i,
         Prefix(calls', calls, i), Below(unwind_protect_list', unwind_protect_list, height[i])
  PROVE  Winding'
<1>1. PICK w, ds : w = unwind_protect_list' /\ ds = calls'
  OBVIOUS
<1>2. \E g : Stacked(w, ds, g)
  BY <1>1, Truncated
<1> QED
  BY <1>1, <1>2 DEF Winding
\* The body of the top one begins: what it had is below what it gains.
Gains(w, u, P, old) ==
  /\ Len(old) <= Len(P) /\ \A m \in 1 .. Len(old) : P[m] = old[m]
  /\ IsSeq(w) /\ Len(w) = Len(u) + (Len(P) - Len(old))
  /\ \A h \in 1 .. Len(u) : Nth(w, h) = Nth(u, h)
  /\ \A j \in 1 .. Len(P) - Len(old) : Nth(w, Len(u) + j) = P[Len(old) + j]

LEMMA Grown ==
  ASSUME Winding, calls # <<>>, Top.kind # "handler", NEW c, ProperCall(c), calls' = WithTop(c),
         NEW w, w = unwind_protect_list', Gains(w, unwind_protect_list, Protected(c), Protected(Top))
  PROVE  Winding'
<1> DEFINE u == unwind_protect_list
           P == Protected(c)
           old == Protected(Top)
<1>0. /\ Len(old) <= Len(P) /\ \A m \in 1 .. Len(old) : P[m] = old[m]
      /\ IsSeq(w) /\ Len(w) = Len(u) + (Len(P) - Len(old))
      /\ \A h \in 1 .. Len(u) : Nth(w, h) = Nth(u, h)
      /\ \A j \in 1 .. Len(P) - Len(old) : Nth(w, Len(u) + j) = P[Len(old) + j]
  BY DEF Gains
<1>1. PICK height : Stacked(unwind_protect_list, calls, height)
  BY DEF Winding
<1>2. PICK n, i, b : n = Len(calls) /\ i = n - 1 /\ b = height[n - 1]
  OBVIOUS
<1>3. /\ n \in Nat /\ n >= 1 /\ Len(u) \in Nat /\ b \in Nat /\ Len(old) \in Nat
      /\ Len(u) = b + Len(old) /\ height[i] = b
  <2>1. /\ n \in Nat /\ n >= 1 /\ Len(unwind_protect_list) \in Nat
        /\ height[n - 1] \in Nat /\ Len(Protected(Top)) \in Nat
        /\ height[n] = Len(unwind_protect_list)
        /\ height[n] = height[n - 1] + Len(Protected(Top))
    BY <1>1, <1>2, TopCall
  <2> QED
    BY <1>2, <2>1
<1>4. i = 0 \/ calls[i].running
  <2>1. n > 1 => calls[n - 1].running
    BY <1>1, <1>2, TopCall
  <2>2. i = 0 \/ n > 1
    BY <1>2, <1>3
  <2> QED
    BY <1>2, <2>1, <2>2
<1>5. Extension(calls', calls, i, c)
  BY <1>1, <1>2, TopCall
<1>6. Len(P) \in Nat
  BY TagPlaces
<1>7. Len(w) = b + Len(P)
  BY <1>0, <1>3, <1>6
<1>8. \A h \in 1 .. b : Nth(w, h) = Nth(u, h)
  BY <1>0, <1>3
<1>9. ASSUME NEW m \in 1 .. Len(P)
      PROVE  Nth(w, b + m) = P[m]
  <2>1. CASE m <= Len(old)
    <3>1. m \in 1 .. Len(old) /\ b + m \in 1 .. Len(u)
      BY <1>3, <1>6, <2>1
    <3>2. n \in 1 .. Len(calls) /\ calls[n] = Top
      BY <1>1, <1>2, <1>3, TopCall
    <3>3. Nth(u, b + m) = old[m]
      BY <1>1, <1>2, <3>1, <3>2 DEF Stacked
    <3> QED
      BY <1>0, <3>1, <3>3
  <2>2. CASE ~(m <= Len(old))
    <3>1. PICK j : j = m - Len(old)
      OBVIOUS
    <3>2. j \in 1 .. Len(P) - Len(old) /\ Len(u) + j = b + m /\ Len(old) + j = m
      BY <1>3, <1>6, <2>2, <3>1
    <3> QED
      BY <1>0, <3>2
  <2> QED
    BY <2>1, <2>2
<1>10. /\ IsSeq(unwind_protect_list') /\ Len(unwind_protect_list') = height[i] + Len(P)
       /\ \A h \in 1 .. height[i] : Nth(unwind_protect_list', h) = Nth(unwind_protect_list, h)
       /\ \A m \in 1 .. Len(P) : Nth(unwind_protect_list', height[i] + m) = P[m]
  BY <1>0, <1>3, <1>7, <1>8, <1>9 DEF Nth
<1> QED
  BY <1>1, <1>4, <1>5, <1>10, ForMore

LEMMA Raised ==
  ASSUME NEW u, IsSeq(u), NEW x, NEW y, NEW w, w = Push(y, Push(x, u))
  PROVE  /\ IsSeq(w) /\ Len(w) = Len(u) + 2
         /\ \A h \in 1 .. Len(u) : Nth(w, h) = Nth(u, h)
         /\ Nth(w, Len(u) + 1) = x /\ Nth(w, Len(u) + 2) = y
<1>1. PICK v : v = Push(x, u)
  OBVIOUS
<1>2. /\ IsSeq(v) /\ Len(v) = Len(u) + 1 /\ Nth(v, Len(u) + 1) = x
      /\ \A h \in 1 .. Len(u) : Nth(v, h) = Nth(u, h)
  BY <1>1, Pushed
<1>3. w = Push(y, v)
  BY <1>1
<1>4. /\ IsSeq(w) /\ Len(w) = Len(v) + 1 /\ Nth(w, Len(v) + 1) = y
      /\ \A h \in 1 .. Len(v) : Nth(w, h) = Nth(v, h)
  BY <1>2, <1>3, Pushed
<1>5. Len(u) \in Nat /\ Len(v) + 1 = Len(u) + 2 /\ Len(u) + 1 \in 1 .. Len(v)
  BY <1>2, BelowItself
<1>6. \A h \in 1 .. Len(u) : h \in 1 .. Len(v)
  BY <1>2, <1>5
<1> QED
  BY <1>2, <1>4, <1>5, <1>6

LEMMA ProperCalls ==
  /\ \A kind \in Kinds \ {"handler"} : ProperCall(Call(kind, FALSE))
  /\ ProperCall(Call("handler", TRUE))
  /\ \A c : ProperCall(c) => c.kind \in Kinds /\ c.running \in BOOLEAN
<1>1. ASSUME NEW kind \in Kinds \ {"handler"}
      PROVE  ProperCall(Call(kind, FALSE))
  <2>1. PICK c : c = Call(kind, FALSE)
    OBVIOUS
  <2>2. c = [kind |-> kind, running |-> FALSE, my_undo_list |-> <<>>, exec_undo_list |-> <<>>]
    BY <2>1 DEF Call
  <2>3. kind \in Kinds /\ FALSE \in BOOLEAN /\ kind # "handler"
    BY DEF Kinds
  <2>4. c.kind = kind /\ c.running = FALSE /\ c.my_undo_list = <<>> /\ c.exec_undo_list = <<>>
    BY <2>2
  <2>5. ProperCall(c)
    BY <2>2, <2>3, <2>4, Zenon DEF ProperCall
  <2> QED
    BY <2>1, <2>5
<1>2. ProperCall(Call("handler", TRUE))
  <2>1. PICK c : c = Call("handler", TRUE)
    OBVIOUS
  <2>2. c = [kind |-> "handler", running |-> TRUE, my_undo_list |-> <<>>, exec_undo_list |-> <<>>]
    BY <2>1 DEF Call
  <2>3. "handler" \in Kinds /\ TRUE \in BOOLEAN /\ "handler" # "exec" /\ "handler" # "null"
    BY DEF Kinds
  <2>4. c.kind = "handler" /\ c.running = TRUE /\ c.my_undo_list = <<>> /\ c.exec_undo_list = <<>>
    BY <2>2
  <2>5. ProperCall(c)
    BY <2>2, <2>3, <2>4, Zenon DEF ProperCall
  <2> QED
    BY <2>1, <2>5
<1>3. \A c : ProperCall(c) => c.kind \in Kinds /\ c.running \in BOOLEAN
  BY DEF ProperCall
<1> QED
  BY <1>1, <1>2, <1>3

LEMMA BeginWinds ==
  ASSUME Winding, NEW kind \in Kinds \ {"handler"}, Begin(kind)
  PROVE  Winding'
<1>1. PICK height : Stacked(unwind_protect_list, calls, height)
  BY DEF Winding
<1>2. PICK n, c, P : n = Len(calls) /\ c = Call(kind, FALSE) /\ P = Protected(c)
  OBVIOUS
<1>3. IsSeq(calls) /\ IsSeq(unwind_protect_list) /\ height[n] = Len(unwind_protect_list)
  BY <1>1, <1>2 DEF Stacked, Proper
<1>4. Extension(calls', calls, n, c)
  <2>1. calls' = Append(calls, c)
    BY <1>2 DEF Begin
  <2> QED
    BY <2>1, <1>2, <1>3, CallLists
<1>5. ProperCall(c) /\ c.kind = kind /\ ~c.running /\ c.my_undo_list = <<>> /\ c.exec_undo_list = <<>>
  BY <1>2, ProperCalls DEF Call
<1>6. n = 0 \/ calls[n].running
  <2>1. calls = <<>> => n = 0
    BY <1>2
  <2>2. calls # <<>> => calls[n].running
    BY <1>2, <1>3, CallLists DEF Begin, Running, Top
  <2> QED
    BY <2>1, <2>2
<1>7. PICK u, w : u = unwind_protect_list /\ w = unwind_protect_list'
  OBVIOUS
<1>8. /\ IsSeq(w) /\ Len(w) = Len(u) + Len(P)
      /\ \A h \in 1 .. Len(u) : Nth(w, h) = Nth(u, h)
      /\ \A m \in 1 .. Len(P) : Nth(w, Len(u) + m) = P[m]
  <2>1. CASE kind \in Named
    <3>1. w = Push(Frame("saved_fifos"), Push(Frame("simple-command"), u))
      BY <1>7, <2>1, PushedBy DEF Begin, Named
    <3>2. /\ IsSeq(w) /\ Len(w) = Len(u) + 2
          /\ \A h \in 1 .. Len(u) : Nth(w, h) = Nth(u, h)
          /\ Nth(w, Len(u) + 1) = Frame("simple-command")
          /\ Nth(w, Len(u) + 2) = Frame("saved_fifos")
      BY <1>3, <1>7, <3>1, Raised
    <3>3. Len(P) = 2 /\ P[1] = Frame("simple-command") /\ P[2] = Frame("saved_fifos")
      BY <1>2, <1>5, <2>1, Shapes
    <3>4. \A m \in 1 .. Len(P) : m = 1 \/ m = 2
      BY <3>3
    <3> QED
      BY <3>2, <3>3, <3>4
  <2>2. CASE kind \notin Named
    <3>1. w = u
      BY <1>7, <2>2 DEF Begin, Named
    <3>2. kind \in {"group", "null"}
      BY <2>2 DEF Named, Kinds
    <3>3. Len(P) = 0
      BY <1>2, <1>5, <3>2, Shapes
    <3>4. IsSeq(u) /\ Len(u) \in Nat
      BY <1>3, <1>7, BelowItself
    <3> QED
      BY <3>1, <3>3, <3>4
  <2> QED
    BY <2>1, <2>2
<1>9. /\ IsSeq(unwind_protect_list') /\ Len(unwind_protect_list') = height[n] + Len(P)
      /\ \A h \in 1 .. height[n] : Nth(unwind_protect_list', h) = Nth(unwind_protect_list, h)
      /\ \A m \in 1 .. Len(P) : Nth(unwind_protect_list', height[n] + m) = P[m]
  BY <1>3, <1>7, <1>8 DEF Nth
<1>10. P = Protected(c)
  BY <1>2
<1> QED
  BY <1>1, <1>4, <1>5, <1>6, <1>9, <1>10, ForMore
IsBody(c, t, mine, exec) ==
  \/ c = [t EXCEPT !.running = TRUE, !.my_undo_list = mine, !.exec_undo_list = exec]
  \/ c = [t EXCEPT !.running = TRUE, !.my_undo_list = mine] /\ exec = t.exec_undo_list

LEMMA Begun ==
  ASSUME NEW t, ProperCall(t), t.kind \in {"group", "function", "builtin"}, NEW mine, NEW exec,
         NEW c, IsBody(c, t, mine, exec)
  PROVE  /\ ProperCall(c) /\ c.kind = t.kind /\ c.running
         /\ c.my_undo_list = mine /\ c.exec_undo_list = exec
<1>1. PICK kind \in Kinds, running \in BOOLEAN :
        \E old, ex : t = [kind |-> kind, running |-> running,
                           my_undo_list |-> old, exec_undo_list |-> ex]
  BY DEF ProperCall
<1>2. PICK old, ex : t = [kind |-> kind, running |-> running,
                           my_undo_list |-> old, exec_undo_list |-> ex]
  BY <1>1
<1>3. c = [kind |-> kind, running |-> TRUE, my_undo_list |-> mine, exec_undo_list |-> exec]
  <2>1. CASE c = [t EXCEPT !.running = TRUE, !.my_undo_list = mine, !.exec_undo_list = exec]
    BY <1>2, <2>1
  <2>2. CASE c = [t EXCEPT !.running = TRUE, !.my_undo_list = mine] /\ exec = t.exec_undo_list
    <3>1. exec = ex
      BY <1>2, <2>2
    <3> QED
      BY <1>2, <2>2, <3>1
  <2> QED
    BY <2>1, <2>2 DEF IsBody
<1>4. /\ c.kind = t.kind /\ c.kind = kind /\ c.running = TRUE
      /\ c.my_undo_list = mine /\ c.exec_undo_list = exec
  BY <1>2, <1>3
<1>5. c.kind \notin {"exec", "null"} /\ c.kind # "handler"
  BY <1>4
<1>6. ProperCall(c)
  BY <1>3, <1>4, <1>5, Zenon DEF ProperCall
<1> QED
  BY <1>4, <1>6

LEMMA TopRedirects ==
  ASSUME Winding, Redirecting
  PROVE  calls # <<>> /\ ProperCall(Top) /\ ~Top.running
<1>1. calls # <<>> /\ ~Top.running
  BY DEF Redirecting, Running
<1> QED
  BY <1>1, TopCall DEF Winding

LEMMA EnterGroupWinds ==
  ASSUME Winding, EnterGroup
  PROVE  Winding'
<1>1. calls # <<>> /\ ProperCall(Top) /\ ~Top.running /\ Top.kind = "group"
  BY TopRedirects DEF EnterGroup
<1>2. PICK mine, exec : mine = redirection_undo_list /\ exec = exec_redirection_undo_list
  OBVIOUS
<1>3. PICK c : c = [Top EXCEPT !.running = TRUE, !.my_undo_list = mine, !.exec_undo_list = exec]
  OBVIOUS
<1>4. /\ ProperCall(c) /\ c.kind = "group" /\ c.running
      /\ c.my_undo_list = mine /\ c.exec_undo_list = exec
  <2>1. IsBody(c, Top, mine, exec)
    BY <1>3, Zenon DEF IsBody
  <2> QED
    BY <1>1, <2>1, Begun
<1>5. calls' = WithTop(c)
  BY <1>2, <1>3 DEF EnterGroup
<1>6. PICK P, old : P = Protected(c) /\ old = Protected(Top)
  OBVIOUS
<1>7. Len(old) = 0
  BY <1>1, <1>6, Shapes DEF ProperCall
<1>8. PICK u, w : u = unwind_protect_list /\ w = unwind_protect_list'
  OBVIOUS
<1>9. IsSeq(u) /\ Len(u) \in Nat
  BY <1>1, <1>8, TopCall DEF Winding
<1>10. PICK x, y : x = Frame("loop_redirections") /\ y = Cleanup("cleanup_redirects", mine)
  OBVIOUS
<1>11. w = IF mine = <<>> THEN IF exec = <<>> THEN u ELSE Push(x, u) ELSE Push(y, Push(x, u))
  BY <1>2, <1>8, <1>10, PushedBy DEF EnterGroup
<1>12. /\ Len(P) \in Nat /\ IsSeq(w) /\ Len(w) = Len(u) + Len(P)
       /\ \A h \in 1 .. Len(u) : Nth(w, h) = Nth(u, h)
       /\ \A m \in 1 .. Len(P) : Nth(w, Len(u) + m) = P[m]
  <2>1. CASE mine = <<>> /\ exec = <<>>
    <3>1. w = u /\ Len(P) = 0
      BY <1>4, <1>6, <1>11, <2>1, Shapes
    <3> QED
      BY <1>9, <3>1
  <2>2. CASE mine = <<>> /\ exec # <<>>
    <3>1. Len(P) = 1 /\ P[1] = x
      BY <1>4, <1>6, <1>10, <2>2, Shapes
    <3>2. /\ IsSeq(w) /\ Len(w) = Len(u) + 1 /\ Nth(w, Len(u) + 1) = x
          /\ \A h \in 1 .. Len(u) : Nth(w, h) = Nth(u, h)
      BY <1>9, <1>11, <2>2, Pushed
    <3> QED
      BY <3>1, <3>2
  <2>3. CASE mine # <<>>
    <3>1. Len(P) = 2 /\ P[1] = x /\ P[2] = y
      BY <1>4, <1>6, <1>10, <2>3, Shapes
    <3>2. w = Push(y, Push(x, u))
      BY <1>11, <2>3
    <3>3. /\ IsSeq(w) /\ Len(w) = Len(u) + 2
          /\ \A h \in 1 .. Len(u) : Nth(w, h) = Nth(u, h)
          /\ Nth(w, Len(u) + 1) = x /\ Nth(w, Len(u) + 2) = y
      BY <1>9, <3>2, Raised
    <3>4. \A m \in 1 .. Len(P) : m = 1 \/ m = 2
      BY <3>1
    <3> QED
      BY <3>1, <3>3, <3>4
  <2> QED
    BY <2>1, <2>2, <2>3
<1>13. /\ Len(old) <= Len(P) /\ \A m \in 1 .. Len(old) : P[m] = old[m]
       /\ Len(w) = Len(u) + (Len(P) - Len(old))
       /\ \A j \in 1 .. Len(P) - Len(old) : Nth(w, Len(u) + j) = P[Len(old) + j]
  <2>1. Len(P) - Len(old) = Len(P) /\ \A j \in 1 .. Len(P) : Len(old) + j = j
    BY <1>7, <1>12
  <2> QED
    BY <1>7, <1>12, <2>1
<1>15. Gains(w, unwind_protect_list, Protected(c), Protected(Top))
  BY <1>6, <1>8, <1>12, <1>13, Zenon DEF Gains
<1>14. Top.kind # "handler"
  BY <1>1
<1> QED
  BY <1>1, <1>4, <1>5, <1>8, <1>14, <1>15, Grown

LEMMA EnterBuiltinOrFunctionWinds ==
  ASSUME Winding, EnterBuiltinOrFunction
  PROVE  Winding'
<1>1. /\ calls # <<>> /\ ProperCall(Top) /\ ~Top.running /\ Top.kind \in {"function", "builtin"}
      /\ Top.kind # "handler"
  BY TopRedirects DEF EnterBuiltinOrFunction
<1>2. PICK mine : mine = redirection_undo_list
  OBVIOUS
<1>3. PICK c : c = [Top EXCEPT !.running = TRUE, !.my_undo_list = mine]
  OBVIOUS
<1>4. ProperCall(c) /\ c.kind = Top.kind /\ c.running /\ c.my_undo_list = mine
  <2>1. IsBody(c, Top, mine, Top.exec_undo_list)
    BY <1>3, Zenon DEF IsBody
  <2> QED
    BY <1>1, <2>1, Begun
<1>5. calls' = WithTop(c)
  BY <1>2, <1>3 DEF EnterBuiltinOrFunction
<1>6. PICK P, old : P = Protected(c) /\ old = Protected(Top)
  OBVIOUS
<1>7. Len(old) = 2 /\ old[1] = Frame("simple-command") /\ old[2] = Frame("saved_fifos")
  BY <1>1, <1>6, Shapes DEF Named
<1>8. PICK u, w : u = unwind_protect_list /\ w = unwind_protect_list'
  OBVIOUS
<1>9. IsSeq(u) /\ Len(u) \in Nat
  BY <1>1, <1>8, TopCall DEF Winding
<1>10. PICK x, y : x = Frame("saved-redirects") /\ y = Cleanup("cleanup_redirects", mine)
  OBVIOUS
<1>11. PICK v : v = IF mine = <<>> THEN u ELSE Push(y, Push(x, u))
  OBVIOUS
<1>12. w = IF Top.kind = "function" THEN Push(Frame("function_calling"), v)
           ELSE Push(Frame("pe_dispose"), Push(Frame("parse_and_execute_top"), v))
  BY <1>2, <1>8, <1>10, <1>11, PushedBy DEF EnterBuiltinOrFunction, BodyFrames
<1>13. PICK q : q = IF mine = <<>> THEN 0 ELSE 2
  OBVIOUS
<1>14. /\ q \in 0 .. 2 /\ IsSeq(v) /\ Len(v) = Len(u) + q
       /\ \A h \in 1 .. Len(u) : Nth(v, h) = Nth(u, h)
       /\ q = 2 => Nth(v, Len(u) + 1) = x /\ Nth(v, Len(u) + 2) = y
  <2>1. CASE mine = <<>>
    BY <1>9, <1>11, <1>13, <2>1
  <2>2. CASE mine # <<>>
    <3>1. v = Push(y, Push(x, u)) /\ q = 2
      BY <1>11, <1>13, <2>2
    <3>2. /\ IsSeq(v) /\ Len(v) = Len(u) + 2
          /\ \A h \in 1 .. Len(u) : Nth(v, h) = Nth(u, h)
          /\ Nth(v, Len(u) + 1) = x /\ Nth(v, Len(u) + 2) = y
      BY <1>9, <3>1, Raised
    <3> QED
      BY <3>1, <3>2
  <2> QED
    BY <2>1, <2>2
<1>15. PICK r : r = IF Top.kind = "function" THEN 1 ELSE 2
  OBVIOUS
<1>16. /\ r \in 1 .. 2 /\ IsSeq(w) /\ Len(w) = Len(v) + r
       /\ \A h \in 1 .. Len(v) : Nth(w, h) = Nth(v, h)
       /\ Top.kind = "function" => Nth(w, Len(v) + 1) = Frame("function_calling")
       /\ Top.kind = "builtin" => /\ Nth(w, Len(v) + 1) = Frame("parse_and_execute_top")
                                  /\ Nth(w, Len(v) + 2) = Frame("pe_dispose")
  <2>1. CASE Top.kind = "function"
    <3>1. w = Push(Frame("function_calling"), v) /\ r = 1
      BY <1>12, <1>15, <2>1
    <3>2. /\ IsSeq(w) /\ Len(w) = Len(v) + 1 /\ Nth(w, Len(v) + 1) = Frame("function_calling")
          /\ \A h \in 1 .. Len(v) : Nth(w, h) = Nth(v, h)
      BY <1>14, <3>1, Pushed
    <3> QED
      BY <2>1, <3>1, <3>2
  <2>2. CASE Top.kind = "builtin"
    <3>1. w = Push(Frame("pe_dispose"), Push(Frame("parse_and_execute_top"), v)) /\ r = 2
      BY <1>12, <1>15, <2>2
    <3>2. /\ IsSeq(w) /\ Len(w) = Len(v) + 2
          /\ \A h \in 1 .. Len(v) : Nth(w, h) = Nth(v, h)
          /\ Nth(w, Len(v) + 1) = Frame("parse_and_execute_top")
          /\ Nth(w, Len(v) + 2) = Frame("pe_dispose")
      BY <1>14, <3>1, Raised
    <3> QED
      BY <2>2, <3>1, <3>2
  <2> QED
    BY <1>1, <2>1, <2>2
<1>17. /\ Len(P) = 2 + q + r
       /\ P[1] = Frame("simple-command") /\ P[2] = Frame("saved_fifos")
       /\ q = 2 => P[3] = x /\ P[4] = y
       /\ Top.kind = "function" => P[3 + q] = Frame("function_calling")
       /\ Top.kind = "builtin" => /\ P[3 + q] = Frame("parse_and_execute_top")
                                  /\ P[4 + q] = Frame("pe_dispose")
  <2>1. CASE c.kind = "function" /\ c.my_undo_list = <<>>
    <3>1. q = 0 /\ r = 1 /\ Top.kind # "builtin"
      BY <1>4, <1>13, <1>15, <2>1
    <3>2. Len(P) = 3 /\ P[1] = Frame("simple-command") /\ P[2] = Frame("saved_fifos")
          /\ P[3] = Frame("function_calling")
      BY <1>4, <1>6, <2>1, Shapes
    <3> QED
      BY <3>1, <3>2
  <2>2. CASE c.kind = "function" /\ c.my_undo_list # <<>>
    <3>1. q = 2 /\ r = 1 /\ Top.kind # "builtin"
      BY <1>4, <1>13, <1>15, <2>2
    <3>2. Len(P) = 5 /\ P[1] = Frame("simple-command") /\ P[2] = Frame("saved_fifos")
          /\ P[3] = x /\ P[4] = y /\ P[5] = Frame("function_calling")
      BY <1>4, <1>6, <1>10, <2>2, Shapes
    <3> QED
      BY <3>1, <3>2
  <2>3. CASE c.kind = "builtin" /\ c.my_undo_list = <<>>
    <3>1. q = 0 /\ r = 2 /\ Top.kind # "function"
      BY <1>4, <1>13, <1>15, <2>3
    <3>2. Len(P) = 4 /\ P[1] = Frame("simple-command") /\ P[2] = Frame("saved_fifos")
          /\ P[3] = Frame("parse_and_execute_top") /\ P[4] = Frame("pe_dispose")
      BY <1>4, <1>6, <2>3, Shapes
    <3> QED
      BY <3>1, <3>2
  <2>4. CASE c.kind = "builtin" /\ c.my_undo_list # <<>>
    <3>1. q = 2 /\ r = 2 /\ Top.kind # "function"
      BY <1>4, <1>13, <1>15, <2>4
    <3>2. Len(P) = 6 /\ P[1] = Frame("simple-command") /\ P[2] = Frame("saved_fifos")
          /\ P[3] = x /\ P[4] = y
          /\ P[5] = Frame("parse_and_execute_top") /\ P[6] = Frame("pe_dispose")
      BY <1>4, <1>6, <1>10, <2>4, Shapes
    <3> QED
      BY <3>1, <3>2
  <2> QED
    BY <1>1, <1>4, <2>1, <2>2, <2>3, <2>4
<1>18. /\ Len(old) <= Len(P) /\ Len(w) = Len(u) + (Len(P) - Len(old))
       /\ \A h \in 1 .. Len(u) : Nth(w, h) = Nth(u, h)
  BY <1>7, <1>9, <1>14, <1>16, <1>17
<1>19. \A m \in 1 .. Len(old) : P[m] = old[m]
  <2>1. \A m \in 1 .. Len(old) : m = 1 \/ m = 2
    BY <1>7
  <2> QED
    BY <1>7, <1>17, <2>1
<1>20. ASSUME NEW j \in 1 .. Len(P) - Len(old)
       PROVE  Nth(w, Len(u) + j) = P[Len(old) + j]
  <2>1. CASE j <= q
    <3>1. q = 2 /\ (j = 1 \/ j = 2) /\ Len(u) + j \in 1 .. Len(v)
      <4>1. q \in 0 .. 2 /\ Len(v) = Len(u) + q /\ j \in Nat /\ j >= 1
        BY <1>7, <1>14, <1>16, <1>17
      <4>2. q = 0 \/ q = 2
        BY <1>13
      <4> QED
        BY <1>9, <2>1, <4>1, <4>2
    <3>2. Nth(w, Len(u) + j) = Nth(v, Len(u) + j)
      BY <1>16, <3>1
    <3> QED
      BY <1>7, <1>14, <1>17, <3>1, <3>2
  <2>2. CASE j > q
    <3>1. PICK t : t = j - q
      OBVIOUS
    <3>2. /\ t = 1 \/ (t = 2 /\ Top.kind = "builtin")
          /\ Len(u) + j = Len(v) + t /\ Len(old) + j = 2 + q + t
      <4>1. /\ q \in 0 .. 2 /\ Len(v) = Len(u) + q /\ r \in 1 .. 2
            /\ j \in Nat /\ j <= q + r /\ (r = 2 => Top.kind # "function")
        BY <1>7, <1>14, <1>15, <1>16, <1>17
      <4>2. t = 1 \/ (t = 2 /\ r = 2)
        BY <2>2, <3>1, <4>1
      <4>3. Len(u) + j = Len(v) + t /\ Len(old) + j = 2 + q + t
        BY <1>7, <1>9, <3>1, <4>1
      <4> QED
        BY <1>1, <1>15, <4>2, <4>3
    <3>3. CASE t = 1
      BY <1>1, <1>14, <1>16, <1>17, <3>2, <3>3
    <3>4. CASE t = 2 /\ Top.kind = "builtin"
      BY <1>14, <1>16, <1>17, <3>2, <3>4
    <3> QED
      BY <3>2, <3>3, <3>4
  <2> QED
    BY <1>14, <2>1, <2>2
<1>21. Gains(w, unwind_protect_list, Protected(c), Protected(Top))
  BY <1>6, <1>8, <1>16, <1>18, <1>19, <1>20, Zenon DEF Gains
<1> QED
  BY <1>1, <1>4, <1>5, <1>8, <1>21, Grown
\* The top one is over, and its frame is discarded if it has one.
LEMMA TopOver ==
  ASSUME Winding, calls # <<>>, calls' = Popped, NEW tag, NEW P, P = Protected(Top),
         \/ Len(P) = 0 /\ unwind_protect_list' = unwind_protect_list
         \/ /\ Len(P) >= 1 /\ IsFrame(P[1], tag) /\ \A m \in 2 .. Len(P) : ~IsFrame(P[m], tag)
            /\ unwind_protect_list' = discard_unwind_frame(unwind_protect_list, tag)
  PROVE  Winding'
<1>1. PICK height : Stacked(unwind_protect_list, calls, height)
  BY DEF Winding
<1>2. PICK n, u, b : n = Len(calls) /\ u = unwind_protect_list /\ b = height[n - 1]
  OBVIOUS
<1>3. /\ n \in Nat /\ n >= 1 /\ Top = calls[n] /\ IsSeq(u) /\ Len(u) \in Nat /\ b \in Nat
      /\ height[n] = Len(u) /\ height[n] = b + Len(P) /\ Len(P) \in Nat
  BY <1>1, <1>2, TopCall
<1>4. Prefix(calls', calls, n - 1)
  BY <1>1, <1>2, TopCall
<1>5. Below(u, u, Len(u))
  BY <1>3, BelowItself
<1>6. Below(unwind_protect_list', u, b)
  <2>1. CASE Len(P) = 0 /\ unwind_protect_list' = unwind_protect_list
    <3>1. b = Len(u) /\ unwind_protect_list' = u
      BY <1>2, <1>3, <2>1
    <3> QED
      BY <1>5, <3>1
  <2>2. CASE /\ Len(P) >= 1 /\ IsFrame(P[1], tag) /\ \A m \in 2 .. Len(P) : ~IsFrame(P[m], tag)
             /\ unwind_protect_list' = discard_unwind_frame(unwind_protect_list, tag)
    <3>1. n \in 1 .. Len(calls) /\ 1 \in 1 .. Len(P) /\ P = Protected(calls[n])
      BY <1>2, <1>3, <2>2
    <3>2. IsFrame(P[1], tag) /\ \A m \in 1 + 1 .. Len(P) : ~IsFrame(P[m], tag)
      BY <2>2
    <3>3. height[n - 1] + 1 <= Len(u) /\ Len(u) <= height[n]
      BY <1>2, <1>3, <2>2
    <3>4. Stacked(u, calls, height)
      BY <1>1, <1>2
    <3>5. Below(discard_unwind_frame(u, tag), u, height[n - 1] + 1 - 1)
      BY <1>5, <3>1, <3>2, <3>3, <3>4, DiscardCall
    <3>6. height[n - 1] + 1 - 1 = b
      BY <1>2, <1>3
    <3> QED
      BY <1>2, <2>2, <3>5, <3>6
  <2> QED
    BY <2>1, <2>2
<1>7. Below(unwind_protect_list', unwind_protect_list, height[n - 1])
  BY <1>2, <1>6
<1> QED
  BY <1>1, <1>4, <1>7, ForLess

LEMMA FailCommandWinds ==
  ASSUME Winding, Redirecting, NEW s, FailCommand(s)
  PROVE  Winding'
<1>1. calls # <<>> /\ ProperCall(Top) /\ ~Top.running
  BY TopRedirects
<1>2. PICK P : P = Protected(Top)
  OBVIOUS
<1>3. calls' = Popped
  BY DEF FailCommand
<1>4. CASE Top.kind \in Named
  <2>1. unwind_protect_list' = discard_unwind_frame(unwind_protect_list, "simple-command")
    BY <1>4 DEF FailCommand, Named
  <2>2. /\ Len(P) >= 1 /\ IsFrame(P[1], "simple-command")
        /\ \A m \in 2 .. Len(P) : ~IsFrame(P[m], "simple-command")
    BY <1>1, <1>2, <1>4, TagPlaces
  <2> QED
    BY <1>1, <1>2, <1>3, <2>1, <2>2, TopOver
<1>5. CASE Top.kind \notin Named
  <2>1. unwind_protect_list' = unwind_protect_list
    BY <1>5 DEF FailCommand, Named
  <2>2. Top.kind \in {"group", "null"}
    BY <1>1, <1>5 DEF ProperCall, Kinds, Named
  <2>3. Len(P) = 0
    BY <1>1, <1>2, <2>2, Shapes DEF ProperCall
  <2> QED
    BY <1>1, <1>2, <1>3, <2>1, <2>3, TopOver
<1> QED
  BY <1>4, <1>5

LEMMA PerformWinds ==
  ASSUME Winding, NEW r, Perform(r)
  PROVE  Winding'
<1>1. Redirecting
  BY DEF Perform
<1>2. PICK result : result = do_redirection_internal(Shell, r, TRUE)
  OBVIOUS
<1>3. \/ FailCommand(result.s)
      \/ calls' = calls /\ unwind_protect_list' = unwind_protect_list
  BY <1>2 DEF Perform
<1>4. CASE FailCommand(result.s)
  BY <1>1, <1>4, FailCommandWinds
<1>5. CASE calls' = calls /\ unwind_protect_list' = unwind_protect_list
  BY <1>5 DEF Winding
<1> QED
  BY <1>3, <1>4, <1>5

LEMMA ExecBuiltinWinds ==
  ASSUME Winding, ExecBuiltin
  PROVE  Winding'
<1>1. calls # <<>> /\ ProperCall(Top) /\ Top.kind \in Named
  BY TopRedirects DEF ExecBuiltin, Named
<1>2. PICK P : P = Protected(Top)
  OBVIOUS
<1>3. /\ calls' = Popped
      /\ unwind_protect_list' = discard_unwind_frame(unwind_protect_list, "simple-command")
  BY DEF ExecBuiltin
<1>4. /\ Len(P) >= 1 /\ IsFrame(P[1], "simple-command")
      /\ \A m \in 2 .. Len(P) : ~IsFrame(P[m], "simple-command")
  BY <1>1, <1>2, TagPlaces
<1> QED
  BY <1>1, <1>2, <1>3, <1>4, TopOver

LEMMA LeaveGroupWinds ==
  ASSUME Winding, LeaveGroup
  PROVE  Winding'
<1>1. calls # <<>> /\ ProperCall(Top) /\ Top.kind = "group" /\ calls' = Popped
  BY TopCall DEF LeaveGroup, Winding
<1>2. PICK P : P = Protected(Top)
  OBVIOUS
<1>3. CASE Top.my_undo_list = <<>> /\ Top.exec_undo_list = <<>>
  <2>1. unwind_protect_list' = unwind_protect_list
    BY <1>3 DEF LeaveGroup
  <2>2. Len(P) = 0
    BY <1>1, <1>2, <1>3, Shapes
  <2> QED
    BY <1>1, <1>2, <2>1, <2>2, TopOver
<1>4. CASE ~(Top.my_undo_list = <<>> /\ Top.exec_undo_list = <<>>)
  <2>1. unwind_protect_list' = discard_unwind_frame(unwind_protect_list, "loop_redirections")
    BY <1>4 DEF LeaveGroup
  <2>2. /\ Len(P) >= 1 /\ IsFrame(P[1], "loop_redirections")
        /\ \A m \in 2 .. Len(P) : ~IsFrame(P[m], "loop_redirections")
    BY <1>1, <1>2, <1>4, TagPlaces
  <2> QED
    BY <1>1, <1>2, <2>1, <2>2, TopOver
<1> QED
  BY <1>3, <1>4

LEMMA EndTrapWinds ==
  ASSUME Winding, EndTrap
  PROVE  Winding'
<1>1. /\ calls # <<>> /\ ProperCall(Top) /\ Top.kind = "handler" /\ calls' = Popped
      /\ unwind_protect_list' = discard_unwind_frame(unwind_protect_list, "parse_and_execute_top")
  BY TopCall DEF EndTrap, Winding
<1>2. PICK P : P = Protected(Top)
  OBVIOUS
<1>3. Len(P) = 2 /\ IsFrame(P[1], "parse_and_execute_top") /\ ~IsFrame(P[2], "parse_and_execute_top")
  BY <1>1, <1>2, TagPlaces
<1>4. /\ Len(P) >= 1 /\ IsFrame(P[1], "parse_and_execute_top")
      /\ \A m \in 2 .. Len(P) : ~IsFrame(P[m], "parse_and_execute_top")
  BY <1>3
<1> QED
  BY <1>1, <1>2, <1>4, TopOver

LEMMA RunTrapWinds ==
  ASSUME Winding, RunTrap
  PROVE  Winding'
<1>1. PICK height : Stacked(unwind_protect_list, calls, height)
  BY DEF Winding
<1>2. PICK n, c, P : n = Len(calls) /\ c = Call("handler", TRUE) /\ P = Protected(c)
  OBVIOUS
<1>3. IsSeq(calls) /\ IsSeq(unwind_protect_list) /\ height[n] = Len(unwind_protect_list)
  BY <1>1, <1>2 DEF Stacked, Proper
<1>4. Extension(calls', calls, n, c)
  <2>1. calls' = Append(calls, c)
    BY <1>2 DEF RunTrap
  <2> QED
    BY <2>1, <1>2, <1>3, CallLists
<1>5. ProperCall(c) /\ c.kind = "handler"
  BY <1>2, ProperCalls DEF Call
<1>6. PICK u, w, x, y : /\ u = unwind_protect_list /\ w = unwind_protect_list'
                        /\ x = Frame("parse_and_execute_top") /\ y = Frame("pe_dispose")
  OBVIOUS
<1>7. w = Push(y, Push(x, u))
  BY <1>6, PushedBy DEF RunTrap, BodyFrames
<1>8. /\ IsSeq(w) /\ Len(w) = Len(u) + 2
      /\ \A h \in 1 .. Len(u) : Nth(w, h) = Nth(u, h)
      /\ Nth(w, Len(u) + 1) = x /\ Nth(w, Len(u) + 2) = y
  BY <1>3, <1>6, <1>7, Raised
<1>9. Len(P) = 2 /\ P[1] = x /\ P[2] = y
  BY <1>2, <1>5, <1>6, Shapes
<1>10. \A m \in 1 .. Len(P) : m = 1 \/ m = 2
  BY <1>9
<1>11. /\ IsSeq(unwind_protect_list') /\ Len(unwind_protect_list') = height[n] + Len(P)
       /\ \A h \in 1 .. height[n] : Nth(unwind_protect_list', h) = Nth(unwind_protect_list, h)
       /\ \A m \in 1 .. Len(P) : Nth(unwind_protect_list', height[n] + m) = P[m]
  BY <1>3, <1>6, <1>8, <1>9, <1>10 DEF Nth
<1>12. P = Protected(c)
  BY <1>2
<1> QED
  BY <1>1, <1>4, <1>5, <1>11, <1>12, ForMore

\* Down to where the end of a function or a builtin, wherever it stands, runs
\* the list: to below the frame of its body, but not to its own cleanup.
LEMMA FinishFrame ==
  ASSUME NEW height, Stacked(unwind_protect_list, calls, height),
         NEW i \in DOMAIN calls, calls[i].running,
         \/ /\ calls[i].kind = "function"
            /\ \A k \in i + 1 .. Len(calls) : calls[k].kind # "function"
         \/ calls[i].kind = "builtin" /\ i = Len(calls),
         NEW frame, frame = IF calls[i].kind = "function" THEN "function_calling"
                            ELSE "parse_and_execute_top"
  PROVE  \E L \in Nat :
           /\ Below(discard_unwind_frame(unwind_protect_list, frame), unwind_protect_list, L)
           /\ height[i - 1] + 1 <= L /\ L <= height[i]
           /\ calls[i].my_undo_list # <<>> => height[i - 1] + CleanupAt(calls[i]) <= L
<1>2. PICK n, u, P : n = Len(calls) /\ u = unwind_protect_list /\ P = Protected(calls[i])
  OBVIOUS
<1>3. /\ n \in Nat /\ i \in 1 .. n /\ i - 1 \in 0 .. n /\ IsSeq(u) /\ IsSeq(calls)
      /\ Stacked(u, calls, height) /\ ProperCall(calls[i])
  BY <1>2 DEF Stacked, Proper, IsSeq
<1>4. Below(u, u, Len(u)) /\ Len(u) \in Nat
  BY <1>3, BelowItself
<1>5. /\ height[i - 1] \in Nat /\ height[i] \in Nat /\ height[i] <= Len(u)
      /\ height[i] = height[i - 1] + Len(P) /\ Len(P) \in Nat
  <2>1. i \in 0 .. n
    BY <1>3
  <2> QED
    BY <1>2, <1>3, <2>1, Numbers DEF Stacked
<1>6. PICK p : \/ calls[i].kind = "function" /\ p = Len(P)
               \/ calls[i].kind = "builtin" /\ p = Len(P) - 1
  OBVIOUS
<1>7. PICK v : v = discard_unwind_frame(u, frame)
  OBVIOUS
<1>9. /\ p \in 3 .. Len(P) /\ IsFrame(P[p], frame)
      /\ \A m \in p + 1 .. Len(P) : ~IsFrame(P[m], frame)
      /\ calls[i].my_undo_list # <<>> => p = 5
  <2>1. CASE calls[i].kind = "function"
    <3>1. Len(P) >= 3 /\ IsFrame(P[Len(P)], "function_calling")
      BY <1>2, <1>3, <2>1, TagPlaces
    <3>2. frame = "function_calling" /\ p = Len(P)
      BY <1>6, <2>1
    <3>3. p \in 3 .. Len(P) /\ \A m \in p + 1 .. Len(P) : FALSE
      BY <1>5, <3>1, <3>2
    <3>4. calls[i].my_undo_list # <<>> => Len(P) = 5
      BY <1>2, <1>3, <2>1, Shapes
    <3> QED
      BY <3>1, <3>2, <3>3, <3>4
  <2>2. CASE calls[i].kind = "builtin"
    <3>1. /\ Len(P) >= 4 /\ IsFrame(P[Len(P) - 1], "parse_and_execute_top")
          /\ ~IsFrame(P[Len(P)], "parse_and_execute_top")
      BY <1>2, <1>3, <2>2, TagPlaces
    <3>2. frame = "parse_and_execute_top" /\ p = Len(P) - 1
      BY <1>6, <2>2
    <3>3. p \in 3 .. Len(P) /\ \A m \in p + 1 .. Len(P) : m = Len(P)
      BY <1>5, <3>1, <3>2
    <3>4. calls[i].my_undo_list # <<>> => Len(P) = 6
      BY <1>2, <1>3, <2>2, Shapes
    <3> QED
      BY <3>1, <3>2, <3>3, <3>4
  <2> QED
    BY <2>1, <2>2
<1>10. \/ Len(u) <= height[i]
       \/ \A k \in i + 1 .. Len(calls) : \A m \in 1 .. Len(Protected(calls[k])) :
            ~IsFrame(Protected(calls[k])[m], frame)
  <2>1. CASE /\ calls[i].kind = "function"
             /\ \A k \in i + 1 .. Len(calls) : calls[k].kind # "function"
    <3>1. frame = "function_calling"
      BY <2>1
    <3>2. ASSUME NEW k \in i + 1 .. Len(calls), NEW m \in 1 .. Len(Protected(calls[k]))
          PROVE  ~IsFrame(Protected(calls[k])[m], frame)
      <4>1. ProperCall(calls[k]) /\ calls[k].kind # "function"
        <5>1. k \in 1 .. Len(calls)
          BY <1>2, <1>3
        <5> QED
          BY <2>1, <5>1 DEF Stacked, Proper
      <4> QED
        BY <3>1, <4>1, OthersHaveNoSuchFrame
    <3> QED
      BY <3>2
  <2>2. CASE calls[i].kind = "builtin" /\ i = Len(calls)
    BY <1>2, <1>3, <1>4, <2>2 DEF Stacked
  <2> QED
    BY <2>1, <2>2
<1>11. p \in 1 .. Len(P) /\ height[i - 1] + p <= Len(u)
  BY <1>5, <1>9
<1>12. Below(v, u, height[i - 1] + p - 1)
  BY <1>2, <1>3, <1>4, <1>7, <1>9, <1>10, <1>11, DiscardCall
<1>13. PICK L : L = height[i - 1] + p - 1
  OBVIOUS
<1>14. L \in Nat /\ height[i - 1] + 1 <= L /\ L <= height[i]
  BY <1>5, <1>9, <1>13
<1>15. calls[i].my_undo_list # <<>> => height[i - 1] + CleanupAt(calls[i]) <= L
  <2>1. calls[i].kind # "group" => CleanupAt(calls[i]) = 4
    BY DEF CleanupAt
  <2> QED
    BY <1>5, <1>9, <1>13, <2>1
<1> QED
  BY <1>2, <1>7, <1>12, <1>13, <1>14, <1>15

\* It discards that frame and then its own.
LEMMA FinishWinds ==
  ASSUME Winding, NEW i \in DOMAIN calls, FinishBuiltinOrFunction(i), calls[i].running,
         \/ /\ calls[i].kind = "function"
            /\ \A k \in i + 1 .. Len(calls) : calls[k].kind # "function"
         \/ calls[i].kind = "builtin" /\ i = Len(calls)
  PROVE  Winding'
<1>1. PICK height : Stacked(unwind_protect_list, calls, height)
  BY DEF Winding
<1>2. PICK n, u, P, frame :
        /\ n = Len(calls) /\ u = unwind_protect_list /\ P = Protected(calls[i])
        /\ frame = IF calls[i].kind = "function" THEN "function_calling"
                   ELSE "parse_and_execute_top"
  OBVIOUS
<1>3. /\ n \in Nat /\ i \in 1 .. n /\ i - 1 \in 0 .. n /\ IsSeq(u) /\ IsSeq(calls)
      /\ Stacked(u, calls, height) /\ ProperCall(calls[i])
  BY <1>1, <1>2 DEF Stacked, Proper, IsSeq
<1>4. PICK v : v = discard_unwind_frame(u, frame)
  OBVIOUS
<1>5. /\ calls' = SubSeq(calls, 1, i - 1)
      /\ unwind_protect_list' = discard_unwind_frame(v, "simple-command")
  BY <1>2, <1>4 DEF FinishBuiltinOrFunction
<1>6. PICK L \in Nat : Below(v, u, L) /\ height[i - 1] + 1 <= L /\ L <= height[i]
  BY <1>1, <1>2, <1>4, FinishFrame
<1>7. height[i - 1] \in Nat /\ Len(P) \in Nat
  <2>1. i \in 0 .. n
    BY <1>3
  <2> QED
    BY <1>2, <1>3, <2>1, Numbers DEF Stacked
<1>8. /\ 1 \in 1 .. Len(P) /\ IsFrame(P[1], "simple-command")
      /\ \A m \in 1 + 1 .. Len(P) : ~IsFrame(P[m], "simple-command")
  <2>1. calls[i].kind \in Named
    BY DEF Named
  <2>2. /\ Len(P) >= 2 /\ IsFrame(P[1], "simple-command")
        /\ \A m \in 2 .. Len(P) : ~IsFrame(P[m], "simple-command")
    BY <1>2, <1>3, <2>1, TagPlaces
  <2> QED
    BY <1>7, <2>2
<1>9. Below(discard_unwind_frame(v, "simple-command"), u, height[i - 1] + 1 - 1)
  BY <1>2, <1>3, <1>6, <1>8, DiscardCall
<1>10. Below(unwind_protect_list', unwind_protect_list, height[i - 1])
  <2>1. height[i - 1] + 1 - 1 = height[i - 1]
    BY <1>7
  <2> QED
    BY <1>2, <1>5, <1>9, <2>1
<1>11. Prefix(calls', calls, i - 1)
  BY <1>2, <1>3, <1>5, CallLists
<1> QED
  BY <1>1, <1>10, <1>11, ForLess

LEMMA LeaveBuiltinOrFunctionWinds ==
  ASSUME Winding, LeaveBuiltinOrFunction
  PROVE  Winding'
<1>1. PICK i : i = Len(calls)
  OBVIOUS
<1>2. /\ i \in DOMAIN calls /\ calls[i].running /\ calls[i].kind \in {"function", "builtin"}
      /\ i \in Nat
  <2>1. PICK height : Stacked(unwind_protect_list, calls, height)
    BY DEF Winding
  <2>2. calls # <<>> /\ Top.running /\ Top.kind \in {"function", "builtin"}
    BY DEF LeaveBuiltinOrFunction
  <2>3. i \in Nat /\ i >= 1 /\ Top = calls[i]
    BY <1>1, <2>1, <2>2, TopCall
  <2>4. DOMAIN calls = 1 .. Len(calls)
    BY <2>1 DEF Stacked, Proper, IsSeq
  <2> QED
    BY <1>1, <2>2, <2>3, <2>4
<1>3. FinishBuiltinOrFunction(i)
  BY <1>1 DEF LeaveBuiltinOrFunction
<1>4. \A k \in i + 1 .. Len(calls) : FALSE
  BY <1>1, <1>2
<1> QED
  BY <1>1, <1>2, <1>3, <1>4, FinishWinds

LEMMA ReturnWinds ==
  ASSUME Winding, Return
  PROVE  Winding'
<1>1. PICK i \in DOMAIN calls :
        /\ calls[i].kind = "function"
        /\ \A k \in i + 1 .. Len(calls) : calls[k].kind \notin {"function", "handler"}
        /\ FinishBuiltinOrFunction(i)
  BY DEF Return
<1>2. PICK height : Stacked(unwind_protect_list, calls, height)
  BY DEF Winding
<1>3. Len(calls) \in Nat /\ DOMAIN calls = 1 .. Len(calls)
  BY <1>2 DEF Stacked, Proper, IsSeq
<1>4. calls[i].running
  <2>1. CASE i = Len(calls)
    <3>1. calls # <<>>
      BY <1>3
    <3>2. Top = calls[i] /\ Top.running
      BY <1>2, <2>1, <3>1, TopCall DEF Return, Running
    <3> QED
      BY <3>2
  <2>2. CASE i # Len(calls)
    <3>1. i \in 1 .. Len(calls) /\ i < Len(calls) /\ i + 1 \in i + 1 .. Len(calls)
      BY <1>3, <2>2
    <3>2. calls[i].running \/ calls[i + 1].kind = "handler"
      BY <1>2, <3>1 DEF Stacked, Proper
    <3> QED
      BY <1>1, <3>1, <3>2
  <2> QED
    BY <2>1, <2>2
<1>5. \A k \in i + 1 .. Len(calls) : calls[k].kind # "function"
  BY <1>1
<1> QED
  BY <1>1, <1>4, <1>5, FinishWinds

LEMMA NothingLeft ==
  ASSUME Winding, calls' = <<>>, unwind_protect_list' = <<>>
  PROVE  Winding'
<1>1. PICK height : Stacked(unwind_protect_list, calls, height)
  BY DEF Winding
<1>2. Len(calls) \in Nat /\ Len(unwind_protect_list) \in Nat /\ height[0] = 0
  BY <1>1, Numbers DEF Stacked
<1>3. IsSeq(<<>>) /\ Len(<<>>) = 0
  BY DEF IsSeq
<1>4. Prefix(calls', calls, 0)
  BY <1>2, <1>3 DEF Prefix
<1>5. Below(unwind_protect_list', unwind_protect_list, height[0])
  BY <1>2, <1>3 DEF Below
<1> QED
  BY <1>1, <1>4, <1>5, ForLess

\* Down to where an error in an expansion runs the list: the innermost of the
\* commands that a string is being evaluated for keeps its own cleanup.
LEMMA ErrorFrame ==
  ASSUME NEW height, Stacked(unwind_protect_list, calls, height),
         NEW i \in DOMAIN calls, calls[i].kind \in {"builtin", "handler"}, calls[i].running,
         \A k \in i + 1 .. Len(calls) : ~(calls[k].kind \in {"builtin", "handler"} /\ calls[k].running)
  PROVE  \E L \in Nat :
           /\ Below(discard_unwind_frame(unwind_protect_list, "pe_dispose"), unwind_protect_list, L)
           /\ L + 1 = height[i] /\ height[i - 1] <= L
           /\ Nth(unwind_protect_list, L + 1) = Frame("pe_dispose")
           /\ calls[i].my_undo_list # <<>> => height[i - 1] + CleanupAt(calls[i]) <= L
<1>1. PICK u, P, p : u = unwind_protect_list /\ P = Protected(calls[i]) /\ p = Len(P)
  OBVIOUS
<1>2. /\ Len(calls) \in Nat /\ i \in 1 .. Len(calls) /\ IsSeq(u) /\ IsSeq(calls)
      /\ Stacked(u, calls, height) /\ ProperCall(calls[i])
  BY <1>1 DEF Stacked, Proper, IsSeq
<1>3. /\ p \in 1 .. Len(P) /\ P[p] = Frame("pe_dispose") /\ IsFrame(P[p], "pe_dispose")
      /\ Len(P) \in Nat
  <2>1. CASE calls[i].kind = "builtin"
    <3>1. /\ Len(P) \in Nat /\ Len(P) >= 4 /\ P[Len(P)] = Frame("pe_dispose")
          /\ IsFrame(P[Len(P)], "pe_dispose")
      BY <1>1, <1>2, <2>1, TagPlaces
    <3> QED
      BY <1>1, <3>1
  <2>2. CASE calls[i].kind = "handler"
    <3>1. Len(P) = 2 /\ P[2] = Frame("pe_dispose") /\ IsFrame(P[2], "pe_dispose")
      BY <1>1, <1>2, <2>2, TagPlaces
    <3> QED
      BY <1>1, <3>1
  <2> QED
    BY <2>1, <2>2
<1>4. calls[i].my_undo_list # <<>> => p = 6 /\ CleanupAt(calls[i]) = 4
  <2> SUFFICES ASSUME calls[i].my_undo_list # <<>>
               PROVE  p = 6 /\ CleanupAt(calls[i]) = 4
    OBVIOUS
  <2>1. calls[i].kind = "builtin"
    BY <1>2 DEF ProperCall
  <2> QED
    BY <1>1, <1>2, <2>1, Shapes DEF CleanupAt
<1>5. ASSUME NEW k \in i + 1 .. Len(calls), NEW m \in 1 .. Len(Protected(calls[k]))
      PROVE  ~IsFrame(Protected(calls[k])[m], "pe_dispose")
  <2>1. k \in 1 .. Len(calls)
    BY <1>2
  <2>2. ProperCall(calls[k])
    BY <2>1 DEF Stacked, Proper
  <2> QED
    BY <2>2, OthersHaveNoSuchFrame
<1>6. /\ height[i - 1] \in Nat /\ height[i] \in Nat /\ height[i] \in 0 .. Len(u)
      /\ height[i] = height[i - 1] + p /\ Len(u) \in Nat
  <2>1. i \in 0 .. Len(calls) /\ i - 1 \in 0 .. Len(calls)
    BY <1>2
  <2> QED
    BY <1>1, <1>2, <2>1, Numbers DEF Stacked
<1>7. Below(u, u, Len(u))
  BY <1>2, BelowItself
<1>8. \A m \in p + 1 .. Len(P) : ~IsFrame(P[m], "pe_dispose")
  BY <1>1, <1>3
<1>9. height[i - 1] + p <= Len(u)
  BY <1>6
<1>10. PICK v : v = discard_unwind_frame(u, "pe_dispose")
  OBVIOUS
<1>11. Below(v, u, height[i - 1] + p - 1)
  BY <1>1, <1>2, <1>3, <1>5, <1>7, <1>8, <1>9, <1>10, DiscardCall
<1>12. PICK L : L = height[i - 1] + p - 1
  OBVIOUS
<1>13. L + 1 = height[i] /\ L \in Nat /\ height[i - 1] <= L
  BY <1>3, <1>6, <1>12
<1>14. Nth(u, L + 1) = Frame("pe_dispose")
  <2>1. Nth(u, height[i - 1] + p) = P[p]
    BY <1>1, <1>2, <1>3 DEF Stacked
  <2> QED
    BY <1>3, <1>6, <1>13, <2>1
<1>15. calls[i].my_undo_list # <<>> => height[i - 1] + CleanupAt(calls[i]) <= L
  BY <1>4, <1>6, <1>12
<1> QED
  BY <1>1, <1>10, <1>11, <1>12, <1>13, <1>14, <1>15

LEMMA ExpansionErrorWinds ==
  ASSUME Winding, ExpansionError
  PROVE  Winding'
<1> DEFINE strings == {i \in DOMAIN calls : calls[i].kind \in {"builtin", "handler"} /\ calls[i].running}
<1>1. CASE strings = {}
  <2>1. calls' = <<>> /\ unwind_protect_list' = <<>>
    BY <1>1 DEF ExpansionError, Unwind
  <2> QED
    BY <2>1, NothingLeft
<1>2. CASE strings # {}
  <2>1. PICK i \in strings : (\A k \in strings : k <= i) /\ calls' = SubSeq(calls, 1, i)
    BY <1>2 DEF ExpansionError
  <2>2. unwind_protect_list' =
          begin_unwind_frame(discard_unwind_frame(unwind_protect_list, "pe_dispose"), "pe_dispose")
    BY <1>2 DEF ExpansionError
  <2>3. PICK height : Stacked(unwind_protect_list, calls, height)
    BY DEF Winding
  <2>4. PICK u, v : u = unwind_protect_list /\ v = discard_unwind_frame(u, "pe_dispose")
    OBVIOUS
  <2>5. /\ Len(calls) \in Nat /\ DOMAIN calls = 1 .. Len(calls) /\ i \in 1 .. Len(calls)
        /\ IsSeq(calls)
    BY <2>3 DEF Stacked, Proper, IsSeq
  <2>6. \A k \in i + 1 .. Len(calls) : ~(calls[k].kind \in {"builtin", "handler"} /\ calls[k].running)
    <3>1. \A k \in i + 1 .. Len(calls) : k \in DOMAIN calls /\ ~(k <= i)
      BY <2>5
    <3> QED
      BY <2>1, <3>1
  <2>7. PICK L \in Nat : /\ Below(v, u, L) /\ L + 1 = height[i]
                         /\ Nth(u, L + 1) = Frame("pe_dispose")
    BY <2>3, <2>4, <2>6, ErrorFrame
  <2>8. PICK w : w = Push(Frame("pe_dispose"), v)
    OBVIOUS
  <2>9. IsSeq(v) /\ Len(v) = L /\ \A h \in 1 .. L : Nth(v, h) = Nth(u, h)
    BY <2>7 DEF Below
  <2>10. /\ IsSeq(w) /\ Len(w) = L + 1 /\ Nth(w, L + 1) = Frame("pe_dispose")
         /\ \A h \in 1 .. L : Nth(w, h) = Nth(v, h)
    BY <2>8, <2>9, Pushed
  <2>11. \A h \in 1 .. height[i] : Nth(w, h) = Nth(u, h)
    <3>1. \A h \in 1 .. L + 1 : h \in 1 .. L \/ h = L + 1
      OBVIOUS
    <3>2. \A h \in 1 .. L + 1 : Nth(w, h) = Nth(u, h)
      BY <2>7, <2>9, <2>10, <3>1
    <3> QED
      BY <2>7, <3>2
  <2>12. height[i] \in 0 .. Len(u)
    <3>1. i \in 0 .. Len(calls)
      BY <2>5
    <3> QED
      BY <2>3, <2>4, <3>1, Numbers
  <2>13. Below(w, u, height[i])
    BY <2>7, <2>10, <2>11, <2>12 DEF Below
  <2>14. unwind_protect_list' = w
    BY <2>2, <2>4, <2>8, PushedBy
  <2>15. Prefix(calls', calls, i)
    <3>1. i \in 0 .. Len(calls)
      BY <2>5
    <3> QED
      BY <2>1, <2>5, <3>1, CallLists
  <2>16. Below(unwind_protect_list', unwind_protect_list, height[i])
    BY <2>4, <2>13, <2>14
  <2> QED
    BY <2>3, <2>15, <2>16, ForLess
<1> QED
  BY <1>1, <1>2

LEMMA WindingFirst ==
  ASSUME Init
  PROVE  Winding
<1>1. calls = <<>> /\ unwind_protect_list = <<>>
  BY DEF Init
<1>2. PICK g : g = [k \in 0 .. 0 |-> 0]
  OBVIOUS
<1>3. g \in [0 .. 0 -> Nat] /\ g[0] = 0
  BY <1>2
<1>4. IsSeq(<<>>) /\ Len(<<>>) = 0
  BY DEF IsSeq
<1>5. Proper(<<>>)
  BY <1>4 DEF Proper
<1>6. \A i, k \in 0 .. 0 : g[i] <= g[k]
  BY <1>3
<1>7. Stacked(<<>>, <<>>, g)
  BY <1>3, <1>4, <1>5, <1>6 DEF Stacked
<1> QED
  BY <1>1, <1>7 DEF Winding

LEMMA WindingStep ==
  ASSUME Winding, [Next]_vars
  PROVE  Winding'
<1>1. ASSUME NEW kind \in Kinds \ {"handler"}, Begin(kind)
      PROVE  Winding'
  BY <1>1, BeginWinds
<1>2. ASSUME NEW r \in Menu, Perform(r)
      PROVE  Winding'
  BY <1>2, PerformWinds
<1>3. CASE CannotRedirect
  BY <1>3, FailCommandWinds DEF CannotRedirect
<1>4. CASE EnterGroup
  BY <1>4, EnterGroupWinds
<1>5. CASE EnterBuiltinOrFunction
  BY <1>5, EnterBuiltinOrFunctionWinds
<1>6. CASE ExecBuiltin
  BY <1>6, ExecBuiltinWinds
<1>7. CASE NullCommand
  BY <1>7, FailCommandWinds DEF NullCommand
<1>8. CASE LeaveGroup
  BY <1>8, LeaveGroupWinds
<1>9. CASE LeaveBuiltinOrFunction
  BY <1>9, LeaveBuiltinOrFunctionWinds
<1>10. CASE Return
  BY <1>10, ReturnWinds
<1>11. CASE Interrupt
  BY <1>11, NothingLeft DEF Interrupt, Unwind
<1>12. CASE ExpansionError
  BY <1>12, ExpansionErrorWinds
<1>13. CASE RunTrap
  BY <1>13, RunTrapWinds
<1>14. CASE EndTrap
  BY <1>14, EndTrapWinds
<1>15. CASE UNCHANGED vars
  BY <1>15 DEF vars, Winding
<1> QED
  BY <1>1, <1>2, <1>3, <1>4, <1>5, <1>6, <1>7, <1>8, <1>9, <1>10, <1>11, <1>12, <1>13, <1>14,
     <1>15 DEF Next

(* What an interrupt would undo are the redirections of the commands in     *)
(* progress, innermost first, each once: execute_cmd.c and redir.c keep the *)
(* list in step whatever ends a command, and whatever happens at a bad      *)
(* moment.                                                                  *)
THEOREM CleanupsAreOwed == Spec => []UndoneOnce
<1>1. Init => Winding
  BY WindingFirst
<1>2. Winding /\ [Next]_vars => Winding'
  BY WindingStep
<1>3. Winding => UndoneOnce
  BY StackedOwes DEF Winding
<1> QED
  BY <1>1, <1>2, <1>3, PTL DEF Spec

----------------------------------------------------------------------------
(* The undo lists: a restore of a descriptor from its copy is followed by   *)
(* the close of the copy, and what an entry changes is no copy that it or a *)
(* later one restores from.                                                 *)
Things == Files \cup {"stdout", "stderr", CLOSED}
Closers == {Closer(fd) : fd \in Fds}
Restores == {Restore(x[1], x[2], x[3]) : x \in Fds \X Fds \X BOOLEAN}
Entries == Restores \cup Closers

Targets(list) == {list[p].to : p \in DOMAIN list}

UndoList(list) ==
  /\ list \in Seq(Entries)
  /\ \A p \in DOMAIN list : list[p].ri = "dup" =>
       /\ p < Len(list) /\ list[p + 1] = Closer(list[p].from)
       /\ list[p].saved \/ list[p].to <= 2
  /\ \A p, q \in DOMAIN list : p <= q /\ list[q].ri = "dup" => list[p].to # list[q].from

\* The fields of an entry that closes a descriptor.
LEMMA CloserParts ==
  ASSUME NEW fd
  PROVE  /\ Closer(fd).ri = "close" /\ Closer(fd).to = fd /\ Closer(fd).saved = FALSE
         /\ Closer(fd).internal = TRUE /\ Closer(fd).var = FALSE
BY DEF Closer, Internal, Redirect

\* What an entry of an undo list is.
LEMMA EntryParts ==
  /\ \A r \in Entries : /\ r.ri \in {"dup", "close"} /\ r.internal = TRUE /\ r.var = FALSE
                        /\ r.to \in Fds /\ r.saved \in BOOLEAN
                        /\ r.ri = "dup" => r.from \in Fds
                        /\ r.ri = "close" => r = Closer(r.to)
  /\ \A fd \in Fds : Closer(fd) \in Entries /\ Closer(fd).ri = "close" /\ Closer(fd).to = fd
  /\ \A to, from \in Fds : \A saved \in BOOLEAN : Restore(to, from, saved) \in Entries
<1>1. ASSUME NEW r \in Restores
      PROVE  /\ r.ri = "dup" /\ r.internal = TRUE /\ r.var = FALSE
             /\ r.to \in Fds /\ r.saved \in BOOLEAN /\ r.from \in Fds
  <2>1. PICK x \in Fds \X Fds \X BOOLEAN : r = Restore(x[1], x[2], x[3])
    BY DEF Restores
  <2>2. PICK to \in Fds, from \in Fds, saved \in BOOLEAN : r = Restore(to, from, saved)
    BY <2>1
  <2>3. /\ r.ri = "dup" /\ r.to = to /\ r.from = from /\ r.saved = saved
        /\ r.internal = TRUE /\ r.var = FALSE
    BY <2>2 DEF Restore, Internal, Redirect
  <2> QED
    BY <2>3
<1>2. ASSUME NEW r \in Closers
      PROVE  /\ r.ri = "close" /\ r.internal = TRUE /\ r.var = FALSE
             /\ r.to \in Fds /\ r.saved \in BOOLEAN /\ r = Closer(r.to)
  <2>1. PICK fd \in Fds : r = Closer(fd)
    BY DEF Closers
  <2> QED
    BY <2>1, CloserParts
<1>3. \A fd \in Fds : Closer(fd) \in Entries /\ Closer(fd).ri = "close" /\ Closer(fd).to = fd
  BY CloserParts DEF Entries, Closers
<1>4. ASSUME NEW to \in Fds, NEW from \in Fds, NEW saved \in BOOLEAN
      PROVE  Restore(to, from, saved) \in Entries
  <2>1. PICK x : x = <<to, from, saved>>
    OBVIOUS
  <2>2. x \in Fds \X Fds \X BOOLEAN /\ x[1] = to /\ x[2] = from /\ x[3] = saved
    BY <2>1
  <2> QED
    BY <2>2 DEF Restores, Entries
<1>5. \A r \in Entries : r \in Restores \/ r \in Closers
  BY DEF Entries
<1> QED
  BY <1>1, <1>2, <1>3, <1>4, <1>5

\* One sequence put in front of another.
LEMMA Joined ==
  ASSUME NEW T, NEW t \in Seq(T), NEW u \in Seq(T), NEW w, w = t \o u
  PROVE  /\ w \in Seq(T) /\ Len(w) = Len(t) + Len(u) /\ Len(t) \in Nat /\ Len(u) \in Nat
         /\ DOMAIN w = 1 .. Len(w) /\ DOMAIN t = 1 .. Len(t) /\ DOMAIN u = 1 .. Len(u)
         /\ \A i \in 1 .. Len(t) : w[i] = t[i]
         /\ \A i \in 1 .. Len(u) : w[Len(t) + i] = u[i]
<1>1. /\ w \in Seq(T) /\ Len(w) = Len(t) + Len(u)
      /\ \A i \in 1 .. Len(t) + Len(u) : w[i] = IF i <= Len(t) THEN t[i] ELSE u[i - Len(t)]
  BY ConcatProperties
<1>2. /\ Len(t) \in Nat /\ Len(u) \in Nat
      /\ DOMAIN w = 1 .. Len(w) /\ DOMAIN t = 1 .. Len(t) /\ DOMAIN u = 1 .. Len(u)
  BY <1>1
<1>3. \A i \in 1 .. Len(t) : w[i] = t[i]
  BY <1>1, <1>2
<1>4. ASSUME NEW i \in 1 .. Len(u)
      PROVE  w[Len(t) + i] = u[i]
  <2>1. Len(t) + i \in 1 .. Len(t) + Len(u) /\ ~(Len(t) + i <= Len(t)) /\ Len(t) + i - Len(t) = i
    BY <1>2
  <2> QED
    BY <1>1, <2>1
<1> QED
  BY <1>1, <1>2, <1>3, <1>4

(* What an undo list brings back: of the entries for one descriptor the     *)
(* last counts, as each entry has what an earlier one of its descriptor did *)
(* to undo.                                                                 *)
IsLastTo(list, fd, p) ==
  p \in DOMAIN list /\ list[p].to = fd /\ \A q \in DOMAIN list : p < q => list[q].to # fd

LastTo(list, fd) == CHOOSE p : IsLastTo(list, fd, p)

Value(r, f) == IF r.ri = "dup" THEN f[r.from] ELSE CLOSED

Brought(list, f, fd) == Value(list[LastTo(list, fd)], f)

Later(list, f, fd) == IF fd \in Targets(list) THEN Brought(list, f, fd) ELSE f[fd]

UndoneBy(list) == {list[i].to : i \in Undoings(list)}

\* The greatest of some numbers up to n.
LEMMA Greatest ==
  ASSUME NEW n \in Nat, NEW T, T \subseteq 1 .. n, T # {}
  PROVE  \E x \in T : \A y \in T : y <= x
<1> DEFINE U == {k \in Nat : n - k \in T}
<1>1. \A x \in T : n - x \in U /\ n - (n - x) = x
  BY DEF U
<1>2. U \subseteq Nat /\ U # {}
  BY <1>1
<1> HIDE DEF U
<1>3. PICK k \in U : \A j \in U : k <= j
  BY <1>2, LeastNat
<1>4. n - k \in T /\ k \in Nat
  BY <1>2, <1>3 DEF U
<1>5. \A y \in T : y <= n - k
  BY <1>1, <1>3, <1>4
<1> QED
  BY <1>4, <1>5

\* The last entry for a descriptor is the only one like it.
LEMMA LastIs ==
  ASSUME NEW list \in Seq(Entries), NEW fd, NEW p, IsLastTo(list, fd, p)
  PROVE  LastTo(list, fd) = p
<1>1. PICK q : q = LastTo(list, fd)
  OBVIOUS
<1>2. IsLastTo(list, fd, q)
  BY <1>1 DEF LastTo
<1>3. DOMAIN list = 1 .. Len(list) /\ Len(list) \in Nat
  OBVIOUS
<1>4. p \in Int /\ q \in Int /\ ~(p < q) /\ ~(q < p)
  BY <1>2, <1>3 DEF IsLastTo
<1> QED
  BY <1>1, <1>4

\* A descriptor that a list changes has a last entry in it.
LEMMA HasLast ==
  ASSUME NEW list \in Seq(Entries), NEW fd \in Targets(list)
  PROVE  IsLastTo(list, fd, LastTo(list, fd))
<1>1. PICK n, T : n = Len(list) /\ T = {p \in DOMAIN list : list[p].to = fd}
  OBVIOUS
<1>2. n \in Nat /\ DOMAIN list = 1 .. n /\ T \subseteq 1 .. n /\ T # {}
  BY <1>1 DEF Targets
<1>3. PICK p \in T : \A q \in T : q <= p
  BY <1>2, Greatest
<1>4. IsLastTo(list, fd, p)
  <2>1. ASSUME NEW q \in DOMAIN list, p < q
        PROVE  list[q].to # fd
    <3>1. q \in Int /\ p \in Int /\ ~(q <= p)
      BY <1>2, <2>1
    <3> QED
      BY <1>1, <1>3, <3>1
  <2> QED
    BY <1>1, <2>1 DEF IsLastTo
<1> QED
  BY <1>4 DEF LastTo

(* More entries in front, for what is redirected later.                     *)
Combined(t, list, longer) ==
  /\ UndoList(longer)
  /\ SavingFds(longer) = SavingFds(t) \cup SavingFds(list)
  /\ Targets(longer) = Targets(t) \cup Targets(list)
  /\ UndoneBy(list) \subseteq UndoneBy(longer)
  /\ \A f : \A fd \in Targets(list) : Brought(longer, f, fd) = Brought(list, f, fd)
  /\ \A f : \A fd \in Targets(t) :
       fd \notin Targets(list) => Brought(longer, f, fd) = Brought(t, f, fd)

\* New entries in front: the older ones decide wherever they change something.
LEMMA InFront ==
  ASSUME NEW t, UndoList(t), NEW list, UndoList(list), NEW longer, longer = t \o list,
         Targets(t) \cap SavingFds(list) = {}
  PROVE  Combined(t, list, longer)
<1>1. PICK n, m : n = Len(t) /\ m = Len(list)
  OBVIOUS
<1>2. /\ longer \in Seq(Entries) /\ t \in Seq(Entries) /\ list \in Seq(Entries)
      /\ Len(longer) = n + m /\ n \in Nat /\ m \in Nat
      /\ DOMAIN longer = 1 .. n + m /\ DOMAIN t = 1 .. n /\ DOMAIN list = 1 .. m
      /\ \A p \in 1 .. n : longer[p] = t[p]
      /\ \A p \in 1 .. m : longer[n + p] = list[p]
  <2>1. t \in Seq(Entries) /\ list \in Seq(Entries)
    BY DEF UndoList
  <2> QED
    BY <1>1, <2>1, Joined
<1>3. \A p \in 1 .. n : p \in 1 .. n + m
  BY <1>2
<1>4. \A p \in 1 .. m : n + p \in 1 .. n + m /\ ~(n + p <= n)
  BY <1>2
<1>5. \A p \in 1 .. n + m : p \in 1 .. n \/ (p - n \in 1 .. m /\ n + (p - n) = p)
  BY <1>2
<1>6. ASSUME NEW p \in 1 .. n + m, p \notin 1 .. n
      PROVE  p - n \in 1 .. m /\ longer[p] = list[p - n] /\ p = n + (p - n) /\ p > n
  BY <1>2, <1>5, <1>6
<1>7. SavingFds(longer) = SavingFds(t) \cup SavingFds(list)
  <2>1. ASSUME NEW x \in SavingFds(longer)
        PROVE  x \in SavingFds(t) \cup SavingFds(list)
    <3>1. PICK p \in 1 .. n + m : longer[p].ri = "dup" /\ x = longer[p].from
      BY <1>2 DEF SavingFds
    <3>2. CASE p \in 1 .. n
      BY <3>1, <3>2, <1>2 DEF SavingFds
    <3>3. CASE p \notin 1 .. n
      <4>1. p - n \in DOMAIN list /\ longer[p] = list[p - n]
        BY <3>3, <1>2, <1>6
      <4> QED
        BY <3>1, <4>1 DEF SavingFds
    <3> QED
      BY <3>2, <3>3
  <2>2. ASSUME NEW x \in SavingFds(t)
        PROVE  x \in SavingFds(longer)
    <3>1. PICK p \in 1 .. n : t[p].ri = "dup" /\ x = t[p].from
      BY <1>2 DEF SavingFds
    <3> QED
      BY <3>1, <1>2, <1>3 DEF SavingFds
  <2>3. ASSUME NEW x \in SavingFds(list)
        PROVE  x \in SavingFds(longer)
    <3>1. PICK p \in 1 .. m : list[p].ri = "dup" /\ x = list[p].from
      BY <1>2 DEF SavingFds
    <3> QED
      BY <3>1, <1>2, <1>4 DEF SavingFds
  <2> QED
    BY <2>1, <2>2, <2>3
<1>8. Targets(longer) = Targets(t) \cup Targets(list)
  <2>1. ASSUME NEW x \in Targets(longer)
        PROVE  x \in Targets(t) \cup Targets(list)
    <3>1. PICK p \in 1 .. n + m : x = longer[p].to
      BY <1>2 DEF Targets
    <3> QED
      BY <3>1, <1>2, <1>6 DEF Targets
  <2>2. ASSUME NEW x \in Targets(t)
        PROVE  x \in Targets(longer)
    <3>1. PICK p \in 1 .. n : x = t[p].to
      BY <1>2 DEF Targets
    <3> QED
      BY <3>1, <1>2, <1>3 DEF Targets
  <2>3. ASSUME NEW x \in Targets(list)
        PROVE  x \in Targets(longer)
    <3>1. PICK p \in 1 .. m : x = list[p].to
      BY <1>2 DEF Targets
    <3> QED
      BY <3>1, <1>2, <1>4 DEF Targets
  <2> QED
    BY <2>1, <2>2, <2>3
<1>9. ASSUME NEW p \in DOMAIN longer, longer[p].ri = "dup"
      PROVE  /\ p < Len(longer) /\ longer[p + 1] = Closer(longer[p].from)
             /\ longer[p].saved \/ longer[p].to <= 2
  <2>1. CASE p \in 1 .. n
    <3>1. t[p].ri = "dup" /\ longer[p] = t[p]
      BY <2>1, <1>2, <1>9
    <3>2. p < n /\ t[p + 1] = Closer(t[p].from) /\ (t[p].saved \/ t[p].to <= 2)
      BY <3>1, <2>1, <1>1, <1>2 DEF UndoList
    <3>3. p + 1 \in 1 .. n
      BY <3>2, <2>1, <1>2
    <3>4. longer[p + 1] = Closer(longer[p].from) /\ p < Len(longer)
      BY <3>1, <3>2, <3>3, <2>1, <1>2
    <3> QED
      BY <3>1, <3>2, <3>4
  <2>2. CASE p \notin 1 .. n
    <3>1. /\ p - n \in 1 .. m /\ longer[p] = list[p - n] /\ p = n + (p - n) /\ p > n
          /\ list[p - n].ri = "dup"
      BY <2>2, <1>2, <1>6, <1>9
    <3>2. /\ p - n < m /\ list[p - n + 1] = Closer(list[p - n].from)
          /\ list[p - n].saved \/ list[p - n].to <= 2
      BY <3>1, <1>1, <1>2 DEF UndoList
    <3>3. p - n + 1 \in 1 .. m /\ n + (p - n + 1) = p + 1 /\ p < n + m
      <4>1. n \in Nat /\ m \in Nat /\ p \in 1 .. n + m /\ p - n \in 1 .. m /\ p - n < m
        BY <3>1, <3>2, <1>2
      <4> QED
        BY ONLY <4>1
    <3>4. longer[p + 1] = list[p - n + 1]
      BY <3>3, <1>2
    <3>5. p < Len(longer)
      BY <3>3, <1>2
    <3>6. longer[p + 1] = Closer(longer[p].from)
      BY <3>1, <3>2, <3>4
    <3> QED
      BY <3>1, <3>2, <3>5, <3>6
  <2> QED
    BY <2>1, <2>2
<1>10. ASSUME NEW p \in DOMAIN longer, NEW q \in DOMAIN longer, p <= q, longer[q].ri = "dup"
       PROVE  longer[p].to # longer[q].from
  <2>1. CASE q \in 1 .. n
    <3>1. p \in 1 .. n
      BY <2>1, <1>2, <1>10
    <3> QED
      BY <2>1, <3>1, <1>2, <1>10 DEF UndoList
  <2>2. CASE q \notin 1 .. n /\ p \in 1 .. n
    <3>1. q - n \in 1 .. m /\ longer[q] = list[q - n] /\ longer[p] = t[p]
      BY <2>2, <1>2, <1>6
    <3>2. longer[q].from \in SavingFds(list)
      BY <3>1, <1>2, <1>10 DEF SavingFds
    <3>3. longer[p].to \in Targets(t)
      BY <3>1, <2>2, <1>2 DEF Targets
    <3> QED
      BY <3>2, <3>3
  <2>3. CASE q \notin 1 .. n /\ p \notin 1 .. n
    <3>1. /\ q - n \in 1 .. m /\ longer[q] = list[q - n]
          /\ p - n \in 1 .. m /\ longer[p] = list[p - n]
      BY <2>3, <1>2, <1>6
    <3>2. p - n <= q - n
      BY <1>2, <1>10
    <3>3. list[q - n].ri = "dup"
      BY <3>1, <1>10
    <3>4. list[p - n].to # list[q - n].from
      BY <3>1, <3>2, <3>3, <1>2 DEF UndoList
    <3> QED
      BY <3>1, <3>4
  <2> QED
    BY <2>1, <2>2, <2>3
<1>11. UndoList(longer)
  BY <1>2, <1>9, <1>10 DEF UndoList
<1>12. ASSUME NEW x \in UndoneBy(list)
       PROVE  x \in UndoneBy(longer)
  <2>1. PICK i \in 1 .. m :
          /\ x = list[i].to
          /\ ~(i > 1 /\ list[i - 1].ri = "dup" /\ list[i] = Closer(list[i - 1].from))
    BY <1>2 DEF UndoneBy, Undoings
  <2>2. PICK j : j = n + i
    OBVIOUS
  <2>3. j \in 1 .. n + m /\ longer[j] = list[i]
    BY <1>2, <1>4, <2>2
  <2>4. ~(j > 1 /\ longer[j - 1].ri = "dup" /\ longer[j] = Closer(longer[j - 1].from))
    <3>1. CASE i > 1
      <4>1. i - 1 \in 1 .. m /\ n + (i - 1) = j - 1
        BY <1>2, <2>2, <3>1
      <4>2. longer[j - 1] = list[i - 1]
        BY <1>2, <4>1
      <4> QED
        BY <2>1, <2>3, <3>1, <4>2
    <3>2. CASE i = 1 /\ j > 1
      <4>1. n \in 1 .. n /\ j - 1 = n
        BY <1>2, <2>2, <3>2
      <4>2. t[n].ri # "dup"
        <5>1. ~(n < n)
          BY <1>2
        <5> QED
          BY <4>1, <5>1, <1>1, <1>2 DEF UndoList
      <4> QED
        BY <4>1, <4>2, <1>2
    <3>3. i \in Int /\ i >= 1
      BY <1>2
    <3>4. i > 1 \/ (i = 1 /\ j > 1) \/ ~(j > 1)
      BY ONLY <3>3
    <3> QED
      BY <3>1, <3>2, <3>4
  <2> QED
    BY <1>2, <2>1, <2>3, <2>4 DEF UndoneBy, Undoings
<1>13. ASSUME NEW f, NEW fd \in Targets(list)
       PROVE  Brought(longer, f, fd) = Brought(list, f, fd)
  <2>1. PICK p : p = LastTo(list, fd)
    OBVIOUS
  <2>2. p \in 1 .. m /\ list[p].to = fd /\ \A q \in 1 .. m : p < q => list[q].to # fd
    BY <1>2, <2>1, HasLast DEF IsLastTo
  <2>3. longer[n + p] = list[p] /\ n + p \in 1 .. n + m
    BY <1>2, <1>4, <2>2
  <2>4. ASSUME NEW q \in 1 .. n + m, n + p < q
        PROVE  longer[q].to # fd
    <3>1. q \notin 1 .. n
      BY <1>2, <2>2, <2>4
    <3>2. q - n \in 1 .. m /\ longer[q] = list[q - n] /\ p < q - n
      BY <1>2, <1>6, <2>2, <2>4, <3>1
    <3> QED
      BY <2>2, <3>2
  <2>5. IsLastTo(longer, fd, n + p)
    BY <1>2, <2>2, <2>3, <2>4 DEF IsLastTo
  <2>6. LastTo(longer, fd) = n + p
    BY <1>2, <2>5, LastIs
  <2> QED
    BY <2>1, <2>3, <2>6 DEF Brought
<1>14. ASSUME NEW f, NEW fd \in Targets(t), fd \notin Targets(list)
       PROVE  Brought(longer, f, fd) = Brought(t, f, fd)
  <2>1. PICK p : p = LastTo(t, fd)
    OBVIOUS
  <2>2. p \in 1 .. n /\ t[p].to = fd /\ \A q \in 1 .. n : p < q => t[q].to # fd
    BY <1>2, <2>1, HasLast DEF IsLastTo
  <2>3. longer[p] = t[p] /\ p \in 1 .. n + m
    BY <1>2, <1>3, <2>2
  <2>4. ASSUME NEW q \in 1 .. n + m, p < q
        PROVE  longer[q].to # fd
    <3>1. CASE q \in 1 .. n
      BY <1>2, <2>2, <2>4, <3>1
    <3>2. CASE q \notin 1 .. n
      <4>1. q - n \in 1 .. m /\ longer[q] = list[q - n]
        BY <1>6, <3>2
      <4>2. longer[q].to \in Targets(list)
        BY <1>2, <4>1 DEF Targets
      <4> QED
        BY <1>14, <4>2
    <3> QED
      BY <3>1, <3>2
  <2>5. IsLastTo(longer, fd, p)
    BY <1>2, <2>2, <2>3, <2>4 DEF IsLastTo
  <2>6. LastTo(longer, fd) = p
    BY <1>2, <2>5, LastIs
  <2> QED
    BY <2>1, <2>3, <2>6 DEF Brought
<1> QED
  BY <1>7, <1>8, <1>11, <1>12, <1>13, <1>14 DEF Combined

\* A list of one entry, which closes a descriptor.
LEMMA CloserList ==
  ASSUME NEW fd \in Fds, NEW t, t = <<Closer(fd)>>
  PROVE  /\ UndoList(t) /\ SavingFds(t) = {} /\ Targets(t) = {fd}
         /\ \A f : Brought(t, f, fd) = CLOSED
<1>1. t \in Seq(Entries) /\ DOMAIN t = {1} /\ t[1].ri = "close" /\ t[1].to = fd
  <2>1. Closer(fd) \in Entries /\ Closer(fd).ri = "close" /\ Closer(fd).to = fd
    BY EntryParts
  <2> HIDE DEF Closer
  <2> QED
    BY <2>1
<1>2. UndoList(t)
  BY <1>1 DEF UndoList
<1>3. SavingFds(t) = {} /\ Targets(t) = {fd}
  BY <1>1 DEF SavingFds, Targets
<1>4. LastTo(t, fd) = 1
  <2>1. IsLastTo(t, fd, 1)
    BY <1>1 DEF IsLastTo
  <2> QED
    BY <1>1, <2>1, LastIs
<1>5. \A f : Brought(t, f, fd) = CLOSED
  BY <1>1, <1>4 DEF Brought, Value
<1> QED
  BY <1>2, <1>3, <1>5

\* The two entries that restore a descriptor from its copy.
LEMMA SaveList ==
  ASSUME NEW fd \in Fds, NEW new \in Fds, fd # new, NEW saved \in BOOLEAN, saved \/ fd <= 2,
         NEW t, t = <<Restore(fd, new, saved), Closer(new)>>
  PROVE  /\ UndoList(t) /\ SavingFds(t) = {new} /\ Targets(t) = {fd, new}
         /\ \A f : Brought(t, f, fd) = f[new] /\ Brought(t, f, new) = CLOSED
<1>0. PICK r, c : r = Restore(fd, new, saved) /\ c = Closer(new)
  OBVIOUS
<1>1. /\ r \in Entries /\ c \in Entries /\ r.ri = "dup" /\ r.to = fd /\ r.from = new
      /\ r.saved = saved /\ c.ri = "close" /\ c.to = new
  <2>1. Restore(fd, new, saved) \in Entries /\ Closer(new) \in Entries
    BY EntryParts
  <2>2. r.ri = "dup" /\ r.to = fd /\ r.from = new /\ r.saved = saved
    BY <1>0, SMT DEF Restore, Internal, Redirect
  <2>3. c.ri = "close" /\ c.to = new
    BY <1>0, CloserParts
  <2> QED
    BY <1>0, <2>1, <2>2, <2>3
<1>2. /\ t \in Seq(Entries) /\ Len(t) = 2 /\ DOMAIN t = {1, 2}
      /\ t[1] = r /\ t[2] = c
  BY <1>0, <1>1
<1>3. UndoList(t)
  <2>1. /\ 1 < Len(t) /\ t[1 + 1] = Closer(t[1].from)
        /\ t[1].saved \/ t[1].to <= 2
    BY <1>0, <1>1, <1>2
  <2>2. \A p, q \in DOMAIN t : p <= q /\ t[q].ri = "dup" => t[p].to # t[q].from
    BY <1>1, <1>2
  <2>3. t[2].ri # "dup"
    BY <1>1, <1>2
  <2> QED
    BY <1>2, <2>1, <2>2, <2>3 DEF UndoList
<1>4. SavingFds(t) = {new} /\ Targets(t) = {fd, new}
  BY <1>1, <1>2 DEF SavingFds, Targets
<1>5. LastTo(t, fd) = 1
  <2>1. IsLastTo(t, fd, 1)
    BY <1>1, <1>2 DEF IsLastTo
  <2> QED
    BY <1>2, <2>1, LastIs
<1>6. LastTo(t, new) = 2
  <2>1. IsLastTo(t, new, 2)
    BY <1>1, <1>2 DEF IsLastTo
  <2> QED
    BY <1>2, <2>1, LastIs
<1> QED
  BY <1>1, <1>2, <1>3, <1>4, <1>5, <1>6 DEF Brought, Value

\* An entry for a descriptor that is not the close of a copy is the last one
\* for it, or an entry like it is.
LEMMA LastUndoing ==
  ASSUME NEW list, UndoList(list)
  PROVE  /\ UndoneBy(list) \subseteq Targets(list)
         /\ \A fd \in UndoneBy(list) :
              Max({i \in Undoings(list) : list[i].to = fd}) = LastTo(list, fd)
         /\ \A fd \in Targets(list) \ UndoneBy(list) :
              fd \in SavingFds(list) /\ \A f : Brought(list, f, fd) = CLOSED
         /\ SavingFds(list) \subseteq Targets(list)
<1>1. PICK n : n = Len(list)
  OBVIOUS
<1>2. n \in Nat /\ DOMAIN list = 1 .. n /\ list \in Seq(Entries)
  BY <1>1 DEF UndoList
<1>3. UndoneBy(list) \subseteq Targets(list)
  BY DEF UndoneBy, Undoings, Targets
<1>4. ASSUME NEW i \in 1 .. n, i \notin Undoings(list)
      PROVE  /\ i - 1 \in 1 .. n /\ i - 1 < i /\ list[i - 1].ri = "dup"
             /\ list[i].to = list[i - 1].from /\ list[i].ri = "close"
             /\ list[i].to \in SavingFds(list)
             /\ \A j \in 1 .. n : j <= i - 1 => list[j].to # list[i].to
  <2>1. i > 1 /\ list[i - 1].ri = "dup" /\ list[i] = Closer(list[i - 1].from)
    BY <1>2, <1>4 DEF Undoings
  <2>2. i - 1 \in 1 .. n /\ i - 1 < i
    BY <1>2, <2>1
  <2>3. list[i].to = list[i - 1].from /\ list[i].ri = "close"
    BY <2>1, CloserParts
  <2>4. \A j \in 1 .. n : j <= i - 1 => list[j].to # list[i - 1].from
    BY <1>2, <2>1, <2>2 DEF UndoList
  <2> QED
    BY <1>2, <2>1, <2>2, <2>3, <2>4 DEF SavingFds
<1>5. ASSUME NEW fd \in UndoneBy(list)
      PROVE  Max({i \in Undoings(list) : list[i].to = fd}) = LastTo(list, fd)
  <2>1. PICK T, p : T = {i \in Undoings(list) : list[i].to = fd} /\ p = LastTo(list, fd)
    OBVIOUS
  <2>2. p \in 1 .. n /\ list[p].to = fd /\ \A q \in 1 .. n : p < q => list[q].to # fd
    BY <1>2, <1>3, <2>1, HasLast DEF IsLastTo
  <2>3. p \in Undoings(list)
    <3>1. SUFFICES ASSUME p \notin Undoings(list)
                   PROVE  FALSE
      OBVIOUS
    <3>2. PICK i \in 1 .. n : i \in Undoings(list) /\ list[i].to = fd
      BY <1>2 DEF UndoneBy, Undoings
    <3>3. ~(i <= p - 1)
      BY <1>4, <2>2, <3>1, <3>2
    <3>4. ~(p < i)
      BY <2>2, <3>2
    <3>5. i = p
      BY <1>2, <2>2, <3>3, <3>4
    <3> QED
      BY <3>1, <3>2, <3>5
  <2>4. p \in T /\ T \subseteq 1 .. n
    BY <1>2, <2>1, <2>2, <2>3 DEF Undoings
  <2>5. \A y \in T : p >= y
    <3> SUFFICES ASSUME NEW y \in T
                 PROVE  p >= y
      OBVIOUS
    <3>1. y \in 1 .. n /\ list[y].to = fd
      BY <2>1, <2>4
    <3>2. ~(p < y)
      BY <2>2, <3>1
    <3> QED
      BY <1>2, <2>2, <3>1, <3>2
  <2>6. Max(T) = p
    <3>1. PICK m : m = Max(T)
      OBVIOUS
    <3>2. m \in T /\ \A y \in T : m >= y
      BY <2>4, <2>5, <3>1 DEF Max
    <3>3. p >= m /\ m >= p
      BY <2>4, <2>5, <3>2
    <3>4. p \in Int /\ m \in Int
      BY <1>2, <2>4, <3>2
    <3> QED
      BY <3>1, <3>3, <3>4
  <2> QED
    BY <2>1, <2>6
<1>6. ASSUME NEW fd \in Targets(list) \ UndoneBy(list)
      PROVE  fd \in SavingFds(list) /\ \A f : Brought(list, f, fd) = CLOSED
  <2>1. PICK p : p = LastTo(list, fd)
    OBVIOUS
  <2>2. p \in 1 .. n /\ list[p].to = fd
    BY <1>2, <2>1, HasLast DEF IsLastTo
  <2>3. p \notin Undoings(list)
    BY <1>6, <2>2 DEF UndoneBy
  <2>4. list[p].ri = "close" /\ list[p].to \in SavingFds(list)
    BY <1>4, <2>2, <2>3
  <2> QED
    BY <2>1, <2>2, <2>4 DEF Brought, Value
<1>7. ASSUME NEW fd \in SavingFds(list)
      PROVE  fd \in Targets(list)
  <2>1. PICK p \in 1 .. n : list[p].ri = "dup" /\ fd = list[p].from
    BY <1>2 DEF SavingFds
  <2>2. p < n /\ list[p + 1] = Closer(list[p].from)
    BY <1>1, <1>2, <2>1 DEF UndoList
  <2>3. p + 1 \in 1 .. n
    BY <1>2, <2>1, <2>2
  <2>4. list[p + 1].to = fd
    BY <2>1, <2>2, CloserParts
  <2> QED
    BY <1>2, <2>3, <2>4 DEF Targets
<1> QED
  BY <1>3, <1>5, <1>6, <1>7
----------------------------------------------------------------------------
(* One redirection.  What the shell's record is between its system calls:   *)
(* the descriptors with the close-on-exec flag are the copies that the list *)
(* being built and the outer ones restore from.                             *)
Machine == [fds : [Fds -> Things], cloexec : SUBSET Fds, undo : Seq(Entries),
            execUndo : Seq(Entries), var : 0 .. MaxFd]

Tidy(s, outer) ==
  /\ s \in Machine /\ UndoList(s.undo)
  /\ s.cloexec = SavingFds(s.undo) \cup outer
  /\ \A fd \in s.cloexec : SHELL_FD_BASE <= fd /\ s.fds[fd] # CLOSED
  /\ Targets(s.undo) \cap outer = {}

ExecList(list, undo) == list \in Seq(Closers) /\ Targets(list) = SavingFds(undo)

\* From s0 the shell has come to s: undoing brings back what it would have
\* brought back, except that the descriptors of loose are open now.
Going(s0, s, outer, loose) ==
  /\ Tidy(s, outer) /\ ExecList(s.execUndo, s.undo)
  /\ loose \subseteq Fds /\ \A fd \in loose : s0.fds[fd] = CLOSED /\ s.fds[fd] # CLOSED
  /\ Targets(s0.undo) \subseteq Targets(s.undo)
  /\ UndoneBy(s0.undo) \subseteq UndoneBy(s.undo)
  /\ \A fd \in Fds : fd \in Targets(s.undo) \/ fd \notin loose =>
       Later(s.undo, s.fds, fd) = Later(s0.undo, s0.fds, fd)

\* Nothing has been redirected yet.
LEMMA GoingOn ==
  ASSUME NEW s, NEW outer, Tidy(s, outer), ExecList(s.execUndo, s.undo)
  PROVE  Going(s, s, outer, {})
BY DEF Going

\* What referring a descriptor to something changes.
LEMMA ReferDoes ==
  ASSUME NEW s \in Machine, NEW fd \in Fds, NEW x \in Things, NEW t, t = Refer(s, fd, x)
  PROVE  /\ t \in Machine /\ t.fds = [s.fds EXCEPT ![fd] = x] /\ t.cloexec = s.cloexec \ {fd}
         /\ t.undo = s.undo /\ t.execUndo = s.execUndo /\ t.var = s.var
BY DEF Refer, Machine

\* A descriptor that is no copy comes to refer to something else.
Changed(s, t, fd, x) ==
  /\ t \in Machine /\ t.fds = [s.fds EXCEPT ![fd] = x] /\ t.cloexec = s.cloexec
  /\ t.undo = s.undo /\ t.execUndo = s.execUndo

\* A descriptor may be changed once it is saved, or was closed before.
LEMMA ReferGoing ==
  ASSUME NEW s0, NEW s, NEW outer, NEW loose, Going(s0, s, outer, loose),
         NEW fd \in Fds, fd \notin s.cloexec, NEW x \in Things, NEW t, Changed(s, t, fd, x)
  PROVE  /\ fd \in Targets(s.undo) => Going(s0, t, outer, loose \ {fd})
         /\ s0.fds[fd] = CLOSED /\ x = CLOSED => Going(s0, t, outer, loose \ {fd})
         /\ s0.fds[fd] = CLOSED /\ x # CLOSED => Going(s0, t, outer, loose \cup {fd})
<1>1. /\ s \in Machine /\ UndoList(s.undo) /\ s.undo \in Seq(Entries)
      /\ s.fds \in [Fds -> Things] /\ s.cloexec \subseteq Fds
      /\ SavingFds(s.undo) \subseteq s.cloexec
  BY DEF Going, Tidy, Machine, UndoList
<1>2. /\ t \in Machine /\ t.undo = s.undo /\ t.execUndo = s.execUndo /\ t.cloexec = s.cloexec
      /\ t.fds[fd] = x /\ \A y \in Fds : y # fd => t.fds[y] = s.fds[y]
  BY <1>1 DEF Changed
<1>3. Tidy(t, outer) /\ ExecList(t.execUndo, t.undo)
  <2>1. \A y \in s.cloexec : y # fd /\ y \in Fds
    BY <1>1
  <2> QED
    BY <1>1, <1>2, <2>1 DEF Going, Tidy
<1>4. \A y \in Targets(s.undo) : Later(t.undo, t.fds, y) = Later(s.undo, s.fds, y)
  <2> SUFFICES ASSUME NEW y \in Targets(s.undo)
               PROVE  Brought(s.undo, t.fds, y) = Brought(s.undo, s.fds, y)
    BY <1>2 DEF Later
  <2>1. PICK p : p = LastTo(s.undo, y)
    OBVIOUS
  <2>2. p \in DOMAIN s.undo
    BY <1>1, <2>1, HasLast DEF IsLastTo
  <2>3. s.undo[p].ri = "dup" => s.undo[p].from \in SavingFds(s.undo)
    BY <2>2 DEF SavingFds
  <2>4. s.undo[p].ri = "dup" => t.fds[s.undo[p].from] = s.fds[s.undo[p].from]
    BY <1>1, <1>2, <2>3
  <2> QED
    BY <2>1, <2>4 DEF Brought, Value
<1>5. \A y \in Fds : y \notin Targets(s.undo) =>
        Later(t.undo, t.fds, y) = t.fds[y] /\ Later(s.undo, s.fds, y) = s.fds[y]
  BY <1>2 DEF Later
<1>6. \A y \in Fds : y # fd => (y \notin Targets(s.undo) =>
        Later(t.undo, t.fds, y) = Later(s.undo, s.fds, y))
  BY <1>2, <1>5
<1>7. fd \notin Targets(s.undo) => Later(s0.undo, s0.fds, fd) = s0.fds[fd]
  BY DEF Going, Later
<1>8. /\ loose \subseteq Fds /\ \A y \in loose : s0.fds[y] = CLOSED /\ s.fds[y] # CLOSED
      /\ Targets(s0.undo) \subseteq Targets(t.undo) /\ UndoneBy(s0.undo) \subseteq UndoneBy(t.undo)
      /\ \A y \in Fds : y \in Targets(s.undo) \/ y \notin loose =>
           Later(s.undo, s.fds, y) = Later(s0.undo, s0.fds, y)
  BY <1>2 DEF Going
<1>9. \A y \in loose \ {fd} : s0.fds[y] = CLOSED /\ t.fds[y] # CLOSED
  BY <1>2, <1>8
<1>10. \A y \in Fds : y # fd /\ (y \in Targets(s.undo) \/ y \notin loose) =>
         Later(t.undo, t.fds, y) = Later(s0.undo, s0.fds, y)
  BY <1>4, <1>6, <1>8
<1> HIDE DEF Later
<1>11. ASSUME fd \in Targets(s.undo)
       PROVE  Going(s0, t, outer, loose \ {fd})
  <2>1. \A y \in Fds : y \in Targets(s.undo) \/ y \notin loose =>
          Later(t.undo, t.fds, y) = Later(s0.undo, s0.fds, y)
    BY <1>4, <1>8, <1>10, <1>11
  <2> QED
    BY <1>2, <1>3, <1>8, <1>9, <1>11, <2>1 DEF Going
<1>12. ASSUME s0.fds[fd] = CLOSED, x = CLOSED
       PROVE  Going(s0, t, outer, loose \ {fd})
  <2>1. Later(t.undo, t.fds, fd) = Later(s0.undo, s0.fds, fd)
    BY <1>2, <1>4, <1>5, <1>7, <1>8, <1>12
  <2>2. \A y \in Fds : y \in Targets(s.undo) \/ y \notin loose \ {fd} =>
          Later(t.undo, t.fds, y) = Later(s0.undo, s0.fds, y)
    BY <1>10, <2>1
  <2> QED
    BY <1>2, <1>3, <1>8, <1>9, <2>2 DEF Going
<1>13. ASSUME s0.fds[fd] = CLOSED, x # CLOSED
       PROVE  Going(s0, t, outer, loose \cup {fd})
  <2>1. \A y \in Fds : y \in Targets(s.undo) \/ y \notin loose \cup {fd} =>
          Later(t.undo, t.fds, y) = Later(s0.undo, s0.fds, y)
    BY <1>4, <1>8, <1>10
  <2>2. \A y \in loose \cup {fd} : s0.fds[y] = CLOSED /\ t.fds[y] # CLOSED
    BY <1>2, <1>9, <1>13
  <2> QED
    BY <1>2, <1>3, <1>8, <2>1, <2>2 DEF Going
<1> QED
  BY <1>11, <1>12, <1>13

\* A list that only closes descriptors is an undo list and saves none.
LEMMA OnlyClosers ==
  ASSUME NEW list \in Seq(Closers)
  PROVE  UndoList(list) /\ SavingFds(list) = {}
<1>1. list \in Seq(Entries)
  BY DEF Entries
<1>2. \A p \in DOMAIN list : list[p].ri = "close"
  <2> SUFFICES ASSUME NEW p \in DOMAIN list
               PROVE  list[p].ri = "close"
    OBVIOUS
  <2>1. PICK fd \in Fds : list[p] = Closer(fd)
    BY DEF Closers
  <2> QED
    BY <2>1, CloserParts
<1> QED
  BY <1>1, <1>2 DEF UndoList, SavingFds

\* fd is saved in new.
Saved(s, t, fd, new) ==
  /\ t \in Machine /\ t.fds = [s.fds EXCEPT ![new] = s.fds[fd]]
  /\ t.cloexec = s.cloexec \cup {new}
  /\ \E saved \in BOOLEAN : /\ saved \/ fd <= 2
                            /\ t.undo = <<Restore(fd, new, saved), Closer(new)>> \o s.undo
  /\ t.execUndo = <<Closer(new)>> \o s.execUndo

\* What add_undo_redirect() changes when it saves fd in a free descriptor.
LEMMA SaveInDoes ==
  ASSUME NEW s \in Machine, NEW fd \in Fds, fd \notin s.cloexec, NEW new \in Fds, NEW ri,
         NEW t, t = SaveIn(s, fd, new, ri)
  PROVE  Saved(s, t, fd, new)
<1> DEFINE saved == fd \notin s.cloexec /\ 3 <= fd
           u == <<Restore(fd, new, saved), Closer(new)>> \o s.undo
           e == <<Closer(new)>> \o s.execUndo
           d == Refer(s, new, s.fds[fd])
<1>1. d \in Machine /\ d.fds = [s.fds EXCEPT ![new] = s.fds[fd]] /\ d.cloexec = s.cloexec \ {new}
      /\ d.undo = s.undo /\ d.execUndo = s.execUndo /\ d.var = s.var
  <2>1. s.fds[fd] \in Things
    BY DEF Machine
  <2> QED
    BY <2>1, ReferDoes
<1>2. u \in Seq(Entries) /\ e \in Seq(Entries)
  <2>1. Restore(fd, new, saved) \in Entries /\ Closer(new) \in Entries
    <3>1. saved \in BOOLEAN
      OBVIOUS
    <3> HIDE DEF saved
    <3> QED
      BY <3>1, EntryParts
  <2>2. s.undo \in Seq(Entries) /\ s.execUndo \in Seq(Entries)
    BY DEF Machine
  <2> HIDE DEF saved, Closer, Restore
  <2> QED
    BY <2>1, <2>2
<1> HIDE DEF d
<1>3. t = [d EXCEPT !.cloexec = d.cloexec \cup {new}, !.undo = u, !.execUndo = e]
  <2>1. Dup2(s, fd, new) = d
    BY DEF Dup2, d
  <2>2. fd \notin s.cloexec /\ (3 > fd \/ saved)
    BY DEF Fds
  <2> HIDE DEF saved
  <2>3. t = [d EXCEPT !.cloexec = d.cloexec \cup {new},
                      !.undo = <<Restore(fd, new, saved), Closer(new)>> \o d.undo,
                      !.execUndo = <<>> \o <<Closer(new)>> \o d.execUndo]
    BY <2>1, <2>2 DEF SaveIn, saved
  <2>4. <<>> \o <<Closer(new)>> = <<Closer(new)>>
    OBVIOUS
  <2> QED
    BY <1>1, <2>3, <2>4
<1> HIDE DEF u, e
<1>4. /\ t \in Machine /\ t.fds = d.fds /\ t.cloexec = d.cloexec \cup {new}
      /\ t.undo = u /\ t.execUndo = e
  <2>1. PICK x : x = d.cloexec \cup {new}
    OBVIOUS
  <2>2. x \subseteq Fds
    BY <1>1, <2>1 DEF Machine
  <2>3. t = [d EXCEPT !.cloexec = x, !.undo = u, !.execUndo = e]
    BY <1>3, <2>1
  <2>4. t.fds = d.fds /\ t.cloexec = x /\ t.undo = u /\ t.execUndo = e /\ t \in Machine
    BY <1>1, <1>2, <2>2, <2>3 DEF Machine
  <2> QED
    BY <2>1, <2>4
<1>5. t.cloexec = s.cloexec \cup {new}
  BY <1>1, <1>4
<1>6. saved \in BOOLEAN /\ (saved \/ fd <= 2)
  BY DEF Fds
<1> HIDE DEF saved
<1>7. \E sd \in BOOLEAN : /\ sd \/ fd <= 2
                          /\ t.undo = <<Restore(fd, new, sd), Closer(new)>> \o s.undo
  BY <1>4, <1>6 DEF u
<1> QED
  BY <1>1, <1>4, <1>5, <1>7 DEF Saved, e

\* Saving an open descriptor in a free one.
LEMMA SaveGoing ==
  ASSUME NEW s0, NEW s, NEW outer, NEW loose, Going(s0, s, outer, loose),
         NEW fd \in Fds, fd \notin s.cloexec, fd \notin loose, s.fds[fd] # CLOSED,
         NEW new \in Fds, s.fds[new] = CLOSED, SHELL_FD_BASE <= new,
         NEW t, Saved(s, t, fd, new)
  PROVE  Going(s0, t, outer, loose) /\ fd \in Targets(t.undo)
<1>1. /\ s \in Machine /\ UndoList(s.undo) /\ s.undo \in Seq(Entries)
      /\ s.fds \in [Fds -> Things] /\ s.cloexec \subseteq Fds
      /\ s.cloexec = SavingFds(s.undo) \cup outer
      /\ Targets(s.undo) \cap outer = {}
      /\ \A y \in s.cloexec : SHELL_FD_BASE <= y /\ s.fds[y] # CLOSED
      /\ s.execUndo \in Seq(Closers) /\ Targets(s.execUndo) = SavingFds(s.undo)
  BY DEF Going, Tidy, Machine, UndoList, ExecList
<1>0. PICK saved \in BOOLEAN : /\ saved \/ fd <= 2
                              /\ t.undo = <<Restore(fd, new, saved), Closer(new)>> \o s.undo
  BY DEF Saved
<1>2. PICK l : l = <<Restore(fd, new, saved), Closer(new)>> /\ t.undo = l \o s.undo
  BY <1>0
<1>3. /\ UndoList(l) /\ SavingFds(l) = {new} /\ Targets(l) = {fd, new}
      /\ \A f : Brought(l, f, fd) = f[new] /\ Brought(l, f, new) = CLOSED
  <2>1. fd # new
    BY <1>1
  <2> QED
    BY <1>0, <1>2, <2>1, SaveList
<1>4. new \notin s.cloexec /\ fd \notin SavingFds(s.undo) /\ new \notin SavingFds(s.undo)
  BY <1>1
<1>5. /\ UndoList(t.undo)
      /\ SavingFds(t.undo) = {new} \cup SavingFds(s.undo)
      /\ Targets(t.undo) = {fd, new} \cup Targets(s.undo)
      /\ UndoneBy(s.undo) \subseteq UndoneBy(t.undo)
      /\ \A f : \A y \in Targets(s.undo) : Brought(t.undo, f, y) = Brought(s.undo, f, y)
      /\ \A f : \A y \in {fd, new} :
           y \notin Targets(s.undo) => Brought(t.undo, f, y) = Brought(l, f, y)
  <2>1. Targets(l) \cap SavingFds(s.undo) = {}
    BY <1>3, <1>4
  <2>2. PICK u, list : u = t.undo /\ list = s.undo
    OBVIOUS
  <2>3. UndoList(l) /\ UndoList(list) /\ u = l \o list /\ Targets(l) \cap SavingFds(list) = {}
    BY <1>1, <1>2, <1>3, <2>1, <2>2
  <2>4. /\ UndoList(u)
        /\ SavingFds(u) = SavingFds(l) \cup SavingFds(list)
        /\ Targets(u) = Targets(l) \cup Targets(list)
        /\ UndoneBy(list) \subseteq UndoneBy(u)
        /\ \A f : \A y \in Targets(list) : Brought(u, f, y) = Brought(list, f, y)
        /\ \A f : \A y \in Targets(l) :
             y \notin Targets(list) => Brought(u, f, y) = Brought(l, f, y)
    <3>1. Combined(l, list, u)
      BY <2>3, InFront, Zenon
    <3> QED
      BY <3>1 DEF Combined
  <2> QED
    BY <1>3, <2>2, <2>4
<1>6. /\ t \in Machine /\ t.cloexec = s.cloexec \cup {new}
      /\ t.fds[new] = s.fds[fd] /\ \A y \in Fds : y # new => t.fds[y] = s.fds[y]
  BY <1>1 DEF Saved
<1>7. Tidy(t, outer)
  <2>1. \A y \in t.cloexec : SHELL_FD_BASE <= y /\ t.fds[y] # CLOSED
    BY <1>1, <1>6
  <2>2. Targets(t.undo) \cap outer = {}
    BY <1>1, <1>4, <1>5
  <2> QED
    BY <1>1, <1>5, <1>6, <2>1, <2>2 DEF Tidy
<1>8. ExecList(t.execUndo, t.undo)
  <2>1. PICK c, e : c = <<Closer(new)>> /\ e = t.execUndo
    OBVIOUS
  <2>2. UndoList(c) /\ SavingFds(c) = {} /\ Targets(c) = {new}
    BY <2>1, CloserList
  <2>3. UndoList(s.execUndo) /\ SavingFds(s.execUndo) = {}
    BY <1>1, OnlyClosers
  <2>4. e = c \o s.execUndo
    BY <2>1 DEF Saved
  <2>5. Targets(e) = {new} \cup Targets(s.execUndo)
    <3>1. PICK list : list = s.execUndo
      OBVIOUS
    <3>2. UndoList(c) /\ UndoList(list) /\ e = c \o list /\ Targets(c) \cap SavingFds(list) = {}
      BY <2>2, <2>3, <2>4, <3>1
    <3>3. Combined(c, list, e)
      BY <3>2, InFront, Zenon
    <3> QED
      BY <2>2, <3>1, <3>3 DEF Combined
  <2>6. c \in Seq(Closers)
    BY <2>1 DEF Closers
  <2>7. e \in Seq(Closers)
    BY <1>1, <2>4, <2>6
  <2> QED
    BY <1>1, <1>5, <2>1, <2>5, <2>7 DEF ExecList
<1>9. /\ loose \subseteq Fds /\ \A y \in loose : s0.fds[y] = CLOSED /\ s.fds[y] # CLOSED
      /\ Targets(s0.undo) \subseteq Targets(s.undo) /\ UndoneBy(s0.undo) \subseteq UndoneBy(s.undo)
      /\ \A y \in Fds : y \in Targets(s.undo) \/ y \notin loose =>
           Later(s.undo, s.fds, y) = Later(s0.undo, s0.fds, y)
  BY DEF Going
<1>10. new \notin loose /\ fd # new
  BY <1>9
<1>11. \A y \in Targets(s.undo) : Later(t.undo, t.fds, y) = Later(s.undo, s.fds, y)
  <2> SUFFICES ASSUME NEW y \in Targets(s.undo)
               PROVE  Brought(s.undo, t.fds, y) = Brought(s.undo, s.fds, y)
    BY <1>5 DEF Later
  <2>1. PICK p : p = LastTo(s.undo, y)
    OBVIOUS
  <2>2. p \in DOMAIN s.undo
    BY <1>1, <2>1, HasLast DEF IsLastTo
  <2>3. s.undo[p].ri = "dup" => s.undo[p].from \in SavingFds(s.undo)
    BY <2>2 DEF SavingFds
  <2>4. s.undo[p].ri = "dup" => t.fds[s.undo[p].from] = s.fds[s.undo[p].from]
    BY <1>1, <1>4, <1>6, <2>3
  <2> QED
    BY <2>1, <2>4 DEF Brought, Value
<1>12. \A y \in Fds : y \notin Targets(s.undo) /\ y \notin loose =>
         Later(t.undo, t.fds, y) = s.fds[y]
  <2> SUFFICES ASSUME NEW y \in Fds, y \notin Targets(s.undo)
               PROVE  Later(t.undo, t.fds, y) = s.fds[y]
    OBVIOUS
  <2>1. CASE y = fd
    BY <1>3, <1>5, <1>6, <2>1 DEF Later
  <2>2. CASE y = new
    BY <1>3, <1>5, <1>10, <2>2 DEF Later
  <2>3. CASE y # fd /\ y # new
    BY <1>5, <1>6, <2>3 DEF Later
  <2> QED
    BY <2>1, <2>2, <2>3
<1>13. \A y \in Fds : y \notin Targets(s.undo) => Later(s.undo, s.fds, y) = s.fds[y]
  BY DEF Later
<1> HIDE DEF Later
<1>14. \A y \in Fds : y \in Targets(t.undo) \/ y \notin loose =>
         Later(t.undo, t.fds, y) = Later(s0.undo, s0.fds, y)
  <2> SUFFICES ASSUME NEW y \in Fds, y \in Targets(t.undo) \/ y \notin loose
               PROVE  Later(t.undo, t.fds, y) = Later(s0.undo, s0.fds, y)
    OBVIOUS
  <2>1. y \in Targets(s.undo) \/ y \notin loose
    BY <1>5, <1>10
  <2> QED
    BY <1>9, <1>11, <1>12, <1>13, <2>1
<1>15. \A y \in loose : s0.fds[y] = CLOSED /\ t.fds[y] # CLOSED
  BY <1>6, <1>9, <1>10
<1>16. Targets(s0.undo) \subseteq Targets(t.undo) /\ UndoneBy(s0.undo) \subseteq UndoneBy(t.undo)
  BY <1>5, <1>9
<1>17. Going(s0, t, outer, loose)
  BY <1>7, <1>8, <1>9, <1>14, <1>15, <1>16 DEF Going
<1> QED
  BY <1>5, <1>17

NotedGoing(s0, s, outer, loose, fd, t) ==
  /\ Going(s0, t, outer, loose \ {fd}) /\ fd \in Targets(t.undo)
  /\ t \in Machine /\ t.fds = s.fds /\ t.cloexec = s.cloexec

\* Noting that a descriptor was closed.
LEMMA NoteGoing ==
  ASSUME NEW s0, NEW s, NEW outer, NEW loose, Going(s0, s, outer, loose),
         NEW fd \in Fds, fd \notin s.cloexec, s0.fds[fd] = CLOSED \/ fd \in Targets(s.undo),
         NEW t, t = [s EXCEPT !.undo = <<Closer(fd)>> \o s.undo]
  PROVE  NotedGoing(s0, s, outer, loose, fd, t)
<1>1. /\ s \in Machine /\ UndoList(s.undo) /\ s.undo \in Seq(Entries)
      /\ s.cloexec = SavingFds(s.undo) \cup outer
      /\ Targets(s.undo) \cap outer = {}
      /\ \A y \in s.cloexec : SHELL_FD_BASE <= y /\ s.fds[y] # CLOSED
      /\ ExecList(s.execUndo, s.undo)
  BY DEF Going, Tidy, Machine, UndoList
<1>2. PICK l, u, list : l = <<Closer(fd)>> /\ u = l \o list /\ list = s.undo
  OBVIOUS
<1>3. UndoList(l) /\ SavingFds(l) = {} /\ Targets(l) = {fd} /\ \A f : Brought(l, f, fd) = CLOSED
  BY <1>2, CloserList
<1>4. Combined(l, list, u)
  <2>1. UndoList(l) /\ UndoList(list) /\ u = l \o list /\ Targets(l) \cap SavingFds(list) = {}
    BY <1>1, <1>2, <1>3
  <2> QED
    BY <2>1, InFront, Zenon
<1>5. /\ UndoList(u) /\ SavingFds(u) = SavingFds(s.undo)
      /\ Targets(u) = {fd} \cup Targets(s.undo)
      /\ UndoneBy(s.undo) \subseteq UndoneBy(u)
      /\ \A f : \A y \in Targets(s.undo) : Brought(u, f, y) = Brought(s.undo, f, y)
      /\ \A f : fd \notin Targets(s.undo) => Brought(u, f, fd) = CLOSED
  <2>1. \A f : fd \notin Targets(list) => Brought(u, f, fd) = CLOSED
    BY <1>3, <1>4 DEF Combined
  <2> QED
    BY <1>2, <1>3, <1>4, <2>1 DEF Combined
<1>6. /\ t \in Machine /\ t.undo = u /\ t.fds = s.fds /\ t.cloexec = s.cloexec
      /\ t.execUndo = s.execUndo
  <2>1. u \in Seq(Entries) /\ t = [s EXCEPT !.undo = u]
    BY <1>2, <1>5 DEF UndoList
  <2> QED
    BY <1>1, <2>1 DEF Machine
<1>7. Tidy(t, outer) /\ ExecList(t.execUndo, t.undo)
  BY <1>1, <1>5, <1>6 DEF Tidy, ExecList
<1>8. /\ loose \subseteq Fds /\ \A y \in loose : s0.fds[y] = CLOSED /\ s.fds[y] # CLOSED
      /\ Targets(s0.undo) \subseteq Targets(s.undo) /\ UndoneBy(s0.undo) \subseteq UndoneBy(s.undo)
      /\ \A y \in Fds : y \in Targets(s.undo) \/ y \notin loose =>
           Later(s.undo, s.fds, y) = Later(s0.undo, s0.fds, y)
  BY DEF Going
<1>9. \A y \in Fds : y \in Targets(t.undo) \/ y \notin loose \ {fd} =>
        Later(t.undo, t.fds, y) = Later(s0.undo, s0.fds, y)
  <2> SUFFICES ASSUME NEW y \in Fds, y \in Targets(t.undo) \/ y \notin loose \ {fd}
               PROVE  Later(t.undo, t.fds, y) = Later(s0.undo, s0.fds, y)
    OBVIOUS
  <2>1. CASE y \in Targets(s.undo)
    <3>1. Later(t.undo, t.fds, y) = Later(s.undo, s.fds, y)
      BY <1>5, <1>6, <2>1 DEF Later
    <3> QED
      BY <1>8, <2>1, <3>1
  <2>2. CASE y \notin Targets(s.undo) /\ y = fd
    BY <1>5, <1>6, <1>8, <2>2 DEF Later
  <2>3. CASE y \notin Targets(s.undo) /\ y # fd
    <3>1. Later(t.undo, t.fds, y) = Later(s.undo, s.fds, y)
      <4>1. y \notin Targets(t.undo)
        BY <1>5, <1>6, <2>3
      <4> QED
        BY <1>6, <2>3, <4>1 DEF Later
    <3>2. y \notin loose
      BY <1>5, <1>6, <2>3
    <3> QED
      BY <1>8, <3>1, <3>2
  <2> QED
    BY <2>1, <2>2, <2>3
<1>10. Going(s0, t, outer, loose \ {fd})
  BY <1>5, <1>6, <1>7, <1>8, <1>9 DEF Going
<1> QED
  BY <1>5, <1>6, <1>10 DEF NotedGoing

\* Assigning to the variable of {var} changes no descriptor.
LEMMA VarGoing ==
  ASSUME NEW s0, NEW s, NEW outer, NEW loose, Going(s0, s, outer, loose),
         NEW v \in 0 .. MaxFd, NEW t, t = [s EXCEPT !.var = v]
  PROVE  Going(s0, t, outer, loose)
<1>1. s \in Machine
  BY DEF Going, Tidy
<1>2. /\ t \in Machine /\ t.undo = s.undo /\ t.fds = s.fds /\ t.cloexec = s.cloexec
      /\ t.execUndo = s.execUndo
  BY <1>1 DEF Machine
<1> QED
  BY <1>2 DEF Going, Tidy

\* What is free at or above the base that the shell uses.
OneFree(s) == \E a \in SHELL_FD_BASE .. MaxFd : s.fds[a] = CLOSED
TwoFree(s) == \E a, b \in SHELL_FD_BASE .. MaxFd : a # b /\ s.fds[a] = CLOSED /\ s.fds[b] = CLOSED

\* What fcntl(F_DUPFD) finds.
LEMMA LowestFreeIs ==
  ASSUME NEW s, NEW base \in Nat, base > 0, NEW n, n = LowestFree(s, base)
  PROVE  /\ n # 0 => n \in Fds /\ base <= n /\ s.fds[n] = CLOSED
         /\ (\E a \in base .. MaxFd : s.fds[a] = CLOSED) => n # 0
<1>1. PICK free : free = {fd \in base .. MaxFd : s.fds[fd] = CLOSED}
  OBVIOUS
<1>2. free \subseteq Nat
  BY <1>1
<1>3. CASE free = {}
  <2>1. n = 0
    BY <1>1, <1>3 DEF LowestFree
  <2> QED
    BY <1>1, <1>3, <2>1
<1>4. CASE free # {}
  <2>1. PICK x \in free : \A y \in free : x <= y
    BY <1>2, <1>4, LeastNat
  <2>2. n = Min(free)
    BY <1>1, <1>4 DEF LowestFree
  <2>3. n \in free
    BY <2>1, <2>2 DEF Min
  <2>4. n \in base .. MaxFd /\ s.fds[n] = CLOSED
    BY <1>1, <2>3
  <2>5. MaxFd \in Nat
    BY RedirectionsAssumption
  <2> QED
    BY <2>4, <2>5 DEF Fds
<1> QED
  BY <1>3, <1>4

\* The descriptor that add_undo_redirect() copies to is free and for the shell.
LEMMA FreeFromIs ==
  ASSUME NEW s, OneFree(s), NEW above \in Nat, above >= SHELL_FD_BASE,
         NEW n, n = FreeFrom(s, {above, SHELL_FD_BASE, 1})
  PROVE  n \in Fds /\ SHELL_FD_BASE <= n /\ s.fds[n] = CLOSED
<1>1. PICK found : found = {base \in {above, SHELL_FD_BASE, 1} : LowestFree(s, base) # 0}
  OBVIOUS
<1>2. SHELL_FD_BASE \in Nat /\ SHELL_FD_BASE > 2
  BY RedirectionsAssumption
<1>3. SHELL_FD_BASE \in found
  <2>1. LowestFree(s, SHELL_FD_BASE) # 0
    BY <1>2, LowestFreeIs DEF OneFree
  <2> QED
    BY <1>1, <2>1
<1>4. PICK m : m = Max(found)
  OBVIOUS
<1>5. m \in found /\ m >= SHELL_FD_BASE
  <2>1. \E x \in found : \A y \in found : x >= y
    <3>1. CASE above \in found
      BY <1>1, <1>2, <3>1
    <3>2. CASE above \notin found
      BY <1>1, <1>2, <1>3, <3>2
    <3> QED
      BY <3>1, <3>2
  <2>2. m \in found /\ \A y \in found : m >= y
    BY <1>4, <2>1 DEF Max
  <2> QED
    BY <1>3, <2>2
<1>6. n = LowestFree(s, m)
  BY <1>1, <1>3, <1>4 DEF FreeFrom
<1>7. m \in Nat /\ m > 0 /\ n # 0
  BY <1>1, <1>2, <1>5, <1>6
<1>8. n \in Fds /\ m <= n /\ s.fds[n] = CLOSED
  BY <1>6, <1>7, LowestFreeIs
<1> QED
  BY <1>2, <1>5, <1>7, <1>8 DEF Fds

\* At most one more descriptor is in use, and it was free.
TookOne(s, t) ==
  \E new \in Fds : /\ s.fds[new] = CLOSED /\ SHELL_FD_BASE <= new
                   /\ t.cloexec \subseteq s.cloexec \cup {new}
                   /\ \A y \in Fds : y # new => t.fds[y] = s.fds[y]

\* After one descriptor was taken, those in use are as they were.
LEMMA TookOneParts ==
  ASSUME NEW s, NEW t, TookOne(s, t)
  PROVE  /\ \A y \in Fds : s.fds[y] # CLOSED => t.fds[y] = s.fds[y]
         /\ \A y \in Fds : s.fds[y] # CLOSED /\ y \notin s.cloexec => y \notin t.cloexec
         /\ \A y \in Fds : y < SHELL_FD_BASE /\ y \notin s.cloexec => y \notin t.cloexec
         /\ TwoFree(s) => OneFree(t)
<1>1. PICK new \in Fds : /\ s.fds[new] = CLOSED /\ SHELL_FD_BASE <= new
                         /\ t.cloexec \subseteq s.cloexec \cup {new}
                         /\ \A y \in Fds : y # new => t.fds[y] = s.fds[y]
  BY DEF TookOne
<1>2. ASSUME TwoFree(s)
      PROVE  OneFree(t)
  <2>1. PICK a \in SHELL_FD_BASE .. MaxFd, b \in SHELL_FD_BASE .. MaxFd :
          a # b /\ s.fds[a] = CLOSED /\ s.fds[b] = CLOSED
    BY <1>2 DEF TwoFree
  <2>2. a \in Fds /\ b \in Fds
    BY RedirectionsAssumption DEF Fds
  <2>3. CASE a # new
    BY <1>1, <2>1, <2>2, <2>3 DEF OneFree
  <2>4. CASE b # new
    BY <1>1, <2>1, <2>2, <2>4 DEF OneFree
  <2> QED
    BY <2>1, <2>3, <2>4
<1>3. SHELL_FD_BASE \in Nat
  BY RedirectionsAssumption
<1> QED
  BY <1>1, <1>2, <1>3 DEF Fds

\* fd is saved, or noted as closed.
Remembered(s0, s, outer, loose, fd, noted) ==
  /\ noted.error = FALSE /\ Going(s0, noted.s, outer, loose)
  /\ fd \in Targets(noted.s.undo) /\ TookOne(s, noted.s)
  /\ fd \notin noted.s.cloexec

\* add_undo_redirect() of an open descriptor.
LEMMA AddUndoGoing ==
  ASSUME NEW s0, NEW s, NEW outer, NEW loose, Going(s0, s, outer, loose),
         NEW fd \in Fds, fd \notin s.cloexec, fd \notin loose, s.fds[fd] # CLOSED, OneFree(s),
         NEW fdbase \in Int, NEW ri, NEW noted, noted = add_undo_redirect(s, fd, ri, fdbase)
  PROVE  Remembered(s0, s, outer, loose, fd, noted)
<1> DEFINE above == IF fdbase < SHELL_FD_BASE THEN SHELL_FD_BASE ELSE fdbase + 1
<1>1. PICK new : new = FreeFrom(s, {above, SHELL_FD_BASE, 1})
  OBVIOUS
<1>2. new \in Fds /\ SHELL_FD_BASE <= new /\ s.fds[new] = CLOSED
  <2>1. above \in Nat /\ above >= SHELL_FD_BASE
    BY RedirectionsAssumption
  <2> HIDE DEF above
  <2> QED
    BY <1>1, <2>1, FreeFromIs
<1>3. PICK t : t = SaveIn(s, fd, new, ri)
  OBVIOUS
<1>4. s \in Machine /\ s.cloexec \subseteq Fds
  BY DEF Going, Tidy, Machine
<1>5. Saved(s, t, fd, new)
  BY <1>2, <1>3, <1>4, SaveInDoes
<1>6. Going(s0, t, outer, loose) /\ fd \in Targets(t.undo)
  BY <1>2, <1>5, SaveGoing
<1>7. TookOne(s, t)
  <2>1. \A y \in Fds : y # new => t.fds[y] = s.fds[y]
    BY <1>4, <1>5 DEF Saved, Machine
  <2> QED
    BY <1>2, <1>5, <2>1 DEF Saved, TookOne
<1>8. noted = Done(t)
  <2>1. noted = SaveInAny(s, fd, new, ri)
    BY <1>1 DEF add_undo_redirect, IsOpen
  <2>2. new # 0
    BY <1>2 DEF Fds
  <2> QED
    BY <1>3, <2>1, <2>2 DEF SaveInAny
<1>9. noted.s = t /\ noted.error = FALSE
  BY <1>8 DEF Done
<1> QED
  BY <1>6, <1>7, <1>9, TookOneParts DEF Remembered

\* Remembering a descriptor before it is redirected, open or not.
LEMMA RememberGoing ==
  ASSUME NEW s0, NEW s, NEW outer, NEW loose, Going(s0, s, outer, loose),
         NEW fd \in Fds, fd \notin s.cloexec, fd \notin loose, OneFree(s),
         NEW fdbase \in Int, NEW ri, NEW noted, noted = Remember(s, fd, ri, fdbase)
  PROVE  Remembered(s0, s, outer, loose, fd, noted)
<1>1. CASE s.fds[fd] # CLOSED
  <2>1. noted = add_undo_redirect(s, fd, ri, fdbase)
    BY <1>1 DEF Remember, IsOpen
  <2> QED
    BY <1>1, <2>1, AddUndoGoing
<1>2. CASE s.fds[fd] = CLOSED
  <2>1. PICK t : t = [s EXCEPT !.undo = <<Closer(fd)>> \o s.undo]
    OBVIOUS
  <2>2. noted = Done(t)
    BY <1>2, <2>1 DEF Remember, IsOpen, add_undo_close_redirect
  <2>3. noted.s = t /\ noted.error = FALSE
    BY <2>2 DEF Done
  <2>4. s0.fds[fd] = CLOSED \/ fd \in Targets(s.undo)
    <3>1. SUFFICES ASSUME fd \notin Targets(s.undo)
                   PROVE  s0.fds[fd] = CLOSED
      OBVIOUS
    <3>2. Later(s.undo, s.fds, fd) = Later(s0.undo, s0.fds, fd)
      BY DEF Going
    <3>3. fd \notin Targets(s0.undo)
      BY <3>1 DEF Going
    <3> QED
      BY <1>2, <3>1, <3>2, <3>3 DEF Later
  <2>5. /\ Going(s0, t, outer, loose \ {fd}) /\ fd \in Targets(t.undo)
        /\ t.fds = s.fds /\ t.cloexec = s.cloexec
    <3>1. NotedGoing(s0, s, outer, loose, fd, t)
      BY <2>1, <2>4, NoteGoing, Zenon
    <3> QED
      BY <3>1 DEF NotedGoing
  <2>6. loose \ {fd} = loose
    OBVIOUS
  <2>7. TookOne(s, t)
    <3>1. PICK a \in SHELL_FD_BASE .. MaxFd : s.fds[a] = CLOSED
      BY DEF OneFree
    <3>2. a \in Fds /\ SHELL_FD_BASE <= a
      BY RedirectionsAssumption DEF Fds
    <3> QED
      BY <2>5, <3>1, <3>2 DEF TookOne
  <2> QED
    BY <2>3, <2>5, <2>6, <2>7 DEF Remembered
<1> QED
  BY <1>1, <1>2

\* The copy of a descriptor does not inherit the flag.
CopyMade(s, r, noted, c) ==
  /\ Copy(noted, r) = Done(CloseMoved(c, r))
  /\ c.fds = [s.fds EXCEPT ![r.to] = s.fds[r.from]]
  /\ c.cloexec = s.cloexec \ {r.to}
  /\ c.undo = s.undo /\ c.execUndo = s.execUndo /\ c.var = s.var

Plain(s, r) ==
  \/ r.to <= 2
  \/ r.internal = TRUE /\ r.saved = TRUE
  \/ r.internal = FALSE /\ r.from \notin s.cloexec

\* What dup2() and the close of a moved descriptor leave.
LEMMA CopyDoes ==
  ASSUME NEW s \in Machine, NEW r, r.from \in Fds, r.to \in Fds, s.fds[r.from] # CLOSED,
         Plain(s, r), NEW noted, noted.error = FALSE, noted.s = s
  PROVE  \E c \in Machine : CopyMade(s, r, noted, c)
<1>1. PICK d : d = Dup2(s, r.from, r.to)
  OBVIOUS
<1>2. /\ d \in Machine /\ d.fds = [s.fds EXCEPT ![r.to] = s.fds[r.from]]
      /\ d.cloexec = s.cloexec \ {r.to}
      /\ d.undo = s.undo /\ d.execUndo = s.execUndo /\ d.var = s.var
  <2>1. s.fds[r.from] \in Things
    BY DEF Machine
  <2>2. PICK fd, x : fd = r.to /\ x = s.fds[r.from]
    OBVIOUS
  <2>3. d = Refer(s, fd, x)
    BY <1>1, <2>2 DEF Dup2
  <2> QED
    BY <2>1, <2>2, <2>3, ReferDoes
<1>3. ~(2 < r.to /\ ((r.from \in s.cloexec \/ (r.from < 2 /\ r.internal)) /\ ~(r.internal /\ r.saved)))
  BY DEF Plain, Fds
<1>4. Copy(noted, r) = Done(CloseMoved([d EXCEPT !.cloexec = d.cloexec], r))
  BY <1>1, <1>3 DEF Copy, IsOpen
<1>5. [d EXCEPT !.cloexec = d.cloexec] = d
  BY <1>2 DEF Machine
<1>6. Copy(noted, r) = Done(CloseMoved(d, r))
  BY <1>4, <1>5
<1> QED
  BY <1>2, <1>6 DEF CopyMade

\* What a call of Refer does, and what Done gives.
Referred(s, t, fd, x) ==
  /\ t \in Machine /\ t.fds = [s.fds EXCEPT ![fd] = x] /\ t.cloexec = s.cloexec \ {fd}
  /\ t.undo = s.undo /\ t.execUndo = s.execUndo /\ t.var = s.var
  /\ t.fds[fd] = x /\ \A y \in Fds : y # fd => t.fds[y] = s.fds[y]
  /\ fd \notin s.cloexec => Changed(s, t, fd, x)

\* Referring a descriptor to something, as one record of what it changes.
LEMMA Refers ==
  ASSUME NEW s \in Machine, NEW fd \in Fds, NEW x \in Things, NEW t, t = Refer(s, fd, x)
  PROVE  Referred(s, t, fd, x)
<1>1. /\ t \in Machine /\ t.fds = [s.fds EXCEPT ![fd] = x] /\ t.cloexec = s.cloexec \ {fd}
      /\ t.undo = s.undo /\ t.execUndo = s.execUndo /\ t.var = s.var
  BY ReferDoes
<1>2. t.fds[fd] = x /\ \A y \in Fds : y # fd => t.fds[y] = s.fds[y]
  BY <1>1 DEF Machine
<1>3. fd \notin s.cloexec => Changed(s, t, fd, x)
  BY <1>1 DEF Changed
<1> QED
  BY <1>1, <1>2, <1>3 DEF Referred

\* The fields of a result.
LEMMA DoneParts ==
  ASSUME NEW s
  PROVE  /\ Done(s).s = s /\ Done(s).error = FALSE
         /\ Failed(s).s = s /\ Failed(s).error = TRUE
BY DEF Done, Failed

\* What one redirection starts from.
LEMMA Starts ==
  ASSUME NEW s, NEW outer, Tidy(s, outer), ExecList(s.execUndo, s.undo), TwoFree(s)
  PROVE  /\ s \in Machine /\ s.fds \in [Fds -> Things] /\ Going(s, s, outer, {})
         /\ \A y \in Fds : y < SHELL_FD_BASE \/ s.fds[y] = CLOSED => y \notin s.cloexec
         /\ OneFree(s) /\ SHELL_FD_BASE \in Nat /\ SHELL_FD_BASE > 2 /\ SHELL_FD_BASE <= MaxFd
         /\ MaxFd \in Nat
<1>1. OneFree(s)
  BY DEF OneFree, TwoFree
<1>2. SHELL_FD_BASE \in Nat /\ SHELL_FD_BASE > 2 /\ SHELL_FD_BASE <= MaxFd /\ MaxFd \in Nat
  BY RedirectionsAssumption
<1>3. s \in Machine /\ \A y \in s.cloexec : SHELL_FD_BASE <= y /\ s.fds[y] # CLOSED
  BY DEF Tidy
<1>4. s.fds \in [Fds -> Things]
  BY <1>3 DEF Machine
<1>5. Going(s, s, outer, {})
  BY GoingOn
<1>6. \A y \in Fds : y < SHELL_FD_BASE \/ s.fds[y] = CLOSED => y \notin s.cloexec
  BY <1>2, <1>3 DEF Fds
<1> QED
  BY <1>1, <1>2, <1>3, <1>4, <1>5, <1>6

\* A file is opened for descriptor to.
OpenedAs(s0, outer, to, result) ==
  /\ result.error = FALSE /\ Going(s0, result.s, outer, {}) /\ OneFree(result.s)
  /\ \A y \in Fds : s0.fds[y] # CLOSED /\ y # to => result.s.fds[y] = s0.fds[y]

\* [to]> file
LEMMA OpenGoing ==
  ASSUME NEW s0, NEW outer, Tidy(s0, outer), ExecList(s0.execUndo, s0.undo), TwoFree(s0),
         NEW r, r.var = FALSE, r.to \in Fds, r.to < SHELL_FD_BASE,
         r.file \in Things, r.file # CLOSED,
         NEW result, result = OpenFile(s0, r, TRUE)
  PROVE  OpenedAs(s0, outer, r.to, result)
<1>1. PICK fd, file, to : fd = LowestFree(s0, 1) /\ file = r.file /\ to = r.to
  OBVIOUS
<1>2. PICK opened : opened = Refer(s0, fd, file)
  OBVIOUS
<1>3. /\ s0 \in Machine /\ s0.fds \in [Fds -> Things] /\ Going(s0, s0, outer, {})
      /\ \A y \in Fds : y < SHELL_FD_BASE \/ s0.fds[y] = CLOSED => y \notin s0.cloexec
      /\ OneFree(s0) /\ SHELL_FD_BASE \in Nat /\ SHELL_FD_BASE > 2 /\ SHELL_FD_BASE <= MaxFd
      /\ MaxFd \in Nat
  BY Starts
<1>4. fd # 0 /\ fd \in Fds /\ s0.fds[fd] = CLOSED /\ fd \notin s0.cloexec
  <2>1. \E a \in 1 .. MaxFd : s0.fds[a] = CLOSED
    <3>1. PICK a \in SHELL_FD_BASE .. MaxFd : s0.fds[a] = CLOSED
      BY <1>3 DEF OneFree
    <3>2. a \in 1 .. MaxFd
      BY <1>3
    <3> QED
      BY <3>1, <3>2
  <2>2. fd # 0 /\ fd \in Fds /\ s0.fds[fd] = CLOSED
    BY <1>1, <2>1, LowestFreeIs
  <2> QED
    BY <1>3, <2>2
<1>5. /\ opened \in Machine /\ opened.fds = [s0.fds EXCEPT ![fd] = file]
      /\ opened.cloexec = s0.cloexec
      /\ opened.undo = s0.undo /\ opened.execUndo = s0.execUndo
  <2>1. file \in Things
    BY <1>1
  <2>2. Referred(s0, opened, fd, file)
    BY <1>2, <1>3, <1>4, <2>1, Refers
  <2> QED
    BY <1>4, <2>2 DEF Referred
<1>6. Changed(s0, opened, fd, file)
  BY <1>5 DEF Changed
<1>7. Going(s0, opened, outer, {fd})
  <2>1. Going(s0, opened, outer, {} \cup {fd})
    BY <1>1, <1>3, <1>4, <1>6, ReferGoing
  <2>2. {} \cup {fd} = {fd}
    OBVIOUS
  <2> QED
    BY <2>1, <2>2
<1>8. opened.fds[fd] = file /\ \A y \in Fds : y # fd => opened.fds[y] = s0.fds[y]
  BY <1>3, <1>4, <1>5
<1>9. OneFree(opened)
  <2>1. PICK a \in SHELL_FD_BASE .. MaxFd, b \in SHELL_FD_BASE .. MaxFd :
          a # b /\ s0.fds[a] = CLOSED /\ s0.fds[b] = CLOSED
    BY DEF TwoFree
  <2>2. a \in Fds /\ b \in Fds
    BY <1>3 DEF Fds
  <2> QED
    BY <1>8, <2>1, <2>2 DEF OneFree
<1>10. CASE fd = to
  <2>1. PICK t : t = [opened EXCEPT !.undo = <<Closer(fd)>> \o opened.undo]
    OBVIOUS
  <2>2. NotedGoing(s0, opened, outer, {fd}, fd, t)
    BY <1>4, <1>5, <1>7, <2>1, NoteGoing, Zenon
  <2>3. {fd} \ {fd} = {}
    OBVIOUS
  <2>4. Going(s0, t, outer, {}) /\ t.fds = opened.fds
    BY <2>2, <2>3 DEF NotedGoing
  <2>5. result = OpenAs(Done(t), fd, to)
    BY <1>1, <1>2, <1>4, <1>10, <2>1 DEF OpenFile, add_undo_close_redirect
  <2>6. result = Done(t)
    BY <1>10, <2>5 DEF OpenAs, Done, PutIn
  <2>7. result.s = t /\ result.error = FALSE
    BY <2>6, DoneParts
  <2>8. OneFree(t)
    BY <1>9, <2>4 DEF OneFree
  <2> QED
    BY <1>4, <1>8, <2>4, <2>7, <2>8 DEF OpenedAs
<1>11. CASE fd # to
  <2>1. PICK noted : noted = Remember(opened, to, r.ri, -1)
    OBVIOUS
  <2>2. to \in Fds /\ to < SHELL_FD_BASE /\ to \notin opened.cloexec
    BY <1>1, <1>3, <1>5
  <2>3. Remembered(s0, opened, outer, {fd}, to, noted)
    <3>1. to \notin {fd} /\ -1 \in Int
      BY <1>11
    <3>2. PICK ri, base, loose : ri = r.ri /\ base = -1 /\ loose = {fd}
      OBVIOUS
    <3>3. Remembered(s0, opened, outer, loose, to, noted)
      BY <1>7, <1>9, <2>1, <2>2, <3>1, <3>2, RememberGoing
    <3> QED
      BY <3>2, <3>3
  <2>4. PICK t : t = noted.s
    OBVIOUS
  <2>5. /\ noted.error = FALSE /\ Going(s0, t, outer, {fd})
        /\ to \in Targets(t.undo) /\ TookOne(opened, t) /\ to \notin t.cloexec
    BY <2>3, <2>4 DEF Remembered
  <2>6. t.fds[fd] = file /\ fd \notin t.cloexec /\ t \in Machine /\ t.fds \in [Fds -> Things]
    <3>1. t.fds[fd] = file /\ fd \notin t.cloexec
      BY <1>1, <1>4, <1>5, <1>8, <2>5, TookOneParts
    <3> QED
      BY <2>5, <3>1 DEF Going, Tidy, Machine
  <2>7. PICK d : d = Refer(t, to, file)
    OBVIOUS
  <2>8. Changed(t, d, to, file) /\ d \in Machine /\ d.fds = [t.fds EXCEPT ![to] = file]
        /\ d.cloexec = t.cloexec
    <3>1. file \in Things
      BY <1>1
    <3>2. Referred(t, d, to, file)
      BY <2>2, <2>6, <2>7, <3>1, Refers
    <3> QED
      BY <2>5, <3>2 DEF Referred, Changed
  <2>9. Going(s0, d, outer, {fd} \ {to})
    BY <1>1, <2>2, <2>5, <2>8, ReferGoing
  <2>10. PICK e : e = Refer(d, fd, CLOSED)
    OBVIOUS
  <2>11. CLOSED \in Things
    BY DEF Things
  <2>12. /\ Changed(d, e, fd, CLOSED)
         /\ e.fds = [d.fds EXCEPT ![fd] = CLOSED]
    <3>1. Referred(d, e, fd, CLOSED)
      BY <1>4, <2>8, <2>10, <2>11, Refers
    <3>2. fd \notin d.cloexec
      BY <2>6, <2>8
    <3> QED
      BY <3>1, <3>2 DEF Referred
  <2>13. Going(s0, e, outer, ({fd} \ {to}) \ {fd})
    BY <1>4, <2>6, <2>8, <2>9, <2>11, <2>12, ReferGoing
  <2>14. Going(s0, e, outer, {})
    <3>1. ({fd} \ {to}) \ {fd} = {}
      OBVIOUS
    <3> QED
      BY <2>13, <3>1
  <2>15. result = OpenAs(noted, fd, to)
    BY <1>1, <1>2, <1>4, <1>11, <2>1 DEF OpenFile
  <2>16. result = Done(e)
    BY <1>11, <2>4, <2>5, <2>6, <2>7, <2>10, <2>15 DEF OpenAs, PutIn, Dup2, Close
  <2>17. result.s = e /\ result.error = FALSE
    BY <2>16, DoneParts
  <2>18. e.fds[fd] = CLOSED /\ \A y \in Fds : y # fd /\ y # to => e.fds[y] = t.fds[y]
    BY <1>4, <2>2, <2>6, <2>8, <2>12
  <2>19. \A y \in Fds : s0.fds[y] # CLOSED /\ y # to => e.fds[y] = s0.fds[y]
    BY <1>4, <1>8, <2>5, <2>18, TookOneParts
  <2>20. OneFree(e)
    <3>1. PICK a \in SHELL_FD_BASE .. MaxFd, b \in SHELL_FD_BASE .. MaxFd :
            a # b /\ s0.fds[a] = CLOSED /\ s0.fds[b] = CLOSED
      BY DEF TwoFree
    <3>2. a \in Fds /\ b \in Fds /\ a # to /\ b # to
      BY <1>3, <2>2 DEF Fds
    <3>3. PICK new \in Fds : \A y \in Fds : y # new => t.fds[y] = opened.fds[y]
      BY <2>5 DEF TookOne
    <3>4. \A y \in Fds : y # new /\ y # to => e.fds[y] = CLOSED \/ e.fds[y] = s0.fds[y]
      BY <1>8, <2>18, <3>3
    <3>5. e.fds[a] = CLOSED \/ e.fds[b] = CLOSED
      BY <3>1, <3>2, <3>4
    <3> QED
      BY <3>5 DEF OneFree
  <2> QED
    BY <1>1, <2>14, <2>17, <2>19, <2>20 DEF OpenedAs
<1> QED
  BY <1>10, <1>11

\* Making fd refer to x, in the course of a redirection.
Put(s0, s, t, outer, loose, fd, x) ==
  /\ Referred(s, t, fd, x)
  /\ fd \in Targets(s.undo) => Going(s0, t, outer, loose \ {fd})
  /\ s0.fds[fd] = CLOSED /\ x = CLOSED => Going(s0, t, outer, loose \ {fd})
  /\ s0.fds[fd] = CLOSED /\ x # CLOSED => Going(s0, t, outer, loose \cup {fd})

\* A descriptor that is new to the user is loose until it is noted.
LEMMA PutGoing ==
  ASSUME NEW s0, NEW s, NEW outer, NEW loose, Going(s0, s, outer, loose),
         NEW fd \in Fds, fd \notin s.cloexec, NEW x \in Things, NEW t, t = Refer(s, fd, x)
  PROVE  Put(s0, s, t, outer, loose, fd, x)
<1>1. s \in Machine
  BY DEF Going, Tidy
<1>2. Referred(s, t, fd, x)
  BY <1>1, Refers
<1>3. Changed(s, t, fd, x)
  BY <1>2 DEF Referred
<1> QED
  BY <1>2, <1>3, ReferGoing DEF Put

\* What is known of the record on the way.
LEMMA GoingParts ==
  ASSUME NEW s0, NEW s, NEW outer, NEW loose, Going(s0, s, outer, loose)
  PROVE  /\ s \in Machine /\ s.fds \in [Fds -> Things]
         /\ \A y \in Fds : y < SHELL_FD_BASE => y \notin s.cloexec
BY RedirectionsAssumption DEF Going, Tidy, Machine, Fds

\* A redirection, which may have failed, or have chosen a descriptor.
Performed(s0, outer, result) ==
  \E chosen \in {{}} \cup {{fd} : fd \in SHELL_FD_BASE .. MaxFd} :
    /\ Going(s0, result.s, outer, chosen)
    /\ result.error => chosen = {}

\* A redirection after which nothing is loose is performed.
LEMMA PerformedNone ==
  ASSUME NEW s0, NEW outer, NEW result, Going(s0, result.s, outer, {})
  PROVE  Performed(s0, outer, result)
BY DEF Performed

\* A redirection that leaves its {var} open is performed.
LEMMA PerformedOne ==
  ASSUME NEW s0, NEW outer, NEW result, NEW fd \in Fds, SHELL_FD_BASE <= fd,
         Going(s0, result.s, outer, {fd}), result.error = FALSE
  PROVE  Performed(s0, outer, result)
<1>1. fd \in SHELL_FD_BASE .. MaxFd
  BY RedirectionsAssumption DEF Fds
<1> QED
  BY <1>1 DEF Performed

\* {var}> file
LEMMA OpenNamedGoing ==
  ASSUME NEW s0, NEW outer, Tidy(s0, outer), ExecList(s0.execUndo, s0.undo), TwoFree(s0),
         NEW r, r.var = TRUE, r.file \in Things, r.file # CLOSED,
         NEW result, result = OpenFile(s0, r, TRUE)
  PROVE  Performed(s0, outer, result)
<1>1. PICK fd, file : fd = LowestFree(s0, 1) /\ file = r.file
  OBVIOUS
<1>2. PICK opened : opened = Refer(s0, fd, file)
  OBVIOUS
<1>3. /\ s0 \in Machine /\ s0.fds \in [Fds -> Things] /\ Going(s0, s0, outer, {})
      /\ \A y \in Fds : y < SHELL_FD_BASE \/ s0.fds[y] = CLOSED => y \notin s0.cloexec
      /\ OneFree(s0) /\ SHELL_FD_BASE \in Nat /\ SHELL_FD_BASE > 2 /\ SHELL_FD_BASE <= MaxFd
      /\ MaxFd \in Nat
  BY Starts
<1>4. fd # 0 /\ fd \in Fds /\ s0.fds[fd] = CLOSED /\ fd \notin s0.cloexec
  <2>1. \E a \in 1 .. MaxFd : s0.fds[a] = CLOSED
    <3>1. PICK a \in SHELL_FD_BASE .. MaxFd : s0.fds[a] = CLOSED
      BY <1>3 DEF OneFree
    <3>2. a \in 1 .. MaxFd
      BY <1>3
    <3> QED
      BY <3>1, <3>2
  <2>2. fd # 0 /\ fd \in Fds /\ s0.fds[fd] = CLOSED
    BY <1>1, <2>1, LowestFreeIs
  <2> QED
    BY <1>3, <2>2
<1>5. file \in Things /\ file # CLOSED /\ CLOSED \in Things
  BY <1>1 DEF Things
<1>6. Put(s0, s0, opened, outer, {}, fd, file)
  BY <1>2, <1>3, <1>4, <1>5, PutGoing
<1>7. Going(s0, opened, outer, {fd})
  <2>1. {} \cup {fd} = {fd}
    OBVIOUS
  <2> QED
    BY <1>4, <1>5, <1>6, <2>1 DEF Put
<1>8. /\ opened.fds[fd] = file /\ \A y \in Fds : y # fd => opened.fds[y] = s0.fds[y]
      /\ opened.cloexec = s0.cloexec
  BY <1>4, <1>6 DEF Put, Referred
<1>9. OneFree(opened)
  <2>1. PICK a \in SHELL_FD_BASE .. MaxFd, b \in SHELL_FD_BASE .. MaxFd :
          a # b /\ s0.fds[a] = CLOSED /\ s0.fds[b] = CLOSED
    BY DEF TwoFree
  <2>2. a \in Fds /\ b \in Fds
    BY <1>3 DEF Fds
  <2> QED
    BY <1>8, <2>1, <2>2 DEF OneFree
<1>10. PICK other : other = LowestFree(opened, SHELL_FD_BASE)
  OBVIOUS
<1>11. other # 0 /\ other \in Fds /\ SHELL_FD_BASE <= other /\ opened.fds[other] = CLOSED
  BY <1>3, <1>9, <1>10, LowestFreeIs DEF OneFree
<1>12. other # fd /\ s0.fds[other] = CLOSED /\ other \notin opened.cloexec
  BY <1>3, <1>5, <1>8, <1>11
<1>13. PICK d : d = Refer(opened, other, file)
  OBVIOUS
<1>14. Put(s0, opened, d, outer, {fd}, other, file)
  BY <1>5, <1>7, <1>11, <1>12, <1>13, PutGoing
<1>15. Going(s0, d, outer, {fd} \cup {other}) /\ fd \notin d.cloexec
  BY <1>4, <1>5, <1>8, <1>12, <1>14 DEF Put, Referred
<1>16. PICK e : e = Refer(d, fd, CLOSED)
  OBVIOUS
<1>17. Put(s0, d, e, outer, {fd} \cup {other}, fd, CLOSED)
  <2>1. PICK loose : loose = {fd} \cup {other}
    OBVIOUS
  <2>2. Put(s0, d, e, outer, loose, fd, CLOSED)
    BY <1>4, <1>5, <1>15, <1>16, <2>1, PutGoing
  <2> QED
    BY <2>1, <2>2
<1>18. Going(s0, e, outer, {other})
  <2>1. ({fd} \cup {other}) \ {fd} = {other}
    BY <1>12
  <2> QED
    BY <1>4, <1>17, <2>1 DEF Put
<1>19. PICK f : f = [e EXCEPT !.var = other]
  OBVIOUS
<1>20. Going(s0, f, outer, {other})
  <2>1. PICK loose : loose = {other}
    OBVIOUS
  <2>2. other \in 0 .. MaxFd
    BY <1>11 DEF Fds
  <2>3. Going(s0, f, outer, loose)
    BY <1>18, <1>19, <2>1, <2>2, VarGoing
  <2> QED
    BY <2>1, <2>3
<1>21. result = OpenNamed(opened, fd, other)
  BY <1>1, <1>2, <1>4, <1>10 DEF OpenFile
<1>22. result = Done(f)
  BY <1>8, <1>11, <1>12, <1>13, <1>16, <1>19, <1>21 DEF OpenNamed, PutIn, Close, Dup2
<1>23. result.s = f /\ result.error = FALSE
  BY <1>22, DoneParts
<1> QED
  BY <1>11, <1>20, <1>23, PerformedOne

\* &> file
LEMMA BothGoing ==
  ASSUME NEW s0, NEW outer, Tidy(s0, outer), ExecList(s0.execUndo, s0.undo), TwoFree(s0),
         NEW r, r.var = FALSE, r.to = 1, r.file \in Things, r.file # CLOSED,
         s0.fds[2] # CLOSED,
         NEW result, result = OpenBoth(s0, r, TRUE)
  PROVE  Performed(s0, outer, result)
<1>1. SHELL_FD_BASE \in Nat /\ SHELL_FD_BASE > 2 /\ SHELL_FD_BASE <= MaxFd /\ MaxFd \in Nat
  BY RedirectionsAssumption
<1>2. 1 \in Fds /\ 2 \in Fds /\ 1 < SHELL_FD_BASE /\ 2 < SHELL_FD_BASE
  BY <1>1 DEF Fds
<1>3. PICK first, s : first = OpenFile(s0, r, TRUE) /\ s = first.s
  OBVIOUS
<1>4. OpenedAs(s0, outer, r.to, first)
  BY <1>2, <1>3, OpenGoing
<1>5. /\ first.error = FALSE /\ Going(s0, s, outer, {}) /\ OneFree(s)
      /\ s.fds[2] # CLOSED
  <2>1. r.to = 1 /\ 2 # 1
    OBVIOUS
  <2> QED
    BY <1>2, <1>3, <1>4, <2>1 DEF OpenedAs
<1>6. 2 \notin s.cloexec
  BY <1>2, <1>5, GoingParts
<1>7. PICK noted, t : noted = add_undo_redirect(s, 2, r.ri, -1) /\ t = noted.s
  OBVIOUS
<1>8. Remembered(s0, s, outer, {}, 2, noted)
  <2>1. PICK fd, loose, ri, base : fd = 2 /\ loose = {} /\ ri = r.ri /\ base = -1
    OBVIOUS
  <2>2. Remembered(s0, s, outer, loose, fd, noted)
    BY <1>2, <1>5, <1>6, <1>7, <2>1, AddUndoGoing
  <2> QED
    BY <2>1, <2>2
<1>9. Going(s0, t, outer, {}) /\ 2 \in Targets(t.undo) /\ 2 \notin t.cloexec
  BY <1>7, <1>8 DEF Remembered
<1>10. PICK x, d : x = t.fds[1] /\ d = Refer(t, 2, x)
  OBVIOUS
<1>11. x \in Things
  BY <1>2, <1>9, <1>10, GoingParts
<1>12. Put(s0, t, d, outer, {}, 2, x)
  <2>1. PICK fd, loose : fd = 2 /\ loose = {}
    OBVIOUS
  <2>2. Put(s0, t, d, outer, loose, fd, x)
    BY <1>2, <1>9, <1>10, <1>11, <2>1, PutGoing
  <2> QED
    BY <2>1, <2>2
<1>13. Going(s0, d, outer, {})
  <2>1. {} \ {2} = {}
    OBVIOUS
  <2> QED
    BY <1>9, <1>12, <2>1 DEF Put
<1>14. result = Done(d)
  BY <1>3, <1>5, <1>7, <1>10 DEF OpenBoth, ToBoth, Dup2
<1>15. result.s = d
  BY <1>14, DoneParts
<1> QED
  BY <1>13, <1>15, PerformedNone

\* The copy and, for a move, the close of what was copied.
Copied(s0, s, outer, loose, to, result) ==
  \/ result.error = TRUE /\ Going(s0, result.s, outer, loose)
  \/ /\ result.error = FALSE
     /\ to \in Targets(s.undo) => Going(s0, result.s, outer, loose \ {to})
     /\ s0.fds[to] = CLOSED => Going(s0, result.s, outer, loose \cup {to})

\* One descriptor made a copy of another, after the first was remembered.
LEMMA CopyGoing ==
  ASSUME NEW s0, NEW s, NEW outer, NEW loose, Going(s0, s, outer, loose),
         NEW r, r.from \in Fds, r.to \in Fds, r.internal = FALSE, r.from # r.to,
         r.from \notin s.cloexec, r.to \notin s.cloexec, r.from \notin loose,
         r.ri = "move" => r.from \in Targets(s.undo),
         NEW noted, noted.error = FALSE, noted.s = s,
         NEW result, result = Copy(noted, r)
  PROVE  Copied(s0, s, outer, loose, r.to, result)
<1>1. s \in Machine /\ s.fds \in [Fds -> Things]
  BY GoingParts
<1>2. CASE s.fds[r.from] = CLOSED
  <2>1. result = Failed(s)
    BY <1>2 DEF Copy, IsOpen
  <2>2. result.s = s /\ result.error = TRUE
    BY <2>1, DoneParts
  <2> QED
    BY <2>2 DEF Copied
<1>3. CASE s.fds[r.from] # CLOSED
  <2>1. PICK from, to, x : from = r.from /\ to = r.to /\ x = s.fds[from]
    OBVIOUS
  <2>2. x \in Things /\ x # CLOSED /\ CLOSED \in Things
    BY <1>1, <1>3, <2>1 DEF Things
  <2>3. Plain(s, r)
    BY DEF Plain
  <2>4. PICK c \in Machine : CopyMade(s, r, noted, c)
    BY <1>1, <1>3, <2>3, CopyDoes
  <2>5. /\ Copy(noted, r) = Done(CloseMoved(c, r))
        /\ c.fds = [s.fds EXCEPT ![r.to] = s.fds[r.from]]
        /\ c.cloexec = s.cloexec \ {r.to}
        /\ c.undo = s.undo /\ c.execUndo = s.execUndo /\ c.var = s.var
    BY <2>4 DEF CopyMade
  <2>6. Changed(s, c, to, x)
    BY <2>1, <2>5 DEF Changed
  <2>7. /\ to \in Targets(s.undo) => Going(s0, c, outer, loose \ {to})
        /\ s0.fds[to] = CLOSED => Going(s0, c, outer, loose \cup {to})
    BY <2>1, <2>2, <2>6, ReferGoing
  <2>8. from \notin c.cloexec /\ c.undo = s.undo
    BY <2>1, <2>5
  <2>9. CASE r.ri # "move"
    <3>1. result = Done(c)
      BY <2>5, <2>9 DEF CloseMoved
    <3>2. result.s = c /\ result.error = FALSE
      BY <3>1, DoneParts
    <3> QED
      BY <2>1, <2>7, <2>8, <3>2 DEF Copied
  <2>10. CASE r.ri = "move"
    <3>1. PICK e : e = Refer(c, from, CLOSED)
      OBVIOUS
    <3>2. result = Done(e)
      BY <2>1, <2>5, <2>10, <3>1 DEF CloseMoved, Close
    <3>3. result.s = e /\ result.error = FALSE
      BY <3>2, DoneParts
    <3>4. from \in Targets(c.undo)
      BY <2>1, <2>8, <2>10
    <3>5. ASSUME NEW open, Going(s0, c, outer, open), from \notin open
          PROVE  Going(s0, e, outer, open)
      <4>1. Put(s0, c, e, outer, open, from, CLOSED)
        BY <2>1, <2>2, <2>8, <3>1, <3>5, PutGoing
      <4>2. open \ {from} = open
        BY <3>5
      <4> QED
        BY <3>4, <4>1, <4>2 DEF Put
    <3>6. from \notin loose \ {to} /\ from \notin loose \cup {to}
      BY <2>1
    <3>7. /\ to \in Targets(s.undo) => Going(s0, e, outer, loose \ {to})
          /\ s0.fds[to] = CLOSED => Going(s0, e, outer, loose \cup {to})
      BY <2>7, <3>5, <3>6
    <3> QED
      BY <2>1, <3>3, <3>7 DEF Copied
  <2> QED
    BY <2>9, <2>10
<1> QED
  BY <1>2, <1>3

\* The copy on a descriptor that was remembered.
LEMMA CopiedNone ==
  ASSUME NEW s0, NEW s, NEW outer, NEW to, NEW result, Copied(s0, s, outer, {}, to, result),
         to \in Targets(s.undo)
  PROVE  Performed(s0, outer, result)
<1>1. {} \ {to} = {}
  OBVIOUS
<1>2. Going(s0, result.s, outer, {})
  BY <1>1 DEF Copied
<1> QED
  BY <1>2, PerformedNone

\* [to]>& from, [to]>& from -
LEMMA DuplicateGoing ==
  ASSUME NEW s0, NEW outer, Tidy(s0, outer), ExecList(s0.execUndo, s0.undo), TwoFree(s0),
         NEW r, r.var = FALSE, r.internal = FALSE, r.from \in Fds, r.to \in Fds,
         r.from < SHELL_FD_BASE, r.to < SHELL_FD_BASE,
         r.ri = "move" => s0.fds[r.to] # CLOSED,
         NEW result, result = Duplicate(s0, r, TRUE)
  PROVE  Performed(s0, outer, result)
<1>1. /\ s0 \in Machine /\ s0.fds \in [Fds -> Things] /\ Going(s0, s0, outer, {})
      /\ \A y \in Fds : y < SHELL_FD_BASE \/ s0.fds[y] = CLOSED => y \notin s0.cloexec
      /\ OneFree(s0)
  BY Starts
<1>2. CASE r.from = r.to
  <2>1. result = Done(s0)
    BY <1>2 DEF Duplicate
  <2>2. result.s = s0
    BY <2>1, DoneParts
  <2> QED
    BY <1>1, <2>2, PerformedNone
<1>3. CASE r.from # r.to
  <2>1. PICK from, to : from = r.from /\ to = r.to
    OBVIOUS
  <2>2. from \in Fds /\ to \in Fds /\ from \in Int /\ from < SHELL_FD_BASE /\ to < SHELL_FD_BASE
    BY <2>1 DEF Fds
  <2>3. PICK one, s1 : one = Remember(s0, to, r.ri, from) /\ s1 = one.s
    OBVIOUS
  <2>4. Remembered(s0, s0, outer, {}, to, one)
    <3>1. PICK ri, loose : ri = r.ri /\ loose = {}
      OBVIOUS
    <3>2. Remembered(s0, s0, outer, loose, to, one)
      BY <1>1, <2>2, <2>3, <3>1, RememberGoing
    <3> QED
      BY <3>1, <3>2
  <2>5. /\ one.error = FALSE /\ Going(s0, s1, outer, {}) /\ to \in Targets(s1.undo)
        /\ TookOne(s0, s1)
    BY <2>3, <2>4 DEF Remembered
  <2>6. from \notin s1.cloexec /\ to \notin s1.cloexec
    BY <2>2, <2>5, GoingParts
  <2>7. PICK two : two = RememberFrom(one, r)
    OBVIOUS
  <2>8. result = Copy(two, r)
    BY <1>3, <2>1, <2>3, <2>7 DEF Duplicate
  <2>9. CASE r.ri # "move"
    <3>1. two = one
      BY <2>7, <2>9 DEF RememberFrom
    <3>2. Copied(s0, s1, outer, {}, to, result)
      <4>1. PICK loose : loose = {}
        OBVIOUS
      <4>2. Copied(s0, s1, outer, loose, r.to, result)
        BY <1>3, <2>1, <2>2, <2>3, <2>5, <2>6, <2>8, <2>9, <3>1, <4>1, CopyGoing
      <4> QED
        BY <2>1, <4>1, <4>2
    <3> QED
      BY <2>5, <3>2, CopiedNone
  <2>10. CASE r.ri = "move" /\ s1.fds[from] = CLOSED
    <3>1. s1.fds[to] # CLOSED
      BY <2>1, <2>2, <2>5, <2>10, TookOneParts
    <3>2. two = Failed(s1)
      BY <2>1, <2>3, <2>5, <2>7, <2>10, <3>1 DEF RememberFrom, add_undo_redirect, IsOpen
    <3>3. result = Failed(s1)
      BY <2>8, <3>2, DoneParts DEF Copy
    <3>4. result.s = s1
      BY <3>3, DoneParts
    <3> QED
      BY <2>5, <3>4, PerformedNone
  <2>11. CASE r.ri = "move" /\ s1.fds[from] # CLOSED
    <3>1. s1.fds[to] # CLOSED /\ OneFree(s1)
      BY <2>1, <2>2, <2>5, <2>11, TookOneParts
    <3>2. two = add_undo_redirect(s1, from, "close", -1)
      BY <2>1, <2>3, <2>5, <2>7, <2>11, <3>1 DEF RememberFrom, IsOpen
    <3>3. PICK s2 : s2 = two.s
      OBVIOUS
    <3>4. Remembered(s0, s1, outer, {}, from, two)
      <4>1. PICK loose, ri, base : loose = {} /\ ri = "close" /\ base = -1
        OBVIOUS
      <4>2. Remembered(s0, s1, outer, loose, from, two)
        BY <2>2, <2>5, <2>6, <2>11, <3>1, <3>2, <4>1, AddUndoGoing
      <4> QED
        BY <4>1, <4>2
    <3>5. /\ two.error = FALSE /\ Going(s0, s2, outer, {}) /\ from \in Targets(s2.undo)
      BY <3>3, <3>4 DEF Remembered
    <3>6. from \notin s2.cloexec /\ to \notin s2.cloexec
      BY <2>2, <3>5, GoingParts
    <3>7. to \in Targets(s2.undo)
      <4>1. Going(s1, s1, outer, {})
        BY <2>5, GoingOn DEF Going
      <4>2. PICK loose, ri, base : loose = {} /\ ri = "close" /\ base = -1
        OBVIOUS
      <4>3. Remembered(s1, s1, outer, loose, from, two)
        BY <2>2, <2>6, <2>11, <3>1, <3>2, <4>1, <4>2, AddUndoGoing
      <4>4. Targets(s1.undo) \subseteq Targets(s2.undo)
        BY <3>3, <4>3 DEF Remembered, Going
      <4> QED
        BY <2>5, <4>4
    <3>8. Copied(s0, s2, outer, {}, to, result)
      <4>1. PICK loose : loose = {}
        OBVIOUS
      <4>2. Copied(s0, s2, outer, loose, r.to, result)
        BY <1>3, <2>1, <2>2, <2>8, <3>3, <3>5, <3>6, <4>1, CopyGoing
      <4> QED
        BY <2>1, <4>1, <4>2
    <3> QED
      BY <3>7, <3>8, CopiedNone
  <2> QED
    BY <2>9, <2>10, <2>11
<1> QED
  BY <1>2, <1>3

\* {var}>& from, {var}>& from -
LEMMA DuplicateNamedGoing ==
  ASSUME NEW s0, NEW outer, Tidy(s0, outer), ExecList(s0.execUndo, s0.undo), TwoFree(s0),
         NEW r, r.internal = FALSE, r.from \in Fds, r.from < SHELL_FD_BASE, r.to \in Fds \cup {0},
         r.to # 0 => /\ SHELL_FD_BASE <= r.to /\ s0.fds[r.to] = CLOSED
                     /\ s0.fds[r.from] # CLOSED,
         NEW result, result = DuplicateNamed(s0, r)
  PROVE  Performed(s0, outer, result)
<1>1. /\ s0 \in Machine /\ s0.fds \in [Fds -> Things] /\ Going(s0, s0, outer, {})
      /\ \A y \in Fds : y < SHELL_FD_BASE \/ s0.fds[y] = CLOSED => y \notin s0.cloexec
      /\ OneFree(s0) /\ SHELL_FD_BASE \in Nat
  BY Starts
<1>2. CASE r.to = 0
  <2>1. result.s = s0
    BY <1>2, DoneParts DEF DuplicateNamed
  <2> QED
    BY <1>1, <2>1, PerformedNone
<1>3. CASE r.to # 0
  <2>1. PICK from, to, x : from = r.from /\ to = r.to /\ x = s0.fds[from]
    OBVIOUS
  <2>2. /\ from \in Fds /\ to \in Fds /\ from < SHELL_FD_BASE /\ SHELL_FD_BASE <= to
        /\ s0.fds[to] = CLOSED /\ x # CLOSED /\ x \in Things /\ from \in Int /\ to \in Int
    <3>1. x \in Things /\ x # CLOSED
      BY <1>1, <1>3, <2>1
    <3>2. from \in Fds /\ to \in Fds /\ s0.fds[to] = CLOSED
      BY <1>3, <2>1 DEF Fds
    <3>3. from < SHELL_FD_BASE /\ SHELL_FD_BASE <= to
      BY <1>3, <2>1
    <3> QED
      BY <3>1, <3>2, <3>3 DEF Fds
  <2>3. from # to /\ from \notin s0.cloexec /\ to \notin s0.cloexec
    BY <1>1, <2>2
  <2>4. PICK s1, loose : s1 = Refer(s0, to, x) /\ loose = {to}
    OBVIOUS
  <2>5. Put(s0, s0, s1, outer, {}, to, x)
    BY <1>1, <2>2, <2>3, <2>4, PutGoing
  <2>6. Going(s0, s1, outer, loose)
    <3>1. {} \cup {to} = {to}
      OBVIOUS
    <3> QED
      BY <2>2, <2>4, <2>5, <3>1 DEF Put
  <2>7. /\ s1.cloexec = s0.cloexec /\ s1.fds[to] = x
        /\ \A y \in Fds : y # to => s1.fds[y] = s0.fds[y]
    BY <2>3, <2>5 DEF Put, Referred
  <2>8. OneFree(s1)
    <3>1. PICK a \in SHELL_FD_BASE .. MaxFd, b \in SHELL_FD_BASE .. MaxFd :
            a # b /\ s0.fds[a] = CLOSED /\ s0.fds[b] = CLOSED
      BY DEF TwoFree
    <3>2. a \in Fds /\ b \in Fds
      BY RedirectionsAssumption DEF Fds
    <3> QED
      BY <2>7, <3>1, <3>2 DEF OneFree
  <2>9. PICK noted, s2 : noted = RememberFrom(Done(s1), r) /\ s2 = noted.s
    OBVIOUS
  <2>10. /\ noted.error = FALSE /\ Going(s0, s2, outer, loose)
         /\ from \notin s2.cloexec /\ to \notin s2.cloexec
         /\ r.ri = "move" => from \in Targets(s2.undo)
         /\ s2.fds[from] # CLOSED
    <3>1. CASE r.ri # "move"
      <4>1. noted = Done(s1)
        BY <2>9, <3>1 DEF RememberFrom
      <4>2. s2 = s1 /\ noted.error = FALSE
        BY <2>9, <4>1, DoneParts
      <4> QED
        BY <2>1, <2>2, <2>3, <2>6, <2>7, <3>1, <4>2
    <3>2. CASE r.ri = "move"
      <4>1. noted = add_undo_redirect(s1, from, "close", -1)
        <5>1. Done(s1).s = s1 /\ Done(s1).error = FALSE
          BY DoneParts
        <5>2. IsOpen(s1, r.to)
          BY <2>1, <2>2, <2>7 DEF IsOpen
        <5> QED
          BY <2>1, <2>9, <3>2, <5>1, <5>2, Zenon DEF RememberFrom
      <4>2. s1.fds[from] # CLOSED /\ from \notin s1.cloexec /\ from \notin loose
        BY <2>1, <2>2, <2>3, <2>4, <2>7
      <4>3. Remembered(s0, s1, outer, loose, from, noted)
        <5>1. PICK ri, base : ri = "close" /\ base = -1
          OBVIOUS
        <5> QED
          BY <2>2, <2>6, <2>8, <4>1, <4>2, <5>1, AddUndoGoing
      <4>4. /\ noted.error = FALSE /\ Going(s0, s2, outer, loose)
            /\ from \in Targets(s2.undo) /\ TookOne(s1, s2)
        BY <2>9, <4>3 DEF Remembered
      <4>5. from \notin s2.cloexec
        BY <2>2, <4>4, GoingParts
      <4>6. to \notin s2.cloexec /\ s2.fds[from] # CLOSED
        BY <2>2, <2>3, <2>7, <4>2, <4>4, TookOneParts
      <4> QED
        BY <4>4, <4>5, <4>6
    <3> QED
      BY <3>1, <3>2
  <2>11. PICK copied : copied = Copy(noted, r)
    OBVIOUS
  <2>12. Copied(s0, s2, outer, loose, to, copied)
    <3>1. Copied(s0, s2, outer, loose, r.to, copied)
      BY <2>1, <2>2, <2>3, <2>4, <2>9, <2>10, <2>11, CopyGoing
    <3> QED
      BY <2>1, <3>1
  <2>13. result = Numbered(copied, to)
    BY <1>3, <2>1, <2>4, <2>9, <2>11 DEF DuplicateNamed, Dup2
  <2>14. copied.error = FALSE
    BY <2>1, <2>9, <2>10, <2>11, DoneParts DEF Copy, IsOpen
  <2>15. Performed(s0, outer, result)
    <3>1. Going(s0, copied.s, outer, {to})
      <4>1. loose \cup {to} = {to}
        BY <2>4
      <4> QED
        BY <2>2, <2>12, <2>14, <4>1 DEF Copied
    <3>2. PICK c, e : c = copied.s /\ e = [c EXCEPT !.var = to]
      OBVIOUS
    <3>3. Going(s0, e, outer, {to})
      <4>1. to \in 0 .. MaxFd
        BY <2>2 DEF Fds
      <4>2. PICK open : open = {to}
        OBVIOUS
      <4>3. Going(s0, e, outer, open)
        BY <3>1, <3>2, <4>1, <4>2, VarGoing
      <4> QED
        BY <4>2, <4>3
    <3>4. \E d : copied = Done(d)
      BY <2>11, <2>14, DoneParts DEF Copy
    <3>5. result.s = e /\ result.error = FALSE
      BY <2>13, <2>14, <3>2, <3>4 DEF Numbered, Done
    <3> QED
      BY <2>2, <3>3, <3>5, PerformedOne
  <2> QED
    BY <2>15
<1> QED
  BY <1>2, <1>3

\* [to]>&-, {var}>&-
Closable(s0, r) ==
  /\ r.var \in BOOLEAN
  /\ r.var = FALSE => r.to \in Fds /\ r.to < SHELL_FD_BASE
  /\ r.var = TRUE /\ s0.var # 0 => s0.var \notin s0.cloexec

\* [to]>&-, {var}>&-
LEMMA CloseGoing ==
  ASSUME NEW s0, NEW outer, Tidy(s0, outer), ExecList(s0.execUndo, s0.undo), TwoFree(s0),
         NEW r, Closable(s0, r),
         NEW result, result = CloseThis(s0, r, TRUE)
  PROVE  Performed(s0, outer, result)
<1>1. /\ s0 \in Machine /\ s0.fds \in [Fds -> Things] /\ Going(s0, s0, outer, {})
      /\ \A y \in Fds : y < SHELL_FD_BASE \/ s0.fds[y] = CLOSED => y \notin s0.cloexec
      /\ OneFree(s0) /\ SHELL_FD_BASE \in Nat
  BY Starts
<1>2. PICK to : to = IF r.var THEN s0.var ELSE r.to
  OBVIOUS
<1>3. to = 0 \/ (to \in Fds /\ to \notin s0.cloexec)
  <2>1. s0.var \in 0 .. MaxFd /\ MaxFd \in Nat
    BY <1>1, RedirectionsAssumption DEF Machine
  <2> QED
    BY <1>1, <1>2, <2>1 DEF Closable, Fds
<1>4. CASE to = 0
  <2>1. result = Failed(s0)
    BY <1>2, <1>4 DEF CloseThis
  <2>2. result.s = s0
    BY <2>1, DoneParts
  <2> QED
    BY <1>1, <2>2, PerformedNone
<1>5. CASE to # 0
  <2>1. PICK noted, t : noted = Remember(s0, to, r.ri, -1) /\ t = noted.s
    OBVIOUS
  <2>2. Remembered(s0, s0, outer, {}, to, noted)
    <3>1. PICK ri, loose, base : ri = r.ri /\ loose = {} /\ base = -1
      OBVIOUS
    <3>2. Remembered(s0, s0, outer, loose, to, noted)
      BY <1>1, <1>3, <1>5, <2>1, <3>1, RememberGoing
    <3> QED
      BY <3>1, <3>2
  <2>3. noted.error = FALSE /\ Going(s0, t, outer, {}) /\ to \in Targets(t.undo) /\ to \notin t.cloexec
    BY <2>1, <2>2 DEF Remembered
  <2>4. PICK d : d = Refer(t, to, CLOSED)
    OBVIOUS
  <2>5. Put(s0, t, d, outer, {}, to, CLOSED)
    <3>1. CLOSED \in Things
      BY DEF Things
    <3> QED
      BY <1>3, <1>5, <2>3, <2>4, <3>1, PutGoing
  <2>6. Going(s0, d, outer, {})
    <3>1. {} \ {to} = {}
      OBVIOUS
    <3> QED
      BY <2>3, <2>5, <3>1 DEF Put
  <2>7. result = CloseNoted(noted, to)
    BY <1>2, <1>5, <2>1 DEF CloseThis
  <2>8. result.s = d
    <3>1. result = [s |-> Refer(t, to, CLOSED), error |-> noted.error]
      BY <2>1, <2>7, Zenon DEF CloseNoted, Close
    <3>2. PICK b : result = [s |-> d, error |-> b]
      BY <2>4, <3>1
    <3> QED
      BY ONLY <3>2
  <2> QED
    BY <2>6, <2>8, PerformedNone
<1> QED
  BY <1>4, <1>5

\* Nothing disturbs, and scripts leave the shell's descriptors alone.
Quiet == Disturbing = {} /\ UserFds \subseteq 1 .. SHELL_FD_BASE - 1

\* What the redirections of the menu are.
LEMMA MenuParts ==
  ASSUME Quiet, NEW r \in Menu
  PROVE  /\ r.ri \in {"open", "both", "dup", "move", "close"}
         /\ r.var \in BOOLEAN /\ r.internal = FALSE
         /\ r.ri \in {"open", "both"} => r.file \in Things /\ r.file # CLOSED
         /\ r.ri = "open" /\ r.var = FALSE => r.to \in UserFds
         /\ r.ri = "both" => r.var = FALSE /\ r.to = 1
         /\ r.ri \in {"dup", "move"} => r.from \in UserFds
         /\ r.ri \in {"dup", "move"} /\ r.var = FALSE => r.to \in UserFds
         /\ r.ri = "close" /\ r.var = FALSE => r.to \in UserFds
<1>1. CLOSED \notin Files
  BY CommandsAssumption
<1>2. Files \subseteq Things
  BY DEF Things
<1> DEFINE
      Opens == {Redirect("open", fd, 0, f, FALSE, FALSE) : fd \in UserFds, f \in Files}
      Boths == {Redirect("both", 1, 0, f, FALSE, FALSE) : f \in Files}
      Dups == {Redirect(ri, to, from, CLOSED, FALSE, FALSE) :
                 ri \in {"dup", "move"}, to \in UserFds, from \in UserFds}
      Closes == {Redirect("close", fd, 0, CLOSED, FALSE, FALSE) : fd \in UserFds}
      NamedOpens == {Redirect("open", 0, 0, f, TRUE, FALSE) : f \in Files}
      NamedDups == {Redirect(ri, 0, from, CLOSED, TRUE, FALSE) :
                      ri \in {"dup", "move"}, from \in UserFds}
      NamedCloses == {Redirect("close", 0, 0, CLOSED, TRUE, FALSE)}
<1>3. ASSUME r \in Opens
      PROVE  /\ r.ri = "open" /\ r.to \in UserFds /\ r.file \in Files
             /\ r.var = FALSE /\ r.internal = FALSE
  BY ONLY <1>3 DEF Redirect
<1>4. ASSUME r \in Boths
      PROVE  r.ri = "both" /\ r.to = 1 /\ r.file \in Files /\ r.var = FALSE /\ r.internal = FALSE
  BY ONLY <1>4 DEF Redirect
<1>5. ASSUME r \in Dups
      PROVE  /\ r.ri \in {"dup", "move"} /\ r.to \in UserFds /\ r.from \in UserFds
             /\ r.var = FALSE /\ r.internal = FALSE
  BY ONLY <1>5 DEF Redirect
<1>6. ASSUME r \in Closes
      PROVE  r.ri = "close" /\ r.to \in UserFds /\ r.var = FALSE /\ r.internal = FALSE
  BY ONLY <1>6 DEF Redirect
<1>7. ASSUME r \in NamedOpens
      PROVE  r.ri = "open" /\ r.file \in Files /\ r.var = TRUE /\ r.internal = FALSE
  BY ONLY <1>7 DEF Redirect
<1>8. ASSUME r \in NamedDups
      PROVE  /\ r.ri \in {"dup", "move"} /\ r.from \in UserFds
             /\ r.var = TRUE /\ r.internal = FALSE
  BY ONLY <1>8 DEF Redirect
<1>9. ASSUME r \in NamedCloses
      PROVE  r.ri = "close" /\ r.var = TRUE /\ r.internal = FALSE
  BY ONLY <1>9 DEF Redirect
<1>10. \/ r \in Opens \/ r \in Boths \/ r \in Dups \/ r \in Closes
       \/ r \in NamedOpens \/ r \in NamedDups \/ r \in NamedCloses
  BY DEF Menu, Redirect
<1> HIDE DEF Opens, Boths, Dups, Closes, NamedOpens, NamedDups, NamedCloses
<1>11. \A f \in Files : f \in Things /\ f # CLOSED
  BY <1>1, <1>2
<1> QED
  BY <1>3, <1>4, <1>5, <1>6, <1>7, <1>8, <1>9, <1>10, <1>11

\* Two free descriptors, from the count of them.
LEMMA TwoAreFree ==
  ASSUME NEW s, Cardinality({fd \in SHELL_FD_BASE .. MaxFd : s.fds[fd] = CLOSED}) >= 2
  PROVE  TwoFree(s)
<1>1. PICK free : free = {fd \in SHELL_FD_BASE .. MaxFd : s.fds[fd] = CLOSED}
  OBVIOUS
<1>2. IsFiniteSet(SHELL_FD_BASE .. MaxFd)
  BY RedirectionsAssumption, FS_Interval
<1>3. IsFiniteSet(free) /\ Cardinality(free) \in Nat /\ Cardinality(free) >= 2
  BY <1>1, <1>2, FS_Subset, FS_CardinalityType
<1>4. free # {}
  BY <1>3, FS_EmptySet
<1>5. PICK a \in free : TRUE
  BY <1>4
<1>6. free # {a}
  <2>1. Cardinality({a}) = 1
    BY FS_Singleton
  <2> QED
    BY <1>3, <2>1
<1>7. PICK b \in free : b # a
  BY <1>5, <1>6
<1> QED
  BY <1>1, <1>5, <1>7 DEF TwoFree

\* The descriptors of the user are below those of the shell.
LEMMA UserFdsAre ==
  ASSUME Quiet, NEW fd \in UserFds
  PROVE  fd \in Fds /\ fd < SHELL_FD_BASE
BY RedirectionsAssumption DEF Quiet, Fds

\* Any redirection of the menu.
LEMMA PerformGoing ==
  ASSUME Quiet, NEW s0, s0 = Shell, NEW outer, Tidy(s0, outer), ExecList(s0.execUndo, s0.undo),
         Saves = s0.cloexec, NEW r \in Menu, Allowed(r),
         NEW result, result = do_redirection_internal(s0, r, TRUE)
  PROVE  Performed(s0, outer, result)
<1>0. Shell.fds = fds /\ Shell.var = var
  BY DEF Shell
<1>1. TwoFree(s0)
  <2>1. Cardinality({fd \in SHELL_FD_BASE .. MaxFd : fds[fd] = CLOSED}) >= 2
    BY DEF Allowed, Quiet
  <2> QED
    BY <1>0, <2>1, TwoAreFree
<1>2. CASE r.ri = "open" /\ r.var = FALSE
  <2>1. r.to \in Fds /\ r.to < SHELL_FD_BASE /\ r.file \in Things /\ r.file # CLOSED
    BY <1>2, MenuParts, UserFdsAre
  <2>2. result = OpenFile(s0, r, TRUE)
    BY <1>2, Zenon DEF do_redirection_internal
  <2>3. OpenedAs(s0, outer, r.to, result)
    BY <1>1, <1>2, <2>1, <2>2, OpenGoing
  <2> QED
    BY <2>3, PerformedNone DEF OpenedAs
<1>3. CASE r.ri = "open" /\ r.var = TRUE
  <2>1. r.file \in Things /\ r.file # CLOSED
    BY <1>3, MenuParts
  <2>2. result = OpenFile(s0, r, TRUE)
    BY <1>3, Zenon DEF do_redirection_internal
  <2> QED
    BY <1>1, <1>3, <2>1, <2>2, OpenNamedGoing
<1>4. CASE r.ri = "both"
  <2>1. r.var = FALSE /\ r.to = 1 /\ r.file \in Things /\ r.file # CLOSED
    BY <1>4, MenuParts
  <2>2. result = OpenBoth(s0, r, TRUE)
    BY <1>4 DEF do_redirection_internal
  <2>3. s0.fds[2] # CLOSED
    BY <1>0, <1>4 DEF Allowed, Quiet, IsOpen
  <2> QED
    BY <1>1, <2>1, <2>2, <2>3, BothGoing
<1>5. CASE r.ri \in {"dup", "move"} /\ r.var = FALSE
  <2>1. /\ r.internal = FALSE /\ r.from \in Fds /\ r.to \in Fds
        /\ r.from < SHELL_FD_BASE /\ r.to < SHELL_FD_BASE
    BY <1>5, MenuParts, UserFdsAre
  <2>2. result = Duplicate(s0, r, TRUE)
    BY <1>5 DEF do_redirection_internal
  <2>3. r.ri = "move" => s0.fds[r.to] # CLOSED
    BY <1>0, <1>5 DEF Allowed, Quiet, IsOpen
  <2> QED
    BY <1>1, <1>5, <2>1, <2>2, <2>3, DuplicateGoing
<1>6. CASE r.ri \in {"dup", "move"} /\ r.var = TRUE
  <2>1. r.internal = FALSE /\ r.from \in Fds /\ r.from < SHELL_FD_BASE
    BY <1>6, MenuParts, UserFdsAre
  <2>2. PICK to, q : to = F_DUPFD(s0, r.from, SHELL_FD_BASE) /\ q = [r EXCEPT !.to = to]
    OBVIOUS
  <2>3. result = Duplicate(s0, r, TRUE)
    BY <1>6 DEF do_redirection_internal
  <2>4. result = DuplicateNamed(s0, q)
    BY <1>6, <2>2, <2>3, Zenon DEF Duplicate
  <2>5. to # 0 => to \in Fds /\ SHELL_FD_BASE <= to /\ s0.fds[to] = CLOSED /\ s0.fds[r.from] # CLOSED
    <3>1. to # 0 => to = LowestFree(s0, SHELL_FD_BASE) /\ s0.fds[r.from] # CLOSED
      BY <2>2 DEF F_DUPFD, IsOpen
    <3>2. SHELL_FD_BASE \in Nat /\ SHELL_FD_BASE > 0
      BY RedirectionsAssumption
    <3> QED
      BY <3>1, <3>2, LowestFreeIs
  <2>6. q.to = to /\ q.from = r.from /\ q.internal = FALSE
    BY <2>1, <2>2 DEF Menu, Redirect
  <2> QED
    BY <1>1, <2>1, <2>4, <2>5, <2>6, DuplicateNamedGoing
<1>7. CASE r.ri = "close"
  <2>1. r.var = FALSE => r.to \in Fds /\ r.to < SHELL_FD_BASE
    BY <1>7, MenuParts, UserFdsAre
  <2>2. r.var = TRUE /\ s0.var # 0 => s0.var \notin s0.cloexec
    BY <1>0, <1>7 DEF Allowed, VarIsUsable
  <2>3. result = CloseThis(s0, r, TRUE)
    BY <1>7 DEF do_redirection_internal
  <2>4. r.var \in BOOLEAN
    BY MenuParts
  <2>5. Closable(s0, r)
    BY <2>1, <2>2, <2>4 DEF Closable
  <2> QED
    BY <1>1, <2>3, <2>5, CloseGoing
<1>8. r.var \in BOOLEAN /\ r.ri \in {"open", "both", "dup", "move", "close"}
  BY MenuParts
<1> QED
  BY <1>2, <1>3, <1>4, <1>5, <1>6, <1>7, <1>8

----------------------------------------------------------------------------
(* Undoing.  Each entry does one thing; a whole list, what its last entries *)
(* for each descriptor do.                                                  *)
EntryDone(s, r, d) ==
  /\ d \in Machine /\ d.fds = [s.fds EXCEPT ![r.to] = Value(r, s.fds)]
  /\ d.cloexec = s.cloexec \ {r.to}
  /\ d.undo = s.undo /\ d.execUndo = s.execUndo /\ d.var = s.var

\* Undoing one entry.
LEMMA EntryDoes ==
  ASSUME NEW s \in Machine, NEW r \in Entries,
         r.ri = "dup" => /\ r.from # r.to /\ s.fds[r.from] # CLOSED
                         /\ r.saved = TRUE \/ r.to <= 2
  PROVE  \E d : /\ do_redirection_internal(s, r, FALSE) = Done(d)
                /\ EntryDone(s, r, d)
<1>1. /\ r.ri \in {"dup", "close"} /\ r.internal = TRUE /\ r.var = FALSE
      /\ r.to \in Fds /\ (r.ri = "dup" => r.from \in Fds)
  BY EntryParts
<1>2. CASE r.ri = "close"
  <2>1. PICK to, d : to = r.to /\ d = Refer(s, to, CLOSED)
    OBVIOUS
  <2>2. CLOSED \in Things
    BY DEF Things
  <2>3. Referred(s, d, to, CLOSED)
    BY <1>1, <2>1, <2>2, Refers
  <2>4. to # 0
    BY <1>1, <2>1 DEF Fds
  <2>5. do_redirection_internal(s, r, FALSE) = CloseThis(s, r, FALSE)
    BY <1>2 DEF do_redirection_internal
  <2>6. CloseThis(s, r, FALSE) = CloseNoted(Done(s), to)
    BY <1>1, <2>1, <2>4 DEF CloseThis
  <2>7. CloseNoted(Done(s), to) = Done(d)
    BY <2>1 DEF CloseNoted, Close, Done
  <2>8. EntryDone(s, r, d)
    BY <1>2, <2>1, <2>3 DEF Referred, EntryDone, Value
  <2> QED
    BY <2>5, <2>6, <2>7, <2>8
<1>3. CASE r.ri = "dup"
  <2>1. Plain(s, r)
    BY <1>1, <1>3 DEF Plain
  <2>2. PICK noted : noted = Done(s)
    OBVIOUS
  <2>3. noted.s = s /\ noted.error = FALSE
    BY <2>2, DoneParts
  <2>4. PICK c \in Machine : CopyMade(s, r, noted, c)
    BY <1>1, <1>3, <2>1, <2>3, CopyDoes
  <2>5. Copy(noted, r) = Done(c)
    BY <1>3, <2>4 DEF CopyMade, CloseMoved
  <2>6. do_redirection_internal(s, r, FALSE) = Duplicate(s, r, FALSE)
    BY <1>3 DEF do_redirection_internal
  <2>7. Duplicate(s, r, FALSE) = Copy(noted, r)
    BY <1>1, <1>3, <2>2 DEF Duplicate
  <2>8. EntryDone(s, r, c)
    BY <1>3, <2>4 DEF CopyMade, EntryDone, Value
  <2> QED
    BY <2>5, <2>6, <2>7, <2>8
<1> QED
  BY <1>1, <1>2, <1>3

\* One more entry.
Longer(p, q, r) ==
  /\ Targets(q) = Targets(p) \cup {r.to}
  /\ \A f : Later(q, f, r.to) = Value(r, f)
  /\ \A f, fd : fd # r.to => Later(q, f, fd) = Later(p, f, fd)

\* A list and the one that is longer by an entry.
LEMMA OneMore ==
  ASSUME NEW list \in Seq(Entries), NEW i \in 1 .. Len(list),
         NEW p, p = SubSeq(list, 1, i - 1), NEW q, q = SubSeq(list, 1, i),
         NEW r, r = list[i]
  PROVE  Longer(p, q, r)
<1>1. /\ p \in Seq(Entries) /\ Len(p) = i - 1 /\ DOMAIN p = 1 .. i - 1
      /\ \A j \in 1 .. i - 1 : p[j] = list[j]
  OBVIOUS
<1>2. /\ q \in Seq(Entries) /\ Len(q) = i /\ DOMAIN q = 1 .. i
      /\ \A j \in 1 .. i : q[j] = list[j]
  OBVIOUS
<1>3. i \in Nat /\ i \in 1 .. i /\ q[i] = r
  BY <1>2
<1>4. \A j \in 1 .. i : j = i \/ (j \in 1 .. i - 1 /\ p[j] = q[j])
  BY <1>1, <1>2
<1>5. \A j \in 1 .. i - 1 : j \in 1 .. i /\ p[j] = q[j]
  BY <1>1, <1>2
<1>6. Targets(q) = Targets(p) \cup {r.to}
  <2>1. ASSUME NEW x \in Targets(q)
        PROVE  x \in Targets(p) \cup {r.to}
    <3>1. PICK j \in 1 .. i : x = q[j].to
      BY <1>2 DEF Targets
    <3>2. CASE j = i
      BY <1>3, <3>1, <3>2
    <3>3. CASE j \in 1 .. i - 1 /\ p[j] = q[j]
      BY <1>1, <3>1, <3>3 DEF Targets
    <3> QED
      BY <1>4, <3>2, <3>3
  <2>2. ASSUME NEW x \in Targets(p)
        PROVE  x \in Targets(q)
    <3>1. PICK j \in 1 .. i - 1 : x = p[j].to
      BY <1>1 DEF Targets
    <3> QED
      BY <1>2, <1>5, <3>1 DEF Targets
  <2>3. r.to \in Targets(q)
    BY <1>2, <1>3 DEF Targets
  <2> QED
    BY <2>1, <2>2, <2>3
<1>7. \A f : Later(q, f, r.to) = Value(r, f)
  <2>1. IsLastTo(q, r.to, i)
    BY <1>2, <1>3 DEF IsLastTo
  <2>2. LastTo(q, r.to) = i
    BY <1>2, <2>1, LastIs
  <2> QED
    BY <1>3, <1>6, <2>2 DEF Later, Brought
<1>8. ASSUME NEW f, NEW fd, fd # r.to
      PROVE  Later(q, f, fd) = Later(p, f, fd)
  <2>1. CASE fd \notin Targets(p)
    BY <1>6, <1>8, <2>1 DEF Later
  <2>2. CASE fd \in Targets(p)
    <3>1. PICK k : k = LastTo(p, fd)
      OBVIOUS
    <3>2. k \in 1 .. i - 1 /\ p[k].to = fd /\ \A j \in 1 .. i - 1 : k < j => p[j].to # fd
      <4>1. IsLastTo(p, fd, k)
        BY <1>1, <2>2, <3>1, HasLast
      <4> QED
        BY <1>1, <4>1 DEF IsLastTo
    <3>3. IsLastTo(q, fd, k)
      BY <1>2, <1>3, <1>4, <1>5, <1>8, <3>2 DEF IsLastTo
    <3>4. LastTo(q, fd) = k /\ q[k] = p[k]
      BY <1>2, <1>5, <3>2, <3>3, LastIs
    <3> QED
      BY <1>6, <2>2, <3>1, <3>4 DEF Later, Brought
  <2> QED
    BY <2>1, <2>2
<1> QED
  BY <1>6, <1>7, <1>8 DEF Longer

\* s after the entries of list.
Undone(s, list) ==
  [fds |-> [fd \in Fds |-> Later(list, s.fds, fd)], cloexec |-> s.cloexec \ Targets(list),
   undo |-> s.undo, execUndo |-> s.execUndo, var |-> s.var]

\* Records with the same fields are the same.
LEMMA SameMachine ==
  ASSUME NEW s \in Machine, NEW t \in Machine, s.fds = t.fds, s.cloexec = t.cloexec,
         s.undo = t.undo, s.execUndo = t.execUndo, s.var = t.var
  PROVE  s = t
BY DEF Machine

\* What a list brings a descriptor back to is one of Things.
LEMMA LaterType ==
  ASSUME NEW list \in Seq(Entries), NEW f \in [Fds -> Things], NEW fd \in Fds
  PROVE  Later(list, f, fd) \in Things
<1>1. CASE fd \notin Targets(list)
  BY <1>1 DEF Later
<1>2. CASE fd \in Targets(list)
  <2>1. PICK p : p = LastTo(list, fd)
    OBVIOUS
  <2>2. p \in DOMAIN list
    BY <1>2, <2>1, HasLast DEF IsLastTo
  <2>3. PICK r \in Entries : r = list[p]
    BY <2>2
  <2>4. r.ri = "dup" => r.from \in Fds
    BY <2>3, EntryParts
  <2>5. Value(r, f) \in Things
    BY <2>4 DEF Value, Things
  <2> QED
    BY <1>2, <2>1, <2>3, <2>5 DEF Later, Brought
<1> QED
  BY <1>1, <1>2

\* The record after a list is undone.
LEMMA UndoneType ==
  ASSUME NEW s \in Machine, NEW list \in Seq(Entries)
  PROVE  Undone(s, list) \in Machine
<1>1. PICK f : f = [fd \in Fds |-> Later(list, s.fds, fd)]
  OBVIOUS
<1>2. f \in [Fds -> Things]
  <2>1. s.fds \in [Fds -> Things]
    BY DEF Machine
  <2>2. \A fd \in Fds : Later(list, s.fds, fd) \in Things
    BY <2>1, LaterType
  <2> QED
    BY <1>1, <2>2
<1>3. PICK x : x = s.cloexec \ Targets(list)
  OBVIOUS
<1>4. x \in SUBSET Fds
  BY <1>3 DEF Machine
<1>5. Undone(s, list) = [fds |-> f, cloexec |-> x, undo |-> s.undo, execUndo |-> s.execUndo,
                         var |-> s.var]
  BY <1>1, <1>3 DEF Undone
<1> QED
  BY <1>2, <1>4, <1>5 DEF Machine

IsUndoing(w, s, list) ==
  w = [i \in 0 .. Len(list) |-> IF i = 0 THEN Done(s) ELSE UndoNext(w[i - 1], list[i])]

\* A list with no entries undoes nothing.
LEMMA NoneUndone ==
  ASSUME NEW s \in Machine, NEW list, Targets(list) = {}
  PROVE  Undone(s, list) = s
<1>1. s.fds \in [Fds -> Things]
  BY DEF Machine
<1>2. [fd \in Fds |-> Later(list, s.fds, fd)] = s.fds
  BY <1>1 DEF Later
<1>3. s.cloexec \ Targets(list) = s.cloexec
  OBVIOUS
<1>4. Undone(s, list) = [fds |-> s.fds, cloexec |-> s.cloexec, undo |-> s.undo,
                         execUndo |-> s.execUndo, var |-> s.var]
  BY <1>2, <1>3 DEF Undone
<1> QED
  BY <1>4 DEF Machine

\* One more entry undone.
LEMMA OneUndone ==
  ASSUME NEW s \in Machine, NEW list, UndoList(list),
         \A fd \in SavingFds(list) : s.fds[fd] # CLOSED,
         NEW i \in 1 .. Len(list)
  PROVE  UndoNext(Done(Undone(s, SubSeq(list, 1, i - 1))), list[i])
           = Done(Undone(s, SubSeq(list, 1, i)))
<1>1. PICK p, q, r : p = SubSeq(list, 1, i - 1) /\ q = SubSeq(list, 1, i) /\ r = list[i]
  OBVIOUS
<1>2. list \in Seq(Entries) /\ DOMAIN list = 1 .. Len(list) /\ Len(list) \in Nat
  BY DEF UndoList
<1>3. /\ p \in Seq(Entries) /\ DOMAIN p = 1 .. i - 1
      /\ \A j \in 1 .. i - 1 : p[j] = list[j]
  BY <1>1, <1>2
<1>4. q \in Seq(Entries) /\ r \in Entries
  BY <1>1, <1>2
<1>5. Longer(p, q, r)
  BY <1>1, <1>2, OneMore
<1>6. PICK t, u : t = Undone(s, p) /\ u = Undone(s, q)
  OBVIOUS
<1>7. t \in Machine /\ u \in Machine
  BY <1>3, <1>4, <1>6, UndoneType
<1>8. /\ t.fds = [fd \in Fds |-> Later(p, s.fds, fd)] /\ t.cloexec = s.cloexec \ Targets(p)
      /\ t.undo = s.undo /\ t.execUndo = s.execUndo /\ t.var = s.var
  BY <1>6 DEF Undone
<1>9. /\ u.fds = [fd \in Fds |-> Later(q, s.fds, fd)] /\ u.cloexec = s.cloexec \ Targets(q)
      /\ u.undo = s.undo /\ u.execUndo = s.execUndo /\ u.var = s.var
  BY <1>6 DEF Undone
<1>10. /\ r.to \in Fds /\ r.saved \in BOOLEAN /\ r.ri \in {"dup", "close"}
       /\ r.ri = "dup" => r.from \in Fds
  BY <1>4, EntryParts
<1>11. ASSUME r.ri = "dup"
       PROVE  /\ r.from # r.to /\ (r.saved = TRUE \/ r.to <= 2) /\ r.from \notin Targets(p)
              /\ s.fds[r.from] # CLOSED
  <2>1. \A j \in 1 .. i : list[j].to # r.from
    <3> SUFFICES ASSUME NEW j \in 1 .. i
                 PROVE  list[j].to # r.from
      OBVIOUS
    <3>1. j \in 1 .. Len(list) /\ j <= i
      BY <1>2
    <3> QED
      BY <1>1, <1>2, <1>11, <3>1 DEF UndoList
  <2>2. r.saved \/ r.to <= 2
    BY <1>1, <1>2, <1>11 DEF UndoList
  <2>3. r.from \in SavingFds(list)
    BY <1>1, <1>2, <1>11 DEF SavingFds
  <2>4. i \in 1 .. i /\ \A j \in 1 .. i - 1 : j \in 1 .. i
    OBVIOUS
  <2>5. r.from \notin Targets(p)
    BY <1>3, <2>1, <2>4 DEF Targets
  <2> QED
    BY <1>1, <1>10, <2>1, <2>2, <2>3, <2>4, <2>5
<1>12. Value(r, t.fds) = Value(r, s.fds) /\ (r.ri = "dup" => t.fds[r.from] # CLOSED)
  <2>1. CASE r.ri = "dup"
    <3>1. t.fds[r.from] = Later(p, s.fds, r.from)
      BY <1>8, <1>10, <2>1
    <3>2. Later(p, s.fds, r.from) = s.fds[r.from]
      BY <1>11, <2>1 DEF Later
    <3> QED
      BY <1>11, <2>1, <3>1, <3>2 DEF Value
  <2>2. CASE r.ri = "close"
    BY <2>2 DEF Value
  <2> QED
    BY <1>10, <2>1, <2>2
<1>13. PICK d : do_redirection_internal(t, r, FALSE) = Done(d) /\ EntryDone(t, r, d)
  BY <1>4, <1>7, <1>11, <1>12, EntryDoes
<1>14. /\ d \in Machine /\ d.fds = [t.fds EXCEPT ![r.to] = Value(r, t.fds)]
       /\ d.cloexec = t.cloexec \ {r.to}
       /\ d.undo = t.undo /\ d.execUndo = t.execUndo /\ d.var = t.var
  BY <1>13 DEF EntryDone
<1>15. d.fds = u.fds
  <2>1. \A fd \in Fds : d.fds[fd] = u.fds[fd]
    <3>1. \A fd \in Fds : u.fds[fd] = Later(q, s.fds, fd) /\ t.fds[fd] = Later(p, s.fds, fd)
      BY <1>8, <1>9
    <3>2. t.fds \in [Fds -> Things]
      BY <1>7 DEF Machine
    <3>3. d.fds[r.to] = Value(r, t.fds) /\ \A fd \in Fds : fd # r.to => d.fds[fd] = t.fds[fd]
      BY <1>10, <1>14, <3>2
    <3> QED
      BY <1>5, <1>10, <1>12, <3>1, <3>3 DEF Longer
  <2>2. d.fds \in [Fds -> Things] /\ u.fds \in [Fds -> Things]
    BY <1>7, <1>14 DEF Machine
  <2> QED
    BY <2>1, <2>2
<1>16. d.cloexec = u.cloexec
  BY <1>5, <1>8, <1>9, <1>14 DEF Longer
<1>17. d = u
  <2>1. d.undo = u.undo /\ d.execUndo = u.execUndo /\ d.var = u.var
    BY <1>8, <1>9, <1>14
  <2>2. d \in Machine /\ u \in Machine
    BY <1>7, <1>14
  <2> QED
    BY ONLY <1>15, <1>16, <2>1, <2>2, SameMachine
<1>18. UndoNext(Done(t), r) = Done(d)
  <2>1. Done(t).s = t /\ Done(t).error = FALSE
    BY DoneParts
  <2> QED
    BY <1>13, <2>1 DEF UndoNext
<1> QED
  BY <1>1, <1>6, <1>17, <1>18

\* cleanup_redirects() undoes the whole list.
LEMMA CleanupDoes ==
  ASSUME NEW s \in Machine, NEW list, UndoList(list),
         \A fd \in SavingFds(list) : s.fds[fd] # CLOSED
  PROVE  cleanup_redirects(s, list) = Undone(s, list)
<1> DEFINE n == Len(list)
           g == [i \in 0 .. n |-> Done(Undone(s, SubSeq(list, 1, i)))]
           w == CHOOSE u : u = [i \in 0 .. Len(list) |->
                                  IF i = 0 THEN Done(s) ELSE UndoNext(u[i - 1], list[i])]
           T == {i \in 0 .. n : w[i] = g[i]}
<1>1. list \in Seq(Entries) /\ n \in Nat
  BY DEF UndoList
<1>2. g[0] = Done(s)
  <2>1. PICK none : none = SubSeq(list, 1, 0)
    OBVIOUS
  <2>2. Targets(none) = {}
    BY <1>1, <2>1 DEF Targets
  <2>3. Undone(s, none) = s
    BY <2>2, NoneUndone
  <2>4. 0 \in 0 .. n
    BY <1>1
  <2> QED
    BY <2>1, <2>3, <2>4
<1>3. \A i \in 1 .. n : g[i] = UndoNext(g[i - 1], list[i])
  <2> SUFFICES ASSUME NEW i \in 1 .. n
               PROVE  g[i] = UndoNext(g[i - 1], list[i])
    OBVIOUS
  <2>1. i \in 0 .. n /\ i - 1 \in 0 .. n
    BY <1>1
  <2>2. UndoNext(Done(Undone(s, SubSeq(list, 1, i - 1))), list[i])
           = Done(Undone(s, SubSeq(list, 1, i)))
    BY OneUndone
  <2> QED
    BY <2>1, <2>2
<1>4. IsUndoing(g, s, list)
  <2>1. g = [i \in 0 .. n |-> g[i]]
    OBVIOUS
  <2> HIDE DEF g
  <2>2. \A i \in 0 .. n : g[i] = IF i = 0 THEN Done(s) ELSE UndoNext(g[i - 1], list[i])
    BY <1>1, <1>2, <1>3
  <2> QED
    BY <2>1, <2>2 DEF IsUndoing
<1>5. IsUndoing(w, s, list)
  <2>1. \E u : u = [i \in 0 .. Len(list) |->
                      IF i = 0 THEN Done(s) ELSE UndoNext(u[i - 1], list[i])]
    <3> HIDE DEF g
    <3> QED
      BY <1>4, Zenon DEF IsUndoing
  <2> QED
    BY <2>1, Zenon DEF IsUndoing
<1>6. cleanup_redirects(s, list) = w[n].s
  BY Zenon DEF cleanup_redirects
<1> HIDE DEF w, g
<1>7. w[0] = Done(s) /\ \A i \in 1 .. n : w[i] = UndoNext(w[i - 1], list[i])
  BY <1>1, <1>5 DEF IsUndoing
<1>8. 0 \in T /\ \A i \in 1 .. n : i - 1 \in T => i \in T
  BY <1>1, <1>2, <1>3, <1>7
<1> HIDE DEF n
<1>9. \A i \in 0 .. n : i \in T
  <2> HIDE DEF T
  <2> QED
    BY <1>1, <1>8, CountUp
<1>10. w[n] = Done(Undone(s, SubSeq(list, 1, n)))
  BY <1>1, <1>9 DEF g
<1>11. SubSeq(list, 1, n) = list
  BY <1>1 DEF n
<1> QED
  BY <1>6, <1>10, <1>11, DoneParts

----------------------------------------------------------------------------
(* Undoing the lists of several commands, innermost first: for each         *)
(* descriptor the outermost of them counts.                                 *)
Hit(lists, K, fd) == {k \in K : fd \in Targets(lists[k])}

Rewound(s, lists, K) ==
  [fds |-> [fd \in Fds |-> IF Hit(lists, K, fd) = {} THEN s.fds[fd]
                           ELSE Later(lists[Min(Hit(lists, K, fd))], s.fds, fd)],
   cloexec |-> s.cloexec \ UNION {Targets(lists[k]) : k \in K},
   undo |-> s.undo, execUndo |-> s.execUndo, var |-> s.var]

\* The copies of each list are open, and no list inside it touches them.
Sound(s, lists, n) ==
  /\ s \in Machine /\ n \in Nat
  /\ \A k \in 1 .. n : UndoList(lists[k])
  /\ \A k \in 1 .. n : \A fd \in SavingFds(lists[k]) : s.fds[fd] # CLOSED
  /\ \A j, k \in 1 .. n : j < k => Targets(lists[k]) \cap SavingFds(lists[j]) = {}

\* What a list changes and restores from are descriptors.
LEMMA ListFds ==
  ASSUME NEW list, UndoList(list)
  PROVE  SavingFds(list) \subseteq Fds /\ Targets(list) \subseteq Fds
<1>1. \A p \in DOMAIN list : list[p] \in Entries
  BY DEF UndoList
<1> QED
  BY <1>1, EntryParts DEF SavingFds, Targets

\* The least of some numbers.
LEMMA LeastIs ==
  ASSUME NEW T, T \subseteq Nat, NEW k \in T, \A j \in T : k <= j
  PROVE  Min(T) = k
<1>1. PICK m : m = Min(T)
  OBVIOUS
<1>2. m \in T /\ \A j \in T : m <= j
  BY <1>1 DEF Min
<1>3. m \in Nat /\ k \in Nat /\ m <= k /\ k <= m
  BY <1>2
<1> QED
  BY <1>1, <1>3

\* The outermost list that changes a descriptor.
LEMMA MinHit ==
  ASSUME NEW lists, NEW n \in Nat, NEW K, K \subseteq 1 .. n, NEW fd, Hit(lists, K, fd) # {}
  PROVE  /\ Min(Hit(lists, K, fd)) \in K /\ fd \in Targets(lists[Min(Hit(lists, K, fd))])
         /\ \A j \in K : fd \in Targets(lists[j]) => Min(Hit(lists, K, fd)) <= j
<1>1. Hit(lists, K, fd) \subseteq Nat
  <2>1. 1 .. n \subseteq Nat
    OBVIOUS
  <2>2. Hit(lists, K, fd) \subseteq K
    BY DEF Hit
  <2> QED
    BY <2>1, <2>2
<1>2. PICK k \in Hit(lists, K, fd) : \A j \in Hit(lists, K, fd) : k <= j
  BY <1>1, LeastNat
<1>3. Min(Hit(lists, K, fd)) = k
  BY <1>1, <1>2, LeastIs
<1> QED
  BY <1>2, <1>3 DEF Hit

\* The record after some lists are undone.
LEMMA RewoundType ==
  ASSUME NEW s, NEW lists, NEW n, Sound(s, lists, n), NEW K, K \subseteq 1 .. n
  PROVE  Rewound(s, lists, K) \in Machine
<1>1. PICK f : f = [fd \in Fds |-> IF Hit(lists, K, fd) = {} THEN s.fds[fd]
                                   ELSE Later(lists[Min(Hit(lists, K, fd))], s.fds, fd)]
  OBVIOUS
<1>2. s.fds \in [Fds -> Things] /\ s \in Machine /\ n \in Nat
  BY DEF Sound, Machine
<1>3. f \in [Fds -> Things]
  <2> SUFFICES ASSUME NEW fd \in Fds
               PROVE  f[fd] \in Things
    BY <1>1
  <2>1. CASE Hit(lists, K, fd) = {}
    BY <1>1, <1>2, <2>1
  <2>2. CASE Hit(lists, K, fd) # {}
    <3>1. PICK k : k = Min(Hit(lists, K, fd))
      OBVIOUS
    <3>2. k \in 1 .. n
      BY <1>2, <2>2, <3>1, MinHit
    <3>3. lists[k] \in Seq(Entries)
      BY <3>2 DEF Sound, UndoList
    <3>4. Later(lists[k], s.fds, fd) \in Things
      BY <1>2, <3>3, LaterType
    <3> QED
      BY <1>1, <2>2, <3>1, <3>4
  <2> QED
    BY <2>1, <2>2
<1>4. PICK x : x = s.cloexec \ UNION {Targets(lists[k]) : k \in K}
  OBVIOUS
<1>5. x \in SUBSET Fds
  BY <1>2, <1>4 DEF Machine
<1>6. Rewound(s, lists, K) = [fds |-> f, cloexec |-> x, undo |-> s.undo, execUndo |-> s.execUndo,
                              var |-> s.var]
  BY <1>1, <1>4 DEF Rewound
<1> QED
  BY <1>2, <1>3, <1>5, <1>6 DEF Machine

\* Lists that change nothing undo nothing.
LEMMA RewoundNone ==
  ASSUME NEW s \in Machine, NEW lists, NEW K, \A k \in K : Targets(lists[k]) = {}
  PROVE  Rewound(s, lists, K) = s
<1>1. s.fds \in [Fds -> Things]
  BY DEF Machine
<1>2. \A fd : Hit(lists, K, fd) = {}
  BY DEF Hit
<1>3. [fd \in Fds |-> IF Hit(lists, K, fd) = {} THEN s.fds[fd]
                      ELSE Later(lists[Min(Hit(lists, K, fd))], s.fds, fd)] = s.fds
  BY <1>1, <1>2
<1>4. s.cloexec \ UNION {Targets(lists[k]) : k \in K} = s.cloexec
  OBVIOUS
<1>5. Rewound(s, lists, K) = [fds |-> s.fds, cloexec |-> s.cloexec, undo |-> s.undo,
                              execUndo |-> s.execUndo, var |-> s.var]
  BY <1>3, <1>4 DEF Rewound
<1> QED
  BY <1>5 DEF Machine

\* A list that undoes nothing may be left out.
LEMMA RewoundMore ==
  ASSUME NEW s, NEW lists, NEW K, NEW M, K \subseteq M,
         \A k \in M \ K : Targets(lists[k]) = {}
  PROVE  Rewound(s, lists, K) = Rewound(s, lists, M)
<1>1. \A fd : Hit(lists, K, fd) = Hit(lists, M, fd)
  BY DEF Hit
<1>2. UNION {Targets(lists[k]) : k \in K} = UNION {Targets(lists[k]) : k \in M}
  <2>1. ASSUME NEW x \in UNION {Targets(lists[k]) : k \in M}
        PROVE  x \in UNION {Targets(lists[k]) : k \in K}
    <3>1. PICK k \in M : x \in Targets(lists[k])
      OBVIOUS
    <3>2. k \in K
      BY <3>1
    <3> QED
      BY <3>1, <3>2
  <2> QED
    BY <2>1
<1>3. PICK f, g, x, y :
        /\ f = [fd \in Fds |-> IF Hit(lists, K, fd) = {} THEN s.fds[fd]
                               ELSE Later(lists[Min(Hit(lists, K, fd))], s.fds, fd)]
        /\ g = [fd \in Fds |-> IF Hit(lists, M, fd) = {} THEN s.fds[fd]
                               ELSE Later(lists[Min(Hit(lists, M, fd))], s.fds, fd)]
        /\ x = s.cloexec \ UNION {Targets(lists[k]) : k \in K}
        /\ y = s.cloexec \ UNION {Targets(lists[k]) : k \in M}
  OBVIOUS
<1>4. f = g
  BY <1>1, <1>3
<1>5. x = y
  BY <1>2, <1>3
<1>6. /\ Rewound(s, lists, K) = [fds |-> f, cloexec |-> x, undo |-> s.undo,
                                execUndo |-> s.execUndo, var |-> s.var]
      /\ Rewound(s, lists, M) = [fds |-> g, cloexec |-> y, undo |-> s.undo,
                                execUndo |-> s.execUndo, var |-> s.var]
  BY <1>3 DEF Rewound
<1> QED
  BY <1>4, <1>5, <1>6

\* The next one is outside all of those that have been undone.
NextOut(K, k, M, n) ==
  K \subseteq 1 .. n /\ k \in 1 .. n /\ (\A j \in K : k < j) /\ M = K \cup {k}

\* One more list undone, next out.
LEMMA RewoundStep ==
  ASSUME NEW s, NEW lists, NEW n, Sound(s, lists, n), NEW K, NEW k, NEW M, NextOut(K, k, M, n)
  PROVE  cleanup_redirects(Rewound(s, lists, K), lists[k]) = Rewound(s, lists, M)
<1>0. k \in 1 .. n /\ K \subseteq 1 .. n /\ \A j \in K : k < j
  BY DEF NextOut
<1>1. PICK t, u, list : /\ t = Rewound(s, lists, K) /\ u = Rewound(s, lists, M)
                        /\ list = lists[k] /\ M = K \cup {k}
  BY DEF NextOut
<1>2. /\ s \in Machine /\ n \in Nat /\ UndoList(list) /\ M \subseteq 1 .. n
      /\ \A fd \in SavingFds(list) : s.fds[fd] # CLOSED
  BY <1>0, <1>1 DEF Sound
<1>3. t \in Machine /\ u \in Machine
  BY <1>0, <1>1, <1>2, RewoundType
<1>4. /\ \A fd \in Fds : t.fds[fd] = IF Hit(lists, K, fd) = {} THEN s.fds[fd]
                                     ELSE Later(lists[Min(Hit(lists, K, fd))], s.fds, fd)
      /\ t.cloexec = s.cloexec \ UNION {Targets(lists[j]) : j \in K}
      /\ t.undo = s.undo /\ t.execUndo = s.execUndo /\ t.var = s.var
  BY <1>1 DEF Rewound
<1>5. /\ \A fd \in Fds : u.fds[fd] = IF Hit(lists, M, fd) = {} THEN s.fds[fd]
                                     ELSE Later(lists[Min(Hit(lists, M, fd))], s.fds, fd)
      /\ u.cloexec = s.cloexec \ UNION {Targets(lists[j]) : j \in M}
      /\ u.undo = s.undo /\ u.execUndo = s.execUndo /\ u.var = s.var
  BY <1>1 DEF Rewound
<1>6. \A fd \in SavingFds(list) : fd \in Fds /\ t.fds[fd] = s.fds[fd]
  <2> SUFFICES ASSUME NEW fd \in SavingFds(list)
               PROVE  fd \in Fds /\ t.fds[fd] = s.fds[fd]
    OBVIOUS
  <2>1. fd \in Fds
    BY <1>2, ListFds
  <2>2. \A j \in K : j \in 1 .. n /\ Targets(lists[j]) \cap SavingFds(lists[k]) = {}
    BY <1>0 DEF Sound
  <2>3. Hit(lists, K, fd) = {}
    BY <1>1, <2>2 DEF Hit
  <2> QED
    BY <1>4, <2>1, <2>3
<1>7. cleanup_redirects(t, list) = Undone(t, list)
  BY <1>2, <1>3, <1>6, CleanupDoes
<1>8. PICK d : d = Undone(t, list)
  OBVIOUS
<1>9. list \in Seq(Entries)
  BY <1>2 DEF UndoList
<1>10. d \in Machine
  BY <1>3, <1>8, <1>9, UndoneType
<1>11. /\ \A fd \in Fds : d.fds[fd] = Later(list, t.fds, fd)
       /\ d.cloexec = t.cloexec \ Targets(list)
       /\ d.undo = t.undo /\ d.execUndo = t.execUndo /\ d.var = t.var
  BY <1>8 DEF Undone
<1>12. ASSUME NEW fd \in Fds
       PROVE  d.fds[fd] = u.fds[fd]
  <2>1. CASE fd \notin Targets(list)
    <3>1. Hit(lists, M, fd) = Hit(lists, K, fd)
      BY <1>1, <2>1 DEF Hit
    <3>2. d.fds[fd] = t.fds[fd]
      BY <1>11, <2>1 DEF Later
    <3> QED
      BY <1>4, <1>5, <3>1, <3>2
  <2>2. CASE fd \in Targets(list)
    <3>1. Min(Hit(lists, M, fd)) = k /\ Hit(lists, M, fd) # {}
      <4>1. k \in Hit(lists, M, fd) /\ Hit(lists, M, fd) \subseteq Nat
        <5>1. 1 .. n \subseteq Nat /\ Hit(lists, M, fd) \subseteq M
          BY <1>2 DEF Hit
        <5>2. k \in Hit(lists, M, fd)
          BY <1>1, <2>2 DEF Hit
        <5> QED
          BY <1>2, <5>1, <5>2
      <4>2. \A j \in Hit(lists, M, fd) : k <= j
        BY <1>0, <1>1, <1>2 DEF Hit
      <4> QED
        BY <4>1, <4>2, LeastIs
    <3>2. PICK p : p = LastTo(list, fd)
      OBVIOUS
    <3>3. p \in DOMAIN list
      BY <1>9, <2>2, <3>2, HasLast DEF IsLastTo
    <3>4. list[p].ri = "dup" => list[p].from \in SavingFds(list)
      BY <3>3 DEF SavingFds
    <3>5. Value(list[p], t.fds) = Value(list[p], s.fds)
      BY <1>6, <3>4 DEF Value
    <3>6. Later(list, t.fds, fd) = Later(list, s.fds, fd)
      BY <2>2, <3>2, <3>5 DEF Later, Brought
    <3>7. u.fds[fd] = Later(lists[k], s.fds, fd)
      BY <1>5, <3>1
    <3> QED
      BY <1>1, <1>11, <3>6, <3>7
  <2> QED
    BY <2>1, <2>2
<1>13. d.fds = u.fds
  <2>1. d.fds \in [Fds -> Things] /\ u.fds \in [Fds -> Things]
    BY <1>3, <1>10 DEF Machine
  <2> QED
    BY <1>12, <2>1
<1>14. d.cloexec = u.cloexec
  <2>1. PICK X, Y : /\ X = UNION {Targets(lists[j]) : j \in M}
                    /\ Y = UNION {Targets(lists[j]) : j \in K}
    OBVIOUS
  <2>2. ASSUME NEW x \in X
        PROVE  x \in Y \/ x \in Targets(list)
    <3>1. PICK j \in M : x \in Targets(lists[j])
      BY <2>1
    <3> QED
      BY <1>1, <2>1, <3>1
  <2>3. \A x \in Y : x \in X
    BY <1>1, <2>1
  <2>4. \A x \in Targets(list) : x \in X
    BY <1>1, <2>1
  <2>5. /\ t.cloexec = s.cloexec \ Y /\ u.cloexec = s.cloexec \ X
        /\ d.cloexec = t.cloexec \ Targets(list)
    BY <1>4, <1>5, <1>11, <2>1
  <2> QED
    BY ONLY <2>2, <2>3, <2>4, <2>5
<1>15. d = u
  <2>1. d.undo = u.undo /\ d.execUndo = u.execUndo /\ d.var = u.var
    BY <1>4, <1>5, <1>11
  <2> QED
    BY ONLY <1>3, <1>10, <1>13, <1>14, <2>1, SameMachine
<1> QED
  BY <1>1, <1>7, <1>8, <1>15
=============================================================================
