------------------------- MODULE CommandScopesProofs -------------------------
(***************************************************************************)
(* The commands that redirect implement CommandScopes, for every number of *)
(* descriptors and files and every depth, as long as nothing happens at a  *)
(* bad moment: whatever ends a command gives back the descriptors that it  *)
(* found, and each copy that is kept for it is kept by one entry.          *)
(***************************************************************************)
EXTENDS RedirectionProofs

----------------------------------------------------------------------------
(* What running the unwind-protect list down to some height undoes.         *)
Owing(cs) == {k \in 1 .. Len(cs) : cs[k].my_undo_list # <<>>}

CleanupHeight(height, cs, k) == height[k - 1] + CleanupAt(cs[k])

Over(height, cs, h) == {k \in Owing(cs) : CleanupHeight(height, cs, k) > h}

\* Where the cleanups of the commands stand on the unwind-protect list.
LEMMA Owed ==
  ASSUME NEW u, NEW cs, NEW height, Stacked(u, cs, height)
  PROVE  /\ \A k \in Owing(cs) :
               /\ k \in 1 .. Len(cs) /\ CleanupHeight(height, cs, k) \in 1 .. Len(u)
               /\ height[k - 1] < CleanupHeight(height, cs, k)
               /\ CleanupHeight(height, cs, k) <= height[k]
               /\ height[k - 1] \in Nat /\ height[k] \in Nat
               /\ Nth(u, CleanupHeight(height, cs, k))
                    = Cleanup("cleanup_redirects", cs[k].my_undo_list)
         /\ \A j, k \in Owing(cs) :
               j < k => CleanupHeight(height, cs, j) < CleanupHeight(height, cs, k)
         /\ \A h \in 1 .. Len(u) : Nth(u, h).cleanup # "none" =>
               \E k \in Owing(cs) : h = CleanupHeight(height, cs, k)
<1>1. Len(u) \in Nat /\ Len(cs) \in Nat
  BY Numbers
<1>2. ASSUME NEW k \in Owing(cs)
      PROVE  /\ k \in 1 .. Len(cs) /\ CleanupHeight(height, cs, k) \in 1 .. Len(u)
             /\ height[k - 1] < CleanupHeight(height, cs, k)
             /\ CleanupHeight(height, cs, k) <= height[k]
             /\ height[k - 1] \in Nat /\ height[k] \in Nat
             /\ Nth(u, CleanupHeight(height, cs, k))
                  = Cleanup("cleanup_redirects", cs[k].my_undo_list)
  <2>1. k \in 1 .. Len(cs) /\ ProperCall(cs[k]) /\ cs[k].my_undo_list # <<>>
    BY DEF Owing, Stacked, Proper
  <2>2. PICK P, at : P = Protected(cs[k]) /\ at = CleanupAt(cs[k])
    OBVIOUS
  <2>3. at \in 1 .. Len(P) /\ P[at] = Cleanup("cleanup_redirects", cs[k].my_undo_list)
    BY <2>1, <2>2, CleanupPlaces
  <2>4. Nth(u, height[k - 1] + at) = P[at]
    BY <2>1, <2>2, <2>3 DEF Stacked
  <2>5. PICK a, b, l : a = height[k - 1] /\ b = height[k] /\ l = Len(P)
    OBVIOUS
  <2>6. k - 1 \in 0 .. Len(cs) /\ k \in 0 .. Len(cs)
    BY <1>1, <2>1
  <2>7. a \in Nat /\ b \in Nat /\ b <= Len(u) /\ l \in Nat /\ b = a + l
    BY <2>1, <2>2, <2>5, <2>6, Numbers DEF Stacked
  <2>8. a + at \in 1 .. Len(u) /\ a < a + at /\ a + at <= b
    BY <1>1, <2>3, <2>5, <2>7
  <2>9. CleanupHeight(height, cs, k) = a + at
    BY <2>2, <2>5 DEF CleanupHeight
  <2> QED
    BY <2>1, <2>3, <2>4, <2>5, <2>7, <2>8, <2>9
<1>3. ASSUME NEW j \in Owing(cs), NEW k \in Owing(cs), j < k
      PROVE  CleanupHeight(height, cs, j) < CleanupHeight(height, cs, k)
  <2>1. height[j] <= height[k - 1]
    <3>1. j \in 1 .. Len(cs) /\ k \in 1 .. Len(cs)
      BY <1>2
    <3>2. j \in 0 .. Len(cs) /\ k - 1 \in 0 .. Len(cs) /\ j <= k - 1
      BY <1>1, <1>3, <3>1
    <3> QED
      BY <3>2 DEF Stacked
  <2>2. PICK a, b, c, d : /\ a = CleanupHeight(height, cs, j) /\ b = height[j]
                          /\ c = height[k - 1] /\ d = CleanupHeight(height, cs, k)
    OBVIOUS
  <2>3. a \in Int /\ b \in Nat /\ c \in Nat /\ d \in Int /\ a <= b /\ b <= c /\ c < d
    BY <1>2, <2>1, <2>2
  <2>4. a < d
    BY ONLY <2>3
  <2> QED
    BY <2>2, <2>4
<1>4. ASSUME NEW h \in 1 .. Len(u), Nth(u, h).cleanup # "none"
      PROVE  \E k \in Owing(cs) : h = CleanupHeight(height, cs, k)
  <2>1. PICK k \in 1 .. Len(cs) :
          \E m \in 1 .. Len(Protected(cs[k])) : h = height[k - 1] + m
    BY SegmentOf
  <2>2. PICK m \in 1 .. Len(Protected(cs[k])) : h = height[k - 1] + m
    BY <2>1
  <2>3. PICK P : P = Protected(cs[k])
    OBVIOUS
  <2>4. P[m] = Nth(u, h) /\ ProperCall(cs[k])
    BY <2>2, <2>3 DEF Stacked, Proper
  <2>5. cs[k].my_undo_list # <<>> /\ m = CleanupAt(cs[k])
    BY <1>4, <2>2, <2>3, <2>4, CleanupPlaces
  <2> QED
    BY <2>2, <2>5 DEF Owing, CleanupHeight
<1> QED
  BY <1>2, <1>3, <1>4

\* The lists of the activations, of which the redirecting one has its own.
Owns(lists, cs) == \A k \in Owing(cs) : lists[k] = cs[k].my_undo_list

\* Those of K are inside all that have cleanups on the list.
Within(K, cs) == K \subseteq 1 .. Len(cs) /\ \A j \in K, k \in Owing(cs) : k < j

\* Running one element of the unwind-protect list.
LEMMA OneRun ==
  ASSUME NEW u, NEW cs, NEW height, Stacked(u, cs, height),
         NEW lists, Owns(lists, cs), NEW s, Sound(s, lists, Len(cs)),
         NEW K, Within(K, cs),
         NEW h \in 1 .. Len(u)
  PROVE  RunElement(Rewound(s, lists, K \cup Over(height, cs, h)), Nth(u, h))
           = Rewound(s, lists, K \cup Over(height, cs, h - 1))
<1>1. PICK M, O, e : M = K \cup Over(height, cs, h) /\ O = K \cup Over(height, cs, h - 1) /\ e = Nth(u, h)
  OBVIOUS
<1>2. Len(u) \in Nat /\ Len(cs) \in Nat /\ h \in Int
  BY Numbers
<1>3. \A k \in Owing(cs) : k \in 1 .. Len(cs) /\ CleanupHeight(height, cs, k) \in Int
  BY Owed
<1>4. \A x \in Int : x > h - 1 <=> x > h \/ x = h
  BY <1>2
<1>5. ASSUME NEW k
      PROVE  k \in O <=> k \in M \/ (k \in Owing(cs) /\ CleanupHeight(height, cs, k) = h)
  BY <1>1, <1>3, <1>4 DEF Over
<1>6. CASE e.cleanup = "none"
  <2>1. \A k \in Owing(cs) : CleanupHeight(height, cs, k) # h
    BY <1>1, <1>6, Owed, Elements
  <2>2. O = M
    BY <1>5, <2>1
  <2>3. RunElement(Rewound(s, lists, M), e) = Rewound(s, lists, M)
    BY <1>6 DEF RunElement
  <2> QED
    BY <1>1, <2>2, <2>3
<1>7. CASE e.cleanup # "none"
  <2>1. PICK k \in Owing(cs) : h = CleanupHeight(height, cs, k)
    BY <1>1, <1>7, Owed
  <2>2. ASSUME NEW j \in Owing(cs), CleanupHeight(height, cs, j) = h
        PROVE  j = k
    <3>1. j \in Int /\ k \in Int
      BY <1>3
    <3>2. ~(j < k) /\ ~(k < j)
      BY <1>2, <2>1, <2>2, Owed
    <3> QED
      BY <3>1, <3>2
  <2>3. O = M \cup {k}
    BY <1>5, <2>1, <2>2
  <2>4. M \subseteq 1 .. Len(cs) /\ k \in 1 .. Len(cs)
    BY <1>1, <1>3 DEF Over, Within
  <2>5. ASSUME NEW j \in M
        PROVE  k < j
    <3>1. CASE j \in K
      BY <3>1 DEF Within
    <3>2. CASE j \in Owing(cs) /\ CleanupHeight(height, cs, j) > h
      <4>1. j \in Int /\ k \in Int
        BY <1>3, <3>2
      <4>2. ~(j < k)
        <5>1. CleanupHeight(height, cs, j) \in Int /\ ~(CleanupHeight(height, cs, j) < h)
          BY <1>2, <1>3, <3>2
        <5> QED
          BY <2>1, <3>2, <5>1, Owed
      <4>3. j # k
        BY <1>2, <2>1, <3>2
      <4> QED
        BY <4>1, <4>2, <4>3
    <3> QED
      BY <1>1, <3>1, <3>2 DEF Over
  <2>6. e.arg = lists[k]
    <3>1. e = Cleanup("cleanup_redirects", cs[k].my_undo_list)
      BY <1>1, <2>1, Owed
    <3>2. lists[k] = cs[k].my_undo_list
      BY DEF Owns
    <3> QED
      BY <3>1, <3>2 DEF Cleanup
  <2>7. RunElement(Rewound(s, lists, M), e) = cleanup_redirects(Rewound(s, lists, M), lists[k])
    BY <1>7, <2>6 DEF RunElement
  <2>8. cleanup_redirects(Rewound(s, lists, M), lists[k]) = Rewound(s, lists, O)
    <3>1. NextOut(M, k, O, Len(cs))
      BY <2>3, <2>4, <2>5 DEF NextOut
    <3> QED
      BY <3>1, RewoundStep
  <2> QED
    BY <1>1, <2>7, <2>8
<1> QED
  BY <1>6, <1>7

IsRunning(w, s, n) ==
  w = [i \in 0 .. n |-> IF i = 0 THEN s ELSE RunElement(w[i - 1], unwind_protect_list[i])]

\* Running the first d elements of the list undoes, after those of K, the lists
\* of the activations whose cleanups are among them.
LEMMA RunsDown ==
  ASSUME NEW height, Stacked(unwind_protect_list, calls, height),
         NEW lists, Owns(lists, calls), NEW s, Sound(s, lists, Len(calls)),
         NEW K, Within(K, calls),
         NEW d \in 0 .. Len(unwind_protect_list),
         NEW M, M = K \cup Over(height, calls, Len(unwind_protect_list) - d)
  PROVE  RunElements(Rewound(s, lists, K), d) = Rewound(s, lists, M)
<1> DEFINE L == Len(unwind_protect_list)
           s0 == Rewound(s, lists, K)
           Undid(i) == Rewound(s, lists, K \cup Over(height, calls, L - i))
           g == [i \in 0 .. d |-> Undid(i)]
           w == CHOOSE u : u = [i \in 0 .. d |->
                                  IF i = 0 THEN s0
                                  ELSE RunElement(u[i - 1], unwind_protect_list[i])]
           T == {i \in 0 .. d : w[i] = g[i]}
<1>1. L \in Nat /\ d \in Nat /\ d <= L /\ Len(calls) \in Nat
  BY Numbers
<1>2. g[0] = s0
  <2>1. L - 0 = L /\ 0 \in 0 .. d
    BY <1>1
  <2>2. Over(height, calls, L) = {}
    <3>1. \A k \in Owing(calls) : CleanupHeight(height, calls, k) \in 1 .. L
      BY Owed
    <3>2. \A x \in 1 .. L : ~(x > L)
      BY <1>1
    <3> QED
      BY <3>1, <3>2 DEF Over
  <2>3. K \cup {} = K
    OBVIOUS
  <2>4. Undid(0) = Rewound(s, lists, K)
    BY <2>1, <2>2, <2>3
  <2> HIDE DEF Undid
  <2> QED
    BY <2>1, <2>4
<1>3. \A i \in 1 .. d : g[i] = RunElement(g[i - 1], unwind_protect_list[i])
  <2> SUFFICES ASSUME NEW i \in 1 .. d
               PROVE  g[i] = RunElement(g[i - 1], unwind_protect_list[i])
    OBVIOUS
  <2>1. i \in 0 .. d /\ i - 1 \in 0 .. d
    BY <1>1
  <2>2. PICK h : h = L + 1 - i
    OBVIOUS
  <2>3. h \in 1 .. L /\ L - (i - 1) = h /\ L - i = h - 1 /\ L + 1 - h = i
    BY <1>1, <2>2
  <2>4. Nth(unwind_protect_list, h) = unwind_protect_list[i]
    BY <2>3 DEF Nth
  <2>5. RunElement(Rewound(s, lists, K \cup Over(height, calls, h)), Nth(unwind_protect_list, h))
          = Rewound(s, lists, K \cup Over(height, calls, h - 1))
    BY <2>3, OneRun
  <2>6. RunElement(Undid(i - 1), unwind_protect_list[i]) = Undid(i)
    BY <2>3, <2>4, <2>5
  <2> HIDE DEF Undid
  <2> QED
    BY <2>1, <2>6
<1>4. M = K \cup Over(height, calls, L - d) /\ g[d] = Undid(d)
  <2> HIDE DEF Undid
  <2> QED
    BY <1>1
<1>5. g[d] = Rewound(s, lists, M)
  BY <1>4
<1> HIDE DEF Undid, s0
<1>6. IsRunning(g, s0, d)
  <2>1. g = [i \in 0 .. d |-> g[i]]
    OBVIOUS
  <2> HIDE DEF g
  <2>2. \A i \in 0 .. d : g[i] = IF i = 0 THEN s0 ELSE RunElement(g[i - 1], unwind_protect_list[i])
    BY <1>1, <1>2, <1>3
  <2> QED
    BY <2>1, <2>2 DEF IsRunning
<1>7. IsRunning(w, s0, d)
  <2>1. \E u : u = [i \in 0 .. d |->
                      IF i = 0 THEN s0 ELSE RunElement(u[i - 1], unwind_protect_list[i])]
    <3> HIDE DEF g
    <3> QED
      BY <1>6, Zenon DEF IsRunning
  <2> QED
    BY <2>1, Zenon DEF IsRunning
<1>8. RunElements(s0, d) = w[d]
  BY Zenon DEF RunElements
<1> HIDE DEF w, g
<1>9. w[0] = s0 /\ \A i \in 1 .. d : w[i] = RunElement(w[i - 1], unwind_protect_list[i])
  BY <1>1, <1>7 DEF IsRunning
<1>10. 0 \in T /\ \A i \in 1 .. d : i - 1 \in T => i \in T
  BY <1>1, <1>2, <1>3, <1>9
<1>11. \A i \in 0 .. d : i \in T
  <2> HIDE DEF T
  <2> QED
    BY <1>1, <1>10, CountUp
<1>12. w[d] = g[d]
  BY <1>1, <1>11
<1> QED
  BY <1>5, <1>8, <1>12 DEF s0

\* How many elements there are down to what is left.
LEMMA DepthIs ==
  ASSUME NEW u, IsSeq(u), NEW tag, NEW L, Below(discard_unwind_frame(u, tag), u, L)
  PROVE  /\ Depth(u, tag) \in 0 .. Len(u) /\ Len(u) - Depth(u, tag) = L
<1> DEFINE at == {i \in 1 .. Len(u) : IsFrame(u[i], tag)}
<1>1. PICK S : u \in Seq(S)
  BY DEF IsSeq
<1>2. Len(u) \in Nat
  BY <1>1
<1>3. PICK k : k = SelectInSeq(u, LAMBDA elt : IsFrame(elt, tag))
  OBVIOUS
<1>4. k \in 0 .. Len(u)
  <2>1. k = IF at = {} THEN 0 ELSE Min(at)
    BY <1>3 DEF SelectInSeq
  <2>2. CASE at = {}
    BY <1>2, <2>1, <2>2
  <2>3. CASE at # {}
    <3>1. at \subseteq Nat
      OBVIOUS
    <3>2. PICK m \in at : \A j \in at : m <= j
      BY <2>3, <3>1, LeastNat
    <3>3. Min(at) = m
      BY <3>1, <3>2, LeastIs
    <3>4. k = m
      BY <2>1, <2>3, <3>3
    <3> QED
      BY <1>2, <3>2, <3>4
  <2> QED
    BY <2>2, <2>3
<1>5. PICK d : d = Depth(u, tag)
  OBVIOUS
<1>6. d \in 0 .. Len(u)
  BY <1>2, <1>3, <1>4, <1>5 DEF Depth
<1>7. PICK v : v = SubSeq(u, d + 1, Len(u))
  OBVIOUS
<1>8. Len(v) = L
  BY <1>5, <1>7 DEF discard_unwind_frame, Below
<1>9. Len(v) = Len(u) - d
  <2>1. d + 1 \in Int /\ Len(u) \in Int /\ \A j \in d + 1 .. Len(u) : u[j] \in S
    BY <1>1, <1>2, <1>6
  <2>2. Len(v) = IF d + 1 <= Len(u) THEN Len(u) - (d + 1) + 1 ELSE 0
    BY <1>7, <2>1, SubSeqProperties
  <2> QED
    BY <1>2, <1>6, <2>2
<1> QED
  BY <1>5, <1>6, <1>8, <1>9

\* Which cleanups are above the bottom, and above the end of a command.
LEMMA AllOver ==
  ASSUME NEW u, NEW cs, NEW height, Stacked(u, cs, height)
  PROVE  /\ Over(height, cs, 0) = Owing(cs)
         /\ \A i \in 1 .. Len(cs) : \A L \in Nat :
              (\A k \in Owing(cs) : k = i => CleanupHeight(height, cs, k) <= L)
              /\ height[i - 1] <= L /\ L <= height[i] =>
                Over(height, cs, L) = {k \in Owing(cs) : k > i}
<1>1. Len(u) \in Nat /\ Len(cs) \in Nat
  BY Numbers
<1>2. Over(height, cs, 0) = Owing(cs)
  <2>1. \A k \in Owing(cs) : CleanupHeight(height, cs, k) \in 1 .. Len(u)
    BY Owed
  <2>2. \A x \in 1 .. Len(u) : x > 0
    BY <1>1
  <2> QED
    BY <2>1, <2>2 DEF Over
<1>3. ASSUME NEW i \in 1 .. Len(cs), NEW L \in Nat,
             \A k \in Owing(cs) : k = i => CleanupHeight(height, cs, k) <= L,
             height[i - 1] <= L, L <= height[i]
      PROVE  Over(height, cs, L) = {k \in Owing(cs) : k > i}
  <2>1. ASSUME NEW k \in Owing(cs)
        PROVE  CleanupHeight(height, cs, k) > L <=> k > i
    <3>1. /\ k \in 1 .. Len(cs) /\ height[k - 1] \in Nat /\ height[k] \in Nat
          /\ height[k - 1] < CleanupHeight(height, cs, k)
          /\ CleanupHeight(height, cs, k) <= height[k]
          /\ CleanupHeight(height, cs, k) \in 1 .. Len(u)
      BY Owed
    <3>2. /\ i - 1 \in 0 .. Len(cs) /\ i \in 0 .. Len(cs)
          /\ k - 1 \in 0 .. Len(cs) /\ k \in 0 .. Len(cs)
      BY <1>1, <3>1
    <3>3. height[i - 1] \in Nat /\ height[i] \in Nat
      BY <1>1, <3>2, Numbers
    <3>4. k > i => height[i] <= height[k - 1]
      BY <3>1, <3>2 DEF Stacked
    <3>5. k < i => height[k] <= height[i - 1]
      BY <3>1, <3>2 DEF Stacked
    <3>6. PICK a, b, c, d, x : /\ a = height[i - 1] /\ b = height[i] /\ c = height[k - 1]
                               /\ d = height[k] /\ x = CleanupHeight(height, cs, k)
      OBVIOUS
    <3>7. /\ a \in Nat /\ b \in Nat /\ c \in Nat /\ d \in Nat /\ x \in Nat /\ k \in Int /\ i \in Int
          /\ c < x /\ x <= d /\ a <= L /\ L <= b /\ (k > i => b <= c) /\ (k < i => d <= a)
          /\ (k = i => x <= L)
      BY <1>1, <1>3, <3>1, <3>3, <3>4, <3>5, <3>6
    <3>8. x > L <=> k > i
      BY ONLY <3>7, L \in Nat
    <3> QED
      BY <3>6, <3>8
  <2> QED
    BY <2>1 DEF Over
<1> QED
  BY <1>2, <1>3

----------------------------------------------------------------------------
(* The lists of the activations, outermost first: a copy belongs to one of  *)
(* them, no inner one touches it, and the close-on-exec flags are theirs.   *)
Kept(s, lists, n) ==
  /\ s \in Machine /\ n \in Nat
  /\ \A k \in 1 .. n : UndoList(lists[k])
  /\ \A j, k \in 1 .. n : j < k => Targets(lists[k]) \cap SavingFds(lists[j]) = {}
  /\ s.cloexec = UNION {SavingFds(lists[k]) : k \in 1 .. n}
  /\ \A fd \in s.cloexec : SHELL_FD_BASE <= fd /\ s.fds[fd] # CLOSED

\* Lists that are kept may be undone.
LEMMA KeptSound ==
  ASSUME NEW s, NEW lists, NEW n, Kept(s, lists, n)
  PROVE  Sound(s, lists, n)
BY DEF Kept, Sound

\* The shell has undone the lists of all but the first m.
IsBack(t, s, lists, m, n) ==
  /\ t \in Machine /\ m \in 0 .. n
  /\ t.fds = Rewound(s, lists, m + 1 .. n).fds
  /\ t.cloexec = Rewound(s, lists, m + 1 .. n).cloexec

\* What that does to one descriptor.
LEMMA OneBack ==
  ASSUME NEW s, NEW lists, NEW n, Kept(s, lists, n), NEW t, NEW m, IsBack(t, s, lists, m, n),
         NEW fd \in Fds, NEW K, K = Hit(lists, m + 1 .. n, fd)
  PROVE  /\ K = {} => t.fds[fd] = s.fds[fd]
         /\ K # {} => \E k \in K : /\ \A j \in K : k <= j
                                   /\ t.fds[fd] = Brought(lists[k], s.fds, fd)
         /\ fd \in t.cloexec <=> fd \in s.cloexec /\ K = {}
<1>1. /\ s \in Machine /\ n \in Nat /\ m \in 0 .. n /\ m + 1 .. n \subseteq 1 .. n
  BY DEF Kept, IsBack
<1>2. K = {k \in m + 1 .. n : fd \in Targets(lists[k])}
  BY DEF Hit
<1>3. PICK f : f = [x \in Fds |-> IF Hit(lists, m + 1 .. n, x) = {} THEN s.fds[x]
                              ELSE Later(lists[Min(Hit(lists, m + 1 .. n, x))], s.fds, x)]
  OBVIOUS
<1>4. t.fds = f
  BY <1>3 DEF IsBack, Rewound
<1>5. t.fds[fd] = IF K = {} THEN s.fds[fd] ELSE Later(lists[Min(K)], s.fds, fd)
  BY <1>3, <1>4
<1>6. t.cloexec = s.cloexec \ UNION {Targets(lists[k]) : k \in m + 1 .. n}
  BY DEF IsBack, Rewound
<1>7. fd \in UNION {Targets(lists[k]) : k \in m + 1 .. n} <=> K # {}
  <2>1. ASSUME fd \in UNION {Targets(lists[k]) : k \in m + 1 .. n}
        PROVE  K # {}
    <3>1. PICK k \in m + 1 .. n : fd \in Targets(lists[k])
      BY <2>1
    <3> QED
      BY <1>2, <3>1
  <2>2. ASSUME K # {}
        PROVE  fd \in UNION {Targets(lists[k]) : k \in m + 1 .. n}
    <3>1. PICK k \in m + 1 .. n : fd \in Targets(lists[k])
      BY <1>2, <2>2
    <3> QED
      BY <3>1
  <2> QED
    BY <2>1, <2>2
<1>8. ASSUME K # {}
      PROVE  \E k \in K : /\ \A j \in K : k <= j
                          /\ t.fds[fd] = Brought(lists[k], s.fds, fd)
  <2>1. PICK k : k = Min(K)
    OBVIOUS
  <2>2. k \in m + 1 .. n /\ fd \in Targets(lists[k])
        /\ \A j \in m + 1 .. n : fd \in Targets(lists[j]) => k <= j
    <3>1. PICK M : M = m + 1 .. n
      OBVIOUS
    <3>2. M \subseteq 1 .. n /\ n \in Nat /\ K = Hit(lists, M, fd)
      BY <1>1, <1>2, <3>1
    <3>3. k \in M /\ fd \in Targets(lists[k]) /\ \A j \in M : fd \in Targets(lists[j]) => k <= j
      BY ONLY <1>8, <2>1, <3>2, MinHit
    <3> QED
      BY <3>1, <3>3
  <2>3. t.fds[fd] = Brought(lists[k], s.fds, fd)
    BY <1>5, <1>8, <2>1, <2>2 DEF Later
  <2> QED
    BY <1>2, <2>2, <2>3
<1> QED
  BY <1>5, <1>6, <1>7, <1>8

\* A copy that is held is a target of its own list only.
LEMMA HeldByOne ==
  ASSUME NEW s, NEW lists, NEW n, Kept(s, lists, n), NEW j \in 1 .. n,
         NEW fd \in SavingFds(lists[j])
  PROVE  /\ fd \in Fds /\ fd \in s.cloexec /\ fd \in Targets(lists[j])
         /\ \A k \in 1 .. n : j < k => fd \notin Targets(lists[k])
<1>1. UndoList(lists[j])
  BY DEF Kept
<1>2. fd \in Fds /\ fd \in Targets(lists[j])
  BY <1>1, ListFds, LastUndoing
<1>3. fd \in s.cloexec
  BY DEF Kept
<1>4. \A k \in 1 .. n : j < k => fd \notin Targets(lists[k])
  BY DEF Kept
<1> QED
  BY <1>2, <1>3, <1>4

\* The lists that are left after the inner ones were undone are kept.
LEMMA KeptBack ==
  ASSUME NEW s, NEW lists, NEW n, Kept(s, lists, n), NEW t, NEW m, IsBack(t, s, lists, m, n)
  PROVE  /\ Kept(t, lists, m)
         /\ \A fd \in t.cloexec : fd \in s.cloexec /\ t.fds[fd] = s.fds[fd]
<1>1. /\ s \in Machine /\ t \in Machine /\ n \in Nat /\ m \in 0 .. n /\ m \in Nat
      /\ 1 .. m \subseteq 1 .. n /\ m + 1 .. n \subseteq 1 .. n
  BY DEF Kept, IsBack
<1>2. ASSUME NEW fd \in t.cloexec
      PROVE  /\ fd \in s.cloexec /\ t.fds[fd] = s.fds[fd]
             /\ \A k \in m + 1 .. n : fd \notin Targets(lists[k])
  <2>1. fd \in Fds
    BY <1>1 DEF Machine
  <2>2. PICK K : K = Hit(lists, m + 1 .. n, fd)
    OBVIOUS
  <2>3. /\ K = {} => t.fds[fd] = s.fds[fd]
        /\ fd \in t.cloexec <=> fd \in s.cloexec /\ K = {}
    BY <2>1, <2>2, OneBack
  <2> QED
    BY <2>2, <2>3 DEF Hit
<1>3. ASSUME NEW fd \in t.cloexec
      PROVE  fd \in UNION {SavingFds(lists[k]) : k \in 1 .. m}
  <2>1. PICK k \in 1 .. n : fd \in SavingFds(lists[k])
    BY <1>2 DEF Kept
  <2>2. fd \in Targets(lists[k])
    BY <2>1, HeldByOne
  <2>3. k \notin m + 1 .. n
    BY <1>2, <2>2
  <2>4. k \in 1 .. m
    BY <1>1, <2>3
  <2> QED
    BY <2>1, <2>4
<1>4. ASSUME NEW fd \in UNION {SavingFds(lists[k]) : k \in 1 .. m}
      PROVE  fd \in t.cloexec
  <2>1. PICK j \in 1 .. m : fd \in SavingFds(lists[j])
    OBVIOUS
  <2>2. /\ fd \in Fds /\ fd \in s.cloexec
        /\ \A k \in 1 .. n : j < k => fd \notin Targets(lists[k])
    BY <1>1, <2>1, HeldByOne
  <2>3. \A k \in m + 1 .. n : k \in 1 .. n /\ j < k
    BY <1>1
  <2>4. PICK K : K = Hit(lists, m + 1 .. n, fd)
    OBVIOUS
  <2>5. K = {}
    BY <2>2, <2>3, <2>4 DEF Hit
  <2> QED
    BY <2>2, <2>4, <2>5, OneBack
<1>5. t.cloexec = UNION {SavingFds(lists[k]) : k \in 1 .. m}
  BY <1>3, <1>4
<1>6. \A fd \in t.cloexec : SHELL_FD_BASE <= fd /\ t.fds[fd] # CLOSED
  BY <1>2 DEF Kept
<1>7. /\ \A k \in 1 .. m : UndoList(lists[k])
      /\ \A j, k \in 1 .. m : j < k => Targets(lists[k]) \cap SavingFds(lists[j]) = {}
  BY <1>1 DEF Kept
<1> QED
  BY <1>1, <1>2, <1>5, <1>6, <1>7 DEF Kept

----------------------------------------------------------------------------
(* What a command sees, and what its undo list has of the descriptors it    *)
(* has redirected.                                                          *)
ViewOf(s) == [fd \in Fds |-> IF fd \in s.cloexec THEN CLOSED ELSE s.fds[fd]]

SavedBy(list, f) == [fd \in UndoneBy(list) |-> Brought(list, f, fd)]

Undoing(lists, fd, m, n) == {k \in m + 1 .. n : fd \in UndoneBy(lists[k])}

\* What the user has after the inner lists were undone.
LEMMA ViewBack ==
  ASSUME NEW s, NEW lists, NEW n, Kept(s, lists, n), NEW t, NEW m, IsBack(t, s, lists, m, n),
         NEW fd \in Fds, NEW R, R = Undoing(lists, fd, m, n)
  PROVE  /\ R = {} => ViewOf(t)[fd] = ViewOf(s)[fd]
         /\ R # {} => ViewOf(t)[fd] = SavedBy(lists[Min(R)], s.fds)[fd]
<1>1. /\ n \in Nat /\ m \in 0 .. n /\ m + 1 .. n \subseteq 1 .. n
      /\ \A k \in 1 .. n : UndoList(lists[k])
  BY DEF Kept, IsBack
<1>2. PICK K : K = Hit(lists, m + 1 .. n, fd)
  OBVIOUS
<1>3. /\ K = {} => t.fds[fd] = s.fds[fd]
      /\ K # {} => \E k \in K : /\ \A j \in K : k <= j
                                /\ t.fds[fd] = Brought(lists[k], s.fds, fd)
      /\ fd \in t.cloexec <=> fd \in s.cloexec /\ K = {}
  BY <1>2, OneBack
<1>4. /\ ViewOf(t)[fd] = IF fd \in t.cloexec THEN CLOSED ELSE t.fds[fd]
      /\ ViewOf(s)[fd] = IF fd \in s.cloexec THEN CLOSED ELSE s.fds[fd]
  BY DEF ViewOf
<1>5. R \subseteq K /\ K \subseteq 1 .. n /\ \A k \in K : fd \in Targets(lists[k])
  <2>1. \A k \in m + 1 .. n : UndoneBy(lists[k]) \subseteq Targets(lists[k])
    BY <1>1, LastUndoing
  <2> QED
    BY <1>1, <1>2, <2>1 DEF Hit, Undoing
<1>6. CASE K = {}
  <2>1. ViewOf(t)[fd] = ViewOf(s)[fd] /\ R = {}
    BY <1>3, <1>4, <1>5, <1>6
  <2> QED
    BY <2>1
<1>7. CASE K # {}
  <2>1. PICK k \in K : (\A j \in K : k <= j) /\ t.fds[fd] = Brought(lists[k], s.fds, fd)
    BY <1>3, <1>7
  <2>2. k \in 1 .. n /\ fd \in Targets(lists[k]) /\ UndoList(lists[k])
    BY <1>1, <1>5
  <2>3. ViewOf(t)[fd] = Brought(lists[k], s.fds, fd)
    BY <1>3, <1>4, <1>7, <2>1
  <2>4. CASE fd \in UndoneBy(lists[k])
    <3>1. k \in R /\ R \subseteq Nat /\ \A j \in R : k <= j
      <4>1. k \in R
        BY <1>2, <2>4 DEF Hit, Undoing
      <4>2. 1 .. n \subseteq Nat
        BY <1>1
      <4> QED
        BY <1>1, <1>5, <2>1, <4>1, <4>2
    <3>2. Min(R) = k
      BY <3>1, LeastIs
    <3>3. SavedBy(lists[k], s.fds)[fd] = Brought(lists[k], s.fds, fd)
      BY <2>4 DEF SavedBy
    <3> QED
      BY <2>3, <3>1, <3>2, <3>3
  <2>5. CASE fd \notin UndoneBy(lists[k])
    <3>1. fd \in SavingFds(lists[k]) /\ Brought(lists[k], s.fds, fd) = CLOSED
      BY <2>2, <2>5, LastUndoing
    <3>2. fd \in s.cloexec /\ \A j \in 1 .. n : k < j => fd \notin Targets(lists[j])
      BY <2>2, <3>1, HeldByOne
    <3>3. R = {}
      <4>1. SUFFICES ASSUME NEW j \in R
                     PROVE  FALSE
        OBVIOUS
      <4>2. j \in K /\ j \in 1 .. n /\ j # k /\ fd \in Targets(lists[j])
        BY <1>5, <2>5, <4>1 DEF Undoing
      <4>3. k < j
        BY <1>1, <2>1, <2>2, <4>2
      <4> QED
        BY <3>2, <4>2, <4>3
    <3>4. ViewOf(s)[fd] = CLOSED /\ ViewOf(t)[fd] = CLOSED
      BY <1>4, <2>3, <3>1, <3>2
    <3> QED
      BY <3>3, <3>4
  <2> QED
    BY <2>4, <2>5
<1> QED
  BY <1>6, <1>7

\* What a list has saved is there as long as its copies are.
LEMMA SavedSame ==
  ASSUME NEW list, UndoList(list), NEW f, NEW g, \A fd \in SavingFds(list) : g[fd] = f[fd]
  PROVE  SavedBy(list, g) = SavedBy(list, f)
<1>1. list \in Seq(Entries) /\ UndoneBy(list) \subseteq Targets(list)
  BY LastUndoing DEF UndoList
<1>2. ASSUME NEW fd \in UndoneBy(list)
      PROVE  Brought(list, g, fd) = Brought(list, f, fd)
  <2>1. PICK p : p = LastTo(list, fd)
    OBVIOUS
  <2>2. p \in DOMAIN list
    BY <1>1, <2>1, HasLast DEF IsLastTo
  <2>3. list[p].ri = "dup" => list[p].from \in SavingFds(list)
    BY <2>2 DEF SavingFds
  <2>4. Value(list[p], g) = Value(list[p], f)
    BY <2>3 DEF Value
  <2> QED
    BY <2>1, <2>4 DEF Brought
<1> QED
  BY <1>2 DEF SavedBy

\* What the lists that are left hold is as it was.
LEMMA SavedBack ==
  ASSUME NEW s, NEW lists, NEW n, Kept(s, lists, n), NEW t, NEW m, IsBack(t, s, lists, m, n),
         NEW i \in 1 .. m
  PROVE  SavedBy(lists[i], t.fds) = SavedBy(lists[i], s.fds)
<1>1. Kept(t, lists, m) /\ \A fd \in t.cloexec : t.fds[fd] = s.fds[fd]
  BY KeptBack
<1>2. UndoList(lists[i]) /\ SavingFds(lists[i]) \subseteq t.cloexec
  BY <1>1 DEF Kept
<1> QED
  BY <1>1, <1>2, SavedSame

----------------------------------------------------------------------------
(* The invariant.  The list of the one that redirects is the one being      *)
(* built, and those around it have all begun their bodies.                  *)
ListsIn(s, cs) ==
  [k \in 1 .. Len(cs) |-> IF cs[k].running THEN cs[k].my_undo_list ELSE s.undo]

AllRun(cs) == \A k \in 1 .. Len(cs) : cs[k].running

HeldBy(s, cs) ==
  /\ Kept(s, ListsIn(s, cs), Len(cs))
  /\ \A k \in 1 .. Len(cs) : k < Len(cs) => cs[k].running
  /\ AllRun(cs) => s.undo = <<>>
  /\ ~AllRun(cs) => ExecList(s.execUndo, s.undo)

Held == HeldBy(Shell, calls)

\* Kept says something of the first n lists only.
LEMMA KeptSame ==
  ASSUME NEW s, NEW lists, NEW n, Kept(s, lists, n), NEW other,
         \A k \in 1 .. n : other[k] = lists[k]
  PROVE  Kept(s, other, n)
<1>1. /\ \A k \in 1 .. n : UndoList(other[k])
      /\ \A j, k \in 1 .. n : j < k => Targets(other[k]) \cap SavingFds(other[j]) = {}
  BY DEF Kept
<1>2. s.cloexec = UNION {SavingFds(other[k]) : k \in 1 .. n}
  <2>1. {SavingFds(other[k]) : k \in 1 .. n} = {SavingFds(lists[k]) : k \in 1 .. n}
    OBVIOUS
  <2> QED
    BY <2>1 DEF Kept
<1> QED
  BY <1>1, <1>2 DEF Kept

\* The invariant after the inner commands have ended.
LEMMA HeldBack ==
  ASSUME NEW s, NEW cs, HeldBy(s, cs), NEW ds, NEW m, Prefix(ds, cs, m), AllRun(ds),
         NEW t, IsBack(t, s, ListsIn(s, cs), m, Len(cs)), t.undo = <<>>
  PROVE  HeldBy(t, ds)
<1>1. Kept(s, ListsIn(s, cs), Len(cs)) /\ Len(ds) = m /\ m \in 0 .. Len(cs) /\ Len(cs) \in Nat
  BY DEF HeldBy, Prefix, Kept
<1>2. Kept(t, ListsIn(s, cs), m)
  BY <1>1, KeptBack
<1>3. ASSUME NEW k \in 1 .. m
      PROVE  ListsIn(t, ds)[k] = ListsIn(s, cs)[k]
  <2>1. k \in 1 .. Len(cs) /\ k \in 1 .. Len(ds) /\ ds[k] = cs[k] /\ ds[k].running
    BY <1>1 DEF Prefix, AllRun
  <2> QED
    BY <2>1 DEF ListsIn
<1>4. Kept(t, ListsIn(t, ds), Len(ds))
  BY <1>1, <1>2, <1>3, KeptSame
<1> QED
  BY <1>4 DEF HeldBy, AllRun

\* What the definitions that a run checks come to.
ListsOf(s, cs) == {s.undo} \cup {cs[i].my_undo_list : i \in DOMAIN cs}
SavesOf(s, cs) == UNION {SavingFds(list) : list \in ListsOf(s, cs)}

NoneYet(cs) == IsSeq(cs) /\ \A k \in 1 .. Len(cs) : ~cs[k].running => cs[k].my_undo_list = <<>>

\* With one list for each activation, the copies are the close-on-exec descriptors.
LEMMA SavesAre ==
  ASSUME NEW s, NEW cs, HeldBy(s, cs), NoneYet(cs)
  PROVE  SavesOf(s, cs) = s.cloexec
<1> IsSeq(cs) /\ \A k \in 1 .. Len(cs) : ~cs[k].running => cs[k].my_undo_list = <<>>
  BY DEF NoneYet
<1>0. PICK lists : lists = {s.undo} \cup {cs[i].my_undo_list : i \in DOMAIN cs}
  OBVIOUS
<1>1. Kept(s, ListsIn(s, cs), Len(cs)) /\ Len(cs) \in Nat /\ DOMAIN cs = 1 .. Len(cs)
  <2>1. Kept(s, ListsIn(s, cs), Len(cs))
    BY DEF HeldBy
  <2>2. Len(cs) \in Nat /\ DOMAIN cs = 1 .. Len(cs)
    BY DEF IsSeq
  <2> QED
    BY <2>1, <2>2
<1>2. SavingFds(<<>>) = {}
  BY DEF SavingFds
<1>3. PICK own : own = ListsIn(s, cs)
  OBVIOUS
<1>4. s.cloexec = UNION {SavingFds(own[k]) : k \in 1 .. Len(cs)}
  BY <1>1, <1>3 DEF Kept
<1>5. \A k \in 1 .. Len(cs) : own[k] = IF cs[k].running THEN cs[k].my_undo_list ELSE s.undo
  BY <1>3 DEF ListsIn
<1>6. ASSUME NEW k \in 1 .. Len(cs)
      PROVE  own[k] \in lists
  BY <1>0, <1>1, <1>5
<1>7. ASSUME NEW list \in lists
      PROVE  SavingFds(list) = {} \/ \E k \in 1 .. Len(cs) : own[k] = list
  <2>1. CASE list = s.undo
    <3>1. CASE AllRun(cs)
      <4>1. s.undo = <<>>
        BY <3>1 DEF HeldBy
      <4> QED
        BY <1>2, <2>1, <4>1
    <3>2. CASE ~AllRun(cs)
      <4>1. PICK k \in 1 .. Len(cs) : ~cs[k].running
        BY <3>2 DEF AllRun
      <4> QED
        BY <1>5, <2>1, <4>1
    <3> QED
      BY <3>1, <3>2
  <2>2. CASE \E k \in 1 .. Len(cs) : list = cs[k].my_undo_list
    <3>1. PICK k \in 1 .. Len(cs) : list = cs[k].my_undo_list
      BY <2>2
    <3> QED
      BY <1>2, <1>5, <3>1
  <2> QED
    BY <1>0, <1>1, <2>1, <2>2
<1>8. ASSUME NEW fd \in UNION {SavingFds(list) : list \in lists}
      PROVE  fd \in s.cloexec
  <2>1. PICK list \in lists : fd \in SavingFds(list)
    OBVIOUS
  <2>2. PICK k \in 1 .. Len(cs) : own[k] = list
    BY <1>7, <2>1
  <2> QED
    BY <1>4, <2>1, <2>2
<1>9. ASSUME NEW fd \in s.cloexec
      PROVE  fd \in UNION {SavingFds(list) : list \in lists}
  <2>1. PICK k \in 1 .. Len(cs) : fd \in SavingFds(own[k])
    BY <1>4
  <2> QED
    BY <1>6, <2>1
<1>10. UNION {SavingFds(list) : list \in lists} = s.cloexec
  BY <1>8, <1>9
<1> QED
  BY <1>0, <1>10 DEF SavesOf, ListsOf

BroughtFrom(list, f) ==
  [fd \in {list[i].to : i \in Undoings(list)} |->
     LET last == list[Max({i \in Undoings(list) : list[i].to = fd})]
     IN IF last.ri = "dup" THEN f[last.from] ELSE CLOSED]

\* What a list brings back is what the module says that it has saved.
LEMMA BroughtBackIs ==
  ASSUME NEW list, UndoList(list), NEW f
  PROVE  BroughtFrom(list, f) = SavedBy(list, f)
<1>1. ASSUME NEW fd \in UndoneBy(list)
      PROVE  Max({i \in Undoings(list) : list[i].to = fd}) = LastTo(list, fd)
  BY LastUndoing
<1>2. UndoneBy(list) = {list[i].to : i \in Undoings(list)}
  BY DEF UndoneBy
<1> QED
  BY <1>1, <1>2 DEF BroughtFrom, SavedBy, Brought, Value

ScopesIn(s, cs) ==
  [k \in 1 .. Len(cs) |-> [kind |-> cs[k].kind, saved |-> SavedBy(ListsIn(s, cs)[k], s.fds)]]

\* What the other invariant says of the calls.
LEMMA WindingCalls ==
  ASSUME NEW u, NEW cs, NEW height, Stacked(u, cs, height)
  PROVE  /\ IsSeq(cs) /\ Len(cs) \in Nat /\ DOMAIN cs = 1 .. Len(cs)
         /\ \A k \in 1 .. Len(cs) : ProperCall(cs[k])
         /\ NoneYet(cs)
<1>1. IsSeq(cs) /\ \A k \in 1 .. Len(cs) : ProperCall(cs[k])
  BY DEF Stacked, Proper
<1>2. \A k \in 1 .. Len(cs) : ~cs[k].running => cs[k].my_undo_list = <<>>
  BY <1>1 DEF ProperCall
<1>3. Len(cs) \in Nat /\ DOMAIN cs = 1 .. Len(cs)
  BY <1>1 DEF IsSeq
<1> QED
  BY <1>1, <1>2, <1>3 DEF NoneYet

\* The view and the scopes of the state, in the words of this module.
LEMMA Seen ==
  ASSUME Held, Winding
  PROVE  /\ Saves = cloexec /\ UserView = ViewOf(Shell) /\ Scopes = ScopesIn(Shell, calls)
         /\ \A k \in DOMAIN calls : ListOf(k) = ListsIn(Shell, calls)[k]
<1>1. PICK s, cs : s = Shell /\ cs = calls
  OBVIOUS
<1>2. /\ s.fds = fds /\ s.cloexec = cloexec /\ s.undo = redirection_undo_list /\ HeldBy(s, cs)
  BY <1>1 DEF Shell, Held
<1>3. /\ IsSeq(cs) /\ Len(cs) \in Nat /\ DOMAIN cs = 1 .. Len(cs)
      /\ NoneYet(cs)
  BY <1>1, WindingCalls DEF Winding
<1>4. Saves = cloexec
  <2>1. SavesOf(s, cs) = s.cloexec
    BY <1>2, <1>3, SavesAre
  <2>2. Lists = ListsOf(s, cs)
    BY <1>1, <1>2 DEF Lists, ListsOf
  <2> QED
    BY <1>2, <2>1, <2>2 DEF Saves, SavesOf
<1>5. UserView = ViewOf(Shell)
  BY <1>1, <1>2, <1>4 DEF UserView, ViewOf
<1>6. \A k \in DOMAIN calls : ListOf(k) = ListsIn(s, cs)[k]
  BY <1>1, <1>2, <1>3 DEF ListOf, ListsIn
<1>7. \A k \in 1 .. Len(cs) : UndoList(ListsIn(s, cs)[k])
  BY <1>2 DEF HeldBy, Kept
<1>8. Scopes = ScopesIn(Shell, calls)
  <2>1. ASSUME NEW k \in DOMAIN calls
        PROVE  BroughtBack(ListOf(k)) = SavedBy(ListsIn(s, cs)[k], s.fds)
    <3>1. PICK list : list = ListOf(k)
      OBVIOUS
    <3>2. UndoList(list) /\ list = ListsIn(s, cs)[k]
      BY <1>1, <1>3, <1>6, <1>7, <3>1
    <3>3. BroughtFrom(list, s.fds) = SavedBy(list, s.fds)
      BY <3>2, BroughtBackIs
    <3>4. BroughtBack(ListOf(k)) = BroughtFrom(list, s.fds)
      BY <1>2, <3>1 DEF BroughtBack, BroughtFrom
    <3> QED
      BY <3>2, <3>3, <3>4
  <2> QED
    BY <1>1, <1>3, <2>1 DEF Scopes, ScopesIn
<1> QED
  BY <1>1, <1>4, <1>5, <1>6, <1>8

\* The same of the next state.
LEMMA SeenNext ==
  ASSUME Held', Winding'
  PROVE  UserView' = ViewOf(Shell') /\ Scopes' = ScopesIn(Shell', calls')
<1>1. PICK s, cs : s = Shell' /\ cs = calls'
  OBVIOUS
<1>2. /\ s.fds = fds' /\ s.cloexec = cloexec' /\ s.undo = redirection_undo_list' /\ HeldBy(s, cs)
  BY <1>1 DEF Shell, Held
<1>3. /\ IsSeq(cs) /\ Len(cs) \in Nat /\ DOMAIN cs = 1 .. Len(cs)
      /\ NoneYet(cs)
  BY <1>1, WindingCalls DEF Winding
<1>4. Saves' = cloexec'
  <2>1. SavesOf(s, cs) = s.cloexec
    BY <1>2, <1>3, SavesAre
  <2>2. Lists' = ListsOf(s, cs)
    BY <1>1, <1>2 DEF Lists, ListsOf
  <2> QED
    BY <1>2, <2>1, <2>2 DEF Saves, SavesOf
<1>5. UserView' = ViewOf(Shell')
  BY <1>1, <1>2, <1>4 DEF UserView, ViewOf
<1>6. \A k \in DOMAIN cs : ListOf(k)' = ListsIn(s, cs)[k]
  BY <1>1, <1>2, <1>3 DEF ListOf, ListsIn
<1>7. \A k \in 1 .. Len(cs) : UndoList(ListsIn(s, cs)[k])
  BY <1>2 DEF HeldBy, Kept
<1>8. Scopes' = ScopesIn(Shell', calls')
  <2>1. ASSUME NEW k \in DOMAIN cs
        PROVE  BroughtBack(ListOf(k))' = SavedBy(ListsIn(s, cs)[k], s.fds)
    <3>1. PICK list : list = ListOf(k)'
      OBVIOUS
    <3>2. UndoList(list) /\ list = ListsIn(s, cs)[k]
      BY <1>3, <1>6, <1>7, <3>1
    <3>3. BroughtFrom(list, s.fds) = SavedBy(list, s.fds)
      BY <3>2, BroughtBackIs
    <3>4. BroughtBack(ListOf(k))' = BroughtFrom(list, s.fds)
      BY <1>2, <3>1 DEF BroughtBack, BroughtFrom
    <3> QED
      BY <1>2, <3>2, <3>3, <3>4
  <2> QED
    BY <1>1, <1>3, <2>1 DEF Scopes, ScopesIn
<1> QED
  BY <1>1, <1>5, <1>8

\* One copy, one entry.
LEMMA HeldMeansOnce ==
  ASSUME Held, Winding
  PROVE  HeldOnce
<1>1. PICK lists, n : lists = ListsIn(Shell, calls) /\ n = Len(calls)
  OBVIOUS
<1>2. /\ Saves = cloexec /\ DOMAIN calls = 1 .. n /\ n \in Nat
      /\ \A k \in DOMAIN calls : ListOf(k) = lists[k]
  BY <1>1, Seen, WindingCalls DEF Winding
<1>3. Kept(Shell, lists, n) /\ Shell.fds = fds /\ Shell.cloexec = cloexec
  BY <1>1 DEF Held, HeldBy, Shell
<1>4. \A fd \in Saves : fds[fd] # CLOSED
  BY <1>2, <1>3 DEF Kept
<1>5. ASSUME NEW i \in 1 .. n, NEW j \in 1 .. n, NEW p \in DOMAIN lists[i], NEW q \in DOMAIN lists[j],
             lists[i][p].ri = "dup", lists[j][q].ri = "dup", lists[i][p].from = lists[j][q].from
      PROVE  i = j /\ p = q
  <2>1. lists[i][p].from \in SavingFds(lists[i]) /\ lists[j][q].from \in SavingFds(lists[j])
    BY <1>5 DEF SavingFds
  <2>2. i = j
    <3>1. ~(i < j) /\ ~(j < i)
      BY <1>3, <1>5, <2>1, HeldByOne
    <3> QED
      BY <1>2, <3>1
  <2>3. PICK list : list = lists[i]
    OBVIOUS
  <2>4. UndoList(list)
    BY <1>3, <2>3 DEF Kept
  <2>5. /\ DOMAIN list = 1 .. Len(list) /\ Len(list) \in Nat
        /\ \A x, y \in DOMAIN list : x <= y /\ list[y].ri = "dup" => list[x].to # list[y].from
        /\ \A x \in DOMAIN list : list[x].ri = "dup" =>
             x < Len(list) /\ list[x + 1] = Closer(list[x].from)
    BY <2>4 DEF UndoList
  <2>6. ASSUME NEW x \in DOMAIN list, NEW y \in DOMAIN list, x < y,
               list[x].ri = "dup", list[y].ri = "dup", list[x].from = list[y].from
        PROVE  FALSE
    <3>1. x + 1 \in DOMAIN list /\ x + 1 <= y
      BY <2>5, <2>6
    <3>2. list[x + 1].to = list[y].from
      BY <2>5, <2>6, CloserParts
    <3> QED
      BY <2>5, <2>6, <3>1, <3>2
  <2>7. ~(p < q) /\ ~(q < p)
    BY <1>5, <2>2, <2>3, <2>6
  <2>8. p \in Int /\ q \in Int
    BY <2>2, <2>3, <2>5
  <2> QED
    BY <2>2, <2>7, <2>8
<1>6. \A i, j \in DOMAIN calls : \A p \in Copies(i), q \in Copies(j) :
        ListOf(i)[p].from = ListOf(j)[q].from => i = j /\ p = q
  BY <1>2, <1>5 DEF Copies
<1> QED
  BY <1>2, <1>4, <1>6 DEF HeldOnce

----------------------------------------------------------------------------
(* What CommandScopes says of a step, of the state before and the one after. *)
RedirectedAfter(sc, fd, m) == {i \in m + 1 .. Len(sc) : fd \in DOMAIN sc[i].saved}

BackTo(v, sc, m) ==
  [fd \in Fds |-> IF RedirectedAfter(sc, fd, m) = {} THEN v[fd]
                  ELSE sc[Min(RedirectedAfter(sc, fd, m))].saved[fd]]

\* The first m scopes are left.
SavedStill(s, cs, t, ds, m) ==
  \A k \in 1 .. m : SavedBy(ListsIn(t, ds)[k], t.fds) = SavedBy(ListsIn(s, cs)[k], s.fds)

\* The scopes of the commands that go on are those they had.
LEMMA ScopesLeft ==
  ASSUME NEW s, NEW cs, NEW t, NEW ds, NEW m, Prefix(ds, cs, m), IsSeq(cs),
         SavedStill(s, cs, t, ds, m)
  PROVE  /\ ScopesIn(t, ds) = SubSeq(ScopesIn(s, cs), 1, m)
         /\ Len(ScopesIn(s, cs)) = Len(cs) /\ Len(cs) \in Nat
<1>1. /\ Len(cs) \in Nat /\ m \in 0 .. Len(cs) /\ Len(ds) = m
      /\ \A k \in 1 .. m : ds[k] = cs[k]
  BY DEF Prefix, IsSeq
<1>2. PICK a, b : a = ScopesIn(s, cs) /\ b = ScopesIn(t, ds)
  OBVIOUS
<1>3. PICK T : T = {a[k] : k \in 1 .. Len(cs)}
  OBVIOUS
<1>4. DOMAIN a = 1 .. Len(cs) /\ a = [k \in 1 .. Len(cs) |-> a[k]]
  BY <1>2 DEF ScopesIn
<1>5. a \in Seq(T) /\ Len(a) = Len(cs)
  <2>1. a \in [1 .. Len(cs) -> T]
    BY <1>3, <1>4
  <2> QED
    BY <1>1, <2>1
<1>6. PICK c : c = SubSeq(a, 1, m)
  OBVIOUS
<1>7. c \in Seq(T) /\ Len(c) = m /\ \A k \in 1 .. m : c[k] = a[k]
  <2>1. 1 \in Int /\ m \in Int /\ \A k \in 1 .. m : a[k] \in T
    BY <1>1, <1>3
  <2>2. /\ c \in Seq(T) /\ Len(c) = (IF 1 <= m THEN m - 1 + 1 ELSE 0)
        /\ \A k \in 1 .. m - 1 + 1 : c[k] = a[1 + k - 1]
    BY <1>6, <2>1, SubSeqProperties
  <2>3. Len(c) = m /\ m - 1 + 1 = m /\ \A k \in 1 .. m : 1 + k - 1 = k
    BY <1>1, <2>2
  <2> QED
    BY <2>2, <2>3
<1>8. \A k \in 1 .. m : b[k] = a[k]
  <2> SUFFICES ASSUME NEW k \in 1 .. m
               PROVE  b[k] = a[k]
    OBVIOUS
  <2>1. k \in 1 .. Len(ds) /\ k \in 1 .. Len(cs) /\ ds[k] = cs[k]
    BY <1>1
  <2> QED
    BY <1>2, <2>1 DEF ScopesIn, SavedStill
<1>9. b = [k \in 1 .. m |-> b[k]]
  BY <1>1, <1>2 DEF ScopesIn
<1>10. c = [k \in 1 .. m |-> c[k]]
  BY <1>7
<1>11. b = c
  BY <1>7, <1>8, <1>9, <1>10
<1> QED
  BY <1>1, <1>2, <1>5, <1>6, <1>11

\* The scopes after the first m have ended.
Ended(s, cs, t, ds, m) ==
  /\ HeldBy(t, ds)
  /\ ScopesIn(t, ds) = SubSeq(ScopesIn(s, cs), 1, m)
  /\ ViewOf(t) = BackTo(ViewOf(s), ScopesIn(s, cs), m)
  /\ Len(ScopesIn(s, cs)) = Len(cs) /\ Len(cs) \in Nat

\* Undoing the lists above m ends the scopes above m.
LEMMA EndIs ==
  ASSUME NEW s, NEW cs, HeldBy(s, cs), IsSeq(cs), NEW t, NEW ds, NEW m, Prefix(ds, cs, m),
         m < Len(cs), IsBack(t, s, ListsIn(s, cs), m, Len(cs)), t.undo = <<>>
  PROVE  Ended(s, cs, t, ds, m)
<1>1. PICK n, lists : n = Len(cs) /\ lists = ListsIn(s, cs)
  OBVIOUS
<1>2. /\ Kept(s, lists, n) /\ n \in Nat /\ m \in 0 .. n /\ m < n /\ Len(ds) = m
      /\ \A k \in 1 .. m : ds[k] = cs[k]
  BY <1>1 DEF HeldBy, Prefix, IsSeq
<1>3. IsBack(t, s, lists, m, n)
  BY <1>1
<1>4. AllRun(ds)
  <2> SUFFICES ASSUME NEW k \in 1 .. Len(ds)
               PROVE  ds[k].running
    BY DEF AllRun
  <2>1. k \in 1 .. n /\ k < n /\ ds[k] = cs[k]
    BY <1>2
  <2> QED
    BY <1>1, <2>1 DEF HeldBy
<1>5. HeldBy(t, ds)
  BY <1>4, HeldBack
<1>6. ASSUME NEW k \in 1 .. m
      PROVE  SavedBy(ListsIn(t, ds)[k], t.fds) = SavedBy(ListsIn(s, cs)[k], s.fds)
  <2>1. k \in 1 .. n /\ k \in 1 .. Len(ds) /\ k \in 1 .. Len(cs) /\ ds[k] = cs[k] /\ ds[k].running
    BY <1>1, <1>2, <1>4 DEF AllRun
  <2>2. ListsIn(t, ds)[k] = lists[k] /\ ListsIn(s, cs)[k] = lists[k]
    BY <1>1, <2>1 DEF ListsIn
  <2>3. SavedBy(lists[k], t.fds) = SavedBy(lists[k], s.fds)
    BY <1>2, <1>3, SavedBack
  <2> QED
    BY <2>2, <2>3
<1>7. PICK a : a = ScopesIn(s, cs)
  OBVIOUS
<1>8. ScopesIn(t, ds) = SubSeq(a, 1, m) /\ Len(a) = n
  <2>1. SavedStill(s, cs, t, ds, m)
    BY <1>6 DEF SavedStill
  <2> QED
    BY <1>1, <1>7, <2>1, ScopesLeft
<1>9. \A k \in 1 .. n : a[k].saved = SavedBy(lists[k], s.fds) /\ DOMAIN a[k].saved = UndoneBy(lists[k])
  BY <1>1, <1>7 DEF ScopesIn, SavedBy
<1>10. ASSUME NEW fd \in Fds
       PROVE  ViewOf(t)[fd] = BackTo(ViewOf(s), a, m)[fd]
  <2>1. PICK R : R = Undoing(lists, fd, m, n)
    OBVIOUS
  <2>2. RedirectedAfter(a, fd, m) = R
    <3>1. \A k \in m + 1 .. n : k \in 1 .. n
      BY <1>2
    <3> QED
      BY <1>8, <1>9, <2>1, <3>1 DEF RedirectedAfter, Undoing
  <2>3. /\ R = {} => ViewOf(t)[fd] = ViewOf(s)[fd]
        /\ R # {} => ViewOf(t)[fd] = SavedBy(lists[Min(R)], s.fds)[fd]
    BY <1>2, <1>3, <2>1, ViewBack
  <2>4. CASE R = {}
    BY <2>2, <2>3, <2>4 DEF BackTo
  <2>5. CASE R # {}
    <3>1. R \subseteq m + 1 .. n /\ R \subseteq Nat
      BY <1>2, <2>1 DEF Undoing
    <3>2. PICK k \in R : \A y \in R : k <= y
      BY <2>5, <3>1, LeastNat
    <3>3. Min(R) = k /\ k \in 1 .. n
      <4>1. Min(R) = k
        BY <3>1, <3>2, LeastIs
      <4> QED
        BY <1>2, <3>1, <4>1
    <3>4. a[Min(R)].saved = SavedBy(lists[Min(R)], s.fds)
      BY <1>9, <3>3
    <3> QED
      BY <2>2, <2>3, <2>5, <3>4 DEF BackTo
  <2> QED
    BY <2>4, <2>5
<1>11. ViewOf(t) = BackTo(ViewOf(s), a, m)
  <2>1. PICK v, w : v = ViewOf(t) /\ w = BackTo(ViewOf(s), a, m)
    OBVIOUS
  <2>2. v = [fd \in Fds |-> v[fd]]
    BY <2>1 DEF ViewOf
  <2>3. w = [fd \in Fds |-> w[fd]]
    BY <2>1 DEF BackTo
  <2> QED
    BY <1>10, <2>1, <2>2, <2>3
<1> QED
  BY <1>1, <1>2, <1>5, <1>7, <1>8, <1>11 DEF Ended

\* The record of the next state.
LEMMA BecomesIs ==
  ASSUME NEW t \in Machine, Becomes(t)
  PROVE  Shell' = t
BY DEF Machine, Becomes, Shell

\* A step that ends commands.
LEMMA EndsWell ==
  ASSUME Held, Winding, Winding', NEW t \in Machine, NEW m, Becomes(t),
         Prefix(calls', calls, m), m < Len(calls), t.undo = <<>>,
         IsBack(t, Shell, ListsIn(Shell, calls), m, Len(calls))
  PROVE  Held' /\ Promise!Next
<1>1. Shell' = t
  BY BecomesIs
<1>2. PICK s, cs, ds : s = Shell /\ cs = calls /\ ds = calls'
  OBVIOUS
<1>3. IsSeq(cs)
  BY <1>2, WindingCalls DEF Winding
<1>4. HeldBy(s, cs)
  BY <1>2 DEF Held
<1>5. Ended(s, cs, t, ds, m)
  BY <1>2, <1>3, <1>4, EndIs
<1>6. Held'
  BY <1>1, <1>2, <1>5 DEF Held, Ended
<1>7. PICK v, w, a, b : v = UserView /\ w = UserView' /\ a = Scopes /\ b = Scopes'
  OBVIOUS
<1>8. v = ViewOf(s) /\ a = ScopesIn(s, cs)
  BY <1>2, <1>7, Seen
<1>9. w = ViewOf(t) /\ b = ScopesIn(t, ds)
  BY <1>1, <1>2, <1>6, <1>7, SeenNext
<1>10. b = SubSeq(a, 1, m) /\ w = BackTo(v, a, m) /\ Len(a) = Len(cs) /\ Len(cs) \in Nat
  BY <1>5, <1>8, <1>9 DEF Ended
<1>11. m \in 0 .. Len(a) - 1
  BY <1>2, <1>10 DEF Prefix
<1>12. Promise!Back(m) = BackTo(v, a, m)
  <2>1. \A S : Promise!Min(S) = Min(S)
    BY Zenon DEF Promise!Min, Min
  <2> QED
    BY <1>7, <2>1 DEF Promise!Back, Promise!Redirecting, BackTo, RedirectedAfter
<1>13. Promise!Close
  BY <1>7, <1>10, <1>11, <1>12 DEF Promise!Close
<1> QED
  BY <1>6, <1>13 DEF Promise!Next

\* One scope more, that has redirected nothing.
Opens(s, cs, t, ds) ==
  /\ HeldBy(t, ds) /\ ViewOf(t) = ViewOf(s)
  /\ Len(ScopesIn(t, ds)) = Len(ScopesIn(s, cs)) + 1
  /\ SubSeq(ScopesIn(t, ds), 1, Len(ScopesIn(s, cs))) = ScopesIn(s, cs)
  /\ DOMAIN ScopesIn(t, ds)[Len(ScopesIn(t, ds))].saved = {}

\* One more activation, with nothing redirected.
LEMMA OpenIs ==
  ASSUME NEW s, NEW cs, HeldBy(s, cs), IsSeq(cs), AllRun(cs),
         NEW t \in Machine, t.fds = s.fds, t.cloexec = s.cloexec, t.undo = <<>>,
         NEW ds, NEW c, Extension(ds, cs, Len(cs), c), c.my_undo_list = <<>>,
         c.running \in BOOLEAN, c.running \/ t.execUndo = <<>>
  PROVE  Opens(s, cs, t, ds)
<1>1. PICK n, lists, other : n = Len(cs) /\ lists = ListsIn(s, cs) /\ other = ListsIn(t, ds)
  OBVIOUS
<1>2. /\ Kept(s, lists, n) /\ n \in Nat /\ IsSeq(ds) /\ Len(ds) = n + 1 /\ ds[n + 1] = c
      /\ \A k \in 1 .. n : ds[k] = cs[k]
  BY <1>1 DEF HeldBy, Extension, IsSeq
<1>3. ASSUME NEW k \in 1 .. n
      PROVE  other[k] = lists[k] /\ ds[k].running /\ cs[k].running
  <2>1. k \in 1 .. Len(ds) /\ k \in 1 .. Len(cs) /\ ds[k] = cs[k] /\ cs[k].running
    BY <1>1, <1>2 DEF AllRun
  <2> QED
    BY <1>1, <2>1 DEF ListsIn
<1>4. other[n + 1] = <<>>
  <2>1. n + 1 \in 1 .. Len(ds)
    BY <1>2
  <2> QED
    BY <1>1, <1>2, <2>1 DEF ListsIn
<1>5. \A k \in 1 .. n + 1 : k \in 1 .. n \/ k = n + 1
  BY <1>2
<1>6. /\ UndoList(<<>>) /\ SavingFds(<<>>) = {} /\ Targets(<<>>) = {} /\ UndoneBy(<<>>) = {}
      /\ ExecList(<<>>, <<>>)
  <2>1. <<>> \in Seq(Entries) /\ DOMAIN <<>> = {} /\ <<>> \in Seq(Closers)
    OBVIOUS
  <2>2. UndoList(<<>>)
    BY <2>1 DEF UndoList
  <2>3. SavingFds(<<>>) = {} /\ Targets(<<>>) = {}
    BY <2>1 DEF SavingFds, Targets
  <2>4. UndoneBy(<<>>) = {}
    BY <2>1 DEF UndoneBy, Undoings
  <2> QED
    BY <2>1, <2>2, <2>3, <2>4 DEF ExecList
<1>7. Kept(t, other, n + 1)
  <2>1. \A k \in 1 .. n + 1 : UndoList(other[k])
    BY <1>2, <1>3, <1>4, <1>5, <1>6 DEF Kept
  <2>2. ASSUME NEW j \in 1 .. n + 1, NEW k \in 1 .. n + 1, j < k
        PROVE  Targets(other[k]) \cap SavingFds(other[j]) = {}
    <3>1. CASE k = n + 1
      BY <1>4, <1>6, <3>1
    <3>2. CASE k \in 1 .. n
      <4>1. j \in 1 .. n
        BY <1>2, <2>2, <3>2
      <4>2. Targets(lists[k]) \cap SavingFds(lists[j]) = {}
        BY <1>2, <2>2, <3>2, <4>1 DEF Kept
      <4> QED
        BY <1>3, <3>2, <4>1, <4>2
    <3> QED
      BY <1>5, <3>1, <3>2
  <2>3. t.cloexec = UNION {SavingFds(other[k]) : k \in 1 .. n + 1}
    <3>1. s.cloexec = UNION {SavingFds(lists[k]) : k \in 1 .. n}
      BY <1>2 DEF Kept
    <3>2. ASSUME NEW fd \in t.cloexec
          PROVE  fd \in UNION {SavingFds(other[k]) : k \in 1 .. n + 1}
      <4>1. PICK k \in 1 .. n : fd \in SavingFds(lists[k])
        BY <3>1
      <4>2. k \in 1 .. n + 1 /\ fd \in SavingFds(other[k])
        BY <1>2, <1>3, <4>1
      <4> QED
        BY <4>2
    <3>3. ASSUME NEW fd, NEW k \in 1 .. n + 1, fd \in SavingFds(other[k])
          PROVE  fd \in t.cloexec
      <4>1. k \in 1 .. n
        BY <1>4, <1>5, <1>6, <3>3
      <4>2. fd \in SavingFds(lists[k])
        BY <1>3, <3>3, <4>1
      <4> QED
        BY <3>1, <4>1, <4>2
    <3> QED
      BY <3>2, <3>3
  <2>4. \A fd \in t.cloexec : SHELL_FD_BASE <= fd /\ t.fds[fd] # CLOSED
    BY <1>2 DEF Kept
  <2>5. n + 1 \in Nat
    BY <1>2
  <2> QED
    BY <2>1, <2>2, <2>3, <2>4, <2>5 DEF Kept
<1>8. HeldBy(t, ds)
  <2>1. ASSUME NEW k \in 1 .. Len(ds), k < Len(ds)
        PROVE  ds[k].running
    <3>1. k \in 1 .. n
      BY <1>2, <2>1
    <3> QED
      BY <1>3, <3>1
  <2>2. ~AllRun(ds) => ExecList(t.execUndo, t.undo)
    <3> SUFFICES ASSUME ~AllRun(ds)
                 PROVE  ExecList(t.execUndo, t.undo)
      OBVIOUS
    <3>1. PICK k \in 1 .. Len(ds) : ~ds[k].running
      BY DEF AllRun
    <3>2. k = n + 1
      BY <1>2, <1>3, <1>5, <3>1
    <3>3. t.execUndo = <<>>
      BY <1>2, <3>1, <3>2
    <3> QED
      BY <1>6, <3>3
  <2>3. Kept(t, ListsIn(t, ds), Len(ds))
    BY <1>1, <1>2, <1>7
  <2> QED
    BY <2>1, <2>2, <2>3 DEF HeldBy
<1>9. ViewOf(t) = ViewOf(s)
  BY DEF ViewOf
<1>10. Prefix(cs, ds, n) /\ IsSeq(ds)
  BY <1>1, <1>2 DEF Prefix
<1>11. SavedStill(t, ds, s, cs, n)
  <2>1. \A k \in 1 .. n : SavedBy(ListsIn(s, cs)[k], s.fds) = SavedBy(ListsIn(t, ds)[k], t.fds)
    BY <1>1, <1>3
  <2> QED
    BY <2>1 DEF SavedStill
<1>12. PICK a, b : a = ScopesIn(s, cs) /\ b = ScopesIn(t, ds)
  OBVIOUS
<1>13. a = SubSeq(b, 1, n) /\ Len(b) = n + 1
  <2>1. ScopesIn(s, cs) = SubSeq(ScopesIn(t, ds), 1, n) /\ Len(ScopesIn(t, ds)) = Len(ds)
    BY <1>10, <1>11, ScopesLeft
  <2> QED
    BY <1>2, <1>12, <2>1
<1>14. Len(a) = n
  <2>1. DOMAIN a = 1 .. n /\ n \in Nat
    BY <1>1, <1>2, <1>12 DEF ScopesIn
  <2>2. PICK T : T = {a[k] : k \in 1 .. n}
    OBVIOUS
  <2>3. a = [k \in 1 .. n |-> a[k]]
    BY <1>1, <1>12 DEF ScopesIn
  <2>4. a \in [1 .. n -> T]
    BY <2>2, <2>3
  <2>5. a \in Seq(T)
    BY <1>2, <2>4
  <2> QED
    BY <2>1, <2>5
<1>15. DOMAIN b[n + 1].saved = {}
  <2>1. n + 1 \in 1 .. Len(ds)
    BY <1>2
  <2>2. b[n + 1].saved = SavedBy(<<>>, t.fds)
    BY <1>1, <1>4, <1>12, <2>1 DEF ScopesIn
  <2> QED
    BY <1>6, <2>2 DEF SavedBy
<1> QED
  BY <1>8, <1>9, <1>12, <1>13, <1>14, <1>15 DEF Opens

\* A step that only opens an activation is a step of CommandScopes.
LEMMA OpensWell ==
  ASSUME Held, Winding, Winding', NEW t \in Machine, Becomes(t), Opens(Shell, calls, t, calls')
  PROVE  Held' /\ Promise!Next
<1>1. Shell' = t
  BY BecomesIs
<1>2. PICK s, cs, ds : s = Shell /\ cs = calls /\ ds = calls'
  OBVIOUS
<1>3. Opens(s, cs, t, ds)
  BY <1>2
<1>4. Held'
  BY <1>1, <1>2, <1>3 DEF Held, Opens
<1>5. PICK v, w, a, b : v = UserView /\ w = UserView' /\ a = Scopes /\ b = Scopes'
  OBVIOUS
<1>6. v = ViewOf(s) /\ a = ScopesIn(s, cs)
  BY <1>2, <1>5, Seen
<1>7. w = ViewOf(t) /\ b = ScopesIn(t, ds)
  BY <1>1, <1>2, <1>4, <1>5, SeenNext
<1>8. w = v /\ Len(b) = Len(a) + 1 /\ SubSeq(b, 1, Len(a)) = a /\ DOMAIN b[Len(b)].saved = {}
  BY <1>3, <1>6, <1>7 DEF Opens
<1>9. Promise!Open
  BY <1>5, <1>8 DEF Promise!Open
<1> QED
  BY <1>4, <1>9 DEF Promise!Next

\* The shell and its commands between two redirections.
LEMMA HeldParts ==
  ASSUME Held, Winding
  PROVE  /\ Shell \in Machine /\ Shell.fds = fds /\ Shell.cloexec = cloexec /\ Shell.var = var
         /\ Shell.undo = redirection_undo_list /\ Shell.execUndo = exec_redirection_undo_list
         /\ IsSeq(calls) /\ Len(calls) \in Nat /\ DOMAIN calls = 1 .. Len(calls)
         /\ HeldBy(Shell, calls)
         /\ Running => AllRun(calls) /\ redirection_undo_list = <<>>
         /\ Redirecting => /\ calls # <<>> /\ ~AllRun(calls) /\ Len(calls) \in 1 .. Len(calls)
                           /\ Top = calls[Len(calls)] /\ ~Top.running /\ Top.my_undo_list = <<>>
                           /\ ListsIn(Shell, calls)[Len(calls)] = redirection_undo_list
<1>1. PICK s, cs : s = Shell /\ cs = calls
  OBVIOUS
<1>2. HeldBy(s, cs)
  BY <1>1 DEF Held
<1>3. s \in Machine
  BY <1>2 DEF HeldBy, Kept
<1>4. /\ s.fds = fds /\ s.cloexec = cloexec /\ s.var = var
      /\ s.undo = redirection_undo_list /\ s.execUndo = exec_redirection_undo_list
  BY <1>1 DEF Shell
<1>5. /\ IsSeq(cs) /\ Len(cs) \in Nat /\ DOMAIN cs = 1 .. Len(cs) /\ NoneYet(cs)
  BY <1>1, WindingCalls DEF Winding
<1>6. calls # <<>> => Len(cs) \in 1 .. Len(cs) /\ Top = cs[Len(cs)]
  <2> SUFFICES ASSUME calls # <<>>
               PROVE  Len(cs) \in 1 .. Len(cs) /\ Top = cs[Len(cs)]
    OBVIOUS
  <2>1. PICK height : Stacked(unwind_protect_list, calls, height)
    BY DEF Winding
  <2>2. Len(calls) \in Nat /\ Len(calls) >= 1 /\ Top = calls[Len(calls)]
    BY <2>1, TopCall
  <2> QED
    BY <1>1, <2>2
<1>7. Running => AllRun(cs)
  <2> SUFFICES ASSUME Running, NEW k \in 1 .. Len(cs)
               PROVE  cs[k].running
    BY DEF AllRun
  <2>1. calls # <<>>
    BY <1>1, <1>5
  <2>2. Top.running
    BY <2>1 DEF Running
  <2>3. k = Len(cs) \/ k < Len(cs)
    <3>1. Len(cs) \in Nat /\ k \in 1 .. Len(cs)
      BY <1>5
    <3> QED
      BY ONLY <3>1
  <2> QED
    BY <1>2, <1>6, <2>1, <2>2, <2>3 DEF HeldBy
<1>8. AllRun(cs) => redirection_undo_list = <<>>
  BY <1>2, <1>4 DEF HeldBy
<1>9. ASSUME Redirecting
      PROVE  /\ calls # <<>> /\ ~AllRun(cs) /\ Len(cs) \in 1 .. Len(cs)
             /\ Top = cs[Len(cs)] /\ ~Top.running /\ Top.my_undo_list = <<>>
             /\ ListsIn(s, cs)[Len(cs)] = redirection_undo_list
  <2>1. calls # <<>> /\ ~Top.running
    BY <1>9 DEF Redirecting, Running
  <2>2. Len(cs) \in 1 .. Len(cs) /\ Top = cs[Len(cs)] /\ ~cs[Len(cs)].running
    BY <1>6, <2>1
  <2>3. ~AllRun(cs)
    BY <2>2 DEF AllRun
  <2>4. Top.my_undo_list = <<>>
    BY <1>5, <2>2 DEF NoneYet
  <2>5. ListsIn(s, cs)[Len(cs)] = redirection_undo_list
    BY <1>4, <2>2 DEF ListsIn
  <2> QED
    BY <2>1, <2>2, <2>3, <2>4, <2>5
<1> QED
  BY <1>1, <1>2, <1>3, <1>4, <1>5, <1>7, <1>8, <1>9

PutUndo(s, list) == [s EXCEPT !.undo = list]
PutExecUndo(s, list) == [s EXCEPT !.execUndo = list]

\* The record with another undo list.
LEMMA WithUndo ==
  ASSUME NEW s \in Machine, NEW list \in Seq(Entries)
  PROVE  /\ PutUndo(s, list) \in Machine
         /\ PutUndo(s, list).fds = s.fds /\ PutUndo(s, list).cloexec = s.cloexec
         /\ PutUndo(s, list).undo = list
         /\ PutUndo(s, list).execUndo = s.execUndo /\ PutUndo(s, list).var = s.var
BY DEF Machine, PutUndo

\* The record with another list to undo an exec.
LEMMA WithExecUndo ==
  ASSUME NEW s \in Machine, NEW list \in Seq(Entries)
  PROVE  /\ PutExecUndo(s, list) \in Machine
         /\ PutExecUndo(s, list).fds = s.fds /\ PutExecUndo(s, list).cloexec = s.cloexec
         /\ PutExecUndo(s, list).execUndo = list
         /\ PutExecUndo(s, list).undo = s.undo /\ PutExecUndo(s, list).var = s.var
BY DEF Machine, PutExecUndo

\* What do_redirections and the body of a command start from.
LEMMA Forgotten ==
  ASSUME NEW s \in Machine, NEW t, t = dispose_exec_redirects([s EXCEPT !.undo = <<>>])
  PROVE  t \in Machine /\ t.fds = s.fds /\ t.cloexec = s.cloexec /\ t.undo = <<>> /\ t.execUndo = <<>>
<1>1. PICK none : none = <<>>
  OBVIOUS
<1>2. none \in Seq(Entries)
  BY <1>1
<1>3. PICK x : x = PutUndo(s, none)
  OBVIOUS
<1>4. x \in Machine /\ x.fds = s.fds /\ x.cloexec = s.cloexec /\ x.undo = none
  BY <1>2, <1>3, WithUndo
<1>5. t = PutExecUndo(x, none)
  BY <1>1, <1>3 DEF dispose_exec_redirects, PutUndo, PutExecUndo
<1>6. /\ t \in Machine /\ t.fds = x.fds /\ t.cloexec = x.cloexec /\ t.undo = x.undo
      /\ t.execUndo = none
  BY <1>2, <1>4, <1>5, WithExecUndo
<1> QED
  BY <1>1, <1>4, <1>6

\* A simple command, a function or a group starts.
LEMMA BeginHolds ==
  ASSUME Held, Winding, NEW kind \in Kinds \ {"handler"}, Begin(kind)
  PROVE  Held' /\ Promise!Next
<1>1. Winding'
  BY BeginWinds
<1>2. /\ Running /\ calls' = Append(calls, Call(kind, FALSE))
      /\ Becomes(dispose_exec_redirects([Shell EXCEPT !.undo = <<>>]))
  BY DEF Begin
<1>3. PICK s : s = Shell
  OBVIOUS
<1>4. s \in Machine /\ HeldBy(s, calls) /\ IsSeq(calls) /\ AllRun(calls)
  BY <1>2, <1>3, HeldParts
<1>5. PICK t : t = dispose_exec_redirects([s EXCEPT !.undo = <<>>])
  OBVIOUS
<1>6. t \in Machine /\ t.fds = s.fds /\ t.cloexec = s.cloexec /\ t.undo = <<>> /\ t.execUndo = <<>>
  BY <1>4, <1>5, Forgotten
<1>7. PICK c : c = Call(kind, FALSE)
  OBVIOUS
<1>8. c.my_undo_list = <<>> /\ c.running = FALSE
  BY <1>7 DEF Call
<1>9. Extension(calls', calls, Len(calls), c)
  BY <1>2, <1>4, <1>7, CallLists
<1>10. Opens(s, calls, t, calls')
  <2>1. c.running \in BOOLEAN
    BY <1>8
  <2> QED
    BY <1>4, <1>6, <1>8, <1>9, <2>1, OpenIs
<1> QED
  BY <1>1, <1>2, <1>3, <1>5, <1>6, <1>10, OpensWell

\* A trap handler starts.
LEMMA RunTrapHolds ==
  ASSUME Quiet, Held, Winding, RunTrap
  PROVE  Held' /\ Promise!Next
<1>1. Winding'
  BY RunTrapWinds
<1>2. Running /\ calls' = Append(calls, Call("handler", TRUE)) /\ UNCHANGED tables
  BY DEF RunTrap, Quiet
<1>3. PICK s : s = Shell
  OBVIOUS
<1>4. /\ s \in Machine /\ HeldBy(s, calls) /\ IsSeq(calls) /\ AllRun(calls)
      /\ s.undo = <<>>
  BY <1>2, <1>3, HeldParts
<1>5. Becomes(s)
  BY <1>2, <1>3 DEF Becomes, Shell, tables
<1>6. PICK c : c = Call("handler", TRUE)
  OBVIOUS
<1>7. c.my_undo_list = <<>> /\ c.running = TRUE
  BY <1>6 DEF Call
<1>8. Extension(calls', calls, Len(calls), c)
  BY <1>2, <1>4, <1>6, CallLists
<1>9. Opens(s, calls, s, calls')
  <2>1. c.running \in BOOLEAN /\ c.running
    BY <1>7
  <2> QED
    BY <1>4, <1>7, <1>8, <2>1, OpenIs
<1> QED
  BY <1>1, <1>3, <1>4, <1>5, <1>9, OpensWell

\* The body of a command begins: its list is now its own.
LEMMA BodyBegins ==
  ASSUME Held, Winding, Winding', Redirecting, NEW c, c.kind = Top.kind, c.running,
         c.my_undo_list = redirection_undo_list, calls' = WithTop(c),
         Becomes(dispose_exec_redirects([Shell EXCEPT !.undo = <<>>]))
  PROVE  Held' /\ UserView' = UserView /\ Scopes' = Scopes
<1>1. PICK s, n, cs, ds : s = Shell /\ n = Len(calls) /\ cs = calls /\ ds = calls'
  OBVIOUS
<1>2. /\ s \in Machine /\ s.undo = redirection_undo_list /\ HeldBy(s, cs)
      /\ n \in Nat /\ n \in 1 .. n /\ cs[n] = Top /\ Len(cs) = n /\ calls # <<>>
      /\ ListsIn(s, cs)[n] = redirection_undo_list
  BY <1>1, HeldParts
<1>3. PICK t : t = dispose_exec_redirects([s EXCEPT !.undo = <<>>])
  OBVIOUS
<1>4. t \in Machine /\ t.fds = s.fds /\ t.cloexec = s.cloexec /\ t.undo = <<>>
  BY <1>2, <1>3, Forgotten
<1>5. Shell' = t
  BY <1>1, <1>3, <1>4, BecomesIs
<1>6. Len(ds) = n /\ ds[n] = c /\ \A k \in 1 .. n - 1 : ds[k] = cs[k]
  <2>1. PICK height : Stacked(unwind_protect_list, calls, height)
    BY DEF Winding
  <2>2. Extension(WithTop(c), calls, n - 1, c)
    BY <1>1, <1>2, <2>1, TopCall
  <2>3. Extension(ds, cs, n - 1, c)
    BY <1>1, <2>2
  <2>4. n - 1 + 1 = n
    BY <1>2
  <2> QED
    BY <2>3, <2>4 DEF Extension
<1>7. \A k \in 1 .. n : k \in 1 .. n - 1 \/ k = n
  BY <1>2
<1>8. ASSUME NEW k \in 1 .. n
      PROVE  /\ ds[k].running /\ ds[k].kind = cs[k].kind
             /\ ListsIn(t, ds)[k] = ListsIn(s, cs)[k]
  <2>1. CASE k = n
    <3>1. ListsIn(t, ds)[k] = c.my_undo_list
      BY <1>6, <2>1 DEF ListsIn
    <3> QED
      BY <1>2, <1>6, <2>1, <3>1
  <2>2. CASE k \in 1 .. n - 1
    <3>1. k \in 1 .. Len(cs) /\ k < Len(cs) /\ k \in 1 .. Len(ds) /\ ds[k] = cs[k]
      BY <1>2, <1>6, <2>2
    <3>2. cs[k].running
      BY <1>2, <3>1 DEF HeldBy
    <3> QED
      BY <3>1, <3>2 DEF ListsIn
  <2> QED
    BY <1>7, <2>1, <2>2
<1>9. AllRun(ds)
  BY <1>6, <1>8 DEF AllRun
<1>10. Kept(t, ListsIn(t, ds), n)
  <2>1. Kept(s, ListsIn(s, cs), n)
    BY <1>2 DEF HeldBy
  <2>2. Kept(t, ListsIn(s, cs), n)
    BY <1>4, <2>1 DEF Kept
  <2> QED
    BY <1>8, <2>2, KeptSame
<1>11. HeldBy(t, ds)
  <2>1. \A k \in 1 .. Len(ds) : ds[k].running
    BY <1>6, <1>8
  <2> QED
    BY <1>4, <1>6, <1>9, <1>10, <2>1 DEF HeldBy
<1>12. Held'
  BY <1>1, <1>5, <1>11 DEF Held
<1>13. UserView' = ViewOf(t) /\ Scopes' = ScopesIn(t, ds)
  BY <1>1, <1>5, <1>12, SeenNext
<1>14. UserView = ViewOf(s) /\ Scopes = ScopesIn(s, cs)
  BY <1>1, Seen
<1>15. ViewOf(t) = ViewOf(s)
  BY <1>4 DEF ViewOf
<1>16. ScopesIn(t, ds) = ScopesIn(s, cs)
  BY <1>2, <1>4, <1>6, <1>8 DEF ScopesIn
<1> QED
  BY <1>12, <1>13, <1>14, <1>15, <1>16

\* The body of a group begins.
LEMMA EnterGroupHolds ==
  ASSUME Held, Winding, EnterGroup
  PROVE  Held' /\ UserView' = UserView /\ Scopes' = Scopes
<1>1. Winding'
  BY EnterGroupWinds
<1>2. /\ Redirecting /\ ProperCall(Top) /\ Top.kind = "group"
      /\ Becomes(dispose_exec_redirects([Shell EXCEPT !.undo = <<>>]))
  BY TopRedirects DEF EnterGroup
<1>3. PICK mine, exec : mine = redirection_undo_list /\ exec = exec_redirection_undo_list
  OBVIOUS
<1>4. PICK c : c = [Top EXCEPT !.running = TRUE, !.my_undo_list = mine, !.exec_undo_list = exec]
  OBVIOUS
<1>5. IsBody(c, Top, mine, exec)
  BY <1>4, Zenon DEF IsBody
<1>6. c.kind = Top.kind /\ c.running /\ c.my_undo_list = mine
  BY <1>2, <1>5, Begun
<1>7. calls' = WithTop(c)
  BY <1>3, <1>4 DEF EnterGroup
<1> QED
  BY <1>1, <1>2, <1>3, <1>6, <1>7, BodyBegins

\* The body of a builtin or function begins.
LEMMA EnterBuiltinOrFunctionHolds ==
  ASSUME Held, Winding, EnterBuiltinOrFunction
  PROVE  Held' /\ UserView' = UserView /\ Scopes' = Scopes
<1>1. Winding'
  BY EnterBuiltinOrFunctionWinds
<1>2. /\ Redirecting /\ ProperCall(Top) /\ Top.kind \in {"function", "builtin"}
      /\ Becomes(dispose_exec_redirects([Shell EXCEPT !.undo = <<>>]))
  BY TopRedirects DEF EnterBuiltinOrFunction
<1>3. PICK mine, exec : mine = redirection_undo_list /\ exec = Top.exec_undo_list
  OBVIOUS
<1>4. PICK c : c = [Top EXCEPT !.running = TRUE, !.my_undo_list = mine]
  OBVIOUS
<1>5. IsBody(c, Top, mine, exec)
  BY <1>3, <1>4, Zenon DEF IsBody
<1>6. c.kind = Top.kind /\ c.running /\ c.my_undo_list = mine
  BY <1>2, <1>5, Begun
<1>7. calls' = WithTop(c)
  BY <1>3, <1>4 DEF EnterBuiltinOrFunction
<1> QED
  BY <1>1, <1>2, <1>3, <1>6, <1>7, BodyBegins

----------------------------------------------------------------------------
(* The ends, each shown to bring back what the lists above the first m hold. *)

\* Only the lists of those above the first m were undone, and all that is not
\* empty of them.
LEMMA IsBackBy ==
  ASSUME NEW s, NEW lists, NEW n, Kept(s, lists, n), NEW t \in Machine, NEW m \in 0 .. n,
         NEW K, K \subseteq m + 1 .. n, \A k \in (m + 1 .. n) \ K : lists[k] = <<>>,
         t.fds = Rewound(s, lists, K).fds, t.cloexec = Rewound(s, lists, K).cloexec
  PROVE  IsBack(t, s, lists, m, n)
<1>1. Targets(<<>>) = {}
  BY DEF Targets
<1>2. PICK M : M = m + 1 .. n
  OBVIOUS
<1>3. K \subseteq M /\ \A k \in M \ K : Targets(lists[k]) = {}
  BY <1>1, <1>2
<1>4. Rewound(s, lists, K) = Rewound(s, lists, M)
  BY <1>3, RewoundMore
<1> QED
  BY <1>2, <1>4 DEF IsBack

\* A trap handler returns.
LEMMA EndTrapHolds ==
  ASSUME Held, Winding, EndTrap
  PROVE  Held' /\ Promise!Next
<1>1. Winding'
  BY EndTrapWinds
<1>2. calls # <<>> /\ ProperCall(Top) /\ Top.kind = "handler" /\ calls' = Popped /\ UNCHANGED tables
  BY TopCall DEF EndTrap, Winding
<1>3. PICK s, n, lists : s = Shell /\ n = Len(calls) /\ lists = ListsIn(s, calls)
  OBVIOUS
<1>4. Running
  BY <1>2 DEF Running, ProperCall
<1>5. s \in Machine /\ HeldBy(s, calls) /\ AllRun(calls) /\ n \in Nat /\ s.undo = <<>>
  BY <1>3, <1>4, HeldParts
<1>6. n >= 1 /\ Top = calls[n] /\ Prefix(calls', calls, n - 1)
  <2>1. PICK height : Stacked(unwind_protect_list, calls, height)
    BY DEF Winding
  <2> QED
    BY <1>2, <1>3, <2>1, TopCall
<1>7. lists[n] = <<>>
  <2>1. n \in 1 .. n /\ Top.running /\ Top.my_undo_list = <<>>
    BY <1>2, <1>4, <1>5, <1>6 DEF Running, ProperCall
  <2> QED
    BY <1>3, <1>6, <2>1 DEF ListsIn
<1>8. IsBack(s, s, lists, n - 1, n)
  <2>1. Rewound(s, lists, {}) = s
    BY <1>5, RewoundNone
  <2>2. Kept(s, lists, n)
    BY <1>3, <1>5 DEF HeldBy
  <2>3. /\ n - 1 \in 0 .. n /\ {} \subseteq n - 1 + 1 .. n
        /\ \A k \in (n - 1 + 1 .. n) \ {} : lists[k] = <<>>
    BY <1>5, <1>6, <1>7
  <2> QED
    BY <1>5, <2>1, <2>2, <2>3, IsBackBy
<1>9. Becomes(s) /\ n - 1 < n
  BY <1>2, <1>3, <1>5 DEF Becomes, Shell, tables
<1> QED
  BY <1>1, <1>3, <1>5, <1>6, <1>8, <1>9, EndsWell

\* The innermost list is the first to be undone.
LEMMA FirstUndone ==
  ASSUME NEW s, NEW lists, NEW n, Kept(s, lists, n), n \in 1 .. n
  PROVE  /\ cleanup_redirects(s, lists[n]) = Rewound(s, lists, {n})
         /\ Rewound(s, lists, {n}) \in Machine
         /\ Rewound(s, lists, {n}).undo = s.undo
<1>1. Sound(s, lists, n) /\ s \in Machine /\ n \in Nat
  BY KeptSound DEF Kept
<1>2. NextOut({}, n, {n}, n)
  BY DEF NextOut
<1>3. Rewound(s, lists, {}) = s
  BY <1>1, RewoundNone
<1>4. cleanup_redirects(Rewound(s, lists, {}), lists[n]) = Rewound(s, lists, {n})
  BY <1>1, <1>2, RewoundStep
<1>5. Rewound(s, lists, {n}) \in Machine
  <2>1. {n} \subseteq 1 .. n
    OBVIOUS
  <2> QED
    BY <1>1, <2>1, RewoundType
<1>6. Rewound(s, lists, {n}).undo = s.undo
  BY DEF Rewound
<1> QED
  BY <1>3, <1>4, <1>5, <1>6

\* A group ends.
LEMMA LeaveGroupHolds ==
  ASSUME Held, Winding, LeaveGroup
  PROVE  Held' /\ Promise!Next
<1>1. Winding'
  BY LeaveGroupWinds
<1>2. /\ calls # <<>> /\ Top.running /\ calls' = Popped
      /\ Becomes(cleanup_redirects(Shell, Top.my_undo_list))
  BY DEF LeaveGroup
<1>3. PICK s, n, lists : s = Shell /\ n = Len(calls) /\ lists = ListsIn(s, calls)
  OBVIOUS
<1>4. Running
  BY <1>2 DEF Running
<1>5. s \in Machine /\ HeldBy(s, calls) /\ AllRun(calls) /\ n \in Nat /\ s.undo = <<>>
  BY <1>3, <1>4, HeldParts
<1>6. n >= 1 /\ Top = calls[n] /\ Prefix(calls', calls, n - 1)
  <2>1. PICK height : Stacked(unwind_protect_list, calls, height)
    BY DEF Winding
  <2> QED
    BY <1>2, <1>3, <2>1, TopCall
<1>7. n \in 1 .. n /\ lists[n] = Top.my_undo_list
  <2>1. n \in 1 .. n
    BY <1>5, <1>6
  <2> QED
    BY <1>2, <1>3, <1>6, <2>1 DEF ListsIn
<1>8. Kept(s, lists, n)
  BY <1>3, <1>5 DEF HeldBy
<1>9. PICK t : t = cleanup_redirects(s, lists[n])
  OBVIOUS
<1>10. t = Rewound(s, lists, {n}) /\ t \in Machine /\ t.undo = <<>>
  <2>1. /\ cleanup_redirects(s, lists[n]) = Rewound(s, lists, {n})
        /\ Rewound(s, lists, {n}) \in Machine
        /\ Rewound(s, lists, {n}).undo = s.undo
    BY <1>7, <1>8, FirstUndone
  <2> QED
    BY <1>5, <1>9, <2>1
<1>11. IsBack(t, s, lists, n - 1, n)
  <2>1. /\ n - 1 \in 0 .. n /\ {n} \subseteq n - 1 + 1 .. n
        /\ \A k \in (n - 1 + 1 .. n) \ {n} : lists[k] = <<>>
    BY <1>5, <1>6
  <2> QED
    BY <1>8, <1>10, <2>1, IsBackBy
<1>12. Becomes(t) /\ n - 1 < n
  BY <1>2, <1>3, <1>5, <1>7, <1>9
<1> QED
  BY <1>1, <1>3, <1>6, <1>10, <1>11, <1>12, EndsWell

----------------------------------------------------------------------------
\* Running the unwind-protect list down to where L elements are left: those of
\* the commands in progress whose cleanups stand above are undone.
LEMMA RunsTo ==
  ASSUME NEW height, Stacked(unwind_protect_list, calls, height),
         NEW s, NEW lists, Kept(s, lists, Len(calls)), Owns(lists, calls),
         NEW K, Within(K, calls), NEW d \in 0 .. Len(unwind_protect_list),
         NEW L, L = Len(unwind_protect_list) - d
  PROVE  RunElements(Rewound(s, lists, K), d) = Rewound(s, lists, K \cup Over(height, calls, L))
<1>1. Sound(s, lists, Len(calls))
  BY KeptSound
<1>2. PICK M : M = K \cup Over(height, calls, L)
  OBVIOUS
<1> QED
  BY <1>1, <1>2, RunsDown

\* The list of a command that has begun its body is its own.
LEMMA OwnLists ==
  ASSUME Held, Winding
  PROVE  /\ Owns(ListsIn(Shell, calls), calls)
         /\ \A k \in 1 .. Len(calls) : calls[k].running =>
              ListsIn(Shell, calls)[k] = calls[k].my_undo_list
         /\ \A k \in 1 .. Len(calls) : k \in Owing(calls) => calls[k].running
<1>1. NoneYet(calls)
  BY WindingCalls DEF Winding
<1>2. \A k \in 1 .. Len(calls) : calls[k].running =>
              ListsIn(Shell, calls)[k] = calls[k].my_undo_list
  BY DEF ListsIn
<1>3. \A k \in 1 .. Len(calls) : k \in Owing(calls) => calls[k].running
  BY <1>1 DEF NoneYet, Owing
<1>4. Owns(ListsIn(Shell, calls), calls)
  BY <1>2, <1>3 DEF Owns, Owing
<1> QED
  BY <1>2, <1>3, <1>4

\* redirection_undo_list is only carried along.
LEMMA RewoundPut ==
  ASSUME NEW s \in Machine, NEW list \in Seq(Entries), NEW lists, NEW n, Kept(s, lists, n)
  PROVE  /\ Kept(PutUndo(s, list), lists, n)
         /\ \A K : Rewound(PutUndo(s, list), lists, K) = PutUndo(Rewound(s, lists, K), list)
         /\ \A K : Rewound(s, lists, K).undo = s.undo
<1>1. PICK t : t = PutUndo(s, list)
  OBVIOUS
<1>2. /\ t \in Machine /\ t.fds = s.fds /\ t.cloexec = s.cloexec /\ t.undo = list
      /\ t.execUndo = s.execUndo /\ t.var = s.var
  BY <1>1, WithUndo
<1>3. Kept(t, lists, n)
  BY <1>2 DEF Kept
<1>4. ASSUME NEW K
      PROVE  Rewound(t, lists, K) = PutUndo(Rewound(s, lists, K), list)
  <2>1. PICK f, c : /\ f = [fd \in Fds |-> IF Hit(lists, K, fd) = {} THEN s.fds[fd]
                                         ELSE Later(lists[Min(Hit(lists, K, fd))], s.fds, fd)]
                    /\ c = s.cloexec \ UNION {Targets(lists[k]) : k \in K}
    OBVIOUS
  <2>2. Rewound(s, lists, K) = [fds |-> f, cloexec |-> c, undo |-> s.undo,
                                execUndo |-> s.execUndo, var |-> s.var]
    BY <2>1 DEF Rewound
  <2>3. Rewound(t, lists, K) = [fds |-> f, cloexec |-> c, undo |-> list,
                                execUndo |-> s.execUndo, var |-> s.var]
    BY <1>2, <2>1 DEF Rewound
  <2> QED
    BY <2>2, <2>3 DEF PutUndo
<1>5. \A K : Rewound(s, lists, K).undo = s.undo
  BY DEF Rewound
<1> QED
  BY <1>1, <1>3, <1>4, <1>5

\* A list is put back only where it is not empty.
LEMMA NoneLeft ==
  ASSUME NEW s, NEW list, s \in Machine, s.undo = <<>>
  PROVE  (IF list = <<>> THEN s ELSE [s EXCEPT !.undo = list]) = PutUndo(s, list)
<1>1. CASE list = <<>>
  BY <1>1 DEF PutUndo, Machine
<1>2. CASE list # <<>>
  BY <1>2 DEF PutUndo
<1> QED
  BY <1>1, <1>2

\* undo_partial_redirects() after the lists of K were undone.
LEMMA PartialUndone ==
  ASSUME NEW s, NEW lists, NEW n, Kept(s, lists, n), NEW K, NEW k, NEW M, NextOut(K, k, M, n),
         NEW t, t = undo_partial_redirects(PutUndo(Rewound(s, lists, K), lists[k]))
  PROVE  /\ t \in Machine /\ t.undo = <<>>
         /\ t.fds = Rewound(s, lists, M).fds /\ t.cloexec = Rewound(s, lists, M).cloexec
<1>1. PICK list : list = lists[k]
  OBVIOUS
<1>2. s \in Machine /\ list \in Seq(Entries) /\ M \subseteq 1 .. n /\ n \in Nat
  <2>1. k \in 1 .. n /\ M \subseteq 1 .. n
    BY DEF NextOut
  <2>2. UndoList(list)
    BY <1>1, <2>1 DEF Kept
  <2> QED
    BY <2>1, <2>2 DEF Kept, UndoList
<1>3. PICK r : r = PutUndo(s, list)
  OBVIOUS
<1>4. Kept(r, lists, n) /\ \A J : Rewound(r, lists, J) = PutUndo(Rewound(s, lists, J), list)
  BY <1>2, <1>3, RewoundPut
<1>5. Sound(r, lists, n) /\ r \in Machine /\ r.undo = list
  BY <1>2, <1>3, <1>4, KeptSound, WithUndo
<1>6. PICK w : w = PutUndo(Rewound(s, lists, K), list)
  OBVIOUS
<1>7. w = Rewound(r, lists, K) /\ w.undo = list
  <2>1. w = Rewound(r, lists, K)
    BY <1>4, <1>6
  <2> QED
    BY <1>5, <2>1 DEF Rewound
<1>8. PICK x : x = Rewound(r, lists, M)
  OBVIOUS
<1>9. cleanup_redirects(w, list) = x
  BY <1>1, <1>5, <1>7, <1>8, RewoundStep
<1>10. x \in Machine
  BY <1>2, <1>5, <1>8, RewoundType
<1>11. PICK none : none = <<>>
  OBVIOUS
<1>12. none \in Seq(Entries) /\ t = PutUndo(x, none)
  BY <1>1, <1>6, <1>7, <1>9, <1>11 DEF undo_partial_redirects, PutUndo
<1>13. t \in Machine /\ t.fds = x.fds /\ t.cloexec = x.cloexec /\ t.undo = none
  BY <1>10, <1>12, WithUndo
<1>14. PICK y : y = Rewound(s, lists, M)
  OBVIOUS
<1>15. x.fds = y.fds /\ x.cloexec = y.cloexec
  <2>1. r.fds = s.fds /\ r.cloexec = s.cloexec
    BY <1>2, <1>3, WithUndo
  <2> QED
    BY <1>8, <1>14, <2>1 DEF Rewound
<1> QED
  BY <1>11, <1>13, <1>14, <1>15

\* A builtin or function ends and its cleanups run.
LEMMA FinishHolds ==
  ASSUME Held, Winding, Winding', Running, NEW i \in DOMAIN calls, FinishBuiltinOrFunction(i),
         \/ /\ calls[i].kind = "function"
            /\ \A k \in i + 1 .. Len(calls) : calls[k].kind # "function"
         \/ calls[i].kind = "builtin" /\ i = Len(calls)
  PROVE  Held' /\ Promise!Next
<1>1. PICK height : Stacked(unwind_protect_list, calls, height)
  BY DEF Winding
<1>2. PICK s, n, u, lists, mine, frame :
        /\ s = Shell /\ n = Len(calls) /\ u = unwind_protect_list /\ lists = ListsIn(s, calls)
        /\ mine = calls[i].my_undo_list
        /\ frame = IF calls[i].kind = "function" THEN "function_calling"
                   ELSE "parse_and_execute_top"
  OBVIOUS
<1>3. /\ s \in Machine /\ HeldBy(s, calls) /\ AllRun(calls) /\ n \in Nat /\ s.undo = <<>>
      /\ IsSeq(calls) /\ DOMAIN calls = 1 .. n
  BY <1>2, HeldParts
<1>4. i \in 1 .. n /\ i \in Nat /\ calls[i].running /\ Kept(s, lists, n)
  <2>1. i \in 1 .. n /\ Kept(s, lists, n)
    BY <1>2, <1>3 DEF HeldBy
  <2> QED
    BY <1>2, <1>3, <2>1 DEF AllRun
<1>5. /\ Owns(lists, calls) /\ \A k \in 1 .. n : lists[k] = calls[k].my_undo_list
  <2>1. \A k \in 1 .. n : calls[k].running
    BY <1>2, <1>3 DEF AllRun
  <2> QED
    BY <1>2, <2>1, OwnLists
<1>6. PICK L \in Nat :
        /\ Below(discard_unwind_frame(u, frame), u, L)
        /\ height[i - 1] + 1 <= L /\ L <= height[i]
        /\ mine # <<>> => height[i - 1] + CleanupAt(calls[i]) <= L
  BY <1>1, <1>2, <1>4, FinishFrame
<1>7. PICK d : d = Depth(u, frame)
  OBVIOUS
<1>8. d \in 0 .. Len(u) /\ Len(u) - d = L /\ IsSeq(u)
  <2>1. IsSeq(u)
    BY <1>1, <1>2 DEF Stacked
  <2> QED
    BY <1>6, <1>7, <2>1, DepthIs
<1>9. PICK O : O = Over(height, calls, L)
  OBVIOUS
<1>10. O = {k \in Owing(calls) : k > i}
  <2>1. \A k \in Owing(calls) : k = i => CleanupHeight(height, calls, k) <= L
    <3> SUFFICES ASSUME i \in Owing(calls)
                 PROVE  CleanupHeight(height, calls, i) <= L
      OBVIOUS
    <3>1. mine # <<>>
      BY <1>2 DEF Owing
    <3> QED
      BY <1>2, <1>6, <3>1 DEF CleanupHeight
  <2>2. height[i - 1] <= L /\ L <= height[i]
    <3>1. height[i - 1] \in Nat
      <4>1. i - 1 \in 0 .. n
        BY <1>3, <1>4
      <4> QED
        BY <1>1, <1>2, <4>1, Numbers
    <3> QED
      BY <1>6, <3>1
  <2> QED
    BY <1>1, <1>2, <1>4, <1>6, <1>9, <2>1, <2>2, AllOver
<1>11. O \subseteq i + 1 .. n /\ \A k \in i + 1 .. n : k \notin O => lists[k] = <<>>
  <2>1. Owing(calls) \subseteq 1 .. n
    BY <1>2 DEF Owing
  <2>2. O \subseteq i + 1 .. n
    BY <1>4, <1>10, <2>1
  <2>3. ASSUME NEW k \in i + 1 .. n, k \notin O
        PROVE  lists[k] = <<>>
    <3>1. k \in 1 .. n /\ k > i
      BY <1>4
    <3>2. k \notin Owing(calls)
      BY <1>10, <2>3, <3>1
    <3> QED
      BY <1>2, <1>5, <3>1, <3>2 DEF Owing
  <2> QED
    BY <2>2, <2>3
<1>12. PICK none : none = {}
  OBVIOUS
<1>13. Within(none, calls) /\ none \cup O = O /\ Rewound(s, lists, none) = s
  <2>1. Rewound(s, lists, {}) = s
    BY <1>3, RewoundNone
  <2> QED
    BY <1>12, <2>1 DEF Within
<1>14. PICK unwound : unwound = run_unwind_frame(s, frame)
  OBVIOUS
<1>15. unwound = Rewound(s, lists, O)
  <2>1. RunElements(Rewound(s, lists, none), d)
          = Rewound(s, lists, none \cup Over(height, calls, L))
    BY <1>1, <1>2, <1>4, <1>5, <1>8, <1>13, RunsTo
  <2> QED
    BY <1>2, <1>7, <1>9, <1>13, <1>14, <2>1 DEF run_unwind_frame
<1>16. PICK M : M = O \cup {i}
  OBVIOUS
<1>17. NextOut(O, i, M, n)
  <2>1. \A k \in O : i < k
    BY <1>10
  <2>2. O \subseteq 1 .. n
    BY <1>4, <1>11
  <2> QED
    BY <1>4, <1>16, <2>1, <2>2 DEF NextOut
<1>18. unwound \in Machine /\ unwound.undo = <<>>
  <2>1. O \subseteq 1 .. n
    BY <1>17 DEF NextOut
  <2>2. unwound \in Machine
    BY <1>4, <1>15, <2>1, KeptSound, RewoundType
  <2> QED
    BY <1>3, <1>15, <2>2 DEF Rewound
<1>19. PICK w : w = IF mine = <<>> THEN unwound ELSE [unwound EXCEPT !.undo = mine]
  OBVIOUS
<1>20. w = PutUndo(unwound, mine)
  BY <1>18, <1>19, NoneLeft
<1>21. PICK t : t = undo_partial_redirects(w)
  OBVIOUS
<1>22. /\ t \in Machine /\ t.undo = <<>>
       /\ t.fds = Rewound(s, lists, M).fds /\ t.cloexec = Rewound(s, lists, M).cloexec
  <2>1. t = undo_partial_redirects(PutUndo(Rewound(s, lists, O), lists[i]))
    BY <1>2, <1>4, <1>5, <1>15, <1>20, <1>21
  <2> QED
    BY <1>4, <1>17, <2>1, PartialUndone
<1>23. Becomes(t) /\ calls' = SubSeq(calls, 1, i - 1)
  BY <1>2, <1>14, <1>19, <1>21 DEF FinishBuiltinOrFunction
<1>24. PICK m : m = i - 1
  OBVIOUS
<1>25. m \in 0 .. n /\ m < n /\ Prefix(calls', calls, m)
  <2>1. m \in 0 .. n /\ m < n
    BY <1>3, <1>4, <1>24
  <2> QED
    BY <1>2, <1>3, <1>23, <1>24, <2>1, CallLists
<1>26. IsBack(t, s, lists, m, n)
  <2>1. m + 1 = i
    BY <1>4, <1>24
  <2>2. M \subseteq i .. n
    <3>1. i \in i .. n /\ \A k \in i + 1 .. n : k \in i .. n
      BY <1>3, <1>4
    <3>2. O \subseteq i + 1 .. n
      BY <1>11
    <3> QED
      BY <1>16, <3>1, <3>2
  <2>3. ASSUME NEW k \in (i .. n) \ M
        PROVE  lists[k] = <<>>
    <3>1. k \in i + 1 .. n /\ k \notin O
      BY <1>4, <1>16
    <3> QED
      BY <1>11, <3>1
  <2> QED
    BY <1>4, <1>22, <1>25, <2>1, <2>2, <2>3, IsBackBy
<1> QED
  BY <1>2, <1>22, <1>23, <1>25, <1>26, EndsWell

\* A builtin or function ends by itself.
LEMMA LeaveBuiltinOrFunctionHolds ==
  ASSUME Held, Winding, LeaveBuiltinOrFunction
  PROVE  Held' /\ Promise!Next
<1>1. Winding'
  BY LeaveBuiltinOrFunctionWinds
<1>2. PICK i : i = Len(calls)
  OBVIOUS
<1>3. /\ calls # <<>> /\ Top.running /\ Top.kind \in {"function", "builtin"}
      /\ FinishBuiltinOrFunction(i)
  BY <1>2 DEF LeaveBuiltinOrFunction
<1>4. Running
  BY <1>3 DEF Running
<1>5. i \in Nat /\ DOMAIN calls = 1 .. i
  BY <1>2, HeldParts
<1>6. i \in DOMAIN calls /\ Top = calls[i]
  <2>1. PICK height : Stacked(unwind_protect_list, calls, height)
    BY DEF Winding
  <2>2. i >= 1 /\ Top = calls[i]
    BY <1>2, <1>3, <2>1, TopCall
  <2> QED
    BY <1>5, <2>2
<1>7. \A k \in i + 1 .. Len(calls) : FALSE
  BY <1>2, <1>5
<1> QED
  BY <1>1, <1>2, <1>3, <1>4, <1>6, <1>7, FinishHolds

\* A return ends the innermost function.
LEMMA ReturnHolds ==
  ASSUME Held, Winding, Return
  PROVE  Held' /\ Promise!Next
<1>1. Winding'
  BY ReturnWinds
<1>2. Running
  BY DEF Return
<1>3. PICK i \in DOMAIN calls :
        /\ calls[i].kind = "function"
        /\ \A k \in i + 1 .. Len(calls) : calls[k].kind \notin {"function", "handler"}
        /\ FinishBuiltinOrFunction(i)
  BY DEF Return
<1>4. \A k \in i + 1 .. Len(calls) : calls[k].kind # "function"
  BY <1>3
<1> QED
  BY <1>1, <1>2, <1>3, <1>4, FinishHolds

\* All that is in progress is over.
LEMMA InterruptHolds ==
  ASSUME Quiet, Held, Winding, Interrupt
  PROVE  Held' /\ Promise!Next
<1>1. /\ calls # <<>> /\ (\A i \in DOMAIN calls : calls[i].running)
      /\ calls' = <<>> /\ unwind_protect_list' = <<>>
      /\ Becomes(run_unwind_protects(Shell))
  BY DEF Interrupt, Unwind, Quiet
<1>2. Winding'
  BY <1>1, NothingLeft
<1>3. PICK s, n, u, lists :
        s = Shell /\ n = Len(calls) /\ u = unwind_protect_list /\ lists = ListsIn(s, calls)
  OBVIOUS
<1>4. /\ s \in Machine /\ HeldBy(s, calls) /\ n \in Nat /\ IsSeq(calls) /\ DOMAIN calls = 1 .. n
      /\ Kept(s, lists, n)
  <2>1. s \in Machine /\ HeldBy(s, calls) /\ n \in Nat /\ IsSeq(calls) /\ DOMAIN calls = 1 .. n
    BY <1>3, HeldParts
  <2>2. Kept(s, lists, n)
    BY <1>3, <2>1 DEF HeldBy
  <2> QED
    BY <2>1, <2>2
<1>5. s.undo = <<>>
  <2>1. AllRun(calls)
    BY <1>1, <1>3, <1>4 DEF AllRun
  <2> QED
    BY <1>4, <2>1 DEF HeldBy
<1>6. Owns(lists, calls) /\ \A k \in 1 .. n : lists[k] = calls[k].my_undo_list
  BY <1>1, <1>3, <1>4, OwnLists
<1>7. PICK height : Stacked(unwind_protect_list, calls, height)
  BY DEF Winding
<1>8. PICK d : d = Len(u)
  OBVIOUS
<1>9. d \in 0 .. Len(u) /\ Len(u) - d = 0
  <2>1. Len(u) \in Nat
    BY <1>3, <1>7, Numbers
  <2> QED
    BY <1>8, <2>1
<1>10. PICK O, none : O = Over(height, calls, 0) /\ none = {}
  OBVIOUS
<1>11. O = Owing(calls)
  BY <1>7, <1>10, AllOver
<1>12. Within(none, calls) /\ none \cup O = O /\ Rewound(s, lists, none) = s
  <2>1. Rewound(s, lists, {}) = s
    BY <1>4, RewoundNone
  <2> QED
    BY <1>10, <2>1 DEF Within
<1>13. PICK t : t = run_unwind_protects(s)
  OBVIOUS
<1>14. t = Rewound(s, lists, O)
  <2>1. RunElements(Rewound(s, lists, none), d)
          = Rewound(s, lists, none \cup Over(height, calls, 0))
    BY <1>3, <1>4, <1>6, <1>7, <1>9, <1>12, RunsTo
  <2> QED
    BY <1>3, <1>8, <1>10, <1>12, <1>13, <2>1 DEF run_unwind_protects
<1>15. O \subseteq 1 .. n /\ \A k \in (1 .. n) \ O : lists[k] = <<>>
  BY <1>3, <1>6, <1>11 DEF Owing
<1>16. t \in Machine /\ t.undo = <<>>
  <2>1. t \in Machine
    BY <1>4, <1>14, <1>15, KeptSound, RewoundType
  <2> QED
    BY <1>5, <1>14, <2>1 DEF Rewound
<1>17. PICK m : m = 0
  OBVIOUS
<1>18. m \in 0 .. n /\ m + 1 = 1 /\ m < n
  <2>1. n # 0
    BY <1>1, <1>3, <1>4
  <2> QED
    BY <1>4, <1>17, <2>1
<1>19. IsBack(t, s, lists, m, n)
  <2>1. O \subseteq m + 1 .. n /\ \A k \in (m + 1 .. n) \ O : lists[k] = <<>>
    BY <1>15, <1>18
  <2> QED
    BY <1>4, <1>14, <1>16, <1>18, <2>1, IsBackBy
<1>20. Prefix(calls', calls, m)
  <2>1. IsSeq(<<>>) /\ Len(<<>>) = 0
    BY DEF IsSeq
  <2> QED
    BY <1>1, <1>3, <1>17, <1>18, <2>1 DEF Prefix
<1> QED
  BY <1>1, <1>2, <1>3, <1>13, <1>16, <1>18, <1>19, <1>20, EndsWell

\* An error in an expansion: first the list being built, then those of the
\* commands above the first m, of which the unwind-protect list is run down to d.
RunsPast(height, cs, L, m) == Over(height, cs, L) = {k \in Owing(cs) : k > m}

\* An error in a redirection unwinds down to some command.
LEMMA ErrorHolds ==
  ASSUME Held, Winding, Winding', Redirecting,
         NEW height, Stacked(unwind_protect_list, calls, height),
         NEW m \in 0 .. Len(calls), m < Len(calls), Prefix(calls', calls, m),
         NEW d \in 0 .. Len(unwind_protect_list),
         NEW L, L = Len(unwind_protect_list) - d, RunsPast(height, calls, L, m),
         Becomes(RunElements(undo_partial_redirects(Shell), d))
  PROVE  Held' /\ Promise!Next
<1>1. PICK s, n, lists : s = Shell /\ n = Len(calls) /\ lists = ListsIn(s, calls)
  OBVIOUS
<1>2. /\ s \in Machine /\ n \in Nat /\ IsSeq(calls) /\ DOMAIN calls = 1 .. n
      /\ s.undo = redirection_undo_list /\ n \in 1 .. n /\ lists[n] = redirection_undo_list
      /\ calls[n].my_undo_list = <<>> /\ HeldBy(s, calls)
  BY <1>1, HeldParts
<1>3. Kept(s, lists, n) /\ \A k \in 1 .. n : k < n => calls[k].running
  BY <1>1, <1>2 DEF HeldBy
<1>4. /\ Owns(lists, calls)
      /\ \A k \in 1 .. n : calls[k].running => lists[k] = calls[k].my_undo_list
  BY <1>1, OwnLists
<1>5. PICK none, mine : none = <<>> /\ mine = {n}
  OBVIOUS
<1>6. none \in Seq(Entries)
  BY <1>5
<1>7. PICK x : x = Rewound(s, lists, mine)
  OBVIOUS
<1>8. cleanup_redirects(s, lists[n]) = x /\ x \in Machine
  <2>1. /\ cleanup_redirects(s, lists[n]) = Rewound(s, lists, {n})
        /\ Rewound(s, lists, {n}) \in Machine
    BY <1>2, <1>3, FirstUndone
  <2> QED
    BY <1>5, <1>7, <2>1
<1>9. PICK undone : undone = undo_partial_redirects(s)
  OBVIOUS
<1>10. undone = PutUndo(x, none)
  BY <1>2, <1>5, <1>8, <1>9 DEF undo_partial_redirects, PutUndo
<1>11. PICK r : r = PutUndo(s, none)
  OBVIOUS
<1>12. /\ Kept(r, lists, n) /\ r \in Machine /\ r.undo = none
       /\ \A K : Rewound(r, lists, K) = PutUndo(Rewound(s, lists, K), none)
  BY <1>2, <1>3, <1>6, <1>11, RewoundPut, WithUndo
<1>13. undone = Rewound(r, lists, mine)
  BY <1>7, <1>10, <1>12
<1>14. Within(mine, calls)
  <2>1. ASSUME NEW k \in Owing(calls)
        PROVE  k < n
    <3>1. k \in 1 .. n /\ k # n
      BY <1>1, <1>2 DEF Owing
    <3> QED
      BY <1>2, <3>1
  <2> QED
    BY <1>1, <1>2, <1>5, <2>1 DEF Within
<1>15. PICK O, M : O = Over(height, calls, L) /\ M = mine \cup O
  OBVIOUS
<1>16. PICK t : t = RunElements(undone, d)
  OBVIOUS
<1>17. t = Rewound(r, lists, M)
  <2>1. RunElements(Rewound(r, lists, mine), d)
          = Rewound(r, lists, mine \cup Over(height, calls, L))
    BY <1>1, <1>4, <1>12, <1>14, RunsTo
  <2> QED
    BY <1>13, <1>15, <1>16, <2>1
<1>18. M \subseteq m + 1 .. n /\ \A k \in (m + 1 .. n) \ M : lists[k] = <<>>
  <2>1. O = {k \in Owing(calls) : k > m}
    BY <1>15 DEF RunsPast
  <2>2. Owing(calls) \subseteq 1 .. n
    BY <1>1 DEF Owing
  <2>3. m \in Nat /\ m < n
    BY <1>1, <1>2
  <2>4. ASSUME NEW k \in M
        PROVE  k \in m + 1 .. n
    <3>1. k = n \/ (k \in 1 .. n /\ k > m)
      BY <1>5, <1>15, <2>1, <2>2
    <3> QED
      BY <1>2, <2>3, <3>1
  <2>5. ASSUME NEW k \in (m + 1 .. n) \ M
        PROVE  lists[k] = <<>>
    <3>1. k \in 1 .. n /\ k > m /\ k # n
      BY <1>2, <1>5, <1>15, <2>3
    <3>2. k \notin Owing(calls)
      BY <1>15, <2>1, <3>1
    <3>3. k < n
      BY <1>2, <3>1
    <3>4. calls[k].my_undo_list = <<>>
      BY <1>1, <3>1, <3>2 DEF Owing
    <3> QED
      BY <1>3, <1>4, <3>1, <3>3, <3>4
  <2> QED
    BY <2>4, <2>5
<1>19. /\ t \in Machine /\ t.undo = <<>>
       /\ t.fds = Rewound(s, lists, M).fds /\ t.cloexec = Rewound(s, lists, M).cloexec
  <2>1. PICK y : y = Rewound(s, lists, M)
    OBVIOUS
  <2>2. M \subseteq 1 .. n
    BY <1>2, <1>18
  <2>3. y \in Machine
    BY <1>3, <2>1, <2>2, KeptSound, RewoundType
  <2>4. t = PutUndo(y, none)
    BY <1>12, <1>17, <2>1
  <2> QED
    BY <1>5, <1>6, <2>1, <2>3, <2>4, WithUndo
<1>20. IsBack(t, s, lists, m, n)
  BY <1>1, <1>3, <1>18, <1>19, IsBackBy
<1>21. Becomes(t)
  BY <1>1, <1>9, <1>16
<1> QED
  BY <1>1, <1>19, <1>20, <1>21, EndsWell

\* An expansion error in a redirection.
LEMMA ExpansionErrorHolds ==
  ASSUME Held, Winding, ExpansionError
  PROVE  Held' /\ Promise!Next
<1> DEFINE strings == {i \in DOMAIN calls : calls[i].kind \in {"builtin", "handler"} /\ calls[i].running}
<1>1. Winding' /\ Redirecting
  BY ExpansionErrorWinds DEF ExpansionError
<1>2. PICK height : Stacked(unwind_protect_list, calls, height)
  BY DEF Winding
<1>3. PICK n, u : n = Len(calls) /\ u = unwind_protect_list
  OBVIOUS
<1>4. /\ n \in Nat /\ n \in 1 .. n /\ IsSeq(calls) /\ DOMAIN calls = 1 .. n
      /\ ~calls[n].running /\ Len(u) \in Nat
  <2>1. n \in Nat /\ n \in 1 .. n /\ IsSeq(calls) /\ DOMAIN calls = 1 .. n /\ ~calls[n].running
    BY <1>1, <1>3, HeldParts
  <2>2. Len(u) \in Nat
    BY <1>2, <1>3, Numbers
  <2> QED
    BY <2>1, <2>2
<1>5. CASE strings = {}
  <2>1. calls' = <<>> /\ Becomes(run_unwind_protects(undo_partial_redirects(Shell)))
    BY <1>5 DEF ExpansionError, Unwind
  <2>2. PICK d, m : d = Len(u) /\ m = 0
    OBVIOUS
  <2>3. /\ d \in 0 .. Len(u) /\ Len(u) - d = 0 /\ m \in 0 .. n /\ m < n
    BY <1>4, <2>2
  <2>4. RunsPast(height, calls, 0, m)
    <3>1. Over(height, calls, 0) = Owing(calls)
      BY <1>2, AllOver
    <3>2. \A k \in Owing(calls) : k > m
      BY <1>3, <1>4, <2>2 DEF Owing
    <3> QED
      BY <3>1, <3>2 DEF RunsPast
  <2>5. Prefix(calls', calls, m)
    <3>1. IsSeq(<<>>) /\ Len(<<>>) = 0
      BY DEF IsSeq
    <3> QED
      BY <1>3, <2>1, <2>2, <2>3, <3>1 DEF Prefix
  <2>6. Becomes(RunElements(undo_partial_redirects(Shell), d))
    BY <1>3, <2>1, <2>2 DEF run_unwind_protects
  <2> QED
    BY <1>1, <1>2, <1>3, <2>3, <2>4, <2>5, <2>6, ErrorHolds
<1>6. CASE strings # {}
  <2>1. PICK i \in strings : (\A k \in strings : k <= i) /\ calls' = SubSeq(calls, 1, i)
    BY <1>6 DEF ExpansionError
  <2>2. Becomes(run_unwind_frame(undo_partial_redirects(Shell), "pe_dispose"))
    BY <1>6 DEF ExpansionError
  <2>3. i \in 1 .. n /\ i \in Nat /\ i < n /\ i \in DOMAIN calls
    <3>1. i \in 1 .. n /\ i # n
      BY <1>4
    <3> QED
      BY <1>4, <3>1
  <2>4. \A k \in i + 1 .. Len(calls) : ~(calls[k].kind \in {"builtin", "handler"} /\ calls[k].running)
    <3>1. \A k \in i + 1 .. Len(calls) : k \in DOMAIN calls /\ ~(k <= i)
      BY <1>3, <1>4, <2>3
    <3> QED
      BY <2>1, <3>1
  <2>5. PICK L \in Nat :
          /\ Below(discard_unwind_frame(u, "pe_dispose"), u, L)
          /\ L + 1 = height[i] /\ height[i - 1] <= L
          /\ calls[i].my_undo_list # <<>> => height[i - 1] + CleanupAt(calls[i]) <= L
    BY <1>2, <1>3, <2>3, <2>4, ErrorFrame
  <2>6. PICK d : d = Depth(u, "pe_dispose")
    OBVIOUS
  <2>7. d \in 0 .. Len(u) /\ Len(u) - d = L
    <3>1. IsSeq(u)
      BY <1>2, <1>3 DEF Stacked
    <3> QED
      BY <2>5, <2>6, <3>1, DepthIs
  <2>8. RunsPast(height, calls, L, i)
    <3>1. \A k \in Owing(calls) : k = i => CleanupHeight(height, calls, k) <= L
      BY <2>5 DEF Owing, CleanupHeight
    <3>2. L <= height[i]
      BY <2>5
    <3>3. Over(height, calls, L) = {k \in Owing(calls) : k > i}
      BY <1>2, <1>3, <2>3, <2>5, <3>1, <3>2, AllOver
    <3> QED
      BY <3>3 DEF RunsPast
  <2>9. i \in 0 .. n /\ Prefix(calls', calls, i)
    <3>1. i \in 0 .. n
      BY <2>3
    <3> QED
      BY <1>3, <1>4, <2>1, <3>1, CallLists
  <2>10. Becomes(RunElements(undo_partial_redirects(Shell), d))
    BY <1>3, <2>2, <2>6 DEF run_unwind_frame
  <2> QED
    BY <1>1, <1>2, <1>3, <2>3, <2>7, <2>8, <2>9, <2>10, ErrorHolds
<1> QED
  BY <1>5, <1>6

----------------------------------------------------------------------------
(* While a command redirects.                                              *)
Outer(lists, n) == UNION {SavingFds(lists[k]) : k \in 1 .. n - 1}

\* What a redirection finds.
LEMMA Underway ==
  ASSUME Held, Winding, Redirecting,
         NEW s, s = Shell, NEW n, n = Len(calls), NEW lists, lists = ListsIn(s, calls)
  PROVE  /\ s \in Machine /\ Kept(s, lists, n) /\ n \in Nat /\ n \in 1 .. n /\ lists[n] = s.undo
         /\ Tidy(s, Outer(lists, n)) /\ ExecList(s.execUndo, s.undo) /\ Saves = s.cloexec
         /\ Going(s, s, Outer(lists, n), {})
<1>1. /\ s \in Machine /\ HeldBy(s, calls) /\ ~AllRun(calls) /\ n \in Nat /\ n \in 1 .. n
      /\ s.undo = redirection_undo_list /\ lists[n] = redirection_undo_list
  BY HeldParts
<1>2. Kept(s, lists, n) /\ ExecList(s.execUndo, s.undo)
  BY <1>1 DEF HeldBy
<1>3. Saves = s.cloexec
  <2>1. Saves = cloexec
    BY Seen
  <2> QED
    BY <2>1, HeldParts
<1>4. PICK outer : outer = Outer(lists, n)
  OBVIOUS
<1>5. \A k \in 1 .. n : k \in 1 .. n - 1 \/ k = n
  BY <1>1
<1>6. \A k \in 1 .. n - 1 : k \in 1 .. n /\ k < n
  BY <1>1
<1>7. UndoList(s.undo)
  BY <1>1, <1>2 DEF Kept
<1>8. s.cloexec = SavingFds(s.undo) \cup outer
  <2>1. s.cloexec = UNION {SavingFds(lists[k]) : k \in 1 .. n}
    BY <1>2 DEF Kept
  <2>2. ASSUME NEW fd \in s.cloexec
        PROVE  fd \in SavingFds(s.undo) \cup outer
    <3>1. PICK k \in 1 .. n : fd \in SavingFds(lists[k])
      BY <2>1
    <3>2. CASE k = n
      BY <1>1, <3>1, <3>2
    <3>3. CASE k \in 1 .. n - 1
      BY <1>4, <3>1, <3>3 DEF Outer
    <3> QED
      BY <1>5, <3>2, <3>3
  <2>3. ASSUME NEW fd \in outer
        PROVE  fd \in s.cloexec
    <3>1. PICK k \in 1 .. n - 1 : fd \in SavingFds(lists[k])
      BY <1>4 DEF Outer
    <3> QED
      BY <1>6, <2>1, <3>1
  <2>4. ASSUME NEW fd \in SavingFds(s.undo)
        PROVE  fd \in s.cloexec
    BY <1>1, <2>1
  <2> QED
    BY <2>2, <2>3, <2>4
<1>9. Targets(s.undo) \cap outer = {}
  <2>1. ASSUME NEW k \in 1 .. n - 1
        PROVE  Targets(lists[n]) \cap SavingFds(lists[k]) = {}
    BY <1>1, <1>2, <1>6 DEF Kept
  <2> QED
    BY <1>1, <1>4, <2>1 DEF Outer
<1>10. \A fd \in s.cloexec : SHELL_FD_BASE <= fd /\ s.fds[fd] # CLOSED
  BY <1>2 DEF Kept
<1>11. Tidy(s, outer)
  BY <1>1, <1>7, <1>8, <1>9, <1>10 DEF Tidy
<1>12. Going(s, s, outer, {})
  BY <1>2, <1>11 DEF Going
<1> QED
  BY <1>1, <1>2, <1>3, <1>4, <1>11, <1>12

\* Undoing the list being built gives back what was there before any of it.
LEMMA TidyUndone ==
  ASSUME NEW w, NEW outer, Tidy(w, outer)
  PROVE  /\ cleanup_redirects(w, w.undo) = Undone(w, w.undo) /\ Undone(w, w.undo) \in Machine
         /\ Undone(w, w.undo).cloexec = outer
         /\ \A fd \in Fds : Undone(w, w.undo).fds[fd] = Later(w.undo, w.fds, fd)
<1>1. /\ w \in Machine /\ UndoList(w.undo) /\ w.cloexec = SavingFds(w.undo) \cup outer
      /\ Targets(w.undo) \cap outer = {}
      /\ \A fd \in SavingFds(w.undo) : w.fds[fd] # CLOSED
  BY DEF Tidy
<1>2. cleanup_redirects(w, w.undo) = Undone(w, w.undo)
  BY <1>1, CleanupDoes
<1>3. Undone(w, w.undo) \in Machine
  BY <1>1, UndoneType DEF UndoList
<1>4. SavingFds(w.undo) \subseteq Targets(w.undo)
  BY <1>1, LastUndoing
<1>5. Undone(w, w.undo).cloexec = w.cloexec \ Targets(w.undo)
  BY DEF Undone
<1>6. w.cloexec \ Targets(w.undo) = outer
  BY <1>1, <1>4
<1>7. \A fd \in Fds : Undone(w, w.undo).fds[fd] = Later(w.undo, w.fds, fd)
  BY DEF Undone
<1> QED
  BY <1>2, <1>3, <1>5, <1>6, <1>7

\* A redirection has failed and what was done of them is undone.
LEMMA FailCommandHolds ==
  ASSUME Held, Winding, Redirecting, NEW w,
         Going(Shell, w, Outer(ListsIn(Shell, calls), Len(calls)), {}), FailCommand(w)
  PROVE  Held' /\ Promise!Next
<1>1. Winding'
  BY FailCommandWinds
<1>2. PICK s, n, lists : s = Shell /\ n = Len(calls) /\ lists = ListsIn(s, calls)
  OBVIOUS
<1>3. PICK outer : outer = Outer(lists, n)
  OBVIOUS
<1>4. /\ s \in Machine /\ Kept(s, lists, n) /\ n \in Nat /\ n \in 1 .. n /\ lists[n] = s.undo
      /\ Tidy(s, outer)
  BY <1>2, <1>3, Underway
<1>5. Going(s, w, outer, {})
  BY <1>2, <1>3
<1>6. Tidy(w, outer) /\ \A fd \in Fds : Later(w.undo, w.fds, fd) = Later(s.undo, s.fds, fd)
  BY <1>5 DEF Going
<1>7. PICK x, y : x = Undone(w, w.undo) /\ y = Undone(s, s.undo)
  OBVIOUS
<1>8. /\ cleanup_redirects(w, w.undo) = x /\ x \in Machine /\ x.cloexec = outer
      /\ \A fd \in Fds : x.fds[fd] = Later(w.undo, w.fds, fd)
  BY <1>6, <1>7, TidyUndone
<1>9. /\ cleanup_redirects(s, s.undo) = y /\ y \in Machine /\ y.cloexec = outer
      /\ \A fd \in Fds : y.fds[fd] = Later(s.undo, s.fds, fd)
  BY <1>4, <1>7, TidyUndone
<1>10. x.fds = y.fds /\ x.cloexec = y.cloexec
  <2>1. x.fds \in [Fds -> Things] /\ y.fds \in [Fds -> Things]
    BY <1>8, <1>9 DEF Machine
  <2>2. \A fd \in Fds : x.fds[fd] = y.fds[fd]
    BY <1>6, <1>8, <1>9
  <2> QED
    BY <1>8, <1>9, <2>1, <2>2
<1>11. PICK mine, none : mine = {n} /\ none = <<>>
  OBVIOUS
<1>12. y = Rewound(s, lists, mine)
  <2>1. cleanup_redirects(s, lists[n]) = Rewound(s, lists, {n})
    BY <1>4, FirstUndone
  <2> QED
    BY <1>4, <1>9, <1>11, <2>1
<1>13. none \in Seq(Entries)
  BY <1>11
<1>14. PICK z : z = PutUndo(x, none)
  OBVIOUS
<1>15. /\ z \in Machine /\ z.fds = x.fds /\ z.cloexec = x.cloexec /\ z.undo = none
       /\ undo_partial_redirects(w) = z
  <2>1. undo_partial_redirects(w) = z
    BY <1>8, <1>11, <1>14 DEF undo_partial_redirects, PutUndo
  <2> QED
    BY <1>8, <1>13, <1>14, <2>1, WithUndo
<1>16. PICK list : list = IF Top.kind = "null" THEN z.execUndo ELSE none
  OBVIOUS
<1>17. list \in Seq(Entries)
  BY <1>13, <1>15, <1>16 DEF Machine
<1>18. PICK t : t = PutExecUndo(z, list)
  OBVIOUS
<1>19. t \in Machine /\ t.fds = x.fds /\ t.cloexec = x.cloexec /\ t.undo = <<>>
  BY <1>11, <1>15, <1>17, <1>18, WithExecUndo
<1>20. Becomes(t) /\ calls' = Popped
  BY <1>11, <1>15, <1>16, <1>18 DEF FailCommand, PutExecUndo
<1>21. PICK m : m = n - 1
  OBVIOUS
<1>22. m \in 0 .. n /\ m < n /\ m + 1 = n
  BY <1>4, <1>21
<1>23. Prefix(calls', calls, m)
  <2>1. PICK height : Stacked(unwind_protect_list, calls, height)
    BY DEF Winding
  <2>2. calls # <<>>
    BY TopRedirects
  <2> QED
    BY <1>2, <1>20, <1>21, <2>1, <2>2, TopCall
<1>24. IsBack(t, s, lists, m, n)
  <2>1. mine \subseteq m + 1 .. n /\ \A k \in (m + 1 .. n) \ mine : lists[k] = <<>>
    BY <1>4, <1>11, <1>22
  <2> QED
    BY <1>4, <1>10, <1>12, <1>19, <1>22, <2>1, IsBackBy
<1> QED
  BY <1>1, <1>2, <1>19, <1>20, <1>22, <1>23, <1>24, EndsWell

\* What a redirection changes.
SavesMore(v, was, is) ==
  /\ DOMAIN was \subseteq DOMAIN is
  /\ \A fd \in DOMAIN is : is[fd] = IF fd \in DOMAIN was THEN was[fd] ELSE v[fd]

ViewsGo(v, w, is, chosen) == \A fd \in Fds \ (DOMAIN is \cup chosen) : w[fd] = v[fd]

\* Of one list: whatever has changed is saved, with what it was.
LEMMA SavedGoing ==
  ASSUME NEW s, NEW w, NEW outer, NEW chosen, Going(s, w, outer, chosen), Tidy(s, outer)
  PROVE  /\ SavesMore(ViewOf(s), SavedBy(s.undo, s.fds), SavedBy(w.undo, w.fds))
         /\ ViewsGo(ViewOf(s), ViewOf(w), SavedBy(w.undo, w.fds), chosen)
         /\ \A fd \in chosen : fd \in Fds /\ ViewOf(s)[fd] = CLOSED
         /\ \A fd \in outer : w.fds[fd] = s.fds[fd]
<1>1. /\ UndoList(s.undo) /\ s.cloexec = SavingFds(s.undo) \cup outer
      /\ Targets(s.undo) \cap outer = {} /\ s \in Machine
      /\ \A fd \in s.cloexec : s.fds[fd] # CLOSED
  BY DEF Tidy
<1>2. /\ UndoList(w.undo) /\ w.cloexec = SavingFds(w.undo) \cup outer
      /\ Targets(w.undo) \cap outer = {} /\ w \in Machine
  BY DEF Going, Tidy
<1>3. /\ Targets(s.undo) \subseteq Targets(w.undo) /\ UndoneBy(s.undo) \subseteq UndoneBy(w.undo)
      /\ chosen \subseteq Fds /\ \A fd \in chosen : s.fds[fd] = CLOSED /\ w.fds[fd] # CLOSED
  BY DEF Going
<1>4. ASSUME NEW fd \in Fds, fd \in Targets(w.undo) \/ fd \notin chosen
      PROVE  Later(w.undo, w.fds, fd) = Later(s.undo, s.fds, fd)
  BY <1>4 DEF Going
<1>5. /\ UndoneBy(s.undo) \subseteq Targets(s.undo) /\ SavingFds(s.undo) \subseteq Targets(s.undo)
      /\ \A fd \in Targets(s.undo) \ UndoneBy(s.undo) :
           fd \in SavingFds(s.undo) /\ Brought(s.undo, s.fds, fd) = CLOSED
  BY <1>1, LastUndoing
<1>6. /\ UndoneBy(w.undo) \subseteq Targets(w.undo) /\ SavingFds(w.undo) \subseteq Targets(w.undo)
      /\ \A fd \in Targets(w.undo) \ UndoneBy(w.undo) :
           fd \in SavingFds(w.undo) /\ Brought(w.undo, w.fds, fd) = CLOSED
  BY <1>2, LastUndoing
<1>7. /\ Targets(w.undo) \subseteq Fds /\ Targets(s.undo) \subseteq Fds
      /\ s.cloexec \subseteq Fds /\ outer \subseteq s.cloexec
  BY <1>1, <1>2, ListFds DEF Machine
<1>8. PICK v, x : v = ViewOf(s) /\ x = ViewOf(w)
  OBVIOUS
<1>9. /\ \A fd \in Fds : v[fd] = IF fd \in s.cloexec THEN CLOSED ELSE s.fds[fd]
      /\ \A fd \in Fds : x[fd] = IF fd \in w.cloexec THEN CLOSED ELSE w.fds[fd]
  BY <1>8 DEF ViewOf
<1>10. PICK was, is : was = SavedBy(s.undo, s.fds) /\ is = SavedBy(w.undo, w.fds)
  OBVIOUS
<1>11. /\ DOMAIN was = UndoneBy(s.undo) /\ DOMAIN is = UndoneBy(w.undo)
       /\ \A fd \in DOMAIN was : was[fd] = Brought(s.undo, s.fds, fd)
       /\ \A fd \in DOMAIN is : is[fd] = Brought(w.undo, w.fds, fd)
  BY <1>10 DEF SavedBy
<1>12. /\ \A fd \in Targets(w.undo) : Later(w.undo, w.fds, fd) = Brought(w.undo, w.fds, fd)
       /\ \A fd : fd \notin Targets(w.undo) => Later(w.undo, w.fds, fd) = w.fds[fd]
       /\ \A fd \in Targets(s.undo) : Later(s.undo, s.fds, fd) = Brought(s.undo, s.fds, fd)
       /\ \A fd : fd \notin Targets(s.undo) => Later(s.undo, s.fds, fd) = s.fds[fd]
  BY DEF Later
<1>13. ASSUME NEW fd \in Targets(w.undo)
       PROVE  Brought(w.undo, w.fds, fd) = IF fd \in DOMAIN was THEN was[fd] ELSE v[fd]
  <2>1. fd \in Fds /\ fd \notin outer
    BY <1>2, <1>7
  <2>2. Brought(w.undo, w.fds, fd) = Later(s.undo, s.fds, fd)
    BY <1>4, <1>12, <2>1
  <2>3. CASE fd \in DOMAIN was
    <3>1. fd \in Targets(s.undo)
      BY <1>5, <1>11, <2>3
    <3> QED
      BY <1>11, <1>12, <2>2, <2>3, <3>1
  <2>4. CASE fd \in Targets(s.undo) /\ fd \notin DOMAIN was
    <3>1. fd \in SavingFds(s.undo) /\ Brought(s.undo, s.fds, fd) = CLOSED
      BY <1>5, <1>11, <2>4
    <3>2. v[fd] = CLOSED
      BY <1>1, <1>9, <2>1, <3>1
    <3> QED
      BY <1>12, <2>2, <2>4, <3>1, <3>2
  <2>5. CASE fd \notin Targets(s.undo)
    <3>1. fd \notin s.cloexec /\ fd \notin DOMAIN was
      BY <1>1, <1>5, <1>11, <2>1, <2>5
    <3>2. v[fd] = s.fds[fd]
      BY <1>9, <2>1, <3>1
    <3> QED
      BY <1>12, <2>2, <2>5, <3>1, <3>2
  <2> QED
    BY <2>3, <2>4, <2>5
<1>14. SavesMore(v, was, is)
  <2>1. DOMAIN was \subseteq DOMAIN is
    BY <1>3, <1>11
  <2>2. \A fd \in DOMAIN is : is[fd] = IF fd \in DOMAIN was THEN was[fd] ELSE v[fd]
    BY <1>6, <1>11, <1>13
  <2> QED
    BY <2>1, <2>2 DEF SavesMore
<1>15. ASSUME NEW fd \in Fds, fd \notin DOMAIN is, fd \notin chosen
       PROVE  x[fd] = v[fd]
  <2>1. CASE fd \in Targets(w.undo)
    <3>1. fd \in SavingFds(w.undo) /\ Brought(w.undo, w.fds, fd) = CLOSED
      BY <1>6, <1>11, <1>15, <2>1
    <3>2. x[fd] = CLOSED
      BY <1>2, <1>9, <3>1
    <3>3. fd \notin DOMAIN was
      BY <1>3, <1>11, <1>15
    <3>4. v[fd] = CLOSED
      BY <1>13, <2>1, <3>1, <3>3
    <3> QED
      BY <3>2, <3>4
  <2>2. CASE fd \notin Targets(w.undo)
    <3>1. fd \notin Targets(s.undo)
      BY <1>3, <2>2
    <3>2. w.fds[fd] = s.fds[fd]
      BY <1>4, <1>12, <1>15, <2>2, <3>1
    <3>3. fd \in w.cloexec <=> fd \in s.cloexec
      BY <1>1, <1>2, <1>5, <1>6, <2>2, <3>1
    <3> QED
      BY <1>9, <3>2, <3>3
  <2> QED
    BY <2>1, <2>2
<1>16. ViewsGo(v, x, is, chosen)
  BY <1>15 DEF ViewsGo
<1>17. \A fd \in chosen : fd \in Fds /\ v[fd] = CLOSED
  BY <1>3, <1>9
<1>18. ASSUME NEW fd \in outer
       PROVE  w.fds[fd] = s.fds[fd]
  <2>1. fd \in Fds /\ fd \notin chosen /\ fd \notin Targets(w.undo) /\ fd \notin Targets(s.undo)
    BY <1>1, <1>2, <1>3, <1>7
  <2> QED
    BY <1>4, <1>12, <2>1
<1> QED
  BY <1>8, <1>10, <1>14, <1>16, <1>17, <1>18

\* The lists around the one being built are as they were.
LEMMA GoingKept ==
  ASSUME NEW s, NEW lists, NEW n \in Nat, Kept(s, lists, n), n \in 1 .. n,
         NEW w, Tidy(w, Outer(lists, n)), NEW other, other[n] = w.undo,
         \A k \in 1 .. n - 1 : other[k] = lists[k]
  PROVE  Kept(w, other, n)
<1>1. PICK outer : outer = Outer(lists, n)
  OBVIOUS
<1>2. /\ UndoList(w.undo) /\ w.cloexec = SavingFds(w.undo) \cup outer
      /\ Targets(w.undo) \cap outer = {} /\ w \in Machine
      /\ \A fd \in w.cloexec : SHELL_FD_BASE <= fd /\ w.fds[fd] # CLOSED
  BY <1>1 DEF Tidy
<1>3. \A k \in 1 .. n : k \in 1 .. n - 1 \/ k = n
  OBVIOUS
<1>4. \A k \in 1 .. n - 1 : k \in 1 .. n /\ k < n
  OBVIOUS
<1>5. \A k \in 1 .. n : UndoList(other[k])
  BY <1>2, <1>3, <1>4 DEF Kept
<1>6. ASSUME NEW j \in 1 .. n, NEW k \in 1 .. n, j < k
      PROVE  Targets(other[k]) \cap SavingFds(other[j]) = {}
  <2>1. j \in 1 .. n - 1
    BY <1>6
  <2>2. CASE k = n
    <3>1. SavingFds(other[j]) \subseteq outer
      BY <1>1, <2>1 DEF Outer
    <3> QED
      BY <1>2, <2>2, <3>1
  <2>3. CASE k \in 1 .. n - 1
    BY <1>6, <2>1, <2>3 DEF Kept
  <2> QED
    BY <1>3, <2>2, <2>3
<1>7. w.cloexec = UNION {SavingFds(other[k]) : k \in 1 .. n}
  <2>1. ASSUME NEW fd \in w.cloexec
        PROVE  \E k \in 1 .. n : fd \in SavingFds(other[k])
    <3>1. CASE fd \in outer
      <4>1. PICK k \in 1 .. n - 1 : fd \in SavingFds(lists[k])
        BY <1>1, <3>1 DEF Outer
      <4> QED
        BY <1>4, <4>1
    <3>2. CASE fd \in SavingFds(w.undo)
      BY <3>2
    <3> QED
      BY <1>2, <3>1, <3>2
  <2>2. ASSUME NEW k \in 1 .. n, NEW fd \in SavingFds(other[k])
        PROVE  fd \in w.cloexec
    <3>1. CASE k = n
      BY <1>2, <3>1
    <3>2. CASE k \in 1 .. n - 1
      <4>1. fd \in outer
        BY <1>1, <3>2 DEF Outer
      <4> QED
        BY <1>2, <4>1
    <3> QED
      BY <1>3, <3>1, <3>2
  <2> QED
    BY <2>1, <2>2
<1> QED
  BY <1>2, <1>5, <1>6, <1>7 DEF Kept

\* What the scopes around are after a step of the innermost.
LEMMA AroundSame ==
  ASSUME NEW s, NEW cs, NEW n \in Nat, IsSeq(cs), n = Len(cs), n \in 1 .. n, NEW w,
         \A k \in 1 .. n - 1 : ListsIn(w, cs)[k] = ListsIn(s, cs)[k],
         \A k \in 1 .. n - 1 : UndoList(ListsIn(s, cs)[k]),
         \A fd \in Outer(ListsIn(s, cs), n) : w.fds[fd] = s.fds[fd]
  PROVE  /\ \A k \in 1 .. n - 1 :
              SavedBy(ListsIn(s, cs)[k], w.fds) = SavedBy(ListsIn(s, cs)[k], s.fds)
         /\ SubSeq(ScopesIn(w, cs), 1, n - 1) = SubSeq(ScopesIn(s, cs), 1, n - 1)
         /\ Len(ScopesIn(s, cs)) = n /\ Len(ScopesIn(w, cs)) = n
<1>1. ASSUME NEW k \in 1 .. n - 1
      PROVE  SavedBy(ListsIn(s, cs)[k], w.fds) = SavedBy(ListsIn(s, cs)[k], s.fds)
  <2>1. PICK list : list = ListsIn(s, cs)[k]
    OBVIOUS
  <2>2. \A fd \in SavingFds(list) : w.fds[fd] = s.fds[fd]
    BY <2>1 DEF Outer
  <2>3. UndoList(list)
    BY <2>1
  <2> QED
    BY <2>1, <2>2, <2>3, SavedSame
<1>2. PICK m, ds : m = n - 1 /\ ds = SubSeq(cs, 1, m)
  OBVIOUS
<1>3. m \in 0 .. n /\ Prefix(ds, cs, m)
  <2>1. m \in 0 .. n
    BY <1>2
  <2> QED
    BY <1>2, <2>1, CallLists
<1>4. \A k \in 1 .. m : ListsIn(s, ds)[k] = ListsIn(s, cs)[k]
  <2> SUFFICES ASSUME NEW k \in 1 .. m
               PROVE  ListsIn(s, ds)[k] = ListsIn(s, cs)[k]
    OBVIOUS
  <2>1. k \in 1 .. Len(ds) /\ k \in 1 .. Len(cs) /\ ds[k] = cs[k]
    BY <1>2, <1>3 DEF Prefix
  <2> QED
    BY <2>1 DEF ListsIn
<1>5. SavedStill(s, cs, s, ds, m)
  BY <1>4 DEF SavedStill
<1>6. SavedStill(w, cs, s, ds, m)
  <2>1. \A k \in 1 .. m : SavedBy(ListsIn(s, ds)[k], s.fds) = SavedBy(ListsIn(w, cs)[k], w.fds)
    BY <1>1, <1>2, <1>4
  <2> QED
    BY <2>1 DEF SavedStill
<1>7. ScopesIn(s, ds) = SubSeq(ScopesIn(s, cs), 1, m) /\ Len(ScopesIn(s, cs)) = Len(cs)
  BY <1>3, <1>5, ScopesLeft
<1>8. ScopesIn(s, ds) = SubSeq(ScopesIn(w, cs), 1, m) /\ Len(ScopesIn(w, cs)) = Len(cs)
  BY <1>3, <1>6, ScopesLeft
<1> QED
  BY <1>1, <1>2, <1>7, <1>8

\* A redirection that is done.
LEMMA RedirectsWell ==
  ASSUME Held, Winding, Winding', Redirecting, NEW w, NEW chosen,
         Going(Shell, w, Outer(ListsIn(Shell, calls), Len(calls)), chosen),
         Becomes(w), calls' = calls,
         chosen \in {{}} \cup {{fd} : fd \in SHELL_FD_BASE .. MaxFd}
  PROVE  Held' /\ Promise!Next
<1>1. PICK s, cs, n, lists, other :
        s = Shell /\ cs = calls /\ n = Len(cs) /\ lists = ListsIn(s, cs) /\ other = ListsIn(w, cs)
  OBVIOUS
<1>2. PICK outer : outer = Outer(lists, n)
  OBVIOUS
<1>3. /\ s \in Machine /\ Kept(s, lists, n) /\ n \in Nat /\ n \in 1 .. n /\ lists[n] = s.undo
      /\ Tidy(s, outer)
  BY <1>1, <1>2, Underway
<1>4. /\ HeldBy(s, cs) /\ IsSeq(cs) /\ cs # <<>> /\ ~cs[n].running /\ ~AllRun(cs)
  BY <1>1, HeldParts
<1>5. Going(s, w, outer, chosen)
  BY <1>1, <1>2
<1>6. Tidy(w, outer) /\ ExecList(w.execUndo, w.undo) /\ w \in Machine
  BY <1>5 DEF Going, Tidy
<1>7. Shell' = w
  BY <1>6, BecomesIs
<1>8. other[n] = w.undo /\ \A k \in 1 .. n - 1 : other[k] = lists[k]
  <2>1. other[n] = w.undo
    BY <1>1, <1>3, <1>4 DEF ListsIn
  <2>2. ASSUME NEW k \in 1 .. n - 1
        PROVE  other[k] = lists[k]
    <3>1. k \in 1 .. Len(cs) /\ k < Len(cs)
      BY <1>1, <1>3
    <3>2. cs[k].running
      BY <1>4, <3>1 DEF HeldBy
    <3> QED
      BY <1>1, <3>1, <3>2 DEF ListsIn
  <2> QED
    BY <2>1, <2>2
<1>9. Kept(w, other, n)
  BY <1>2, <1>3, <1>6, <1>8, GoingKept
<1>10. HeldBy(w, cs)
  BY <1>1, <1>4, <1>6, <1>9 DEF HeldBy
<1>11. Held'
  BY <1>1, <1>7, <1>10 DEF Held
<1>12. PICK v, x, a, b : v = UserView /\ x = UserView' /\ a = Scopes /\ b = Scopes'
  OBVIOUS
<1>13. v = ViewOf(s) /\ a = ScopesIn(s, cs)
  BY <1>1, <1>12, Seen
<1>14. x = ViewOf(w) /\ b = ScopesIn(w, cs)
  BY <1>1, <1>7, <1>11, <1>12, SeenNext
<1>15. PICK was, is : was = SavedBy(s.undo, s.fds) /\ is = SavedBy(w.undo, w.fds)
  OBVIOUS
<1>16. /\ SavesMore(v, was, is) /\ ViewsGo(v, x, is, chosen)
       /\ \A fd \in chosen : fd \in Fds /\ v[fd] = CLOSED
       /\ \A fd \in outer : w.fds[fd] = s.fds[fd]
  BY <1>3, <1>5, <1>13, <1>14, <1>15, SavedGoing
<1>17. /\ SubSeq(b, 1, n - 1) = SubSeq(a, 1, n - 1) /\ Len(a) = n /\ Len(b) = n
  <2>1. \A k \in 1 .. n - 1 : UndoList(lists[k])
    <3>1. \A k \in 1 .. n - 1 : k \in 1 .. n
      BY <1>3
    <3> QED
      BY <1>3, <3>1 DEF Kept
  <2>2. \A k \in 1 .. n - 1 : ListsIn(w, cs)[k] = ListsIn(s, cs)[k]
    BY <1>1, <1>8
  <2>3. \A k \in 1 .. n - 1 : UndoList(ListsIn(s, cs)[k])
    BY <1>1, <2>1
  <2>4. \A fd \in Outer(ListsIn(s, cs), n) : w.fds[fd] = s.fds[fd]
    BY <1>1, <1>2, <1>16
  <2>5. n \in Nat /\ n = Len(cs) /\ n \in 1 .. n /\ IsSeq(cs)
    BY <1>1, <1>3, <1>4
  <2>6. /\ SubSeq(ScopesIn(w, cs), 1, n - 1) = SubSeq(ScopesIn(s, cs), 1, n - 1)
        /\ Len(ScopesIn(s, cs)) = n /\ Len(ScopesIn(w, cs)) = n
    BY ONLY <2>2, <2>3, <2>4, <2>5, AroundSame
  <2> QED
    BY <1>13, <1>14, <2>6
<1>18. a[n].saved = was /\ b[n].saved = is
  BY <1>1, <1>3, <1>8, <1>13, <1>14, <1>15 DEF ScopesIn
<1>19. a # <<>>
  BY <1>3, <1>17
<1>20. chosen \in {{}} \cup {{fd} : fd \in {d \in SHELL_FD_BASE .. MaxFd : v[d] = CLOSED}}
  <2>1. CASE chosen = {}
    BY <2>1
  <2>2. CASE \E fd \in SHELL_FD_BASE .. MaxFd : chosen = {fd}
    BY <1>16, <2>2
  <2> QED
    BY <2>1, <2>2
<1>21. Promise!Redirect
  <2>1. Promise!Inner = a[n] /\ Promise!Around = SubSeq(a, 1, n - 1)
    BY <1>12, <1>17 DEF Promise!Inner, Promise!Around
  <2>2. \A fd \in Fds \ (DOMAIN is \cup chosen) : x[fd] = v[fd]
    BY <1>16 DEF ViewsGo
  <2>3. /\ DOMAIN was \subseteq DOMAIN is
        /\ \A fd \in DOMAIN is : is[fd] = IF fd \in DOMAIN was THEN was[fd] ELSE v[fd]
    BY <1>16 DEF SavesMore
  <2>4. \E c \in {{}} \cup {{fd} : fd \in {d \in SHELL_FD_BASE .. MaxFd : v[d] = CLOSED}} :
          \A fd \in Fds \ (DOMAIN is \cup c) : x[fd] = v[fd]
    BY <1>20, <2>2
  <2> QED
    <3>1. Promise!Inner.saved = was /\ Scopes'[Len(Scopes)].saved = is
      BY <1>12, <1>17, <1>18, <2>1
    <3>2. /\ Scopes # <<>> /\ Len(Scopes') = Len(Scopes)
          /\ SubSeq(Scopes', 1, Len(Scopes) - 1) = Promise!Around
      BY <1>12, <1>17, <1>19, <2>1
    <3>3. PICK c \in {{}} \cup {{fd} : fd \in {d \in SHELL_FD_BASE .. MaxFd : UserView[d] = CLOSED}} :
            \A fd \in Fds \ (DOMAIN is \cup c) : UserView'[fd] = UserView[fd]
      BY <1>12, <2>4
    <3>4. /\ DOMAIN was \subseteq DOMAIN is
          /\ \A fd \in DOMAIN is : is[fd] = IF fd \in DOMAIN was THEN was[fd] ELSE UserView[fd]
      BY <1>12, <2>3
    <3> QED
      BY <3>1, <3>2, <3>3, <3>4, Zenon DEF Promise!Redirect
<1> QED
  BY <1>11, <1>21 DEF Promise!Next

\* A redirection is performed, or fails.
LEMMA PerformHolds ==
  ASSUME Quiet, Held, Winding, NEW r \in Menu, Perform(r)
  PROVE  Held' /\ Promise!Next
<1>1. Winding' /\ Redirecting /\ Allowed(r)
  BY PerformWinds DEF Perform
<1>2. PICK s, outer, result :
        /\ s = Shell /\ outer = Outer(ListsIn(Shell, calls), Len(calls))
        /\ result = do_redirection_internal(s, r, TRUE)
  OBVIOUS
<1>3. Tidy(s, outer) /\ ExecList(s.execUndo, s.undo) /\ Saves = s.cloexec
  BY <1>1, <1>2, Underway
<1>4. Performed(s, outer, result)
  BY <1>1, <1>2, <1>3, PerformGoing
<1>5. PICK chosen \in {{}} \cup {{fd} : fd \in SHELL_FD_BASE .. MaxFd} :
        Going(s, result.s, outer, chosen) /\ (result.error => chosen = {})
  BY <1>4 DEF Performed
<1>6. CASE result.error
  <2>1. FailCommand(result.s)
    BY <1>2, <1>6 DEF Perform
  <2>2. Going(Shell, result.s, Outer(ListsIn(Shell, calls), Len(calls)), {})
    BY <1>2, <1>5, <1>6
  <2> QED
    BY <1>1, <2>1, <2>2, FailCommandHolds
<1>7. CASE ~result.error
  <2>1. Becomes(result.s) /\ calls' = calls
    BY <1>2, <1>7 DEF Perform
  <2>2. Going(Shell, result.s, Outer(ListsIn(Shell, calls), Len(calls)), chosen)
    BY <1>2, <1>5
  <2> QED
    BY <1>1, <1>5, <2>1, <2>2, RedirectsWell
<1> QED
  BY <1>6, <1>7

\* A redirection fails before it changes anything.
LEMMA FailedHolds ==
  ASSUME Held, Winding, Redirecting, FailCommand(Shell)
  PROVE  Held' /\ Promise!Next
<1>1. Going(Shell, Shell, Outer(ListsIn(Shell, calls), Len(calls)), {})
  BY Underway
<1> QED
  BY <1>1, FailCommandHolds

\* exec: the copies are closed, and what they are copies of stays redirected.
OfExec(s) == [s EXCEPT !.undo = s.execUndo, !.execUndo = <<>>]

\* The undo list of an exec that stays only closes the copies.
LEMMA CopiesClosed ==
  ASSUME NEW s, NEW outer, Tidy(s, outer), ExecList(s.execUndo, s.undo),
         NEW t, t = undo_partial_redirects(OfExec(s))
  PROVE  /\ t \in Machine /\ t.undo = <<>> /\ t.cloexec = outer
         /\ \A fd \in outer : t.fds[fd] = s.fds[fd]
         /\ ViewOf(t) = ViewOf(s)
<1>1. PICK e, none : e = s.execUndo /\ none = <<>>
  OBVIOUS
<1>2. /\ s \in Machine /\ UndoList(s.undo) /\ s.cloexec = SavingFds(s.undo) \cup outer
      /\ Targets(s.undo) \cap outer = {}
  BY DEF Tidy
<1>3. e \in Seq(Closers) /\ Targets(e) = SavingFds(s.undo) /\ UndoList(e) /\ SavingFds(e) = {}
  <2>1. e \in Seq(Closers) /\ Targets(e) = SavingFds(s.undo)
    BY <1>1 DEF ExecList
  <2> QED
    BY <2>1, OnlyClosers
<1>4. SavingFds(s.undo) \subseteq Targets(s.undo) /\ outer \subseteq Fds /\ SavingFds(s.undo) \subseteq Fds
  BY <1>2, LastUndoing, ListFds DEF Machine
<1>5. PICK x, w : x = PutUndo(s, e) /\ w = PutExecUndo(x, none)
  OBVIOUS
<1>6. w \in Machine /\ w.fds = s.fds /\ w.cloexec = s.cloexec /\ w.undo = e
  <2>1. e \in Seq(Entries) /\ none \in Seq(Entries)
    BY <1>1, <1>3 DEF UndoList
  <2>2. x \in Machine /\ x.fds = s.fds /\ x.cloexec = s.cloexec /\ x.undo = e
    BY <1>2, <1>5, <2>1, WithUndo
  <2> QED
    BY <1>5, <2>1, <2>2, WithExecUndo
<1>7. OfExec(s) = w
  BY <1>1, <1>5 DEF OfExec, PutUndo, PutExecUndo
<1>8. PICK y : y = Undone(w, e)
  OBVIOUS
<1>9. cleanup_redirects(w, e) = y /\ y \in Machine
  <2>1. \A fd \in SavingFds(e) : w.fds[fd] # CLOSED
    BY <1>3
  <2> QED
    BY <1>3, <1>6, <1>8, <2>1, CleanupDoes, UndoneType DEF UndoList
<1>10. t = PutUndo(y, none)
  <2>1. t = undo_partial_redirects(w)
    BY <1>7
  <2> QED
    BY <1>1, <1>6, <1>9, <2>1 DEF undo_partial_redirects, PutUndo
<1>11. t \in Machine /\ t.fds = y.fds /\ t.cloexec = y.cloexec /\ t.undo = none
  <2>1. none \in Seq(Entries)
    BY <1>1
  <2> QED
    BY <1>9, <1>10, <2>1, WithUndo
<1>12. y.cloexec = outer
  <2>1. y.cloexec = w.cloexec \ Targets(e)
    BY <1>8 DEF Undone
  <2> QED
    BY <1>2, <1>3, <1>4, <1>6, <2>1
<1>13. \A fd \in Fds : y.fds[fd] = Later(e, s.fds, fd)
  BY <1>6, <1>8 DEF Undone
<1>14. ASSUME NEW fd \in Fds, fd \notin SavingFds(s.undo)
       PROVE  y.fds[fd] = s.fds[fd]
  BY <1>3, <1>13, <1>14 DEF Later
<1>15. \A fd \in outer : t.fds[fd] = s.fds[fd]
  BY <1>2, <1>4, <1>11, <1>14
<1>16. ASSUME NEW fd \in SavingFds(s.undo)
       PROVE  y.fds[fd] = CLOSED
  <2>1. fd \in Targets(e) /\ fd \in Fds
    BY <1>3, <1>4
  <2>2. PICK p : p = LastTo(e, fd)
    OBVIOUS
  <2>3. p \in DOMAIN e
    BY <1>3, <2>1, <2>2, HasLast DEF IsLastTo, UndoList
  <2>4. e[p].ri = "close"
    <3>1. PICK c \in Fds : e[p] = Closer(c)
      BY <1>3, <2>3 DEF Closers
    <3> QED
      BY <3>1, CloserParts
  <2>5. Later(e, s.fds, fd) = CLOSED
    BY <2>1, <2>2, <2>4 DEF Later, Brought, Value
  <2> QED
    BY <1>13, <2>1, <2>5
<1>17. ViewOf(t) = ViewOf(s)
  <2>1. \A fd \in Fds : (IF fd \in t.cloexec THEN CLOSED ELSE t.fds[fd])
                          = (IF fd \in s.cloexec THEN CLOSED ELSE s.fds[fd])
    BY <1>2, <1>4, <1>11, <1>12, <1>14, <1>16
  <2> QED
    BY <2>1 DEF ViewOf
<1> QED
  BY <1>1, <1>11, <1>12, <1>15, <1>17

\* The exec builtin makes the redirections last.
LEMMA ExecBuiltinHolds ==
  ASSUME Held, Winding, ExecBuiltin
  PROVE  Held' /\ Promise!Next
<1>1. Winding'
  BY ExecBuiltinWinds
<1>2. PICK t : t = undo_partial_redirects([Shell EXCEPT !.undo = exec_redirection_undo_list,
                                                       !.execUndo = <<>>])
  OBVIOUS
<1>3. Redirecting /\ Top.kind = "exec" /\ calls' = Popped /\ Becomes(t)
  BY <1>2 DEF ExecBuiltin
<1>4. PICK s, cs, ds, n, lists :
        s = Shell /\ cs = calls /\ ds = calls' /\ n = Len(cs) /\ lists = ListsIn(s, cs)
  OBVIOUS
<1>5. PICK outer : outer = Outer(lists, n)
  OBVIOUS
<1>6. /\ s \in Machine /\ Kept(s, lists, n) /\ n \in Nat /\ n \in 1 .. n /\ lists[n] = s.undo
      /\ Tidy(s, outer) /\ ExecList(s.execUndo, s.undo)
  BY <1>3, <1>4, <1>5, Underway
<1>7. /\ HeldBy(s, cs) /\ IsSeq(cs) /\ cs # <<>> /\ Top = cs[n]
      /\ s.execUndo = exec_redirection_undo_list
  BY <1>3, <1>4, HeldParts
<1>8. /\ t \in Machine /\ t.undo = <<>> /\ t.cloexec = outer
      /\ \A fd \in outer : t.fds[fd] = s.fds[fd]
      /\ ViewOf(t) = ViewOf(s)
  <2>1. t = undo_partial_redirects(OfExec(s))
    BY <1>2, <1>4, <1>7 DEF OfExec
  <2> QED
    BY <1>6, <2>1, CopiesClosed
<1>9. Shell' = t
  BY <1>3, <1>8, BecomesIs
<1>10. PICK m : m = n - 1
  OBVIOUS
<1>11. m \in Nat /\ m < n /\ \A k \in 1 .. m : k \in 1 .. n /\ k < n
  BY <1>6, <1>10
<1>12. Prefix(ds, cs, m)
  <2>1. PICK height : Stacked(unwind_protect_list, calls, height)
    BY DEF Winding
  <2> QED
    BY <1>3, <1>4, <1>7, <1>10, <2>1, TopCall
<1>13. Len(ds) = m /\ \A k \in 1 .. m : ds[k] = cs[k] /\ ds[k].running
  BY <1>4, <1>7, <1>11, <1>12 DEF Prefix, HeldBy
<1>14. \A k \in 1 .. m : ListsIn(t, ds)[k] = lists[k]
  BY <1>4, <1>11, <1>13 DEF ListsIn
<1>15. Kept(t, lists, m)
  <2>1. outer = UNION {SavingFds(lists[k]) : k \in 1 .. m}
    BY <1>5, <1>10 DEF Outer
  <2>2. outer \subseteq s.cloexec /\ \A fd \in s.cloexec : SHELL_FD_BASE <= fd /\ s.fds[fd] # CLOSED
    BY <1>6 DEF Tidy
  <2>3. \A k \in 1 .. m : UndoList(lists[k])
    BY <1>6, <1>11 DEF Kept
  <2>4. \A j, k \in 1 .. m : j < k => Targets(lists[k]) \cap SavingFds(lists[j]) = {}
    BY <1>6, <1>11 DEF Kept
  <2> QED
    BY <1>8, <1>11, <2>1, <2>2, <2>3, <2>4 DEF Kept
<1>16. HeldBy(t, ds)
  <2>1. Kept(t, ListsIn(t, ds), m)
    BY <1>14, <1>15, KeptSame
  <2>2. AllRun(ds)
    BY <1>13 DEF AllRun
  <2> QED
    BY <1>8, <1>13, <2>1, <2>2 DEF HeldBy
<1>17. Held'
  BY <1>4, <1>9, <1>16 DEF Held
<1>18. PICK v, x, a, b : v = UserView /\ x = UserView' /\ a = Scopes /\ b = Scopes'
  OBVIOUS
<1>19. v = ViewOf(s) /\ a = ScopesIn(s, cs)
  BY <1>4, <1>18, Seen
<1>20. x = ViewOf(t) /\ b = ScopesIn(t, ds)
  BY <1>1, <1>4, <1>9, <1>17, <1>18, SeenNext
<1>21. b = SubSeq(a, 1, m) /\ Len(a) = n
  <2>1. ASSUME NEW k \in 1 .. m
        PROVE  SavedBy(ListsIn(t, ds)[k], t.fds) = SavedBy(ListsIn(s, cs)[k], s.fds)
    <3>1. PICK list : list = lists[k]
      OBVIOUS
    <3>2. UndoList(list)
      BY <1>15, <3>1 DEF Kept
    <3>3. k \in 1 .. n - 1
      BY <1>10
    <3>4. \A fd \in SavingFds(list) : t.fds[fd] = s.fds[fd]
      BY <1>5, <1>8, <3>1, <3>3 DEF Outer
    <3>5. SavedBy(list, t.fds) = SavedBy(list, s.fds)
      BY <3>2, <3>4, SavedSame
    <3> QED
      BY <1>4, <1>14, <3>1, <3>5
  <2>2. SavedStill(s, cs, t, ds, m)
    BY <2>1 DEF SavedStill
  <2> QED
    BY <1>4, <1>7, <1>12, <1>19, <1>20, <2>2, ScopesLeft
<1>22. a[n].kind = "exec"
  BY <1>3, <1>4, <1>6, <1>7, <1>19 DEF ScopesIn
<1>23. Promise!Keep
  <2>1. Promise!Inner = a[n] /\ Promise!Around = SubSeq(a, 1, m)
    BY <1>10, <1>18, <1>21 DEF Promise!Inner, Promise!Around
  <2>2. a # <<>>
    BY <1>6, <1>21
  <2> QED
    BY <1>8, <1>18, <1>19, <1>20, <1>21, <1>22, <2>1, <2>2 DEF Promise!Keep
<1> QED
  BY <1>17, <1>23 DEF Promise!Next

----------------------------------------------------------------------------
\* The initial states.
LEMMA HeldFirst ==
  ASSUME Init
  PROVE  Held /\ Promise!Init
<1>1. PICK s : s = Shell
  OBVIOUS
<1>2. /\ calls = <<>> /\ s.undo = <<>> /\ s.execUndo = <<>> /\ s.var = 0 /\ s.cloexec = {}
      /\ s.fds = [fd \in Fds |-> CASE fd = 1 -> "stdout" [] fd = 2 -> "stderr" [] OTHER -> CLOSED]
      /\ s = [fds |-> s.fds, cloexec |-> s.cloexec, undo |-> s.undo, execUndo |-> s.execUndo,
              var |-> s.var]
  BY <1>1 DEF Init, Shell
<1>3. s \in Machine
  <2>1. s.fds \in [Fds -> Things]
    BY <1>2 DEF Things
  <2>2. s.undo \in Seq(Entries) /\ s.execUndo \in Seq(Entries)
    BY <1>2
  <2>3. s.var \in 0 .. MaxFd /\ s.cloexec \in SUBSET Fds
    BY <1>2, RedirectionsAssumption
  <2> QED
    BY <1>2, <2>1, <2>2, <2>3 DEF Machine
<1>4. Len(calls) = 0
  BY <1>2
<1>5. Kept(s, ListsIn(s, calls), 0)
  BY <1>2, <1>3 DEF Kept
<1>6. Held
  BY <1>1, <1>2, <1>4, <1>5 DEF Held, HeldBy, AllRun
<1>7. Promise!Init
  <2>1. PICK a : a = Scopes
    OBVIOUS
  <2>2. DOMAIN calls = {}
    BY <1>2
  <2>3. a = [k \in {} |-> 0]
    BY <2>1, <2>2 DEF Scopes
  <2>4. a = <<>>
    BY <2>3
  <2> QED
    BY <2>1, <2>4 DEF Promise!Init
<1> QED
  BY <1>6, <1>7

Promised == Promise!Next \/ UNCHANGED <<UserView, Scopes>>

\* Every step keeps the invariant and is one of CommandScopes or a stutter.
LEMMA HeldStep ==
  ASSUME Quiet, Held, Winding, [Next]_vars
  PROVE  Held' /\ Promised
<1>1. ASSUME NEW kind \in Kinds \ {"handler"}, Begin(kind)
      PROVE  Held' /\ Promised
  BY <1>1, BeginHolds DEF Promised
<1>2. ASSUME NEW r \in Menu, Perform(r)
      PROVE  Held' /\ Promised
  BY <1>2, PerformHolds DEF Promised
<1>3. CASE CannotRedirect
  BY <1>3, FailedHolds DEF Promised, CannotRedirect
<1>4. CASE EnterGroup
  BY <1>4, EnterGroupHolds DEF Promised
<1>5. CASE EnterBuiltinOrFunction
  BY <1>5, EnterBuiltinOrFunctionHolds DEF Promised
<1>6. CASE ExecBuiltin
  BY <1>6, ExecBuiltinHolds DEF Promised
<1>7. CASE NullCommand
  BY <1>7, FailedHolds DEF Promised, NullCommand
<1>8. CASE LeaveGroup
  BY <1>8, LeaveGroupHolds DEF Promised
<1>9. CASE LeaveBuiltinOrFunction
  BY <1>9, LeaveBuiltinOrFunctionHolds DEF Promised
<1>10. CASE Return
  BY <1>10, ReturnHolds DEF Promised
<1>11. CASE Interrupt
  BY <1>11, InterruptHolds DEF Promised
<1>12. CASE ExpansionError
  BY <1>12, ExpansionErrorHolds DEF Promised
<1>13. CASE RunTrap
  BY <1>13, RunTrapHolds DEF Promised
<1>14. CASE EndTrap
  BY <1>14, EndTrapHolds DEF Promised
<1>15. CASE UNCHANGED vars
  <2>1. /\ fds' = fds /\ cloexec' = cloexec /\ redirection_undo_list' = redirection_undo_list
        /\ exec_redirection_undo_list' = exec_redirection_undo_list /\ var' = var
        /\ calls' = calls
    BY <1>15 DEF vars, tables
  <2>2. Shell' = Shell /\ Held'
    BY <2>1 DEF Held, Shell
  <2>3. Winding'
    BY <1>15, WindingStep
  <2>4. UNCHANGED <<UserView, Scopes>>
    BY <2>1, <2>2, <2>3, Seen, SeenNext
  <2> QED
    BY <2>2, <2>4 DEF Promised
<1> QED
  BY <1>1, <1>2, <1>3, <1>4, <1>5, <1>6, <1>7, <1>8, <1>9, <1>10, <1>11, <1>12, <1>13, <1>14,
     <1>15 DEF Next

\* Nothing disturbs the commands, and scripts name no descriptor that the shell
\* might choose: then every copy is held by one entry of one list, is open, and
\* is what the close-on-exec flags say the shell has for itself (redir.c).
THEOREM EachCopyIsHeldOnce == Quiet => (Spec => []HeldOnce)
<1> SUFFICES ASSUME Quiet
             PROVE  Spec => []HeldOnce
  OBVIOUS
<1>1. Init => Held /\ Winding
  BY HeldFirst, WindingFirst
<1>2. Held /\ Winding /\ [Next]_vars => (Held /\ Winding)'
  BY HeldStep, WindingStep
<1>3. Held /\ Winding => HeldOnce
  BY HeldMeansOnce
<1> QED
  BY <1>1, <1>2, <1>3, PTL DEF Spec

\* Then every end of a command gives back what its redirections took: the
\* commands of execute_cmd.c and redir.c do what CommandScopes says.
THEOREM EveryEndGivesBack == Quiet => (Spec => GivesBack)
<1> SUFFICES ASSUME Quiet
             PROVE  Spec => GivesBack
  OBVIOUS
<1>1. Init => Held /\ Winding /\ Promise!Init
  BY HeldFirst, WindingFirst
<1>2. Held /\ Winding /\ [Next]_vars => (Held /\ Winding)' /\ [Promise!Next]_<<UserView, Scopes>>
  BY HeldStep, WindingStep DEF Promised
<1> QED
  BY <1>1, <1>2, PTL DEF Spec, GivesBack, Promise!Spec
=============================================================================
