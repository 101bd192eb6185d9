---------------------------- MODULE TrapsProofs ----------------------------
(***************************************************************************)
(* What holds of the trap machinery and of its history for every set of    *)
(* signals and commands, every depth of nesting and every number of        *)
(* signals: handlers and the stack of what unwinds them fit together, the  *)
(* traps are those the script asked for, and none runs more often than its *)
(* signal was caught.                                                      *)
(***************************************************************************)
EXTENDS TrapsHistory, SequenceTheorems, NatLemmas, TLAPS

(***************************************************************************)
(* The stack: its top, and what pushing, popping and replacing do to it    *)
(***************************************************************************)
LEMMA TopOfStack ==
  ASSUME NEW S, NEW s \in Seq(S), s # <<>>
  PROVE  /\ Len(s) \in Nat /\ Len(s) >= 1
         /\ DOMAIN s = 1 .. Len(s)
         /\ s[Len(s)] \in S
  OBVIOUS

LEMMA PushStack ==
  ASSUME NEW S, NEW s \in Seq(S), NEW f \in S
  PROVE  /\ Append(s, f) \in Seq(S)
         /\ Len(s) \in Nat
         /\ Len(Append(s, f)) = Len(s) + 1
         /\ \A i \in 1 .. Len(s) : Append(s, f)[i] = s[i]
         /\ Append(s, f)[Len(s) + 1] = f
  OBVIOUS

LEMMA ReplaceTop ==
  ASSUME NEW S, NEW s \in Seq(S), s # <<>>, NEW f \in S
  PROVE  /\ [s EXCEPT ![Len(s)] = f] \in Seq(S)
         /\ Len([s EXCEPT ![Len(s)] = f]) = Len(s)
         /\ \A i \in 1 .. Len(s) - 1 : [s EXCEPT ![Len(s)] = f][i] = s[i]
         /\ [s EXCEPT ![Len(s)] = f][Len(s)] = f
  OBVIOUS

LEMMA PopStack ==
  ASSUME NEW S, NEW s \in Seq(S), s # <<>>
  PROVE  /\ SubSeq(s, 1, Len(s) - 1) \in Seq(S)
         /\ Len(SubSeq(s, 1, Len(s) - 1)) = Len(s) - 1
         /\ \A i \in 1 .. Len(s) - 1 : SubSeq(s, 1, Len(s) - 1)[i] = s[i]
<1>1. Len(s) \in Nat /\ Len(s) # 0 /\ DOMAIN s = 1 .. Len(s)
  OBVIOUS
<1>2. Len(s) - 1 \in Nat
  BY ONLY <1>1
<1>3. PICK k \in Nat : k = Len(s) - 1
  BY ONLY <1>2
<1>4. PICK b : b = SubSeq(s, 1, k)
  OBVIOUS
<1>5. \A i \in 1 .. k : s[i] \in S
  BY <1>1, <1>3
<1>6. /\ b \in Seq(S)
      /\ Len(b) = IF 1 <= k THEN k - 1 + 1 ELSE 0
      /\ \A i \in 1 .. k - 1 + 1 : b[i] = s[1 + i - 1]
  BY ONLY <1>3, <1>4, <1>5, SubSeqProperties
<1>7. Len(b) = k /\ \A i \in 1 .. k : b[i] = s[i]
  BY ONLY <1>3, <1>6
<1> QED
  BY ONLY <1>3, <1>4, <1>6, <1>7

(***************************************************************************)
(* Types                                                                   *)
(***************************************************************************)
\* The three kinds of activation are frames.
LEMMA FrameTypes ==
  /\ \A pc \in {"return", "trap"}, sig \in Signals, old \in 0 .. NSIG,
        n \in Nat : PendingFrame(pc, sig, old, n) \in Frames
  /\ \A old \in 0 .. NSIG, n \in Nat : PendingFrame("clear", SIGCHLD, old, n) \in Frames
  /\ \A sig \in 1 .. NSIG, old \in 0 .. NSIG : PendingFrame("test", sig, old, 0) \in Frames
  /\ \A n \in Nat, c \in Commands \cup Sentinels : ChildFrame(n, c) \in Frames
  /\ \A old \in 0 .. NSIG, b \in BOOLEAN : InterruptFrame(old, b) \in Frames
BY SignalsAssumption
   DEF PendingFrame, ChildFrame, InterruptFrame, Activations, Frames, Sentinels, Signals

\* The top of the stack is a frame and the stack without it a stack.
LEMMA TopType ==
  ASSUME TypeOK, stack # <<>>
  PROVE  /\ Top \in Frames /\ Below \in Seq(Frames)
         /\ Top.sig \in 1 .. NSIG /\ Top.old \in 0 .. NSIG /\ Top.n \in Nat
         /\ Top.command \in Commands \cup Sentinels
         /\ Top.pc # "test" => Top.sig \in Signals
         /\ Top.pc = "clear" => Top.sig = SIGCHLD
<1>1. Top \in Frames /\ Below \in Seq(Frames)
  BY TopOfStack, PopStack DEF TypeOK, Top, Below
<1> QED
  BY <1>1 DEF Frames, Activations

\* Moving a run_pending_traps on to the next signal keeps the stack's type.
LEMMA NextSignalType ==
  ASSUME TypeOK, stack # <<>>, Top.sig \in Signals
  PROVE  NextSignal \in Seq(Frames)
<1>1. Top.sig + 1 \in 1 .. NSIG /\ Top.old \in 0 .. NSIG
  BY TopType, SignalsAssumption DEF Signals
<1>2. PendingFrame("test", Top.sig + 1, Top.old, 0) \in Frames
  BY <1>1, FrameTypes
<1> QED
  BY <1>2, ReplaceTop DEF TypeOK, NextSignal, Retop

\* run_sigchld_trap keeps the types above any stack.
LEMMA RunChildType ==
  ASSUME TypeOK, NEW base \in Seq(Frames), NEW n \in Nat, run_sigchld_trap(base, n)
  PROVE  /\ trap_list' \in [Signals -> Commands \cup Sentinels]
         /\ sigmodes' \in [Signals -> SUBSET Flags]
         /\ running_trap' \in 0 .. NSIG
         /\ stack' \in Seq(Frames)
         /\ fate' \in Fates
<1>1. trap_list[SIGCHLD] \in Commands \cup Sentinels
  BY SignalsAssumption DEF TypeOK
<1>2. ChildFrame(n, trap_list[SIGCHLD]) \in Frames
  BY <1>1, FrameTypes
<1>3. Append(base, ChildFrame(n, trap_list[SIGCHLD])) \in Seq(Frames)
  BY <1>2, PushStack
<1>4. CASE trap_list[SIGCHLD] \in {DEFAULT_SIG, IGNORE_SIG}
  BY <1>4 DEF TypeOK, run_sigchld_trap, Fates
<1>5. CASE trap_list[SIGCHLD] \notin {DEFAULT_SIG, IGNORE_SIG}
  <2>1. /\ stack' = Append(base, ChildFrame(n, trap_list[SIGCHLD]))
        /\ trap_list' = [trap_list EXCEPT ![SIGCHLD] = IMPOSSIBLE_TRAP_HANDLER]
        /\ sigmodes' = [sigmodes EXCEPT ![SIGCHLD] = @ \ {"TRAPPED", "IGNORED"}]
        /\ running_trap' = SIGCHLD + 1
        /\ fate' = fate
    BY <1>5 DEF run_sigchld_trap
  <2>2. IMPOSSIBLE_TRAP_HANDLER \in Commands \cup Sentinels
    BY DEF Sentinels
  <2>3. trap_list' \in [Signals -> Commands \cup Sentinels]
    BY <2>1, <2>2 DEF TypeOK
  <2>4. sigmodes' \in [Signals -> SUBSET Flags]
    BY <2>1 DEF TypeOK
  <2>5. running_trap' \in 0 .. NSIG
    BY <2>1, SignalsAssumption DEF Signals
  <2> QED
    BY <1>3, <2>1, <2>3, <2>4, <2>5 DEF TypeOK
<1> QED
  BY <1>4, <1>5

\* run_interrupt_trap keeps the types above any stack.
LEMMA RunInterruptType ==
  ASSUME TypeOK, NEW base \in Seq(Frames), NEW running \in 0 .. NSIG,
         run_interrupt_trap(base, running)
  PROVE  /\ trap_list' \in [Signals -> Commands \cup Sentinels]
         /\ sigmodes' \in [Signals -> SUBSET Flags]
         /\ pending_traps' \in [Signals -> Nat]
         /\ catch_flag' \in BOOLEAN
         /\ running_trap' \in 0 .. NSIG
         /\ stack' \in Seq(Frames)
         /\ fate' \in Fates
<1>1. Has(SIGINT, "INPROGRESS") \in BOOLEAN
  BY DEF Has
<1>2. InterruptFrame(running, Has(SIGINT, "INPROGRESS")) \in Frames
  BY <1>1, FrameTypes
<1>3. Append(base, InterruptFrame(running, Has(SIGINT, "INPROGRESS"))) \in Seq(Frames)
  BY <1>2, PushStack
<1>4. /\ trap_list' = trap_list /\ fate' = fate
      /\ catch_flag' = FALSE
      /\ pending_traps' = [pending_traps EXCEPT ![SIGINT] = 0]
      /\ _run_trap_internal(base, running)
  BY DEF run_interrupt_trap
<1>5. pending_traps' \in [Signals -> Nat]
  BY <1>4 DEF TypeOK
<1>6. /\ sigmodes' \in [Signals -> SUBSET Flags]
      /\ running_trap' \in 0 .. NSIG
      /\ stack' \in Seq(Frames)
  <2>1. \/ /\ stack' = Append(base, InterruptFrame(running, Has(SIGINT, "INPROGRESS")))
           /\ sigmodes' = [sigmodes EXCEPT ![SIGINT] = @ \cup {"INPROGRESS"}]
           /\ running_trap' = SIGINT + 1
        \/ /\ stack' = base
           /\ running_trap' = running
           /\ sigmodes' = sigmodes
    BY <1>4 DEF _run_trap_internal
  <2>2. stack' \in Seq(Frames)
    BY <1>3, <2>1
  <2>3. running_trap' \in 0 .. NSIG
    BY <2>1, SignalsAssumption DEF Signals
  <2>4. sigmodes' \in [Signals -> SUBSET Flags]
    BY <2>1 DEF TypeOK, Flags
  <2> QED
    BY <2>2, <2>3, <2>4
<1> QED
  BY <1>4, <1>5, <1>6 DEF TypeOK

\* Replacing and removing the top.
LEMMA RetopType ==
  ASSUME TypeOK, stack # <<>>, NEW f \in Frames
  PROVE  Retop(f) \in Seq(Frames)
BY ReplaceTop DEF TypeOK, Retop

\* Every step keeps the types.
LEMMA TypeStep ==
  ASSUME TypeOK, [Next]_vars
  PROVE  TypeOK'
<1> USE SignalsAssumption DEF Signals
<1>1. CASE UNCHANGED vars
  BY <1>1 DEF TypeOK, vars
<1>2. ASSUME NEW s \in Signals, NEW c \in Commands \cup Sentinels, change_signal(s, c)
      PROVE  /\ trap_list' \in [Signals -> Commands \cup Sentinels]
             /\ sigmodes' \in [Signals -> SUBSET Flags]
  BY <1>2 DEF TypeOK, change_signal, ChangedModes, Flags
<1>3. ASSUME NEW s \in Signals, NEW n \in Nat, set_trap_state(s, n)
      PROVE  pending_traps' \in [Signals -> Nat] /\ catch_flag' \in BOOLEAN
  BY <1>3 DEF TypeOK, set_trap_state
<1>4. ASSUME NEW n \in Nat, Happens(n)
      PROVE  events' \in Nat
  BY <1>4 DEF TypeOK, Happens
<1>5. ASSUME NEW s \in Signals, NEW c \in Commands, SetTrap(s, c)
      PROVE  TypeOK'
  <2>1. c \in Commands \cup Sentinels /\ change_signal(s, c)
    BY <1>5 DEF SetTrap
  <2> QED
    BY <1>2, <1>5, <2>1 DEF TypeOK, SetTrap
<1>6. ASSUME NEW s \in Signals, IgnoreTrap(s)
      PROVE  TypeOK'
  <2>1. IGNORE_SIG \in Commands \cup Sentinels /\ change_signal(s, IGNORE_SIG)
    BY <1>6 DEF IgnoreTrap, Sentinels
  <2> QED
    BY <1>2, <1>6, <2>1 DEF TypeOK, IgnoreTrap
<1>7. ASSUME NEW s \in Signals, ResetTrap(s)
      PROVE  TypeOK'
  BY <1>7 DEF TypeOK, ResetTrap, Sentinels
<1>8. ASSUME NEW s \in Signals, trap_handler(s)
      PROVE  TypeOK'
  <2>1. set_trap_state(s, 1) /\ Happens(1)
    BY <1>8 DEF trap_handler
  <2> QED
    BY <1>3, <1>4, <1>8, <2>1 DEF TypeOK, trap_handler
<1>9. ASSUME NEW n \in 1 .. MaxEvents, queue_sigchld_trap(n)
      PROVE  TypeOK'
  <2>1. n \in Nat /\ SIGCHLD \in Signals /\ set_trap_state(SIGCHLD, n) /\ Happens(n)
    BY <1>9 DEF queue_sigchld_trap
  <2> QED
    BY <1>3, <1>4, <1>9, <2>1 DEF TypeOK, queue_sigchld_trap
<1>10. ASSUME NEW n \in 1 .. MaxEvents, WaitRunsTrap(n)
       PROVE  TypeOK'
  <2>1. n \in Nat /\ stack \in Seq(Frames) /\ run_sigchld_trap(stack, n) /\ Happens(n)
    BY <1>10 DEF WaitRunsTrap, TypeOK
  <2> QED
    BY <1>4, <1>10, <2>1, RunChildType DEF TypeOK, WaitRunsTrap
<1>11. ASSUME InterruptedCommand
       PROVE  TypeOK'
  <2>1. /\ 1 \in Nat /\ stack \in Seq(Frames) /\ running_trap \in 0 .. NSIG
        /\ run_interrupt_trap(stack, running_trap) /\ Happens(1)
    BY <1>11 DEF InterruptedCommand, TypeOK
  <2>2. events' \in Nat
    BY <1>4, <2>1
  <2> QED
    BY <2>1, <2>2, RunInterruptType DEF TypeOK
<1>12. CASE NextChild
  <2>1. stack # <<>> /\ Top.n \in Nat /\ Top.n > 1 /\ Top.command \in Commands \cup Sentinels
    BY <1>12, TopType DEF NextChild
  <2>2. ChildFrame(Top.n - 1, Top.command) \in Frames
    BY <2>1, FrameTypes
  <2> QED
    BY <1>12, <2>1, <2>2, RetopType DEF NextChild, TypeOK
<1>13. CASE LastChild
  <2>1. stack # <<>> /\ Top.command \in Commands \cup Sentinels /\ SIGCHLD \in Signals
    BY <1>13, TopType DEF LastChild
  <2>2. /\ trap_list' \in [Signals -> Commands \cup Sentinels]
        /\ sigmodes' \in [Signals -> SUBSET Flags]
    BY <1>2, <1>13, <2>1 DEF LastChild, maybe_set_sigchld_trap, TypeOK
  <2>3. stack' \in Seq(Frames)
    BY <1>13, <2>1, TopType DEF LastChild
  <2> QED
    BY <1>13, <2>2, <2>3 DEF LastChild, TypeOK
<1>14. CASE EndInterruptTrap
  <2>1. stack' \in Seq(Frames) /\ running_trap' \in 0 .. NSIG
    BY <1>14, TopType DEF EndInterruptTrap
  <2>2. sigmodes' \in [Signals -> SUBSET Flags]
    BY <1>14 DEF EndInterruptTrap, TypeOK
  <2> QED
    BY <1>14, <2>1, <2>2 DEF EndInterruptTrap, TypeOK
<1>15. CASE EndTrap
  <2>1. stack # <<>> /\ Top.sig \in Signals /\ Top.old \in 0 .. NSIG
    BY <1>15, TopType DEF EndTrap, Scanning
  <2>2. /\ pending_traps' = [pending_traps EXCEPT ![Top.sig] = 0]
        /\ running_trap' = Top.old /\ stack' = NextSignal
        /\ UNCHANGED <<trap_list, sigmodes, catch_flag, fate, events>>
    BY <1>15 DEF EndTrap
  <2>3. pending_traps' \in [Signals -> Nat] /\ running_trap' \in 0 .. NSIG
    BY <2>1, <2>2 DEF TypeOK
  <2> QED
    BY <2>1, <2>2, <2>3, NextSignalType DEF TypeOK
<1>16. CASE run_pending_traps
  <2>1. PendingFrame("test", 1, running_trap, 0) \in Frames
    BY FrameTypes DEF TypeOK
  <2>2. stack' \in Seq(Frames)
    BY <1>16, <2>1, PushStack DEF run_pending_traps, TypeOK
  <2> QED
    BY <1>16, <2>2 DEF run_pending_traps, TypeOK
<1>17. CASE NotPending
  <2>1. stack # <<>> /\ Top.sig \in Signals
    BY <1>17 DEF NotPending, Scanning
  <2> QED
    BY <1>17, <2>1, NextSignalType DEF NotPending, TypeOK
<1>18. CASE TakeInterrupt
  <2>1. stack # <<>> /\ Top.old \in 0 .. NSIG
    BY <1>18, TopType DEF TakeInterrupt, Pending, Scanning
  <2>2. PendingFrame("return", SIGINT, Top.old, 0) \in Frames
    BY <2>1, FrameTypes
  <2>3. Retop(PendingFrame("return", SIGINT, Top.old, 0)) \in Seq(Frames)
    BY <2>1, <2>2, RetopType
  <2>4. SIGINT + 1 \in 0 .. NSIG
    OBVIOUS
  <2>5. events' = events
        /\ run_interrupt_trap(Retop(PendingFrame("return", SIGINT, Top.old, 0)), SIGINT + 1)
    BY <1>18 DEF TakeInterrupt
  <2> QED
    BY <2>3, <2>4, <2>5, RunInterruptType DEF TypeOK
<1>19. CASE TakeChildren
  <2>1. stack # <<>> /\ Top.old \in 0 .. NSIG
    BY <1>19, TopType DEF TakeChildren, Pending, Scanning
  <2>2. pending_traps[SIGCHLD] \in Nat
    BY DEF TypeOK
  <2>3. PendingFrame("clear", SIGCHLD, Top.old, pending_traps[SIGCHLD]) \in Frames
    BY <2>1, <2>2, FrameTypes
  <2>4. stack' \in Seq(Frames)
    BY <1>19, <2>1, <2>3, RetopType DEF TakeChildren
  <2>5. sigmodes' \in [Signals -> SUBSET Flags] /\ running_trap' \in 0 .. NSIG
    BY <1>19 DEF TakeChildren, TypeOK, Flags
  <2> QED
    BY <1>19, <2>4, <2>5 DEF TakeChildren, TypeOK
<1>20. CASE RunChildren
  <2>1. stack # <<>> /\ Top.old \in 0 .. NSIG /\ Top.n \in Nat
    BY <1>20, TopType DEF RunChildren, Scanning
  <2>2. PendingFrame("return", SIGCHLD, Top.old, 0) \in Frames
    BY <2>1, FrameTypes
  <2>3. Retop(PendingFrame("return", SIGCHLD, Top.old, 0)) \in Seq(Frames)
    BY <2>1, <2>2, RetopType
  <2>4. /\ run_sigchld_trap(Retop(PendingFrame("return", SIGCHLD, Top.old, 0)), Top.n)
        /\ pending_traps' = [pending_traps EXCEPT ![SIGCHLD] = 0]
        /\ UNCHANGED <<catch_flag, events>>
    BY <1>20 DEF RunChildren
  <2>5. pending_traps' \in [Signals -> Nat]
    BY <2>4 DEF TypeOK
  <2> QED
    BY <2>1, <2>3, <2>4, <2>5, RunChildType DEF TypeOK
<1>21. CASE EndChildren
  <2>1. stack # <<>> /\ Top.sig \in Signals
    BY <1>21 DEF EndChildren, Scanning
  <2>2. sigmodes' \in [Signals -> SUBSET Flags] /\ running_trap' \in 0 .. NSIG
    BY <1>21 DEF EndChildren, TypeOK
  <2> QED
    BY <1>21, <2>1, <2>2, NextSignalType DEF EndChildren, TypeOK
<1>22. CASE ChildrenInProgress
  <2>1. stack # <<>> /\ Top.sig \in Signals /\ running_trap' \in 0 .. NSIG
    BY <1>22 DEF ChildrenInProgress, Pending, Scanning
  <2> QED
    BY <1>22, <2>1, NextSignalType DEF ChildrenInProgress, TypeOK
<1>23. CASE BadTrap
  <2>1. stack # <<>> /\ Top.sig \in Signals /\ Top.old \in 0 .. NSIG
    BY <1>23, TopType DEF BadTrap, Ordinary, Pending, Scanning
  <2>2. fate' \in Fates
    BY <1>23 DEF BadTrap, TypeOK, Fates
  <2>3. pending_traps' \in [Signals -> Nat] /\ running_trap' \in 0 .. NSIG
    BY <1>23, <2>1 DEF BadTrap, TypeOK
  <2> QED
    BY <1>23, <2>1, <2>2, <2>3, NextSignalType DEF BadTrap, TypeOK
<1>24. CASE RunTrap
  <2>1. stack # <<>> /\ Top.sig \in Signals /\ Top.old \in 0 .. NSIG
    BY <1>24, TopType DEF RunTrap, Ordinary, Pending, Scanning
  <2>2. PendingFrame("trap", Top.sig, Top.old, 0) \in Frames
    BY <2>1, FrameTypes
  <2>3. stack' \in Seq(Frames)
    BY <1>24, <2>1, <2>2, RetopType DEF RunTrap
  <2>4. pending_traps' \in [Signals -> Nat] /\ running_trap' \in 0 .. NSIG
    BY <1>24, <2>1 DEF RunTrap, TypeOK
  <2> QED
    BY <1>24, <2>3, <2>4 DEF RunTrap, TypeOK
<1>25. CASE EndPending
  <2>1. stack' \in Seq(Frames)
    BY <1>25, TopType DEF EndPending, Scanning
  <2> QED
    BY <1>25, <2>1 DEF EndPending, TypeOK
<1>26. CASE Chosen
  BY <1>26, <1>5, <1>6, <1>7, <1>8, <1>9, <1>10, <1>11 DEF Chosen
<1>27. CASE Scan
  BY <1>27, <1>17, <1>18, <1>19, <1>20, <1>21, <1>22, <1>23, <1>24, <1>25 DEF Scan
<1>28. CASE Finish
  BY <1>28, <1>12, <1>13, <1>14, <1>15 DEF Finish
<1> QED
  BY <1>1, <1>16, <1>26, <1>27, <1>28 DEF Next

\* The types hold of a shell that starts.
LEMMA TypeInit ==
  ASSUME Init
  PROVE  TypeOK
<1>1. DEFAULT_SIG \in Commands \cup Sentinels /\ {} \in SUBSET Flags /\ "running" \in Fates
  BY DEF Sentinels, Fates
<1>2. <<>> \in Seq(Frames) /\ 0 \in 0 .. NSIG
  BY SignalsAssumption
<1>3. /\ trap_list \in [Signals -> Commands \cup Sentinels]
      /\ sigmodes \in [Signals -> SUBSET Flags]
  BY <1>1 DEF Init
<1>4. /\ pending_traps \in [Signals -> Nat]
      /\ catch_flag \in BOOLEAN /\ running_trap \in 0 .. NSIG
      /\ events \in Nat
  BY <1>2 DEF Init
<1>5. stack \in Seq(Frames) /\ fate \in Fates
  BY <1>1, <1>2 DEF Init
<1> QED
  BY <1>3, <1>4, <1>5 DEF TypeOK

\* The tables and the stack of activations keep their types, whatever signals
\* arrive and however the handlers nest.
THEOREM TypeCorrect == Spec => []TypeOK
<1>1. Init => TypeOK
  BY TypeInit
<1>2. TypeOK /\ [Next]_vars => TypeOK'
  BY TypeStep
<1> QED
  BY <1>1, <1>2, PTL DEF Spec

(***************************************************************************)
(* A caught signal stays noticed                                           *)
(***************************************************************************)
\* Activations below the top are not touched by pushing, ...
LEMMA PushKeeps ==
  ASSUME TypeOK, NEW f \in Frames, stack' = Append(stack, f), NEW s \in Signals,
         WillLookAt(s)
  PROVE  WillLookAt(s)'
<1>1. PICK i \in DOMAIN stack : LooksAt(stack[i], s)
  BY DEF WillLookAt
<1>2. /\ stack' \in Seq(Frames) /\ Len(stack) \in Nat /\ Len(stack') = Len(stack) + 1
      /\ \A j \in 1 .. Len(stack) : stack'[j] = stack[j]
  BY PushStack DEF TypeOK
<1>3. i \in 1 .. Len(stack)
  BY DEF TypeOK
<1>4. i \in DOMAIN stack' /\ stack'[i] = stack[i]
  BY <1>2, <1>3
<1>5. LooksAt(stack'[i], s)
  BY <1>1, <1>4
<1> QED
  BY <1>4, <1>5 DEF WillLookAt

\* ... and a new run_pending_traps will look at every signal.
LEMMA PushLooks ==
  ASSUME TypeOK, NEW f \in Frames, stack' = Append(stack, f), NEW s, LooksAt(f, s)
  PROVE  WillLookAt(s)'
<1>1. /\ stack' \in Seq(Frames) /\ Len(stack) \in Nat /\ Len(stack') = Len(stack) + 1
      /\ stack'[Len(stack) + 1] = f
  BY PushStack DEF TypeOK
<1>2. Len(stack) + 1 \in DOMAIN stack'
  BY <1>1
<1>3. LooksAt(stack'[Len(stack) + 1], s)
  BY <1>1
<1> QED
  BY <1>2, <1>3 DEF WillLookAt

\* Replacing the top keeps what the new top still looks at, ...
LEMMA RetopKeeps ==
  ASSUME TypeOK, stack # <<>>, NEW f \in Frames, NEW base, base = Retop(f), NEW s,
         LooksAt(Top, s) => LooksAt(f, s), WillLookAt(s)
  PROVE  base \in Seq(Frames) /\ \E j \in DOMAIN base : LooksAt(base[j], s)
<1>1. PICK i \in DOMAIN stack : LooksAt(stack[i], s)
  BY DEF WillLookAt
<1>2. /\ base \in Seq(Frames) /\ Len(base) = Len(stack)
      /\ \A j \in 1 .. Len(stack) - 1 : base[j] = stack[j]
      /\ base[Len(stack)] = f
  BY ReplaceTop DEF TypeOK, Retop
<1>3. Len(stack) \in Nat /\ i \in 1 .. Len(stack) /\ DOMAIN base = 1 .. Len(stack)
  BY <1>2 DEF TypeOK
<1>4. CASE i = Len(stack)
  <2>1. LooksAt(base[i], s)
    BY <1>1, <1>2, <1>4 DEF Top
  <2> QED
    BY <2>1, <1>2, <1>3
<1>5. CASE i # Len(stack)
  <2>1. i \in 1 .. Len(stack) - 1
    BY <1>3, <1>5
  <2>2. LooksAt(base[i], s)
    BY <1>1, <1>2, <2>1
  <2> QED
    BY <2>2, <1>2, <1>3
<1> QED
  BY <1>4, <1>5

\* ... and removing it what the top did not look at.
LEMMA PopKeeps ==
  ASSUME TypeOK, stack # <<>>, stack' = Below, NEW s, ~LooksAt(Top, s), WillLookAt(s)
  PROVE  WillLookAt(s)'
<1>1. PICK i \in DOMAIN stack : LooksAt(stack[i], s)
  BY DEF WillLookAt
<1>2. /\ stack' \in Seq(Frames) /\ Len(stack') = Len(stack) - 1
      /\ \A j \in 1 .. Len(stack) - 1 : stack'[j] = stack[j]
  BY PopStack DEF TypeOK, Below
<1>3. Len(stack) \in Nat /\ i \in 1 .. Len(stack) /\ i # Len(stack)
  BY <1>1 DEF TypeOK, Top
<1>4. i \in 1 .. Len(stack) - 1
  BY <1>3
<1>5. i \in DOMAIN stack' /\ LooksAt(stack'[i], s)
  BY <1>1, <1>2, <1>4
<1> QED
  BY <1>5 DEF WillLookAt

\* Going on to the next signal loses sight of the present one only.
LEMMA NextSignalKeeps ==
  ASSUME TypeOK, stack # <<>>, Top.sig \in Signals, Top.fn = "run_pending_traps",
         stack' = NextSignal, NEW s \in Signals,
         s # Top.sig \/ Top.pc \notin {"test", "clear"}, WillLookAt(s)
  PROVE  WillLookAt(s)'
<1> DEFINE f == PendingFrame("test", Top.sig + 1, Top.old, 0)
<1>1. f \in Frames
  <2>1. Top.sig + 1 \in 1 .. NSIG /\ Top.old \in 0 .. NSIG
    BY TopType, SignalsAssumption DEF Signals
  <2> QED
    BY <2>1, FrameTypes
<1>2. LooksAt(Top, s) => LooksAt(f, s)
  BY SignalsAssumption DEF LooksAt, PendingFrame, Signals
<1>3. stack' = Retop(f)
  BY DEF NextSignal
<1> HIDE DEF f
<1>4. \E j \in DOMAIN stack' : LooksAt(stack'[j], s)
  BY <1>1, <1>2, <1>3, RetopKeeps
<1> QED
  BY <1>4 DEF WillLookAt

\* run_sigchld_trap starts above base, or ends the shell with base as its stack.
LEMMA RunChildKeeps ==
  ASSUME NEW base \in Seq(Frames), NEW n \in Nat, TypeOK, run_sigchld_trap(base, n),
         NEW s, \E j \in DOMAIN base : LooksAt(base[j], s)
  PROVE  WillLookAt(s)'
<1>1. CASE stack' = base
  BY <1>1 DEF WillLookAt
<1>2. CASE stack' = Append(base, ChildFrame(n, trap_list[SIGCHLD]))
  <2>1. ChildFrame(n, trap_list[SIGCHLD]) \in Frames
    BY FrameTypes, SignalsAssumption DEF TypeOK
  <2>2. PICK j \in DOMAIN base : LooksAt(base[j], s)
    OBVIOUS
  <2>3. /\ stack' \in Seq(Frames) /\ Len(base) \in Nat /\ Len(stack') = Len(base) + 1
        /\ \A k \in 1 .. Len(base) : stack'[k] = base[k]
    BY <1>2, <2>1, PushStack
  <2>4. j \in DOMAIN stack' /\ LooksAt(stack'[j], s)
    BY <2>2, <2>3
  <2> QED
    BY <2>4 DEF WillLookAt
<1> QED
  BY <1>1, <1>2 DEF run_sigchld_trap

\* Every step but the two exceptions keeps s noticed.
LEMMA NoticedStep ==
  ASSUME TypeOK, [Next]_vars, NEW s \in Signals, ~InterruptedCommand, ~TakeInterrupt,
         ~(s = SIGCHLD /\ ChildrenInProgress),
         pending_traps[s] = 0 \/ Noticed(s), pending_traps'[s] > 0
  PROVE  Noticed(s)'
<1>1. pending_traps[s] \in Nat
  BY DEF TypeOK
<1>2. ASSUME pending_traps' = pending_traps
      PROVE  Noticed(s)
  BY <1>1, <1>2
<1>3. ASSUME catch_flag' = catch_flag, Noticed(s), WillLookAt(s) => WillLookAt(s)'
      PROVE  Noticed(s)'
  BY <1>3 DEF Noticed
<1>4. ASSUME stack' = stack
      PROVE  WillLookAt(s) => WillLookAt(s)'
  BY <1>4 DEF WillLookAt
<1>5. CASE UNCHANGED vars
  BY <1>2, <1>3, <1>4, <1>5 DEF vars
<1>6. ASSUME NEW t, NEW n, set_trap_state(t, n)
      PROVE  Noticed(s)'
  BY <1>6 DEF set_trap_state, Noticed
<1>7. CASE Chosen
  <2>1. ASSUME NEW t \in Signals, NEW c \in Commands, SetTrap(t, c)
        PROVE  Noticed(s)'
    BY <1>2, <1>3, <1>4, <2>1 DEF SetTrap
  <2>2. ASSUME NEW t \in Signals, IgnoreTrap(t)
        PROVE  Noticed(s)'
    BY <1>2, <1>3, <1>4, <2>2 DEF IgnoreTrap
  <2>3. ASSUME NEW t \in Signals, ResetTrap(t)
        PROVE  Noticed(s)'
    BY <1>2, <1>3, <1>4, <2>3 DEF ResetTrap
  <2>4. ASSUME NEW t \in Signals, trap_handler(t)
        PROVE  Noticed(s)'
    BY <1>6, <2>4 DEF trap_handler
  <2>5. ASSUME NEW n \in 1 .. MaxEvents, queue_sigchld_trap(n)
        PROVE  Noticed(s)'
    BY <1>6, <2>5 DEF queue_sigchld_trap
  <2>6. ASSUME NEW n \in 1 .. MaxEvents, WaitRunsTrap(n)
        PROVE  Noticed(s)'
    <3>1. /\ UNCHANGED <<pending_traps, catch_flag>>
          /\ run_sigchld_trap(stack, n) /\ n \in Nat /\ stack \in Seq(Frames)
      BY <2>6 DEF WaitRunsTrap, TypeOK
    <3>2. WillLookAt(s) => WillLookAt(s)'
      <4>1. SUFFICES ASSUME WillLookAt(s) PROVE WillLookAt(s)'
        OBVIOUS
      <4>2. \E j \in DOMAIN stack : LooksAt(stack[j], s)
        BY <4>1 DEF WillLookAt
      <4> QED
        BY <3>1, <4>2, RunChildKeeps
    <3> QED
      BY <1>2, <1>3, <3>1, <3>2
  <2> QED
    BY <1>7, <2>1, <2>2, <2>3, <2>4, <2>5, <2>6 DEF Chosen
<1>8. CASE run_pending_traps
  <2>1. PendingFrame("test", 1, running_trap, 0) \in Frames
    BY FrameTypes, SignalsAssumption DEF TypeOK, Signals
  <2>2. LooksAt(PendingFrame("test", 1, running_trap, 0), s)
    BY SignalsAssumption DEF LooksAt, PendingFrame, Signals
  <2>3. WillLookAt(s)'
    BY <1>8, <2>1, <2>2, PushLooks DEF run_pending_traps
  <2> QED
    BY <2>3 DEF Noticed
<1>9. ASSUME NEW t \in Signals, pending_traps' = [pending_traps EXCEPT ![t] = 0]
      PROVE  s # t /\ Noticed(s)
  <2>1. s # t
    BY <1>9 DEF TypeOK
  <2>2. pending_traps'[s] = pending_traps[s]
    BY <1>9, <2>1 DEF TypeOK
  <2> QED
    BY <1>1, <2>1, <2>2
<1>10. ASSUME stack # <<>>, Top.sig \in Signals, Top.fn = "run_pending_traps",
              stack' = NextSignal, s # Top.sig \/ Top.pc \notin {"test", "clear"}
       PROVE  WillLookAt(s) => WillLookAt(s)'
  BY <1>10, NextSignalKeeps
<1>11. ASSUME stack # <<>>, stack' = Below, ~LooksAt(Top, s)
       PROVE  WillLookAt(s) => WillLookAt(s)'
  BY <1>11, PopKeeps
<1>12. ASSUME stack # <<>>, NEW f \in Frames, stack' = Retop(f),
              LooksAt(Top, s) => LooksAt(f, s)
       PROVE  WillLookAt(s) => WillLookAt(s)'
  <2>1. SUFFICES ASSUME WillLookAt(s) PROVE WillLookAt(s)'
    OBVIOUS
  <2>2. \E j \in DOMAIN stack' : LooksAt(stack'[j], s)
    BY <1>12, <2>1, RetopKeeps
  <2> QED
    BY <2>2 DEF WillLookAt
<1>13. CASE NotPending
  <2>1. /\ stack # <<>> /\ Top.sig \in Signals /\ Top.fn = "run_pending_traps"
        /\ stack' = NextSignal /\ pending_traps[Top.sig] = 0
        /\ UNCHANGED <<pending_traps, catch_flag>>
    BY <1>13 DEF NotPending, Scanning
  <2>2. s # Top.sig /\ Noticed(s)
    BY <1>1, <2>1
  <2> QED
    BY <1>3, <1>10, <2>1, <2>2
<1>14. CASE TakeChildren
  <2> DEFINE f == PendingFrame("clear", SIGCHLD, Top.old, pending_traps[SIGCHLD])
  <2>1. /\ stack # <<>> /\ Top.sig = SIGCHLD /\ Top.fn = "run_pending_traps"
        /\ stack' = Retop(f) /\ UNCHANGED <<pending_traps, catch_flag>>
    BY <1>14 DEF TakeChildren, Pending, Scanning
  <2>2. Top.old \in 0 .. NSIG /\ pending_traps[SIGCHLD] \in Nat /\ SIGCHLD \in Signals
    BY <2>1, TopType, SignalsAssumption DEF TypeOK
  <2>3. f \in Frames
    BY <2>2, FrameTypes
  <2>4. LooksAt(Top, s) => LooksAt(f, s)
    BY <2>1 DEF LooksAt, PendingFrame
  <2> HIDE DEF f
  <2> QED
    BY <1>2, <1>3, <1>12, <2>1, <2>3, <2>4
<1>15. CASE RunChildren
  <2> DEFINE f == PendingFrame("return", SIGCHLD, Top.old, 0)
  <2>1. /\ stack # <<>> /\ Top.fn = "run_pending_traps" /\ Top.pc = "clear"
        /\ pending_traps' = [pending_traps EXCEPT ![SIGCHLD] = 0]
        /\ run_sigchld_trap(Retop(f), Top.n) /\ catch_flag' = catch_flag
    BY <1>15 DEF RunChildren, Scanning
  <2>2. Top.old \in 0 .. NSIG /\ Top.n \in Nat /\ SIGCHLD \in Signals
    BY <2>1, TopType, SignalsAssumption
  <2>3. f \in Frames
    BY <2>2, FrameTypes
  <2>4. s # SIGCHLD /\ Noticed(s)
    BY <1>9, <2>1, <2>2
  <2>5. Top.sig = SIGCHLD
    BY <2>1, TopType
  <2>6. LooksAt(Top, s) => LooksAt(f, s)
    BY <2>4, <2>5 DEF LooksAt, PendingFrame
  <2> HIDE DEF f
  <2>7. WillLookAt(s) => WillLookAt(s)'
    <3>1. SUFFICES ASSUME WillLookAt(s) PROVE WillLookAt(s)'
      OBVIOUS
    <3>2. /\ Retop(f) \in Seq(Frames)
          /\ \E j \in DOMAIN Retop(f) : LooksAt(Retop(f)[j], s)
      BY <2>1, <2>3, <2>6, <3>1, RetopKeeps
    <3> QED
      BY <2>1, <2>2, <3>2, RunChildKeeps
  <2> QED
    BY <1>3, <2>1, <2>4, <2>7
<1>16. CASE EndChildren
  <2>1. /\ stack # <<>> /\ Top.sig \in Signals /\ Top.fn = "run_pending_traps"
        /\ Top.pc \notin {"test", "clear"} /\ stack' = NextSignal
        /\ UNCHANGED <<pending_traps, catch_flag>>
    BY <1>16, SignalsAssumption DEF EndChildren, Scanning
  <2> QED
    BY <1>2, <1>3, <1>10, <2>1
<1>17. CASE ChildrenInProgress
  <2>1. /\ stack # <<>> /\ Top.sig \in Signals /\ Top.fn = "run_pending_traps"
        /\ s # Top.sig /\ stack' = NextSignal
        /\ UNCHANGED <<pending_traps, catch_flag>>
    BY <1>17 DEF ChildrenInProgress, Pending, Scanning
  <2> QED
    BY <1>2, <1>3, <1>10, <2>1
<1>18. CASE BadTrap
  <2>1. /\ stack # <<>> /\ Top.sig \in Signals /\ Top.fn = "run_pending_traps"
        /\ pending_traps' = [pending_traps EXCEPT ![Top.sig] = 0]
        /\ stack' = NextSignal /\ catch_flag' = catch_flag
    BY <1>18 DEF BadTrap, Ordinary, Pending, Scanning
  <2>2. s # Top.sig /\ Noticed(s)
    BY <1>9, <2>1
  <2> QED
    BY <1>3, <1>10, <2>1, <2>2
<1>19. CASE RunTrap
  <2> DEFINE f == PendingFrame("trap", Top.sig, Top.old, 0)
  <2>1. /\ stack # <<>> /\ Top.sig \in Signals /\ Top.fn = "run_pending_traps"
        /\ pending_traps' = [pending_traps EXCEPT ![Top.sig] = 0]
        /\ stack' = Retop(f) /\ catch_flag' = catch_flag
    BY <1>19 DEF RunTrap, Ordinary, Pending, Scanning
  <2>2. s # Top.sig /\ Noticed(s)
    BY <1>9, <2>1
  <2>3. f \in Frames
    BY <2>1, TopType, FrameTypes
  <2>4. LooksAt(Top, s) => LooksAt(f, s)
    BY <2>2 DEF LooksAt, PendingFrame
  <2> HIDE DEF f
  <2> QED
    BY <1>3, <1>12, <2>1, <2>2, <2>3, <2>4
<1>20. CASE EndPending
  <2>1. stack # <<>> /\ Top.sig = NSIG /\ stack' = Below /\ UNCHANGED <<pending_traps, catch_flag>>
    BY <1>20 DEF EndPending, Scanning
  <2>2. ~LooksAt(Top, s)
    BY <2>1, SignalsAssumption DEF LooksAt, Signals
  <2> QED
    BY <1>2, <1>3, <1>11, <2>1, <2>2
<1>21. CASE NextChild
  <2> DEFINE f == ChildFrame(Top.n - 1, Top.command)
  <2>1. /\ stack # <<>> /\ Top.fn = "run_sigchld_trap" /\ Top.n > 1
        /\ stack' = Retop(f) /\ UNCHANGED <<pending_traps, catch_flag>>
    BY <1>21 DEF NextChild
  <2>2. Top.n - 1 \in Nat /\ Top.command \in Commands \cup Sentinels
    BY <2>1, TopType
  <2>3. f \in Frames
    BY <2>2, FrameTypes
  <2>4. ~LooksAt(Top, s)
    BY <2>1 DEF LooksAt
  <2> HIDE DEF f
  <2> QED
    BY <1>2, <1>3, <1>12, <2>1, <2>3, <2>4
<1>22. CASE LastChild \/ EndInterruptTrap
  <2>1. /\ stack # <<>> /\ Top.fn # "run_pending_traps" /\ stack' = Below
        /\ UNCHANGED <<pending_traps, catch_flag>>
    BY <1>22 DEF LastChild, EndInterruptTrap
  <2>2. ~LooksAt(Top, s)
    BY <2>1 DEF LooksAt
  <2> QED
    BY <1>2, <1>3, <1>11, <2>1, <2>2
<1>23. CASE EndTrap
  <2>1. /\ stack # <<>> /\ Top.fn = "run_pending_traps" /\ Top.pc # "test"
        /\ pending_traps' = [pending_traps EXCEPT ![Top.sig] = 0]
        /\ stack' = NextSignal /\ catch_flag' = catch_flag
    BY <1>23 DEF EndTrap, Scanning
  <2>2. Top.sig \in Signals
    BY <2>1, TopType
  <2>3. s # Top.sig /\ Noticed(s)
    BY <1>9, <2>1, <2>2
  <2> QED
    BY <1>3, <1>10, <2>1, <2>2, <2>3
<1>24. CASE Scan
  BY <1>24, <1>13, <1>14, <1>15, <1>16, <1>17, <1>18, <1>19, <1>20 DEF Scan
<1>25. CASE Finish
  BY <1>25, <1>21, <1>22, <1>23 DEF Finish
<1> QED
  BY <1>5, <1>7, <1>8, <1>24, <1>25 DEF Next

\* A caught signal stays noticed until it is dealt with, for every set of
\* signals, every depth of nesting and every number of signals: only running
\* the SIGINT trap, and skipping SIGCHLD in its own handler, lose sight of one.
THEOREM CaughtStaysNoticed == Spec => LosesSightOnlyThere
<1>1. TypeOK /\ [Next]_vars => [\A s \in Signals : StaysNoticed(s)]_vars
  <2> SUFFICES ASSUME TypeOK, [Next]_vars, NEW s \in Signals
               PROVE  StaysNoticed(s)
    OBVIOUS
  <2> QED
    BY NoticedStep DEF StaysNoticed
<1> QED
  BY <1>1, TypeCorrect, PTL DEF Spec, LosesSightOnlyThere
(***************************************************************************)
(* What each step does to the stack                                        *)
(***************************************************************************)
Depth == 1 .. Len(stack)

Same(n) == \A i \in 1 .. n : stack'[i] = stack[i]

Still == stack' = stack

Pushed(f) ==
  /\ f \in Frames
  /\ Len(stack') = Len(stack) + 1
  /\ Same(Len(stack))
  /\ stack'[Len(stack) + 1] = f

Swapped(f) ==
  /\ f \in Frames
  /\ Len(stack') = Len(stack)
  /\ Same(Len(stack) - 1)
  /\ stack'[Len(stack)] = f

\* The top goes on as g once the activation f above it has returned.
Called(g, f) ==
  /\ g \in Frames /\ f \in Frames
  /\ Len(stack') = Len(stack) + 1
  /\ Same(Len(stack) - 1)
  /\ stack'[Len(stack)] = g
  /\ stack'[Len(stack) + 1] = f

Popped ==
  /\ Len(stack') = Len(stack) - 1
  /\ Same(Len(stack) - 1)

\* The four ways to change the stack, from the operators of Sequences.
LEMMA Moves ==
  ASSUME TypeOK
  PROVE  /\ \A f \in Frames : stack' = Append(stack, f) => Pushed(f)
         /\ stack # <<>> =>
              /\ \A f \in Frames : stack' = Retop(f) => Swapped(f)
              /\ \A g, f \in Frames : stack' = Append(Retop(g), f) => Called(g, f)
              /\ stack' = Below => Popped
<1>1. ASSUME NEW f \in Frames, stack' = Append(stack, f)
      PROVE  Pushed(f)
  BY <1>1, PushStack DEF TypeOK, Pushed, Same
<1>2. ASSUME stack # <<>>, NEW f \in Frames, stack' = Retop(f)
      PROVE  Swapped(f)
  BY <1>2, ReplaceTop DEF TypeOK, Swapped, Same, Retop
<1>3. ASSUME stack # <<>>, NEW g \in Frames, NEW f \in Frames, stack' = Append(Retop(g), f)
      PROVE  Called(g, f)
  <2>1. PICK base : base = Retop(g)
    OBVIOUS
  <2>2. /\ base \in Seq(Frames) /\ Len(base) = Len(stack)
        /\ \A i \in 1 .. Len(stack) - 1 : base[i] = stack[i]
        /\ base[Len(stack)] = g
    BY <1>3, <2>1, ReplaceTop DEF TypeOK, Retop
  <2>3. /\ Len(stack') = Len(base) + 1
        /\ \A i \in 1 .. Len(base) : stack'[i] = base[i]
        /\ stack'[Len(base) + 1] = f
    BY <1>3, <2>1, <2>2, PushStack
  <2>4. Len(stack) \in Nat /\ Len(stack) >= 1
    BY <1>3, TopOfStack DEF TypeOK
  <2>5. stack'[Len(stack)] = g /\ Same(Len(stack) - 1)
    BY <2>2, <2>3, <2>4 DEF Same
  <2> QED
    BY <2>2, <2>3, <2>5 DEF Called
<1>4. ASSUME stack # <<>>, stack' = Below
      PROVE  Popped
  BY <1>4, PopStack DEF TypeOK, Popped, Same, Below
<1> QED
  BY <1>1, <1>2, <1>3, <1>4

\* Moving on to the next signal, from any place in the loop.
LEMMA NextSignalMove ==
  ASSUME TypeOK, stack # <<>>, Top.sig \in Signals, stack' = NextSignal
  PROVE  Swapped(PendingFrame("test", Top.sig + 1, Top.old, 0))
<1>1. Top.sig + 1 \in 1 .. NSIG /\ Top.old \in 0 .. NSIG
  BY TopType, SignalsAssumption DEF Signals
<1>2. PendingFrame("test", Top.sig + 1, Top.old, 0) \in Frames
  BY <1>1, FrameTypes
<1> QED
  BY <1>2, Moves DEF NextSignal

\* The SIGCHLD trap starts above the stack, or the shell ends.
LEMMA WaitMove ==
  ASSUME TypeOK, NEW n \in 1 .. MaxEvents, WaitRunsTrap(n)
  PROVE  \/ Still /\ UNCHANGED <<trap_list, sigmodes, running_trap>>
         \/ /\ Pushed(ChildFrame(n, trap_list[SIGCHLD]))
            /\ trap_list[SIGCHLD] \in Commands
            /\ trap_list' = [trap_list EXCEPT ![SIGCHLD] = IMPOSSIBLE_TRAP_HANDLER]
            /\ sigmodes' = [sigmodes EXCEPT ![SIGCHLD] = @ \ {"TRAPPED", "IGNORED"}]
            /\ running_trap' = SIGCHLD + 1
<1>1. run_sigchld_trap(stack, n) /\ trap_list[SIGCHLD] # IMPOSSIBLE_TRAP_HANDLER
  BY DEF WaitRunsTrap
<1>2. CASE trap_list[SIGCHLD] \in {DEFAULT_SIG, IGNORE_SIG}
  BY <1>1, <1>2 DEF run_sigchld_trap, Still
<1>3. CASE trap_list[SIGCHLD] \notin {DEFAULT_SIG, IGNORE_SIG}
  <2>1. trap_list[SIGCHLD] \in Commands
    BY <1>1, <1>3, SignalsAssumption DEF TypeOK, Sentinels
  <2>2. n \in Nat /\ ChildFrame(n, trap_list[SIGCHLD]) \in Frames
    BY <2>1, FrameTypes
  <2>3. Pushed(ChildFrame(n, trap_list[SIGCHLD]))
    BY <1>1, <1>3, <2>2, Moves DEF run_sigchld_trap
  <2> QED
    BY <1>1, <1>3, <2>1, <2>3 DEF run_sigchld_trap
<1> QED
  BY <1>2, <1>3

LEMMA RunChildrenMove ==
  ASSUME TypeOK, RunChildren
  PROVE  \/ /\ Swapped(PendingFrame("return", SIGCHLD, Top.old, 0))
            /\ UNCHANGED <<trap_list, sigmodes, running_trap>>
         \/ /\ Called(PendingFrame("return", SIGCHLD, Top.old, 0),
                      ChildFrame(Top.n, trap_list[SIGCHLD]))
            /\ trap_list[SIGCHLD] \in Commands \cup {IMPOSSIBLE_TRAP_HANDLER}
            /\ trap_list' = [trap_list EXCEPT ![SIGCHLD] = IMPOSSIBLE_TRAP_HANDLER]
            /\ sigmodes' = [sigmodes EXCEPT ![SIGCHLD] = @ \ {"TRAPPED", "IGNORED"}]
            /\ running_trap' = SIGCHLD + 1
<1> DEFINE g == PendingFrame("return", SIGCHLD, Top.old, 0)
<1>1. run_sigchld_trap(Retop(g), Top.n) /\ stack # <<>>
  BY DEF RunChildren, Scanning
<1>2. Top.old \in 0 .. NSIG /\ Top.n \in Nat
  BY <1>1, TopType
<1>3. g \in Frames
  BY <1>2, FrameTypes, SignalsAssumption
<1> HIDE DEF g
<1>4. CASE trap_list[SIGCHLD] \in {DEFAULT_SIG, IGNORE_SIG}
  <2>1. stack' = Retop(g) /\ UNCHANGED <<trap_list, sigmodes, running_trap>>
    BY <1>1, <1>4 DEF run_sigchld_trap
  <2> QED
    BY <1>1, <1>3, <2>1, Moves DEF g
<1>5. CASE trap_list[SIGCHLD] \notin {DEFAULT_SIG, IGNORE_SIG}
  <2> DEFINE f == ChildFrame(Top.n, trap_list[SIGCHLD])
  <2>1. trap_list[SIGCHLD] \in Commands \cup {IMPOSSIBLE_TRAP_HANDLER}
    BY <1>5, SignalsAssumption DEF TypeOK, Sentinels
  <2>2. f \in Frames
    BY <1>2, <2>1, FrameTypes DEF Sentinels
  <2>3. /\ stack' = Append(Retop(g), f)
        /\ trap_list' = [trap_list EXCEPT ![SIGCHLD] = IMPOSSIBLE_TRAP_HANDLER]
        /\ sigmodes' = [sigmodes EXCEPT ![SIGCHLD] = @ \ {"TRAPPED", "IGNORED"}]
        /\ running_trap' = SIGCHLD + 1
    BY <1>1, <1>5 DEF run_sigchld_trap
  <2> HIDE DEF f
  <2>4. Called(g, f)
    BY <1>1, <1>3, <2>2, <2>3, Moves
  <2> QED
    BY <2>1, <2>3, <2>4 DEF f, g
<1> QED
  BY <1>4, <1>5

\* The SIGINT trap starts above the stack, or is not run.
LEMMA InterruptMove ==
  ASSUME TypeOK, InterruptedCommand
  PROVE  \/ Still /\ UNCHANGED <<trap_list, sigmodes, running_trap>>
         \/ /\ Pushed(InterruptFrame(running_trap, Has(SIGINT, "INPROGRESS")))
            /\ sigmodes' = [sigmodes EXCEPT ![SIGINT] = @ \cup {"INPROGRESS"}]
            /\ running_trap' = SIGINT + 1
            /\ UNCHANGED trap_list
<1> DEFINE f == InterruptFrame(running_trap, Has(SIGINT, "INPROGRESS"))
<1>1. _run_trap_internal(stack, running_trap) /\ UNCHANGED trap_list
  BY DEF InterruptedCommand, run_interrupt_trap
<1>2. f \in Frames
  <2>1. Has(SIGINT, "INPROGRESS") \in BOOLEAN
    BY DEF Has
  <2> QED
    BY <2>1, FrameTypes DEF TypeOK
<1>3. \/ stack' = stack /\ UNCHANGED <<trap_list, sigmodes, running_trap>>
      \/ /\ stack' = Append(stack, f)
         /\ sigmodes' = [sigmodes EXCEPT ![SIGINT] = @ \cup {"INPROGRESS"}]
         /\ running_trap' = SIGINT + 1
  BY <1>1 DEF _run_trap_internal
<1> HIDE DEF f
<1>4. stack' = Append(stack, f) => Pushed(f)
  BY <1>2, Moves
<1> QED
  BY <1>1, <1>3, <1>4 DEF Still, f

LEMMA TakeInterruptMove ==
  ASSUME TypeOK, TakeInterrupt
  PROVE  \/ /\ Swapped(PendingFrame("return", SIGINT, Top.old, 0))
            /\ running_trap' = SIGINT + 1
            /\ UNCHANGED <<trap_list, sigmodes>>
         \/ /\ Called(PendingFrame("return", SIGINT, Top.old, 0),
                      InterruptFrame(SIGINT + 1, Has(SIGINT, "INPROGRESS")))
            /\ sigmodes' = [sigmodes EXCEPT ![SIGINT] = @ \cup {"INPROGRESS"}]
            /\ running_trap' = SIGINT + 1
            /\ UNCHANGED trap_list
<1> DEFINE g == PendingFrame("return", SIGINT, Top.old, 0)
           f == InterruptFrame(SIGINT + 1, Has(SIGINT, "INPROGRESS"))
<1>1. _run_trap_internal(Retop(g), SIGINT + 1) /\ UNCHANGED trap_list /\ stack # <<>>
  BY DEF TakeInterrupt, run_interrupt_trap, Pending, Scanning
<1>2. g \in Frames
  BY <1>1, TopType, FrameTypes, SignalsAssumption
<1>3. SIGINT + 1 \in 0 .. NSIG
  BY SignalsAssumption DEF Signals
<1>4. f \in Frames
  <2>1. Has(SIGINT, "INPROGRESS") \in BOOLEAN
    BY DEF Has
  <2> QED
    BY <1>3, <2>1, FrameTypes
<1>5. \/ stack' = Retop(g) /\ running_trap' = SIGINT + 1 /\ UNCHANGED sigmodes
      \/ /\ stack' = Append(Retop(g), f)
         /\ sigmodes' = [sigmodes EXCEPT ![SIGINT] = @ \cup {"INPROGRESS"}]
         /\ running_trap' = SIGINT + 1
  BY <1>1 DEF _run_trap_internal
<1> HIDE DEF f, g
<1>6. /\ stack' = Retop(g) => Swapped(g)
      /\ stack' = Append(Retop(g), f) => Called(g, f)
  BY <1>1, <1>2, <1>4, Moves
<1> QED
  BY <1>1, <1>5, <1>6 DEF f, g

\* The moves of the other steps.
LEMMA TakeChildrenMove ==
  ASSUME TypeOK, TakeChildren
  PROVE  Swapped(PendingFrame("clear", SIGCHLD, Top.old, pending_traps[SIGCHLD]))
<1>1. stack # <<>> /\ pending_traps[SIGCHLD] \in Nat
  BY SignalsAssumption DEF TakeChildren, Pending, Scanning, TypeOK
<1>2. PendingFrame("clear", SIGCHLD, Top.old, pending_traps[SIGCHLD]) \in Frames
  BY <1>1, TopType, FrameTypes
<1> QED
  BY <1>1, <1>2, Moves DEF TakeChildren

LEMMA RunTrapMove ==
  ASSUME TypeOK, RunTrap
  PROVE  Swapped(PendingFrame("trap", Top.sig, Top.old, 0))
<1>1. stack # <<>> /\ Top.sig \in Signals
  BY DEF RunTrap, Ordinary, Pending, Scanning
<1>2. PendingFrame("trap", Top.sig, Top.old, 0) \in Frames
  BY <1>1, TopType, FrameTypes
<1> QED
  BY <1>1, <1>2, Moves DEF RunTrap

LEMMA NextChildMove ==
  ASSUME TypeOK, NextChild
  PROVE  Swapped(ChildFrame(Top.n - 1, Top.command))
<1>1. stack # <<>> /\ Top.n \in Nat /\ Top.n > 1 /\ Top.command \in Commands \cup Sentinels
  BY TopType DEF NextChild
<1>2. ChildFrame(Top.n - 1, Top.command) \in Frames
  BY <1>1, FrameTypes
<1> QED
  BY <1>1, <1>2, Moves DEF NextChild

LEMMA RunPendingMove ==
  ASSUME TypeOK, run_pending_traps
  PROVE  Pushed(PendingFrame("test", 1, running_trap, 0))
<1>1. PendingFrame("test", 1, running_trap, 0) \in Frames
  BY FrameTypes, SignalsAssumption DEF TypeOK, Signals
<1> QED
  BY <1>1, Moves DEF run_pending_traps

LEMMA PopMove ==
  ASSUME TypeOK, EndPending \/ LastChild \/ EndInterruptTrap
  PROVE  Popped /\ stack # <<>>
BY Moves DEF EndPending, LastChild, EndInterruptTrap, Scanning

(***************************************************************************)
(* SIG_INPROGRESS                                                          *)
(***************************************************************************)
\* The activations that hold SIG_INPROGRESS of their signal.
AtChildren(frame) ==
  frame.fn = "run_pending_traps" /\ frame.pc \in {"clear", "return"} /\ frame.sig = SIGCHLD

Internal(frame) == frame.fn = "_run_trap_internal"

SomeAtChildren(n) == \E i \in 1 .. n : AtChildren(stack[i])

SomeInternal(n) == \E i \in 1 .. n : Internal(stack[i])

\* Above n activations there may be frame: only one run_pending_traps is at
\* SIGCHLD, however deep the handlers nest, and of those that run the SIGINT
\* trap only the lowest will clear the flag.
Fits(frame, n) ==
  /\ AtChildren(frame) => ~SomeAtChildren(n)
  /\ Internal(frame) => (frame.n = 0 <=> ~SomeInternal(n))

Ordered(n) == \A i \in 1 .. n : Fits(stack[i], i - 1)

InProgressInv ==
  /\ Ordered(Len(stack))
  /\ Has(SIGCHLD, "INPROGRESS") <=> SomeAtChildren(Len(stack))
  /\ Has(SIGINT, "INPROGRESS") <=> SomeInternal(Len(stack))

LEMMA OneMore ==
  ASSUME NEW n \in Nat
  PROVE  /\ Ordered(n + 1) <=> Ordered(n) /\ Fits(stack[n + 1], n)
         /\ SomeAtChildren(n + 1) <=> SomeAtChildren(n) \/ AtChildren(stack[n + 1])
         /\ SomeInternal(n + 1) <=> SomeInternal(n) \/ Internal(stack[n + 1])
         /\ Ordered(n + 1)' <=> Ordered(n)' /\ Fits(stack[n + 1], n)'
         /\ SomeAtChildren(n + 1)' <=> SomeAtChildren(n)' \/ AtChildren(stack[n + 1])'
         /\ SomeInternal(n + 1)' <=> SomeInternal(n)' \/ Internal(stack[n + 1])'
<1>1. 1 .. n + 1 = (1 .. n) \cup {n + 1} /\ n + 1 - 1 = n
  OBVIOUS
<1>2. /\ SomeAtChildren(n + 1) <=> SomeAtChildren(n) \/ AtChildren(stack[n + 1])
      /\ SomeAtChildren(n + 1)' <=> SomeAtChildren(n)' \/ AtChildren(stack[n + 1])'
  BY ONLY <1>1 DEF SomeAtChildren
<1>3. /\ SomeInternal(n + 1) <=> SomeInternal(n) \/ Internal(stack[n + 1])
      /\ SomeInternal(n + 1)' <=> SomeInternal(n)' \/ Internal(stack[n + 1])'
  BY ONLY <1>1 DEF SomeInternal
<1>4. Ordered(n + 1) <=> Ordered(n) /\ Fits(stack[n + 1], n)
  BY ONLY <1>1 DEF Ordered
<1>5. Ordered(n + 1)' <=> Ordered(n)' /\ Fits(stack[n + 1], n)'
  BY ONLY <1>1 DEF Ordered
<1> QED
  BY ONLY <1>2, <1>3, <1>4, <1>5

LEMMA SameHolders ==
  ASSUME NEW n \in Nat, Same(n)
  PROVE  /\ Ordered(n)' <=> Ordered(n)
         /\ SomeAtChildren(n)' <=> SomeAtChildren(n)
         /\ SomeInternal(n)' <=> SomeInternal(n)
<1>1. ASSUME NEW i \in 0 .. n
      PROVE  /\ SomeAtChildren(i)' <=> SomeAtChildren(i)
             /\ SomeInternal(i)' <=> SomeInternal(i)
  BY <1>1 DEF SomeAtChildren, SomeInternal, AtChildren, Internal, Same
<1>2. ASSUME NEW i \in 1 .. n
      PROVE  Fits(stack[i], i - 1)' <=> Fits(stack[i], i - 1)
  <2>1. i - 1 \in 0 .. n /\ stack'[i] = stack[i]
    BY <1>2 DEF Same
  <2> QED
    BY <1>1, <2>1 DEF Fits, AtChildren, Internal
<1>3. Ordered(n)' <=> Ordered(n)
  BY <1>2 DEF Ordered
<1> QED
  BY <1>1, <1>3

\* What the activations hold, at the top and below it.
LEMMA TopHolder ==
  ASSUME TypeOK, stack # <<>>, Ordered(Len(stack))
  PROVE  /\ Len(stack) - 1 \in Nat
         /\ Ordered(Len(stack) - 1) /\ Fits(Top, Len(stack) - 1)
         /\ SomeAtChildren(Len(stack)) <=> SomeAtChildren(Len(stack) - 1) \/ AtChildren(Top)
         /\ SomeInternal(Len(stack)) <=> SomeInternal(Len(stack) - 1) \/ Internal(Top)
<1>1. Len(stack) - 1 \in Nat /\ Len(stack) - 1 + 1 = Len(stack)
  BY TopOfStack DEF TypeOK
<1>2. PICK n \in Nat : n = Len(stack) - 1 /\ n + 1 = Len(stack)
  BY <1>1
<1> QED
  BY <1>2, OneMore DEF Top

LEMMA PushedHolders ==
  ASSUME TypeOK, NEW f, Pushed(f), Ordered(Len(stack)), Fits(f, Len(stack))
  PROVE  /\ Ordered(Len(stack))'
         /\ SomeAtChildren(Len(stack))' <=> SomeAtChildren(Len(stack)) \/ AtChildren(f)
         /\ SomeInternal(Len(stack))' <=> SomeInternal(Len(stack)) \/ Internal(f)
<1>1. Len(stack) \in Nat
  BY DEF TypeOK
<1>2. PICK n \in Nat : n = Len(stack)
  BY <1>1
<1>3. Len(stack') = n + 1 /\ stack'[n + 1] = f /\ Same(n)
  BY <1>2 DEF Pushed
<1>4. Fits(stack[n + 1], n)' <=> Fits(f, n)
  BY <1>3, SameHolders DEF Fits, AtChildren, Internal
<1>5. /\ AtChildren(stack[n + 1])' <=> AtChildren(f)
      /\ Internal(stack[n + 1])' <=> Internal(f)
  BY <1>3 DEF AtChildren, Internal
<1>6. /\ Ordered(n + 1)'
      /\ SomeAtChildren(n + 1)' <=> SomeAtChildren(n) \/ AtChildren(f)
      /\ SomeInternal(n + 1)' <=> SomeInternal(n) \/ Internal(f)
  BY <1>2, <1>3, <1>4, <1>5, OneMore, SameHolders
<1> QED
  BY ONLY <1>2, <1>3, <1>6

LEMMA SwappedHolders ==
  ASSUME TypeOK, stack # <<>>, NEW f, Swapped(f), Ordered(Len(stack)),
         Fits(f, Len(stack) - 1)
  PROVE  /\ Ordered(Len(stack))'
         /\ SomeAtChildren(Len(stack))' <=> SomeAtChildren(Len(stack) - 1) \/ AtChildren(f)
         /\ SomeInternal(Len(stack))' <=> SomeInternal(Len(stack) - 1) \/ Internal(f)
<1>1. PICK n \in Nat : n = Len(stack) - 1 /\ n + 1 = Len(stack) /\ Ordered(n)
  BY TopHolder, TopOfStack DEF TypeOK
<1>2. Len(stack') = n + 1 /\ stack'[n + 1] = f /\ Same(n)
  BY <1>1 DEF Swapped
<1>3. Fits(stack[n + 1], n)' <=> Fits(f, n)
  BY <1>2, SameHolders DEF Fits, AtChildren, Internal
<1> QED
  BY <1>1, <1>2, <1>3, OneMore, SameHolders DEF AtChildren, Internal

LEMMA CalledHolders ==
  ASSUME TypeOK, stack # <<>>, NEW g, NEW f, Called(g, f), Ordered(Len(stack)),
         Fits(g, Len(stack) - 1), ~Internal(g), ~AtChildren(f), Fits(f, Len(stack) - 1)
  PROVE  /\ Ordered(Len(stack))'
         /\ SomeAtChildren(Len(stack))' <=> SomeAtChildren(Len(stack) - 1) \/ AtChildren(g)
         /\ SomeInternal(Len(stack))' <=> SomeInternal(Len(stack) - 1) \/ Internal(f)
<1>1. PICK n \in Nat : n = Len(stack) - 1 /\ n + 1 = Len(stack) /\ Ordered(n)
  BY TopHolder, TopOfStack DEF TypeOK
<1>2. /\ Len(stack') = n + 1 + 1 /\ n + 1 \in Nat
      /\ stack'[n + 1] = g /\ stack'[n + 1 + 1] = f /\ Same(n)
  BY <1>1 DEF Called
<1>3. /\ Fits(stack[n + 1], n)' <=> Fits(g, n)
      /\ AtChildren(stack[n + 1])' <=> AtChildren(g)
      /\ Internal(stack[n + 1])' <=> Internal(g)
  BY <1>2, SameHolders DEF Fits, AtChildren, Internal
<1>4. /\ Ordered(n + 1)'
      /\ SomeAtChildren(n + 1)' <=> SomeAtChildren(n) \/ AtChildren(g)
      /\ SomeInternal(n + 1)' <=> SomeInternal(n)
  BY <1>1, <1>2, <1>3, OneMore, SameHolders
<1>5. /\ Fits(stack[n + 1 + 1], n + 1)'
      /\ AtChildren(stack[n + 1 + 1])' <=> AtChildren(f)
      /\ Internal(stack[n + 1 + 1])' <=> Internal(f)
  BY <1>1, <1>2, <1>4 DEF Fits, AtChildren, Internal
<1>6. /\ Ordered(n + 1 + 1)'
      /\ SomeAtChildren(n + 1 + 1)' <=> SomeAtChildren(n) \/ AtChildren(g)
      /\ SomeInternal(n + 1 + 1)' <=> SomeInternal(n) \/ Internal(f)
  BY <1>2, <1>4, <1>5, OneMore
<1> QED
  BY ONLY <1>1, <1>2, <1>6

LEMMA PoppedHolders ==
  ASSUME TypeOK, stack # <<>>, Popped, Ordered(Len(stack))
  PROVE  /\ Ordered(Len(stack))'
         /\ SomeAtChildren(Len(stack))' <=> SomeAtChildren(Len(stack) - 1)
         /\ SomeInternal(Len(stack))' <=> SomeInternal(Len(stack) - 1)
<1>1. PICK n \in Nat : n = Len(stack) - 1 /\ Ordered(n)
  BY TopHolder
<1>2. Len(stack') = n /\ Same(n)
  BY <1>1 DEF Popped
<1> QED
  BY <1>1, <1>2, SameHolders

\* A step that changes neither the flag nor what the activations hold.
KeepsFlags ==
  \A s \in {SIGCHLD, SIGINT} : Has(s, "INPROGRESS")' <=> Has(s, "INPROGRESS")

LEMMA QuietHolders ==
  ASSUME TypeOK, InProgressInv, KeepsFlags,
         \/ Still
         \/ \E f : Pushed(f) /\ ~AtChildren(f) /\ ~Internal(f)
         \/ stack # <<>> /\ \E f : /\ Swapped(f) /\ ~Internal(f) /\ ~Internal(Top)
                                   /\ AtChildren(f) <=> AtChildren(Top)
         \/ stack # <<>> /\ \E g, f : /\ Called(g, f) /\ ~Internal(g) /\ ~Internal(Top)
                                      /\ AtChildren(g) <=> AtChildren(Top)
                                      /\ ~AtChildren(f) /\ ~Internal(f)
         \/ stack # <<>> /\ Popped /\ ~AtChildren(Top) /\ ~Internal(Top)
  PROVE  InProgressInv'
<1>1. CASE Still
  BY <1>1 DEF Still, InProgressInv, KeepsFlags, Ordered, Fits, SomeAtChildren, SomeInternal
<1>2. ASSUME NEW f, Pushed(f), ~AtChildren(f), ~Internal(f)
      PROVE  InProgressInv'
  <2>1. Fits(f, Len(stack))
    BY <1>2 DEF Fits
  <2> QED
    BY <1>2, <2>1, PushedHolders DEF InProgressInv, KeepsFlags
<1>3. ASSUME stack # <<>>, NEW f, Swapped(f), ~Internal(f), ~Internal(Top),
             AtChildren(f) <=> AtChildren(Top)
      PROVE  InProgressInv'
  <2>1. Fits(f, Len(stack) - 1)
    BY <1>3, TopHolder DEF InProgressInv, Fits
  <2> QED
    BY <1>3, <2>1, TopHolder, SwappedHolders DEF InProgressInv, KeepsFlags
<1>4. ASSUME stack # <<>>, NEW g, NEW f, Called(g, f), ~Internal(g), ~Internal(Top),
             AtChildren(g) <=> AtChildren(Top), ~AtChildren(f), ~Internal(f)
      PROVE  InProgressInv'
  <2>1. Fits(g, Len(stack) - 1) /\ Fits(f, Len(stack) - 1)
    BY <1>4, TopHolder DEF InProgressInv, Fits
  <2> QED
    BY <1>4, <2>1, TopHolder, CalledHolders DEF InProgressInv, KeepsFlags
<1>5. ASSUME stack # <<>>, Popped, ~AtChildren(Top), ~Internal(Top)
      PROVE  InProgressInv'
  BY <1>5, TopHolder, PoppedHolders DEF InProgressInv, KeepsFlags
<1> QED
  BY <1>1, <1>2, <1>3, <1>4, <1>5

\* Which activations hold a flag.
LEMMA Kinds ==
  /\ \A pc, sig, old, n :
       /\ ~Internal(PendingFrame(pc, sig, old, n))
       /\ AtChildren(PendingFrame(pc, sig, old, n)) <=>
            pc \in {"clear", "return"} /\ sig = SIGCHLD
  /\ \A n, c : ~AtChildren(ChildFrame(n, c)) /\ ~Internal(ChildFrame(n, c))
  /\ \A old, b : /\ ~AtChildren(InterruptFrame(old, b)) /\ Internal(InterruptFrame(old, b))
                 /\ InterruptFrame(old, b).n = 0 <=> ~b
BY DEF AtChildren, Internal, PendingFrame, ChildFrame, InterruptFrame

\* Every step keeps the flags with their holders.
LEMMA InProgressStep ==
  ASSUME TypeOK, InProgressInv, [Next]_vars
  PROVE  InProgressInv'
<1> USE SignalsAssumption DEF Signals
<1>1. CASE UNCHANGED vars
  BY <1>1, QuietHolders DEF vars, Still, KeepsFlags, Has
<1>2. ASSUME sigmodes' = sigmodes
      PROVE  KeepsFlags
  BY <1>2 DEF KeepsFlags, Has
<1>3. CASE Chosen
  <2>1. ASSUME NEW s \in Signals, NEW c, change_signal(s, c)
        PROVE  KeepsFlags
    BY <2>1 DEF KeepsFlags, Has, change_signal, ChangedModes, TypeOK
  <2>2. ASSUME NEW s \in Signals,
               (\E c \in Commands : SetTrap(s, c)) \/ IgnoreTrap(s)
        PROVE  InProgressInv'
    BY <2>1, <2>2, QuietHolders DEF SetTrap, IgnoreTrap, Still
  <2>3. ASSUME NEW s \in Signals, ResetTrap(s)
        PROVE  InProgressInv'
    <3>1. KeepsFlags
      BY <2>3 DEF KeepsFlags, Has, ResetTrap, TypeOK
    <3> QED
      BY <2>3, <3>1, QuietHolders DEF ResetTrap, Still
  <2>4. ASSUME NEW s \in Signals, trap_handler(s)
        PROVE  InProgressInv'
    BY <1>2, <2>4, QuietHolders DEF trap_handler, Still
  <2>5. ASSUME NEW n \in 1 .. MaxEvents, queue_sigchld_trap(n)
        PROVE  InProgressInv'
    BY <1>2, <2>5, QuietHolders DEF queue_sigchld_trap, Still
  <2>6. ASSUME NEW n \in 1 .. MaxEvents, WaitRunsTrap(n)
        PROVE  InProgressInv'
    <3>1. CASE Still /\ UNCHANGED sigmodes
      BY <1>2, <3>1, QuietHolders
    <3>2. CASE /\ Pushed(ChildFrame(n, trap_list[SIGCHLD]))
               /\ sigmodes' = [sigmodes EXCEPT ![SIGCHLD] = @ \ {"TRAPPED", "IGNORED"}]
      <4>1. KeepsFlags
        BY <3>2 DEF KeepsFlags, Has, TypeOK
      <4> QED
        BY <3>2, <4>1, Kinds, QuietHolders
    <3> QED
      BY <2>6, <3>1, <3>2, WaitMove
  <2>7. ASSUME InterruptedCommand
        PROVE  InProgressInv'
    <3>1. CASE Still /\ UNCHANGED sigmodes
      BY <1>2, <3>1, QuietHolders
    <3>2. CASE /\ Pushed(InterruptFrame(running_trap, Has(SIGINT, "INPROGRESS")))
               /\ sigmodes' = [sigmodes EXCEPT ![SIGINT] = @ \cup {"INPROGRESS"}]
      <4> DEFINE f == InterruptFrame(running_trap, Has(SIGINT, "INPROGRESS"))
      <4>1. /\ ~AtChildren(f) /\ Internal(f)
            /\ f.n = 0 <=> ~SomeInternal(Len(stack))
        BY Kinds DEF InProgressInv
      <4>2. Has(SIGINT, "INPROGRESS")'
        BY <3>2 DEF Has, TypeOK
      <4>3. Has(SIGCHLD, "INPROGRESS")' <=> Has(SIGCHLD, "INPROGRESS")
        BY <3>2 DEF Has, TypeOK
      <4> HIDE DEF f
      <4>4. Fits(f, Len(stack))
        BY <4>1 DEF Fits
      <4>5. /\ Ordered(Len(stack))'
            /\ SomeAtChildren(Len(stack))' <=> SomeAtChildren(Len(stack)) \/ AtChildren(f)
            /\ SomeInternal(Len(stack))' <=> SomeInternal(Len(stack)) \/ Internal(f)
        BY <3>2, <4>4, PushedHolders DEF InProgressInv, f
      <4> QED
        BY <4>1, <4>2, <4>3, <4>5 DEF InProgressInv
    <3> QED
      BY <2>7, <3>1, <3>2, InterruptMove
  <2> QED
    BY <1>3, <2>2, <2>3, <2>4, <2>5, <2>6, <2>7 DEF Chosen
<1>4. CASE run_pending_traps
  <2>1. KeepsFlags
    BY <1>2, <1>4 DEF run_pending_traps
  <2> QED
    BY <1>4, <2>1, RunPendingMove, Kinds, QuietHolders
\* The loop goes on to the next signal from a place that holds no flag.
<1>5. ASSUME stack # <<>>, Top.sig \in Signals, stack' = NextSignal, UNCHANGED sigmodes,
             ~AtChildren(Top), ~Internal(Top)
      PROVE  InProgressInv'
  BY <1>2, <1>5, NextSignalMove, Kinds, QuietHolders
<1>6. CASE NotPending \/ ChildrenInProgress \/ BadTrap
  BY <1>5, <1>6 DEF NotPending, ChildrenInProgress, BadTrap, Ordinary, Pending, Scanning,
                    AtChildren, Internal
<1>7. CASE EndTrap
  <2>1. stack # <<>> /\ stack' = NextSignal /\ UNCHANGED sigmodes
    BY <1>7 DEF EndTrap, Scanning
  <2>2. Top.sig \in Signals /\ ~AtChildren(Top) /\ ~Internal(Top)
    BY <1>7, <2>1, TopType DEF EndTrap, Scanning, AtChildren, Internal
  <2> QED
    BY <1>5, <2>1, <2>2
<1>8. CASE RunTrap
  <2>1. /\ stack # <<>> /\ KeepsFlags /\ ~AtChildren(Top) /\ ~Internal(Top)
    BY <1>2, <1>8 DEF RunTrap, Ordinary, Pending, Scanning, AtChildren, Internal
  <2> QED
    BY <1>8, <2>1, RunTrapMove, Kinds, QuietHolders
<1>9. CASE NextChild
  <2>1. /\ stack # <<>> /\ KeepsFlags /\ ~AtChildren(Top) /\ ~Internal(Top)
    BY <1>2, <1>9 DEF NextChild, AtChildren, Internal
  <2> QED
    BY <1>9, <2>1, NextChildMove, Kinds, QuietHolders
<1>10. CASE EndPending
  <2>1. /\ stack # <<>> /\ KeepsFlags /\ ~AtChildren(Top) /\ ~Internal(Top)
    BY <1>2, <1>10 DEF EndPending, Scanning, AtChildren, Internal
  <2> QED
    BY <1>10, <2>1, PopMove, QuietHolders
<1>11. CASE LastChild
  <2>1. stack # <<>> /\ ~AtChildren(Top) /\ ~Internal(Top)
    BY <1>11 DEF LastChild, AtChildren, Internal
  <2>2. KeepsFlags
    BY <1>2, <1>11 DEF LastChild, maybe_set_sigchld_trap, change_signal, ChangedModes,
                       KeepsFlags, Has, TypeOK
  <2> QED
    BY <1>11, <2>1, <2>2, PopMove, QuietHolders
<1>12. CASE EndInterruptTrap
  <2>1. stack # <<>> /\ ~AtChildren(Top) /\ Internal(Top)
    BY <1>12 DEF EndInterruptTrap, AtChildren, Internal
  <2>2. /\ Has(SIGCHLD, "INPROGRESS")' <=> Has(SIGCHLD, "INPROGRESS")
        /\ Top.n = 0 => ~Has(SIGINT, "INPROGRESS")'
        /\ Top.n # 0 => (Has(SIGINT, "INPROGRESS")' <=> Has(SIGINT, "INPROGRESS"))
    BY <1>12 DEF EndInterruptTrap, Has, TypeOK
  <2>3. Top.n = 0 <=> ~SomeInternal(Len(stack) - 1)
    BY <2>1, TopHolder DEF InProgressInv, Fits
  <2> QED
    BY <1>12, <2>1, <2>2, <2>3, PopMove, PoppedHolders, TopHolder DEF InProgressInv
<1>13. CASE TakeInterrupt
  <2> DEFINE g == PendingFrame("return", SIGINT, Top.old, 0)
             f == InterruptFrame(SIGINT + 1, Has(SIGINT, "INPROGRESS"))
  <2>1. stack # <<>> /\ ~AtChildren(Top) /\ ~Internal(Top)
    BY <1>13 DEF TakeInterrupt, Pending, Scanning, AtChildren, Internal
  <2>2. ~Internal(g) /\ ~AtChildren(g)
    BY Kinds
  <2>3. CASE Swapped(g) /\ UNCHANGED sigmodes
    BY <1>2, <2>1, <2>2, <2>3, QuietHolders
  <2>4. CASE /\ Called(g, f)
             /\ sigmodes' = [sigmodes EXCEPT ![SIGINT] = @ \cup {"INPROGRESS"}]
    <3>1. /\ Has(SIGINT, "INPROGRESS")'
          /\ Has(SIGCHLD, "INPROGRESS")' <=> Has(SIGCHLD, "INPROGRESS")
      BY <2>4 DEF Has, TypeOK
    <3>2. /\ ~AtChildren(f) /\ Internal(f)
          /\ f.n = 0 <=> ~Has(SIGINT, "INPROGRESS")
      BY Kinds
    <3> HIDE DEF f, g
    <3>3. Fits(g, Len(stack) - 1) /\ Fits(f, Len(stack) - 1)
      BY <2>1, <2>2, <3>2, TopHolder DEF Fits, InProgressInv
    <3>4. /\ Ordered(Len(stack))'
          /\ SomeAtChildren(Len(stack))' <=> SomeAtChildren(Len(stack) - 1) \/ AtChildren(g)
          /\ SomeInternal(Len(stack))' <=> SomeInternal(Len(stack) - 1) \/ Internal(f)
      BY <2>1, <2>2, <2>4, <3>2, <3>3, CalledHolders DEF InProgressInv
    <3> QED
      BY <2>1, <2>2, <3>1, <3>2, <3>4, TopHolder DEF InProgressInv
  <2> HIDE DEF f, g
  <2> QED
    BY <1>13, <2>3, <2>4, TakeInterruptMove DEF f, g
<1>14. CASE TakeChildren
  <2> DEFINE f == PendingFrame("clear", SIGCHLD, Top.old, pending_traps[SIGCHLD])
  <2>1. /\ stack # <<>> /\ ~AtChildren(Top) /\ ~Internal(Top)
        /\ ~Has(SIGCHLD, "INPROGRESS")
    BY <1>14 DEF TakeChildren, Pending, Scanning, AtChildren, Internal
  <2>2. /\ Has(SIGCHLD, "INPROGRESS")'
        /\ Has(SIGINT, "INPROGRESS")' <=> Has(SIGINT, "INPROGRESS")
    BY <1>14 DEF TakeChildren, Has, TypeOK
  <2>3. AtChildren(f) /\ ~Internal(f)
    BY Kinds
  <2>4. Swapped(f)
    BY <1>14, TakeChildrenMove
  <2> HIDE DEF f
  <2>5. Fits(f, Len(stack) - 1)
    BY <2>1, <2>3, TopHolder DEF Fits, InProgressInv
  <2> QED
    BY <2>1, <2>2, <2>3, <2>4, <2>5, SwappedHolders, TopHolder DEF InProgressInv
<1>15. CASE RunChildren
  <2> DEFINE g == PendingFrame("return", SIGCHLD, Top.old, 0)
  <2>1. stack # <<>> /\ AtChildren(Top) /\ ~Internal(Top)
    BY <1>15, TopType DEF RunChildren, Scanning, AtChildren, Internal
  <2>2. AtChildren(g) /\ ~Internal(g)
    BY Kinds
  <2>3. CASE Swapped(g) /\ UNCHANGED sigmodes
    BY <1>2, <2>1, <2>2, <2>3, QuietHolders
  <2>4. CASE \E f : /\ Called(g, f) /\ ~AtChildren(f) /\ ~Internal(f)
                    /\ sigmodes' = [sigmodes EXCEPT ![SIGCHLD] = @ \ {"TRAPPED", "IGNORED"}]
    <3>1. KeepsFlags
      BY <2>4 DEF KeepsFlags, Has, TypeOK
    <3> QED
      BY <2>1, <2>2, <2>4, <3>1, QuietHolders
  <2> HIDE DEF g
  <2> QED
    BY <1>15, <2>3, <2>4, RunChildrenMove, Kinds DEF g
<1>16. CASE EndChildren
  <2>1. stack # <<>> /\ AtChildren(Top) /\ ~Internal(Top) /\ Top.sig \in Signals
    BY <1>16 DEF EndChildren, Scanning, AtChildren, Internal
  <2>2. /\ ~Has(SIGCHLD, "INPROGRESS")'
        /\ Has(SIGINT, "INPROGRESS")' <=> Has(SIGINT, "INPROGRESS")
    BY <1>16 DEF EndChildren, Has, TypeOK
  <2> DEFINE f == PendingFrame("test", Top.sig + 1, Top.old, 0)
  <2>3. Swapped(f)
    BY <1>16, <2>1, NextSignalMove DEF EndChildren
  <2>4. ~AtChildren(f) /\ ~Internal(f)
    BY Kinds
  <2> HIDE DEF f
  <2>5. Fits(f, Len(stack) - 1) /\ ~SomeAtChildren(Len(stack) - 1)
    BY <2>1, <2>4, TopHolder DEF Fits, InProgressInv
  <2> QED
    BY <2>1, <2>2, <2>3, <2>4, <2>5, SwappedHolders, TopHolder DEF InProgressInv
<1>17. CASE Scan
  BY <1>17, <1>6, <1>8, <1>10, <1>13, <1>14, <1>15, <1>16 DEF Scan
<1>18. CASE Finish
  BY <1>18, <1>7, <1>9, <1>11, <1>12 DEF Finish
<1> QED
  BY <1>1, <1>3, <1>4, <1>17, <1>18 DEF Next

LEMMA HeldByActive ==
  ASSUME TypeOK
  PROVE  /\ SomeAtChildren(Len(stack)) <=>
              Active("run_pending_traps", {"clear", "return"}, SIGCHLD)
         /\ SomeInternal(Len(stack)) <=> Active("_run_trap_internal", {"trap"}, SIGINT)
<1>1. /\ DOMAIN stack = 1 .. Len(stack)
      /\ \A i \in 1 .. Len(stack) : stack[i] \in Frames
  BY DEF TypeOK
<1>2. SomeAtChildren(Len(stack)) <=>
        Active("run_pending_traps", {"clear", "return"}, SIGCHLD)
  BY <1>1 DEF SomeAtChildren, AtChildren, Active
<1>3. \A f \in Frames : Internal(f) => f.pc = "trap" /\ f.sig = SIGINT
  BY DEF Frames, Internal
<1>4. SomeInternal(Len(stack)) <=> Active("_run_trap_internal", {"trap"}, SIGINT)
  BY <1>1, <1>3 DEF SomeInternal, Internal, Active
<1> QED
  BY <1>2, <1>4

\* However the handlers nest, SIG_INPROGRESS of SIGCHLD is set exactly while a
\* run_pending_traps is at it, and that of SIGINT exactly while its trap runs.
THEOREM FlagMeansRunning == Spec => []InProgressWhileRunning
<1>1. Init => InProgressInv
  BY SignalsAssumption
     DEF Init, InProgressInv, Ordered, Has, SomeAtChildren, SomeInternal
<1>2. TypeOK /\ InProgressInv /\ [Next]_vars => InProgressInv'
  BY InProgressStep
<1>3. TypeOK /\ InProgressInv => InProgressWhileRunning
  BY HeldByActive DEF InProgressInv, InProgressWhileRunning
<1> QED
  BY <1>1, <1>2, <1>3, TypeCorrect, PTL DEF Spec

(***************************************************************************)
(* The sentinel                                                            *)
(***************************************************************************)
Child(frame) == frame.fn = "run_sigchld_trap"

SomeChild == \E i \in Depth : Child(stack[i])

NoneClears == \A i \in Depth : stack[i].pc # "clear"

\* An activation below the top waits for commands or for the call it made,
\* and every run_sigchld_trap has a command to put back.
StackInv ==
  /\ \A i \in 1 .. Len(stack) - 1 : stack[i].pc \in {"trap", "return"}
  /\ \A i \in Depth : Child(stack[i]) => stack[i].command \in Commands

\* Between its two steps at SIGCHLD run_pending_traps still has a trap to run,
\* no other signal ever has the sentinel, and while SIGCHLD has it the flags
\* of a trap are clear.
SentinelInv ==
  /\ StackInv
  /\ NoneClears \/ trap_list[SIGCHLD] # IMPOSSIBLE_TRAP_HANDLER
  /\ \A s \in Signals : trap_list[s] = IMPOSSIBLE_TRAP_HANDLER =>
       s = SIGCHLD /\ SomeChild /\ ~Has(s, "TRAPPED") /\ ~Has(s, "IGNORED")

LEMMA PushedChild ==
  ASSUME TypeOK, StackInv, NEW f, Pushed(f), stack # <<>> => Top.pc = "trap",
         Child(f) => f.command \in Commands
  PROVE  /\ StackInv'
         /\ SomeChild' <=> SomeChild \/ Child(f)
         /\ f.pc # "clear" => NoneClears'
<1>1. Len(stack) \in Nat /\ (Len(stack) = 0 <=> stack = <<>>)
  BY DEF TypeOK
<1>2. \A i \in 1 .. Len(stack) : stack[i].pc \in {"trap", "return"}
  BY <1>1 DEF StackInv, Top
<1> QED
  BY <1>1, <1>2 DEF StackInv, Pushed, Same, SomeChild, Child, NoneClears, Depth

LEMMA SwappedChild ==
  ASSUME TypeOK, StackInv, stack # <<>>, NEW f, Swapped(f),
         Child(f) <=> Child(Top), Child(f) => f.command \in Commands
  PROVE  /\ StackInv'
         /\ SomeChild' <=> SomeChild
         /\ f.pc # "clear" => NoneClears'
<1>1. Len(stack) \in Nat /\ Len(stack) >= 1
  BY TopOfStack DEF TypeOK
<1> QED
  BY <1>1 DEF StackInv, Swapped, Same, SomeChild, Child, NoneClears, Depth, Top

LEMMA CalledChild ==
  ASSUME TypeOK, StackInv, stack # <<>>, NEW g, NEW f, Called(g, f),
         g.pc = "return", ~Child(g), ~Child(Top), Child(f) => f.command \in Commands
  PROVE  /\ StackInv'
         /\ SomeChild' <=> SomeChild \/ Child(f)
         /\ f.pc # "clear" => NoneClears'
<1>1. Len(stack) \in Nat /\ Len(stack) >= 1
  BY TopOfStack DEF TypeOK
<1> QED
  BY <1>1 DEF StackInv, Called, Same, SomeChild, Child, NoneClears, Depth, Top

\* The run_sigchld_trap at the top has a command to put back.
LEMMA TopCommand ==
  ASSUME stack \in Seq(Frames), stack # <<>>, StackInv, Child(Top)
  PROVE  Top.command \in Commands
<1>1. Len(stack) \in Depth
  BY TopOfStack DEF Depth
<1> QED
  BY <1>1 DEF StackInv, Top

LEMMA PoppedChild ==
  ASSUME TypeOK, StackInv, stack # <<>>, Popped
  PROVE  /\ StackInv'
         /\ ~Child(Top) => (SomeChild' <=> SomeChild)
         /\ NoneClears'
<1>1. Len(stack) \in Nat /\ Len(stack) >= 1
  BY TopOfStack DEF TypeOK
<1> QED
  BY <1>1 DEF StackInv, Popped, Same, SomeChild, Child, NoneClears, Depth, Top

LEMMA StillChild ==
  ASSUME StackInv, Still
  PROVE  StackInv' /\ (SomeChild' <=> SomeChild) /\ (NoneClears' <=> NoneClears)
BY DEF Still, StackInv, SomeChild, Child, NoneClears, Depth

\* A step that changes neither a trap nor the flags that go with it, ...
KeepsTraps ==
  /\ trap_list' = trap_list
  /\ \A s \in Signals : /\ Has(s, "TRAPPED")' <=> Has(s, "TRAPPED")
                        /\ Has(s, "IGNORED")' <=> Has(s, "IGNORED")

LEMMA TrapsKept ==
  ASSUME TypeOK, SentinelInv, KeepsTraps, StackInv', SomeChild => SomeChild',
         NoneClears' \/ trap_list[SIGCHLD] # IMPOSSIBLE_TRAP_HANDLER
  PROVE  SentinelInv'
BY DEF SentinelInv, KeepsTraps

\* ... and one that changes a trap to a command or a disposition.
LEMMA TrapChanged ==
  ASSUME TypeOK, SentinelInv, Still, NEW s \in Signals, NEW c, c # IMPOSSIBLE_TRAP_HANDLER,
         trap_list' = [trap_list EXCEPT ![s] = c],
         \A t \in Signals \ {s} : sigmodes'[t] = sigmodes[t]
  PROVE  SentinelInv'
<1>1. StackInv' /\ (SomeChild' <=> SomeChild) /\ (NoneClears' <=> NoneClears)
  BY StillChild DEF SentinelInv
<1> QED
  BY <1>1, SignalsAssumption DEF SentinelInv, TypeOK, Has

\* A command of the user is not the sentinel.
LEMMA NoSentinelCommand ==
  /\ \A c \in Commands : c \notin Sentinels
  /\ DEFAULT_SIG # IMPOSSIBLE_TRAP_HANDLER /\ IGNORE_SIG # IMPOSSIBLE_TRAP_HANDLER
BY CommandsAssumption DEF DEFAULT_SIG, IGNORE_SIG, IMPOSSIBLE_TRAP_HANDLER

\* The run_sigchld_trap starts with the sentinel in place of the trap.
LEMMA SentinelPlaced ==
  ASSUME TypeOK, SentinelInv, StackInv', SomeChild', NoneClears',
         trap_list' = [trap_list EXCEPT ![SIGCHLD] = IMPOSSIBLE_TRAP_HANDLER],
         sigmodes' = [sigmodes EXCEPT ![SIGCHLD] = @ \ {"TRAPPED", "IGNORED"}]
  PROVE  SentinelInv'
BY SignalsAssumption DEF SentinelInv, TypeOK, Has

LEMMA ChildKinds ==
  /\ \A pc, sig, old, n : ~Child(PendingFrame(pc, sig, old, n))
                          /\ PendingFrame(pc, sig, old, n).pc = pc
                          /\ PendingFrame(pc, sig, old, n).sig = sig
                          /\ PendingFrame(pc, sig, old, n).old = old
                          /\ PendingFrame(pc, sig, old, n).n = n
  /\ \A n, c : /\ Child(ChildFrame(n, c)) /\ ChildFrame(n, c).pc = "trap"
               /\ ChildFrame(n, c).command = c /\ ChildFrame(n, c).n = n
               /\ ChildFrame(n, c).old = 0
  /\ \A old, b : /\ ~Child(InterruptFrame(old, b)) /\ InterruptFrame(old, b).pc = "trap"
                 /\ InterruptFrame(old, b).old = old
BY DEF Child, PendingFrame, ChildFrame, InterruptFrame

\* Every step keeps the sentinel in its place.
LEMMA SentinelStep ==
  ASSUME TypeOK, SentinelInv, [Next]_vars
  PROVE  SentinelInv'
<1> USE SignalsAssumption
<1>1. CASE UNCHANGED vars
  BY <1>1, StillChild, TrapsKept DEF vars, Still, KeepsTraps, Has, SentinelInv
<1>2. ASSUME UNCHANGED <<trap_list, sigmodes>>
      PROVE  KeepsTraps
  BY <1>2 DEF KeepsTraps, Has
<1>3. StackInv /\ (NoneClears \/ trap_list[SIGCHLD] # IMPOSSIBLE_TRAP_HANDLER)
  BY DEF SentinelInv
<1>4. ASSUME Executing
      PROVE  stack # <<>> => Top.pc = "trap"
  BY <1>4 DEF Executing
<1>5. ASSUME NEW s \in Signals, NEW c \in Commands \cup {IGNORE_SIG}, change_signal(s, c)
      PROVE  /\ c # IMPOSSIBLE_TRAP_HANDLER
             /\ trap_list' = [trap_list EXCEPT ![s] = c]
             /\ \A t \in Signals \ {s} : sigmodes'[t] = sigmodes[t]
  BY <1>5, NoSentinelCommand DEF change_signal, TypeOK, Sentinels
<1>6. CASE Chosen
  <2>1. ASSUME NEW s \in Signals, NEW c \in Commands, SetTrap(s, c)
        PROVE  SentinelInv'
    BY <1>5, <2>1, TrapChanged DEF SetTrap, Still
  <2>2. ASSUME NEW s \in Signals, IgnoreTrap(s)
        PROVE  SentinelInv'
    BY <1>5, <2>2, TrapChanged DEF IgnoreTrap, Still
  <2>3. ASSUME NEW s \in Signals, ResetTrap(s)
        PROVE  SentinelInv'
    <3>1. /\ trap_list' = [trap_list EXCEPT ![s] = DEFAULT_SIG] /\ Still
          /\ \A t \in Signals \ {s} : sigmodes'[t] = sigmodes[t]
      BY <2>3 DEF ResetTrap, Still, TypeOK
    <3> QED
      BY <3>1, NoSentinelCommand, TrapChanged
  <2>4. ASSUME Still, UNCHANGED <<trap_list, sigmodes>>
        PROVE  SentinelInv'
    BY <1>2, <1>3, <2>4, StillChild, TrapsKept
  <2>5. ASSUME NEW s \in Signals, trap_handler(s)
        PROVE  SentinelInv'
    BY <2>4, <2>5 DEF trap_handler, Still
  <2>6. ASSUME NEW n \in 1 .. MaxEvents, queue_sigchld_trap(n)
        PROVE  SentinelInv'
    BY <2>4, <2>6 DEF queue_sigchld_trap, Still
  <2>7. ASSUME NEW n \in 1 .. MaxEvents, WaitRunsTrap(n)
        PROVE  SentinelInv'
    <3> DEFINE f == ChildFrame(n, trap_list[SIGCHLD])
    <3>1. CASE /\ Pushed(f) /\ trap_list[SIGCHLD] \in Commands
               /\ trap_list' = [trap_list EXCEPT ![SIGCHLD] = IMPOSSIBLE_TRAP_HANDLER]
               /\ sigmodes' = [sigmodes EXCEPT ![SIGCHLD] = @ \ {"TRAPPED", "IGNORED"}]
      <4>1. Child(f) /\ f.command \in Commands /\ f.pc = "trap"
        BY <3>1, ChildKinds
      <4> HIDE DEF f
      <4>2. stack # <<>> => Top.pc = "trap"
        BY <1>4, <2>7 DEF WaitRunsTrap
      <4>3. StackInv' /\ SomeChild' /\ NoneClears'
        BY <1>3, <3>1, <4>1, <4>2, PushedChild
      <4> QED
        BY <3>1, <4>3, SentinelPlaced
    <3> QED
      BY <2>4, <2>7, <3>1, WaitMove
  <2>8. ASSUME InterruptedCommand
        PROVE  SentinelInv'
    <3> DEFINE f == InterruptFrame(running_trap, Has(SIGINT, "INPROGRESS"))
    <3>1. CASE /\ Pushed(f) /\ UNCHANGED trap_list
               /\ sigmodes' = [sigmodes EXCEPT ![SIGINT] = @ \cup {"INPROGRESS"}]
      <4>1. ~Child(f) /\ f.pc = "trap"
        BY ChildKinds
      <4> HIDE DEF f
      <4>2. stack # <<>> => Top.pc = "trap"
        BY <1>4, <2>8 DEF InterruptedCommand
      <4>3. KeepsTraps
        BY <3>1 DEF KeepsTraps, Has, TypeOK
      <4> QED
        BY <1>3, <3>1, <4>1, <4>2, <4>3, PushedChild, TrapsKept
    <3> QED
      BY <2>4, <2>8, <3>1, InterruptMove
  <2> QED
    BY <1>6, <2>1, <2>2, <2>3, <2>5, <2>6, <2>7, <2>8 DEF Chosen
<1>7. CASE run_pending_traps
  <2>1. /\ Pushed(PendingFrame("test", 1, running_trap, 0)) /\ KeepsTraps
        /\ stack # <<>> => Top.pc = "trap"
    BY <1>2, <1>4, <1>7, RunPendingMove DEF run_pending_traps
  <2> QED
    BY <1>3, <2>1, ChildKinds, PushedChild, TrapsKept
\* run_pending_traps goes on without a run of the SIGCHLD trap.
<1>8. ASSUME stack # <<>>, Top.fn = "run_pending_traps", KeepsTraps,
             NEW pc, NEW sig, NEW old, NEW n, Swapped(PendingFrame(pc, sig, old, n)),
             pc # "clear" \/ trap_list[SIGCHLD] # IMPOSSIBLE_TRAP_HANDLER
      PROVE  SentinelInv'
  <2>1. ~Child(Top)
    BY <1>8 DEF Child
  <2> QED
    BY <1>3, <1>8, <2>1, ChildKinds, SwappedChild, TrapsKept
<1>9. ASSUME stack # <<>>, Top.fn = "run_pending_traps", KeepsTraps, Top.sig \in Signals,
             stack' = NextSignal
      PROVE  SentinelInv'
  BY <1>8, <1>9, NextSignalMove
<1>10. CASE NotPending \/ ChildrenInProgress \/ BadTrap
  <2>1. stack # <<>> /\ Top.fn = "run_pending_traps" /\ Top.sig \in Signals
    BY <1>10 DEF NotPending, ChildrenInProgress, BadTrap, Ordinary, Pending, Scanning
  <2>2. stack' = NextSignal /\ KeepsTraps
    BY <1>2, <1>10 DEF NotPending, ChildrenInProgress, BadTrap
  <2> QED
    BY <1>9, <2>1, <2>2
<1>11. CASE EndTrap
  <2>1. stack # <<>> /\ Top.fn = "run_pending_traps" /\ Top.sig \in Signals
    BY <1>11, TopType DEF EndTrap, Scanning
  <2> QED
    BY <1>2, <1>9, <1>11, <2>1 DEF EndTrap
<1>12. CASE EndChildren
  <2>1. stack # <<>> /\ Top.fn = "run_pending_traps" /\ Top.sig \in Signals
    BY <1>12 DEF EndChildren, Scanning
  <2>2. KeepsTraps
    BY <1>12 DEF EndChildren, KeepsTraps, Has, TypeOK
  <2> QED
    BY <1>9, <1>12, <2>1, <2>2 DEF EndChildren
<1>13. CASE RunTrap
  <2>1. stack # <<>> /\ Top.fn = "run_pending_traps" /\ KeepsTraps
    BY <1>2, <1>13 DEF RunTrap, Ordinary, Pending, Scanning
  <2> QED
    BY <1>8, <1>13, <2>1, RunTrapMove
<1>14. CASE TakeChildren
  <2>1. stack # <<>> /\ Top.fn = "run_pending_traps"
        /\ trap_list[SIGCHLD] # IMPOSSIBLE_TRAP_HANDLER
    BY <1>14 DEF TakeChildren, Pending, Scanning
  <2>2. KeepsTraps
    BY <1>14 DEF TakeChildren, KeepsTraps, Has, TypeOK
  <2> QED
    BY <1>8, <1>14, <2>1, <2>2, TakeChildrenMove
<1>15. CASE TakeInterrupt
  <2> DEFINE g == PendingFrame("return", SIGINT, Top.old, 0)
             f == InterruptFrame(SIGINT + 1, Has(SIGINT, "INPROGRESS"))
  <2>1. stack # <<>> /\ Top.fn = "run_pending_traps"
    BY <1>15 DEF TakeInterrupt, Pending, Scanning
  <2>2. CASE Swapped(g) /\ UNCHANGED <<trap_list, sigmodes>>
    BY <1>2, <1>8, <2>1, <2>2
  <2>3. CASE /\ Called(g, f) /\ UNCHANGED trap_list
             /\ sigmodes' = [sigmodes EXCEPT ![SIGINT] = @ \cup {"INPROGRESS"}]
    <3>1. KeepsTraps
      BY <2>3 DEF KeepsTraps, Has, TypeOK
    <3>2. ~Child(g) /\ g.pc = "return" /\ ~Child(f) /\ f.pc = "trap" /\ ~Child(Top)
      BY <2>1, ChildKinds DEF Child
    <3> HIDE DEF f, g
    <3> QED
      BY <1>3, <2>1, <2>3, <3>1, <3>2, CalledChild, TrapsKept
  <2> HIDE DEF f, g
  <2> QED
    BY <1>15, <2>2, <2>3, TakeInterruptMove DEF f, g
<1>16. CASE RunChildren
  <2> DEFINE g == PendingFrame("return", SIGCHLD, Top.old, 0)
             f == ChildFrame(Top.n, trap_list[SIGCHLD])
  <2>1. stack # <<>> /\ Top.fn = "run_pending_traps" /\ Top.pc = "clear"
    BY <1>16 DEF RunChildren, Scanning
  <2>2. trap_list[SIGCHLD] # IMPOSSIBLE_TRAP_HANDLER
    BY <1>3, <2>1, TopOfStack DEF NoneClears, Depth, Top, TypeOK
  <2>3. CASE Swapped(g) /\ UNCHANGED <<trap_list, sigmodes>>
    BY <1>2, <1>8, <2>1, <2>3
  <2>4. CASE /\ Called(g, f)
             /\ trap_list[SIGCHLD] \in Commands \cup {IMPOSSIBLE_TRAP_HANDLER}
             /\ trap_list' = [trap_list EXCEPT ![SIGCHLD] = IMPOSSIBLE_TRAP_HANDLER]
             /\ sigmodes' = [sigmodes EXCEPT ![SIGCHLD] = @ \ {"TRAPPED", "IGNORED"}]
    <3>1. /\ ~Child(g) /\ g.pc = "return" /\ ~Child(Top)
          /\ Child(f) /\ f.pc = "trap" /\ f.command \in Commands
      BY <2>1, <2>2, <2>4, ChildKinds DEF Child
    <3> HIDE DEF f, g
    <3>2. StackInv' /\ SomeChild' /\ NoneClears'
      BY <1>3, <2>1, <2>4, <3>1, CalledChild
    <3> QED
      BY <2>4, <3>2, SentinelPlaced
  <2> HIDE DEF f, g
  <2> QED
    BY <1>16, <2>3, <2>4, RunChildrenMove DEF f, g
<1>17. CASE EndPending
  <2>1. stack # <<>> /\ ~Child(Top) /\ KeepsTraps
    BY <1>2, <1>17 DEF EndPending, Scanning, Child
  <2> QED
    BY <1>3, <1>17, <2>1, PopMove, PoppedChild, TrapsKept
<1>18. CASE EndInterruptTrap
  <2>1. stack # <<>> /\ ~Child(Top)
    BY <1>18 DEF EndInterruptTrap, Child
  <2>2. KeepsTraps
    BY <1>18 DEF EndInterruptTrap, KeepsTraps, Has, TypeOK
  <2> QED
    BY <1>3, <1>18, <2>1, <2>2, PopMove, PoppedChild, TrapsKept
<1>19. CASE NextChild
  <2> DEFINE f == ChildFrame(Top.n - 1, Top.command)
  <2>1. stack # <<>> /\ Child(Top) /\ KeepsTraps
    BY <1>2, <1>19 DEF NextChild, Child
  <2>2. Top.command \in Commands
    BY <1>3, <2>1, TopCommand DEF TypeOK
  <2>3. Child(f) /\ f.pc = "trap" /\ f.command \in Commands /\ Swapped(f)
    BY <1>19, <2>2, ChildKinds, NextChildMove
  <2> HIDE DEF f
  <2> QED
    BY <1>3, <2>1, <2>3, SwappedChild, TrapsKept
<1>20. CASE LastChild
  <2>1. stack # <<>> /\ Child(Top) /\ maybe_set_sigchld_trap(Top.command)
    BY <1>20 DEF LastChild, Child
  <2>2. Top.command \in Commands
    BY <1>3, <2>1, TopCommand DEF TypeOK
  <2>3. StackInv' /\ NoneClears'
    BY <1>3, <1>20, <2>1, PopMove, PoppedChild
  <2>4. \A s \in Signals : trap_list'[s] # IMPOSSIBLE_TRAP_HANDLER
    <3>1. CASE ~Has(SIGCHLD, "TRAPPED") /\ trap_list[SIGCHLD] = IMPOSSIBLE_TRAP_HANDLER
      <4>1. /\ trap_list' = [trap_list EXCEPT ![SIGCHLD] = Top.command]
            /\ Top.command # IMPOSSIBLE_TRAP_HANDLER
        BY <1>5, <2>1, <2>2, <3>1 DEF maybe_set_sigchld_trap
      <4> QED
        BY <4>1 DEF SentinelInv, TypeOK
    <3>2. CASE ~(~Has(SIGCHLD, "TRAPPED") /\ trap_list[SIGCHLD] = IMPOSSIBLE_TRAP_HANDLER)
      BY <2>1, <3>2 DEF maybe_set_sigchld_trap, SentinelInv
    <3> QED
      BY <3>1, <3>2
  <2> QED
    BY <2>3, <2>4 DEF SentinelInv
<1>21. CASE Scan
  BY <1>21, <1>10, <1>12, <1>13, <1>14, <1>15, <1>16, <1>17 DEF Scan
<1>22. CASE Finish
  BY <1>22, <1>11, <1>18, <1>19, <1>20 DEF Finish
<1> QED
  BY <1>1, <1>6, <1>7, <1>21, <1>22 DEF Next

LEMMA SentinelInvInit ==
  ASSUME Init
  PROVE  SentinelInv
BY SignalsAssumption, NoSentinelCommand DEF Init, SentinelInv, StackInv, NoneClears, Depth

LEMMA ChildIsActive ==
  ASSUME TypeOK, SomeChild
  PROVE  Active("run_sigchld_trap", {"trap"}, SIGCHLD)
<1>1. DOMAIN stack = Depth /\ \A i \in Depth : stack[i] \in Frames
  BY DEF TypeOK, Depth
<1>2. \A f \in Frames : Child(f) => f.pc = "trap" /\ f.sig = SIGCHLD
  BY DEF Frames, Child
<1> QED
  BY <1>1, <1>2 DEF SomeChild, Child, Active

\* The sentinel that stands in for the SIGCHLD trap never outlives
\* run_sigchld_trap and never becomes the trap of another signal, whatever the
\* handlers do to their own trap.
THEOREM SentinelOnlyWhileRunning == Spec => []SentinelWhileRunning
<1>1. Init => SentinelInv
  BY SentinelInvInit
<1>2. TypeOK /\ SentinelInv /\ [Next]_vars => SentinelInv'
  BY SentinelStep
<1>3. TypeOK /\ SentinelInv => SentinelWhileRunning
  BY ChildIsActive DEF SentinelInv, SentinelWhileRunning
<1> QED
  BY <1>1, <1>2, <1>3, TypeCorrect, PTL DEF Spec

(***************************************************************************)
(* running_trap                                                            *)
(***************************************************************************)
\* The lowest activation has nothing to restore, and while it looks for
\* pending signals no trap runs.
BottomInv ==
  /\ stack = <<>> => running_trap = 0
  /\ stack # <<>> => stack[1].old = 0
  /\ Len(stack) = 1 /\ stack[1].pc = "test" => running_trap = 0

LEMMA BottomMoves ==
  ASSUME TypeOK, TypeOK', StackInv, BottomInv,
         \/ Still /\ UNCHANGED running_trap
         \/ \E f : /\ Pushed(f)
                   /\ stack = <<>> => f.old = 0 /\ (f.pc = "test" => running_trap' = 0)
         \/ /\ stack # <<>>
            /\ \E f : /\ Swapped(f) /\ f.old \in {0, Top.old}
                      /\ f.pc = "test" => \/ running_trap' \in {0, Top.old}
                                          \/ Top.pc = "test" /\ UNCHANGED running_trap
         \/ stack # <<>> /\ \E g, f : Called(g, f) /\ g.old = Top.old
         \/ /\ stack # <<>> /\ Popped
            /\ \/ running_trap' \in {0, Top.old}
               \/ Top.pc = "test" /\ UNCHANGED running_trap
  PROVE  BottomInv'
<1>1. /\ Len(stack) \in Nat /\ (Len(stack) = 0 <=> stack = <<>>)
      /\ Len(stack') \in Nat /\ (Len(stack') = 0 <=> stack' = <<>>)
  BY DEF TypeOK
<1>2. CASE Still /\ UNCHANGED running_trap
  BY <1>2 DEF Still, BottomInv
<1>3. ASSUME NEW f, Pushed(f),
             stack = <<>> => f.old = 0 /\ (f.pc = "test" => running_trap' = 0)
      PROVE  BottomInv'
  BY <1>1, <1>3 DEF Pushed, Same, BottomInv
<1>4. ASSUME stack # <<>>, NEW f, Swapped(f), f.old \in {0, Top.old},
             f.pc = "test" => \/ running_trap' \in {0, Top.old}
                              \/ Top.pc = "test" /\ UNCHANGED running_trap
      PROVE  BottomInv'
  BY <1>1, <1>4 DEF Swapped, Same, BottomInv, Top
<1>5. ASSUME stack # <<>>, NEW g, NEW f, Called(g, f), g.old = Top.old
      PROVE  BottomInv'
  BY <1>1, <1>5 DEF Called, Same, BottomInv, Top
<1>6. ASSUME stack # <<>>, Popped,
             \/ running_trap' \in {0, Top.old}
             \/ Top.pc = "test" /\ UNCHANGED running_trap
      PROVE  BottomInv'
  BY <1>1, <1>6 DEF Popped, Same, BottomInv, StackInv, Top
<1> QED
  BY <1>2, <1>3, <1>4, <1>5, <1>6

LEMMA BottomStep ==
  ASSUME TypeOK, SentinelInv, BottomInv, [Next]_vars
  PROVE  BottomInv'
<1> USE SignalsAssumption
<1>1. TypeOK' /\ StackInv
  BY TypeStep DEF SentinelInv
<1>2. ASSUME Still, UNCHANGED running_trap
      PROVE  BottomInv'
  BY <1>1, <1>2, BottomMoves
<1>3. CASE UNCHANGED vars
  BY <1>2, <1>3 DEF vars, Still
<1>4. CASE Chosen
  <2>1. ASSUME NEW s \in Signals,
               \/ \E c \in Commands : SetTrap(s, c)
               \/ IgnoreTrap(s) \/ ResetTrap(s) \/ trap_handler(s)
        PROVE  BottomInv'
    BY <1>2, <2>1 DEF SetTrap, IgnoreTrap, ResetTrap, trap_handler, Still
  <2>2. ASSUME NEW n \in 1 .. MaxEvents, queue_sigchld_trap(n)
        PROVE  BottomInv'
    BY <1>2, <2>2 DEF queue_sigchld_trap, Still
  <2>3. ASSUME NEW n \in 1 .. MaxEvents, WaitRunsTrap(n)
        PROVE  BottomInv'
    <3>1. CASE Pushed(ChildFrame(n, trap_list[SIGCHLD]))
      BY <1>1, <3>1, ChildKinds, BottomMoves
    <3> QED
      BY <1>2, <2>3, <3>1, WaitMove
  <2>4. ASSUME InterruptedCommand
        PROVE  BottomInv'
    <3>1. CASE Pushed(InterruptFrame(running_trap, Has(SIGINT, "INPROGRESS")))
      <4>1. stack = <<>> => running_trap = 0
        BY DEF BottomInv
      <4> QED
        BY <1>1, <3>1, <4>1, ChildKinds, BottomMoves
    <3> QED
      BY <1>2, <2>4, <3>1, InterruptMove
  <2> QED
    BY <1>4, <2>1, <2>2, <2>3, <2>4 DEF Chosen
<1>5. CASE run_pending_traps
  <2>1. stack = <<>> => running_trap = 0
    BY DEF BottomInv
  <2>2. /\ Pushed(PendingFrame("test", 1, running_trap, 0))
        /\ UNCHANGED running_trap
    BY <1>5, RunPendingMove DEF run_pending_traps
  <2> QED
    BY <1>1, <2>1, <2>2, ChildKinds, BottomMoves
\* An activation of run_pending_traps goes on and keeps what it will restore.
<1>6. ASSUME stack # <<>>, NEW pc, NEW sig, NEW n, Swapped(PendingFrame(pc, sig, Top.old, n)),
             pc = "test" => \/ running_trap' \in {0, Top.old}
                            \/ Top.pc = "test" /\ UNCHANGED running_trap
      PROVE  BottomInv'
  BY <1>1, <1>6, ChildKinds, BottomMoves
<1>7. ASSUME stack # <<>>, Top.sig \in Signals, stack' = NextSignal,
             \/ running_trap' \in {0, Top.old}
             \/ Top.pc = "test" /\ UNCHANGED running_trap
      PROVE  BottomInv'
  BY <1>6, <1>7, NextSignalMove
<1>8. CASE NotPending \/ ChildrenInProgress \/ BadTrap
  <2>1. stack # <<>> /\ Top.sig \in Signals /\ Top.pc = "test"
    BY <1>8 DEF NotPending, ChildrenInProgress, BadTrap, Ordinary, Pending, Scanning
  <2>2. stack' = NextSignal /\ (running_trap' \in {0, Top.old} \/ UNCHANGED running_trap)
    BY <1>8 DEF NotPending, ChildrenInProgress, BadTrap
  <2> QED
    BY <1>7, <2>1, <2>2
<1>9. CASE EndTrap
  <2>1. stack # <<>> /\ Top.sig \in Signals
    BY <1>9, TopType DEF EndTrap, Scanning
  <2> QED
    BY <1>7, <1>9, <2>1 DEF EndTrap
<1>10. CASE EndChildren
  <2>1. stack # <<>> /\ Top.sig \in Signals
    BY <1>10 DEF EndChildren, Scanning
  <2> QED
    BY <1>7, <1>10, <2>1 DEF EndChildren
<1>11. CASE RunTrap
  <2>1. stack # <<>>
    BY <1>11 DEF RunTrap, Ordinary, Pending, Scanning
  <2> QED
    BY <1>6, <1>11, <2>1, RunTrapMove
<1>12. CASE TakeChildren
  <2>1. stack # <<>>
    BY <1>12 DEF TakeChildren, Pending, Scanning
  <2> QED
    BY <1>6, <1>12, <2>1, TakeChildrenMove
<1>13. CASE TakeInterrupt
  <2> DEFINE g == PendingFrame("return", SIGINT, Top.old, 0)
             f == InterruptFrame(SIGINT + 1, Has(SIGINT, "INPROGRESS"))
  <2>1. stack # <<>>
    BY <1>13 DEF TakeInterrupt, Pending, Scanning
  <2>2. CASE Swapped(g)
    BY <1>6, <2>1, <2>2
  <2>3. CASE Called(g, f)
    BY <1>1, <2>1, <2>3, ChildKinds, BottomMoves
  <2> QED
    BY <1>13, <2>2, <2>3, TakeInterruptMove
<1>14. CASE RunChildren
  <2> DEFINE g == PendingFrame("return", SIGCHLD, Top.old, 0)
             f == ChildFrame(Top.n, trap_list[SIGCHLD])
  <2>1. stack # <<>>
    BY <1>14 DEF RunChildren, Scanning
  <2>2. CASE Swapped(g)
    BY <1>6, <2>1, <2>2
  <2>3. CASE Called(g, f)
    BY <1>1, <2>1, <2>3, ChildKinds, BottomMoves
  <2> QED
    BY <1>14, <2>2, <2>3, RunChildrenMove
<1>15. CASE NextChild
  <2>1. stack # <<>>
    BY <1>15 DEF NextChild
  <2> QED
    BY <1>1, <1>15, <2>1, NextChildMove, ChildKinds, BottomMoves
<1>16. CASE EndPending \/ LastChild \/ EndInterruptTrap
  <2>1. \/ running_trap' \in {0, Top.old}
        \/ Top.pc = "test" /\ UNCHANGED running_trap
    BY <1>16 DEF EndPending, LastChild, EndInterruptTrap, Scanning
  <2> QED
    BY <1>1, <1>16, <2>1, PopMove, BottomMoves
<1>17. CASE Scan
  BY <1>17, <1>8, <1>10, <1>11, <1>12, <1>13, <1>14, <1>16 DEF Scan
<1>18. CASE Finish
  BY <1>18, <1>9, <1>15, <1>16 DEF Finish
<1> QED
  BY <1>3, <1>4, <1>5, <1>17, <1>18 DEF Next

\* When all handlers have ended running_trap is 0, so that signals are handled
\* and the wait builtin runs the SIGCHLD trap as before: zeroing it instead of
\* restoring it on the paths of SIGCHLD never leaves a value behind.
THEOREM ScriptRunsNoTrap == Spec => []NoTrapOutsideHandlers
<1>1. Init => SentinelInv /\ BottomInv
  BY SentinelInvInit DEF Init, BottomInv
<1>2. TypeOK /\ SentinelInv /\ BottomInv /\ [Next]_vars => SentinelInv' /\ BottomInv'
  BY SentinelStep, BottomStep
<1>3. BottomInv => NoTrapOutsideHandlers
  BY DEF BottomInv, NoTrapOutsideHandlers
<1> QED
  BY <1>1, <1>2, <1>3, TypeCorrect, PTL DEF Spec

------------------------------------------------------------------------------
(***************************************************************************)
(* The history is added to the steps of Traps                              *)
(***************************************************************************)
LEMMA HistoryIsAdded ==
  ASSUME [HNext]_allVars
  PROVE  [Next]_vars
BY DEF HNext, HChosen, HFinish, HPending, HScan, ResetIgnored, Next, Chosen, Finish,
       allVars, vars

\* What is shown of every step of Traps holds of a behaviour with its history.
LEMMA HistoryInv == HSpec => [](TypeOK /\ SentinelInv)
<1>1. HInit => TypeOK /\ SentinelInv
  BY TypeInit, SentinelInvInit DEF HInit
<1>2. TypeOK /\ SentinelInv /\ [HNext]_allVars => TypeOK' /\ SentinelInv'
  BY HistoryIsAdded, TypeStep, SentinelStep
<1> QED
  BY <1>1, <1>2, PTL DEF HSpec

(***************************************************************************)
(* The traps the script asked for                                          *)
(***************************************************************************)
AskedFor(s) ==
  /\ trap_list[s] = wanted[s]
  /\ Has(s, "TRAPPED") <=> wanted[s] # DEFAULT_SIG
  /\ Has(s, "IGNORED") <=> wanted[s] = IGNORE_SIG

\* The run_sigchld_trap that started last will put c back.
LastKeeps(c) ==
  \E i \in Depth : /\ Child(stack[i]) /\ stack[i].command = c
                   /\ \A j \in Depth : j > i => ~Child(stack[j])

\* While the sentinel stands in for the SIGCHLD trap, what the script asked
\* for is kept by the last run_sigchld_trap.
AskedInv ==
  /\ wanted \in [Signals -> Commands \cup Sentinels]
  /\ \A s \in Signals :
       s # SIGCHLD \/ (~ignored /\ trap_list[SIGCHLD] # IMPOSSIBLE_TRAP_HANDLER)
         => AskedFor(s)
  /\ ~ignored /\ trap_list[SIGCHLD] = IMPOSSIBLE_TRAP_HANDLER => LastKeeps(wanted[SIGCHLD])

\* Which command is kept last, after each of the moves.
LEMMA LastKeepsMoves ==
  ASSUME TypeOK, NEW c
  PROVE  /\ Still /\ LastKeeps(c) => LastKeeps(c)'
         /\ \A f : Pushed(f) =>
              /\ Child(f) => LastKeeps(f.command)'
              /\ ~Child(f) /\ LastKeeps(c) => LastKeeps(c)'
         /\ stack # <<>> =>
              /\ \A f : Swapped(f) /\ (Child(f) <=> Child(Top))
                        /\ (Child(f) => f.command = Top.command) /\ LastKeeps(c) => LastKeeps(c)'
              /\ \A g, f : Called(g, f) =>
                   /\ Child(f) => LastKeeps(f.command)'
                   /\ ~Child(g) /\ ~Child(f) /\ ~Child(Top) /\ LastKeeps(c) => LastKeeps(c)'
              /\ Popped /\ ~Child(Top) /\ LastKeeps(c) => LastKeeps(c)'
              /\ Child(Top) /\ LastKeeps(c) => c = Top.command
<1>1. Len(stack) \in Nat /\ (stack # <<>> => Len(stack) >= 1)
  BY TopOfStack DEF TypeOK
<1>2. Still /\ LastKeeps(c) => LastKeeps(c)'
  BY DEF Still, LastKeeps, Child, Depth
<1>3. ASSUME NEW f, Pushed(f)
      PROVE  /\ Child(f) => LastKeeps(f.command)'
             /\ ~Child(f) /\ LastKeeps(c) => LastKeeps(c)'
  <2>1. /\ Len(stack) + 1 \in Depth' /\ stack'[Len(stack) + 1] = f
        /\ \A j \in Depth' : ~(j > Len(stack) + 1)
        /\ \A i \in Depth : i \in Depth' /\ stack'[i] = stack[i]
        /\ \A j \in Depth' : j \in Depth \/ j = Len(stack) + 1
    BY <1>1, <1>3 DEF Pushed, Same, Depth
  <2> QED
    BY <2>1 DEF LastKeeps, Child
<1>4. ASSUME stack # <<>>
      PROVE  /\ Len(stack) \in Depth /\ Top = stack[Len(stack)]
             /\ \A i \in Depth : i # Len(stack) => i \in 1 .. Len(stack) - 1
             /\ 1 .. Len(stack) - 1 \subseteq Depth
  BY <1>1, <1>4 DEF Depth, Top
<1>5. ASSUME stack # <<>>, NEW f, Swapped(f), Child(f) <=> Child(Top),
             Child(f) => f.command = Top.command, LastKeeps(c)
      PROVE  LastKeeps(c)'
  <2>1. /\ Depth' = Depth /\ stack'[Len(stack)] = f
        /\ \A i \in 1 .. Len(stack) - 1 : stack'[i] = stack[i]
    BY <1>5 DEF Swapped, Same, Depth
  <2>2. \A i \in Depth : /\ Child(stack'[i]) <=> Child(stack[i])
                         /\ Child(stack[i]) => stack'[i].command = stack[i].command
    BY <1>4, <1>5, <2>1
  <2> QED
    BY <1>5, <2>1, <2>2 DEF LastKeeps, Child
<1>6. ASSUME stack # <<>>, NEW g, NEW f, Called(g, f)
      PROVE  /\ Child(f) => LastKeeps(f.command)'
             /\ ~Child(g) /\ ~Child(f) /\ ~Child(Top) /\ LastKeeps(c) => LastKeeps(c)'
  <2>1. /\ Len(stack) + 1 \in Depth' /\ stack'[Len(stack) + 1] = f
        /\ \A j \in Depth' : ~(j > Len(stack) + 1)
        /\ stack'[Len(stack)] = g
        /\ \A i \in 1 .. Len(stack) - 1 : i \in Depth' /\ stack'[i] = stack[i]
        /\ \A j \in Depth' : j \in 1 .. Len(stack) - 1 \/ j = Len(stack) \/ j = Len(stack) + 1
    BY <1>1, <1>6 DEF Called, Same, Depth
  <2> QED
    BY <1>4, <1>6, <2>1 DEF LastKeeps, Child
<1>7. ASSUME stack # <<>>, Popped, ~Child(Top), LastKeeps(c)
      PROVE  LastKeeps(c)'
  <2>1. /\ Depth' = 1 .. Len(stack) - 1
        /\ \A i \in 1 .. Len(stack) - 1 : stack'[i] = stack[i]
    BY <1>7 DEF Popped, Same, Depth
  <2> QED
    BY <1>4, <1>7, <2>1 DEF LastKeeps, Child
<1>8. ASSUME stack # <<>>, Child(Top), LastKeeps(c)
      PROVE  c = Top.command
  BY <1>1, <1>8 DEF LastKeeps, Top, Depth
<1> QED
  BY <1>2, <1>3, <1>5, <1>6, <1>7, <1>8

\* A step that changes no trap and neither starts nor ends a run_sigchld_trap.
LEMMA AskedKept ==
  ASSUME AskedInv, KeepsTraps, UNCHANGED <<wanted, ignored>>,
         LastKeeps(wanted[SIGCHLD]) => LastKeeps(wanted[SIGCHLD])'
  PROVE  AskedInv'
BY DEF AskedInv, AskedFor, KeepsTraps

\* The moves of the activations in a step that changes no trap.
LEMMA AskedMoves ==
  ASSUME TypeOK, AskedInv, KeepsTraps, UNCHANGED <<wanted, ignored>>,
         \/ Still
         \/ \E f : Pushed(f) /\ ~Child(f)
         \/ /\ stack # <<>>
            /\ \/ \E f : /\ Swapped(f) /\ (Child(f) <=> Child(Top))
                         /\ Child(f) => f.command = Top.command
               \/ \E g, f : Called(g, f) /\ ~Child(g) /\ ~Child(f) /\ ~Child(Top)
               \/ Popped /\ ~Child(Top)
  PROVE  AskedInv'
<1>1. LastKeeps(wanted[SIGCHLD]) => LastKeeps(wanted[SIGCHLD])'
  <2>1. PICK c : c = wanted[SIGCHLD]
    OBVIOUS
  <2>2. LastKeeps(c) => LastKeeps(c)'
    BY LastKeepsMoves
  <2>3. LastKeeps(wanted[SIGCHLD])' <=> LastKeeps(c)'
    BY <2>1 DEF LastKeeps
  <2> QED
    BY <2>1, <2>2, <2>3
<1> QED
  BY <1>1, AskedKept

\* The trap command: the traps are as asked, and the request had an effect.
LEMMA AskedAnew ==
  ASSUME TypeOK, AskedInv, NEW s \in Signals, NEW c \in Commands \cup {DEFAULT_SIG, IGNORE_SIG},
         Asked(s, c), Still,
         trap_list' = [trap_list EXCEPT ![s] = c],
         \A t \in Signals \ {s} : sigmodes'[t] = sigmodes[t],
         "TRAPPED" \in sigmodes'[s] <=> c # DEFAULT_SIG,
         "IGNORED" \in sigmodes'[s] <=> c = IGNORE_SIG
  PROVE  AskedInv'
<1>1. c \in Commands \cup Sentinels /\ c # IMPOSSIBLE_TRAP_HANDLER
  BY NoSentinelCommand DEF Sentinels
<1>2. /\ wanted' = [wanted EXCEPT ![s] = c]
      /\ ignored' = (ignored /\ s # SIGCHLD)
  BY DEF Asked
<1>3. wanted' \in [Signals -> Commands \cup Sentinels]
  BY <1>1, <1>2 DEF AskedInv
<1>4. AskedFor(s)'
  BY <1>2 DEF AskedFor, Has, AskedInv, TypeOK
<1>5. ASSUME NEW t \in Signals, t # s
      PROVE  /\ trap_list'[t] = trap_list[t]
             /\ AskedFor(t)' <=> AskedFor(t)
  BY <1>2, <1>5 DEF AskedFor, Has, AskedInv, TypeOK
<1>6. CASE s = SIGCHLD
  BY <1>1, <1>3, <1>4, <1>5, <1>6 DEF AskedInv, TypeOK
<1>7. CASE s # SIGCHLD
  <2>1. ignored' <=> ignored
    BY <1>2, <1>7
  <2>2. LastKeeps(wanted[SIGCHLD]) => LastKeeps(wanted[SIGCHLD])'
    BY <1>2, <1>7 DEF Still, LastKeeps, Depth, AskedInv
  <2> QED
    BY <1>3, <1>4, <1>5, <1>7, <2>1, <2>2, SignalsAssumption DEF AskedInv
<1> QED
  BY <1>6, <1>7

\* A run_sigchld_trap starts: it keeps what the script asked for.
LEMMA AskedIsKept ==
  ASSUME TypeOK, AskedInv, UNCHANGED <<wanted, ignored>>,
         NEW c, c = trap_list[SIGCHLD], c # IMPOSSIBLE_TRAP_HANDLER, LastKeeps(c)',
         trap_list' = [trap_list EXCEPT ![SIGCHLD] = IMPOSSIBLE_TRAP_HANDLER],
         sigmodes' = [sigmodes EXCEPT ![SIGCHLD] = @ \ {"TRAPPED", "IGNORED"}]
  PROVE  AskedInv'
<1>1. ASSUME NEW s \in Signals, s # SIGCHLD
      PROVE  AskedFor(s)' <=> AskedFor(s)
  BY <1>1 DEF AskedFor, Has, TypeOK
<1>2. trap_list'[SIGCHLD] = IMPOSSIBLE_TRAP_HANDLER
  BY SignalsAssumption DEF TypeOK
<1>3. ~ignored => wanted'[SIGCHLD] = c
  BY SignalsAssumption DEF AskedInv, AskedFor
<1>4. ~ignored => LastKeeps(wanted[SIGCHLD])'
  BY <1>3 DEF LastKeeps
<1> QED
  BY <1>1, <1>2, <1>4 DEF AskedInv

\* The last run_sigchld_trap has ended and puts the command back, unless its
\* handler changed the trap.
LEMMA AskedIsPutBack ==
  ASSUME TypeOK, AskedInv, SentinelInv, UNCHANGED <<wanted, ignored>>,
         stack # <<>>, Child(Top), Top.command \in Commands,
         maybe_set_sigchld_trap(Top.command)
  PROVE  AskedInv'
<1>1. trap_list[SIGCHLD] = IMPOSSIBLE_TRAP_HANDLER => ~Has(SIGCHLD, "TRAPPED")
  BY SignalsAssumption DEF SentinelInv
<1>2. CASE trap_list[SIGCHLD] = IMPOSSIBLE_TRAP_HANDLER
  <2>1. change_signal(SIGCHLD, Top.command)
    BY <1>1, <1>2 DEF maybe_set_sigchld_trap
  <2>2. ~ignored => wanted[SIGCHLD] = Top.command
    BY <1>2, LastKeepsMoves DEF AskedInv
  <2>3. Top.command # IMPOSSIBLE_TRAP_HANDLER /\ Top.command # DEFAULT_SIG /\ Top.command # IGNORE_SIG
    BY NoSentinelCommand DEF Sentinels
  <2>4. /\ trap_list'[SIGCHLD] = Top.command
        /\ Has(SIGCHLD, "TRAPPED")' /\ ~Has(SIGCHLD, "IGNORED")'
    BY <2>1, <2>3, SignalsAssumption DEF change_signal, ChangedModes, Has, TypeOK
  <2>5. ASSUME NEW s \in Signals, s # SIGCHLD
        PROVE  AskedFor(s)' <=> AskedFor(s)
    BY <2>1, <2>5 DEF AskedFor, Has, TypeOK, change_signal
  <2>6. ~ignored => AskedFor(SIGCHLD)'
    BY <2>2, <2>3, <2>4 DEF AskedFor
  <2> QED
    BY <2>3, <2>4, <2>5, <2>6 DEF AskedInv
<1>3. CASE trap_list[SIGCHLD] # IMPOSSIBLE_TRAP_HANDLER
  <2>1. UNCHANGED <<trap_list, sigmodes>>
    BY <1>3 DEF maybe_set_sigchld_trap
  <2> QED
    BY <1>3, <2>1 DEF AskedInv, AskedFor, Has
<1> QED
  BY <1>2, <1>3

\* Every step keeps the traps as they were asked for.
LEMMA AskedStep ==
  ASSUME TypeOK, SentinelInv, AskedInv, [HNext]_allVars
  PROVE  AskedInv'
<1> USE SignalsAssumption
<1>1. ASSUME UNCHANGED <<trap_list, sigmodes>>
      PROVE  KeepsTraps
  BY <1>1 DEF KeepsTraps, Has
<1>3. CASE UNCHANGED allVars
  <2>1. UNCHANGED <<trap_list, sigmodes, wanted, ignored>> /\ Still
    BY <1>3 DEF allVars, vars, historyVars, Still
  <2> QED
    BY <1>1, <2>1, AskedMoves
<1>4. ASSUME Still, UNCHANGED <<trap_list, sigmodes>>, UNCHANGED <<wanted, ignored>>
      PROVE  AskedInv'
  BY <1>1, <1>4, AskedMoves
<1>5. ASSUME NEW s, NEW n, Caught(s, n) \/ Ran(s)
      PROVE  UNCHANGED <<wanted, ignored>>
  BY <1>5 DEF Caught, Ran
<1>6. CASE HChosen
  <2>1. ASSUME NEW s \in Signals, NEW c \in Commands, SetTrap(s, c), Asked(s, c)
        PROVE  AskedInv'
    <3>1. Still /\ change_signal(s, c)
      BY <2>1 DEF SetTrap, Still
    <3>2. c # DEFAULT_SIG /\ c # IGNORE_SIG
      BY NoSentinelCommand DEF Sentinels
    <3>3. /\ trap_list' = [trap_list EXCEPT ![s] = c]
          /\ \A t \in Signals \ {s} : sigmodes'[t] = sigmodes[t]
          /\ "TRAPPED" \in sigmodes'[s] /\ "IGNORED" \notin sigmodes'[s]
      BY <3>1, <3>2 DEF change_signal, ChangedModes, TypeOK
    <3> QED
      BY <2>1, <3>1, <3>2, <3>3, AskedAnew
  <2>2. ASSUME NEW s \in Signals, IgnoreTrap(s), Asked(s, IGNORE_SIG)
        PROVE  AskedInv'
    <3>1. Still /\ change_signal(s, IGNORE_SIG)
      BY <2>2 DEF IgnoreTrap, Still
    <3>2. IGNORE_SIG # DEFAULT_SIG
      BY DEF IGNORE_SIG, DEFAULT_SIG
    <3>3. /\ trap_list' = [trap_list EXCEPT ![s] = IGNORE_SIG]
          /\ \A t \in Signals \ {s} : sigmodes'[t] = sigmodes[t]
          /\ "TRAPPED" \in sigmodes'[s] /\ "IGNORED" \in sigmodes'[s]
      BY <3>1 DEF change_signal, ChangedModes, TypeOK
    <3> QED
      BY <2>2, <3>1, <3>2, <3>3, AskedAnew
  <2>3. ASSUME NEW s \in Signals, ResetTrap(s), Asked(s, DEFAULT_SIG)
        PROVE  AskedInv'
    <3>1. IGNORE_SIG # DEFAULT_SIG
      BY DEF IGNORE_SIG, DEFAULT_SIG
    <3>2. /\ trap_list' = [trap_list EXCEPT ![s] = DEFAULT_SIG] /\ Still
          /\ \A t \in Signals \ {s} : sigmodes'[t] = sigmodes[t]
          /\ "TRAPPED" \notin sigmodes'[s] /\ "IGNORED" \notin sigmodes'[s]
      BY <2>3 DEF ResetTrap, Still, TypeOK
    <3> QED
      BY <2>3, <3>1, <3>2, AskedAnew
  <2>4. ASSUME NEW s \in Signals, trap_handler(s), Caught(s, 1)
        PROVE  AskedInv'
    BY <1>4, <1>5, <2>4 DEF trap_handler, Still
  <2>5. ASSUME NEW n \in 1 .. MaxEvents, queue_sigchld_trap(n), Caught(SIGCHLD, n)
        PROVE  AskedInv'
    BY <1>4, <1>5, <2>5 DEF queue_sigchld_trap, Still
  <2>6. ASSUME NEW n \in 1 .. MaxEvents, WaitRunsTrap(n), Caught(SIGCHLD, n)
        PROVE  AskedInv'
    <3>1. UNCHANGED <<wanted, ignored>>
      BY <1>5, <2>6
    <3>2. PICK c : c = trap_list[SIGCHLD]
      OBVIOUS
    <3>3. PICK f : f = ChildFrame(n, c)
      OBVIOUS
    <3>4. CASE /\ Pushed(f) /\ c \in Commands
               /\ trap_list' = [trap_list EXCEPT ![SIGCHLD] = IMPOSSIBLE_TRAP_HANDLER]
               /\ sigmodes' = [sigmodes EXCEPT ![SIGCHLD] = @ \ {"TRAPPED", "IGNORED"}]
      <4>1. Child(f) /\ f.command = c /\ c # IMPOSSIBLE_TRAP_HANDLER
        BY <3>3, <3>4, ChildKinds, NoSentinelCommand DEF Sentinels
      <4>2. LastKeeps(c)'
        BY <3>4, <4>1, LastKeepsMoves
      <4> QED
        BY <3>1, <3>2, <3>4, <4>1, <4>2, AskedIsKept
    <3> QED
      BY <1>4, <2>6, <3>1, <3>2, <3>3, <3>4, WaitMove
  <2>7. ASSUME InterruptedCommand, Caught(SIGINT, 1)
        PROVE  AskedInv'
    <3>1. UNCHANGED <<wanted, ignored>>
      BY <1>5, <2>7
    <3>2. CASE /\ Pushed(InterruptFrame(running_trap, Has(SIGINT, "INPROGRESS")))
               /\ UNCHANGED trap_list
               /\ sigmodes' = [sigmodes EXCEPT ![SIGINT] = @ \cup {"INPROGRESS"}]
      <4>1. KeepsTraps
        BY <3>2 DEF KeepsTraps, Has, TypeOK
      <4> QED
        BY <3>1, <3>2, <4>1, ChildKinds, AskedMoves
    <3> QED
      BY <1>4, <2>7, <3>1, <3>2, InterruptMove
  <2>8. ASSUME ResetIgnored
        PROVE  AskedInv'
    <3>1. /\ wanted' = [wanted EXCEPT ![SIGCHLD] = DEFAULT_SIG] /\ ignored'
          /\ UNCHANGED <<trap_list, sigmodes>>
      BY <2>8 DEF ResetIgnored, vars
    <3>2. DEFAULT_SIG \in Commands \cup Sentinels
      BY DEF Sentinels
    <3> QED
      BY <3>1, <3>2 DEF AskedInv, AskedFor, Has
  <2> QED
    BY <1>6, <2>1, <2>2, <2>3, <2>4, <2>5, <2>6, <2>7, <2>8 DEF HChosen
<1>7. CASE HPending
  <2>1. UNCHANGED <<wanted, ignored>> /\ KeepsTraps
    BY <1>1, <1>7 DEF HPending, historyVars, run_pending_traps
  <2>2. Pushed(PendingFrame("test", 1, running_trap, 0))
    BY <1>7, RunPendingMove DEF HPending
  <2> QED
    BY <2>1, <2>2, ChildKinds, AskedMoves
\* run_pending_traps goes on without a run of the SIGCHLD trap.
<1>8. ASSUME stack # <<>>, Top.fn = "run_pending_traps", KeepsTraps,
             UNCHANGED <<wanted, ignored>>,
             NEW pc, NEW sig, NEW old, NEW n, Swapped(PendingFrame(pc, sig, old, n))
      PROVE  AskedInv'
  <2>1. ~Child(Top)
    BY <1>8 DEF Child
  <2> QED
    BY <1>8, <2>1, ChildKinds, AskedMoves
<1>9. ASSUME stack # <<>>, Top.fn = "run_pending_traps", KeepsTraps, Top.sig \in Signals,
             UNCHANGED <<wanted, ignored>>, stack' = NextSignal
      PROVE  AskedInv'
  BY <1>8, <1>9, NextSignalMove
<1>10. CASE HScan
  <2>1. UNCHANGED <<wanted, ignored>> /\ Scan
    BY <1>10 DEF HScan, historyVars
  <2>2. CASE NotPending \/ ChildrenInProgress \/ BadTrap
    <3>1. stack # <<>> /\ Top.fn = "run_pending_traps" /\ Top.sig \in Signals
      BY <2>2 DEF NotPending, ChildrenInProgress, BadTrap, Ordinary, Pending, Scanning
    <3>2. stack' = NextSignal /\ KeepsTraps
      BY <1>1, <2>2 DEF NotPending, ChildrenInProgress, BadTrap
    <3> QED
      BY <1>9, <2>1, <3>1, <3>2
  <2>3. CASE EndChildren
    <3>1. stack # <<>> /\ Top.fn = "run_pending_traps" /\ Top.sig \in Signals
      BY <2>3 DEF EndChildren, Scanning
    <3>2. KeepsTraps
      BY <2>3 DEF EndChildren, KeepsTraps, Has, TypeOK
    <3> QED
      BY <1>9, <2>1, <2>3, <3>1, <3>2 DEF EndChildren
  <2>4. CASE RunTrap
    <3>1. stack # <<>> /\ Top.fn = "run_pending_traps" /\ KeepsTraps
      BY <1>1, <2>4 DEF RunTrap, Ordinary, Pending, Scanning
    <3> QED
      BY <1>8, <2>1, <2>4, <3>1, RunTrapMove
  <2>5. CASE TakeChildren
    <3>1. stack # <<>> /\ Top.fn = "run_pending_traps"
      BY <2>5 DEF TakeChildren, Pending, Scanning
    <3>2. KeepsTraps
      BY <2>5 DEF TakeChildren, KeepsTraps, Has, TypeOK
    <3> QED
      BY <1>8, <2>1, <2>5, <3>1, <3>2, TakeChildrenMove
  <2>6. CASE TakeInterrupt
    <3> DEFINE g == PendingFrame("return", SIGINT, Top.old, 0)
               f == InterruptFrame(SIGINT + 1, Has(SIGINT, "INPROGRESS"))
    <3>1. stack # <<>> /\ Top.fn = "run_pending_traps"
      BY <2>6 DEF TakeInterrupt, Pending, Scanning
    <3>2. CASE Swapped(g) /\ UNCHANGED <<trap_list, sigmodes>>
      BY <1>1, <1>8, <2>1, <3>1, <3>2
    <3>3. CASE /\ Called(g, f) /\ UNCHANGED trap_list
               /\ sigmodes' = [sigmodes EXCEPT ![SIGINT] = @ \cup {"INPROGRESS"}]
      <4>1. KeepsTraps
        BY <3>3 DEF KeepsTraps, Has, TypeOK
      <4>2. ~Child(g) /\ ~Child(f) /\ ~Child(Top)
        BY <3>1, ChildKinds DEF Child
      <4> HIDE DEF f, g
      <4> QED
        BY <2>1, <3>1, <3>3, <4>1, <4>2, AskedMoves
    <3> HIDE DEF f, g
    <3> QED
      BY <2>6, <3>2, <3>3, TakeInterruptMove DEF f, g
  <2>7. CASE RunChildren
    <3>1. stack # <<>> /\ Top.fn = "run_pending_traps" /\ Top.pc = "clear"
      BY <2>7 DEF RunChildren, Scanning
    <3>2. PICK c : c = trap_list[SIGCHLD]
      OBVIOUS
    <3>3. PICK g, f : g = PendingFrame("return", SIGCHLD, Top.old, 0) /\ f = ChildFrame(Top.n, c)
      OBVIOUS
    <3>4. c # IMPOSSIBLE_TRAP_HANDLER
      BY <3>1, <3>2, TopOfStack DEF SentinelInv, NoneClears, Depth, Top, TypeOK
    <3>5. CASE Swapped(g) /\ UNCHANGED <<trap_list, sigmodes>>
      BY <1>1, <1>8, <2>1, <3>1, <3>3, <3>5
    <3>6. CASE /\ Called(g, f)
               /\ trap_list' = [trap_list EXCEPT ![SIGCHLD] = IMPOSSIBLE_TRAP_HANDLER]
               /\ sigmodes' = [sigmodes EXCEPT ![SIGCHLD] = @ \ {"TRAPPED", "IGNORED"}]
      <4>1. Child(f) /\ f.command = c
        BY <3>3, ChildKinds
      <4>2. LastKeeps(c)'
        BY <3>1, <3>6, <4>1, LastKeepsMoves
      <4> QED
        BY <2>1, <3>2, <3>4, <3>6, <4>2, AskedIsKept
    <3> QED
      BY <2>7, <3>2, <3>3, <3>5, <3>6, RunChildrenMove
  <2>8. CASE EndPending
    <3>1. stack # <<>> /\ ~Child(Top) /\ KeepsTraps
      BY <1>1, <2>8 DEF EndPending, Scanning, Child
    <3> QED
      BY <2>1, <2>8, <3>1, PopMove, AskedMoves
  <2> QED
    BY <2>1, <2>2, <2>3, <2>4, <2>5, <2>6, <2>7, <2>8 DEF Scan
<1>11. CASE HFinish
  <2>1. CASE NextChild /\ Ran(SIGCHLD)
    <3>1. /\ stack # <<>> /\ Child(Top) /\ KeepsTraps /\ UNCHANGED <<wanted, ignored>>
      BY <1>1, <1>5, <2>1 DEF NextChild, Child
    <3>2. PICK f : f = ChildFrame(Top.n - 1, Top.command)
      OBVIOUS
    <3>3. Swapped(f) /\ Child(f) /\ f.command = Top.command
      BY <2>1, <3>2, NextChildMove, ChildKinds
    <3> QED
      BY <3>1, <3>3, AskedMoves
  <2>2. CASE LastChild /\ Ran(SIGCHLD)
    <3>1. /\ stack # <<>> /\ Child(Top) /\ maybe_set_sigchld_trap(Top.command)
          /\ UNCHANGED <<wanted, ignored>>
      BY <1>5, <2>2 DEF LastChild, Child
    <3>2. Top.command \in Commands
      BY <3>1, TopOfStack DEF SentinelInv, StackInv, Depth, Top, TypeOK
    <3> QED
      BY <3>1, <3>2, AskedIsPutBack
  <2>3. CASE EndInterruptTrap /\ Ran(SIGINT)
    <3>1. stack # <<>> /\ ~Child(Top) /\ UNCHANGED <<wanted, ignored>>
      BY <1>5, <2>3 DEF EndInterruptTrap, Child
    <3>2. KeepsTraps
      BY <2>3 DEF EndInterruptTrap, KeepsTraps, Has, TypeOK
    <3> QED
      BY <2>3, <3>1, <3>2, PopMove, AskedMoves
  <2>4. CASE EndTrap /\ IF Top.pc = "trap" THEN Ran(Top.sig) ELSE UNCHANGED historyVars
    <3>1. /\ stack # <<>> /\ Top.fn = "run_pending_traps" /\ Top.sig \in Signals
          /\ stack' = NextSignal /\ KeepsTraps
      BY <1>1, <2>4, TopType DEF EndTrap, Scanning
    <3>2. UNCHANGED <<wanted, ignored>>
      BY <2>4 DEF Ran, historyVars
    <3> QED
      BY <1>9, <3>1, <3>2
  <2> QED
    BY <1>11, <2>1, <2>2, <2>3, <2>4 DEF HFinish
<1> QED
  BY <1>3, <1>6, <1>7, <1>10, <1>11 DEF HNext

\* Outside its handler every signal has the trap the script last asked for:
\* run_sigchld_trap puts back what it took, however handlers nest and change
\* traps, unless restore_default_signal ignored a reset.
THEOREM TrapsAreAsAsked == HSpec => []AsAsked
<1>1. HInit => AskedInv
  <2>1. DEFAULT_SIG \in Commands \cup Sentinels /\ DEFAULT_SIG # IGNORE_SIG
        /\ DEFAULT_SIG # IMPOSSIBLE_TRAP_HANDLER
    BY NoSentinelCommand DEF Sentinels, DEFAULT_SIG, IGNORE_SIG
  <2> QED
    BY <2>1, SignalsAssumption DEF HInit, Init, AskedInv, AskedFor, Has
<1>2. TypeOK /\ SentinelInv /\ AskedInv /\ [HNext]_allVars => AskedInv'
  BY AskedStep
<1>3. TypeOK /\ SentinelInv /\ AskedInv => AsAsked
  <2>1. ASSUME TypeOK, SomeChild
        PROVE  Active("run_sigchld_trap", {"trap"}, SIGCHLD)
    BY <2>1, ChildIsActive
  <2> QED
    BY <2>1, SignalsAssumption DEF SentinelInv, AskedInv, AskedFor, AsAsked
<1> QED
  BY <1>1, <1>2, <1>3, HistoryInv, PTL DEF HSpec

(***************************************************************************)
(* Totals: the recursive function exists, is unique and adds one more      *)
(* number in each step (a least counterexample takes the place of an       *)
(* induction)                                                              *)
(***************************************************************************)
\* The function behind Total.
IsTotal(t, f, n) == t = [i \in 0 .. n |-> IF i = 0 THEN 0 ELSE t[i - 1] + f[i]]

LEMMA TotalDefined ==
  ASSUME NEW f, NEW n \in Nat
  PROVE  \E t : IsTotal(t, f, n)
<1> DEFINE Bad == {m \in Nat : ~\E t : IsTotal(t, f, m)}
<1>1. ASSUME Bad # {}
      PROVE  FALSE
  <2>1. PICK m \in Bad : \A k \in Bad : m <= k
    BY <1>1, LeastNat
  <2>2. m \in Nat /\ ~\E t : IsTotal(t, f, m)
    BY <2>1
  <2>3. CASE m = 0
    <3>1. IsTotal([i \in 0 .. 0 |-> 0], f, 0)
      BY DEF IsTotal
    <3> QED
      BY <2>2, <2>3, <3>1
  <2>4. CASE m # 0
    <3>1. m - 1 \in Nat /\ m - 1 \notin Bad
      BY <2>1, <2>2, <2>4
    <3>2. PICK t : IsTotal(t, f, m - 1)
      BY <3>1
    <3> DEFINE u == [i \in 0 .. m |-> IF i = m THEN t[m - 1] + f[m] ELSE t[i]]
    <3>3. IsTotal(u, f, m)
      <4>1. \A i \in 0 .. m - 1 : t[i] = IF i = 0 THEN 0 ELSE t[i - 1] + f[i]
        BY <3>2 DEF IsTotal
      <4>2. \A i \in 0 .. m : u[i] = IF i = 0 THEN 0 ELSE u[i - 1] + f[i]
        BY <2>2, <2>4, <4>1
      <4> QED
        BY <4>2 DEF IsTotal
    <3> QED
      BY <2>2, <3>3
  <2> QED
    BY <2>3, <2>4
<1> QED
  BY <1>1

LEMMA TotalUnique ==
  ASSUME NEW f, NEW g, NEW n \in Nat, NEW m \in Nat, NEW t, NEW u,
         IsTotal(t, f, n), IsTotal(u, g, m),
         NEW k \in Nat, k <= n, k <= m, \A i \in 1 .. k : f[i] = g[i]
  PROVE  t[k] = u[k]
<1>1. /\ \A i \in 0 .. n : t[i] = IF i = 0 THEN 0 ELSE t[i - 1] + f[i]
      /\ \A i \in 0 .. m : u[i] = IF i = 0 THEN 0 ELSE u[i - 1] + g[i]
  BY DEF IsTotal
<1> DEFINE Bad == {i \in 0 .. k : t[i] # u[i]}
<1>2. ASSUME Bad # {}
      PROVE  FALSE
  <2>0. Bad \subseteq Nat
    OBVIOUS
  <2>1. PICK i \in Bad : \A j \in Bad : i <= j
    BY ONLY <1>2, <2>0, LeastNat
  <2>2. i # 0 /\ i - 1 \in 0 .. k /\ i - 1 \notin Bad
    BY <1>1, <2>1
  <2>3. t[i] = t[i - 1] + f[i] /\ u[i] = u[i - 1] + g[i]
    BY <1>1, <2>1, <2>2
  <2> QED
    BY <2>1, <2>2, <2>3
<1> QED
  BY <1>2

LEMMA TotalIs ==
  ASSUME NEW f, NEW n \in Nat
  PROVE  \E t : IsTotal(t, f, n) /\ Total(f, n) = t[n]
<1>1. PICK t : t = CHOOSE u : u = [i \in 0 .. n |-> IF i = 0 THEN 0 ELSE u[i - 1] + f[i]]
  OBVIOUS
<1>2. \E u : u = [i \in 0 .. n |-> IF i = 0 THEN 0 ELSE u[i - 1] + f[i]]
  BY TotalDefined DEF IsTotal
<1>3. IsTotal(t, f, n)
  BY <1>1, <1>2, Zenon DEF IsTotal
<1>4. Total(f, n) = t[n]
  BY <1>1, Zenon DEF Total
<1> QED
  BY <1>3, <1>4

LEMMA TotalSteps ==
  ASSUME NEW f, NEW n \in Nat
  PROVE  /\ Total(f, 0) = 0
         /\ Total(f, n + 1) = Total(f, n) + f[n + 1]
<1>1. PICK t : IsTotal(t, f, n) /\ Total(f, n) = t[n]
  BY TotalIs
<1>2. PICK u : IsTotal(u, f, n + 1) /\ Total(f, n + 1) = u[n + 1]
  BY TotalIs
<1>3. PICK z : IsTotal(z, f, 0) /\ Total(f, 0) = z[0]
  BY TotalIs
<1>4. t[n] = u[n]
  BY <1>1, <1>2, TotalUnique
<1>5. u[n + 1] = u[n] + f[n + 1]
  BY <1>2 DEF IsTotal
<1>6. z[0] = 0
  BY <1>3 DEF IsTotal
<1> QED
  BY <1>1, <1>2, <1>3, <1>4, <1>5, <1>6

LEMMA TotalSame ==
  ASSUME NEW f, NEW g, NEW n \in Nat, \A i \in 1 .. n : f[i] = g[i]
  PROVE  Total(f, n) = Total(g, n)
<1>1. PICK t : IsTotal(t, f, n) /\ Total(f, n) = t[n]
  BY TotalIs
<1>2. PICK u : IsTotal(u, g, n) /\ Total(g, n) = u[n]
  BY TotalIs
<1> QED
  BY <1>1, <1>2, TotalUnique

LEMMA TotalType ==
  ASSUME NEW f, NEW n \in Nat, \A i \in 1 .. n : f[i] \in Nat
  PROVE  Total(f, n) \in Nat
<1> DEFINE Bad == {i \in 0 .. n : Total(f, i) \notin Nat}
<1>1. ASSUME Bad # {}
      PROVE  FALSE
  <2>0. Bad \subseteq Nat
    OBVIOUS
  <2>1. PICK i \in Bad : \A j \in Bad : i <= j
    BY ONLY <1>1, <2>0, LeastNat
  <2>2. i # 0
    BY <2>1, TotalSteps
  <2>3. i - 1 \in Nat /\ i - 1 \notin Bad /\ i - 1 + 1 = i
    BY <2>1, <2>2
  <2>4. Total(f, i) = Total(f, i - 1) + f[i]
    BY <2>3, TotalSteps
  <2> QED
    BY <2>1, <2>2, <2>3, <2>4
<1> QED
  BY <1>1

(***************************************************************************)
(* What the activations owe                                                *)
(***************************************************************************)
OwedBy(s) == [i \in DOMAIN stack |-> Runs(stack[i], s)]

LEMMA RunsType ==
  ASSUME NEW f \in Frames, NEW s
  PROVE  Runs(f, s) \in Nat
BY DEF Runs, Frames, Activations

\* The runs in hand are those below the top and the top's.
LEMMA InHandTop ==
  ASSUME TypeOK, NEW s
  PROVE  /\ stack = <<>> => InHand(s) = 0
         /\ stack # <<>> => InHand(s) = Total(OwedBy(s), Len(stack) - 1) + Runs(Top, s)
         /\ InHand(s) \in Nat
<1>1. Len(stack) \in Nat /\ DOMAIN stack = 1 .. Len(stack) /\ (stack = <<>> <=> Len(stack) = 0)
  BY DEF TypeOK
<1>2. \A i \in 1 .. Len(stack) : OwedBy(s)[i] = Runs(stack[i], s) /\ OwedBy(s)[i] \in Nat
  BY <1>1, RunsType DEF OwedBy, TypeOK
<1>3. InHand(s) = Total(OwedBy(s), Len(stack))
  BY DEF InHand, OwedBy
<1>4. InHand(s) \in Nat
  BY <1>1, <1>2, <1>3, TotalType
<1>5. ASSUME stack # <<>>
      PROVE  InHand(s) = Total(OwedBy(s), Len(stack) - 1) + Runs(Top, s)
  <2>0. Len(stack) - 1 \in Nat /\ Len(stack) - 1 + 1 = Len(stack)
    BY ONLY <1>1, <1>5
  <2>1. PICK n \in Nat : n = Len(stack) - 1 /\ n + 1 = Len(stack)
    BY ONLY <2>0
  <2>2. Total(OwedBy(s), n + 1) = Total(OwedBy(s), n) + OwedBy(s)[n + 1]
    BY TotalSteps
  <2>3. OwedBy(s)[n + 1] = Runs(Top, s)
    BY <1>1, <1>2, <2>1 DEF Top
  <2> QED
    BY <1>3, <2>1, <2>2, <2>3
<1>6. stack = <<>> => InHand(s) = 0
  BY <1>1, <1>3, TotalSteps
<1> QED
  BY <1>4, <1>5, <1>6

\* Activations that are alike owe alike.
LEMMA SameOwed ==
  ASSUME TypeOK, TypeOK', NEW s, NEW n \in Nat, n <= Len(stack), n <= Len(stack'), Same(n)
  PROVE  /\ Total(OwedBy(s), n)' = Total(OwedBy(s), n)
         /\ Total(OwedBy(s), n) \in Nat
<1>1. PICK f, g : f = OwedBy(s) /\ g = OwedBy(s)'
  OBVIOUS
<1>2. \A i \in 1 .. n : f[i] = g[i] /\ f[i] \in Nat
  <2>1. /\ DOMAIN stack = 1 .. Len(stack) /\ DOMAIN stack' = 1 .. Len(stack')
        /\ \A i \in 1 .. Len(stack) : stack[i] \in Frames
    BY DEF TypeOK
  <2>2. \A i \in 1 .. n : /\ i \in DOMAIN stack /\ i \in DOMAIN stack'
                          /\ stack'[i] = stack[i] /\ stack[i] \in Frames
    BY <2>1 DEF Same, TypeOK
  <2> QED
    BY <1>1, <2>2, RunsType DEF OwedBy
<1>3. Total(f, n) = Total(g, n) /\ Total(f, n) \in Nat
  BY <1>2, TotalSame, TotalType
<1> QED
  BY <1>1, <1>3

\* How each of the moves changes what is owed.
LEMMA InHandMoves ==
  ASSUME TypeOK, TypeOK', NEW s
  PROVE  /\ Still => InHand(s)' = InHand(s)
         /\ \A f : Pushed(f) => InHand(s)' = InHand(s) + Runs(f, s)
         /\ stack # <<>> => \E below \in Nat :
              /\ InHand(s) = below + Runs(Top, s)
              /\ \A f : Swapped(f) => InHand(s)' = below + Runs(f, s)
              /\ \A g, f : Called(g, f) => InHand(s)' = below + Runs(g, s) + Runs(f, s)
              /\ Popped => InHand(s)' = below
<1>1. /\ Len(stack) \in Nat /\ (stack = <<>> <=> Len(stack) = 0)
      /\ Len(stack') \in Nat /\ (stack' = <<>> <=> Len(stack') = 0)
      /\ DOMAIN stack' = 1 .. Len(stack')
      /\ InHand(s) = Total(OwedBy(s), Len(stack))
      /\ InHand(s)' = Total(OwedBy(s), Len(stack))'
  BY DEF TypeOK, InHand, OwedBy
<1>2. ASSUME NEW n \in Nat, n + 1 = Len(stack')
      PROVE  InHand(s)' = Total(OwedBy(s), n)' + Runs(stack'[n + 1], s)
  <2>1. PICK h : h = OwedBy(s)'
    OBVIOUS
  <2>2. h[n + 1] = Runs(stack'[n + 1], s)
    BY <1>1, <1>2, <2>1 DEF OwedBy
  <2>3. Total(h, n + 1) = Total(h, n) + h[n + 1]
    BY ONLY TotalSteps
  <2>4. InHand(s)' = Total(h, n + 1)
    BY ONLY <1>1, <1>2, <2>1
  <2> QED
    BY <2>1, <2>2, <2>3, <2>4
<1>3. Still => InHand(s)' = InHand(s)
  BY DEF Still, InHand
<1>4. ASSUME NEW f, Pushed(f)
      PROVE  InHand(s)' = InHand(s) + Runs(f, s)
  <2>1. Len(stack') = Len(stack) + 1 /\ stack'[Len(stack) + 1] = f /\ Same(Len(stack))
    BY <1>4 DEF Pushed
  <2>2. PICK n \in Nat : n = Len(stack) /\ n + 1 = Len(stack')
    BY <1>1, <2>1
  <2>3. InHand(s)' = Total(OwedBy(s), n)' + Runs(f, s)
    BY <1>2, <2>1, <2>2
  <2>4. Total(OwedBy(s), n)' = Total(OwedBy(s), n)
    BY <1>1, <2>1, <2>2, SameOwed
  <2> QED
    BY <1>1, <2>2, <2>3, <2>4
<1>5. ASSUME stack # <<>>
      PROVE  \E below \in Nat :
               /\ InHand(s) = below + Runs(Top, s)
               /\ \A f : Swapped(f) => InHand(s)' = below + Runs(f, s)
               /\ \A g, f : Called(g, f) => InHand(s)' = below + Runs(g, s) + Runs(f, s)
               /\ Popped => InHand(s)' = below
  <2>1. PICK n \in Nat : n = Len(stack) - 1 /\ n + 1 = Len(stack)
    BY <1>1, <1>5
  <2>2. PICK below : below = Total(OwedBy(s), n)
    OBVIOUS
  <2>3. InHand(s) = below + Runs(Top, s)
    BY <1>5, <2>1, <2>2, InHandTop
  <2>4. below \in Nat
    <3>1. \A i \in 1 .. n : OwedBy(s)[i] \in Nat
      BY <2>1, RunsType DEF OwedBy, TypeOK
    <3> QED
      BY <2>2, <3>1, TotalType
  <2>5. ASSUME Same(n), n <= Len(stack')
        PROVE  Total(OwedBy(s), n)' = below
    BY <2>1, <2>2, <2>5, SameOwed
  <2>6. ASSUME NEW f, Swapped(f)
        PROVE  InHand(s)' = below + Runs(f, s)
    <3>1. Len(stack') = n + 1 /\ stack'[n + 1] = f /\ Same(n)
      BY <2>1, <2>6 DEF Swapped
    <3> QED
      BY <1>2, <2>5, <3>1
  <2>7. ASSUME NEW g, NEW f, Called(g, f)
        PROVE  InHand(s)' = below + Runs(g, s) + Runs(f, s)
    <3>1. /\ Len(stack') = n + 1 + 1 /\ n + 1 \in Nat /\ Same(n)
          /\ stack'[n + 1] = g /\ stack'[n + 1 + 1] = f
      BY <2>1, <2>7 DEF Called
    <3>2. InHand(s)' = Total(OwedBy(s), n + 1)' + Runs(f, s)
      BY <1>2, <3>1
    <3>3. PICK h : h = OwedBy(s)'
      OBVIOUS
    <3>4. Total(h, n + 1) = Total(h, n) + h[n + 1]
      BY ONLY TotalSteps
    <3>5. Total(h, n) = below /\ h[n + 1] = Runs(g, s)
      <4>1. n + 1 \in DOMAIN stack'
        BY <1>1, <3>1
      <4> QED
        BY <2>5, <3>1, <3>3, <4>1 DEF OwedBy
    <3> QED
      BY <3>2, <3>3, <3>4, <3>5
  <2>8. ASSUME Popped
        PROVE  InHand(s)' = below
    <3>1. Len(stack') = n /\ Same(n)
      BY <2>1, <2>8 DEF Popped
    <3> QED
      BY <1>1, <2>5, <3>1
  <2> QED
    BY <2>3, <2>4, <2>6, <2>7, <2>8
<1> QED
  BY <1>3, <1>4, <1>5

(***************************************************************************)
(* No trap runs more often than its signal was caught                      *)
(***************************************************************************)
\* What a step leaves to spare of a signal's credit grows by n or more.
Gains(s, n) == credit'[s] - pending_traps'[s] >= credit[s] - pending_traps[s] + n

\* Every run_sigchld_trap has a run left, and while run_pending_traps has yet to
\* reset the count it copied, it has copied no more than is pending.
CountsOK ==
  /\ \A i \in Depth : Child(stack[i]) => stack[i].n >= 1
  /\ stack # <<>> /\ Top.pc = "clear" => 1 <= Top.n /\ Top.n <= pending_traps[SIGCHLD]

RunsInv ==
  /\ credit \in [Signals -> Int]
  /\ CountsOK
  /\ \A s \in Signals : InHand(s) <= credit[s] - pending_traps[s]

\* The runs that an activation of each kind owes.
LEMMA RunsKinds ==
  ASSUME NEW s
  PROVE  /\ \A pc, sig, old, n :
              Runs(PendingFrame(pc, sig, old, n), s) = IF sig = s /\ pc = "trap" THEN 1 ELSE 0
         /\ \A n, c : Runs(ChildFrame(n, c), s) = IF s = SIGCHLD THEN n ELSE 0
         /\ \A old, b : Runs(InterruptFrame(old, b), s) = IF s = SIGINT THEN 1 ELSE 0
BY DEF Runs, PendingFrame, ChildFrame, InterruptFrame

\* What the top owes.
LEMMA RunsOfTop ==
  ASSUME TypeOK, stack # <<>>, NEW s
  PROVE  /\ Runs(Top, s) \in Nat
         /\ Top.pc # "trap" => Runs(Top, s) = 0
         /\ Top.fn = "run_pending_traps" /\ Top.pc = "trap" =>
              Runs(Top, s) = IF Top.sig = s THEN 1 ELSE 0
         /\ Child(Top) => Runs(Top, s) = IF s = SIGCHLD THEN Top.n ELSE 0
         /\ Top.fn = "_run_trap_internal" => Runs(Top, s) = IF s = SIGINT THEN 1 ELSE 0
<1>1. Top \in Frames
  BY TopType
<1> QED
  BY <1>1, RunsType DEF Runs, Child, Frames

LEMMA CountsMoves ==
  ASSUME TypeOK, TypeOK', StackInv, CountsOK
  PROVE  /\ Still /\ pending_traps[SIGCHLD] <= pending_traps'[SIGCHLD] => CountsOK'
         /\ \A f : Pushed(f) /\ f.pc # "clear" /\ (Child(f) => f.n >= 1) => CountsOK'
         /\ stack # <<>> =>
              /\ \A f : /\ Swapped(f) /\ (Child(f) => f.n >= 1)
                        /\ f.pc = "clear" => 1 <= f.n /\ f.n <= pending_traps'[SIGCHLD]
                        => CountsOK'
              /\ \A g, f : /\ Called(g, f) /\ ~Child(g) /\ f.pc # "clear"
                           /\ Child(f) => f.n >= 1
                           => CountsOK'
              /\ Popped => CountsOK'
<1>1. /\ Len(stack) \in Nat /\ (Len(stack) = 0 <=> stack = <<>>)
      /\ Len(stack') \in Nat /\ (Len(stack') = 0 <=> stack' = <<>>)
      /\ pending_traps[SIGCHLD] \in Nat /\ pending_traps'[SIGCHLD] \in Nat
      /\ stack # <<>> => Top.n \in Nat
  BY TopType, SignalsAssumption DEF TypeOK
<1>2. Still /\ pending_traps[SIGCHLD] <= pending_traps'[SIGCHLD] => CountsOK'
  BY <1>1 DEF Still, CountsOK, Depth, Top, Child
<1>3. ASSUME NEW f, Pushed(f), f.pc # "clear", Child(f) => f.n >= 1
      PROVE  CountsOK'
  BY <1>1, <1>3 DEF Pushed, Same, CountsOK, Depth, Top, Child
<1>4. ASSUME stack # <<>>, NEW f, Swapped(f), Child(f) => f.n >= 1,
             f.pc = "clear" => 1 <= f.n /\ f.n <= pending_traps'[SIGCHLD]
      PROVE  CountsOK'
  BY <1>1, <1>4 DEF Swapped, Same, CountsOK, Depth, Top, Child
<1>5. ASSUME stack # <<>>, NEW g, NEW f, Called(g, f), ~Child(g), f.pc # "clear",
             Child(f) => f.n >= 1
      PROVE  CountsOK'
  BY <1>1, <1>5 DEF Called, Same, CountsOK, Depth, Top, Child
<1>6. ASSUME stack # <<>>, Popped
      PROVE  CountsOK'
  BY <1>1, <1>6 DEF Popped, Same, CountsOK, Depth, Top, Child, StackInv
<1> QED
  BY <1>2, <1>3, <1>4, <1>5, <1>6

\* A step that gains as many as its move of the stack adds keeps a signal's runs
\* within its credit.
LEMMA OwedMoves ==
  ASSUME TypeOK, TypeOK', RunsInv, credit' \in [Signals -> Int], NEW s \in Signals,
         \/ Still /\ Gains(s, 0)
         \/ \E f : Pushed(f) /\ Gains(s, Runs(f, s))
         \/ /\ stack # <<>>
            /\ \/ \E f : Swapped(f) /\ Gains(s, Runs(f, s) - Runs(Top, s))
               \/ \E g, f : /\ Called(g, f)
                            /\ Gains(s, Runs(g, s) + Runs(f, s) - Runs(Top, s))
               \/ Popped /\ Gains(s, 0 - Runs(Top, s))
  PROVE  InHand(s)' <= credit'[s] - pending_traps'[s]
<1>1. PICK h, j, a, b : /\ h = InHand(s) /\ a = credit[s] - pending_traps[s]
                        /\ j = InHand(s)' /\ b = credit'[s] - pending_traps'[s]
  OBVIOUS
<1>2. h \in Nat /\ a \in Int /\ b \in Int /\ h <= a
  BY <1>1, InHandTop DEF RunsInv, TypeOK
<1>3. CASE Still /\ b >= a + 0
  <2>1. j = h
    BY <1>1, <1>3, InHandMoves
  <2> QED
    BY <1>1, <1>2, <1>3, <2>1
<1>4. ASSUME NEW f, Pushed(f), b >= a + Runs(f, s)
      PROVE  j <= b
  <2>1. j = h + Runs(f, s)
    BY <1>1, <1>4, InHandMoves
  <2>2. Runs(f, s) \in Nat
    BY <1>4, RunsType DEF Pushed
  <2> QED
    BY <1>2, <1>4, <2>1, <2>2
<1>5. CASE stack # <<>>
  <2>1. PICK below \in Nat : /\ h = below + Runs(Top, s)
                             /\ \A f : Swapped(f) => j = below + Runs(f, s)
                             /\ \A g, f : Called(g, f) => j = below + Runs(g, s) + Runs(f, s)
                             /\ Popped => j = below
    BY <1>1, <1>5, InHandMoves
  <2>2. Runs(Top, s) \in Nat
    BY <1>5, RunsOfTop
  <2>3. ASSUME NEW f, Swapped(f), b >= a + (Runs(f, s) - Runs(Top, s))
        PROVE  j <= b
    <3>1. Runs(f, s) \in Nat
      BY <2>3, RunsType DEF Swapped
    <3> QED
      BY <1>2, <2>1, <2>2, <2>3, <3>1
  <2>4. ASSUME NEW g, NEW f, Called(g, f), b >= a + (Runs(g, s) + Runs(f, s) - Runs(Top, s))
        PROVE  j <= b
    <3>1. Runs(g, s) \in Nat /\ Runs(f, s) \in Nat
      BY <2>4, RunsType DEF Called
    <3> QED
      BY <1>2, <2>1, <2>2, <2>4, <3>1
  <2>5. ASSUME Popped, b >= a + (0 - Runs(Top, s))
        PROVE  j <= b
    BY <1>2, <2>1, <2>2, <2>5
  <2>6. \/ Still /\ b >= a + 0
        \/ \E f : Pushed(f) /\ b >= a + Runs(f, s)
        \/ \E f : Swapped(f) /\ b >= a + (Runs(f, s) - Runs(Top, s))
        \/ \E g, f : Called(g, f) /\ b >= a + (Runs(g, s) + Runs(f, s) - Runs(Top, s))
        \/ Popped /\ b >= a + (0 - Runs(Top, s))
    BY <1>1 DEF Gains
  <2> QED
    BY <1>1, <1>3, <1>4, <2>3, <2>4, <2>5, <2>6
<1>6. CASE stack = <<>>
  BY <1>1, <1>3, <1>4, <1>6 DEF Gains
<1> QED
  BY <1>5, <1>6

\* Every step keeps the runs within what was caught.
LEMMA RunsStep ==
  ASSUME TypeOK, SentinelInv, RunsInv, [HNext]_allVars
  PROVE  RunsInv'
<1> USE SignalsAssumption
<1>1. TypeOK' /\ StackInv /\ CountsOK
  BY HistoryIsAdded, TypeStep DEF SentinelInv, RunsInv
<1>2. pending_traps \in [Signals -> Nat] /\ credit \in [Signals -> Int]
  BY DEF TypeOK, RunsInv
\* Nothing moves and each signal keeps its slack.
<1>3. ASSUME Still, UNCHANGED <<credit, pending_traps>>
      PROVE  RunsInv'
  <2>1. credit' \in [Signals -> Int] /\ \A t \in Signals : Gains(t, 0)
    BY <1>2, <1>3 DEF Gains
  <2>2. CountsOK'
    BY <1>1, <1>2, <1>3, CountsMoves
  <2> QED
    BY <1>1, <1>3, <2>1, <2>2, OwedMoves DEF RunsInv
<1>4. ASSUME NEW s \in Signals, NEW n \in Nat, Still, Caught(s, n),
             \/ pending_traps' = [pending_traps EXCEPT ![s] = @ + n]
             \/ UNCHANGED pending_traps
             \/ s # SIGCHLD /\ pending_traps' = [pending_traps EXCEPT ![s] = 0]
      PROVE  RunsInv'
  <2>1. credit' \in [Signals -> Int]
    BY <1>2, <1>4 DEF Caught
  <2>4. ASSUME NEW t \in Signals
        PROVE  Gains(t, 0)
    BY <1>2, <1>4 DEF Gains, Caught
  <2>2. pending_traps[SIGCHLD] <= pending_traps'[SIGCHLD]
    BY <1>2, <1>4
  <2>3. CountsOK'
    BY <1>1, <1>4, <2>2, CountsMoves
  <2> QED
    BY <1>1, <1>4, <2>1, <2>3, <2>4, OwedMoves DEF RunsInv
<1>5. CASE UNCHANGED allVars
  BY <1>3, <1>5 DEF allVars, vars, historyVars, Still
<1>6. CASE HChosen
  <2>1. ASSUME NEW s \in Signals, NEW c,
               \/ SetTrap(s, c) /\ Asked(s, c)
               \/ IgnoreTrap(s) /\ Asked(s, c)
               \/ ResetTrap(s) /\ Asked(s, c)
        PROVE  RunsInv'
    BY <1>3, <2>1 DEF SetTrap, IgnoreTrap, ResetTrap, Asked, Still
  <2>2. ASSUME NEW s \in Signals, trap_handler(s), Caught(s, 1)
        PROVE  RunsInv'
    BY <1>4, <2>2 DEF trap_handler, set_trap_state, Still
  <2>3. ASSUME NEW n \in 1 .. MaxEvents, queue_sigchld_trap(n), Caught(SIGCHLD, n)
        PROVE  RunsInv'
    <3>1. /\ n \in Nat /\ Still
          /\ pending_traps' = [pending_traps EXCEPT ![SIGCHLD] = @ + n]
      BY <2>3 DEF queue_sigchld_trap, set_trap_state, Still
    <3> QED
      BY <1>4, <2>3, <3>1
  <2>4. ASSUME NEW n \in 1 .. MaxEvents, WaitRunsTrap(n), Caught(SIGCHLD, n)
        PROVE  RunsInv'
    <3>0. UNCHANGED pending_traps /\ n \in Nat /\ n >= 1
      BY <2>4 DEF WaitRunsTrap
    <3>1. PICK f : f = ChildFrame(n, trap_list[SIGCHLD])
      OBVIOUS
    <3>2. CASE Pushed(f)
      <4>1. credit' \in [Signals -> Int]
        BY <1>2, <2>4, <3>0 DEF Caught
      <4>2. CountsOK'
        BY <1>1, <3>0, <3>1, <3>2, ChildKinds, CountsMoves
      <4>3. ASSUME NEW s \in Signals
            PROVE  Gains(s, Runs(f, s))
        <5>1. Runs(f, s) = IF s = SIGCHLD THEN n ELSE 0
          BY <3>1, RunsKinds
        <5> QED
          BY <1>2, <2>4, <3>0, <5>1 DEF Gains, Caught
      <4> QED
        BY <1>1, <3>2, <4>1, <4>2, <4>3, OwedMoves DEF RunsInv
    <3> QED
      BY <1>4, <2>4, <3>0, <3>1, <3>2, WaitMove
  <2>5. ASSUME InterruptedCommand, Caught(SIGINT, 1)
        PROVE  RunsInv'
    <3>0. pending_traps' = [pending_traps EXCEPT ![SIGINT] = 0]
      BY <2>5 DEF InterruptedCommand, run_interrupt_trap
    <3>1. PICK f : f = InterruptFrame(running_trap, Has(SIGINT, "INPROGRESS"))
      OBVIOUS
    <3>2. CASE Pushed(f)
      <4>1. credit' \in [Signals -> Int]
        BY <1>2, <2>5 DEF Caught
      <4>3. ASSUME NEW s \in Signals
            PROVE  Gains(s, Runs(f, s))
        <5>1. Runs(f, s) = IF s = SIGINT THEN 1 ELSE 0
          BY <3>1, RunsKinds
        <5> QED
          BY <1>2, <2>5, <3>0, <5>1 DEF Gains, Caught
      <4>2. CountsOK'
        BY <1>1, <3>1, <3>2, ChildKinds, CountsMoves
      <4> QED
        BY <1>1, <3>2, <4>1, <4>2, <4>3, OwedMoves DEF RunsInv
    <3> QED
      BY <1>4, <2>5, <3>0, <3>1, <3>2, InterruptMove
  <2>6. ASSUME ResetIgnored
        PROVE  RunsInv'
    BY <1>3, <2>6 DEF ResetIgnored, vars, Still
  <2> QED
    BY <1>6, <2>1, <2>2, <2>3, <2>4, <2>5, <2>6 DEF HChosen
<1>7. CASE HPending
  <2>1. PICK f : f = PendingFrame("test", 1, running_trap, 0)
    OBVIOUS
  <2>2. Pushed(f) /\ UNCHANGED <<credit, pending_traps>>
    BY <1>7, <2>1, RunPendingMove DEF HPending, historyVars, run_pending_traps
  <2>3. credit' \in [Signals -> Int] /\ \A s \in Signals : Gains(s, Runs(f, s))
    <3>1. \A s \in Signals : Runs(f, s) = 0
      BY <2>1, RunsKinds
    <3> QED
      BY <1>2, <2>2, <3>1 DEF Gains
  <2>4. CountsOK'
    BY <1>1, <2>1, <2>2, ChildKinds, CountsMoves
  <2> QED
    BY <1>1, <2>2, <2>3, <2>4, OwedMoves DEF RunsInv
\* An activation of run_pending_traps that runs no trap goes on; what it takes
\* from the pending counts covers the run it comes to owe.
<1>8. ASSUME stack # <<>>, Top.fn = "run_pending_traps", Top.pc # "trap", UNCHANGED credit,
             NEW pc, NEW sig, NEW n, Swapped(PendingFrame(pc, sig, Top.old, n)),
             pc = "clear" => 1 <= n /\ n <= pending_traps'[SIGCHLD],
             \/ UNCHANGED pending_traps /\ pc # "trap"
             \/ \E s \in Signals : /\ pending_traps' = [pending_traps EXCEPT ![s] = 0]
                                   /\ pc = "trap" => s = sig /\ pending_traps[s] > 0
      PROVE  RunsInv'
  <2>1. PICK f : f = PendingFrame(pc, sig, Top.old, n)
    OBVIOUS
  <2>2. ASSUME NEW s \in Signals
        PROVE  Gains(s, Runs(f, s) - Runs(Top, s))
    <3>1. Runs(Top, s) = 0
      BY <1>8, RunsOfTop
    <3>2. Runs(f, s) = IF sig = s /\ pc = "trap" THEN 1 ELSE 0
      BY <2>1, RunsKinds
    <3> QED
      BY <1>2, <1>8, <3>1, <3>2 DEF Gains
  <2>3. CountsOK'
    BY <1>1, <1>8, <2>1, ChildKinds, CountsMoves
  <2> QED
    BY <1>1, <1>2, <1>8, <2>1, <2>2, <2>3, OwedMoves DEF RunsInv
<1>9. CASE HScan
  <2>1. UNCHANGED credit
    BY <1>9 DEF HScan, historyVars
  <2>2. CASE NotPending \/ ChildrenInProgress \/ EndChildren \/ BadTrap
    <3>1. /\ stack # <<>> /\ Top.fn = "run_pending_traps" /\ Top.pc # "trap"
          /\ Top.sig \in Signals /\ stack' = NextSignal
      BY <2>2 DEF NotPending, ChildrenInProgress, EndChildren, BadTrap, Ordinary, Pending, Scanning
    <3>2. \/ UNCHANGED pending_traps
          \/ pending_traps' = [pending_traps EXCEPT ![Top.sig] = 0]
      BY <2>2 DEF NotPending, ChildrenInProgress, EndChildren, BadTrap
    <3> QED
      BY <1>1, <1>8, <2>1, <3>1, <3>2, NextSignalMove
  <2>3. CASE RunTrap
    <3>1. /\ stack # <<>> /\ Top.fn = "run_pending_traps" /\ Top.pc = "test"
          /\ Top.sig \in Signals /\ pending_traps[Top.sig] > 0
          /\ pending_traps' = [pending_traps EXCEPT ![Top.sig] = 0]
      BY <2>3 DEF RunTrap, Ordinary, Pending, Scanning
    <3> QED
      BY <1>8, <2>1, <2>3, <3>1, RunTrapMove
  <2>4. CASE TakeChildren
    <3>1. /\ stack # <<>> /\ Top.fn = "run_pending_traps" /\ Top.pc = "test"
          /\ UNCHANGED pending_traps /\ pending_traps[SIGCHLD] > 0
      BY <2>4 DEF TakeChildren, Pending, Scanning
    <3> QED
      BY <1>2, <1>8, <2>1, <2>4, <3>1, TakeChildrenMove
  <2>5. CASE TakeInterrupt
    <3>1. PICK g, f : /\ g = PendingFrame("return", SIGINT, Top.old, 0)
                      /\ f = InterruptFrame(SIGINT + 1, Has(SIGINT, "INPROGRESS"))
      OBVIOUS
    <3>2. /\ stack # <<>> /\ Top.fn = "run_pending_traps" /\ Top.pc = "test"
          /\ pending_traps[SIGINT] > 0
          /\ pending_traps' = [pending_traps EXCEPT ![SIGINT] = 0]
      BY <2>5 DEF TakeInterrupt, run_interrupt_trap, Pending, Scanning
    <3>3. CASE Swapped(g)
      BY <1>8, <2>1, <3>1, <3>2, <3>3
    <3>4. CASE Called(g, f)
      <4>3. ASSUME NEW s \in Signals
            PROVE  Gains(s, Runs(g, s) + Runs(f, s) - Runs(Top, s))
        <5>1. Runs(Top, s) = 0
          BY <3>2, RunsOfTop
        <5>2. Runs(g, s) = 0 /\ Runs(f, s) = IF s = SIGINT THEN 1 ELSE 0
          BY <3>1, RunsKinds
        <5> QED
          BY <1>2, <2>1, <3>2, <5>1, <5>2 DEF Gains
      <4>4. CountsOK'
        BY <1>1, <3>1, <3>2, <3>4, ChildKinds, CountsMoves
      <4> QED
        BY <1>1, <1>2, <2>1, <3>2, <3>4, <4>3, <4>4, OwedMoves DEF RunsInv
    <3> QED
      BY <2>5, <3>1, <3>3, <3>4, TakeInterruptMove
  <2>6. CASE RunChildren
    <3>1. PICK g, f : /\ g = PendingFrame("return", SIGCHLD, Top.old, 0)
                      /\ f = ChildFrame(Top.n, trap_list[SIGCHLD])
      OBVIOUS
    <3>2. /\ stack # <<>> /\ Top.fn = "run_pending_traps" /\ Top.pc = "clear"
          /\ pending_traps' = [pending_traps EXCEPT ![SIGCHLD] = 0]
      BY <2>6 DEF RunChildren, Scanning
    <3>3. CASE Swapped(g)
      BY <1>8, <2>1, <3>1, <3>2, <3>3
    <3>4. CASE Called(g, f)
      <4>0. Top.n <= pending_traps[SIGCHLD] /\ Top.n \in Nat
        BY <1>1, <3>2, TopType DEF CountsOK
      <4>3. ASSUME NEW s \in Signals
            PROVE  Gains(s, Runs(g, s) + Runs(f, s) - Runs(Top, s))
        <5>1. Runs(Top, s) = 0
          BY <3>2, RunsOfTop
        <5>2. Runs(g, s) = 0 /\ Runs(f, s) = IF s = SIGCHLD THEN Top.n ELSE 0
          BY <3>1, RunsKinds
        <5> QED
          BY <1>2, <2>1, <3>2, <4>0, <5>1, <5>2 DEF Gains
      <4>5. Top.n >= 1
        BY <1>1, <3>2 DEF CountsOK
      <4>4. CountsOK'
        BY <1>1, <3>1, <3>2, <3>4, <4>5, ChildKinds, CountsMoves
      <4> QED
        BY <1>1, <1>2, <2>1, <3>2, <3>4, <4>3, <4>4, OwedMoves DEF RunsInv
    <3> QED
      BY <2>6, <3>1, <3>3, <3>4, RunChildrenMove
  <2>7. CASE EndPending
    <3>1. /\ stack # <<>> /\ Popped /\ Top.fn = "run_pending_traps" /\ Top.pc = "test"
          /\ UNCHANGED pending_traps
      BY <2>7, PopMove DEF EndPending, Scanning
    <3>2. ASSUME NEW s \in Signals
          PROVE  Gains(s, 0 - Runs(Top, s))
      <4>1. Runs(Top, s) = 0
        BY <3>1, RunsOfTop
      <4> QED
        BY <1>2, <2>1, <3>1, <4>1 DEF Gains
    <3>3. CountsOK'
      BY <1>1, <3>1, CountsMoves
    <3> QED
      BY <1>1, <1>2, <2>1, <3>1, <3>2, <3>3, OwedMoves DEF RunsInv
  <2> QED
    BY <1>9, <2>2, <2>3, <2>4, <2>5, <2>6, <2>7 DEF HScan, Scan
<1>10. CASE HFinish
  <2>1. CASE NextChild /\ Ran(SIGCHLD)
    <3>1. PICK f : f = ChildFrame(Top.n - 1, Top.command)
      OBVIOUS
    <3>2. /\ stack # <<>> /\ Child(Top) /\ Top.n > 1 /\ Top.n \in Nat /\ Swapped(f)
          /\ UNCHANGED pending_traps
      BY <2>1, <3>1, NextChildMove, TopType DEF NextChild, Child
    <3>3. ASSUME NEW s \in Signals
          PROVE  Gains(s, Runs(f, s) - Runs(Top, s))
      <4>1. Runs(Top, s) = IF s = SIGCHLD THEN Top.n ELSE 0
        BY <3>2, RunsOfTop
      <4>2. Runs(f, s) = IF s = SIGCHLD THEN Top.n - 1 ELSE 0
        BY <3>1, RunsKinds
      <4> QED
        BY <1>2, <2>1, <3>2, <4>1, <4>2 DEF Gains, Ran
    <3>5. credit' \in [Signals -> Int]
      BY <1>2, <2>1 DEF Ran
    <3>4. CountsOK'
      BY <1>1, <3>1, <3>2, ChildKinds, CountsMoves
    <3> QED
      BY <1>1, <3>2, <3>3, <3>4, <3>5, OwedMoves DEF RunsInv
  <2>2. CASE (LastChild /\ Ran(SIGCHLD)) \/ (EndInterruptTrap /\ Ran(SIGINT))
    <3>1. stack # <<>> /\ Popped /\ UNCHANGED pending_traps
      BY <2>2, PopMove DEF LastChild, EndInterruptTrap
    <3>2. ASSUME NEW s \in Signals
          PROVE  Gains(s, 0 - Runs(Top, s))
      <4>1. CASE LastChild /\ Ran(SIGCHLD)
        <5>1. Child(Top) /\ Top.n <= 1 /\ Top.n >= 1 /\ Top.n \in Nat
          BY <1>1, <3>1, <4>1, TopType, TopOfStack
             DEF LastChild, Child, CountsOK, Depth, Top, TypeOK
        <5>2. Runs(Top, s) = IF s = SIGCHLD THEN 1 ELSE 0
          BY <3>1, <5>1, RunsOfTop
        <5> QED
          BY <1>2, <3>1, <4>1, <5>2 DEF Gains, Ran
      <4>2. CASE EndInterruptTrap /\ Ran(SIGINT)
        <5>1. Runs(Top, s) = IF s = SIGINT THEN 1 ELSE 0
          BY <3>1, <4>2, RunsOfTop DEF EndInterruptTrap
        <5> QED
          BY <1>2, <3>1, <4>2, <5>1 DEF Gains, Ran
      <4> QED
        BY <2>2, <4>1, <4>2
    <3>4. credit' \in [Signals -> Int]
      BY <1>2, <2>2 DEF Ran
    <3>5. CountsOK'
      BY <1>1, <3>1, CountsMoves
    <3> QED
      BY <1>1, <3>1, <3>2, <3>4, <3>5, OwedMoves DEF RunsInv
  <2>3. CASE EndTrap /\ IF Top.pc = "trap" THEN Ran(Top.sig) ELSE UNCHANGED historyVars
    <3>1. /\ stack # <<>> /\ Top.fn = "run_pending_traps" /\ Top.sig \in Signals
          /\ stack' = NextSignal
          /\ pending_traps' = [pending_traps EXCEPT ![Top.sig] = 0]
      BY <2>3, TopType DEF EndTrap, Scanning
    <3>2. PICK f : f = PendingFrame("test", Top.sig + 1, Top.old, 0)
      OBVIOUS
    <3>3. Swapped(f)
      BY <3>1, <3>2, NextSignalMove
    <3>4. ASSUME NEW s \in Signals
          PROVE  Gains(s, Runs(f, s) - Runs(Top, s))
      <4>1. Runs(Top, s) = IF s = Top.sig /\ Top.pc = "trap" THEN 1 ELSE 0
        BY <3>1, RunsOfTop
      <4>2. Runs(f, s) = 0
        BY <3>2, RunsKinds
      <4> QED
        BY <1>2, <2>3, <3>1, <4>1, <4>2 DEF Gains, Ran, historyVars
    <3>5. credit' \in [Signals -> Int]
      BY <1>2, <2>3 DEF Ran, historyVars
    <3>6. CountsOK'
      BY <1>1, <3>1, <3>2, <3>3, ChildKinds, CountsMoves
    <3> QED
      BY <1>1, <3>1, <3>3, <3>4, <3>5, <3>6, OwedMoves DEF RunsInv
  <2> QED
    BY <1>10, <2>1, <2>2, <2>3 DEF HFinish
<1> QED
  BY <1>5, <1>6, <1>7, <1>9, <1>10 DEF HNext

\* However often pending traps are run inside handlers, a trap runs at most once
\* for each time its signal was caught, and SIGCHLD's at most once for each
\* child: pending_traps is reset before the runs it stands for, and what comes
\* in between is counted anew.
THEOREM RunsAreCaught == HSpec => []RunsAreOwed
<1>1. HInit => RunsInv
  <2>1. ASSUME HInit
        PROVE  RunsInv
    <3>1. TypeOK /\ stack = <<>>
      BY <2>1, TypeInit DEF HInit, Init
    <3>2. \A s \in Signals : InHand(s) = 0
      BY <3>1, InHandTop
    <3> QED
      BY <2>1, <3>1, <3>2 DEF HInit, Init, RunsInv, CountsOK, Depth
  <2> QED
    BY <2>1
<1>2. TypeOK /\ SentinelInv /\ RunsInv /\ [HNext]_allVars => RunsInv'
  BY RunsStep
<1>3. TypeOK /\ RunsInv => RunsAreOwed
  <2>1. ASSUME TypeOK, RunsInv, NEW s \in Signals
        PROVE  pending_traps[s] + InHand(s) <= credit[s]
    <3>1. InHand(s) \in Nat /\ pending_traps[s] \in Nat /\ credit[s] \in Int
      BY <2>1, InHandTop DEF TypeOK, RunsInv
    <3> QED
      BY <2>1, <3>1 DEF RunsInv
  <2> QED
    BY <2>1 DEF RunsAreOwed
<1> QED
  BY <1>1, <1>2, <1>3, HistoryInv, PTL DEF HSpec
==============================================================================
