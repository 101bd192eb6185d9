------------------------------- MODULE Traps -------------------------------
(***************************************************************************)
(* The trap machinery of trap.c in a shell that runs a script: signals     *)
(* arrive between any two steps and are only noted (pending_traps and      *)
(* catch_flag); the shell runs the handlers later, when run_pending_traps  *)
(* is called between commands.  A handler is itself a list of commands, so *)
(* run_pending_traps is called again inside it, and the C stack is part of *)
(* the state.  jobs.c takes part twice: it queues or runs the SIGCHLD trap *)
(* for the children it reaps, and it runs the SIGINT trap itself when a    *)
(* foreground command is killed by SIGINT.                                 *)
(*                                                                         *)
(* MaxDepth bounds the stack and MaxEvents the signals and children.       *)
(***************************************************************************)
EXTENDS Integers, Sequences

CONSTANTS NSIG, SIGINT, SIGCHLD, SIGWINCH,
          Fatal,        \* the signals whose default action ends the shell
          Commands,     \* the strings given to trap
          MaxDepth, MaxEvents

Signals == 1 .. NSIG - 1

DEFAULT_SIG == "SIG_DFL"
IGNORE_SIG == "SIG_IGN"
IMPOSSIBLE_TRAP_HANDLER == "initialize_traps"

Sentinels == {DEFAULT_SIG, IGNORE_SIG, IMPOSSIBLE_TRAP_HANDLER}

ASSUME SignalsAssumption ==
  /\ NSIG \in Nat
  /\ SIGINT \in Signals /\ SIGCHLD \in Signals /\ SIGWINCH \in Signals
  /\ SIGINT # SIGCHLD /\ SIGWINCH \notin {SIGINT, SIGCHLD}
  /\ Fatal \subseteq Signals

ASSUME CommandsAssumption == Commands \cap Sentinels = {}

VARIABLES
  trap_list,      \* what each signal's trap is: a command or a sentinel
  sigmodes,       \* the flags of each signal
  pending_traps,  \* how often each signal was caught since its trap last ran
  catch_flag,     \* a trapped signal has been caught
  running_trap,   \* 1 + the signal whose trap is running, or 0
  stack,          \* the activations of the functions that run traps
  fate,           \* whether the shell still runs
  events          \* signals and children so far

vars == <<trap_list, sigmodes, pending_traps, catch_flag, running_trap, stack,
          fate, events>>

Flags == {"TRAPPED", "IGNORED", "INPROGRESS"}
Fates == {"running", "killed", "crashed"}

(***************************************************************************)
(* Activations.  pc is "trap" while a command list of the user runs.       *)
(***************************************************************************)
Activations ==
  [fn : {"run_pending_traps", "run_sigchld_trap", "_run_trap_internal"},
   pc : {"test", "clear", "return", "trap"},
   sig : 1 .. NSIG,
   old : 0 .. NSIG,     \* the running_trap to go back to
   n : Nat,             \* traps to run, or 1 if SIGINT's was in progress
   command : Commands \cup Sentinels]

\* sig is NSIG only when the loop over the signals is about to end, and only
\* the branch of SIGCHLD has a step "clear".  The two functions that run one
\* signal's trap do nothing else.
Frames ==
  {f \in Activations :
     /\ f.pc # "test" => f.sig \in Signals
     /\ f.pc = "clear" => f.sig = SIGCHLD
     /\ f.fn = "run_sigchld_trap" => f.pc = "trap" /\ f.sig = SIGCHLD
     /\ f.fn = "_run_trap_internal" => f.pc = "trap" /\ f.sig = SIGINT}

PendingFrame(pc, sig, old, n) ==
  [fn |-> "run_pending_traps", pc |-> pc, sig |-> sig, old |-> old, n |-> n,
   command |-> DEFAULT_SIG]

ChildFrame(n, command) ==
  [fn |-> "run_sigchld_trap", pc |-> "trap", sig |-> SIGCHLD, old |-> 0,
   n |-> n, command |-> command]

InterruptFrame(old, inProgress) ==
  [fn |-> "_run_trap_internal", pc |-> "trap", sig |-> SIGINT, old |-> old,
   n |-> IF inProgress THEN 1 ELSE 0, command |-> DEFAULT_SIG]

Top == stack[Len(stack)]
Below == SubSeq(stack, 1, Len(stack) - 1)
Retop(frame) == [stack EXCEPT ![Len(stack)] = frame]

Scanning(pc) ==
  /\ fate = "running"
  /\ stack # <<>>
  /\ Top.fn = "run_pending_traps"
  /\ Top.pc = pc

\* The shell executes commands: the script's own, or a handler's.
Executing ==
  /\ fate = "running"
  /\ stack # <<>> => Top.pc = "trap"

Happens(n) ==
  /\ fate = "running"
  /\ events + n <= MaxEvents
  /\ events' = events + n

Has(sig, flag) == flag \in sigmodes[sig]

(***************************************************************************)
(* Changing a trap                                                         *)
(***************************************************************************)
ChangedModes(modes, value) ==
  (modes \cup {"TRAPPED"} \cup (IF value = IGNORE_SIG THEN {"IGNORED"} ELSE {}))
    \ (IF value = IGNORE_SIG THEN {} ELSE {"IGNORED"})

change_signal(sig, value) ==
  /\ trap_list' = [trap_list EXCEPT ![sig] = value]
  /\ sigmodes' = [sigmodes EXCEPT ![sig] = ChangedModes(sigmodes[sig], value)]

\* trap COMMAND SIG
SetTrap(sig, command) ==
  /\ Executing
  /\ change_signal(sig, command)
  /\ UNCHANGED <<pending_traps, catch_flag, running_trap, stack, fate, events>>

\* trap '' SIG
IgnoreTrap(sig) ==
  /\ Executing
  /\ ~Has(sig, "IGNORED")
  /\ change_signal(sig, IGNORE_SIG)
  /\ UNCHANGED <<pending_traps, catch_flag, running_trap, stack, fate, events>>

CanRestore(sig) ==
  \/ Has(sig, "TRAPPED")
  \/ /\ sig = SIGCHLD
     /\ Has(sig, "INPROGRESS")
     /\ trap_list[sig] = IMPOSSIBLE_TRAP_HANDLER

\* trap - SIG
ResetTrap(sig) ==
  /\ Executing
  /\ CanRestore(sig)
  /\ trap_list' = [trap_list EXCEPT ![sig] = DEFAULT_SIG]
  /\ sigmodes' = [sigmodes EXCEPT ![sig] = @ \ {"TRAPPED", "IGNORED"}]
  /\ UNCHANGED <<pending_traps, catch_flag, running_trap, stack, fate, events>>

(***************************************************************************)
(* Signals and children                                                    *)
(***************************************************************************)
\* Mutant: a signal caught while a trap runs is counted but not flagged.
set_trap_state_quiet(sig, n) ==
  /\ catch_flag' = (catch_flag \/ running_trap = 0)
  /\ pending_traps' = [pending_traps EXCEPT ![sig] = @ + n]

set_trap_state(sig, n) ==
  /\ catch_flag' = TRUE
  /\ pending_traps' = [pending_traps EXCEPT ![sig] = @ + n]

trap_handler(sig) ==
  /\ sig # SIGCHLD
  /\ Has(sig, "TRAPPED")
  /\ ~Has(sig, "IGNORED")
  /\ Happens(1)
  /\ set_trap_state(sig, 1)
  /\ UNCHANGED <<trap_list, sigmodes, running_trap, stack, fate>>

ChildTrapSet ==
  /\ Has(SIGCHLD, "TRAPPED") \/ trap_list[SIGCHLD] = IMPOSSIBLE_TRAP_HANDLER
  /\ trap_list[SIGCHLD] # IGNORE_SIG

\* waitchld reaps n children, called by the SIGCHLD handler or where the trap
\* may not run now: it queues the trap.
queue_sigchld_trap(n) ==
  /\ ChildTrapSet
  /\ Happens(n)
  /\ set_trap_state(SIGCHLD, n)
  /\ UNCHANGED <<trap_list, sigmodes, running_trap, stack, fate>>

(***************************************************************************)
(* Running the SIGCHLD trap n times, above the activations in base.        *)
(* trap_list[SIGCHLD] is copied first; SIG_DFL and SIG_IGN are no          *)
(* addresses of a string and copying one ends the shell.                   *)
(***************************************************************************)
run_sigchld_trap(base, n) ==
  IF trap_list[SIGCHLD] \in {DEFAULT_SIG, IGNORE_SIG}
    THEN /\ fate' = "crashed"
         /\ stack' = base
         /\ UNCHANGED <<trap_list, sigmodes, running_trap>>
    ELSE /\ stack' = Append(base, ChildFrame(n, trap_list[SIGCHLD]))
         /\ trap_list' = [trap_list EXCEPT ![SIGCHLD] = IMPOSSIBLE_TRAP_HANDLER]
         /\ sigmodes' = [sigmodes EXCEPT ![SIGCHLD] = @ \ {"TRAPPED", "IGNORED"}]
         /\ running_trap' = SIGCHLD + 1
         /\ UNCHANGED fate

\* The wait builtin reaps n children and may run the trap at once.
WaitRunsTrap(n) ==
  /\ Executing
  /\ Len(stack) < MaxDepth
  /\ ChildTrapSet
  /\ ~Has(SIGCHLD, "INPROGRESS")
  /\ trap_list[SIGCHLD] # IMPOSSIBLE_TRAP_HANDLER
  /\ running_trap = 0
  /\ Happens(n)
  /\ run_sigchld_trap(stack, n)
  /\ UNCHANGED <<pending_traps, catch_flag>>

\* One of the n runs ends; after the last one maybe_set_sigchld_trap puts the
\* command back unless the handler changed the trap.
NextChild ==
  /\ Executing /\ stack # <<>>
  /\ Top.fn = "run_sigchld_trap" /\ Top.n > 1
  /\ stack' = Retop(ChildFrame(Top.n - 1, Top.command))
  /\ UNCHANGED <<trap_list, sigmodes, pending_traps, catch_flag, running_trap,
                 fate, events>>

\* Mutant: the sentinel is left in place.
maybe_set_never(command) == UNCHANGED <<trap_list, sigmodes>>

\* Mutant: the command is put back whatever the handler did to the trap.
maybe_set_always(command) == change_signal(SIGCHLD, command)

maybe_set_sigchld_trap(command) ==
  IF ~Has(SIGCHLD, "TRAPPED") /\ trap_list[SIGCHLD] = IMPOSSIBLE_TRAP_HANDLER
    THEN change_signal(SIGCHLD, command)
    ELSE UNCHANGED <<trap_list, sigmodes>>

\* Mutant: running_trap is left to the caller.
LastChildStillRunning ==
  /\ Executing /\ stack # <<>>
  /\ Top.fn = "run_sigchld_trap" /\ Top.n <= 1
  /\ maybe_set_sigchld_trap(Top.command)
  /\ stack' = Below
  /\ UNCHANGED <<pending_traps, catch_flag, running_trap, fate, events>>

LastChild ==
  /\ Executing /\ stack # <<>>
  /\ Top.fn = "run_sigchld_trap" /\ Top.n <= 1
  /\ maybe_set_sigchld_trap(Top.command)
  /\ stack' = Below
  /\ running_trap' = 0
  /\ UNCHANGED <<pending_traps, catch_flag, fate, events>>

(***************************************************************************)
(* Running the SIGINT trap above the activations in base                   *)
(***************************************************************************)
_run_trap_internal(base, running) ==
  IF /\ Has(SIGINT, "TRAPPED") /\ ~Has(SIGINT, "IGNORED")
     /\ trap_list[SIGINT] # IMPOSSIBLE_TRAP_HANDLER
    THEN /\ stack' = Append(base, InterruptFrame(running, Has(SIGINT, "INPROGRESS")))
         /\ sigmodes' = [sigmodes EXCEPT ![SIGINT] = @ \cup {"INPROGRESS"}]
         /\ running_trap' = SIGINT + 1
    ELSE /\ stack' = base
         /\ running_trap' = running
         /\ UNCHANGED sigmodes

run_interrupt_trap(base, running) ==
  /\ pending_traps' = [pending_traps EXCEPT ![SIGINT] = 0]
  /\ catch_flag' = FALSE
  /\ _run_trap_internal(base, running)
  /\ UNCHANGED <<trap_list, fate>>

\* A foreground command was killed by the SIGINT the shell saw while it waited.
InterruptedCommand ==
  /\ Executing
  /\ Len(stack) < MaxDepth
  /\ Has(SIGINT, "TRAPPED") /\ ~Has(SIGINT, "IGNORED")
  /\ Happens(1)
  /\ run_interrupt_trap(stack, running_trap)

\* Mutant: SIG_INPROGRESS is cleared whatever the modes were before.
EndInterruptTrapForgets ==
  /\ Executing /\ stack # <<>>
  /\ Top.fn = "_run_trap_internal"
  /\ sigmodes' = [sigmodes EXCEPT ![SIGINT] = @ \ {"INPROGRESS"}]
  /\ running_trap' = Top.old
  /\ stack' = Below
  /\ UNCHANGED <<trap_list, pending_traps, catch_flag, fate, events>>

EndInterruptTrap ==
  /\ Executing /\ stack # <<>>
  /\ Top.fn = "_run_trap_internal"
  /\ sigmodes' = [sigmodes EXCEPT ![SIGINT] =
                    IF Top.n = 0 THEN @ \ {"INPROGRESS"} ELSE @]
  /\ running_trap' = Top.old
  /\ stack' = Below
  /\ UNCHANGED <<trap_list, pending_traps, catch_flag, fate, events>>

(***************************************************************************)
(* run_pending_traps                                                       *)
(***************************************************************************)
run_pending_traps ==
  /\ Executing
  /\ catch_flag
  /\ ~(running_trap = SIGWINCH + 1 /\ pending_traps[SIGWINCH] > 0)
  /\ Len(stack) + 2 <= MaxDepth
  /\ catch_flag' = FALSE
  /\ stack' = Append(stack, PendingFrame("test", 1, running_trap, 0))
  /\ UNCHANGED <<trap_list, sigmodes, pending_traps, running_trap, fate, events>>

Pending == Scanning("test") /\ Top.sig \in Signals /\ pending_traps[Top.sig] > 0

NextSignal == Retop(PendingFrame("test", Top.sig + 1, Top.old, 0))

NotPending ==
  /\ Scanning("test")
  /\ Top.sig \in Signals
  /\ pending_traps[Top.sig] = 0
  /\ stack' = NextSignal
  /\ UNCHANGED <<trap_list, sigmodes, pending_traps, catch_flag, running_trap,
                 fate, events>>

TakeInterrupt ==
  /\ Pending /\ Top.sig = SIGINT
  /\ run_interrupt_trap(Retop(PendingFrame("return", SIGINT, Top.old, 0)), SIGINT + 1)
  /\ UNCHANGED events

\* x = pending_traps[sig]
TakeChildren ==
  /\ Pending /\ Top.sig = SIGCHLD
  /\ trap_list[SIGCHLD] # IMPOSSIBLE_TRAP_HANDLER
  /\ ~Has(SIGCHLD, "INPROGRESS")
  /\ sigmodes' = [sigmodes EXCEPT ![SIGCHLD] = @ \cup {"INPROGRESS"}]
  /\ running_trap' = SIGCHLD + 1
  /\ stack' = Retop(PendingFrame("clear", SIGCHLD, Top.old, pending_traps[SIGCHLD]))
  /\ UNCHANGED <<trap_list, pending_traps, catch_flag, fate, events>>

\* pending_traps[sig] = 0; run_sigchld_trap (x)
RunChildren ==
  /\ Scanning("clear")
  /\ pending_traps' = [pending_traps EXCEPT ![SIGCHLD] = 0]
  /\ run_sigchld_trap(Retop(PendingFrame("return", SIGCHLD, Top.old, 0)), Top.n)
  /\ UNCHANGED <<catch_flag, events>>

EndChildren ==
  /\ Scanning("return") /\ Top.sig = SIGCHLD
  /\ running_trap' = 0
  /\ sigmodes' = [sigmodes EXCEPT ![SIGCHLD] = @ \ {"INPROGRESS"}]
  /\ stack' = NextSignal
  /\ UNCHANGED <<trap_list, pending_traps, catch_flag, fate, events>>

\* The SIGCHLD trap is running further down: its children stay pending.
ChildrenInProgress ==
  /\ Pending /\ Top.sig = SIGCHLD
  /\ Has(SIGCHLD, "INPROGRESS")
  /\ running_trap' = 0
  /\ stack' = NextSignal
  /\ UNCHANGED <<trap_list, sigmodes, pending_traps, catch_flag, fate, events>>

\* Neither SIGINT nor a branch of SIGCHLD.
Ordinary ==
  /\ Pending /\ Top.sig # SIGINT
  /\ Top.sig = SIGCHLD =>
       /\ trap_list[SIGCHLD] = IMPOSSIBLE_TRAP_HANDLER
       /\ ~Has(SIGCHLD, "INPROGRESS")

\* The trap was reset while the signal was pending.
BadTrap ==
  /\ Ordinary
  /\ trap_list[Top.sig] \in Sentinels
  /\ fate' = IF trap_list[Top.sig] = DEFAULT_SIG /\ Top.sig \in Fatal
               THEN "killed" ELSE fate
  /\ pending_traps' = [pending_traps EXCEPT ![Top.sig] = 0]
  /\ running_trap' = Top.old
  /\ stack' = NextSignal
  /\ UNCHANGED <<trap_list, sigmodes, catch_flag, events>>

\* Mutant: the count is left to the reset after the handler.
RunTrapStillPending ==
  /\ Ordinary
  /\ trap_list[Top.sig] \notin Sentinels
  /\ running_trap' = Top.sig + 1
  /\ stack' = Retop(PendingFrame("trap", Top.sig, Top.old, 0))
  /\ UNCHANGED <<trap_list, sigmodes, pending_traps, catch_flag, fate, events>>

RunTrap ==
  /\ Ordinary
  /\ trap_list[Top.sig] \notin Sentinels
  /\ pending_traps' = [pending_traps EXCEPT ![Top.sig] = 0]
  /\ running_trap' = Top.sig + 1
  /\ stack' = Retop(PendingFrame("trap", Top.sig, Top.old, 0))
  /\ UNCHANGED <<trap_list, sigmodes, catch_flag, fate, events>>

\* Mutant: the handler's run is subtracted from the count.
EndTrapSubtracts ==
  /\ \/ Scanning("trap")
     \/ Scanning("return") /\ Top.sig # SIGCHLD
  /\ pending_traps' = [pending_traps EXCEPT ![Top.sig] = @ - 1]
  /\ running_trap' = Top.old
  /\ stack' = NextSignal
  /\ UNCHANGED <<trap_list, sigmodes, catch_flag, fate, events>>

\* After the handler pending_traps[sig] is reset once more.
EndTrap ==
  /\ \/ Scanning("trap")
     \/ Scanning("return") /\ Top.sig # SIGCHLD
  /\ pending_traps' = [pending_traps EXCEPT ![Top.sig] = 0]
  /\ running_trap' = Top.old
  /\ stack' = NextSignal
  /\ UNCHANGED <<trap_list, sigmodes, catch_flag, fate, events>>

\* Mutant: catch_flag is cleared after the loop.
EndPendingClears ==
  /\ Scanning("test") /\ Top.sig = NSIG
  /\ catch_flag' = FALSE
  /\ stack' = Below
  /\ UNCHANGED <<trap_list, sigmodes, pending_traps, running_trap, fate, events>>

EndPending ==
  /\ Scanning("test") /\ Top.sig = NSIG
  /\ stack' = Below
  /\ UNCHANGED <<trap_list, sigmodes, pending_traps, catch_flag, running_trap,
                 fate, events>>

Init ==
  /\ trap_list = [s \in Signals |-> DEFAULT_SIG]
  /\ sigmodes = [s \in Signals |-> {}]
  /\ pending_traps = [s \in Signals |-> 0]
  /\ catch_flag = FALSE
  /\ running_trap = 0
  /\ stack = <<>>
  /\ fate = "running"
  /\ events = 0

\* What the commands of the script and of the handlers choose.
Chosen ==
  \/ \E s \in Signals : \/ \E c \in Commands : SetTrap(s, c)
                        \/ IgnoreTrap(s)
                        \/ ResetTrap(s)
                        \/ trap_handler(s)
  \/ \E n \in 1 .. MaxEvents : queue_sigchld_trap(n) \/ WaitRunsTrap(n)
  \/ InterruptedCommand

\* What the shell goes on to do by itself.
Scan == \/ NotPending \/ TakeInterrupt \/ TakeChildren \/ RunChildren \/ EndChildren
        \/ ChildrenInProgress \/ BadTrap \/ RunTrap \/ EndPending

Finish == NextChild \/ LastChild \/ EndInterruptTrap \/ EndTrap

Next == Chosen \/ run_pending_traps \/ Scan \/ Finish

\* A command list that is executed comes to its next command and to its end,
\* and the shell's own code goes on.
Fairness ==
  /\ WF_vars(run_pending_traps)
  /\ WF_vars(Scan)
  /\ WF_vars(Finish)

Spec == Init /\ [][Next]_vars /\ Fairness

----------------------------------------------------------------------------
(***************************************************************************)
(* Properties                                                              *)
(***************************************************************************)
\* The tables keep their shape and every activation is one of the three
\* functions of trap.c and jobs.c.
TypeOK ==
  /\ trap_list \in [Signals -> Commands \cup Sentinels]
  /\ sigmodes \in [Signals -> SUBSET Flags]
  /\ pending_traps \in [Signals -> Nat]
  /\ catch_flag \in BOOLEAN
  /\ running_trap \in 0 .. NSIG
  /\ stack \in Seq(Frames)
  /\ fate \in Fates
  /\ events \in Nat

Active(fn, pcs, sig) ==
  \E i \in DOMAIN stack : stack[i].fn = fn /\ stack[i].pc \in pcs /\ stack[i].sig = sig

\* SIG_INPROGRESS is set exactly while a run_pending_traps is at SIGCHLD, or
\* the SIGINT trap is running: whatever the nesting, a handler that ends
\* neither clears the flag of one that still runs nor leaves it behind.
InProgressWhileRunning ==
  /\ Has(SIGCHLD, "INPROGRESS") <=> Active("run_pending_traps", {"clear", "return"}, SIGCHLD)
  /\ Has(SIGINT, "INPROGRESS") <=> Active("_run_trap_internal", {"trap"}, SIGINT)

\* The sentinel stands in for the SIGCHLD trap only while run_sigchld_trap is
\* active, and for no other signal (run_trap_cleanup asks whether it should
\* clean the sentinel up).
SentinelWhileRunning ==
  \A s \in Signals : trap_list[s] = IMPOSSIBLE_TRAP_HANDLER =>
                       s = SIGCHLD /\ Active("run_sigchld_trap", {"trap"}, SIGCHLD)

\* Back in the script no trap is running, though run_pending_traps zeroes
\* running_trap on the paths of SIGCHLD instead of restoring it.
NoTrapOutsideHandlers == stack = <<>> => running_trap = 0

\* A run_pending_traps that has yet to look at signal s.
LooksAt(frame, s) ==
  /\ frame.fn = "run_pending_traps"
  /\ frame.sig < s \/ (frame.sig = s /\ frame.pc \in {"test", "clear"})

WillLookAt(s) == \E i \in DOMAIN stack : LooksAt(stack[i], s)

Noticed(s) == catch_flag \/ WillLookAt(s)

\* A signal that was caught stays noticed until its pending count is zero:
\* catch_flag is set or an activation will come to it.  Only running the SIGINT
\* trap, and skipping SIGCHLD inside its own handler, lose sight of one.
StaysNoticed(s) ==
  (pending_traps[s] = 0 \/ Noticed(s)) /\ pending_traps'[s] > 0
    => \/ Noticed(s)'
       \/ InterruptedCommand \/ TakeInterrupt
       \/ s = SIGCHLD /\ ChildrenInProgress

LosesSightOnlyThere == [][\A s \in Signals : StaysNoticed(s)]_vars

\* While SIGINT is not trapped, every trapped signal that was caught is dealt
\* with (SIGCHLD apart), however the handlers nest.
CaughtIsDealtWith ==
  [](~Has(SIGINT, "TRAPPED")) =>
    \A s \in Signals \ {SIGCHLD} :
      pending_traps[s] > 0 ~> pending_traps[s] = 0 \/ fate # "running"

\* doc/bash.1: the trap of a signal received while the shell waits for a
\* command is executed when the command completes; catch_flag is "non-zero
\* when we catch a trapped signal".
CaughtUntilRun ==
  stack = <<>> =>
    \A s \in Signals \ {SIGCHLD} : pending_traps[s] > 0 => catch_flag
============================================================================
