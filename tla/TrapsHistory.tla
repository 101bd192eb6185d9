---------------------------- MODULE TrapsHistory ----------------------------
(***************************************************************************)
(* Traps with history variables: what the script last asked for with the   *)
(* trap command, and how many runs each caught signal is still good for.   *)
(***************************************************************************)
EXTENDS Traps

VARIABLES
  wanted,   \* the trap the script last asked for
  ignored,  \* the script's last request for SIGCHLD had no effect
  credit    \* signals and children caught, less the trap runs that ended

historyVars == <<wanted, ignored, credit>>
allVars == <<vars, historyVars>>

HInit ==
  /\ Init
  /\ wanted = [s \in Signals |-> DEFAULT_SIG]
  /\ ignored = FALSE
  /\ credit = [s \in Signals |-> 0]

Asked(s, value) ==
  /\ wanted' = [wanted EXCEPT ![s] = value]
  /\ ignored' = (ignored /\ s # SIGCHLD)
  /\ UNCHANGED credit

\* trap - CHLD where restore_default_signal returns early.
ResetIgnored ==
  /\ Executing
  /\ trap_list[SIGCHLD] = IMPOSSIBLE_TRAP_HANDLER
  /\ ~CanRestore(SIGCHLD)
  /\ wanted' = [wanted EXCEPT ![SIGCHLD] = DEFAULT_SIG]
  /\ ignored' = TRUE
  /\ UNCHANGED <<vars, credit>>

Caught(s, n) ==
  /\ credit' = [credit EXCEPT ![s] = @ + n]
  /\ UNCHANGED <<wanted, ignored>>

Ran(s) ==
  /\ credit' = [credit EXCEPT ![s] = @ - 1]
  /\ UNCHANGED <<wanted, ignored>>

HChosen ==
  \/ \E s \in Signals : \/ \E c \in Commands : SetTrap(s, c) /\ Asked(s, c)
                        \/ IgnoreTrap(s) /\ Asked(s, IGNORE_SIG)
                        \/ ResetTrap(s) /\ Asked(s, DEFAULT_SIG)
                        \/ trap_handler(s) /\ Caught(s, 1)
  \/ \E n \in 1 .. MaxEvents : /\ queue_sigchld_trap(n) \/ WaitRunsTrap(n)
                               /\ Caught(SIGCHLD, n)
  \/ InterruptedCommand /\ Caught(SIGINT, 1)
  \/ ResetIgnored

HFinish ==
  \/ (NextChild \/ LastChild) /\ Ran(SIGCHLD)
  \/ EndInterruptTrap /\ Ran(SIGINT)
  \/ EndTrap /\ IF Top.pc = "trap" THEN Ran(Top.sig) ELSE UNCHANGED historyVars

HPending == run_pending_traps /\ UNCHANGED historyVars
HScan == Scan /\ UNCHANGED historyVars

HNext == HChosen \/ HPending \/ HScan \/ HFinish

HSpec ==
  /\ HInit /\ [][HNext]_allVars
  /\ WF_allVars(HPending) /\ WF_allVars(HScan) /\ WF_allVars(HFinish)

----------------------------------------------------------------------------
\* Outside the SIGCHLD handler every signal has the trap the script last asked
\* for, with the flags that go with it: the sentinel neither keeps the handler
\* from changing its own trap nor undoes the change.  The exception is a reset
\* inside a handler that wait runs: SIG_INPROGRESS is not set there, the reset
\* has no effect and the trap comes back.
AsAsked ==
  \A s \in Signals :
    \/ s = SIGCHLD /\ (ignored \/ Active("run_sigchld_trap", {"trap"}, SIGCHLD))
    \/ /\ trap_list[s] = wanted[s]
       /\ Has(s, "TRAPPED") <=> wanted[s] # DEFAULT_SIG
       /\ Has(s, "IGNORED") <=> wanted[s] = IGNORE_SIG

\* The runs of the trap of s that an activation still owes, and that they all do.
Runs(frame, s) ==
  IF frame.sig # s \/ frame.pc # "trap" THEN 0
  ELSE IF frame.fn = "run_sigchld_trap" THEN frame.n ELSE 1

Total(f, n) ==
  LET total[i \in 0 .. n] == IF i = 0 THEN 0 ELSE total[i - 1] + f[i]
  IN  total[n]

InHand(s) == Total([i \in DOMAIN stack |-> Runs(stack[i], s)], Len(stack))

\* A trap never runs more often than its signal was caught, SIGCHLD's never
\* more often than children were reaped, however often pending traps are run
\* inside handlers.
RunsAreOwed == \A s \in Signals : pending_traps[s] + InHand(s) <= credit[s]
============================================================================
