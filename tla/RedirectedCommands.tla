------------------------- MODULE RedirectedCommands -------------------------
(***************************************************************************)
(* Commands with redirections that an interactive shell performs itself:   *)
(* compound commands, functions, builtins, exec and commands without a     *)
(* name (execute_cmd.c), the redirections one by one (redir.c), and the    *)
(* ways out of them: a normal end, a redirection that fails, return, an    *)
(* error in an expansion and an interrupt, which run the unwind-protect    *)
(* list (unwind_prot.c, sig.c, subst.c).                                   *)
(***************************************************************************)
EXTENDS Redirections, UnwindProtect, FiniteSets

CONSTANTS
  UserFds,     \* descriptors that scripts name
  Files,       \* what they open
  MaxCalls,    \* bound on the commands in progress
  MaxRedirs,   \* bound on the redirections performed
  Disturbing   \* events at a bad moment that an instance allows

\* handler: a trap runs while a redirection waits for its file to open.
\* interrupt: the user interrupts a command that has not done all of its own.
\* onto closed: a descriptor is moved to one that is closed.
\* both closed: &> is used while descriptor 2 is closed.
\* full: a redirection when no descriptor is free at or above SHELL_FD_BASE.
Events == {"handler", "interrupt", "onto closed", "both closed", "full"}

ASSUME CommandsAssumption ==
  /\ UserFds \subseteq Fds /\ {1, 2} \subseteq UserFds
  /\ Disturbing \subseteq Events
  /\ CLOSED \notin Files \cup {"stdout", "stderr"}

VARIABLES
  fds, cloexec, redirection_undo_list, exec_redirection_undo_list, var,
  unwind_protect_list,
  calls,      \* commands in progress, innermost last
  performed   \* redirections performed, counted for the bound only

tables == <<fds, cloexec, redirection_undo_list, exec_redirection_undo_list, var>>
vars == <<tables, unwind_protect_list, calls, performed>>

\* An activation: my_undo_list and, for a group, exec_undo_list are the lists it
\* took over when its body began.
Kinds == {"group", "function", "builtin", "exec", "null", "handler"}
Call(kind, running) ==
  [kind |-> kind, running |-> running, my_undo_list |-> <<>>, exec_undo_list |-> <<>>]

Shell == [fds |-> fds, cloexec |-> cloexec, undo |-> redirection_undo_list,
          execUndo |-> exec_redirection_undo_list, var |-> var]

Becomes(s) ==
  /\ fds' = s.fds
  /\ cloexec' = s.cloexec
  /\ redirection_undo_list' = s.undo
  /\ exec_redirection_undo_list' = s.execUndo
  /\ var' = s.var

Init ==
  /\ fds = [fd \in Fds |-> CASE fd = 1 -> "stdout" [] fd = 2 -> "stderr" [] OTHER -> CLOSED]
  /\ cloexec = {}
  /\ redirection_undo_list = <<>> /\ exec_redirection_undo_list = <<>>
  /\ var = 0
  /\ unwind_protect_list = <<>>
  /\ calls = <<>>
  /\ performed = 0

Top == Last(calls)
Running == IF calls = <<>> THEN TRUE ELSE Top.running
Redirecting == ~Running

Popped == Front(calls)
WithTop(call) == Append(Popped, call)

\* The descriptors that hold a copy to be restored.
SavingFds(list) == {list[i].from : i \in {j \in DOMAIN list : list[j].ri = "dup"}}
Lists == {redirection_undo_list} \cup {calls[i].my_undo_list : i \in DOMAIN calls}
Saves == UNION {SavingFds(list) : list \in Lists}

----------------------------------------------------------------------------
\* The redirections a script may ask for.
Menu ==
  {Redirect("open", fd, 0, f, FALSE, FALSE) : fd \in UserFds, f \in Files}
  \cup {Redirect("both", 1, 0, f, FALSE, FALSE) : f \in Files}
  \cup {Redirect(ri, to, from, CLOSED, FALSE, FALSE) :
          ri \in {"dup", "move"}, to \in UserFds, from \in UserFds}
  \cup {Redirect("close", fd, 0, CLOSED, FALSE, FALSE) : fd \in UserFds}
  \cup {Redirect("open", 0, 0, f, TRUE, FALSE) : f \in Files}
  \cup {Redirect(ri, 0, from, CLOSED, TRUE, FALSE) : ri \in {"dup", "move"}, from \in UserFds}
  \cup {Redirect("close", 0, 0, CLOSED, TRUE, FALSE)}

\* The number in the variable is that of a descriptor the script opened.
VarIsUsable(r) ==
  /\ r.var /\ r.ri # "close" => var = 0
  /\ r.var /\ r.ri = "close" /\ var # 0 => IsOpen(Shell, var) /\ var \notin Saves

Allowed(r) ==
  /\ VarIsUsable(r)
  /\ r.ri = "move" /\ ~r.var /\ ~IsOpen(Shell, r.to) => "onto closed" \in Disturbing
  /\ r.ri = "both" /\ ~IsOpen(Shell, 2) => "both closed" \in Disturbing
  /\ "full" \in Disturbing \/ Cardinality({fd \in SHELL_FD_BASE .. MaxFd : fds[fd] = CLOSED}) >= 2

----------------------------------------------------------------------------
\* do_redirections forgets what an earlier command has left on the lists.
Begin(kind) ==
  /\ Running
  /\ Len(calls) < MaxCalls
  /\ calls' = Append(calls, Call(kind, FALSE))
  /\ unwind_protect_list' =
       IF kind \in {"function", "builtin", "exec"}
       THEN begin_unwind_frame(begin_unwind_frame(unwind_protect_list, "simple-command"),
                               "saved_fifos")
       ELSE unwind_protect_list
  /\ Becomes(dispose_exec_redirects([Shell EXCEPT !.undo = <<>>]))
  /\ UNCHANGED performed

\* The rest of a command whose redirections failed, or that had no name.
FailCommand(s) ==
  /\ calls' = Popped
  /\ Becomes([undo_partial_redirects(s) EXCEPT !.execUndo = IF Top.kind = "null" THEN @ ELSE <<>>])
  /\ unwind_protect_list' =
       IF Top.kind \in {"function", "builtin", "exec"}
       THEN discard_unwind_frame(unwind_protect_list, "simple-command")
       ELSE unwind_protect_list

Perform(r) ==
  LET result == do_redirection_internal(Shell, r, TRUE)
  IN /\ Redirecting
     /\ performed < MaxRedirs
     /\ Allowed(r)
     /\ IF result.error
        THEN FailCommand(result.s)
        ELSE /\ Becomes(result.s)
             /\ UNCHANGED <<calls, unwind_protect_list>>
     /\ performed' = performed + 1

\* A file that is not there, an ambiguous word, a variable that is read-only.
CannotRedirect ==
  /\ Redirecting
  /\ FailCommand(Shell)
  /\ UNCHANGED performed

----------------------------------------------------------------------------
\* Mutant: the list is not put under protection.
EnterGroupUnprotected ==
  /\ Redirecting /\ Top.kind = "group"
  /\ calls' = WithTop([Top EXCEPT !.running = TRUE,
                                  !.my_undo_list = redirection_undo_list,
                                  !.exec_undo_list = exec_redirection_undo_list])
  /\ unwind_protect_list' =
       IF redirection_undo_list = <<>>
       THEN unwind_protect_list
       ELSE begin_unwind_frame(unwind_protect_list, "loop_redirections")
  /\ Becomes(dispose_exec_redirects([Shell EXCEPT !.undo = <<>>]))
  /\ UNCHANGED performed

\* The body of a command begins.
EnterGroup ==
  /\ Redirecting /\ Top.kind = "group"
  /\ calls' = WithTop([Top EXCEPT !.running = TRUE,
                                  !.my_undo_list = redirection_undo_list,
                                  !.exec_undo_list = exec_redirection_undo_list])
  /\ unwind_protect_list' =
       LET framed == IF redirection_undo_list = <<>> /\ exec_redirection_undo_list = <<>>
                     THEN unwind_protect_list
                     ELSE begin_unwind_frame(unwind_protect_list, "loop_redirections")
       IN IF redirection_undo_list = <<>>
          THEN framed
          ELSE add_unwind_protect(framed, "cleanup_redirects", redirection_undo_list)
  /\ Becomes(dispose_exec_redirects([Shell EXCEPT !.undo = <<>>]))
  /\ UNCHANGED performed

\* What the body of a function, or the commands that a builtin evaluates,
\* protect.  Those of a string are run one by one, each in its own frame.
BodyFrames(list, kind) ==
  IF kind = "function"
  THEN begin_unwind_frame(list, "function_calling")
  ELSE begin_unwind_frame(begin_unwind_frame(list, "parse_and_execute_top"), "pe_dispose")

EnterBuiltinOrFunction ==
  /\ Redirecting /\ Top.kind \in {"function", "builtin"}
  /\ calls' = WithTop([Top EXCEPT !.running = TRUE, !.my_undo_list = redirection_undo_list])
  /\ unwind_protect_list' =
       BodyFrames(IF redirection_undo_list = <<>>
                  THEN unwind_protect_list
                  ELSE add_unwind_protect(
                         begin_unwind_frame(unwind_protect_list, "saved-redirects"),
                         "cleanup_redirects", redirection_undo_list),
                  Top.kind)
  /\ Becomes(dispose_exec_redirects([Shell EXCEPT !.undo = <<>>]))
  /\ UNCHANGED performed

\* exec: of its redirections only those are undone that hold copies.
ExecBuiltin ==
  /\ Redirecting /\ Top.kind = "exec"
  /\ calls' = Popped
  /\ Becomes(undo_partial_redirects([Shell EXCEPT !.undo = exec_redirection_undo_list,
                                                  !.execUndo = <<>>]))
  /\ unwind_protect_list' = discard_unwind_frame(unwind_protect_list, "simple-command")
  /\ UNCHANGED performed

NullCommand ==
  /\ Redirecting /\ Top.kind = "null"
  /\ FailCommand(Shell)
  /\ UNCHANGED performed

----------------------------------------------------------------------------
\* The body of a command ends.
LeaveGroup ==
  /\ calls # <<>> /\ Top.running /\ Top.kind = "group"
  /\ calls' = Popped
  /\ Becomes(cleanup_redirects(Shell, Top.my_undo_list))
  /\ unwind_protect_list' =
       IF Top.my_undo_list = <<>> /\ Top.exec_undo_list = <<>> THEN unwind_protect_list
       ELSE discard_unwind_frame(unwind_protect_list, "loop_redirections")
  /\ UNCHANGED performed

\* Running the first n elements of the list: the cleanups undo redirections, the
\* beginning of a frame does nothing.
RunElement(s, elt) == IF elt.cleanup = "none" THEN s ELSE cleanup_redirects(s, elt.arg)

RunElements(s, n) ==
  LET ran[i \in 0 .. n] ==
        IF i = 0 THEN s ELSE RunElement(ran[i - 1], unwind_protect_list[i])
  IN ran[n]

run_unwind_frame(s, tag) == RunElements(s, Depth(unwind_protect_list, tag))
run_unwind_protects(s) == RunElements(s, Len(unwind_protect_list))

\* The end of execute_builtin_or_function for activation i, whose body has run
\* or thrown: first the frame of the body, then the redirections.
FinishBuiltinOrFunction(i) ==
  LET frame == IF calls[i].kind = "function" THEN "function_calling" ELSE "parse_and_execute_top"
      unwound == run_unwind_frame(Shell, frame)
      mine == calls[i].my_undo_list
  IN /\ calls' = SubSeq(calls, 1, i - 1)
     /\ Becomes(undo_partial_redirects(IF mine = <<>> THEN unwound ELSE [unwound EXCEPT !.undo = mine]))
     /\ unwind_protect_list' =
          discard_unwind_frame(discard_unwind_frame(unwind_protect_list, frame), "simple-command")

LeaveBuiltinOrFunction ==
  /\ calls # <<>> /\ Top.running /\ Top.kind \in {"function", "builtin"}
  /\ FinishBuiltinOrFunction(Len(calls))
  /\ UNCHANGED performed

\* return, in a function or in something that the function has begun.
Return ==
  /\ Running
  /\ \E i \in DOMAIN calls :
       /\ calls[i].kind = "function"
       /\ \A j \in i + 1 .. Len(calls) : calls[j].kind \notin {"function", "handler"}
       /\ FinishBuiltinOrFunction(i)
  /\ UNCHANGED performed

\* throw_to_top_level
Unwind(s) ==
  /\ calls' = <<>>
  /\ unwind_protect_list' = <<>>
  /\ Becomes(run_unwind_protects(s))

Interrupt ==
  /\ calls # <<>>
  /\ "interrupt" \in Disturbing \/ \A i \in DOMAIN calls : calls[i].running
  /\ Unwind(Shell)
  /\ UNCHANGED performed

\* An expansion fails in a redirection: exp_jump_to_top_level, and the command
\* string being evaluated, if any, goes on with its next command.
ExpansionError ==
  LET undone == undo_partial_redirects(Shell)
      strings == {i \in DOMAIN calls : calls[i].kind \in {"builtin", "handler"} /\ calls[i].running}
  IN /\ Redirecting
     /\ IF strings = {}
        THEN Unwind(undone)
        ELSE /\ \E i \in strings : /\ \A j \in strings : j <= i
                                   /\ calls' = SubSeq(calls, 1, i)
             /\ Becomes(run_unwind_frame(undone, "pe_dispose"))
             /\ unwind_protect_list' =
                  begin_unwind_frame(discard_unwind_frame(unwind_protect_list, "pe_dispose"),
                                     "pe_dispose")
     /\ UNCHANGED performed

\* A trap handler runs: between commands, or in redir_open, which tries again
\* after it, when the signal arrives while the file is being opened.
RunTrap ==
  /\ Running \/ "handler" \in Disturbing
  /\ Len(calls) < MaxCalls
  /\ calls' = Append(calls, Call("handler", TRUE))
  /\ unwind_protect_list' = BodyFrames(unwind_protect_list, "handler")
  /\ UNCHANGED <<tables, performed>>

EndTrap ==
  /\ calls # <<>> /\ Top.kind = "handler"
  /\ calls' = Popped
  /\ unwind_protect_list' = discard_unwind_frame(unwind_protect_list, "parse_and_execute_top")
  /\ UNCHANGED <<tables, performed>>

Next ==
  \/ \E kind \in Kinds \ {"handler"} : Begin(kind)
  \/ \E r \in Menu : Perform(r)
  \/ CannotRedirect
  \/ EnterGroup \/ EnterBuiltinOrFunction \/ ExecBuiltin \/ NullCommand
  \/ LeaveGroup \/ LeaveBuiltinOrFunction \/ Return
  \/ Interrupt \/ ExpansionError
  \/ RunTrap \/ EndTrap

Spec == Init /\ [][Next]_vars

=============================================================================
