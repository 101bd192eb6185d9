------------------------- MODULE RedirectionScopes --------------------------
(***************************************************************************)
(* What RedirectedCommands is to satisfy: its scopes are read off the undo *)
(* lists, which are all that the shell has to go back by.                  *)
(***************************************************************************)
EXTENDS RedirectedCommands

\* What the undo list of an activation brings back: of the entries for one
\* descriptor the last counts.  The close that follows a restore frees the copy
\* and is not the user's.
Undoings(list) ==
  {i \in DOMAIN list : ~(i > 1 /\ list[i - 1].ri = "dup" /\ list[i] = Closer(list[i - 1].from))}

BroughtBack(list) ==
  [fd \in {list[i].to : i \in Undoings(list)} |->
     LET last == list[Max({i \in Undoings(list) : list[i].to = fd})]
     IN IF last.ri = "dup" THEN fds[last.from] ELSE CLOSED]

ListOf(i) == IF calls[i].running THEN calls[i].my_undo_list ELSE redirection_undo_list

UserView == [fd \in Fds |-> IF fd \in Saves THEN CLOSED ELSE fds[fd]]

\* An activation of a handler redirects nothing.  While it runs, the list of
\* the command it interrupted is not that of a running body.
Scopes == [i \in DOMAIN calls |-> [kind |-> calls[i].kind, saved |-> BroughtBack(ListOf(i))]]

Promise == INSTANCE CommandScopes WITH
  Descriptors <- Fds, Chosen <- SHELL_FD_BASE .. MaxFd, NOTHING <- CLOSED,
  view <- UserView, scopes <- Scopes

\* Every end of a command gives back what its redirections took, whether the
\* body ends, a later redirection of it fails, an expansion fails, the function
\* around it returns or the user interrupts it.
GivesBack == Promise!Spec

----------------------------------------------------------------------------
\* A copy is held by one entry of one list: it is restored once and closed, and
\* no descriptor that the shell opened for itself outlives the command it
\* served.
Copies(i) == {p \in DOMAIN ListOf(i) : ListOf(i)[p].ri = "dup"}

HeldOnce ==
  /\ \A i, j \in DOMAIN calls : \A p \in Copies(i), q \in Copies(j) :
       ListOf(i)[p].from = ListOf(j)[q].from => i = j /\ p = q
  /\ \A fd \in Saves : fds[fd] # CLOSED
  /\ cloexec = Saves

\* What an interrupt would undo are the redirections of the commands in
\* progress, innermost first, each once.
UndoneOnce ==
  LET owing == {i \in DOMAIN calls : calls[i].my_undo_list # <<>>}
      cleanups == {j \in DOMAIN unwind_protect_list : unwind_protect_list[j].cleanup # "none"}
  IN \E place \in [owing -> cleanups] :
       /\ {place[i] : i \in owing} = cleanups
       /\ \A i, j \in owing : i < j => place[j] < place[i]
       /\ \A i \in owing : unwind_protect_list[place[i]].arg = calls[i].my_undo_list
=============================================================================
