---------------------------- MODULE Redirections ----------------------------
(***************************************************************************)
(* redir.c: performing one redirection in the shell itself and remembering *)
(* how to undo it.  Everything is an operator on a record s of             *)
(*   fds       what each descriptor refers to, CLOSED if nothing           *)
(*   cloexec   the descriptors with the close-on-exec flag                 *)
(*   undo      redirection_undo_list, the next one to perform first        *)
(*   execUndo  exec_redirection_undo_list                                  *)
(*   var       the number in the one variable used as {var}, 0 if none     *)
(* Descriptor 0 is taken to be open and is not redirected; here documents  *)
(* differ from files only in what they read and are opens here.  The       *)
(* streams that buffer input, coprocesses and the trace file are left out. *)
(***************************************************************************)
EXTENDS Integers, Sequences, FiniteSetsExt

CONSTANTS
  MaxFd,          \* the limit on descriptors: 1 .. MaxFd
  SHELL_FD_BASE,  \* where the shell begins to look for one of its own
  CLOSED          \* what a closed descriptor refers to

ASSUME RedirectionsAssumption ==
  MaxFd \in Nat /\ SHELL_FD_BASE \in Nat /\ 2 < SHELL_FD_BASE /\ SHELL_FD_BASE <= MaxFd

Fds == 1 .. MaxFd

\* A redirection of descriptor to: ri says what is done, from and file what it
\* is done with, var that the number is assigned to the variable, saved that
\* the flag RX_SAVCLEXEC is set.  Those of the undo lists are RX_INTERNAL.
Redirect(ri, to, from, file, var, saved) ==
  [ri |-> ri, to |-> to, from |-> from, file |-> file, var |-> var,
   internal |-> FALSE, saved |-> saved]

Internal(r) == [r EXCEPT !.internal = TRUE]
Restore(to, from, saved) == Internal(Redirect("dup", to, from, CLOSED, FALSE, saved))
Closer(fd) == Internal(Redirect("close", fd, 0, CLOSED, FALSE, FALSE))

----------------------------------------------------------------------------
\* The system calls.  0 stands for a call that fails.

LowestFree(s, base) ==
  LET free == {fd \in base .. MaxFd : s.fds[fd] = CLOSED}
  IN IF free = {} THEN 0 ELSE Min(free)

IsOpen(s, fd) == s.fds[fd] # CLOSED

\* fcntl (fd, F_DUPFD, base)
F_DUPFD(s, fd, base) == IF IsOpen(s, fd) THEN LowestFree(s, base) ELSE 0

Refer(s, fd, file) == [s EXCEPT !.fds[fd] = file, !.cloexec = @ \ {fd}]
Close(s, fd) == Refer(s, fd, CLOSED)
Dup2(s, from, to) == Refer(s, to, s.fds[from])

Done(s) == [s |-> s, error |-> FALSE]
Failed(s) == [s |-> s, error |-> TRUE]

----------------------------------------------------------------------------
\* Mutant: the copy is left open.
SaveInForGood(s, fd, new_fd, ri) ==
  [Dup2(s, fd, new_fd) EXCEPT
     !.undo = <<Restore(fd, new_fd, FALSE)>> \o @,
     !.execUndo = <<Closer(new_fd)>> \o @]

\* Save fd in new_fd and remember to restore it.
SaveIn(s, fd, new_fd, ri) ==
  LET clexec == fd \in s.cloexec
      saved == ~clexec /\ 3 <= fd
      restored == IF SHELL_FD_BASE <= fd /\ ri # "close" /\ clexec
                  THEN <<Restore(fd, new_fd, FALSE)>> ELSE <<>>
  IN [Dup2(s, fd, new_fd) EXCEPT
        !.cloexec = IF 3 > fd \/ clexec \/ saved THEN @ \cup {new_fd} ELSE @,
        !.undo = <<Restore(fd, new_fd, saved), Closer(new_fd)>> \o @,
        !.execUndo = restored \o <<Closer(new_fd)>> \o @]

\* The first that is free, looked for from the highest base that has one.
FreeFrom(s, bases) ==
  LET found == {base \in bases : LowestFree(s, base) # 0}
  IN IF found = {} THEN 0 ELSE LowestFree(s, Max(found))

SaveInAny(s, fd, new_fd, ri) == IF new_fd = 0 THEN Failed(s) ELSE Done(SaveIn(s, fd, new_fd, ri))

add_undo_redirect(s, fd, ri, fdbase) ==
  LET above == IF fdbase < SHELL_FD_BASE THEN SHELL_FD_BASE ELSE fdbase + 1
  IN IF IsOpen(s, fd)
     THEN SaveInAny(s, fd, FreeFrom(s, {above, SHELL_FD_BASE, 1}), ri)
     ELSE Failed(s)

add_undo_close_redirect(s, fd) == Done([s EXCEPT !.undo = <<Closer(fd)>> \o @])

\* Only what is open needs saving.
Remember(s, fd, ri, fdbase) ==
  IF IsOpen(s, fd) THEN add_undo_redirect(s, fd, ri, fdbase)
                   ELSE add_undo_close_redirect(s, fd)

----------------------------------------------------------------------------
\* [to]> file, {var}> file
PutIn(s, fd, to) == IF fd = to THEN s ELSE Close(Dup2(s, fd, to), fd)

OpenNamed(opened, fd, other) ==
  IF other = 0
  THEN Failed(Close(opened, fd))
  ELSE Done([PutIn(opened, fd, other) EXCEPT !.var = other])

OpenAs(noted, fd, to) ==
  IF noted.error THEN Failed(Close(noted.s, fd)) ELSE Done(PutIn(noted.s, fd, to))

OpenFile(s, r, undoable) ==
  LET fd == LowestFree(s, 1)
      opened == Refer(s, fd, r.file)
  IN CASE fd = 0 -> Failed(s)
       [] fd # 0 /\ r.var -> OpenNamed(opened, fd, LowestFree(opened, SHELL_FD_BASE))
       [] OTHER -> OpenAs(CASE ~undoable -> Done(opened)
                            [] undoable /\ fd = r.to -> add_undo_close_redirect(opened, fd)
                            [] OTHER -> Remember(opened, r.to, r.ri, -1),
                          fd, r.to)

\* &> file: the second half is done after the first and its save not checked.
ToBoth(first, r, undoable) ==
  IF first.error
  THEN first
  ELSE Done(Dup2(IF undoable THEN add_undo_redirect(first.s, 2, r.ri, -1).s ELSE first.s, 1, 2))

OpenBoth(s, r, undoable) == ToBoth(OpenFile(s, r, undoable), r, undoable)

\* [to]>& from, [to]>& from -
CloseMoved(s, r) == IF r.ri = "move" THEN Close(s, r.from) ELSE s

\* Mutant: what a move closes is not saved.
RememberTarget(noted, r) == noted

\* The close of a move has to be undone too.
RememberFrom(noted, r) ==
  IF r.ri = "move" /\ ~noted.error /\ IsOpen(noted.s, r.to)
  THEN add_undo_redirect(noted.s, r.from, "close", -1)
  ELSE noted

Copy(noted, r) ==
  LET inherits == (r.from \in noted.s.cloexec \/ (r.from < 2 /\ r.internal))
                  /\ ~(r.internal /\ r.saved)
  IN IF noted.error \/ ~IsOpen(noted.s, r.from)
     THEN Failed(noted.s)
     ELSE Done(CloseMoved([Dup2(noted.s, r.from, r.to) EXCEPT
                             !.cloexec = IF 2 < r.to /\ inherits THEN @ \cup {r.to} ELSE @], r))

\* The new descriptor is not saved, what a move closes is.
Numbered(copied, to) == IF copied.error THEN copied ELSE [copied EXCEPT !.s.var = to]

DuplicateNamed(s, r) ==
  IF r.to = 0
  THEN Failed(s)
  ELSE Numbered(Copy(RememberFrom(Done(Dup2(s, r.from, r.to)), r), r), r.to)

Duplicate(s, r, undoable) ==
  CASE r.var -> DuplicateNamed(s, [r EXCEPT !.to = F_DUPFD(s, r.from, SHELL_FD_BASE)])
    [] ~r.var /\ r.from = r.to -> Done(s)
    [] OTHER -> Copy(IF undoable THEN RememberFrom(Remember(s, r.to, r.ri, r.from), r)
                     ELSE Done(s), r)

\* [to]>&-, {var}>&-.  A descriptor that cannot be saved is closed all the same.
CloseNoted(noted, to) == [s |-> Close(noted.s, to), error |-> noted.error]

CloseThis(s, r, undoable) ==
  LET to == IF r.var THEN s.var ELSE r.to
  IN IF to = 0
     THEN Failed(s)
     ELSE CloseNoted(IF undoable THEN Remember(s, to, r.ri, -1) ELSE Done(s), to)

do_redirection_internal(s, r, undoable) ==
  CASE r.ri = "open" -> OpenFile(s, r, undoable)
    [] r.ri = "both" -> OpenBoth(s, r, undoable)
    [] r.ri \in {"dup", "move"} -> Duplicate(s, r, undoable)
    [] r.ri = "close" -> CloseThis(s, r, undoable)

\* Perform the redirections of an undo list; the first that fails is the last.
UndoNext(done, r) == IF done.error THEN done ELSE do_redirection_internal(done.s, r, FALSE)

cleanup_redirects(s, list) ==
  LET done[i \in 0 .. Len(list)] ==
        IF i = 0 THEN Done(s) ELSE UndoNext(done[i - 1], list[i])
  IN done[Len(list)].s

undo_partial_redirects(s) == [cleanup_redirects(s, s.undo) EXCEPT !.undo = <<>>]
dispose_exec_redirects(s) == [s EXCEPT !.execUndo = <<>>]
=============================================================================
