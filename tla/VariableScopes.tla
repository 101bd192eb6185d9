--------------------------- MODULE VariableScopes ---------------------------
(***************************************************************************)
(* Commands that change variables, as execute_simple_command() and its     *)
(* callees run them: assignments, alone and before a command, builtins,    *)
(* function calls, eval, trap handlers, and what unwinds them.             *)
(*                                                                         *)
(*   s      the machine of VariableContexts                                *)
(*   calls  what is active, innermost first.  An eval has a scope when it  *)
(*          was given variables; a handler keeps the temporary environment *)
(*          of the command it interrupted, and where that command goes on  *)
(*   stage  "ready" for a command, "assigned" after the assignments before *)
(*          one, "redirected" once a handler interrupted its redirections, *)
(*          or what unwinds the calls: "returning", "discarding" (an       *)
(*          expansion error) or "interrupted"                              *)
(*   count  the commands so far                                            *)
(***************************************************************************)
EXTENDS VariableContexts

CONSTANTS MaxCalls,      \* nested calls
          MaxCommands    \* commands, with calls and the assignments before them

VARIABLES s, calls, stage, count
vars == <<s, calls, stage, count>>

Commanding == {"ready", "assigned", "redirected"}

Init == s = Start /\ calls = <<>> /\ stage = "ready" /\ count = 0

Begins == count < MaxCommands /\ count' = count + 1

\* A command that leaves the variables as m is over.
Complete(m) == s' = DisposeUsedEnvVars(m) /\ stage' = "ready" /\ UNCHANGED calls

Builtin(m) == stage \in Commanding /\ Begins /\ Complete(m)

------------------------------------------------------------------------------
(* Commands. *)

Assign(n, val) == stage = "ready" /\ Begins /\ Complete(BindVariable(s, n, val))

AssignBefore(n, val) ==
  /\ stage \in {"ready", "assigned"}
  /\ Begins
  /\ s' = AssignInEnv(s, n, val)
  /\ stage' = "assigned"
  /\ UNCHANGED calls

\* A command of the file system, which gets export_env.
External ==
  stage \in {"ready", "assigned"} /\ Begins /\ Complete(MaybeMakeExportEnv(s))

OtherBuiltin == stage \in {"assigned", "redirected"} /\ Begins /\ Complete(s)

ExportBuiltin(n) == Builtin(Export(s, n))
ExportAssigning(n, val) == Builtin(Export(BindVariable(s, n, val), n))
UnexportBuiltin(n) == Builtin(Unexport(s, n))

LocalBuiltin(n, val) == s.variable_context > 0 /\ Builtin(Local(s, n, val))

AskForEnv(m) == Flag(m, TRUE)

DeclareBuiltin(n) == Builtin(DeclareExport(AskForEnv(s), n))

\* declare -x TZ name: sv_tz() makes the environment before name gets its turn.
DeclareAfterTZ(n) ==
  Builtin(DeclareExport(MaybeMakeExportEnv(AskForEnv(s)), n))

UnsetBuiltin(n) == Builtin(InScope(s, TRUE, LAMBDA m : Makunbound(m, n)))
ReadBuiltin(n, val) == Builtin(InScope(s, FALSE, LAMBDA m : BindVariable(m, n, val)))
Cd(n, val) == Builtin(SetPwd(s, n, val))

\* Local variables of other names make the table of the function grow.
LocalsOfOtherNames == s.variable_context > 0 /\ Builtin(Grow(s))

------------------------------------------------------------------------------
(* Calls. *)

Called(c) == Begins /\ Len(calls) < MaxCalls /\ calls' = <<c>> \o calls

CallFunction ==
  /\ stage \in Commanding
  /\ s' = PushContext(s)
  /\ Called([kind |-> "function"])
  /\ stage' = "ready"

CallEval ==
  /\ stage \in Commanding
  /\ LET scoped == s.temporary_env # NoTable
     IN  /\ s' = IF scoped THEN PushScope(s) ELSE s
         /\ Called([kind |-> "eval", scoped |-> scoped])
  /\ stage' = "ready"

\* run_pending_traps(), before a command and where a redirection is interrupted.
EnterHandler ==
  /\ stage \in Commanding
  /\ s' = [s EXCEPT !.temporary_env = NoTable]
  /\ Called([kind |-> "handler", temporary_env |-> s.temporary_env,
             then |-> IF stage = "ready" THEN "ready" ELSE "redirected"])
  /\ stage' = "ready"

Running(kind) == calls # <<>> /\ Head(calls).kind = kind

EndFunction ==
  /\ stage = "ready" /\ Running("function")
  /\ s' = DisposeUsedEnvVars(PopContext(s))
  /\ calls' = Tail(calls)
  /\ UNCHANGED <<stage, count>>

Unscoped(m, c) == IF c.scoped THEN PopScope(m, TRUE) ELSE m

EndEval ==
  /\ stage = "ready" /\ Running("eval")
  /\ s' = DisposeUsedEnvVars(Unscoped(s, Head(calls)))
  /\ calls' = Tail(calls)
  /\ UNCHANGED <<stage, count>>

EndHandler ==
  /\ stage = "ready" /\ Running("handler")
  /\ s' = [s EXCEPT !.temporary_env = Head(calls).temporary_env]
  /\ stage' = Head(calls).then
  /\ calls' = Tail(calls)
  /\ UNCHANGED count

------------------------------------------------------------------------------
(* Unwinding: return, an expansion error, an interrupt. *)

Return ==
  /\ stage \in Commanding
  /\ \E i \in DOMAIN calls : calls[i].kind = "function"
  /\ stage' = "returning"
  /\ UNCHANGED <<s, calls, count>>

\* It ends in the innermost eval or handler, which reads its next command.
ExpansionError ==
  /\ stage \in {"ready", "assigned"}
  /\ stage' = "discarding"
  /\ UNCHANGED <<s, calls, count>>

Interrupt ==
  /\ stage \in Commanding
  /\ stage' = "interrupted"
  /\ UNCHANGED <<s, calls, count>>

UnwindFunction ==
  /\ stage \in {"returning", "discarding", "interrupted"} /\ Running("function")
  /\ calls' = Tail(calls)
  /\ IF stage = "returning"
     THEN s' = DisposeUsedEnvVars(PopContext(s)) /\ stage' = "ready"
     ELSE s' = PopContext(s) /\ UNCHANGED stage
  /\ UNCHANGED count

UnwindEval ==
  /\ stage \in {"returning", "interrupted"} /\ Running("eval")
  /\ s' = Unscoped(s, Head(calls))
  /\ calls' = Tail(calls)
  /\ UNCHANGED <<stage, count>>

\* Its temporary environment is lost.
UnwindHandler ==
  /\ stage \in {"returning", "interrupted"} /\ Running("handler")
  /\ calls' = Tail(calls)
  /\ UNCHANGED <<s, stage, count>>

\* The variables given to the failed command stay with the eval or the handler.
DiscardUpTo ==
  /\ stage = "discarding" /\ (Running("eval") \/ Running("handler"))
  /\ stage' = "ready"
  /\ UNCHANGED <<s, calls, count>>

ToTopLevel ==
  /\ stage \in {"discarding", "interrupted"} /\ calls = <<>>
  /\ Complete(s)
  /\ UNCHANGED count

------------------------------------------------------------------------------
Commands ==
  \/ External \/ OtherBuiltin \/ LocalsOfOtherNames
  \/ \E n \in Names :
       \/ ExportBuiltin(n) \/ UnexportBuiltin(n) \/ DeclareBuiltin(n) \/ DeclareAfterTZ(n)
       \/ UnsetBuiltin(n) \/ LocalBuiltin(n, NoValue)
       \/ \E val \in Values :
            \/ Assign(n, val) \/ AssignBefore(n, val) \/ ExportAssigning(n, val)
            \/ LocalBuiltin(n, val) \/ ReadBuiltin(n, val) \/ Cd(n, val)

Calls == CallFunction \/ CallEval \/ EnterHandler \/ EndFunction \/ EndEval \/ EndHandler

Unwinding ==
  \/ Return \/ ExpansionError \/ Interrupt
  \/ UnwindFunction \/ UnwindEval \/ UnwindHandler \/ DiscardUpTo \/ ToTopLevel

Next == Commands \/ Calls \/ Unwinding

Spec == Init /\ [][Next]_vars

------------------------------------------------------------------------------
(* Properties. *)

\* The calls that have a context of their own, the place of that context, and
\* how deep in function calls a call is.
Pushing(c) == c.kind = "function" \/ (c.kind = "eval" /\ c.scoped)
ContextOf(k) == 1 + Cardinality({j \in 1..(k - 1) : Pushing(calls[j])})
ContextKind(c) == IF c.kind = "eval" THEN "builtin" ELSE "function"
Depth(k) == Cardinality({j \in k..Len(calls) : calls[j].kind = "function"})

\* The contexts are those of the active calls, in their order, and each has the
\* depth of function calls it was pushed at as its scope; variables are in the
\* context they say, which outside the global one are given, or local to a
\* function.  pop_context() and pop_scope() pop what is on top without a look,
\* make_local_variable() and makunbound() go by the context of a variable.
ContextsOK ==
  /\ Len(s.contexts) = ContextOf(Len(calls) + 1)
  /\ s.variable_context = Depth(1)
  /\ \A k \in {j \in DOMAIN calls : Pushing(calls[j])} :
       /\ s.contexts[ContextOf(k)].kind = ContextKind(calls[k])
       /\ s.contexts[ContextOf(k)].scope = Depth(k)
  /\ s.contexts[Global(s)].kind = "global" /\ s.contexts[Global(s)].scope = 0
  /\ \A i \in DOMAIN s.contexts, n \in Names : \A j \in DOMAIN s.contexts[i].table[n] :
       LET v == s.contexts[i].table[n][j]
       IN  /\ v.context = s.contexts[i].scope
           /\ i < Global(s) => Has(v, "local") \/ Has(v, "tempvar")

\* What a command would be given if the environment were made anew.
Deserved(n) == LET e == Exporting(s, n)
               IN  IF e = <<>> THEN NoValue ELSE Table(s, e[1])[n][e[2]].value

Duplicated == \E i \in DOMAIN s.contexts, n \in Names : Len(s.contexts[i].table[n]) > 1

OutOfDate == ~s.array_needs_making /\ \E n \in Names : s.export_env[n] # Deserved(n)

\* The environment of commands goes out of date without a request to make it
\* anew only in declare -x TZ name, where a trap handler sets aside or gives back
\* the variables given to a command, and where a function has two variables of
\* one name.
\* (variables.c: "If a shell action could change the array that commands receive
\* for their environment, then the code should `array_needs_making++'.")
OutOfDateOnlyThere ==
  [][OutOfDate' => OutOfDate \/ EnterHandler \/ EndHandler \/ Duplicated
                   \/ \E n \in Names : DeclareAfterTZ(n)]_vars
==============================================================================
