-------------------------- MODULE VariableContexts --------------------------
(***************************************************************************)
(* Pushing and popping the contexts of functions and builtins, and what    *)
(* becomes of the variables of a temporary environment.                    *)
(***************************************************************************)
EXTENDS VariableTables, FiniteSets

Start == [contexts |-> <<[kind |-> "global", scope |-> 0, table |-> NoTable]>>,
          temporary_env |-> NoTable, variable_context |-> 0,
          array_needs_making |-> TRUE, export_env |-> [n \in Names |-> NoValue]]

\* Mutant: the variables given to a function keep the context of its caller.
GivenContext(table, c) == table

\* set_context() of every variable.
InContext(table, c) ==
  [n \in Names |-> [j \in DOMAIN table[n] |-> [table[n][j] EXCEPT !.context = c]]]

\* push_var_context() with the temporary environment, which execute_function()
\* and execute_builtin() then forget.
Push(m, kind) ==
  [m EXCEPT !.contexts = <<[kind |-> kind, scope |-> m.variable_context,
                            table |-> InContext(m.temporary_env, m.variable_context)]>> \o @,
            !.temporary_env = NoTable]

PushContext(m) == Push([m EXCEPT !.variable_context = @ + 1], "function")
PushScope(m) == Push(m, "builtin")

\* v, bound in the context that is now the innermost one with attributes as.
Propagate(m, v, as) ==
  LET b == BindInternal(m, 1, v.name, v.value)
  IN  Put(b, 1, v.name, [Set(At(b, 1, v.name), as) EXCEPT !.context = Scope(m)])

AtGlobal(m) == Global(m) = 1
Given(v) == {"tempvar", "propagate"} \subseteq v.attributes
Forgotten(m, v, as) == v.attributes \ (IF AtGlobal(m) THEN as ELSE {})

\* Mutant: every variable of a temporary environment is handed down.
IsHandedDownAlways(v, free_func) == Has(v, "tempvar")

\* Which variables the functions that free a table hand down first.
IsHandedDown(v, free_func) ==
  Given(v) /\ (free_func = "push_exported_var" => Has(v, "exported"))

\* And with which attributes: push_func_var() and push_builtin_var(),
\* push_exported_var() and propagate_temp_var().
FuncVarAttributes(m, v) == Forgotten(m, v, {"tempvar", "propagate"})
ExportedVarAttributes(m, v) == Forgotten(m, v, {"propagate"}) \ {"tempvar"}
TempVarAttributes(m, v) == Forgotten(m, v, {"tempvar", "propagate"})

HandedAttributes(m, v, free_func) ==
  CASE free_func = "push_func_var" -> FuncVarAttributes(m, v)
    [] free_func = "push_exported_var" -> ExportedVarAttributes(m, v)
    [] free_func = "propagate_temp_var" -> TempVarAttributes(m, v)

Order == SetToSeq(Names)

\* hash_flush(): what free_func does with every variable, which then goes, as
\* dispose_variable() does.
Disposed(m, v, free_func) ==
  Flag(IF IsHandedDown(v, free_func)
       THEN Propagate(m, v, HandedAttributes(m, v, free_func)) ELSE m,
       Has(v, "exported"))

FlushBucket(m, vs, free_func) ==
  LET after[j \in 0 .. Len(vs)] ==
        IF j = 0 THEN m ELSE Disposed(after[j - 1], vs[j], free_func)
  IN  after[Len(vs)]

Flush(m, table, free_func) ==
  LET after[i \in 0 .. Len(Order)] ==
        IF i = 0 THEN m ELSE FlushBucket(after[i - 1], table[Order[i]], free_func)
  IN  after[Len(Order)]

PopContext(m) ==
  Flush([m EXCEPT !.contexts = Tail(@), !.variable_context = @ - 1],
        m.contexts[1].table, "push_func_var")

PopScope(m, is_special) ==
  LET below == [m EXCEPT !.contexts = Tail(@)]
  IN  IF is_special THEN Flush(below, m.contexts[1].table, "push_func_var")
                    ELSE Flush(below, m.contexts[1].table, "push_exported_var")

\* dispose_used_env_vars()
DisposeUsedEnvVars(m) ==
  IF m.temporary_env = NoTable THEN m
  ELSE MaybeMakeExportEnv(
         Flag(Flush([m EXCEPT !.temporary_env = NoTable], m.temporary_env, "propagate_temp_var"),
              TRUE))

\* A builtin that gets its temporary environment as a scope of its own.
InScope(m, is_special, f(_)) ==
  IF m.temporary_env = NoTable THEN f(m) ELSE PopScope(f(PushScope(m)), is_special)
==============================================================================
