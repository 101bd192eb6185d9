--------------------------- MODULE VariableTables ---------------------------
(***************************************************************************)
(* The variables of the shell: variables.c without arrays, namerefs,       *)
(* readonly variables, functions and POSIX mode.                           *)
(*                                                                         *)
(* A hash table of variables is, for each name, the sequence of its        *)
(* variables in the order of the bucket: a lookup finds the first, and     *)
(* make_new_variable() inserts in front without looking.  The state of the *)
(* variables is a machine m, which the operators return changed:           *)
(*   contexts            the list whose head is shell_variables and whose  *)
(*                       last member is global_variables                   *)
(*   temporary_env       a table, NoTable for the null pointer             *)
(*   variable_context    the depth of function calls                       *)
(*   array_needs_making  whether export_env has to be made again           *)
(*   export_env          what a command receives, by name                  *)
(***************************************************************************)
EXTENDS Integers, Sequences, FiniteSets, SequencesExt, FiniteSetsExt

CONSTANTS Names,       \* of variables that are strings
          Values,
          NoValue      \* the null value, and no entry in the environment

ASSUME NoValueAssumption == NoValue \notin Values
ASSUME NamesAssumption == IsFiniteSet(Names)

Attributes == {"exported", "invisible", "local", "tempvar", "propagate"}

NewVariable(n) == [name |-> n, value |-> NoValue, exportstr |-> NoValue,
                   attributes |-> {}, context |-> 0]
NoTable == [n \in Names |-> <<>>]

Has(v, a) == a \in v.attributes
Set(v, as) == [v EXCEPT !.attributes = @ \cup as]
Clear(v, as) == [v EXCEPT !.attributes = @ \ as]
Flag(m, b) == [m EXCEPT !.array_needs_making = @ \/ b]

\* Places of variables: the temporary environment or the index of a context.
TempEnv == 0
Nowhere == -1
Table(m, i) == IF i = TempEnv THEN m.temporary_env ELSE m.contexts[i].table
At(m, i, n) == Table(m, i)[n][1]
PutAll(m, i, n, vs) == IF i = TempEnv THEN [m EXCEPT !.temporary_env[n] = vs]
                                      ELSE [m EXCEPT !.contexts[i].table[n] = vs]
Put(m, i, n, v) == PutAll(m, i, n, <<v>> \o Tail(Table(m, i)[n]))
Insert(m, i, n, v) == PutAll(m, i, n, <<v>> \o Table(m, i)[n])

Global(m) == Len(m.contexts)
Scope(m) == m.contexts[1].scope

\* var_lookup(), and find_variable() while a builtin runs.
VarLookup(m, n) ==
  LET holding == {i \in DOMAIN m.contexts : m.contexts[i].table[n] # <<>>}
  IN  IF holding = {} THEN Nowhere ELSE Min(holding)
FindVariable(m, n) == IF m.temporary_env[n] # <<>> THEN TempEnv ELSE VarLookup(m, n)

------------------------------------------------------------------------------
(* Assignments. *)

\* Mutant: the string cached for the environment outlives the value.
BoundKeepingString(v, val) == [Clear(v, {"invisible"}) EXCEPT !.value = val]

Bound(v, val) == [Clear(v, {"invisible"}) EXCEPT !.value = val, !.exportstr = NoValue]

\* bind_variable_internal() on the table at i.
BindInternal(m, i, n, val) ==
  LET m1 == IF Table(m, i)[n] = <<>> THEN Insert(m, i, n, NewVariable(n)) ELSE m
      v  == Bound(At(m1, i, n), val)
  IN  Flag(Put(m1, i, n, v), Has(v, "exported"))

\* bind_tempenv_variable(): only a variable that is there.
BindTempenv(m, n, val) ==
  IF m.temporary_env[n] = <<>> \/ val = NoValue THEN m
  ELSE Put(m, TempEnv, n, [At(m, TempEnv, n) EXCEPT !.value = val, !.exportstr = NoValue])

Target(m, n) == IF VarLookup(m, n) = Nowhere THEN Global(m) ELSE VarLookup(m, n)

\* bind_variable(): the innermost variable of that name, or a global one.
BindVariable(m, n, val) == BindInternal(BindTempenv(m, n, val), Target(m, n), n, val)

AssignInEnv(m, n, val) ==
  LET m1 == IF m.temporary_env[n] = <<>> THEN Insert(m, TempEnv, n, NewVariable(n)) ELSE m
      v  == [Set(At(m1, TempEnv, n), {"exported", "tempvar"}) EXCEPT
               !.value = val, !.exportstr = val, !.context = m.variable_context]
  IN  Flag(Put(m1, TempEnv, n, v), TRUE)

------------------------------------------------------------------------------
(* The environment of commands. *)

Candidate(v) == Has(v, "exported") /\ ~Has(v, "invisible")

\* The place and the index there of the variable that goes into the environment:
\* vlist_add() keeps the first candidate of each name.
Exporting(m, n) ==
  LET eligible(i) == {j \in DOMAIN Table(m, i)[n] : Candidate(Table(m, i)[n][j])}
      places == {i \in 0..Global(m) : eligible(i) # {}}
  IN  IF places = {} THEN <<>> ELSE <<Min(places), Min(eligible(Min(places)))>>

ExportString(v) == IF v.exportstr # NoValue THEN v.exportstr ELSE v.value

\* make_env_array_from_var_list() caches the strings it makes.
Cached(m, i) ==
  [n \in Names |-> [j \in DOMAIN Table(m, i)[n] |->
     LET v == Table(m, i)[n][j]
     IN  IF Exporting(m, n) = <<i, j>> THEN [v EXCEPT !.exportstr = ExportString(v)] ELSE v]]

MakeExportEnv(m) ==
  [m EXCEPT !.export_env = [n \in Names |->
              LET e == Exporting(m, n)
              IN  IF e = <<>> THEN NoValue ELSE ExportString(Table(m, e[1])[n][e[2]])],
            !.contexts = <<>> \o [i \in DOMAIN m.contexts |->
                                   [m.contexts[i] EXCEPT !.table = Cached(m, i)]],
            !.temporary_env = Cached(m, TempEnv),
            !.array_needs_making = FALSE]

MaybeMakeExportEnv(m) == IF m.array_needs_making THEN MakeExportEnv(m) ELSE m

\* setpwd(): the entry of the environment is replaced in place when nothing
\* else asks for a new environment.
SetPwd(m, n, val) ==
  LET b == BindVariable(m, n, val)
  IN  IF /\ ~m.array_needs_making /\ b.array_needs_making
         /\ Has(At(b, Target(b, n), n), "exported")
      THEN [b EXCEPT !.export_env[n] = val, !.array_needs_making = FALSE]
      ELSE b

------------------------------------------------------------------------------
(* Attributes, local variables and unset. *)

\* export name, without a value of its own: set_var_attribute(att_exported).
Export(m, n) ==
  LET tv == At(m, TempEnv, n)
      b  == BindVariable(m, n, tv.value)
      i  == VarLookup(m, n)
      v  == At(m, i, n)
  IN  Flag(IF m.temporary_env[n] # <<>>
           THEN Put(b, Target(b, n), n,
                    Set(At(b, Target(b, n), n), tv.attributes \ {"tempvar"}))
           ELSE IF i = Nowhere
           THEN LET c == BindVariable(m, n, NoValue)
                IN  Put(c, Global(c), n, Set(At(c, Global(c), n), {"invisible", "exported"}))
           ELSE Put(m, i, n, Set(v, {"exported"} \cup IF v.context # 0 THEN {"propagate"} ELSE {})),
           TRUE)

Unexport(m, n) ==
  LET i == FindVariable(m, n)
  IN  Flag(IF i = Nowhere THEN m ELSE Put(m, i, n, Clear(At(m, i, n), {"exported"})), TRUE)

FunctionContext(m) ==
  Min({i \in DOMAIN m.contexts : /\ m.contexts[i].kind = "function"
                                 /\ m.contexts[i].scope = m.variable_context})

\* make_local_variable(): the machine, and the place of the variable it returns.
MakeLocal(m, n) ==
  LET i   == FindVariable(m, n)
      old == At(m, i, n)
      given == i # Nowhere /\ Has(old, "tempvar")
      here == i # Nowhere /\ old.context = m.variable_context
      f   == FunctionContext(m)
      new == [NewVariable(n) EXCEPT
                !.value = IF given THEN old.value ELSE NoValue,
                !.context = m.variable_context,
                !.attributes = {"local"}
                   \cup (IF i # Nowhere /\ Has(old, "exported") THEN {"exported"} ELSE {})
                   \cup (IF given THEN {} ELSE {"invisible"})]
  IN  IF here /\ Has(old, "local") THEN [m |-> m, place |-> i]
      ELSE IF given /\ here /\ i # TempEnv
      THEN [m |-> Put(m, i, n, Set(Clear(old, {"invisible"}), {"local"})), place |-> i]
      ELSE [m |-> Insert(m, f, n, new), place |-> f]

\* bind_variable_value()
BindValue(m, i, n, val) ==
  LET v == Bound(At(m, i, n), val) IN Flag(Put(m, i, n, v), Has(v, "exported"))

\* local name, or local name=val
Local(m, n, val) ==
  LET l == MakeLocal(m, n)
  IN  IF val = NoValue THEN l.m ELSE BindValue(l.m, l.place, n, val)

\* declare -x name: the variable it finds or makes, and, where that came from
\* the assignments before a command, the variable these hide.
DeclareExport(m, n) ==
  LET l == IF m.variable_context > 0 THEN MakeLocal(m, n)
           ELSE IF FindVariable(m, n) # Nowhere THEN [m |-> m, place |-> FindVariable(m, n)]
           ELSE LET b == BindVariable(m, n, NoValue)
                IN  [m |-> Put(b, Global(b), n, Set(At(b, Global(b), n), {"invisible"})),
                     place |-> Global(b)]
      x == Put(l.m, l.place, n, Set(At(l.m, l.place, n), {"exported"}))
      v == At(x, l.place, n)
      b == BindVariable(x, n, v.value)
      t == At(b, Target(b, n), n)
      y == IF x.temporary_env[n] = <<>> THEN x
           ELSE Put(b, Target(b, n), n,
                    Set(t, (v.attributes \ {"tempvar"})
                           \cup IF t.context > 0 THEN {"propagate"} ELSE {}))
  IN  IF Has(v, "tempvar")
      THEN Put(y, l.place, n, Set(At(y, l.place, n), {"propagate"}))
      ELSE x

\* makunbound(): a local variable of the running function stays, invisible; put
\* back with hash_insert(), it takes the place of another one of its name.
Makunbound(m, n) ==
  LET i    == VarLookup(m, n)
      old  == At(m, i, n)
      rest == Tail(Table(m, i)[n])
      kept == [old EXCEPT !.value = NoValue, !.exportstr = NoValue,
                 !.attributes = {"local", "invisible"}
                    \cup IF {"exported", "tempvar"} \subseteq @ THEN {"exported"} ELSE {}]
      local == Has(old, "local") /\ old.context = m.variable_context
  IN  IF i = Nowhere THEN m
      ELSE Flag(PutAll(m, i, n, IF ~local THEN rest
                                ELSE IF rest = <<>> THEN <<kept>> ELSE <<kept>> \o Tail(rest)),
                Has(old, "exported"))

\* hash_grow() of the table of the running function, which a new local variable
\* causes, turns the order of the variables with one name around.
Grow(m) == [m EXCEPT !.contexts[FunctionContext(m)].table =
              [n \in Names |-> Reverse(@[n])]]
==============================================================================
