--------------------------- MODULE VariableProofs ---------------------------
(***************************************************************************)
(* Proofs about the scopes of variables.                                   *)
(***************************************************************************)
EXTENDS VariableScopes, NatLemmas, SequenceTheorems, FiniteSetTheorems,
        TLAPS

Strings == Values \cup {NoValue}
VariableRecord == [name : Names, value : Strings, exportstr : Strings,
                   attributes : SUBSET Attributes, context : Nat]

(* The string cached for the environment of commands is never that of an   *)
(* old value, and what is given to a command is visible.                   *)
Variable == {v \in VariableRecord : /\ v.exportstr \in {NoValue, v.value}
                                    /\ Has(v, "tempvar") => ~Has(v, "invisible")}

Kinds == {"global", "function", "builtin"}
Shape == [kind : Kinds, scope : Nat]

(* The contexts without their variables: what a machine keeps while a      *)
(* command runs.                                                           *)
Shapes == {K \in Seq(Shape) :
             Len(K) > 0 /\ K[Len(K)].kind = "global" /\ K[Len(K)].scope = 0}

(* The variables of one name that may be at a place: in the temporary      *)
(* environment those given to a command, with attributes among A, else     *)
(* those of a context.                                                     *)
Handed(v) == Has(v, "local") \/ Has(v, "tempvar")
GivenVariables(n, A) == {v \in Variable : v.name = n /\ Has(v, "tempvar") /\ v.attributes \subseteq A}
ScopeVariables(n, K, i) ==
  {v \in Variable : v.name = n /\ v.context = K[i].scope /\ (i < Len(K) => Handed(v))}
VariablesAt(n, K, A, i) == IF i = TempEnv THEN GivenVariables(n, A) ELSE ScopeVariables(n, K, i)

TablesAt(K, A, i) ==
  {t \in [Names -> Seq(Variable)] : \A n \in Names : t[n] \in Seq(VariablesAt(n, K, A, i))}
ContextAt(K, A, i) == [kind : {K[i].kind}, scope : {K[i].scope}, table : TablesAt(K, A, i)]
Context == [kind : Kinds, scope : Nat,
            table : [Names -> Seq(Variable)]]
ContextsOf(K, A) ==
  {cs \in Seq(Context) :
     Len(cs) = Len(K) /\ \A i \in 1..Len(K) : cs[i] \in ContextAt(K, A, i)}

Machines(K, d, A) ==
  [contexts : ContextsOf(K, A), temporary_env : TablesAt(K, A, TempEnv), variable_context : {d},
   array_needs_making : BOOLEAN, export_env : [Names -> Strings]]

------------------------------------------------------------------------------
(* The variables at a place, and another list of them put there. *)

LEMMA ShapeType ==
    ASSUME NEW K \in Shapes
    PROVE  /\ Len(K) \in Nat \ {0} /\ DOMAIN K = 1..Len(K)
           /\ \A i \in 1..Len(K) : K[i].scope \in Nat
           /\ K[Len(K)].scope = 0
<1>1. K \in Seq(Shape)
  BY DEF Shapes
<1>2. Len(K) \in Nat \ {0} /\ DOMAIN K = 1..Len(K) /\ K[Len(K)].scope = 0
  BY <1>1 DEF Shapes
<1>3. \A i \in 1..Len(K) : K[i] \in Shape
  BY <1>1
<1> QED
  BY <1>2, <1>3 DEF Shape

LEMMA MachineParts ==
    ASSUME NEW K \in Shapes, NEW d \in Nat, NEW A, NEW m \in Machines(K, d, A)
    PROVE  /\ Len(m.contexts) = Len(K) /\ DOMAIN m.contexts = 1..Len(K)
           /\ Global(m) = Len(K) /\ Scope(m) = K[1].scope
           /\ m.variable_context = d
           /\ m.array_needs_making \in BOOLEAN /\ m.export_env \in [Names -> Strings]
           /\ \A i \in 1..Len(K) : /\ m.contexts[i] \in ContextAt(K, A, i)
                                   /\ m.contexts[i].kind = K[i].kind
                                   /\ m.contexts[i].scope = K[i].scope
           /\ \A i \in 0..Len(K) : Table(m, i) \in TablesAt(K, A, i)
<1>1. m.contexts \in ContextsOf(K, A) /\ m.temporary_env \in TablesAt(K, A, TempEnv)
      /\ m.variable_context = d /\ m.array_needs_making \in BOOLEAN
      /\ m.export_env \in [Names -> Strings]
  BY DEF Machines
<1>2. Len(m.contexts) = Len(K) /\ DOMAIN m.contexts = 1..Len(K)
      /\ \A i \in 1..Len(K) : m.contexts[i] \in ContextAt(K, A, i)
  BY <1>1 DEF ContextsOf
<1>3. \A i \in 1..Len(K) : /\ m.contexts[i].kind = K[i].kind
                           /\ m.contexts[i].scope = K[i].scope
                           /\ m.contexts[i].table \in TablesAt(K, A, i)
  BY <1>2 DEF ContextAt
<1>4. Len(K) \in Nat \ {0}
  BY ShapeType
<1> QED
  BY <1>1, <1>2, <1>3, <1>4 DEF Global, Scope, Table, TempEnv

LEMMA ListType ==
    ASSUME NEW K \in Shapes, NEW d \in Nat, NEW A, NEW m \in Machines(K, d, A),
           NEW i \in 0..Len(K), NEW n \in Names
    PROVE  /\ Table(m, i)[n] \in Seq(VariablesAt(n, K, A, i))
           /\ Table(m, i)[n] # <<>> => At(m, i, n) \in VariablesAt(n, K, A, i)
           /\ Tail(Table(m, i)[n]) \in Seq(VariablesAt(n, K, A, i)) \/ Table(m, i)[n] = <<>>
<1>1. Table(m, i)[n] \in Seq(VariablesAt(n, K, A, i))
  BY MachineParts DEF TablesAt
<1> QED
  BY <1>1 DEF At

LEMMA VariablesAtType ==
    ASSUME NEW K, NEW A, NEW i, NEW n
    PROVE  VariablesAt(n, K, A, i) \subseteq Variable
  BY DEF VariablesAt, GivenVariables, ScopeVariables

LEMMA PutAllIn ==
    ASSUME NEW K \in Shapes, NEW d \in Nat, NEW A, NEW m \in Machines(K, d, A),
           NEW i \in 0..Len(K), NEW n \in Names, NEW vs \in Seq(VariablesAt(n, K, A, i))
    PROVE  /\ PutAll(m, i, n, vs) \in Machines(K, d, A)
           /\ Table(PutAll(m, i, n, vs), i) = [Table(m, i) EXCEPT ![n] = vs]
           /\ \A j \in 0..Len(K) : j # i => Table(PutAll(m, i, n, vs), j) = Table(m, j)
           /\ PutAll(m, i, n, vs).array_needs_making = m.array_needs_making
           /\ PutAll(m, i, n, vs).export_env = m.export_env
<1>0. Len(K) \in Nat \ {0}
  BY ShapeType
<1>1. vs \in Seq(Variable)
  BY VariablesAtType
<1>2. Table(m, i) \in TablesAt(K, A, i)
  BY MachineParts
<1>3. [Table(m, i) EXCEPT ![n] = vs] \in TablesAt(K, A, i)
  BY <1>1, <1>2 DEF TablesAt
<1>4. CASE i = TempEnv
  <2>1. PutAll(m, i, n, vs) = [m EXCEPT !.temporary_env = [Table(m, i) EXCEPT ![n] = vs]]
    BY <1>4 DEF PutAll, Table, Machines
  <2> QED
    BY <1>0, <1>3, <1>4, <2>1 DEF Table, TempEnv, Machines
<1>5. CASE i # TempEnv
  <2>0. i \in 1..Len(K)
    BY <1>0, <1>5 DEF TempEnv
  <2> DEFINE c == [m.contexts[i] EXCEPT !.table = [Table(m, i) EXCEPT ![n] = vs]]
             cs == [m.contexts EXCEPT ![i] = c]
  <2>1. PutAll(m, i, n, vs) = [m EXCEPT !.contexts = cs]
    BY <1>5 DEF PutAll, Table
  <2>2. m.contexts[i] \in ContextAt(K, A, i)
    BY <2>0, MachineParts
  <2>3. c \in ContextAt(K, A, i) /\ c.table = [Table(m, i) EXCEPT ![n] = vs]
    BY <1>3, <2>2 DEF ContextAt
  <2>4. m.contexts \in ContextsOf(K, A)
    BY DEF Machines
  <2>5. cs \in ContextsOf(K, A) /\ cs[i] = c /\ \A j \in 1..Len(K) : j # i => cs[j] = m.contexts[j]
    <3>0. m.contexts \in Seq(Context) /\ Len(m.contexts) = Len(K) /\ m.contexts[i] \in Context
      BY <2>0, <2>4 DEF ContextsOf
    <3>1. c \in Context
      BY <1>3, <3>0 DEF Context, TablesAt
    <3> HIDE DEF c
    <3>2. cs \in Seq(Context) /\ Len(cs) = Len(K) /\ DOMAIN cs = 1..Len(K)
      BY <3>0, <3>1, <2>0
    <3> QED
      BY <2>0, <2>3, <2>4, <3>2 DEF ContextsOf
  <2> HIDE DEF cs, c
  <2>6. PutAll(m, i, n, vs) \in Machines(K, d, A)
    BY <2>1, <2>5 DEF Machines
  <2>7. PutAll(m, i, n, vs).contexts = cs /\ PutAll(m, i, n, vs).temporary_env = m.temporary_env
        /\ PutAll(m, i, n, vs).array_needs_making = m.array_needs_making
        /\ PutAll(m, i, n, vs).export_env = m.export_env
    BY <2>1 DEF Machines
  <2> QED
    BY <1>0, <1>5, <2>0, <2>3, <2>5, <2>6, <2>7 DEF Table, TempEnv
<1> QED
  BY <1>4, <1>5

(* Putting a list replaces the list put before. *)
LEMMA PutAllTwice ==
    ASSUME NEW K \in Shapes, NEW d \in Nat, NEW A, NEW m \in Machines(K, d, A),
           NEW i \in 0..Len(K), NEW n \in Names, NEW vs, NEW ws
    PROVE  /\ Table(PutAll(m, i, n, vs), i)[n] = vs
           /\ PutAll(PutAll(m, i, n, vs), i, n, ws) = PutAll(m, i, n, ws)
           /\ PutAll(m, i, n, vs).array_needs_making = m.array_needs_making
<1>1. Table(m, i) \in TablesAt(K, A, i)
  BY MachineParts
<1>2. CASE i = TempEnv
  <2>1. m.temporary_env = Table(m, i) /\ m.temporary_env \in [Names -> Seq(Variable)]
    BY <1>1, <1>2 DEF Table, TablesAt
  <2>2. PutAll(m, i, n, vs) = [m EXCEPT !.temporary_env = [@ EXCEPT ![n] = vs]]
    BY <1>2 DEF PutAll
  <2> QED
    BY <1>2, <2>1, <2>2 DEF Table, PutAll, Machines
<1>3. CASE i # TempEnv
  <2>0. i \in 1..Len(K)
    BY <1>3, ShapeType DEF TempEnv
  <2>1. m.contexts[i] \in ContextAt(K, A, i) /\ DOMAIN m.contexts = 1..Len(K)
    BY <2>0, MachineParts
  <2>2. m.contexts[i].table \in [Names -> Seq(Variable)]
    BY <2>1 DEF ContextAt, TablesAt
  <2> DEFINE c == [m.contexts[i] EXCEPT !.table = [@ EXCEPT ![n] = vs]]
             e == [m.contexts[i] EXCEPT !.table = [@ EXCEPT ![n] = ws]]
  <2>3. c.table[n] = vs /\ [c EXCEPT !.table = [@ EXCEPT ![n] = ws]] = e
    BY <2>1, <2>2 DEF ContextAt
  <2>4. PutAll(m, i, n, vs) = [m EXCEPT !.contexts = [@ EXCEPT ![i] = c]]
    BY <1>3 DEF PutAll
  <2>5. PutAll(m, i, n, ws) = [m EXCEPT !.contexts = [@ EXCEPT ![i] = e]]
    BY <1>3 DEF PutAll
  <2>6. PutAll(m, i, n, vs).contexts[i] = c
    BY <2>0, <2>1, <2>4 DEF Machines
  <2>7. PutAll(PutAll(m, i, n, vs), i, n, ws)
          = [PutAll(m, i, n, vs) EXCEPT
               !.contexts = [@ EXCEPT ![i] = [c EXCEPT !.table = [@ EXCEPT ![n] = ws]]]]
    BY <1>3, <2>6 DEF PutAll
  <2> HIDE DEF c, e
  <2>8. PutAll(PutAll(m, i, n, vs), i, n, ws) = PutAll(m, i, n, ws)
    <3>1. m.contexts \in Seq(Context)
      BY DEF Machines, ContextsOf
    <3>2. [[m.contexts EXCEPT ![i] = c] EXCEPT ![i] = e] = [m.contexts EXCEPT ![i] = e]
      BY <3>1
    <3>3. PutAll(m, i, n, vs).contexts = [m.contexts EXCEPT ![i] = c]
      BY <2>4 DEF Machines
    <3>4. PutAll(PutAll(m, i, n, vs), i, n, ws)
            = [PutAll(m, i, n, vs) EXCEPT !.contexts = [m.contexts EXCEPT ![i] = e]]
      BY <2>3, <2>7, <3>2, <3>3
    <3> QED
      BY <2>4, <2>5, <3>4 DEF Machines
  <2> QED
    BY <1>3, <2>3, <2>4, <2>6, <2>8 DEF Table, Machines
<1> QED
  BY <1>2, <1>3

LEMMA FlagIn ==
    ASSUME NEW K \in Shapes, NEW d \in Nat, NEW A, NEW m \in Machines(K, d, A),
           NEW b \in BOOLEAN
    PROVE  /\ Flag(m, b) \in Machines(K, d, A)
           /\ \A i \in 0..Len(K) : Table(Flag(m, b), i) = Table(m, i)
           /\ Flag(m, b).array_needs_making = (m.array_needs_making \/ b)
           /\ Flag(m, b).export_env = m.export_env
  BY DEF Flag, Machines, Table

LEMMA FlagTrueIn ==
    ASSUME NEW K \in Shapes, NEW d \in Nat, NEW A, NEW m \in Machines(K, d, A)
    PROVE  /\ Flag(m, TRUE) \in Machines(K, d, A)
           /\ \A i \in 0..Len(K) : Table(Flag(m, TRUE), i) = Table(m, i)
           /\ Flag(m, TRUE).array_needs_making = TRUE
           /\ Flag(m, TRUE).export_env = m.export_env
<1>1. (m.array_needs_making \/ TRUE) = TRUE
  OBVIOUS
<1>2. Flag(m, TRUE) = [m EXCEPT !.array_needs_making = TRUE]
  BY <1>1, Zenon DEF Flag
<1>3. /\ [m EXCEPT !.array_needs_making = TRUE] \in Machines(K, d, A)
      /\ [m EXCEPT !.array_needs_making = TRUE].contexts = m.contexts
      /\ [m EXCEPT !.array_needs_making = TRUE].temporary_env = m.temporary_env
      /\ [m EXCEPT !.array_needs_making = TRUE].array_needs_making = TRUE
      /\ [m EXCEPT !.array_needs_making = TRUE].export_env = m.export_env
  BY DEF Machines
<1> QED
  BY <1>2, <1>3 DEF Table

LEMMA PutIn ==
    ASSUME NEW K \in Shapes, NEW d \in Nat, NEW A, NEW m \in Machines(K, d, A),
           NEW i \in 0..Len(K), NEW n \in Names, NEW v \in VariablesAt(n, K, A, i),
           Table(m, i)[n] # <<>>
    PROVE  /\ Put(m, i, n, v) \in Machines(K, d, A)
           /\ Table(Put(m, i, n, v), i)[n] # <<>>
           /\ At(Put(m, i, n, v), i, n) = v
           /\ Put(m, i, n, v).array_needs_making = m.array_needs_making
<1> DEFINE vs == <<v>> \o Tail(Table(m, i)[n])
<1>1. Tail(Table(m, i)[n]) \in Seq(VariablesAt(n, K, A, i))
  BY ListType
<1>2. vs \in Seq(VariablesAt(n, K, A, i)) /\ vs # <<>> /\ vs[1] = v
  BY <1>1
<1>3. Put(m, i, n, v) = PutAll(m, i, n, vs)
  BY DEF Put
<1>4. Table(m, i) \in [Names -> Seq(Variable)]
  BY MachineParts DEF TablesAt
<1> HIDE DEF vs
<1>5. /\ Put(m, i, n, v) \in Machines(K, d, A)
      /\ Table(Put(m, i, n, v), i) = [Table(m, i) EXCEPT ![n] = vs]
      /\ \A j \in 0..Len(K) : j # i => Table(Put(m, i, n, v), j) = Table(m, j)
      /\ Put(m, i, n, v).array_needs_making = m.array_needs_making
  BY <1>2, <1>3, PutAllIn
<1> QED
  BY <1>2, <1>4, <1>5 DEF At, vs

LEMMA PutElsewhere ==
    ASSUME NEW K \in Shapes, NEW d \in Nat, NEW A, NEW m \in Machines(K, d, A),
           NEW i \in 0..Len(K), NEW n \in Names, NEW v \in VariablesAt(n, K, A, i),
           Table(m, i)[n] # <<>>, NEW j \in 0..Len(K), j # i
    PROVE  Table(Put(m, i, n, v), j) = Table(m, j)
<1> DEFINE vs == <<v>> \o Tail(Table(m, i)[n])
<1>1. Tail(Table(m, i)[n]) \in Seq(VariablesAt(n, K, A, i))
  BY ListType
<1>2. vs \in Seq(VariablesAt(n, K, A, i))
  BY <1>1
<1>3. Put(m, i, n, v) = PutAll(m, i, n, vs)
  BY DEF Put
<1> HIDE DEF vs
<1> QED
  BY <1>2, <1>3, PutAllIn

LEMMA InsertIn ==
    ASSUME NEW K \in Shapes, NEW d \in Nat, NEW A, NEW m \in Machines(K, d, A),
           NEW i \in 0..Len(K), NEW n \in Names, NEW v \in VariablesAt(n, K, A, i)
    PROVE  /\ Insert(m, i, n, v) \in Machines(K, d, A)
           /\ Table(Insert(m, i, n, v), i)[n] # <<>>
<1> DEFINE vs == <<v>> \o Table(m, i)[n]
<1>1. Table(m, i)[n] \in Seq(VariablesAt(n, K, A, i))
  BY ListType
<1>2. vs \in Seq(VariablesAt(n, K, A, i)) /\ vs # <<>> /\ vs[1] = v
  BY <1>1
<1>3. Insert(m, i, n, v) = PutAll(m, i, n, vs)
  BY DEF Insert
<1>4. Table(m, i) \in [Names -> Seq(Variable)]
  BY MachineParts DEF TablesAt
<1> HIDE DEF vs
<1>5. /\ Insert(m, i, n, v) \in Machines(K, d, A)
      /\ Table(Insert(m, i, n, v), i) = [Table(m, i) EXCEPT ![n] = vs]
      /\ \A j \in 0..Len(K) : j # i => Table(Insert(m, i, n, v), j) = Table(m, j)
  BY <1>2, <1>3, PutAllIn
<1> QED
  BY <1>2, <1>4, <1>5 DEF At, vs

------------------------------------------------------------------------------
(* Changing a variable where it is. *)

LEMMA SetIn ==
    ASSUME NEW K, NEW A \in SUBSET Attributes, NEW i, NEW n, NEW v \in VariablesAt(n, K, A, i),
           NEW as \in SUBSET Attributes, i = TempEnv => as \subseteq A,
           "invisible" \in as => ~Has(v, "tempvar") /\ "tempvar" \notin as,
           "tempvar" \in as => ~Has(v, "invisible")
    PROVE  Set(v, as) \in VariablesAt(n, K, A, i)
<1>1. v \in Variable
  BY VariablesAtType
<1>2. Set(v, as) \in Variable /\ Set(v, as).attributes = v.attributes \cup as
      /\ Set(v, as).name = v.name /\ Set(v, as).context = v.context
  BY <1>1 DEF Set, Variable, VariableRecord, Has
<1> QED
  BY <1>2 DEF VariablesAt, GivenVariables, ScopeVariables, Has, Handed

LEMMA ClearIn ==
    ASSUME NEW K, NEW A \in SUBSET Attributes, NEW i, NEW n, NEW v \in VariablesAt(n, K, A, i),
           NEW as, "local" \notin as, "tempvar" \notin as
    PROVE  Clear(v, as) \in VariablesAt(n, K, A, i)
<1>1. v \in Variable
  BY VariablesAtType
<1>2. Clear(v, as) \in Variable /\ Clear(v, as).attributes = v.attributes \ as
      /\ Clear(v, as).name = v.name /\ Clear(v, as).context = v.context
  BY <1>1 DEF Clear, Variable, VariableRecord, Has
<1> QED
  BY <1>2 DEF VariablesAt, GivenVariables, ScopeVariables, Has, Handed

LEMMA ValueIn ==
    ASSUME NEW K, NEW A \in SUBSET Attributes, NEW i, NEW n, NEW v \in VariablesAt(n, K, A, i),
           NEW val \in Strings, NEW str \in {NoValue, val}
    PROVE  [v EXCEPT !.value = val, !.exportstr = str] \in VariablesAt(n, K, A, i)
<1> DEFINE w == [v EXCEPT !.value = val, !.exportstr = str]
<1>1. v \in Variable
  BY VariablesAtType
<1>2. w \in Variable /\ w.attributes = v.attributes /\ w.name = v.name /\ w.context = v.context
  BY <1>1 DEF Variable, VariableRecord, Strings, Has
<1> QED
  BY <1>2 DEF VariablesAt, GivenVariables, ScopeVariables, Has, Handed

LEMMA BoundIn ==
    ASSUME NEW K, NEW A \in SUBSET Attributes, NEW i, NEW n, NEW v \in VariablesAt(n, K, A, i),
           NEW val \in Strings
    PROVE  Bound(v, val) \in VariablesAt(n, K, A, i)
<1>1. Clear(v, {"invisible"}) \in VariablesAt(n, K, A, i)
  BY ClearIn
<1>2. NoValue \in Strings
  BY DEF Strings
<1> QED
  BY <1>1, <1>2, ValueIn DEF Bound

------------------------------------------------------------------------------
(* Looking variables up, and assignments. *)

LEMMA LeastPlace ==
    ASSUME NEW T \in SUBSET Nat, T # {}
    PROVE  Min(T) \in T /\ \A x \in T : Min(T) <= x
<1>1. \E x \in T : \A y \in T : x <= y
  BY LeastNat
<1> QED
  BY <1>1 DEF Min

LEMMA LookupEnds ==
    ASSUME NEW K \in Shapes, NEW d \in Nat, NEW A, NEW m \in Machines(K, d, A), NEW n \in Names
    PROVE  \/ /\ VarLookup(m, n) = Nowhere
              /\ \A i \in 1..Len(K) : Table(m, i)[n] = <<>>
           \/ /\ VarLookup(m, n) \in 1..Len(K) /\ Table(m, VarLookup(m, n))[n] # <<>>
              /\ \A i \in 1..Len(K) : i < VarLookup(m, n) => Table(m, i)[n] = <<>>
<1> DEFINE holding == {i \in DOMAIN m.contexts : m.contexts[i].table[n] # <<>>}
<1>1. holding = {i \in 1..Len(K) : Table(m, i)[n] # <<>>}
  BY MachineParts, ShapeType DEF Table, TempEnv
<1>2. VarLookup(m, n) = IF holding = {} THEN Nowhere ELSE Min(holding)
  BY DEF VarLookup
<1> HIDE DEF holding
<1>3. CASE holding = {}
  BY <1>1, <1>2, <1>3
<1>4. CASE holding # {}
  <2>1. holding \in SUBSET Nat
    BY <1>1
  <2>2. Min(holding) \in holding /\ \A x \in holding : Min(holding) <= x
    BY <1>4, <2>1, LeastPlace
  <2>3. VarLookup(m, n) = Min(holding)
    BY <1>2, <1>4
  <2>4. VarLookup(m, n) \in holding /\ \A x \in holding : VarLookup(m, n) <= x
    BY <2>2, <2>3
  <2>5. VarLookup(m, n) \in 1..Len(K) /\ Table(m, VarLookup(m, n))[n] # <<>>
    BY <1>1, <2>4
  <2>6. ASSUME NEW i \in 1..Len(K), i < VarLookup(m, n)
        PROVE  Table(m, i)[n] = <<>>
    <3>1. i \notin holding
      BY <2>4, <2>5, <2>6, ShapeType
    <3> QED
      BY <1>1, <3>1
  <2> QED
    BY <2>5, <2>6
<1> QED
  BY <1>3, <1>4

LEMMA FindEnds ==
    ASSUME NEW K \in Shapes, NEW d \in Nat, NEW A, NEW m \in Machines(K, d, A), NEW n \in Names
    PROVE  \/ /\ FindVariable(m, n) = Nowhere
              /\ \A i \in 0..Len(K) : Table(m, i)[n] = <<>>
           \/ /\ FindVariable(m, n) \in 0..Len(K) /\ Table(m, FindVariable(m, n))[n] # <<>>
              /\ \A i \in 0..Len(K) : i < FindVariable(m, n) => Table(m, i)[n] = <<>>
<1>1. Table(m, 0) = m.temporary_env /\ Len(K) \in Nat
  BY ShapeType DEF Table, TempEnv
<1> QED
  BY <1>1, LookupEnds DEF FindVariable, TempEnv, Nowhere

First(vs, n) == IF vs = <<>> THEN NewVariable(n) ELSE vs[1]
Rest(vs) == IF vs = <<>> THEN <<>> ELSE Tail(vs)

(* What bind_variable_internal makes of the variables of a name. *)
BoundList(vs, n, val) == <<Bound(First(vs, n), val)>> \o Rest(vs)

LEMMA BoundNew ==
    ASSUME NEW n, NEW val
    PROVE  BoundList(<<>>, n, val)[1].attributes = {}
<1>1. Bound(NewVariable(n), val).attributes = {}
  BY DEF Bound, Clear, NewVariable
<1> QED
  BY <1>1 DEF BoundList, First, Rest

LEMMA BindIs ==
    ASSUME NEW K \in Shapes, NEW d \in Nat, NEW A, NEW m \in Machines(K, d, A),
           NEW i \in 0..Len(K), NEW n \in Names, NEW val
    PROVE  BindInternal(m, i, n, val)
             = Flag(PutAll(m, i, n, BoundList(Table(m, i)[n], n, val)),
                    Has(Bound(First(Table(m, i)[n], n), val), "exported"))
<1> DEFINE vs == Table(m, i)[n]
           m1 == IF vs = <<>> THEN Insert(m, i, n, NewVariable(n)) ELSE m
           v  == Bound(At(m1, i, n), val)
<1>1. BindInternal(m, i, n, val) = Flag(Put(m1, i, n, v), Has(v, "exported"))
  BY DEF BindInternal
<1>2. CASE vs = <<>>
  <2>1. <<NewVariable(n)>> \o vs = <<NewVariable(n)>>
    BY <1>2
  <2>2. m1 = PutAll(m, i, n, <<NewVariable(n)>>)
    BY <1>2, <2>1 DEF Insert
  <2>3. Table(m1, i)[n] = <<NewVariable(n)>>
    BY <2>2, PutAllTwice
  <2> HIDE DEF m1
  <2>4. At(m1, i, n) = NewVariable(n)
    BY <2>3 DEF At
  <2>5. Tail(Table(m1, i)[n]) = <<>>
    BY <2>3
  <2> HIDE DEF v
  <2>6. Put(m1, i, n, v) = PutAll(m1, i, n, <<v>> \o <<>>)
    BY <2>5 DEF Put
  <2>7. Put(m1, i, n, v) = PutAll(m, i, n, <<v>> \o <<>>)
    BY <2>2, <2>6, PutAllTwice
  <2> QED
    BY <1>1, <1>2, <2>4, <2>7 DEF BoundList, First, Rest, v
<1>3. CASE vs # <<>>
  BY <1>1, <1>3 DEF BoundList, First, Rest, At, Put
<1> QED
  BY <1>2, <1>3

LEMMA BoundListIn ==
    ASSUME NEW K \in Shapes, NEW d \in Nat, NEW A \in SUBSET Attributes,
           NEW m \in Machines(K, d, A), NEW i \in 1..Len(K), NEW n \in Names, NEW val \in Strings,
           Table(m, i)[n] # <<>> \/ i = Len(K)
    PROVE  /\ BoundList(Table(m, i)[n], n, val) \in Seq(VariablesAt(n, K, A, i))
           /\ BoundList(Table(m, i)[n], n, val) # <<>>
<1> DEFINE vs == Table(m, i)[n]
<1>0. i \in 0..Len(K) /\ i # TempEnv
  BY ShapeType DEF TempEnv
<1>1. vs \in Seq(VariablesAt(n, K, A, i)) /\ (vs # <<>> => vs[1] \in VariablesAt(n, K, A, i))
  BY <1>0, ListType DEF At
<1>2. vs = <<>> => NewVariable(n) \in VariablesAt(n, K, A, i)
  BY <1>0, ShapeType DEF VariablesAt, ScopeVariables, NewVariable, Variable, VariableRecord, Has, Strings
<1>3. Bound(First(vs, n), val) \in VariablesAt(n, K, A, i)
  BY <1>1, <1>2, BoundIn DEF First
<1>4. Rest(vs) \in Seq(VariablesAt(n, K, A, i))
  BY <1>1 DEF Rest
<1> QED
  BY <1>3, <1>4 DEF BoundList

(* A binding where the variable is, or of a new global one. *)
LEMMA BindIn ==
    ASSUME NEW K \in Shapes, NEW d \in Nat, NEW A \in SUBSET Attributes,
           NEW m \in Machines(K, d, A), NEW i \in 1..Len(K), NEW n \in Names, NEW val \in Strings,
           Table(m, i)[n] # <<>> \/ i = Len(K)
    PROVE  /\ BindInternal(m, i, n, val) \in Machines(K, d, A)
           /\ \A x \in Names : x # n =>
                Table(BindInternal(m, i, n, val), i)[x] = Table(m, i)[x]
           /\ Table(BindInternal(m, i, n, val), i)[n] # <<>>
           /\ Table(BindInternal(m, i, n, val), i)[n] = BoundList(Table(m, i)[n], n, val)
           /\ \A j \in 0..Len(K) : j # i => Table(BindInternal(m, i, n, val), j) = Table(m, j)
           /\ m.array_needs_making => BindInternal(m, i, n, val).array_needs_making
           /\ BindInternal(m, i, n, val).export_env = m.export_env
<1> DEFINE vs == Table(m, i)[n]
<1>0. i \in 0..Len(K) /\ i # TempEnv
  BY ShapeType DEF TempEnv
<1>5. BoundList(vs, n, val) \in Seq(VariablesAt(n, K, A, i)) /\ BoundList(vs, n, val) # <<>>
  BY BoundListIn
<1>6. PutAll(m, i, n, BoundList(vs, n, val)) \in Machines(K, d, A)
      /\ Table(PutAll(m, i, n, BoundList(vs, n, val)), i)
           = [Table(m, i) EXCEPT ![n] = BoundList(vs, n, val)]
      /\ \A j \in 0..Len(K) : j # i =>
            Table(PutAll(m, i, n, BoundList(vs, n, val)), j) = Table(m, j)
      /\ PutAll(m, i, n, BoundList(vs, n, val)).array_needs_making = m.array_needs_making
      /\ PutAll(m, i, n, BoundList(vs, n, val)).export_env = m.export_env
  BY <1>0, <1>5, PutAllIn
<1>7. BindInternal(m, i, n, val)
        = Flag(PutAll(m, i, n, BoundList(vs, n, val)), Has(Bound(First(vs, n), val), "exported"))
  BY <1>0, BindIs
<1>8. Has(Bound(First(vs, n), val), "exported") \in BOOLEAN
  BY DEF Has
<1>9. Table(m, i) \in [Names -> Seq(Variable)]
  BY <1>0, MachineParts DEF TablesAt
<1>11. /\ [Table(m, i) EXCEPT ![n] = BoundList(vs, n, val)][n] = BoundList(vs, n, val)
       /\ \A x \in Names : x # n =>
            [Table(m, i) EXCEPT ![n] = BoundList(vs, n, val)][x] = Table(m, i)[x]
  BY <1>9
<1> DEFINE b == PutAll(m, i, n, BoundList(vs, n, val))
<1>12. /\ b \in Machines(K, d, A)
       /\ Table(b, i)[n] = BoundList(vs, n, val)
       /\ \A x \in Names : x # n => Table(b, i)[x] = Table(m, i)[x]
       /\ Table(b, i)[n] # <<>>
       /\ \A j \in 0..Len(K) : j # i => Table(b, j) = Table(m, j)
       /\ b.array_needs_making = m.array_needs_making /\ b.export_env = m.export_env
  BY <1>5, <1>6, <1>11
<1> DEFINE h == Has(Bound(First(vs, n), val), "exported")
<1>13. BindInternal(m, i, n, val) = Flag(b, h) /\ h \in BOOLEAN
  BY <1>7, <1>8
<1> HIDE DEF b, h
<1>14. b \in Machines(K, d, A) /\ h \in BOOLEAN
  BY <1>12, <1>13
<1>15. Flag(b, h).array_needs_making = (b.array_needs_making \/ h)
  BY <1>14, FlagIn
<1>16. /\ Flag(b, h) \in Machines(K, d, A)
       /\ Flag(b, h).export_env = b.export_env
       /\ \A j \in 0..Len(K) : Table(Flag(b, h), j) = Table(b, j)
  BY <1>14, FlagIn
<1>17. m.array_needs_making => Flag(b, h).array_needs_making
  BY <1>12, <1>15, Zenon
<1> QED
  BY <1>0, <1>12, <1>13, <1>16, <1>17

LEMMA BindTempenvIn ==
    ASSUME NEW K \in Shapes, NEW d \in Nat, NEW A \in SUBSET Attributes,
           NEW m \in Machines(K, d, A), NEW n \in Names, NEW val \in Strings
    PROVE  /\ BindTempenv(m, n, val) \in Machines(K, d, A)
           /\ \A j \in 1..Len(K) : Table(BindTempenv(m, n, val), j) = Table(m, j)
           /\ BindTempenv(m, n, val).array_needs_making = m.array_needs_making
           /\ BindTempenv(m, n, val).export_env = m.export_env
<1>1. Table(m, 0) = m.temporary_env /\ 0 \in 0..Len(K) /\ Len(K) \in Nat /\ TempEnv = 0
  BY ShapeType DEF Table, TempEnv
<1>2. CASE m.temporary_env[n] = <<>> \/ val = NoValue
  BY <1>2 DEF BindTempenv
<1>3. CASE ~(m.temporary_env[n] = <<>> \/ val = NoValue)
  <2> DEFINE v == [At(m, 0, n) EXCEPT !.value = val, !.exportstr = NoValue]
             vs == <<v>> \o Tail(Table(m, 0)[n])
  <2>1. Table(m, 0)[n] # <<>> /\ At(m, 0, n) \in VariablesAt(n, K, A, 0)
    BY <1>1, <1>3, ListType
  <2>2. v \in VariablesAt(n, K, A, 0)
    BY <2>1, ValueIn DEF Strings
  <2>3. BindTempenv(m, n, val) = PutAll(m, 0, n, vs)
    BY <1>1, <1>3 DEF BindTempenv, Put
  <2>4. Tail(Table(m, 0)[n]) \in Seq(VariablesAt(n, K, A, 0))
    BY <1>1, <2>1, ListType
  <2>5. vs \in Seq(VariablesAt(n, K, A, 0))
    BY <2>2, <2>4
  <2> HIDE DEF vs, v
  <2>6. /\ PutAll(m, 0, n, vs) \in Machines(K, d, A)
        /\ \A j \in 0..Len(K) : j # 0 => Table(PutAll(m, 0, n, vs), j) = Table(m, j)
        /\ PutAll(m, 0, n, vs).array_needs_making = m.array_needs_making
        /\ PutAll(m, 0, n, vs).export_env = m.export_env
    BY <1>1, <2>5, PutAllIn
  <2> QED
    BY <1>1, <2>3, <2>6
<1> QED
  BY <1>2, <1>3

LEMMA TargetIsPlace ==
    ASSUME NEW K \in Shapes, NEW d \in Nat, NEW A, NEW m \in Machines(K, d, A), NEW n \in Names
    PROVE  /\ Target(m, n) \in 1..Len(K)
           /\ Table(m, Target(m, n))[n] # <<>> \/ Target(m, n) = Len(K)
           /\ (\E i \in 1..Len(K) : Table(m, i)[n] # <<>>) => Table(m, Target(m, n))[n] # <<>>
<1>1. Global(m) = Len(K) /\ Len(K) \in Nat \ {0}
  BY MachineParts, ShapeType
<1> QED
  BY <1>1, LookupEnds DEF Target, Nowhere

LEMMA BindVariableIn ==
    ASSUME NEW K \in Shapes, NEW d \in Nat, NEW A \in SUBSET Attributes,
           NEW m \in Machines(K, d, A), NEW n \in Names, NEW val \in Strings
    PROVE  /\ BindVariable(m, n, val) \in Machines(K, d, A)
           /\ Target(BindVariable(m, n, val), n) \in 1..Len(K)
           /\ Table(BindVariable(m, n, val), Target(BindVariable(m, n, val), n))[n] # <<>>
           /\ VarLookup(m, n) = Nowhere =>
                /\ Table(BindVariable(m, n, val), Len(K))[n] # <<>>
                /\ At(BindVariable(m, n, val), Len(K), n).attributes = {}
           /\ m.array_needs_making => BindVariable(m, n, val).array_needs_making
<1> DEFINE t == BindTempenv(m, n, val)
           i == Target(m, n)
<1>1. /\ t \in Machines(K, d, A) /\ t.array_needs_making = m.array_needs_making
      /\ \A j \in 1..Len(K) : Table(t, j) = Table(m, j)
  BY BindTempenvIn
<1>2. i \in 1..Len(K) /\ (Table(m, i)[n] # <<>> \/ i = Len(K))
  BY TargetIsPlace
<1>3. Table(t, i)[n] # <<>> \/ i = Len(K)
  BY <1>1, <1>2
<1>4. BindVariable(m, n, val) = BindInternal(t, i, n, val)
  BY DEF BindVariable
<1> HIDE DEF t
<1>5. /\ BindVariable(m, n, val) \in Machines(K, d, A) /\ Table(BindVariable(m, n, val), i)[n] # <<>>
      /\ Table(BindVariable(m, n, val), i)[n] = BoundList(Table(t, i)[n], n, val)
      /\ t.array_needs_making => BindVariable(m, n, val).array_needs_making
  BY <1>1, <1>2, <1>3, <1>4, BindIn
<1>6. VarLookup(m, n) = Nowhere => i = Len(K)
  BY MachineParts DEF Target
<1>7. VarLookup(m, n) = Nowhere => Table(t, i)[n] = <<>>
  BY <1>1, <1>2, LookupEnds, ShapeType DEF Nowhere
<1>8. VarLookup(m, n) = Nowhere => At(BindVariable(m, n, val), i, n).attributes = {}
  BY <1>5, <1>7, BoundNew DEF At
<1> QED
  BY <1>1, <1>2, <1>5, <1>6, <1>8, TargetIsPlace

LEMMA OneElement ==
    \A x : <<x>> \o <<>> = <<x>> /\ Tail(<<x>>) = <<>> /\ <<x>>[1] = x /\ <<x>> # <<>>
  OBVIOUS

LEMMA AssignInEnvIn ==
    ASSUME NEW K \in Shapes, NEW d \in Nat, NEW A \in SUBSET Attributes,
           {"exported", "tempvar"} \subseteq A,
           NEW m \in Machines(K, d, A), NEW n \in Names, NEW val \in Strings
    PROVE  /\ AssignInEnv(m, n, val) \in Machines(K, d, A)
           /\ AssignInEnv(m, n, val).array_needs_making
<1> DEFINE vs == Table(m, 0)[n]
           m1 == IF m.temporary_env[n] = <<>> THEN Insert(m, TempEnv, n, NewVariable(n)) ELSE m
           w(v) == [Set(v, {"exported", "tempvar"}) EXCEPT
                      !.value = val, !.exportstr = val, !.context = m.variable_context]
<1>0. 0 \in 0..Len(K) /\ TempEnv = 0 /\ m.temporary_env[n] = vs
  BY ShapeType DEF TempEnv, Table
<1>1. vs \in Seq(VariablesAt(n, K, A, 0)) /\ (vs # <<>> => vs[1] \in VariablesAt(n, K, A, 0))
  BY <1>0, ListType DEF At
<1>2. AssignInEnv(m, n, val) = Flag(Put(m1, 0, n, w(At(m1, 0, n))), TRUE)
  BY <1>0 DEF AssignInEnv
<1>3. /\ First(vs, n) \in Variable /\ First(vs, n).name = n /\ First(vs, n).attributes \subseteq A
      /\ ~Has(First(vs, n), "invisible")
  <2>1. CASE vs = <<>>
    BY <2>1 DEF First, NewVariable, Variable, VariableRecord, Has, Strings
  <2>2. CASE vs # <<>>
    BY <1>1, <2>2, <1>0 DEF First, VariablesAt, GivenVariables, Variable
  <2> QED
    BY <2>1, <2>2
<1>4. w(First(vs, n)) \in VariablesAt(n, K, A, 0)
  <2> DEFINE u == w(First(vs, n))
  <2>1. m.variable_context = d
    BY MachineParts
  <2>2. u \in Variable /\ u.name = n
        /\ u.attributes = First(vs, n).attributes \cup {"exported", "tempvar"}
    BY <1>3, <2>1 DEF Set, Variable, VariableRecord, Has
  <2> HIDE DEF u
  <2>3. u \in VariablesAt(n, K, A, 0)
    BY <1>0, <1>3, <2>2 DEF VariablesAt, GivenVariables, Has
  <2> QED
    BY <2>3 DEF u
<1>5. Rest(vs) \in Seq(VariablesAt(n, K, A, 0))
  BY <1>1 DEF Rest
<1>6. Put(m1, 0, n, w(At(m1, 0, n))) = PutAll(m, 0, n, <<w(First(vs, n))>> \o Rest(vs))
  <2> HIDE DEF w
  <2>1. CASE vs = <<>>
    <3>1. m1 = PutAll(m, 0, n, <<NewVariable(n)>> \o vs)
      BY <1>0, <2>1 DEF Insert
    <3>2. <<NewVariable(n)>> \o vs = <<NewVariable(n)>>
      BY <2>1, OneElement
    <3> HIDE DEF m1, vs
    <3>3. Table(m1, 0)[n] = <<NewVariable(n)>>
      <4>1. Table(PutAll(m, 0, n, <<NewVariable(n)>>), 0)[n] = <<NewVariable(n)>>
        BY <1>0, PutAllTwice
      <4> QED
        BY <3>1, <3>2, <4>1
    <3>4. At(m1, 0, n) = NewVariable(n)
      BY <3>3 DEF At
    <3>5. Tail(Table(m1, 0)[n]) = <<>>
      BY <3>3, OneElement
    <3>6. Put(m1, 0, n, w(NewVariable(n))) = PutAll(m1, 0, n, <<w(NewVariable(n))>> \o <<>>)
      BY <3>5 DEF Put
    <3>7. PutAll(m1, 0, n, <<w(NewVariable(n))>> \o <<>>)
            = PutAll(m, 0, n, <<w(NewVariable(n))>> \o <<>>)
      BY <1>0, <3>1, PutAllTwice
    <3> QED
      BY <2>1, <3>4, <3>6, <3>7 DEF First, Rest
  <2>2. CASE vs # <<>>
    BY <1>0, <2>2 DEF First, Rest, At, Put
  <2> QED
    BY <2>1, <2>2
<1> HIDE DEF w, m1
<1> DEFINE ws == <<w(First(vs, n))>> \o Rest(vs)
<1>7. ws \in Seq(VariablesAt(n, K, A, 0))
  BY <1>4, <1>5
<1> HIDE DEF ws
<1>8. PutAll(m, 0, n, ws) \in Machines(K, d, A)
  BY <1>0, <1>7, PutAllIn
<1> QED
  <2> DEFINE p == PutAll(m, 0, n, ws)
  <2>1. AssignInEnv(m, n, val) = Flag(p, TRUE)
    BY <1>2, <1>6 DEF ws
  <2> HIDE DEF p
  <2>2. Flag(p, TRUE) \in Machines(K, d, A) /\ Flag(p, TRUE).array_needs_making
    BY <1>8, FlagTrueIn DEF p
  <2> QED
    BY <2>1, <2>2

------------------------------------------------------------------------------
(* Making the environment of commands. *)

LEMMA ListOf ==
    ASSUME NEW n \in Nat, NEW S, NEW f \in [1..n -> S]
    PROVE  f \in Seq(S) /\ Len(f) = n
<1>1. f \in Seq(S)
  BY SeqDef
<1> QED
  BY <1>1

Eligible(m, n, i) == {j \in DOMAIN Table(m, i)[n] : Candidate(Table(m, i)[n][j])}

LEMMA ExportingEnds ==
    ASSUME NEW K \in Shapes, NEW d \in Nat, NEW A, NEW m \in Machines(K, d, A), NEW n \in Names
    PROVE  \/ /\ Exporting(m, n) = <<>>
              /\ \A i \in 0..Len(K) : Eligible(m, n, i) = {}
           \/ \E i \in 0..Len(K) : \E j \in Eligible(m, n, i) :
                /\ Exporting(m, n) = <<i, j>>
                /\ \A k \in 0..Len(K) : k < i => Eligible(m, n, k) = {}
                /\ \A k \in Eligible(m, n, i) : j <= k
<1> DEFINE places == {i \in 0..Len(K) : Eligible(m, n, i) # {}}
<1>0. Len(K) \in Nat /\ Global(m) = Len(K)
  BY ShapeType, MachineParts
<1>1. Exporting(m, n) = IF places = {} THEN <<>>
                        ELSE <<Min(places), Min(Eligible(m, n, Min(places)))>>
  BY <1>0 DEF Exporting, Eligible
<1>2. CASE places = {}
  BY <1>1, <1>2
<1>3. CASE places # {}
  <2> DEFINE i == Min(places)
             j == Min(Eligible(m, n, i))
  <2>1. places \in SUBSET Nat
    BY <1>0
  <2>2. i \in places /\ \A x \in places : i <= x
    BY <1>3, <2>1, LeastPlace
  <2>3. \A k \in 0..Len(K) : Eligible(m, n, k) \in SUBSET Nat
    <3>1. ASSUME NEW k \in 0..Len(K)
          PROVE  Eligible(m, n, k) \in SUBSET Nat
      <4>1. Table(m, k)[n] \in Seq(VariablesAt(n, K, A, k))
        BY ListType
      <4> QED
        BY <4>1 DEF Eligible
    <3> QED
      BY <3>1
  <2>4. Eligible(m, n, i) \in SUBSET Nat /\ Eligible(m, n, i) # {}
    BY <2>2, <2>3
  <2>5. j \in Eligible(m, n, i) /\ \A k \in Eligible(m, n, i) : j <= k
    BY <2>2, <2>4, LeastPlace
  <2> HIDE DEF places
  <2>6. Exporting(m, n) = <<i, j>>
    BY <1>1, <1>3
  <2> HIDE DEF i, j
  <2>7. i \in 0..Len(K) /\ \A k \in 0..Len(K) : k < i => Eligible(m, n, k) = {}
    BY <1>0, <2>2 DEF places
  <2> QED
    BY <2>5, <2>6, <2>7
<1> QED
  BY <1>2, <1>3

LEMMA CachedIn ==
    ASSUME NEW K \in Shapes, NEW d \in Nat, NEW A \in SUBSET Attributes,
           NEW m \in Machines(K, d, A), NEW i \in 0..Len(K)
    PROVE  /\ Cached(m, i) \in TablesAt(K, A, i)
           /\ \A n \in Names :
                /\ Len(Cached(m, i)[n]) = Len(Table(m, i)[n])
                /\ \A j \in 1..Len(Table(m, i)[n]) :
                     Cached(m, i)[n][j]
                       = IF Exporting(m, n) = <<i, j>>
                         THEN [Table(m, i)[n][j] EXCEPT !.exportstr = ExportString(Table(m, i)[n][j])]
                         ELSE Table(m, i)[n][j]
<1> DEFINE w(n, j) == IF Exporting(m, n) = <<i, j>>
                      THEN [Table(m, i)[n][j] EXCEPT !.exportstr = ExportString(Table(m, i)[n][j])]
                      ELSE Table(m, i)[n][j]
           c(n) == [j \in DOMAIN Table(m, i)[n] |-> w(n, j)]
<1>1. Cached(m, i) = [n \in Names |-> c(n)]
  BY DEF Cached
<1>2. ASSUME NEW n \in Names
      PROVE  c(n) \in Seq(VariablesAt(n, K, A, i)) /\ Len(c(n)) = Len(Table(m, i)[n])
             /\ \A j \in 1..Len(Table(m, i)[n]) : c(n)[j] = w(n, j)
  <2>1. Table(m, i)[n] \in Seq(VariablesAt(n, K, A, i))
    BY ListType
  <2>2. ASSUME NEW j \in 1..Len(Table(m, i)[n])
        PROVE  w(n, j) \in VariablesAt(n, K, A, i)
    <3> DEFINE v == Table(m, i)[n][j]
    <3>1. v \in VariablesAt(n, K, A, i)
      BY <2>1
    <3>2. v \in Variable
      BY <3>1, VariablesAtType
    <3>3. ExportString(v) \in {NoValue, v.value} /\ v.value \in Strings
          /\ [v EXCEPT !.exportstr = ExportString(v)]
               = [v EXCEPT !.value = v.value, !.exportstr = ExportString(v)]
      BY <3>2 DEF ExportString, Variable, VariableRecord, Has
    <3> HIDE DEF v
    <3>4. [v EXCEPT !.exportstr = ExportString(v)] \in VariablesAt(n, K, A, i)
      BY <3>1, <3>3, ValueIn
    <3> QED
      BY <3>1, <3>4 DEF v
  <2> HIDE DEF w
  <2>3. c(n) \in [1..Len(Table(m, i)[n]) -> VariablesAt(n, K, A, i)]
        /\ Len(Table(m, i)[n]) \in Nat
    BY <2>1, <2>2
  <2>4. \A j \in 1..Len(Table(m, i)[n]) : c(n)[j] = w(n, j)
    BY <2>1
  <2> HIDE DEF c
  <2> QED
    BY <2>3, <2>4, ListOf
<1> HIDE DEF c, w
<1>3. \A n \in Names : c(n) \in Seq(Variable)
  BY <1>2, VariablesAtType
<1> QED
  BY <1>1, <1>2, <1>3 DEF TablesAt, w

LEMMA MakeExportEnvIn ==
    ASSUME NEW K \in Shapes, NEW d \in Nat, NEW A \in SUBSET Attributes,
           NEW m \in Machines(K, d, A)
    PROVE  /\ MakeExportEnv(m) \in Machines(K, d, A)
           /\ \A i \in 0..Len(K) : Table(MakeExportEnv(m), i) = Cached(m, i)
           /\ MakeExportEnv(m).array_needs_making = FALSE
           /\ \A n \in Names : MakeExportEnv(m).export_env[n]
                = IF Exporting(m, n) = <<>> THEN NoValue
                  ELSE ExportString(Table(m, Exporting(m, n)[1])[n][Exporting(m, n)[2]])
<1> DEFINE env == [n \in Names |->
                     LET e == Exporting(m, n)
                     IN  IF e = <<>> THEN NoValue ELSE ExportString(Table(m, e[1])[n][e[2]])]
           cs == [i \in DOMAIN m.contexts |-> [m.contexts[i] EXCEPT !.table = Cached(m, i)]]
<1>0. Len(K) \in Nat \ {0} /\ TempEnv = 0
  BY ShapeType DEF TempEnv
<1>1. env \in [Names -> Strings]
  <2>1. ASSUME NEW n \in Names, Exporting(m, n) # <<>>
        PROVE  ExportString(Table(m, Exporting(m, n)[1])[n][Exporting(m, n)[2]]) \in Strings
    <3>1. PICK i \in 0..Len(K) : \E j \in Eligible(m, n, i) : Exporting(m, n) = <<i, j>>
      BY <2>1, ExportingEnds
    <3>2. PICK j \in Eligible(m, n, i) : Exporting(m, n) = <<i, j>>
      BY <3>1
    <3>3. Table(m, i)[n] \in Seq(VariablesAt(n, K, A, i))
      BY ListType
    <3>4. j \in 1..Len(Table(m, i)[n])
      BY <3>2, <3>3 DEF Eligible
    <3>5. Table(m, i)[n][j] \in Variable
      BY <3>3, <3>4, VariablesAtType
    <3> QED
      BY <3>2, <3>5 DEF ExportString, Variable, VariableRecord, Has
  <2> QED
    BY <2>1 DEF Strings
<1>2. <<>> \o cs = cs /\ cs \in ContextsOf(K, A)
  <2>1. DOMAIN m.contexts = 1..Len(K)
    BY MachineParts
  <2>2. ASSUME NEW i \in 1..Len(K)
        PROVE  [m.contexts[i] EXCEPT !.table = Cached(m, i)] \in ContextAt(K, A, i) \cap Context
    <3>1. m.contexts[i] \in ContextAt(K, A, i)
      BY MachineParts
    <3>2. Cached(m, i) \in TablesAt(K, A, i)
      BY <1>0, CachedIn
    <3>3. m.contexts \in Seq(Context) /\ Len(m.contexts) = Len(K)
      BY DEF Machines, ContextsOf
    <3>4. m.contexts[i] \in Context /\ Cached(m, i) \in [Names -> Seq(Variable)]
      BY <3>2, <3>3 DEF TablesAt
    <3>5. [m.contexts[i] EXCEPT !.table = Cached(m, i)] \in ContextAt(K, A, i)
      BY <3>1, <3>2 DEF ContextAt
    <3>6. [m.contexts[i] EXCEPT !.table = Cached(m, i)] \in Context
      BY <3>4 DEF Context
    <3> QED
      BY <3>5, <3>6
  <2>3. cs \in [1..Len(K) -> Context] /\ \A i \in 1..Len(K) : cs[i] \in ContextAt(K, A, i)
    BY <2>1, <2>2
  <2> HIDE DEF cs
  <2>4. cs \in Seq(Context) /\ Len(cs) = Len(K)
    BY <1>0, <2>3, ListOf
  <2> QED
    BY <2>3, <2>4, ConcatEmptySeq DEF ContextsOf
<1>3. Cached(m, TempEnv) \in TablesAt(K, A, TempEnv)
  BY <1>0, CachedIn
<1>4. MakeExportEnv(m) = [m EXCEPT !.export_env = env, !.contexts = cs,
                            !.temporary_env = Cached(m, TempEnv), !.array_needs_making = FALSE]
  BY <1>2 DEF MakeExportEnv
<1>5. \A i \in 1..Len(K) : cs[i].table = Cached(m, i)
  <2>1. DOMAIN m.contexts = 1..Len(K) /\ \A i \in 1..Len(K) : m.contexts[i] \in ContextAt(K, A, i)
    BY MachineParts
  <2> QED
    BY <2>1 DEF ContextAt
<1> HIDE DEF cs
<1>6. /\ MakeExportEnv(m) \in Machines(K, d, A)
      /\ MakeExportEnv(m).contexts = cs /\ MakeExportEnv(m).temporary_env = Cached(m, TempEnv)
      /\ MakeExportEnv(m).array_needs_making = FALSE
      /\ MakeExportEnv(m).export_env = env
  <2> HIDE DEF env
  <2> QED
    BY <1>1, <1>2, <1>3, <1>4 DEF Machines
<1>7. \A n \in Names : env[n]
        = IF Exporting(m, n) = <<>> THEN NoValue
          ELSE ExportString(Table(m, Exporting(m, n)[1])[n][Exporting(m, n)[2]])
  OBVIOUS
<1> HIDE DEF env
<1> QED
  BY <1>0, <1>5, <1>6, <1>7 DEF Table

LEMMA MaybeMakeIn ==
    ASSUME NEW K \in Shapes, NEW d \in Nat, NEW A \in SUBSET Attributes,
           NEW m \in Machines(K, d, A)
    PROVE  MaybeMakeExportEnv(m) \in Machines(K, d, A)
  BY MakeExportEnvIn DEF MaybeMakeExportEnv

------------------------------------------------------------------------------
(* What commands are given: the value that a list of variables offers to   *)
(* the environment is that of its first candidate.                         *)

Offering(vs, j) == Candidate(vs[j]) /\ \A l \in 1..(j - 1) : ~Candidate(vs[l])
Offers(vs) == {vs[j].value : j \in {k \in DOMAIN vs : Offering(vs, k)}}

LEMMA OffersNothing ==
    Offers(<<>>) = {}
  BY DEF Offers

LEMMA OffersFirst ==
    ASSUME NEW S, NEW vs \in Seq(S), NEW v
    PROVE  Offers(<<v>> \o vs) = IF Candidate(v) THEN {v.value} ELSE Offers(vs)
<1> DEFINE ws == <<v>> \o vs
<1>1. /\ Len(vs) \in Nat /\ DOMAIN vs = 1..Len(vs) /\ DOMAIN ws = 1..(Len(vs) + 1)
      /\ ws[1] = v /\ \A j \in 1..Len(vs) : ws[j + 1] = vs[j]
  OBVIOUS
<1> HIDE DEF ws
<1>2. CASE Candidate(v)
  <2>1. 1 \in DOMAIN ws /\ Offering(ws, 1)
    BY <1>1, <1>2 DEF Offering
  <2>2. \A k \in DOMAIN ws : Offering(ws, k) => k = 1
    <3>1. ASSUME NEW k \in DOMAIN ws, Offering(ws, k), k # 1
          PROVE  FALSE
      <4>1. 1 \in 1..(k - 1)
        BY <1>1, <3>1
      <4> QED
        BY <1>1, <1>2, <3>1, <4>1 DEF Offering
    <3> QED
      BY <3>1
  <2>3. Offers(ws) = {ws[1].value}
    BY <2>1, <2>2 DEF Offers
  <2> QED
    BY <1>1, <1>2, <2>3 DEF ws
<1>3. CASE ~Candidate(v)
  <2>1. ASSUME NEW j \in 1..Len(vs)
        PROVE  Offering(ws, j + 1) <=> Offering(vs, j)
    <3>1. Candidate(ws[j + 1]) <=> Candidate(vs[j])
      BY <1>1
    <3>2. ASSUME \A l \in 1..(j - 1) : ~Candidate(vs[l])
          PROVE  \A l \in 1..((j + 1) - 1) : ~Candidate(ws[l])
      <4>1. ASSUME NEW l \in 1..((j + 1) - 1)
            PROVE  ~Candidate(ws[l])
        <5>1. CASE l = 1
          BY <1>1, <1>3, <5>1
        <5>2. CASE l # 1
          <6>1. l - 1 \in 1..(j - 1) /\ l - 1 \in 1..Len(vs) /\ (l - 1) + 1 = l
            BY <1>1, <5>2
          <6> QED
            BY <1>1, <3>2, <6>1
        <5> QED
          BY <5>1, <5>2
      <4> QED
        BY <4>1
    <3>3. ASSUME \A l \in 1..((j + 1) - 1) : ~Candidate(ws[l])
          PROVE  \A l \in 1..(j - 1) : ~Candidate(vs[l])
      <4>1. ASSUME NEW l \in 1..(j - 1)
            PROVE  ~Candidate(vs[l])
        <5>1. l + 1 \in 1..((j + 1) - 1) /\ l \in 1..Len(vs)
          BY <1>1
        <5> QED
          BY <1>1, <3>3, <5>1
      <4> QED
        BY <4>1
    <3> QED
      BY <3>1, <3>2, <3>3 DEF Offering
  <2>2. ~Offering(ws, 1)
    BY <1>1, <1>3 DEF Offering
  <2>3. ASSUME NEW x
        PROVE  x \in Offers(ws) <=> x \in Offers(vs)
    <3>1. ASSUME x \in Offers(vs)
          PROVE  x \in Offers(ws)
      <4>1. PICK j \in 1..Len(vs) : Offering(vs, j) /\ x = vs[j].value
        BY <1>1, <3>1 DEF Offers
      <4>2. j + 1 \in DOMAIN ws /\ Offering(ws, j + 1) /\ x = ws[j + 1].value
        BY <1>1, <2>1, <4>1
      <4> QED
        BY <4>2 DEF Offers
    <3>2. ASSUME x \in Offers(ws)
          PROVE  x \in Offers(vs)
      <4>1. PICK k \in DOMAIN ws : Offering(ws, k) /\ x = ws[k].value
        BY <3>2 DEF Offers
      <4>2. k - 1 \in 1..Len(vs) /\ (k - 1) + 1 = k
        BY <1>1, <2>2, <4>1
      <4>3. k - 1 \in DOMAIN vs /\ Offering(vs, k - 1) /\ x = vs[k - 1].value
        BY <1>1, <2>1, <4>1, <4>2
      <4> QED
        BY <4>3 DEF Offers
    <3> QED
      BY <3>1, <3>2
  <2>4. Offers(ws) = Offers(vs)
    BY <2>3
  <2> QED
    BY <1>3, <2>4 DEF ws
<1> QED
  BY <1>2, <1>3

LEMMA OffersOf ==
    ASSUME NEW S, NEW vs \in Seq(S), vs # <<>>
    PROVE  Offers(vs) = IF Candidate(vs[1]) THEN {vs[1].value} ELSE Offers(Tail(vs))
<1>1. Tail(vs) \in Seq(S) /\ vs = <<vs[1]>> \o Tail(vs)
  OBVIOUS
<1> DEFINE v == vs[1]
           ws == Tail(vs)
<1> HIDE DEF v, ws
<1>2. Offers(<<v>> \o ws) = IF Candidate(v) THEN {v.value} ELSE Offers(ws)
  BY <1>1, OffersFirst DEF ws
<1> QED
  BY <1>1, <1>2 DEF v, ws

(* Neither the context of a variable nor a cached string makes a           *)
(* difference.                                                             *)
LEMMA OffersLike ==
    ASSUME NEW vs, NEW ws, DOMAIN ws = DOMAIN vs,
           NEW n \in Nat, DOMAIN vs = 1..n,
           \A j \in DOMAIN vs : ws[j].attributes = vs[j].attributes /\ ws[j].value = vs[j].value
    PROVE  Offers(ws) = Offers(vs)
<1>1. \A j \in DOMAIN vs : Candidate(ws[j]) <=> Candidate(vs[j])
  BY DEF Candidate, Has
<1>2. \A j \in DOMAIN vs : Offering(ws, j) <=> Offering(vs, j)
  <2>1. ASSUME NEW j \in DOMAIN vs
        PROVE  Offering(ws, j) <=> Offering(vs, j)
    <3>1. \A l \in 1..(j - 1) : l \in DOMAIN vs
      OBVIOUS
    <3> QED
      BY <1>1, <3>1 DEF Offering
  <2> QED
    BY <2>1
<1> QED
  BY <1>2 DEF Offers

LEMMA OffersEligible ==
    ASSUME NEW K \in Shapes, NEW d \in Nat, NEW A, NEW m \in Machines(K, d, A),
           NEW i \in 0..Len(K), NEW n \in Names
    PROVE  /\ Eligible(m, n, i) = {} => Offers(Table(m, i)[n]) = {}
           /\ \A j \in Eligible(m, n, i) : (\A k \in Eligible(m, n, i) : j <= k) =>
                Offers(Table(m, i)[n]) = {Table(m, i)[n][j].value}
<1> DEFINE vs == Table(m, i)[n]
<1>1. vs \in Seq(VariablesAt(n, K, A, i)) /\ Eligible(m, n, i) = {j \in DOMAIN vs : Candidate(vs[j])}
  BY ListType DEF Eligible
<1> HIDE DEF vs
<1>2. DOMAIN vs = 1..Len(vs) /\ Len(vs) \in Nat
  BY <1>1
<1>3. ASSUME NEW j \in Eligible(m, n, i), \A k \in Eligible(m, n, i) : j <= k
      PROVE  Offers(vs) = {vs[j].value}
  <2>1. ASSUME NEW l \in 1..(j - 1)
        PROVE  ~Candidate(vs[l])
    <3>1. l \in DOMAIN vs /\ ~(j <= l)
      BY <1>1, <1>2
    <3> QED
      BY <1>1, <1>3, <3>1
  <2>2. Offering(vs, j)
    BY <1>1, <2>1 DEF Offering
  <2>3. ASSUME NEW k \in DOMAIN vs, Offering(vs, k)
        PROVE  k = j
    <3>1. k \in Eligible(m, n, i)
      BY <1>1, <2>3 DEF Offering
    <3>2. j <= k
      BY <1>3, <3>1
    <3>3. ~(j < k)
      BY <1>1, <1>2, <2>3 DEF Offering
    <3> QED
      BY <1>1, <1>2, <3>2, <3>3
  <2> QED
    BY <1>1, <2>2, <2>3 DEF Offers
<1>4. Eligible(m, n, i) = {} => Offers(vs) = {}
  BY <1>1 DEF Offers, Offering
<1> QED
  BY <1>3, <1>4 DEF vs

(* A name gets the value that the first place with an offer offers.        *)
Deserves(m, n) == LET e == Exporting(m, n)
                  IN  IF e = <<>> THEN NoValue ELSE Table(m, e[1])[n][e[2]].value

IsOffered(m, n, i, val) ==
  /\ Offers(Table(m, i)[n]) = {val}
  /\ \A k \in 0..(i - 1) : Offers(Table(m, k)[n]) = {}

LEMMA DeservesIs ==
    ASSUME NEW K \in Shapes, NEW d \in Nat, NEW A, NEW m \in Machines(K, d, A), NEW n \in Names
    PROVE  \/ /\ Deserves(m, n) = NoValue
              /\ \A i \in 0..Len(K) : Offers(Table(m, i)[n]) = {}
           \/ \E i \in 0..Len(K) : IsOffered(m, n, i, Deserves(m, n))
<1>0. Len(K) \in Nat
  BY ShapeType
<1>1. CASE Exporting(m, n) = <<>> /\ \A i \in 0..Len(K) : Eligible(m, n, i) = {}
  BY <1>1, OffersEligible DEF Deserves
<1>2. ASSUME NEW i \in 0..Len(K), NEW j \in Eligible(m, n, i),
             Exporting(m, n) = <<i, j>>,
             \A k \in 0..Len(K) : k < i => Eligible(m, n, k) = {},
             \A k \in Eligible(m, n, i) : j <= k
      PROVE  IsOffered(m, n, i, Deserves(m, n))
  <2>1. Offers(Table(m, i)[n]) = {Table(m, i)[n][j].value}
    BY <1>2, OffersEligible
  <2>2. Deserves(m, n) = Table(m, i)[n][j].value
    BY <1>2 DEF Deserves
  <2>3. ASSUME NEW k \in 0..(i - 1)
        PROVE  Offers(Table(m, k)[n]) = {}
    <3>1. k \in 0..Len(K) /\ k < i
      BY <1>0
    <3> QED
      BY <1>2, <3>1, OffersEligible
  <2> QED
    BY <2>1, <2>2, <2>3 DEF IsOffered
<1> QED
  BY <1>1, <1>2, ExportingEnds

LEMMA FirstOffer ==
    ASSUME NEW K \in Shapes, NEW d \in Nat, NEW A, NEW m \in Machines(K, d, A), NEW n \in Names,
           NEW i \in 0..Len(K), NEW val, IsOffered(m, n, i, val)
    PROVE  Deserves(m, n) = val
<1>1. Len(K) \in Nat /\ Offers(Table(m, i)[n]) # {}
  BY ShapeType DEF IsOffered
<1>2. PICK j \in 0..Len(K) : IsOffered(m, n, j, Deserves(m, n))
  BY <1>1, DeservesIs
<1>3. ~(i < j)
  <2>1. i < j => i \in 0..(j - 1)
    BY <1>1
  <2> QED
    BY <1>1, <1>2, <2>1 DEF IsOffered
<1>4. ~(j < i)
  <2>1. j < i => j \in 0..(i - 1)
    BY <1>1
  <2>2. Offers(Table(m, j)[n]) # {}
    BY <1>2 DEF IsOffered
  <2> QED
    BY <2>1, <2>2 DEF IsOffered
<1>5. i = j
  BY <1>1, <1>3, <1>4
<1> QED
  BY <1>2, <1>5 DEF IsOffered

LEMMA NoOffer ==
    ASSUME NEW K \in Shapes, NEW d \in Nat, NEW A, NEW m \in Machines(K, d, A), NEW n \in Names,
           \A i \in 0..Len(K) : Offers(Table(m, i)[n]) = {}
    PROVE  Deserves(m, n) = NoValue
  BY DeservesIs DEF IsOffered

LEMMA SameOffers ==
    ASSUME NEW K \in Shapes, NEW d \in Nat, NEW A, NEW m \in Machines(K, d, A),
           NEW e \in Nat, NEW B, NEW x \in Machines(K, e, B), NEW n \in Names,
           \A i \in 0..Len(K) : Offers(Table(x, i)[n]) = Offers(Table(m, i)[n])
    PROVE  Deserves(x, n) = Deserves(m, n)
<1>0. Len(K) \in Nat
  BY ShapeType
<1>1. CASE \A i \in 0..Len(K) : Offers(Table(m, i)[n]) = {}
  BY <1>1, NoOffer
<1>2. ASSUME NEW i \in 0..Len(K), NEW val, IsOffered(m, n, i, val)
      PROVE  Deserves(x, n) = val
  <2>1. \A k \in 0..(i - 1) : k \in 0..Len(K)
    BY <1>0
  <2>2. IsOffered(x, n, i, val)
    BY <1>2, <2>1 DEF IsOffered
  <2> QED
    BY <2>2, FirstOffer
<1> QED
  BY <1>1, <1>2, DeservesIs

(* An empty place more, between the temporary environment and the contexts. *)
LEMMA OffersShifted ==
    ASSUME NEW K \in Shapes, NEW d \in Nat, NEW A, NEW m \in Machines(K, d, A),
           NEW L \in Shapes, NEW e \in Nat, NEW B, NEW x \in Machines(L, e, B), NEW n \in Names,
           Len(L) = Len(K) + 1,
           \A i \in 1..Len(K) : Offers(Table(x, i + 1)[n]) = Offers(Table(m, i)[n]),
           \/ Offers(Table(x, 0)[n]) = {} /\ Offers(Table(x, 1)[n]) = Offers(Table(m, 0)[n])
           \/ Offers(Table(x, 1)[n]) = {} /\ Offers(Table(x, 0)[n]) = Offers(Table(m, 0)[n])
    PROVE  Deserves(x, n) = Deserves(m, n)
<1>0. Len(K) \in Nat \ {0}
  BY ShapeType
<1>1. \A k \in 0..Len(L) : \/ k \in {0, 1}
                           \/ k - 1 \in 1..Len(K) /\ (k - 1) + 1 = k
  BY <1>0
<1> DEFINE o(k) == Offers(Table(m, k)[n])
           p(k) == Offers(Table(x, k)[n])
<1>2. /\ \A i \in 1..Len(K) : p(i + 1) = o(i)
      /\ (p(0) = {} /\ p(1) = o(0)) \/ (p(1) = {} /\ p(0) = o(0))
  OBVIOUS
<1>3. CASE \A i \in 0..Len(K) : Offers(Table(m, i)[n]) = {}
  <2>1. \A i \in 0..Len(K) : o(i) = {}
    BY <1>3
  <2> HIDE DEF o, p
  <2>2. \A k \in 0..Len(L) : p(k) = {}
    <3>1. ASSUME NEW k \in 0..Len(L)
          PROVE  p(k) = {}
      <4>1. CASE k \in {0, 1}
        BY <1>0, <1>2, <2>1, <4>1
      <4>2. CASE k - 1 \in 1..Len(K) /\ (k - 1) + 1 = k
        <5>1. p((k - 1) + 1) = o(k - 1) /\ k - 1 \in 0..Len(K)
          BY <1>0, <1>2, <4>2
        <5> QED
          BY <2>1, <4>2, <5>1
      <4> QED
        BY <1>1, <4>1, <4>2
    <3> QED
      BY <3>1
  <2>3. Deserves(x, n) = NoValue
    BY <2>2, NoOffer DEF p
  <2> QED
    BY <1>3, <2>3, NoOffer
<1>4. ASSUME NEW i \in 0..Len(K), NEW val, IsOffered(m, n, i, val)
      PROVE  Deserves(x, n) = val
  <2>1. o(i) = {val} /\ \A k \in 0..(i - 1) : o(k) = {}
    BY <1>4 DEF IsOffered
  <2>2. \A j : p(j) = {val} /\ (\A k \in 0..(j - 1) : p(k) = {}) => IsOffered(x, n, j, val)
    BY DEF IsOffered
  <2> HIDE DEF o, p
  <2>3. \E j \in 0..Len(L) : p(j) = {val} /\ \A k \in 0..(j - 1) : p(k) = {}
    <3>1. CASE i = 0
      <4>1. 0 \in 0..Len(L) /\ 1 \in 0..Len(L) /\ 0..(0 - 1) = {} /\ 0..(1 - 1) = {0}
        BY <1>0
      <4> QED
        BY <1>2, <2>1, <3>1, <4>1
    <3>2. CASE i # 0
      <4>1. i + 1 \in 0..Len(L) /\ i \in 1..Len(K) /\ 0 \in 0..(i - 1)
        BY <1>0, <3>2
      <4>2. p(i + 1) = {val} /\ o(0) = {}
        BY <1>2, <2>1, <4>1
      <4>3. ASSUME NEW k \in 0..((i + 1) - 1)
            PROVE  p(k) = {}
        <5>1. CASE k \in {0, 1}
          BY <1>2, <4>2, <5>1
        <5>2. CASE k \notin {0, 1}
          <6>1. k - 1 \in 0..(i - 1) /\ k - 1 \in 1..Len(K) /\ (k - 1) + 1 = k
            BY <1>0, <5>2
          <6>2. p((k - 1) + 1) = o(k - 1) /\ o(k - 1) = {}
            BY <1>2, <2>1, <6>1
          <6> QED
            BY <6>1, <6>2
        <5> QED
          BY <5>1, <5>2
      <4> QED
        BY <4>1, <4>2, <4>3
    <3> QED
      BY <3>1, <3>2
  <2> QED
    BY <2>2, <2>3, FirstOffer
<1> QED
  BY <1>3, <1>4, DeservesIs

(* x has the environment of m, and commands deserve the same one, unless   *)
(* it is going to be made anew.                                            *)
Kept(m, x) ==
  /\ m.array_needs_making => x.array_needs_making
  /\ \/ x.array_needs_making
     \/ x.export_env = m.export_env /\ \A n \in Names : Deserves(x, n) = Deserves(m, n)

Fresh(m) == m.array_needs_making \/ \A n \in Names : m.export_env[n] = Deserves(m, n)

LEMMA KeptIsFresh ==
    ASSUME NEW m, NEW x, Kept(m, x), Fresh(m)
    PROVE  Fresh(x)
  BY DEF Kept, Fresh

LEMMA KeptTwice ==
    ASSUME NEW m, NEW x, NEW y, Kept(m, x), Kept(x, y)
    PROVE  Kept(m, y)
  BY DEF Kept

LEMMA KeptItself ==
    ASSUME NEW m
    PROVE  Kept(m, m)
  BY DEF Kept

LEMMA KeptAsked ==
    ASSUME NEW m, NEW x, x.array_needs_making
    PROVE  Kept(m, x)
  BY DEF Kept

------------------------------------------------------------------------------
(* Operations that keep what commands deserve, or ask for a new            *)
(* environment.                                                            *)

LEMMA KeptByPutAll ==
    ASSUME NEW K \in Shapes, NEW d \in Nat, NEW A, NEW m \in Machines(K, d, A),
           NEW i \in 0..Len(K), NEW n \in Names, NEW vs \in Seq(VariablesAt(n, K, A, i)),
           Offers(vs) = Offers(Table(m, i)[n])
    PROVE  Kept(m, PutAll(m, i, n, vs))
<1> DEFINE x == PutAll(m, i, n, vs)
<1>1. /\ x \in Machines(K, d, A)
      /\ Table(x, i) = [Table(m, i) EXCEPT ![n] = vs]
      /\ \A j \in 0..Len(K) : j # i => Table(x, j) = Table(m, j)
      /\ x.array_needs_making = m.array_needs_making /\ x.export_env = m.export_env
  BY PutAllIn
<1>2. Table(m, i) \in [Names -> Seq(Variable)]
  BY MachineParts DEF TablesAt
<1> HIDE DEF x
<1>3. ASSUME NEW name \in Names
      PROVE  Deserves(x, name) = Deserves(m, name)
  <2>1. ASSUME NEW j \in 0..Len(K)
        PROVE  Offers(Table(x, j)[name]) = Offers(Table(m, j)[name])
    <3>1. CASE j # i
      BY <1>1, <3>1
    <3>2. CASE j = i
      BY <1>1, <1>2, <3>2
    <3> QED
      BY <3>1, <3>2
  <2> QED
    BY <1>1, <2>1, SameOffers
<1> QED
  BY <1>1, <1>3 DEF Kept, x

LEMMA KeptByFlag ==
    ASSUME NEW K \in Shapes, NEW d \in Nat, NEW A, NEW m \in Machines(K, d, A), NEW b \in BOOLEAN
    PROVE  Kept(m, Flag(m, b))
<1> DEFINE x == Flag(m, b)
<1>1. /\ x \in Machines(K, d, A) /\ \A i \in 0..Len(K) : Table(x, i) = Table(m, i)
      /\ x.array_needs_making = (m.array_needs_making \/ b) /\ x.export_env = m.export_env
  BY FlagIn
<1> HIDE DEF x
<1>2. \A n \in Names : Deserves(x, n) = Deserves(m, n)
  BY <1>1, SameOffers
<1> QED
  BY <1>1, <1>2 DEF Kept, x

(* A list whose first variable is no candidate, before and after.          *)
LEMMA OffersRest ==
    ASSUME NEW S, NEW vs \in Seq(S), NEW w, ~Candidate(w), vs # <<>> => ~Candidate(vs[1])
    PROVE  Offers(<<w>> \o Rest(vs)) = Offers(vs)
<1>1. Rest(vs) \in Seq(S)
  BY DEF Rest
<1>2. Offers(<<w>> \o Rest(vs)) = Offers(Rest(vs))
  BY <1>1, OffersFirst
<1>3. CASE vs = <<>>
  BY <1>2, <1>3 DEF Rest
<1>4. CASE vs # <<>>
  BY <1>2, <1>4, OffersOf DEF Rest
<1> QED
  BY <1>3, <1>4

LEMMA BoundExported ==
    ASSUME NEW K, NEW A, NEW i, NEW n, NEW vs \in Seq(VariablesAt(n, K, A, i)), NEW val,
           ~Has(Bound(First(vs, n), val), "exported")
    PROVE  vs # <<>> => ~Candidate(vs[1])
<1>1. ASSUME vs # <<>>
      PROVE  ~Has(vs[1], "exported")
  <2>1. vs[1] \in Variable
    BY <1>1, VariablesAtType
  <2>2. Bound(vs[1], val).attributes = vs[1].attributes \ {"invisible"}
    BY <2>1 DEF Bound, Clear, Variable, VariableRecord
  <2> QED
    BY <1>1, <2>2 DEF First, Has
<1> QED
  BY <1>1 DEF Candidate

LEMMA BoundOffers ==
    ASSUME NEW K \in Shapes, NEW A, NEW i, NEW n \in Names, NEW vs \in Seq(VariablesAt(n, K, A, i)),
           NEW val, ~Has(Bound(First(vs, n), val), "exported")
    PROVE  Offers(BoundList(vs, n, val)) = Offers(vs)
<1> DEFINE w == Bound(First(vs, n), val)
<1>1. ~Candidate(w)
  BY DEF Candidate
<1>2. vs # <<>> => ~Candidate(vs[1])
  BY BoundExported
<1> HIDE DEF w
<1>3. Offers(<<w>> \o Rest(vs)) = Offers(vs)
  BY <1>1, <1>2, OffersRest
<1> QED
  BY <1>3 DEF BoundList, w

LEMMA KeptByBindInternal ==
    ASSUME NEW K \in Shapes, NEW d \in Nat, NEW A \in SUBSET Attributes,
           NEW m \in Machines(K, d, A), NEW i \in 1..Len(K), NEW n \in Names, NEW val \in Strings,
           Table(m, i)[n] # <<>> \/ i = Len(K)
    PROVE  Kept(m, BindInternal(m, i, n, val))
<1> DEFINE vs == Table(m, i)[n]
           bs == BoundList(vs, n, val)
           h == Has(Bound(First(vs, n), val), "exported")
           x == PutAll(m, i, n, bs)
<1>0. i \in 0..Len(K) /\ i # TempEnv /\ h \in BOOLEAN
  BY ShapeType DEF TempEnv, Has
<1>1. BindInternal(m, i, n, val) = Flag(x, h)
  BY <1>0, BindIs
<1>2. vs \in Seq(VariablesAt(n, K, A, i))
  BY <1>0, ListType
<1>3. bs \in Seq(VariablesAt(n, K, A, i))
  BY BoundListIn
<1>4. x \in Machines(K, d, A)
  BY <1>0, <1>3, PutAllIn
<1>5. ~h => Offers(bs) = Offers(vs)
  BY <1>2, BoundOffers
<1>6. ~h => Kept(m, x)
  BY <1>0, <1>3, <1>5, KeptByPutAll
<1> HIDE DEF h, x
<1>7. Kept(x, Flag(x, h)) /\ (h => Flag(x, h).array_needs_making)
  BY <1>0, <1>4, KeptByFlag, FlagIn
<1> QED
  BY <1>1, <1>6, <1>7, KeptTwice, KeptAsked

LEMMA KeptByBind ==
    ASSUME NEW K \in Shapes, NEW d \in Nat, NEW A \in SUBSET Attributes,
           NEW m \in Machines(K, d, A), NEW n \in Names, NEW val \in Strings,
           m.temporary_env[n] = <<>>
    PROVE  Kept(m, BindVariable(m, n, val))
<1> DEFINE i == Target(m, n)
<1>1. i \in 1..Len(K) /\ (Table(m, i)[n] # <<>> \/ i = Len(K))
  BY TargetIsPlace
<1>2. BindVariable(m, n, val) = BindInternal(m, i, n, val)
  BY DEF BindVariable, BindTempenv
<1> HIDE DEF i
<1> QED
  BY <1>1, <1>2, KeptByBindInternal

LEMMA KeptByPut ==
    ASSUME NEW K \in Shapes, NEW d \in Nat, NEW A, NEW m \in Machines(K, d, A),
           NEW i \in 0..Len(K), NEW n \in Names, NEW v \in VariablesAt(n, K, A, i),
           Table(m, i)[n] # <<>>, Candidate(v) <=> Candidate(At(m, i, n)),
           Candidate(v) => v.value = At(m, i, n).value
    PROVE  Kept(m, Put(m, i, n, v))
<1> DEFINE vs == Table(m, i)[n]
           ws == <<v>> \o Tail(vs)
<1>1. vs \in Seq(VariablesAt(n, K, A, i)) /\ Tail(vs) \in Seq(VariablesAt(n, K, A, i))
  BY ListType
<1>2. ws \in Seq(VariablesAt(n, K, A, i))
  BY <1>1
<1>3. Put(m, i, n, v) = PutAll(m, i, n, ws)
  BY DEF Put
<1>4. At(m, i, n) = vs[1] /\ vs # <<>>
  BY DEF At
<1> DEFINE rest == Tail(vs)
<1>5. Offers(ws) = IF Candidate(v) THEN {v.value} ELSE Offers(rest)
  <2>1. ws = <<v>> \o rest /\ rest \in Seq(VariablesAt(n, K, A, i))
    BY <1>1
  <2> HIDE DEF ws, rest
  <2> QED
    BY <2>1, OffersFirst
<1>6. Offers(vs) = IF Candidate(vs[1]) THEN {vs[1].value} ELSE Offers(rest)
  BY <1>1, <1>4, OffersOf
<1> HIDE DEF vs, ws, rest
<1>7. Candidate(v) <=> Candidate(vs[1])
  BY <1>4
<1>8. Candidate(v) => v.value = vs[1].value
  BY <1>4
<1>9. Offers(ws) = Offers(vs)
  <2>1. CASE Candidate(v)
    BY <1>5, <1>6, <1>7, <1>8, <2>1
  <2>2. CASE ~Candidate(v)
    BY <1>5, <1>6, <1>7, <2>2
  <2> QED
    BY <2>1, <2>2
<1> QED
  BY <1>2, <1>3, <1>9, KeptByPutAll DEF vs

LEMMA KeptByInsert ==
    ASSUME NEW K \in Shapes, NEW d \in Nat, NEW A, NEW m \in Machines(K, d, A),
           NEW i \in 0..Len(K), NEW n \in Names, NEW v \in VariablesAt(n, K, A, i), ~Candidate(v)
    PROVE  Kept(m, Insert(m, i, n, v))
<1> DEFINE vs == Table(m, i)[n]
           ws == <<v>> \o vs
<1>1. vs \in Seq(VariablesAt(n, K, A, i))
  BY ListType
<1>2. ws \in Seq(VariablesAt(n, K, A, i))
  BY <1>1
<1>3. Insert(m, i, n, v) = PutAll(m, i, n, ws)
  BY DEF Insert
<1>4. Offers(ws) = Offers(vs)
  BY <1>1, OffersFirst
<1> HIDE DEF ws
<1> QED
  BY <1>2, <1>3, <1>4, KeptByPutAll

(* A new variable with the value that is deserved anyway.                  *)
LEMMA KeptByCopy ==
    ASSUME NEW K \in Shapes, NEW d \in Nat, NEW A, NEW m \in Machines(K, d, A),
           NEW n \in Names, NEW i \in 0..Len(K), NEW val, IsOffered(m, n, i, val),
           NEW f \in 0..Len(K), NEW v \in VariablesAt(n, K, A, f), Candidate(v), v.value = val
    PROVE  Kept(m, Insert(m, f, n, v))
<1> DEFINE ws == <<v>> \o Table(m, f)[n]
           x == Insert(m, f, n, v)
<1>0. Len(K) \in Nat
  BY ShapeType
<1>1. Table(m, f)[n] \in Seq(VariablesAt(n, K, A, f))
  BY ListType
<1>2. ws \in Seq(VariablesAt(n, K, A, f))
  BY <1>1
<1>3. Offers(ws) = {val}
  BY <1>1, OffersFirst
<1>4. x = PutAll(m, f, n, ws)
  BY DEF Insert
<1>5. Table(m, f) \in [Names -> Seq(Variable)]
  BY MachineParts DEF TablesAt
<1> HIDE DEF ws, x
<1>6. /\ x \in Machines(K, d, A)
      /\ Table(x, f) = [Table(m, f) EXCEPT ![n] = ws]
      /\ \A j \in 0..Len(K) : j # f => Table(x, j) = Table(m, j)
      /\ x.array_needs_making = m.array_needs_making /\ x.export_env = m.export_env
  BY <1>2, <1>4, PutAllIn
<1>7. \A j \in 0..Len(K) : Offers(Table(x, j)[n]) = IF j = f THEN {val} ELSE Offers(Table(m, j)[n])
  BY <1>3, <1>5, <1>6
<1>8. Deserves(x, n) = Deserves(m, n)
  <2>1. Deserves(m, n) = val
    BY FirstOffer
  <2>2. \A k \in 0..(i - 1) : k \in 0..Len(K)
    BY <1>0
  <2>3. CASE f < i
    <3>1. \A k \in 0..(f - 1) : k \in 0..(i - 1) /\ k # f
      BY <1>0, <2>3
    <3>2. IsOffered(x, n, f, val)
      BY <1>7, <2>2, <3>1 DEF IsOffered
    <3> QED
      BY <1>6, <2>1, <3>2, FirstOffer
  <2>4. CASE ~(f < i)
    <3>1. \A k \in 0..(i - 1) : k # f
      BY <1>0, <2>4
    <3>2. IsOffered(x, n, i, val)
      BY <1>7, <2>2, <3>1 DEF IsOffered
    <3> QED
      BY <1>6, <2>1, <3>2, FirstOffer
  <2> QED
    BY <2>3, <2>4
<1>9. ASSUME NEW name \in Names, name # n
      PROVE  Deserves(x, name) = Deserves(m, name)
  <2>1. \A j \in 0..Len(K) : Table(x, j)[name] = Table(m, j)[name]
    BY <1>5, <1>6, <1>9
  <2> QED
    BY <1>6, <2>1, SameOffers
<1> QED
  BY <1>6, <1>8, <1>9 DEF Kept, x

(* What is made is what commands deserve.                                  *)
LEMMA MadeIsFresh ==
    ASSUME NEW K \in Shapes, NEW d \in Nat, NEW A \in SUBSET Attributes,
           NEW m \in Machines(K, d, A)
    PROVE  Fresh(MakeExportEnv(m))
<1> DEFINE x == MakeExportEnv(m)
<1>1. /\ x \in Machines(K, d, A) /\ \A i \in 0..Len(K) : Table(x, i) = Cached(m, i)
      /\ \A n \in Names : x.export_env[n]
           = IF Exporting(m, n) = <<>> THEN NoValue
             ELSE ExportString(Table(m, Exporting(m, n)[1])[n][Exporting(m, n)[2]])
  BY MakeExportEnvIn
<1> HIDE DEF x
<1>2. ASSUME NEW n \in Names
      PROVE  x.export_env[n] = Deserves(m, n)
  <2>1. CASE Exporting(m, n) = <<>>
    BY <1>1, <2>1 DEF Deserves
  <2>2. ASSUME NEW i \in 0..Len(K), NEW j \in Eligible(m, n, i), Exporting(m, n) = <<i, j>>
        PROVE  x.export_env[n] = Deserves(m, n)
    <3> DEFINE v == Table(m, i)[n][j]
    <3>1. Table(m, i)[n] \in Seq(VariablesAt(n, K, A, i)) /\ j \in DOMAIN Table(m, i)[n]
      BY ListType DEF Eligible
    <3>2. v \in Variable
      BY <3>1, VariablesAtType
    <3>3. x.export_env[n] = ExportString(v) /\ Deserves(m, n) = v.value
      BY <1>1, <2>2 DEF Deserves
    <3> HIDE DEF v
    <3>4. ExportString(v) = v.value
      BY <3>2 DEF ExportString, Variable
    <3> QED
      BY <3>3, <3>4
  <2> QED
    BY <2>1, <2>2, ExportingEnds
<1>3. ASSUME NEW n \in Names
      PROVE  Deserves(x, n) = Deserves(m, n)
  <2>1. ASSUME NEW i \in 0..Len(K)
        PROVE  Offers(Table(x, i)[n]) = Offers(Table(m, i)[n])
    <3> DEFINE vs == Table(m, i)[n]
               ws == Cached(m, i)[n]
    <3>1. vs \in Seq(VariablesAt(n, K, A, i))
      BY ListType
    <3>2. Cached(m, i) \in TablesAt(K, A, i) /\ Len(ws) = Len(vs)
          /\ \A j \in 1..Len(vs) :
               ws[j] = IF Exporting(m, n) = <<i, j>>
                       THEN [vs[j] EXCEPT !.exportstr = ExportString(vs[j])] ELSE vs[j]
      BY CachedIn
    <3>3. ws \in Seq(VariablesAt(n, K, A, i))
      BY <3>2 DEF TablesAt
    <3> HIDE DEF vs, ws
    <3>4. ASSUME NEW j \in 1..Len(vs)
          PROVE  ws[j].attributes = vs[j].attributes /\ ws[j].value = vs[j].value
      <4>1. vs[j] \in Variable
        BY <3>1, VariablesAtType
      <4> QED
        BY <3>2, <4>1 DEF Variable, VariableRecord
    <3>5. Len(vs) \in Nat /\ DOMAIN vs = 1..Len(vs) /\ DOMAIN ws = 1..Len(vs)
      BY <3>1, <3>2, <3>3
    <3>6. Offers(ws) = Offers(vs)
      BY <3>4, <3>5, OffersLike
    <3> QED
      BY <1>1, <3>6 DEF vs, ws
  <2> QED
    BY <1>1, <2>1, SameOffers
<1> QED
  BY <1>2, <1>3 DEF Fresh, x

LEMMA MaybeMadeIsFresh ==
    ASSUME NEW K \in Shapes, NEW d \in Nat, NEW A \in SUBSET Attributes,
           NEW m \in Machines(K, d, A), Fresh(m)
    PROVE  Fresh(MaybeMakeExportEnv(m))
  BY MadeIsFresh DEF MaybeMakeExportEnv

------------------------------------------------------------------------------
(* Attributes, local variables and unset. *)

(* Lists stay where they are when a name is bound. *)
LEMMA BindKeepsPlaces ==
    ASSUME NEW K \in Shapes, NEW d \in Nat, NEW A \in SUBSET Attributes,
           NEW m \in Machines(K, d, A), NEW n \in Names, NEW val \in Strings,
           NEW i \in 0..Len(K), Table(m, i)[n] # <<>>
    PROVE  Table(BindVariable(m, n, val), i)[n] # <<>>
<1> DEFINE t == BindTempenv(m, n, val)
           k == Target(m, n)
<1>0. 0 \in 0..Len(K) /\ Len(K) \in Nat \ {0} /\ Table(m, 0) = m.temporary_env /\ TempEnv = 0
  BY ShapeType DEF TempEnv, Table
<1>1. t \in Machines(K, d, A) /\ \A j \in 1..Len(K) : Table(t, j) = Table(m, j)
  BY BindTempenvIn
<1>2. k \in 1..Len(K) /\ (Table(m, k)[n] # <<>> \/ k = Len(K))
  BY TargetIsPlace
<1>3. Table(t, i)[n] # <<>>
  <2>1. CASE i # 0
    BY <1>0, <1>1, <2>1
  <2>2. CASE i = 0 /\ t = m
    BY <2>2
  <2>3. CASE i = 0 /\ t # m
    <3> DEFINE v == [At(m, 0, n) EXCEPT !.value = val, !.exportstr = NoValue]
    <3>1. t = Put(m, 0, n, v)
      BY <1>0, <2>3 DEF BindTempenv
    <3>2. v \in VariablesAt(n, K, A, 0)
      BY <1>0, <2>3, ListType, ValueIn DEF Strings
    <3> HIDE DEF v, t
    <3>3. Table(Put(m, 0, n, v), 0)[n] # <<>>
      <4>1. 0 \in 0..Len(K) /\ Table(m, 0)[n] # <<>>
        BY <1>0, <2>3
      <4> QED
        BY <3>2, <4>1, PutIn
    <3> QED
      BY <2>3, <3>1, <3>3
  <2> QED
    BY <2>1, <2>2, <2>3
<1>4. BindVariable(m, n, val) = BindInternal(t, k, n, val)
  BY DEF BindVariable
<1>5. Table(t, k)[n] # <<>> \/ k = Len(K)
  BY <1>1, <1>2
<1> HIDE DEF t, k
<1> QED
  BY <1>1, <1>2, <1>3, <1>4, <1>5, BindIn

(* So the variables given to a command are still there.                    *)
LEMMA BindKeepsGiven ==
    ASSUME NEW K \in Shapes, NEW d \in Nat, NEW A \in SUBSET Attributes,
           NEW m \in Machines(K, d, A), NEW n \in Names, NEW val \in Strings,
           m.temporary_env # NoTable
    PROVE  BindVariable(m, n, val).temporary_env # NoTable
<1> DEFINE b == BindVariable(m, n, val)
<1>0. 0 \in 0..Len(K) /\ Len(K) \in Nat \ {0} /\ \A x : Table(x, 0) = x.temporary_env
  BY ShapeType DEF TempEnv, Table
<1>1. CASE m.temporary_env[n] # <<>>
  <2>1. Table(b, 0)[n] # <<>>
    BY <1>0, <1>1, BindKeepsPlaces
  <2> QED
    BY <1>0, <2>1 DEF NoTable
<1>2. CASE m.temporary_env[n] = <<>>
  <2> DEFINE i == Target(m, n)
  <2>1. i \in 1..Len(K) /\ (Table(m, i)[n] # <<>> \/ i = Len(K))
    BY TargetIsPlace
  <2>2. b = BindInternal(m, i, n, val)
    BY <1>2 DEF BindVariable, BindTempenv
  <2> HIDE DEF i, b
  <2>3. Table(b, 0) = Table(m, 0)
    BY <1>0, <2>1, <2>2, BindIn
  <2> QED
    BY <1>0, <2>3 DEF b
<1> QED
  BY <1>1, <1>2

LEMMA LookupIs ==
    ASSUME NEW K \in Shapes, NEW d \in Nat, NEW A, NEW m \in Machines(K, d, A), NEW n \in Names,
           NEW i \in 1..Len(K), Table(m, i)[n] # <<>>,
           \A k \in 1..Len(K) : k < i => Table(m, k)[n] = <<>>
    PROVE  VarLookup(m, n) = i /\ Target(m, n) = i
<1>1. Len(K) \in Nat
  BY ShapeType
<1>2. VarLookup(m, n) \in 1..Len(K) /\ ~(i < VarLookup(m, n)) /\ ~(VarLookup(m, n) < i)
  BY <1>1, LookupEnds
<1>3. VarLookup(m, n) = i
  BY <1>1, <1>2
<1> QED
  BY <1>1, <1>3 DEF Target, Nowhere

(* The value is that of the entry which setpwd() replaces. *)
LEMMA SetPwdIn ==
    ASSUME NEW K \in Shapes, NEW d \in Nat, NEW A \in SUBSET Attributes,
           NEW m \in Machines(K, d, A), NEW n \in Names, NEW val \in Strings
    PROVE  /\ SetPwd(m, n, val) \in Machines(K, d, A)
           /\ m.temporary_env # NoTable => SetPwd(m, n, val).temporary_env # NoTable
           /\ m.temporary_env = NoTable /\ Fresh(m) => Fresh(SetPwd(m, n, val))
<1> DEFINE b == BindVariable(m, n, val)
           i == Target(b, n)
           replaced == /\ ~m.array_needs_making /\ b.array_needs_making
                       /\ Has(At(b, i, n), "exported")
           x == [b EXCEPT !.export_env[n] = val, !.array_needs_making = FALSE]
<1>0. Len(K) \in Nat \ {0} /\ \A y : Table(y, 0) = y.temporary_env
  BY ShapeType DEF Table, TempEnv
<1>1. b \in Machines(K, d, A)
  BY BindVariableIn
<1>2. SetPwd(m, n, val) = IF replaced THEN x ELSE b
  BY DEF SetPwd
<1>3. m.temporary_env # NoTable => b.temporary_env # NoTable
  BY BindKeepsGiven
<1>4. m.temporary_env = NoTable => Kept(m, b)
  BY KeptByBind DEF NoTable
<1>5. /\ x \in Machines(K, d, A) /\ x.temporary_env = b.temporary_env
      /\ x.export_env = [b.export_env EXCEPT ![n] = val]
      /\ \A k \in 0..Len(K) : Table(x, k) = Table(b, k)
  <2> HIDE DEF b
  <2>1. x = [b EXCEPT !.export_env = [b.export_env EXCEPT ![n] = val], !.array_needs_making = FALSE]
    OBVIOUS
  <2>2. [b.export_env EXCEPT ![n] = val] \in [Names -> Strings]
    BY <1>1, MachineParts
  <2> DEFINE env == [b.export_env EXCEPT ![n] = val]
  <2> HIDE DEF env, x
  <2>3. x \in Machines(K, d, A) /\ x.export_env = env /\ x.contexts = b.contexts
        /\ x.temporary_env = b.temporary_env
    BY <1>1, <2>1, <2>2 DEF Machines, env
  <2> QED
    BY <2>3 DEF Table, env
<1> HIDE DEF x
<1>6. ASSUME m.temporary_env = NoTable, Fresh(m), replaced
      PROVE  Fresh(x)
  <2> DEFINE k == Target(m, n)
             vs == Table(m, k)[n]
             w == Bound(First(vs, n), val)
  <2>1. k \in 1..Len(K) /\ (Table(m, k)[n] # <<>> \/ k = Len(K))
        /\ \A j \in 1..Len(K) : j < k => Table(m, j)[n] = <<>>
    <3>1. k \in 1..Len(K) /\ (Table(m, k)[n] # <<>> \/ k = Len(K))
      BY TargetIsPlace
    <3>2. VarLookup(m, n) # Nowhere => k = VarLookup(m, n)
      BY DEF Target
    <3> HIDE DEF k
    <3>3. \A j \in 1..Len(K) : j < k => Table(m, j)[n] = <<>>
      <4>1. CASE VarLookup(m, n) = Nowhere /\ \A j \in 1..Len(K) : Table(m, j)[n] = <<>>
        BY <4>1
      <4>2. CASE /\ VarLookup(m, n) \in 1..Len(K)
                 /\ \A j \in 1..Len(K) : j < VarLookup(m, n) => Table(m, j)[n] = <<>>
        BY <1>0, <3>2, <4>2 DEF Nowhere
      <4> QED
        BY <4>1, <4>2, LookupEnds
    <3> QED
      BY <3>1, <3>3
  <2>2. b = BindInternal(m, k, n, val)
    BY <1>6 DEF BindVariable, BindTempenv, NoTable
  <2> HIDE DEF b, k
  <2>3. /\ Table(b, k)[n] = <<w>> \o Rest(vs) /\ Table(b, k)[n] # <<>>
        /\ \A y \in Names : y # n => Table(b, k)[y] = Table(m, k)[y]
        /\ \A j \in 0..Len(K) : j # k => Table(b, j) = Table(m, j)
        /\ b.export_env = m.export_env
    BY <2>1, <2>2, BindIn DEF BoundList
  <2>4. i = k
    <3>1. \A j \in 1..Len(K) : j < k => Table(b, j)[n] = <<>>
      BY <1>0, <2>1, <2>3
    <3> QED
      BY <1>1, <2>1, <2>3, <3>1, LookupIs
  <2>5. Rest(vs) \in Seq(Variable) /\ First(vs, n) \in Variable
    <3>1. k \in 0..Len(K)
      BY <2>1
    <3>2. vs \in Seq(VariablesAt(n, K, A, k))
      BY <3>1, ListType
    <3>3. vs \in Seq(Variable)
      BY <3>2, VariablesAtType
    <3>4. NewVariable(n) \in Variable
      BY DEF NewVariable, Variable, VariableRecord, Strings, Has
    <3> HIDE DEF vs
    <3> QED
      BY <3>3, <3>4 DEF Rest, First
  <2>6. w.value = val /\ "invisible" \notin w.attributes
    <3> DEFINE v == First(vs, n)
    <3> HIDE DEF v, vs
    <3>1. v \in Variable
      BY <2>5 DEF v
    <3>2. Bound(v, val).value = val /\ Bound(v, val).attributes = v.attributes \ {"invisible"}
      BY <3>1 DEF Bound, Clear, Variable, VariableRecord
    <3> QED
      BY <3>2 DEF v
  <2> HIDE DEF vs, w
  <2>7. At(b, k, n) = w
    BY <2>3, <2>5 DEF At
  <2>8. Candidate(w)
    BY <1>6, <2>4, <2>6, <2>7 DEF Candidate, Has
  <2>9. Offers(Table(x, k)[n]) = {val}
    <3>1. Offers(<<w>> \o Rest(vs)) = {w.value}
      BY <2>5, <2>8, OffersFirst
    <3>2. k \in 0..Len(K)
      BY <2>1
    <3>3. Table(x, k)[n] = <<w>> \o Rest(vs)
      BY <1>5, <2>3, <3>2
    <3> QED
      BY <2>6, <3>1, <3>3
  <2>10. ASSUME NEW j \in 0..(k - 1)
         PROVE  Offers(Table(x, j)[n]) = {}
    <3>1. j \in 0..Len(K) /\ j # k /\ (j = 0 \/ (j \in 1..Len(K) /\ j < k))
      BY <1>0, <2>1
    <3>2. Table(m, j)[n] = <<>>
      BY <1>0, <1>6, <2>1, <3>1 DEF NoTable
    <3>3. Table(x, j)[n] = <<>>
      BY <1>5, <2>3, <3>1, <3>2
    <3> QED
      BY <3>3, OffersNothing
  <2>11. Deserves(x, n) = val
    <3>1. IsOffered(x, n, k, val) /\ k \in 0..Len(K)
      BY <2>1, <2>9, <2>10 DEF IsOffered
    <3> QED
      BY <1>5, <3>1, FirstOffer
  <2>12. ASSUME NEW y \in Names, y # n
         PROVE  Deserves(x, y) = Deserves(m, y)
    <3>1. \A j \in 0..Len(K) : Table(x, j)[y] = Table(m, j)[y]
      BY <1>5, <2>3, <2>12
    <3> QED
      BY <1>5, <3>1, SameOffers
  <2>13. \A y \in Names : m.export_env[y] = Deserves(m, y)
    BY <1>6 DEF Fresh
  <2>14. \A y \in Names : x.export_env[y] = IF y = n THEN val ELSE m.export_env[y]
    <3>1. b.export_env \in [Names -> Strings]
      BY <1>1, MachineParts
    <3> QED
      BY <1>5, <2>3, <3>1
  <2> QED
    BY <2>11, <2>12, <2>13, <2>14 DEF Fresh
<1> HIDE DEF b, replaced
<1> QED
  BY <1>1, <1>2, <1>3, <1>4, <1>5, <1>6, KeptIsFresh

LEMMA SetAt ==
    ASSUME NEW K \in Shapes, NEW d \in Nat, NEW A \in SUBSET Attributes,
           NEW m \in Machines(K, d, A), NEW i \in 0..Len(K), NEW n \in Names,
           Table(m, i)[n] # <<>>, NEW as \in SUBSET Attributes, i = TempEnv => as \subseteq A,
           "tempvar" \notin as, "invisible" \in as => ~Has(At(m, i, n), "tempvar")
    PROVE  /\ Put(m, i, n, Set(At(m, i, n), as)) \in Machines(K, d, A)
           /\ Table(Put(m, i, n, Set(At(m, i, n), as)), i)[n] # <<>>
           /\ At(Put(m, i, n, Set(At(m, i, n), as)), i, n) = Set(At(m, i, n), as)
           /\ Put(m, i, n, Set(At(m, i, n), as)).array_needs_making = m.array_needs_making
<1> DEFINE v == Set(At(m, i, n), as)
<1>1. At(m, i, n) \in VariablesAt(n, K, A, i)
  BY ListType
<1>2. v \in VariablesAt(n, K, A, i)
  BY <1>1, SetIn
<1> HIDE DEF v
<1>3. /\ Put(m, i, n, v) \in Machines(K, d, A) /\ Table(Put(m, i, n, v), i)[n] # <<>>
      /\ At(Put(m, i, n, v), i, n) = v
      /\ Put(m, i, n, v).array_needs_making = m.array_needs_making
  BY <1>2, PutIn
<1> QED
  BY <1>3, Zenon DEF v

LEMMA ExportIn ==
    ASSUME NEW K \in Shapes, NEW d \in Nat, NEW A \in SUBSET Attributes,
           NEW m \in Machines(K, d, A), NEW n \in Names
    PROVE  Export(m, n) \in Machines(K, d, A) /\ Export(m, n).array_needs_making
<1> DEFINE tv == At(m, TempEnv, n)
           b  == BindVariable(m, n, tv.value)
           i  == VarLookup(m, n)
           v  == At(m, i, n)
           c  == BindVariable(m, n, NoValue)
           as == {"exported"} \cup IF v.context # 0 THEN {"propagate"} ELSE {}
           given == Put(b, Target(b, n), n,
                        Set(At(b, Target(b, n), n), tv.attributes \ {"tempvar"}))
           new == Put(c, Global(c), n, Set(At(c, Global(c), n), {"invisible", "exported"}))
           found == Put(m, i, n, Set(v, as))
<1>0. Table(m, 0) = m.temporary_env /\ TempEnv = 0 /\ 0 \in 0..Len(K) /\ Len(K) \in Nat \ {0}
  BY ShapeType DEF Table, TempEnv
<1>1. Export(m, n) = Flag(IF m.temporary_env[n] # <<>> THEN given
                          ELSE IF i = Nowhere THEN new ELSE found, TRUE)
  BY DEF Export
<1>2. ASSUME m.temporary_env[n] # <<>>
      PROVE  given \in Machines(K, d, A)
  <2>0. tv \in VariablesAt(n, K, A, 0)
    BY <1>0, <1>2, ListType
  <2>1. tv \in Variable
    BY <2>0, VariablesAtType
  <2>2. tv.value \in Strings /\ tv.attributes \ {"tempvar"} \in SUBSET Attributes
        /\ "invisible" \notin tv.attributes
    BY <1>0, <2>0, <2>1 DEF Variable, VariableRecord, Has, VariablesAt, GivenVariables
  <2> HIDE DEF tv
  <2>3. b \in Machines(K, d, A) /\ Target(b, n) \in 1..Len(K) /\ Table(b, Target(b, n))[n] # <<>>
    BY <2>2, BindVariableIn
  <2> HIDE DEF b
  <2>4. Target(b, n) \in 0..Len(K) /\ Target(b, n) # TempEnv
    BY <1>0, <2>3
  <2> QED
    BY <2>2, <2>3, <2>4, SetAt
<1>3. ASSUME i = Nowhere
      PROVE  new \in Machines(K, d, A)
  <2>1. c \in Machines(K, d, A) /\ Table(c, Len(K))[n] # <<>> /\ ~Has(At(c, Len(K), n), "tempvar")
    BY <1>3, BindVariableIn DEF Strings, Has
  <2>2. Global(c) = Len(K)
    BY <2>1, MachineParts
  <2> HIDE DEF c
  <2>3. {"invisible", "exported"} \in SUBSET Attributes
    BY DEF Attributes
  <2> QED
    BY <1>0, <2>1, <2>2, <2>3, SetAt
<1>4. ASSUME i # Nowhere
      PROVE  found \in Machines(K, d, A)
  <2>1. i \in 1..Len(K) /\ Table(m, i)[n] # <<>>
    BY <1>4, LookupEnds
  <2>2. as \in SUBSET Attributes /\ "tempvar" \notin as /\ "invisible" \notin as
    BY DEF Attributes
  <2> HIDE DEF as, i
  <2>3. i \in 0..Len(K) /\ i # TempEnv
    BY <1>0, <2>1
  <2> QED
    BY <2>1, <2>2, <2>3, SetAt
<1> HIDE DEF given, new, found, i
<1> DEFINE e == IF m.temporary_env[n] # <<>> THEN given ELSE IF i = Nowhere THEN new ELSE found
<1>5. e \in Machines(K, d, A)
  BY <1>2, <1>3, <1>4
<1>6. Export(m, n) = Flag(e, TRUE)
  BY <1>1
<1> HIDE DEF e
<1>7. Flag(e, TRUE) \in Machines(K, d, A) /\ Flag(e, TRUE).array_needs_making
  BY <1>5, FlagTrueIn
<1> QED
  BY <1>6, <1>7

LEMMA UnexportIn ==
    ASSUME NEW K \in Shapes, NEW d \in Nat, NEW A \in SUBSET Attributes,
           NEW m \in Machines(K, d, A), NEW n \in Names
    PROVE  Unexport(m, n) \in Machines(K, d, A) /\ Unexport(m, n).array_needs_making
<1> DEFINE i == FindVariable(m, n)
           v == Clear(At(m, i, n), {"exported"})
<1>1. Unexport(m, n) = Flag(IF i = Nowhere THEN m ELSE Put(m, i, n, v), TRUE)
  BY DEF Unexport
<1>2. ASSUME i # Nowhere
      PROVE  Put(m, i, n, v) \in Machines(K, d, A)
  <2>1. i \in 0..Len(K) /\ Table(m, i)[n] # <<>>
    BY <1>2, FindEnds
  <2> HIDE DEF i
  <2>2. At(m, i, n) \in VariablesAt(n, K, A, i)
    BY <2>1, ListType
  <2>3. v \in VariablesAt(n, K, A, i)
    BY <2>2, ClearIn
  <2> HIDE DEF v
  <2> QED
    BY <2>1, <2>3, PutIn
<1> HIDE DEF i, v
<1> DEFINE e == IF i = Nowhere THEN m ELSE Put(m, i, n, v)
<1>3. e \in Machines(K, d, A)
  BY <1>2
<1>4. Unexport(m, n) = Flag(e, TRUE)
  BY <1>1
<1> HIDE DEF e
<1>5. Flag(e, TRUE) \in Machines(K, d, A) /\ Flag(e, TRUE).array_needs_making
  BY <1>3, FlagTrueIn
<1> QED
  BY <1>4, <1>5

(* In a call of a function there is a context for its local variables. *)
InFunction(K, d) == \E i \in 1..Len(K) : K[i].kind = "function" /\ K[i].scope = d

LEMMA FunctionPlace ==
    ASSUME NEW K \in Shapes, NEW d \in Nat, NEW A, NEW m \in Machines(K, d, A), InFunction(K, d)
    PROVE  FunctionContext(m) \in 1..Len(K) /\ K[FunctionContext(m)].scope = d
<1> DEFINE T == {i \in DOMAIN m.contexts : /\ m.contexts[i].kind = "function"
                                           /\ m.contexts[i].scope = m.variable_context}
<1>1. T = {i \in 1..Len(K) : K[i].kind = "function" /\ K[i].scope = d}
  BY MachineParts
<1>2. T # {} /\ T \in SUBSET Nat
  BY <1>1 DEF InFunction
<1>3. FunctionContext(m) = Min(T)
  BY DEF FunctionContext
<1> HIDE DEF T
<1>4. Min(T) \in T
  BY <1>2, LeastPlace
<1> QED
  BY <1>1, <1>3, <1>4

LEMMA MakeLocalIn ==
    ASSUME NEW K \in Shapes, NEW d \in Nat, NEW A \in SUBSET Attributes,
           NEW m \in Machines(K, d, A), NEW n \in Names, InFunction(K, d)
    PROVE  /\ MakeLocal(m, n).m \in Machines(K, d, A)
           /\ MakeLocal(m, n).place \in 0..Len(K)
           /\ Table(MakeLocal(m, n).m, MakeLocal(m, n).place)[n] # <<>>
           /\ Kept(m, MakeLocal(m, n).m)
<1> DEFINE i   == FindVariable(m, n)
           old == At(m, i, n)
           given == i # Nowhere /\ Has(old, "tempvar")
           here == i # Nowhere /\ old.context = m.variable_context
           f   == FunctionContext(m)
           as == {"local"} \cup (IF i # Nowhere /\ Has(old, "exported") THEN {"exported"} ELSE {})
                   \cup (IF given THEN {} ELSE {"invisible"})
           val == IF given THEN old.value ELSE NoValue
           new == [NewVariable(n) EXCEPT
                     !.value = IF given THEN old.value ELSE NoValue,
                     !.context = m.variable_context,
                     !.attributes = {"local"}
                       \cup (IF i # Nowhere /\ Has(old, "exported") THEN {"exported"} ELSE {})
                       \cup (IF given THEN {} ELSE {"invisible"})]
           promoted == Set(Clear(old, {"invisible"}), {"local"})
<1>0. m.variable_context = d /\ TempEnv = 0 /\ 0 \in 0..Len(K) /\ Len(K) \in Nat \ {0}
  BY MachineParts, ShapeType DEF TempEnv
<1>1. MakeLocal(m, n) = IF here /\ Has(old, "local") THEN [m |-> m, place |-> i]
        ELSE IF given /\ here /\ i # TempEnv THEN [m |-> Put(m, i, n, promoted), place |-> i]
        ELSE [m |-> Insert(m, f, n, new), place |-> f]
  BY DEF MakeLocal
<1>2. i # Nowhere => /\ i \in 0..Len(K) /\ Table(m, i)[n] # <<>>
                     /\ old \in VariablesAt(n, K, A, i) /\ old \in Variable
                     /\ \A k \in 0..Len(K) : k < i => Table(m, k)[n] = <<>>
  <2>1. i # Nowhere => /\ i \in 0..Len(K) /\ Table(m, i)[n] # <<>>
                       /\ \A k \in 0..Len(K) : k < i => Table(m, k)[n] = <<>>
    BY FindEnds
  <2> HIDE DEF i
  <2> QED
    BY <2>1, ListType, VariablesAtType
<1>3. CASE here /\ Has(old, "local")
  <2>1. MakeLocal(m, n) = [m |-> m, place |-> i]
    BY <1>1, <1>3
  <2> HIDE DEF i
  <2> QED
    BY <1>2, <1>3, <2>1, KeptItself
<1>4. CASE ~(here /\ Has(old, "local")) /\ given /\ here /\ i # TempEnv
  <2>1. MakeLocal(m, n) = [m |-> Put(m, i, n, promoted), place |-> i]
    BY <1>1, <1>4, Zenon
  <2>2. promoted \in VariablesAt(n, K, A, i)
    <3>1. Clear(old, {"invisible"}) \in VariablesAt(n, K, A, i)
      BY <1>2, <1>4, ClearIn
    <3>2. {"local"} \in SUBSET Attributes
      BY DEF Attributes
    <3> HIDE DEF i, old
    <3> QED
      BY <1>4, <3>1, <3>2, SetIn
  <2>3. /\ promoted.value = old.value
        /\ promoted.attributes = (old.attributes \ {"invisible"}) \cup {"local"}
        /\ "invisible" \notin old.attributes
    BY <1>2, <1>4 DEF Set, Clear, Variable, VariableRecord, Has
  <2> HIDE DEF i, old, promoted
  <2>4. Candidate(promoted) <=> Candidate(old)
    BY <2>3 DEF Candidate, Has
  <2>5. Kept(m, Put(m, i, n, promoted))
    BY <1>2, <1>4, <2>2, <2>3, <2>4, KeptByPut DEF old
  <2>6. Put(m, i, n, promoted) \in Machines(K, d, A) /\ Table(Put(m, i, n, promoted), i)[n] # <<>>
    BY <1>2, <1>4, <2>2, PutIn
  <2> QED
    BY <1>2, <1>4, <2>1, <2>5, <2>6
<1>5. CASE ~(here /\ Has(old, "local")) /\ ~(given /\ here /\ i # TempEnv)
  <2>1. MakeLocal(m, n) = [m |-> Insert(m, f, n, new), place |-> f]
    BY <1>1, <1>5, Zenon
  <2>2. f \in 1..Len(K) /\ K[f].scope = d /\ f \in 0..Len(K)
    BY <1>0, FunctionPlace
  <2>3. as \in SUBSET Attributes /\ "local" \in as /\ "tempvar" \notin as
    BY DEF Attributes
  <2>4. val \in Strings
    BY <1>2 DEF Strings, Variable, VariableRecord, Has
  <2>5. new = [NewVariable(n) EXCEPT !.value = val, !.context = m.variable_context,
                                     !.attributes = as]
    OBVIOUS
  <2>6. given /\ "exported" \in as => Candidate(old) /\ val = old.value
    BY <1>2 DEF Candidate, Variable, Has
  <2>7. ~given => "invisible" \in as
    OBVIOUS
  <2>8. given => "invisible" \notin as
    OBVIOUS
  <2>9. given => i # Nowhere
    OBVIOUS
  <2> HIDE DEF new, as, val, f, given
  <2>10. new \in Variable /\ new.name = n /\ new.context = d /\ new.attributes = as /\ new.value = val
    BY <1>0, <2>3, <2>4, <2>5 DEF NewVariable, Variable, VariableRecord, Has, Strings
  <2>11. new \in VariablesAt(n, K, A, f)
    <3>1. f # TempEnv
      BY <1>0, <2>2
    <3>2. Handed(new)
      BY <2>3, <2>10, Zenon DEF Handed, Has
    <3> QED
      BY <2>2, <2>10, <3>1, <3>2 DEF VariablesAt, ScopeVariables
  <2>12. ASSUME ~(given /\ "exported" \in as)
         PROVE  Kept(m, Insert(m, f, n, new))
    <3>1. ~Candidate(new)
      BY <2>7, <2>10, <2>12 DEF Candidate, Has
    <3>2. Kept(m, Insert(m, f, n, new))
      BY <2>2, <2>11, <3>1, KeptByInsert
    <3> QED
      BY <3>2
  <2>13. ASSUME given, "exported" \in as
         PROVE  Kept(m, Insert(m, f, n, new))
    <3>1. Candidate(new)
      BY <2>8, <2>10, <2>13 DEF Candidate, Has
    <3>2. i \in 0..Len(K) /\ IsOffered(m, n, i, val)
      <4>1. Table(m, i)[n] \in Seq(VariablesAt(n, K, A, i)) /\ old = Table(m, i)[n][1]
        BY <1>2, <2>9, <2>13, ListType DEF At
      <4>2. Candidate(old) /\ val = old.value
        BY <2>6, <2>13
      <4> HIDE DEF i, old
      <4>3. Offers(Table(m, i)[n]) = {val}
        BY <1>2, <2>9, <2>13, <4>1, <4>2, OffersOf
      <4>4. \A k \in 0..(i - 1) : k \in 0..Len(K) /\ k < i
        BY <1>0, <1>2, <2>9, <2>13
      <4>5. \A k \in 0..(i - 1) : Offers(Table(m, k)[n]) = {}
        BY <1>2, <2>9, <2>13, <4>4, OffersNothing
      <4> QED
        BY <1>2, <2>9, <2>13, <4>3, <4>5 DEF IsOffered
    <3> HIDE DEF i, old
    <3>3. Kept(m, Insert(m, f, n, new))
      BY <2>2, <2>10, <2>11, <3>1, <3>2, KeptByCopy
    <3> QED
      BY <3>3
  <2>14. Kept(m, Insert(m, f, n, new))
    BY <2>12, <2>13
  <2>15. Insert(m, f, n, new) \in Machines(K, d, A) /\ Table(Insert(m, f, n, new), f)[n] # <<>>
    BY <2>2, <2>11, InsertIn
  <2> QED
    BY <2>1, <2>2, <2>14, <2>15
<1> QED
  BY <1>3, <1>4, <1>5

LEMMA BindValueIn ==
    ASSUME NEW K \in Shapes, NEW d \in Nat, NEW A \in SUBSET Attributes,
           NEW m \in Machines(K, d, A), NEW i \in 0..Len(K), NEW n \in Names,
           Table(m, i)[n] # <<>>, NEW val \in Strings
    PROVE  BindValue(m, i, n, val) \in Machines(K, d, A) /\ Kept(m, BindValue(m, i, n, val))
<1> DEFINE old == At(m, i, n)
           v == Bound(old, val)
           h == Has(v, "exported")
           p == Put(m, i, n, v)
<1>1. old \in VariablesAt(n, K, A, i) /\ old \in Variable
  BY ListType, VariablesAtType
<1> HIDE DEF old
<1>2. v \in VariablesAt(n, K, A, i) /\ v.attributes = old.attributes \ {"invisible"}
  BY <1>1, BoundIn DEF Bound, Clear, Variable, VariableRecord
<1>3. BindValue(m, i, n, val) = Flag(p, h) /\ h \in BOOLEAN
  BY DEF BindValue, old, Has
<1>4. ~h => ~Candidate(v) /\ ~Candidate(old)
  BY <1>2 DEF Candidate, Has
<1> HIDE DEF v, h
<1>5. ~h => Kept(m, p)
  BY <1>2, <1>4, KeptByPut DEF old
<1>6. p \in Machines(K, d, A)
  BY <1>2, PutIn
<1> HIDE DEF p
<1>7. Flag(p, h) \in Machines(K, d, A) /\ Kept(p, Flag(p, h)) /\ (h => Flag(p, h).array_needs_making)
  BY <1>3, <1>6, KeptByFlag, FlagIn
<1> QED
  BY <1>3, <1>5, <1>7, KeptTwice, KeptAsked

LEMMA LocalIn ==
    ASSUME NEW K \in Shapes, NEW d \in Nat, NEW A \in SUBSET Attributes,
           NEW m \in Machines(K, d, A), NEW n \in Names, NEW val \in Strings, InFunction(K, d)
    PROVE  Local(m, n, val) \in Machines(K, d, A) /\ Kept(m, Local(m, n, val))
<1> DEFINE l == MakeLocal(m, n)
<1>1. Local(m, n, val) = IF val = NoValue THEN l.m ELSE BindValue(l.m, l.place, n, val)
  BY DEF Local
<1>2. l.m \in Machines(K, d, A) /\ l.place \in 0..Len(K) /\ Table(l.m, l.place)[n] # <<>>
  BY MakeLocalIn
<1>3. Kept(m, l.m)
  BY MakeLocalIn
<1> HIDE DEF l
<1>4. BindValue(l.m, l.place, n, val) \in Machines(K, d, A) /\ Kept(l.m, BindValue(l.m, l.place, n, val))
  BY <1>2, BindValueIn
<1> QED
  BY <1>1, <1>2, <1>3, <1>4, KeptTwice

(* A machine whose given variables have fewer attributes. *)
LEMMA MoreAttributes ==
    ASSUME NEW K \in Shapes, NEW d \in Nat, NEW B \in SUBSET Attributes, NEW A \in SUBSET B,
           NEW m \in Machines(K, d, A)
    PROVE  m \in Machines(K, d, B)
<1>1. \A i, n : VariablesAt(n, K, A, i) \subseteq VariablesAt(n, K, B, i)
  BY DEF VariablesAt, GivenVariables
<1>2. \A i : TablesAt(K, A, i) \subseteq TablesAt(K, B, i)
  BY <1>1 DEF TablesAt
<1>3. \A i : ContextAt(K, A, i) \subseteq ContextAt(K, B, i)
  BY <1>2 DEF ContextAt
<1>4. ContextsOf(K, A) \subseteq ContextsOf(K, B)
  BY <1>3 DEF ContextsOf
<1> QED
  BY <1>2, <1>4 DEF Machines

LEMMA DeclareExportIn ==
    ASSUME NEW K \in Shapes, NEW d \in Nat, NEW A \in SUBSET Attributes,
           {"exported", "propagate"} \subseteq A,
           NEW m \in Machines(K, d, A), NEW n \in Names, d > 0 => InFunction(K, d)
    PROVE  /\ DeclareExport(m, n) \in Machines(K, d, A)
           /\ m.array_needs_making => DeclareExport(m, n).array_needs_making
<1> DEFINE l == IF m.variable_context > 0 THEN MakeLocal(m, n)
                ELSE IF FindVariable(m, n) # Nowhere THEN [m |-> m, place |-> FindVariable(m, n)]
                ELSE LET b == BindVariable(m, n, NoValue)
                     IN  [m |-> Put(b, Global(b), n, Set(At(b, Global(b), n), {"invisible"})),
                          place |-> Global(b)]
           x == Put(l.m, l.place, n, Set(At(l.m, l.place, n), {"exported"}))
           v == At(x, l.place, n)
           b == BindVariable(x, n, v.value)
           t == At(b, Target(b, n), n)
           as == (v.attributes \ {"tempvar"}) \cup IF t.context > 0 THEN {"propagate"} ELSE {}
           y == IF x.temporary_env[n] = <<>> THEN x
                ELSE Put(b, Target(b, n), n, Set(t, as))
           z == Put(y, l.place, n, Set(At(y, l.place, n), {"propagate"}))
<1>0. Table(m, 0) = m.temporary_env /\ TempEnv = 0 /\ 0 \in 0..Len(K) /\ Len(K) \in Nat \ {0}
      /\ m.variable_context = d
  BY ShapeType, MachineParts DEF Table, TempEnv
<1>1. DeclareExport(m, n) = IF Has(v, "tempvar") THEN z ELSE x
  BY DEF DeclareExport
<1>2. /\ l.m \in Machines(K, d, A) /\ l.place \in 0..Len(K) /\ Table(l.m, l.place)[n] # <<>>
      /\ m.array_needs_making => l.m.array_needs_making
  <2>1. CASE d > 0
    BY <1>0, <2>1, MakeLocalIn DEF Kept
  <2>2. CASE ~(d > 0) /\ FindVariable(m, n) # Nowhere
    BY <1>0, <2>2, FindEnds
  <2>3. CASE ~(d > 0) /\ FindVariable(m, n) = Nowhere
    <3> DEFINE c == BindVariable(m, n, NoValue)
               new == Put(c, Global(c), n, Set(At(c, Global(c), n), {"invisible"}))
    <3>1. l = [m |-> new, place |-> Global(c)]
      BY <1>0, <2>3
    <3>2. VarLookup(m, n) = Nowhere
      BY <1>0, <2>3, FindEnds, LookupEnds DEF FindVariable, TempEnv, Nowhere
    <3>3. /\ c \in Machines(K, d, A) /\ Table(c, Len(K))[n] # <<>>
          /\ ~Has(At(c, Len(K), n), "tempvar")
          /\ m.array_needs_making => c.array_needs_making
      BY <3>2, BindVariableIn DEF Strings, Has
    <3>4. Global(c) = Len(K)
      BY <3>3, MachineParts
    <3> HIDE DEF c
    <3>5. {"invisible"} \in SUBSET Attributes
      BY DEF Attributes
    <3>6. new \in Machines(K, d, A) /\ Table(new, Len(K))[n] # <<>>
          /\ new.array_needs_making = c.array_needs_making
      BY <1>0, <3>3, <3>4, <3>5, SetAt
    <3> HIDE DEF new, l
    <3> QED
      BY <1>0, <3>1, <3>3, <3>4, <3>6
  <2> QED
    BY <2>1, <2>2, <2>3
<1> HIDE DEF l
<1>3. x \in Machines(K, d, A) /\ Table(x, l.place)[n] # <<>>
      /\ x.array_needs_making = l.m.array_needs_making
  <2>1. {"exported"} \in SUBSET Attributes
    BY DEF Attributes
  <2> QED
    BY <1>2, <2>1, SetAt
<1> HIDE DEF x
<1>4. v \in Variable
  BY <1>2, <1>3, ListType, VariablesAtType
<1>5. v.value \in Strings /\ v.attributes \in SUBSET Attributes
  BY <1>4 DEF Variable, VariableRecord, Has
<1> HIDE DEF v
<1>6. ASSUME Has(v, "tempvar")
      PROVE  /\ y \in Machines(K, d, A) /\ Table(y, l.place)[n] # <<>>
             /\ x.array_needs_making => y.array_needs_making
  <2>1. /\ b \in Machines(K, d, A) /\ Target(b, n) \in 1..Len(K) /\ Table(b, Target(b, n))[n] # <<>>
        /\ x.array_needs_making => b.array_needs_making
    BY <1>3, <1>5, BindVariableIn
  <2>2. Table(b, l.place)[n] # <<>>
    BY <1>2, <1>3, <1>5, BindKeepsPlaces
  <2> HIDE DEF b
  <2>3. as \in SUBSET Attributes /\ "tempvar" \notin as /\ "invisible" \notin as
    BY <1>4, <1>5, <1>6 DEF Attributes, Variable, Has
  <2> HIDE DEF as
  <2> DEFINE w == Set(t, as)
             p == Put(b, Target(b, n), n, w)
  <2>4. Target(b, n) \in 0..Len(K) /\ Target(b, n) # TempEnv
    BY <1>0, <2>1
  <2>5. t \in VariablesAt(n, K, A, Target(b, n))
    BY <2>1, <2>4, ListType
  <2>6. w \in VariablesAt(n, K, A, Target(b, n))
    BY <2>3, <2>4, <2>5, SetIn
  <2> HIDE DEF w
  <2>7. p \in Machines(K, d, A) /\ Table(p, Target(b, n))[n] # <<>>
        /\ p.array_needs_making = b.array_needs_making
    BY <2>1, <2>4, <2>6, PutIn
  <2>8. Table(p, l.place)[n] # <<>>
    BY <1>2, <2>1, <2>2, <2>4, <2>6, <2>7, PutElsewhere
  <2>9. y = IF x.temporary_env[n] = <<>> THEN x ELSE p
    BY Zenon DEF w
  <2> HIDE DEF y, p
  <2> QED
    BY <1>3, <2>1, <2>7, <2>8, <2>9
<1> HIDE DEF y
<1>7. ASSUME Has(v, "tempvar")
      PROVE  z \in Machines(K, d, A) /\ z.array_needs_making = y.array_needs_making
  <2>1. {"propagate"} \in SUBSET Attributes
    BY DEF Attributes
  <2> QED
    BY <1>2, <1>6, <1>7, <2>1, SetAt
<1> HIDE DEF z
<1> QED
  BY <1>1, <1>2, <1>3, <1>6, <1>7

(* A list in which makunbound() does not hit a second variable. *)
Alone(vs) == Len(vs) < 2 \/ \A j \in 1..Len(vs) : ~Has(vs[j], "local")

LEMMA MakunboundIn ==
    ASSUME NEW K \in Shapes, NEW d \in Nat, NEW A \in SUBSET Attributes,
           NEW m \in Machines(K, d, A), NEW n \in Names
    PROVE  /\ Makunbound(m, n) \in Machines(K, d, A)
           /\ (\A i \in 1..Len(K) : Alone(Table(m, i)[n])) => Kept(m, Makunbound(m, n))
<1> DEFINE i    == VarLookup(m, n)
           old  == At(m, i, n)
           rest == Tail(Table(m, i)[n])
           kept == [old EXCEPT !.value = NoValue, !.exportstr = NoValue,
                      !.attributes = {"local", "invisible"}
                         \cup IF {"exported", "tempvar"} \subseteq @ THEN {"exported"} ELSE {}]
           local == Has(old, "local") /\ old.context = m.variable_context
           vs == IF ~local THEN rest ELSE IF rest = <<>> THEN <<kept>> ELSE <<kept>> \o Tail(rest)
           h == Has(old, "exported")
<1>1. Makunbound(m, n) = IF i = Nowhere THEN m ELSE Flag(PutAll(m, i, n, vs), h)
  BY DEF Makunbound
<1>2. ASSUME i # Nowhere
      PROVE  /\ Flag(PutAll(m, i, n, vs), h) \in Machines(K, d, A)
             /\ Alone(Table(m, i)[n]) => Kept(m, Flag(PutAll(m, i, n, vs), h))
             /\ i \in 1..Len(K)
  <2>1. i \in 1..Len(K) /\ Table(m, i)[n] # <<>>
    BY <1>2, LookupEnds
  <2> DEFINE as == {"local", "invisible"}
                     \cup IF {"exported", "tempvar"} \subseteq old.attributes THEN {"exported"} ELSE {}
  <2>2. i \in 0..Len(K) /\ i # TempEnv
    BY <2>1, ShapeType DEF TempEnv
  <2> HIDE DEF i
  <2>3. old \in VariablesAt(n, K, A, i) /\ rest \in Seq(VariablesAt(n, K, A, i))
    BY <2>1, <2>2, ListType
  <2>4. old \in Variable
    BY <2>3, VariablesAtType
  <2>5. kept = [old EXCEPT !.value = NoValue, !.exportstr = NoValue, !.attributes = as]
    BY <2>4 DEF Variable, VariableRecord, Has
  <2>6. as \in SUBSET Attributes /\ "local" \in as /\ "tempvar" \notin as
    BY DEF Attributes
  <2> HIDE DEF as, old, kept
  <2>7. kept \in Variable /\ kept.name = old.name /\ kept.context = old.context
        /\ kept.attributes = as
    BY <2>4, <2>5, <2>6 DEF Variable, VariableRecord, Has, Strings
  <2>8. Handed(kept)
    BY <2>6, <2>7, Zenon DEF Handed, Has
  <2>9. kept \in VariablesAt(n, K, A, i)
    BY <2>2, <2>3, <2>7, <2>8 DEF VariablesAt, ScopeVariables
  <2> HIDE DEF rest
  <2>10. vs \in Seq(VariablesAt(n, K, A, i))
    <3>1. rest # <<>> => Tail(rest) \in Seq(VariablesAt(n, K, A, i))
      BY <2>3
    <3>2. <<kept>> \in Seq(VariablesAt(n, K, A, i))
      BY <2>9
    <3>3. rest # <<>> => <<kept>> \o Tail(rest) \in Seq(VariablesAt(n, K, A, i))
      BY <3>1, <3>2
    <3> QED
      BY <2>3, <3>2, <3>3
  <2>11. h \in BOOLEAN
    BY DEF Has
  <2> DEFINE us == Table(m, i)[n]
  <2>13. us \in Seq(VariablesAt(n, K, A, i)) /\ us # <<>> /\ old = us[1] /\ rest = Tail(us)
    BY <2>1, <2>2, ListType DEF At, old, rest
  <2>14. ~h /\ Alone(us) => Offers(vs) = Offers(us)
    <3>1. ASSUME ~h, Alone(us)
          PROVE  Offers(vs) = Offers(us)
      <4>1. Offers(us) = Offers(rest)
        <5>1. ~Candidate(us[1])
          BY <2>13, <3>1 DEF Candidate
        <5> HIDE DEF us
        <5> QED
          BY <2>13, <5>1, OffersOf
      <4>2. CASE ~local
        BY <4>1, <4>2
      <4>3. CASE local
        <5>1. Has(us[1], "local")
          BY <2>13, <4>3
        <5> HIDE DEF us, local
        <5>2. Len(us) \in Nat \ {0}
          BY <2>13
        <5>3. Len(us) < 2
          BY <3>1, <5>1, <5>2 DEF Alone
        <5>4. Tail(us) = <<>>
          BY <2>13, <5>2, <5>3
        <5>5. rest = <<>> /\ vs = <<kept>>
          BY <2>13, <4>3, <5>4
        <5>6. ~Candidate(kept)
          BY <2>7 DEF Candidate, Has, as
        <5>7. <<kept>> = <<kept>> \o <<>> /\ <<>> \in Seq(Variable)
          OBVIOUS
        <5>8. Offers(<<kept>>) = Offers(<<>>)
          BY <5>6, <5>7, OffersFirst
        <5> QED
          BY <4>1, <5>5, <5>8
      <4> QED
        BY <4>2, <4>3
    <3> QED
      BY <3>1
  <2> HIDE DEF vs, h
  <2>12. PutAll(m, i, n, vs) \in Machines(K, d, A)
    BY <2>2, <2>10, PutAllIn
  <2>15. ~h /\ Alone(us) => Kept(m, PutAll(m, i, n, vs))
    BY <2>2, <2>10, <2>14, KeptByPutAll
  <2> DEFINE x == PutAll(m, i, n, vs)
  <2> HIDE DEF x
  <2>16. Flag(x, h) \in Machines(K, d, A) /\ Kept(x, Flag(x, h))
         /\ (h => Flag(x, h).array_needs_making)
    BY <2>11, <2>12, FlagIn, KeptByFlag DEF x
  <2>17. Alone(us) => Kept(m, Flag(x, h))
    BY <2>15, <2>16, KeptTwice, KeptAsked DEF x
  <2> QED
    BY <2>1, <2>16, <2>17 DEF x
<1> HIDE DEF i, vs, h
<1> QED
  BY <1>1, <1>2, KeptItself

LEMMA ReverseType ==
    ASSUME NEW S, NEW seq \in Seq(S)
    PROVE  Reverse(seq) \in Seq(S) /\ (Len(seq) < 2 => Reverse(seq) = seq)
<1>1. Len(seq) \in Nat /\ DOMAIN seq = 1..Len(seq)
  OBVIOUS
<1>2. Reverse(seq) \in [1..Len(seq) -> S]
  BY <1>1 DEF Reverse
<1>3. Reverse(seq) \in Seq(S)
  BY <1>1, <1>2, ListOf
<1>4. ASSUME Len(seq) < 2
      PROVE  Reverse(seq) = seq
  <2>1. \A j \in 1..Len(seq) : (Len(seq) - j) + 1 = j
    BY <1>1, <1>4
  <2>2. Reverse(seq) = [j \in 1..Len(seq) |-> seq[j]]
    BY <1>1, <2>1 DEF Reverse
  <2>3. seq = [j \in 1..Len(seq) |-> seq[j]]
    BY <1>1
  <2> QED
    BY <2>2, <2>3
<1> QED
  BY <1>3, <1>4

(* Another table at a place. *)
LEMMA TableIn ==
    ASSUME NEW K \in Shapes, NEW d \in Nat, NEW A, NEW m \in Machines(K, d, A),
           NEW i \in 1..Len(K), NEW t \in TablesAt(K, A, i),
           NEW x, x = [m EXCEPT !.contexts[i].table = t]
    PROVE  /\ x \in Machines(K, d, A)
           /\ Table(x, i) = t /\ \A j \in 0..Len(K) : j # i => Table(x, j) = Table(m, j)
           /\ x.array_needs_making = m.array_needs_making /\ x.export_env = m.export_env
<1> DEFINE c == [m.contexts[i] EXCEPT !.table = t]
           cs == [m.contexts EXCEPT ![i] = c]
<1>1. m.contexts \in Seq(Context) /\ Len(m.contexts) = Len(K) /\ m.contexts[i] \in Context
      /\ \A j \in 1..Len(K) : m.contexts[j] \in ContextAt(K, A, j)
  BY DEF Machines, ContextsOf
<1>2. c \in ContextAt(K, A, i) /\ c \in Context /\ c.table = t
  BY <1>1 DEF ContextAt, Context, TablesAt
<1> HIDE DEF c
<1>3. cs \in Seq(Context) /\ Len(cs) = Len(K)
      /\ \A j \in 1..Len(K) : cs[j] = IF j = i THEN c ELSE m.contexts[j]
  BY <1>1, <1>2
<1> HIDE DEF cs
<1>4. cs \in ContextsOf(K, A)
  BY <1>1, <1>2, <1>3 DEF ContextsOf
<1>5. [m EXCEPT !.contexts[i].table = t] = [m EXCEPT !.contexts = cs]
  BY DEF cs, c
<1>6. /\ x \in Machines(K, d, A) /\ x.contexts = cs /\ x.temporary_env = m.temporary_env
      /\ x.array_needs_making = m.array_needs_making /\ x.export_env = m.export_env
  BY <1>4, <1>5 DEF Machines
<1>7. Table(x, i) = t /\ \A j \in 0..Len(K) : j # i => Table(x, j) = Table(m, j)
  <2>1. i # TempEnv /\ \A j \in 0..Len(K) : j # TempEnv => j \in 1..Len(K)
    BY DEF TempEnv
  <2> QED
    BY <1>2, <1>3, <1>6, <2>1 DEF Table
<1> QED
  BY <1>6, <1>7

LEMMA GrowIn ==
    ASSUME NEW K \in Shapes, NEW d \in Nat, NEW A \in SUBSET Attributes,
           NEW m \in Machines(K, d, A), InFunction(K, d)
    PROVE  /\ Grow(m) \in Machines(K, d, A)
           /\ (\A i \in 1..Len(K), n \in Names : Len(Table(m, i)[n]) < 2) => Kept(m, Grow(m))
<1> DEFINE f == FunctionContext(m)
           t == [n \in Names |-> Reverse(m.contexts[f].table[n])]
<1>1. f \in 1..Len(K)
  BY FunctionPlace
<1>2. f # TempEnv /\ f \in 0..Len(K)
  BY <1>1, ShapeType DEF TempEnv
<1>3. Grow(m) = [m EXCEPT !.contexts[f].table = t]
  BY DEF Grow
<1> HIDE DEF f
<1>4. m.contexts[f].table = Table(m, f)
  BY <1>2 DEF Table
<1>5. ASSUME NEW n \in Names
      PROVE  /\ t[n] \in Seq(VariablesAt(n, K, A, f)) /\ t[n] \in Seq(Variable)
             /\ Len(Table(m, f)[n]) < 2 => t[n] = Table(m, f)[n]
  <2>1. Table(m, f)[n] \in Seq(VariablesAt(n, K, A, f))
    BY <1>2, ListType
  <2>2. /\ Reverse(Table(m, f)[n]) \in Seq(VariablesAt(n, K, A, f))
        /\ Len(Table(m, f)[n]) < 2 => Reverse(Table(m, f)[n]) = Table(m, f)[n]
    BY <2>1, ReverseType
  <2>3. t[n] = Reverse(Table(m, f)[n])
    BY <1>4
  <2> QED
    BY <2>2, <2>3, VariablesAtType
<1>6. t \in TablesAt(K, A, f)
  BY <1>5 DEF TablesAt
<1> HIDE DEF t
<1> DEFINE x == Grow(m)
<1> HIDE DEF x
<1>9. x = [m EXCEPT !.contexts[f].table = t]
  BY <1>3, Zenon DEF x
<1>7. /\ x \in Machines(K, d, A)
      /\ Table(x, f) = t /\ \A j \in 0..Len(K) : j # f => Table(x, j) = Table(m, j)
      /\ x.array_needs_making = m.array_needs_making /\ x.export_env = m.export_env
  BY <1>1, <1>6, <1>9, TableIn
<1>8. ASSUME \A i \in 1..Len(K), n \in Names : Len(Table(m, i)[n]) < 2
      PROVE  Kept(m, x)
  <2>1. ASSUME NEW n \in Names, NEW j \in 0..Len(K)
        PROVE  Table(x, j)[n] = Table(m, j)[n]
    BY <1>1, <1>5, <1>7, <1>8
  <2>2. ASSUME NEW n \in Names
        PROVE  Deserves(x, n) = Deserves(m, n)
    BY <1>7, <2>1, SameOffers
  <2> QED
    BY <1>7, <2>2 DEF Kept
<1> QED
  BY <1>7, <1>8 DEF x

------------------------------------------------------------------------------
(* Pushing a context and taking it away. *)

Pushed(K, kind, d) == <<[kind |-> kind, scope |-> d]>> \o K

LEMMA PushedShape ==
    ASSUME NEW K \in Shapes, NEW kind \in Kinds, NEW d \in Nat
    PROVE  /\ Pushed(K, kind, d) \in Shapes /\ Len(Pushed(K, kind, d)) = Len(K) + 1
           /\ Pushed(K, kind, d)[1] = [kind |-> kind, scope |-> d]
           /\ \A i \in 1..Len(K) : Pushed(K, kind, d)[i + 1] = K[i]
           /\ Tail(Pushed(K, kind, d)) = K
<1> DEFINE c == [kind |-> kind, scope |-> d]
<1>1. c \in Shape /\ K \in Seq(Shape) /\ Len(K) \in Nat \ {0}
  BY ShapeType DEF Shape, Shapes
<1>2. Pushed(K, kind, d) = <<c>> \o K
  BY DEF Pushed
<1> HIDE DEF c
<1>3. <<c>> \o K \in Seq(Shape) /\ Len(<<c>> \o K) = Len(K) + 1 /\ (<<c>> \o K)[1] = c
      /\ \A i \in 1..Len(K) : (<<c>> \o K)[i + 1] = K[i]
  BY <1>1
<1>4. Tail(<<c>> \o K) = K
  BY <1>1
<1>5. Pushed(K, kind, d) \in Shapes
  <2>1. (<<c>> \o K)[Len(K) + 1] = K[Len(K)]
    BY <1>1, <1>3
  <2>2. K[Len(K)].kind = "global" /\ K[Len(K)].scope = 0
    BY DEF Shapes
  <2> DEFINE P == Pushed(K, kind, d)
  <2>3. P \in Seq(Shape) /\ Len(P) > 0 /\ P[Len(P)] = K[Len(K)]
    BY <1>1, <1>2, <1>3, <2>1
  <2> HIDE DEF P
  <2>4. P \in Shapes
    BY <2>2, <2>3 DEF Shapes
  <2> QED
    BY <2>4 DEF P
<1> QED
  BY <1>2, <1>3, <1>4, <1>5 DEF c

(* What a context above the global one asks of its variables, and the      *)
(* global one does not, depends on where it is from the bottom.            *)
LEMMA ContextShift ==
    ASSUME NEW K, NEW L, NEW A, NEW i \in Nat, NEW j \in Nat, i # TempEnv, j # TempEnv,
           K[i] = L[j], i < Len(K) <=> j < Len(L)
    PROVE  ContextAt(K, A, i) = ContextAt(L, A, j)
<1>1. \A n : VariablesAt(n, K, A, i) = VariablesAt(n, L, A, j)
  BY DEF VariablesAt, ScopeVariables
<1>2. TablesAt(K, A, i) = TablesAt(L, A, j)
  BY <1>1 DEF TablesAt
<1> QED
  BY <1>2 DEF ContextAt

LEMMA GivenTables ==
    ASSUME NEW K, NEW L, NEW A
    PROVE  TablesAt(K, A, TempEnv) = TablesAt(L, A, TempEnv)
  BY DEF TablesAt, VariablesAt

LEMMA NothingGiven ==
    ASSUME NEW K, NEW A
    PROVE  NoTable \in TablesAt(K, A, TempEnv)
<1>1. NoTable \in [Names -> Seq(Variable)] /\ \A n \in Names : NoTable[n] = <<>>
  BY DEF NoTable
<1>2. \A n : <<>> \in Seq(VariablesAt(n, K, A, TempEnv))
  OBVIOUS
<1> QED
  BY <1>1, <1>2 DEF TablesAt

(* What makes a difference to the environment of commands. *)
Alike(v, w) == v.attributes = w.attributes /\ v.value = w.value

LEMMA InContextIn ==
    ASSUME NEW K \in Shapes, NEW A \in SUBSET Attributes, NEW t \in TablesAt(K, A, TempEnv)
    PROVE  /\ InContext(t, K[1].scope) \in TablesAt(K, A, 1)
           /\ \A n \in Names : /\ DOMAIN InContext(t, K[1].scope)[n] = DOMAIN t[n]
                               /\ \A j \in DOMAIN t[n] :
                                    Alike(InContext(t, K[1].scope)[n][j], t[n][j])
<1> DEFINE c == K[1].scope
           w(n, j) == [t[n][j] EXCEPT !.context = c]
           r(n) == [j \in DOMAIN t[n] |-> w(n, j)]
<1>0. 1 # TempEnv /\ c \in Nat
  BY ShapeType DEF TempEnv
<1>1. InContext(t, c) = [n \in Names |-> r(n)]
  BY DEF InContext
<1>2. ASSUME NEW n \in Names
      PROVE  /\ r(n) \in Seq(VariablesAt(n, K, A, 1)) /\ DOMAIN r(n) = DOMAIN t[n]
             /\ \A j \in DOMAIN t[n] : Alike(r(n)[j], t[n][j])
  <2>1. t[n] \in Seq(VariablesAt(n, K, A, TempEnv))
    BY DEF TablesAt
  <2>2. ASSUME NEW j \in 1..Len(t[n])
        PROVE  w(n, j) \in VariablesAt(n, K, A, 1) /\ Alike(w(n, j), t[n][j])
    <3> DEFINE v == t[n][j]
    <3>1. v \in Variable /\ v.name = n /\ Has(v, "tempvar")
      BY <2>1 DEF VariablesAt, GivenVariables
    <3> HIDE DEF v, c
    <3>2. [v EXCEPT !.context = c] \in Variable
          /\ [v EXCEPT !.context = c].name = v.name
          /\ Alike([v EXCEPT !.context = c], v)
          /\ [v EXCEPT !.context = c].context = c
      BY <1>0, <3>1 DEF Variable, VariableRecord, Has, Alike
    <3>3. Handed([v EXCEPT !.context = c])
      BY <3>1, <3>2 DEF Handed, Has, Alike
    <3> QED
      BY <1>0, <3>1, <3>2, <3>3 DEF VariablesAt, ScopeVariables, v, c
  <2> HIDE DEF w
  <2>3. r(n) \in [1..Len(t[n]) -> VariablesAt(n, K, A, 1)] /\ Len(t[n]) \in Nat
        /\ DOMAIN t[n] = 1..Len(t[n])
    BY <2>1, <2>2
  <2>4. \A j \in 1..Len(t[n]) : r(n)[j] = w(n, j)
    BY <2>3
  <2> HIDE DEF r
  <2> QED
    BY <2>2, <2>3, <2>4, ListOf
<1> HIDE DEF r, c
<1>3. \A n \in Names : r(n) \in Seq(Variable)
  BY <1>2, VariablesAtType
<1>4. InContext(t, c) \in TablesAt(K, A, 1)
      /\ \A n \in Names : /\ DOMAIN InContext(t, c)[n] = DOMAIN t[n]
                          /\ \A j \in DOMAIN t[n] : Alike(InContext(t, c)[n][j], t[n][j])
  BY <1>1, <1>2, <1>3 DEF TablesAt
<1> QED
  BY <1>4 DEF c

LEMMA PushIn ==
    ASSUME NEW K \in Shapes, NEW d \in Nat, NEW A \in SUBSET Attributes,
           NEW m \in Machines(K, d, A), NEW kind \in Kinds
    PROVE  /\ Push(m, kind) \in Machines(Pushed(K, kind, d), d, A)
           /\ \A n \in Names : \A j \in DOMAIN Table(Push(m, kind), 1)[n] :
                Table(Push(m, kind), 1)[n][j].attributes \subseteq A
           /\ Push(m, kind).temporary_env = NoTable
           /\ \A i \in 1..Len(K) : Table(Push(m, kind), i + 1) = Table(m, i)
           /\ \A n \in Names : Len(Table(Push(m, kind), 1)[n]) = Len(m.temporary_env[n])
           /\ Kept(m, Push(m, kind))
<1> DEFINE L == Pushed(K, kind, d)
           t == InContext(m.temporary_env, m.variable_context)
           c == [kind |-> kind, scope |-> m.variable_context, table |-> t]
           cs == <<c>> \o m.contexts
<1>0. L \in Shapes /\ Len(L) = Len(K) + 1 /\ L[1] = [kind |-> kind, scope |-> d]
      /\ (\A i \in 1..Len(K) : L[i + 1] = K[i]) /\ Len(K) \in Nat \ {0}
  BY PushedShape, ShapeType
<1> HIDE DEF L
<1>1. m.variable_context = d /\ m.temporary_env \in TablesAt(K, A, TempEnv)
  BY MachineParts DEF Machines
<1>2. m.temporary_env \in TablesAt(L, A, TempEnv)
  BY <1>1, GivenTables
<1>3. /\ t \in TablesAt(L, A, 1)
      /\ \A n \in Names : /\ DOMAIN t[n] = DOMAIN m.temporary_env[n]
                          /\ \A j \in DOMAIN m.temporary_env[n] :
                               Alike(t[n][j], m.temporary_env[n][j])
  <2>1. L[1].scope = d
    BY <1>0
  <2> QED
    BY <1>0, <1>1, <1>2, <2>1, InContextIn
<1> HIDE DEF t
<1>4. c \in ContextAt(L, A, 1) /\ c \in Context /\ c.table = t
  BY <1>0, <1>1, <1>3 DEF ContextAt, Context, TablesAt
<1> HIDE DEF c
<1>5. m.contexts \in Seq(Context) /\ Len(m.contexts) = Len(K)
      /\ \A i \in 1..Len(K) : m.contexts[i] \in ContextAt(K, A, i)
  BY DEF Machines, ContextsOf
<1>6. cs \in Seq(Context) /\ Len(cs) = Len(L) /\ cs[1] = c
      /\ \A i \in 1..Len(K) : cs[i + 1] = m.contexts[i]
  <2>1. <<c>> \in Seq(Context) /\ Len(<<c>>) = 1 /\ <<c>>[1] = c
    BY <1>4
  <2>2. cs \in Seq(Context) /\ Len(cs) = 1 + Len(K)
    BY <1>5, <2>1
  <2>3. cs[1] = c
    BY <1>5, <2>1
  <2>4. \A i \in 1..Len(K) : cs[i + 1] = m.contexts[i]
    BY <1>0, <1>5, <2>1
  <2> QED
    BY <1>0, <2>2, <2>3, <2>4
<1> HIDE DEF cs
<1>7. ASSUME NEW i \in 1..Len(L)
      PROVE  cs[i] \in ContextAt(L, A, i)
  <2>1. CASE i = 1
    BY <1>4, <1>6, <2>1
  <2>2. CASE i # 1
    <3>1. i - 1 \in 1..Len(K) /\ (i - 1) + 1 = i
      BY <1>0, <2>2
    <3>2. cs[i] = m.contexts[i - 1] /\ L[i] = K[i - 1]
      BY <1>0, <1>6, <3>1
    <3>3. ContextAt(K, A, i - 1) = ContextAt(L, A, i)
      <4>1. i \in Nat /\ i - 1 \in Nat /\ i # TempEnv /\ i - 1 # TempEnv
            /\ (i - 1 < Len(K) <=> i < Len(L))
        BY <1>0, <3>1 DEF TempEnv
      <4> QED
        BY <3>2, <4>1, ContextShift
    <3> QED
      BY <1>5, <3>1, <3>2, <3>3
  <2> QED
    BY <2>1, <2>2
<1>8. cs \in ContextsOf(L, A)
  BY <1>6, <1>7 DEF ContextsOf
<1>9. Push(m, kind) = [m EXCEPT !.contexts = cs, !.temporary_env = NoTable]
  BY DEF Push, cs, c, t
<1>10. /\ Push(m, kind) \in Machines(L, d, A) /\ Push(m, kind).contexts = cs
       /\ Push(m, kind).temporary_env = NoTable /\ Push(m, kind).export_env = m.export_env
       /\ Push(m, kind).array_needs_making = m.array_needs_making
  <2>1. NoTable \in TablesAt(L, A, TempEnv)
    BY NothingGiven
  <2> QED
    BY <1>8, <1>9, <2>1 DEF Machines
<1>11. Table(Push(m, kind), 1) = t
  BY <1>4, <1>6, <1>10 DEF Table, TempEnv
<1>12. ASSUME NEW n \in Names, NEW j \in DOMAIN t[n]
       PROVE  t[n][j].attributes \subseteq A
  <2>1. m.temporary_env[n] \in Seq(GivenVariables(n, A))
    BY <1>1 DEF TablesAt, VariablesAt
  <2>2. j \in DOMAIN m.temporary_env[n] /\ t[n][j].attributes = m.temporary_env[n][j].attributes
    BY <1>3 DEF Alike
  <2>3. m.temporary_env[n][j] \in GivenVariables(n, A)
    BY <2>1, <2>2
  <2> QED
    BY <2>2, <2>3 DEF GivenVariables
<1> DEFINE p == Push(m, kind)
<1>13. Table(p, 0) = NoTable /\ Table(m, 0) = m.temporary_env
       /\ \A i \in 1..Len(K) : Table(p, i + 1) = Table(m, i)
  <2>1. TempEnv = 0 /\ \A i \in 1..Len(K) : i # TempEnv /\ i + 1 # TempEnv
    BY <1>0 DEF TempEnv
  <2> QED
    BY <1>6, <1>10, <2>1 DEF Table
<1>14. ASSUME NEW n \in Names
       PROVE  Len(t[n]) = Len(m.temporary_env[n]) /\ Offers(t[n]) = Offers(m.temporary_env[n])
  <2> DEFINE vs == m.temporary_env[n]
             ws == t[n]
  <2>1. vs \in Seq(Variable) /\ ws \in Seq(Variable)
    BY <1>1, <1>3 DEF TablesAt
  <2>2. DOMAIN ws = DOMAIN vs /\ \A j \in DOMAIN vs : Alike(ws[j], vs[j])
    BY <1>3
  <2> HIDE DEF vs, ws
  <2>3. Len(ws) = Len(vs) /\ Len(vs) \in Nat /\ DOMAIN vs = 1..Len(vs)
    BY <2>1, <2>2
  <2>4. Offers(ws) = Offers(vs)
    BY <2>2, <2>3, OffersLike DEF Alike
  <2> QED
    BY <2>3, <2>4 DEF vs, ws
<1> HIDE DEF p
<1>15. ASSUME NEW n \in Names
       PROVE  Deserves(p, n) = Deserves(m, n)
  <2>1. Offers(Table(p, 0)[n]) = {}
    BY <1>13, OffersNothing DEF NoTable
  <2>2. Offers(Table(p, 1)[n]) = Offers(Table(m, 0)[n])
    BY <1>11, <1>13, <1>14 DEF p
  <2>3. \A i \in 1..Len(K) : Offers(Table(p, i + 1)[n]) = Offers(Table(m, i)[n])
    BY <1>13
  <2>4. p \in Machines(L, d, A)
    BY <1>10 DEF p
  <2> QED
    BY <1>0, <2>1, <2>2, <2>3, <2>4, OffersShifted
<1>16. Kept(m, p)
  BY <1>10, <1>15 DEF Kept, p
<1> QED
  BY <1>10, <1>11, <1>12, <1>13, <1>14, <1>16 DEF L, p

LEMMA PushContextIn ==
    ASSUME NEW K \in Shapes, NEW d \in Nat, NEW A \in SUBSET Attributes,
           NEW m \in Machines(K, d, A)
    PROVE  /\ PushContext(m) \in Machines(Pushed(K, "function", d + 1), d + 1, A)
           /\ Kept(m, PushContext(m))
<1> DEFINE e == [m EXCEPT !.variable_context = @ + 1]
<1>1. /\ e \in Machines(K, d + 1, A) /\ e.array_needs_making = m.array_needs_making
      /\ e.export_env = m.export_env /\ \A i \in 0..Len(K) : Table(e, i) = Table(m, i)
  BY DEF Machines, Table
<1>2. PushContext(m) = Push(e, "function")
  BY DEF PushContext
<1> HIDE DEF e
<1>3. \A n \in Names : Deserves(e, n) = Deserves(m, n)
  <2>1. d + 1 \in Nat
    OBVIOUS
  <2> QED
    BY <1>1, <2>1, SameOffers
<1>4. Kept(m, e)
  BY <1>1, <1>3 DEF Kept
<1>5. Push(e, "function") \in Machines(Pushed(K, "function", d + 1), d + 1, A)
      /\ Kept(e, Push(e, "function"))
  <2>1. d + 1 \in Nat /\ "function" \in Kinds
    BY DEF Kinds
  <2> QED
    BY <1>1, <2>1, PushIn
<1> QED
  BY <1>2, <1>4, <1>5, KeptTwice

AnyExported(table) ==
  \E n \in Names : \E j \in 1..Len(table[n]) : Has(table[n][j], "exported")

(* The context on top is gone. *)
LEMMA PopIn ==
    ASSUME NEW K \in Shapes, NEW kind \in Kinds, NEW c \in Nat, NEW d \in Nat,
           NEW e \in Nat, NEW A \in SUBSET Attributes, NEW m \in Machines(Pushed(K, kind, c), d, A)
    PROVE  LET x == [m EXCEPT !.contexts = Tail(@), !.variable_context = e]
           IN  /\ x \in Machines(K, e, A)
               /\ x.temporary_env = m.temporary_env
               /\ AnyExported(Table(m, 1)) \/ Kept(m, x)
<1> DEFINE L == Pushed(K, kind, c)
           x == [m EXCEPT !.contexts = Tail(@), !.variable_context = e]
           cs == Tail(m.contexts)
<1>0. L \in Shapes /\ Len(L) = Len(K) + 1
      /\ (\A i \in 1..Len(K) : L[i + 1] = K[i]) /\ Len(K) \in Nat \ {0}
  <2>1. Len(K) \in Nat \ {0}
    BY ShapeType
  <2> QED
    BY <2>1, PushedShape
<1>1. m \in Machines(L, d, A)
  OBVIOUS
<1> HIDE DEF L
<1>2. m.contexts \in Seq(Context) /\ Len(m.contexts) = Len(L)
      /\ \A i \in 1..Len(L) : m.contexts[i] \in ContextAt(L, A, i)
  BY <1>1 DEF Machines, ContextsOf
<1>3. cs \in Seq(Context) /\ Len(cs) = Len(K) /\ \A i \in 1..Len(K) : cs[i] = m.contexts[i + 1]
  BY <1>0, <1>2
<1> HIDE DEF cs
<1>4. ASSUME NEW i \in 1..Len(K)
      PROVE  cs[i] \in ContextAt(K, A, i)
  <2>1. ContextAt(K, A, i) = ContextAt(L, A, i + 1)
    BY <1>0, ContextShift DEF TempEnv
  <2>2. i + 1 \in 1..Len(L)
    BY <1>0
  <2> QED
    BY <1>2, <1>3, <2>1, <2>2
<1>5. cs \in ContextsOf(K, A)
  BY <1>3, <1>4 DEF ContextsOf
<1>6. m.temporary_env \in TablesAt(K, A, TempEnv)
  BY <1>1, GivenTables DEF Machines
<1>7. [m EXCEPT !.contexts = Tail(@), !.variable_context = e]
        = [m EXCEPT !.contexts = cs, !.variable_context = e]
  BY DEF cs
<1>8. /\ x \in Machines(K, e, A) /\ x.contexts = cs /\ x.temporary_env = m.temporary_env
      /\ x.array_needs_making = m.array_needs_making /\ x.export_env = m.export_env
  BY <1>1, <1>5, <1>6, <1>7 DEF Machines
<1> HIDE DEF x
<1>9. Table(x, 0) = Table(m, 0) /\ \A i \in 1..Len(K) : Table(m, i + 1) = Table(x, i)
  <2>1. TempEnv = 0 /\ \A i \in 1..Len(K) : i # TempEnv /\ i + 1 # TempEnv
    BY <1>0 DEF TempEnv
  <2> QED
    BY <1>3, <1>8, <2>1 DEF Table
<1>10. ASSUME ~AnyExported(Table(m, 1)), NEW n \in Names
       PROVE  Deserves(x, n) = Deserves(m, n)
  <2> DEFINE vs == Table(m, 1)[n]
  <2>1. 1 \in 0..Len(L)
    BY <1>0
  <2>2. vs \in Seq(VariablesAt(n, L, A, 1))
    BY <1>0, <1>1, <2>1, ListType
  <2>3. \A j \in 1..Len(vs) : ~Has(vs[j], "exported")
    BY <1>10 DEF AnyExported
  <2> HIDE DEF vs
  <2>4. Offers(vs) = {}
    BY <2>2, <2>3 DEF Offers, Offering, Candidate
  <2>5. \A i \in 1..Len(K) : Offers(Table(m, i + 1)[n]) = Offers(Table(x, i)[n])
    BY <1>9
  <2>6. Deserves(m, n) = Deserves(x, n)
    BY <1>0, <1>1, <1>8, <1>9, <2>4, <2>5, OffersShifted DEF vs
  <2> QED
    BY <2>6
<1>11. AnyExported(Table(m, 1)) \/ Kept(m, x)
  BY <1>8, <1>10 DEF Kept
<1> QED
  BY <1>8, <1>11 DEF x

------------------------------------------------------------------------------
(* Variables of a table that goes, pushed down to the context below. *)

LEMMA FlagPutAll ==
    ASSUME NEW K \in Shapes, NEW d \in Nat, NEW A, NEW m \in Machines(K, d, A),
           NEW n \in Names, NEW vs, NEW h \in BOOLEAN
    PROVE  Flag(PutAll(m, 1, n, vs), h) = PutAll(Flag(m, h), 1, n, vs)
<1> DEFINE cs == [m.contexts EXCEPT ![1].table[n] = vs]
           f == m.array_needs_making \/ h
<1>1. PutAll(m, 1, n, vs) = [m EXCEPT !.contexts = cs]
  BY DEF PutAll, TempEnv
<1>2. Flag(m, h) = [m EXCEPT !.array_needs_making = f] /\ Flag(m, h).contexts = m.contexts
  BY DEF Flag, Machines
<1>3. PutAll(Flag(m, h), 1, n, vs) = [Flag(m, h) EXCEPT !.contexts = cs]
  BY <1>2 DEF PutAll, TempEnv
<1>4. Flag(PutAll(m, 1, n, vs), h) = [[m EXCEPT !.contexts = cs] EXCEPT !.array_needs_making = @ \/ h]
  BY <1>1 DEF Flag
<1>5. [m EXCEPT !.contexts = cs].array_needs_making = m.array_needs_making
  BY DEF Machines
<1>6. Flag(PutAll(m, 1, n, vs), h) = [[m EXCEPT !.contexts = cs] EXCEPT !.array_needs_making = f]
  BY <1>4, <1>5
<1> HIDE DEF cs, f
<1>7. [[m EXCEPT !.contexts = cs] EXCEPT !.array_needs_making = f]
        = [[m EXCEPT !.array_needs_making = f] EXCEPT !.contexts = cs]
  BY DEF Machines
<1> QED
  BY <1>2, <1>3, <1>6, <1>7

Passable(K, as) ==
  as \in SUBSET Attributes /\ (Len(K) > 1 => "tempvar" \in as) /\ "invisible" \notin as

LEMMA PropagateIn ==
    ASSUME NEW K \in Shapes, NEW d \in Nat, NEW A \in SUBSET Attributes,
           NEW m \in Machines(K, d, A), NEW v \in Variable, NEW as, Passable(K, as)
    PROVE  /\ Propagate(m, v, as) \in Machines(K, d, A)
           /\ "exported" \notin as => Kept(m, Propagate(m, v, as))
<1> DEFINE n == v.name
           b == BindInternal(m, 1, n, v.value)
           vs == Table(m, 1)[n]
           w == Bound(First(vs, n), v.value)
           bound == BoundList(vs, n, v.value)
           h == Has(w, "exported")
           u(x) == [Set(x, as) EXCEPT !.context = Scope(m)]
           us == <<u(w)>> \o Rest(vs)
<1>0. n \in Names /\ v.value \in Strings /\ Len(K) \in Nat \ {0} /\ 1 \in 0..Len(K) /\ 1 # TempEnv
      /\ Scope(m) = K[1].scope /\ K[1].scope \in Nat
      /\ as \in SUBSET Attributes /\ "invisible" \notin as
  <2>1. n \in Names /\ v.value \in Strings
    BY DEF Variable, VariableRecord, Has
  <2>2. Len(K) \in Nat \ {0} /\ K[1].scope \in Nat /\ Scope(m) = K[1].scope
    BY ShapeType, MachineParts
  <2>3. 1 \in 0..Len(K) /\ 1 # TempEnv
    BY <2>2 DEF TempEnv
  <2>4. as \in SUBSET Attributes /\ "invisible" \notin as
    BY DEF Passable
  <2> QED
    BY <2>1, <2>2, <2>3, <2>4
<1>1. vs \in Seq(VariablesAt(n, K, A, 1))
  BY <1>0, ListType
<1>2. First(vs, n) \in Variable /\ First(vs, n).name = n
  <2>1. CASE vs = <<>>
    BY <1>0, <2>1 DEF First, NewVariable, Variable, VariableRecord, Has, Strings
  <2>2. CASE vs # <<>>
    <3>1. vs[1] \in VariablesAt(n, K, A, 1)
      BY <1>1, <2>2
    <3> QED
      BY <1>0, <2>2, <3>1 DEF First, VariablesAt, ScopeVariables
  <2> QED
    BY <2>1, <2>2
<1>3. w \in Variable /\ w.name = n /\ ~Has(w, "invisible")
  <2> HIDE DEF n
  <2> QED
    BY <1>0, <1>2 DEF Bound, Clear, Variable, VariableRecord, Has, Strings
<1>4. Rest(vs) \in Seq(VariablesAt(n, K, A, 1))
  <2> HIDE DEF vs, n
  <2> QED
    BY <1>1 DEF Rest
<1> HIDE DEF w
<1>5. u(w) \in Variable /\ u(w).name = n /\ u(w).context = K[1].scope
      /\ u(w).attributes = w.attributes \cup as
  <2> HIDE DEF n
  <2> QED
    BY <1>0, <1>3 DEF Set, Variable, VariableRecord, Has
<1>6. bound = <<w>> \o Rest(vs)
  BY DEF BoundList, w
<1>7. bound[1] = w /\ Tail(bound) = Rest(vs)
  BY <1>4, <1>6
<1>8. b = Flag(PutAll(m, 1, n, bound), h) /\ h \in BOOLEAN
  BY <1>0, BindIs DEF Has, w
<1> HIDE DEF h, n, vs, bound
<1>9. Flag(m, h) \in Machines(K, d, A)
  BY <1>8, FlagIn
<1>10. b = PutAll(Flag(m, h), 1, n, bound)
  BY <1>0, <1>8, FlagPutAll
<1>11. Table(b, 1)[n] = bound
  BY <1>0, <1>9, <1>10, PutAllTwice
<1>12. Propagate(m, v, as) = Put(b, 1, n, u(At(b, 1, n)))
  BY DEF Propagate, n
<1> HIDE DEF b, u
<1>13. Propagate(m, v, as) = PutAll(b, 1, n, us)
  BY <1>7, <1>11, <1>12 DEF Put, At
<1>14. PutAll(b, 1, n, us) = PutAll(Flag(m, h), 1, n, us)
  BY <1>0, <1>9, <1>10, PutAllTwice
<1>15. us \in Seq(VariablesAt(n, K, A, 1))
  <2>1. 1 < Len(K) => Handed(u(w))
    BY <1>5 DEF Handed, Has, Passable
  <2>2. u(w) \in VariablesAt(n, K, A, 1)
    BY <1>0, <1>5, <2>1 DEF VariablesAt, ScopeVariables
  <2> QED
    BY <1>4, <2>2
<1>16. ~h => (vs # <<>> => ~Candidate(vs[1]))
  BY <1>1, BoundExported DEF h, w, vs
<1>17. "exported" \notin as /\ ~h => Offers(us) = Offers(vs)
  <2>1. "exported" \notin as /\ ~h => ~Candidate(u(w))
    BY <1>5 DEF Candidate, Has, h
  <2> HIDE DEF us
  <2>2. us = <<u(w)>> \o Rest(vs)
    BY DEF us
  <2> QED
    BY <1>1, <1>16, <2>1, <2>2, OffersRest
<1> HIDE DEF us
<1> DEFINE x == PutAll(Flag(m, h), 1, n, us)
<1>18. x \in Machines(K, d, A) /\ x.array_needs_making = Flag(m, h).array_needs_making
  BY <1>0, <1>9, <1>15, PutAllIn
<1>19. Kept(m, Flag(m, h)) /\ Table(Flag(m, h), 1) = Table(m, 1)
       /\ (h => Flag(m, h).array_needs_making)
  BY <1>0, <1>8, KeptByFlag, FlagIn
<1>20. "exported" \notin as /\ ~h => Kept(Flag(m, h), x)
  BY <1>0, <1>9, <1>15, <1>17, <1>19, KeptByPutAll DEF vs
<1> HIDE DEF x
<1>21. "exported" \notin as => Kept(m, x)
  BY <1>18, <1>19, <1>20, KeptTwice, KeptAsked
<1> QED
  BY <1>13, <1>14, <1>18, <1>21 DEF x

LEMMA HandedDownIn ==
    ASSUME NEW K \in Shapes, NEW d \in Nat, NEW A \in SUBSET Attributes,
           NEW m \in Machines(K, d, A), NEW v \in Variable
    PROVE  Given(v) =>
             /\ Propagate(m, v, Forgotten(m, v, {"tempvar", "propagate"})) \in Machines(K, d, A)
             /\ ~Has(v, "exported") =>
                  Kept(m, Propagate(m, v, Forgotten(m, v, {"tempvar", "propagate"})))
<1> DEFINE as == Forgotten(m, v, {"tempvar", "propagate"})
<1>1. Given(v) => Passable(K, as)
  BY MachineParts DEF Passable, Forgotten, AtGlobal, Given, Variable, VariableRecord, Has
<1>3. ~Has(v, "exported") => "exported" \notin as
  BY DEF Forgotten, Has
<1> HIDE DEF as
<1>2. Given(v) => /\ Propagate(m, v, as) \in Machines(K, d, A)
                  /\ ~Has(v, "exported") => Kept(m, Propagate(m, v, as))
  BY <1>1, <1>3, PropagateIn
<1> QED
  BY <1>2 DEF as

(* The variables of a builtin's scope are only freed: none of them can be  *)
(* one that push_exported_var keeps.                                       *)
FreeFuncs == {"push_func_var", "push_exported_var", "propagate_temp_var"}
Freed(free_func) ==
  {v \in Variable : free_func = "push_exported_var" => ~Has(v, "propagate")}

LEMMA DisposedIn ==
    ASSUME NEW K \in Shapes, NEW d \in Nat, NEW A \in SUBSET Attributes,
           NEW m \in Machines(K, d, A), NEW free_func \in FreeFuncs, NEW v \in Freed(free_func)
    PROVE  /\ Disposed(m, v, free_func) \in Machines(K, d, A)
           /\ Has(v, "exported") => Disposed(m, v, free_func).array_needs_making
           /\ Kept(m, Disposed(m, v, free_func))
<1> DEFINE e == IF IsHandedDown(v, free_func)
                THEN Propagate(m, v, HandedAttributes(m, v, free_func)) ELSE m
           h == Has(v, "exported")
<1>1. v \in Variable /\ (free_func = "push_exported_var" => ~Has(v, "propagate"))
  BY DEF Freed
<1>2. e \in Machines(K, d, A) /\ (~h => Kept(m, e))
  <2>1. CASE IsHandedDown(v, free_func)
    <3>1. Given(v) /\ free_func # "push_exported_var"
      BY <1>1, <2>1 DEF IsHandedDown, Given, Has
    <3>2. HandedAttributes(m, v, free_func) = Forgotten(m, v, {"tempvar", "propagate"})
      BY <3>1 DEF HandedAttributes, FreeFuncs, FuncVarAttributes, TempVarAttributes
    <3> QED
      BY <1>1, <2>1, <3>1, <3>2, HandedDownIn
  <2>2. CASE ~IsHandedDown(v, free_func)
    BY <2>2, KeptItself
  <2> QED
    BY <2>1, <2>2
<1>3. Disposed(m, v, free_func) = Flag(e, h) /\ h \in BOOLEAN
  BY DEF Disposed, Has
<1> HIDE DEF e, h
<1>4. Flag(e, h) \in Machines(K, d, A) /\ Kept(e, Flag(e, h))
      /\ (h => Flag(e, h).array_needs_making)
  BY <1>2, <1>3, FlagIn, KeptByFlag
<1>5. ~h => Kept(m, Flag(e, h))
  BY <1>2, <1>4, KeptTwice
<1>6. Kept(m, Flag(e, h))
  BY <1>4, <1>5, KeptAsked
<1> QED
  BY <1>3, <1>4, <1>6 DEF h

IsFlushed(w, m, vs, free_func) ==
  w = [j \in 0 .. Len(vs) |->
         IF j = 0 THEN m ELSE Disposed(w[j - 1], vs[j], free_func)]

LEMMA FlushBucketIn ==
    ASSUME NEW K \in Shapes, NEW d \in Nat, NEW A \in SUBSET Attributes,
           NEW m \in Machines(K, d, A), NEW free_func \in FreeFuncs,
           NEW vs \in Seq(Freed(free_func))
    PROVE  /\ FlushBucket(m, vs, free_func) \in Machines(K, d, A)
           /\ Kept(m, FlushBucket(m, vs, free_func))
           /\ \A j \in 1..Len(vs) :
                Has(vs[j], "exported") => FlushBucket(m, vs, free_func).array_needs_making
<1> DEFINE X == Machines(K, d, A)
           n == Len(vs)
           F == [j \in 1..n |-> [x \in X |-> Disposed(x, vs[j], free_func)]]
           T(w) == {j \in 0..n :
                      /\ w[j] \in X /\ Kept(m, w[j])
                      /\ \A k \in 1..j : Has(vs[k], "exported") => w[j].array_needs_making}
<1>0. n \in Nat /\ m \in X
  OBVIOUS
<1>1. \A j \in 1..n : \A x \in X :
        /\ Disposed(x, vs[j], free_func) \in X /\ Kept(x, Disposed(x, vs[j], free_func))
        /\ Has(vs[j], "exported") => Disposed(x, vs[j], free_func).array_needs_making
  BY DisposedIn
<1> HIDE DEF X
<1>2. StaysIn(F, n, X) /\ \A j \in 1..n : \A x \in X : F[j][x] = Disposed(x, vs[j], free_func)
  BY <1>1 DEF StaysIn
<1> HIDE DEF F
<1>3. PICK f : Iteration(f, F, n, X, m)
  BY <1>0, <1>2, Iterates
<1>4. \A j \in 1..n : f[j] = Disposed(f[j - 1], vs[j], free_func)
  BY <1>0, <1>2, <1>3 DEF Iteration
<1>5. IsFlushed(f, m, vs, free_func)
  <2>1. f = [j \in 0..n |-> f[j]] /\ f[0] = m
    BY <1>3 DEF Iteration
  <2>2. \A j \in 0..n : f[j] = IF j = 0 THEN m ELSE Disposed(f[j - 1], vs[j], free_func)
    BY <1>0, <1>4, <2>1
  <2> QED
    BY <2>1, <2>2 DEF IsFlushed
<1> DEFINE w == CHOOSE u : u = [j \in 0 .. Len(vs) |->
                                  IF j = 0 THEN m ELSE Disposed(u[j - 1], vs[j], free_func)]
<1>6. IsFlushed(w, m, vs, free_func)
  <2>1. \E u : u = [j \in 0 .. Len(vs) |->
                      IF j = 0 THEN m ELSE Disposed(u[j - 1], vs[j], free_func)]
    BY <1>5, Zenon DEF IsFlushed
  <2> QED
    BY <2>1, Zenon DEF IsFlushed
<1>7. FlushBucket(m, vs, free_func) = w[n]
  BY Zenon DEF FlushBucket
<1> HIDE DEF w
<1>8. w[0] = m /\ \A j \in 1..n : w[j] = Disposed(w[j - 1], vs[j], free_func)
  BY <1>0, <1>6 DEF IsFlushed
<1>9. 0 \in T(w) /\ \A j \in 1..n : j - 1 \in T(w) => j \in T(w)
  <2>1. 0 \in T(w)
    BY <1>0, <1>8, KeptItself
  <2>2. ASSUME NEW j \in 1..n, j - 1 \in T(w)
        PROVE  j \in T(w)
    <3>1. w[j - 1] \in X /\ Kept(m, w[j - 1]) /\ w[j] = Disposed(w[j - 1], vs[j], free_func)
      BY <1>8, <2>2
    <3>2. w[j] \in X /\ Kept(w[j - 1], w[j]) /\ (Has(vs[j], "exported") => w[j].array_needs_making)
      BY <1>1, <3>1
    <3>3. Kept(m, w[j])
      BY <3>1, <3>2, KeptTwice
    <3>4. w[j - 1].array_needs_making => w[j].array_needs_making
      BY <3>2 DEF Kept
    <3>5. \A k \in 1..j : k = j \/ k \in 1..(j - 1)
      BY <1>0
    <3> QED
      BY <2>2, <3>2, <3>3, <3>4, <3>5
  <2> QED
    BY <2>1, <2>2
<1> HIDE DEF n
<1>10. \A j \in 0..n : j \in T(w)
  <2> HIDE DEF T
  <2> QED
    BY <1>0, <1>9, CountUp
<1> QED
  BY <1>0, <1>7, <1>10 DEF X, n

LEMMA OrderType ==
    Order \in Seq(Names) /\ \A n \in Names : \E i \in 1..Len(Order) : Order[i] = n
<1>1. IsFiniteSet(Names)
  BY NamesAssumption
<1>2. Cardinality(Names) \in Nat /\ ExistsBijection(1..Cardinality(Names), Names)
  BY <1>1, FS_CardinalityType
<1>3. \E f \in [1..Cardinality(Names) -> Names] : IsInjective(f)
  BY <1>2 DEF ExistsBijection, Bijection, Injection
<1>4. Order \in [1..Cardinality(Names) -> Names] /\ IsInjective(Order)
  BY <1>3 DEF Order, SetToSeq
<1> DEFINE c == Cardinality(Names)
<1>5. Order \in Seq(Names) /\ Len(Order) = c
  BY <1>2, <1>4, ListOf
<1>6. IsFiniteSet(1..c) /\ Cardinality(1..c) = c
  BY <1>2, FS_Interval
<1>7. Order \in Injection(1..c, Names)
  BY <1>4 DEF Injection
<1> HIDE DEF c
<1>8. Order \in Surjection(1..c, Names)
  BY <1>1, <1>6, <1>7, FS_Injection DEF c
<1> QED
  BY <1>5, <1>8 DEF Surjection

IsEmptied(w, m, table, free_func) ==
  w = [i \in 0 .. Len(Order) |->
         IF i = 0 THEN m ELSE FlushBucket(w[i - 1], table[Order[i]], free_func)]

LEMMA FlushIn ==
    ASSUME NEW K \in Shapes, NEW d \in Nat, NEW A \in SUBSET Attributes,
           NEW m \in Machines(K, d, A), NEW free_func \in FreeFuncs,
           NEW table, \A name \in Names : table[name] \in Seq(Freed(free_func))
    PROVE  /\ Flush(m, table, free_func) \in Machines(K, d, A)
           /\ Kept(m, Flush(m, table, free_func))
           /\ AnyExported(table) => Flush(m, table, free_func).array_needs_making
<1> DEFINE X == Machines(K, d, A)
           n == Len(Order)
           F == [i \in 1..n |-> [x \in X |-> FlushBucket(x, table[Order[i]], free_func)]]
           exported(i) == \E j \in 1..Len(table[Order[i]]) : Has(table[Order[i]][j], "exported")
           T(w) == {i \in 0..n : /\ w[i] \in X /\ Kept(m, w[i])
                                 /\ \A k \in 1..i : exported(k) => w[i].array_needs_making}
<1>0. n \in Nat /\ m \in X
  BY OrderType
<1>1. \A i \in 1..n : \A x \in X :
        /\ FlushBucket(x, table[Order[i]], free_func) \in X
        /\ Kept(x, FlushBucket(x, table[Order[i]], free_func))
        /\ exported(i) => FlushBucket(x, table[Order[i]], free_func).array_needs_making
  <2>1. \A i \in 1..n : Order[i] \in Names
    BY OrderType
  <2> QED
    BY <2>1, FlushBucketIn
<1> HIDE DEF X
<1>2. StaysIn(F, n, X)
      /\ \A i \in 1..n : \A x \in X : F[i][x] = FlushBucket(x, table[Order[i]], free_func)
  BY <1>1 DEF StaysIn
<1> HIDE DEF F
<1>3. PICK f : Iteration(f, F, n, X, m)
  BY <1>0, <1>2, Iterates
<1>4. \A i \in 1..n : f[i] = FlushBucket(f[i - 1], table[Order[i]], free_func)
  BY <1>0, <1>2, <1>3 DEF Iteration
<1>5. IsEmptied(f, m, table, free_func)
  <2>1. f = [i \in 0..n |-> f[i]] /\ f[0] = m
    BY <1>3 DEF Iteration
  <2>2. \A i \in 0..n : f[i] = IF i = 0 THEN m
                               ELSE FlushBucket(f[i - 1], table[Order[i]], free_func)
    BY <1>0, <1>4, <2>1
  <2> QED
    BY <2>1, <2>2 DEF IsEmptied
<1> DEFINE w == CHOOSE u : u = [i \in 0 .. Len(Order) |->
                  IF i = 0 THEN m ELSE FlushBucket(u[i - 1], table[Order[i]], free_func)]
<1>6. IsEmptied(w, m, table, free_func)
  <2>1. \E u : u = [i \in 0 .. Len(Order) |->
                  IF i = 0 THEN m ELSE FlushBucket(u[i - 1], table[Order[i]], free_func)]
    BY <1>5, Zenon DEF IsEmptied
  <2> QED
    BY <2>1, Zenon DEF IsEmptied
<1>7. Flush(m, table, free_func) = w[n]
  BY Zenon DEF Flush
<1> HIDE DEF w
<1>8. w[0] = m /\ \A i \in 1..n : w[i] = FlushBucket(w[i - 1], table[Order[i]], free_func)
  BY <1>0, <1>6 DEF IsEmptied
<1> HIDE DEF exported
<1>9. 0 \in T(w) /\ \A i \in 1..n : i - 1 \in T(w) => i \in T(w)
  <2>1. 0 \in T(w)
    BY <1>0, <1>8, KeptItself
  <2>2. ASSUME NEW i \in 1..n, i - 1 \in T(w)
        PROVE  i \in T(w)
    <3>1. w[i - 1] \in X /\ Kept(m, w[i - 1])
          /\ w[i] = FlushBucket(w[i - 1], table[Order[i]], free_func)
      BY <1>8, <2>2
    <3>2. w[i] \in X /\ Kept(w[i - 1], w[i]) /\ (exported(i) => w[i].array_needs_making)
      BY <1>1, <3>1
    <3>3. Kept(m, w[i])
      BY <3>1, <3>2, KeptTwice
    <3>4. w[i - 1].array_needs_making => w[i].array_needs_making
      BY <3>2 DEF Kept
    <3>5. \A k \in 1..i : k = i \/ k \in 1..(i - 1)
      BY <1>0
    <3> QED
      BY <2>2, <3>2, <3>3, <3>4, <3>5
  <2> QED
    BY <2>1, <2>2
<1>11. AnyExported(table) => \E i \in 1..n : exported(i)
  BY OrderType DEF AnyExported, exported
<1> HIDE DEF n
<1>10. \A i \in 0..n : i \in T(w)
  <2> HIDE DEF T
  <2> QED
    BY <1>0, <1>9, CountUp
<1>12. w[n] \in X /\ Kept(m, w[n]) /\ \A k \in 1..n : exported(k) => w[n].array_needs_making
  BY <1>0, <1>10
<1> QED
  BY <1>7, <1>11, <1>12 DEF X

LEMMA PopContextIn ==
    ASSUME NEW K \in Shapes, NEW kind \in Kinds, NEW c \in Nat, NEW d \in Nat \ {0},
           NEW A \in SUBSET Attributes, NEW m \in Machines(Pushed(K, kind, c), d, A)
    PROVE  PopContext(m) \in Machines(K, d - 1, A) /\ Kept(m, PopContext(m))
<1> DEFINE L == Pushed(K, kind, c)
           below == [m EXCEPT !.contexts = Tail(@), !.variable_context = d - 1]
           t == m.contexts[1].table
<1>0. L \in Shapes /\ Len(L) \in Nat \ {0} /\ m \in Machines(L, d, A)
  BY PushedShape, ShapeType
<1>1. m.variable_context = d /\ t = Table(m, 1)
  BY <1>0, MachineParts DEF Table, TempEnv
<1> HIDE DEF L
<1>2. PopContext(m) = Flush(below, t, "push_func_var")
  BY <1>1 DEF PopContext
<1>3. below \in Machines(K, d - 1, A) /\ (AnyExported(t) \/ Kept(m, below))
  <2>1. d \in Nat /\ d - 1 \in Nat
    OBVIOUS
  <2> QED
    BY <1>1, <2>1, PopIn
<1> HIDE DEF below, t
<1>4. \A n \in Names : t[n] \in Seq(Freed("push_func_var"))
  <2>1. ASSUME NEW n \in Names
        PROVE  t[n] \in Seq(Freed("push_func_var"))
    <3>1. Table(m, 1)[n] \in Seq(VariablesAt(n, L, A, 1))
      BY <1>0, ListType
    <3>2. VariablesAt(n, L, A, 1) \subseteq Freed("push_func_var")
      BY VariablesAtType DEF Freed
    <3> QED
      BY <1>1, <3>1, <3>2
  <2> QED
    BY <2>1
<1>5. "push_func_var" \in FreeFuncs /\ d - 1 \in Nat
  BY DEF FreeFuncs
<1>6. /\ PopContext(m) \in Machines(K, d - 1, A) /\ Kept(below, PopContext(m))
      /\ AnyExported(t) => PopContext(m).array_needs_making
  BY <1>2, <1>3, <1>4, <1>5, FlushIn
<1> QED
  BY <1>3, <1>6, KeptTwice, KeptAsked

LEMMA PopScopeIn ==
    ASSUME NEW K \in Shapes, NEW kind \in Kinds, NEW c \in Nat, NEW d \in Nat,
           NEW A \in SUBSET Attributes, NEW m \in Machines(Pushed(K, kind, c), d, A),
           NEW is_special \in BOOLEAN,
           ~is_special => \A n \in Names : Table(m, 1)[n] \in Seq(Freed("push_exported_var"))
    PROVE  PopScope(m, is_special) \in Machines(K, d, A) /\ Kept(m, PopScope(m, is_special))
<1> DEFINE L == Pushed(K, kind, c)
           below == [m EXCEPT !.contexts = Tail(@)]
           t == m.contexts[1].table
           free_func == IF is_special THEN "push_func_var" ELSE "push_exported_var"
<1>0. L \in Shapes /\ Len(L) \in Nat \ {0} /\ m \in Machines(L, d, A)
  BY PushedShape, ShapeType
<1>1. m.variable_context = d /\ t = Table(m, 1)
  BY <1>0, MachineParts DEF Table, TempEnv
<1> HIDE DEF L
<1>2. PopScope(m, is_special) = Flush(below, t, free_func)
  BY DEF PopScope
<1>3. below \in Machines(K, d, A) /\ (AnyExported(t) \/ Kept(m, below))
  <2> DEFINE x == [m EXCEPT !.contexts = Tail(@), !.variable_context = d]
  <2>1. x \in Machines(K, d, A) /\ (AnyExported(t) \/ Kept(m, x))
    BY <1>1, PopIn
  <2>2. below = x
    BY <1>1 DEF Machines
  <2> QED
    BY <2>1, <2>2
<1> HIDE DEF below, t
<1>4. ASSUME NEW n \in Names
      PROVE  t[n] \in Seq(Freed(free_func))
  <2>1. Table(m, 1)[n] \in Seq(VariablesAt(n, L, A, 1))
    BY <1>0, ListType
  <2>2. VariablesAt(n, L, A, 1) \subseteq Freed("push_func_var")
    BY VariablesAtType DEF Freed
  <2>3. Table(m, 1)[n] \in Seq(Freed("push_func_var"))
    BY <2>1, <2>2
  <2> QED
    BY <1>1, <2>3
<1>5. free_func \in FreeFuncs
  BY DEF FreeFuncs
<1> HIDE DEF free_func
<1> DEFINE x == PopScope(m, is_special)
<1>6. /\ x \in Machines(K, d, A) /\ Kept(below, x)
      /\ AnyExported(t) => x.array_needs_making
  BY <1>2, <1>3, <1>4, <1>5, FlushIn
<1> HIDE DEF x
<1>7. Kept(m, x)
  BY <1>3, <1>6, KeptTwice, KeptAsked
<1> QED
  BY <1>6, <1>7 DEF x

(* Without given variables it does not matter which attributes they may    *)
(* have.                                                                   *)
LEMMA ForgetGiven ==
    ASSUME NEW K \in Shapes, NEW d \in Nat, NEW A, NEW B, NEW m \in Machines(K, d, B)
    PROVE  [m EXCEPT !.temporary_env = NoTable] \in Machines(K, d, A)
<1>1. \A i \in 1..Len(K) : ContextAt(K, A, i) = ContextAt(K, B, i)
  <2>1. ASSUME NEW i \in 1..Len(K)
        PROVE  ContextAt(K, A, i) = ContextAt(K, B, i)
    <3>1. i # TempEnv
      BY ShapeType DEF TempEnv
    <3>2. \A n : VariablesAt(n, K, A, i) = VariablesAt(n, K, B, i)
      BY <3>1 DEF VariablesAt
    <3>3. TablesAt(K, A, i) = TablesAt(K, B, i)
      BY <3>2 DEF TablesAt
    <3> QED
      BY <3>3 DEF ContextAt
  <2> QED
    BY <2>1
<1>2. m.contexts \in ContextsOf(K, A)
  BY <1>1 DEF Machines, ContextsOf
<1>3. NoTable \in TablesAt(K, A, TempEnv)
  BY NothingGiven
<1> QED
  BY <1>2, <1>3 DEF Machines

LEMMA DisposeIn ==
    ASSUME NEW K \in Shapes, NEW d \in Nat, NEW A \in SUBSET Attributes, NEW B,
           NEW m \in Machines(K, d, B)
    PROVE  /\ DisposeUsedEnvVars(m) \in Machines(K, d, A)
           /\ Fresh(m) \/ m.temporary_env # NoTable => Fresh(DisposeUsedEnvVars(m))
<1> DEFINE e == [m EXCEPT !.temporary_env = NoTable]
           t == m.temporary_env
           f == Flush(e, t, "propagate_temp_var")
<1>0. 0 \in 0..Len(K) /\ t = Table(m, 0)
  BY ShapeType DEF Table, TempEnv
<1>1. DisposeUsedEnvVars(m) = IF t = NoTable THEN m ELSE MaybeMakeExportEnv(Flag(f, TRUE))
  BY DEF DisposeUsedEnvVars
<1>2. e \in Machines(K, d, A)
  BY ForgetGiven
<1>3. t = NoTable => m = e
  BY DEF Machines
<1> HIDE DEF t, e
<1>4. \A n \in Names : t[n] \in Seq(Freed("propagate_temp_var"))
  <2>1. ASSUME NEW n \in Names
        PROVE  t[n] \in Seq(Freed("propagate_temp_var"))
    <3>1. Table(m, 0)[n] \in Seq(VariablesAt(n, K, B, 0))
      BY <1>0, ListType
    <3>2. VariablesAt(n, K, B, 0) \subseteq Freed("propagate_temp_var")
      BY VariablesAtType DEF Freed
    <3> QED
      BY <1>0, <3>1, <3>2
  <2> QED
    BY <2>1
<1>5. f \in Machines(K, d, A)
  BY <1>2, <1>4, FlushIn DEF FreeFuncs
<1> HIDE DEF f
<1>6. Flag(f, TRUE) \in Machines(K, d, A) /\ Fresh(Flag(f, TRUE))
  BY <1>5, FlagTrueIn DEF Fresh
<1>7. MaybeMakeExportEnv(Flag(f, TRUE)) \in Machines(K, d, A)
      /\ Fresh(MaybeMakeExportEnv(Flag(f, TRUE)))
  BY <1>6, MaybeMakeIn, MaybeMadeIsFresh
<1> QED
  BY <1>1, <1>2, <1>3, <1>7 DEF t

LEMMA UnsetIn ==
    ASSUME NEW K \in Shapes, NEW d \in Nat, NEW A \in SUBSET Attributes,
           "local" \notin A, NEW m \in Machines(K, d, A), NEW n \in Names
    PROVE  LET x == InScope(m, TRUE, LAMBDA y : Makunbound(y, n))
           IN  /\ x \in Machines(K, d, A)
               /\ (\A i \in 1..Len(K) : Len(Table(m, i)[n]) < 2) => Kept(m, x)
<1> DEFINE L == Pushed(K, "builtin", d)
           p == PushScope(m)
           u == Makunbound(p, n)
<1>1. InScope(m, TRUE, LAMBDA x : Makunbound(x, n))
        = IF m.temporary_env = NoTable THEN Makunbound(m, n) ELSE PopScope(u, TRUE)
  BY DEF InScope
<1>2. "builtin" \in Kinds /\ L \in Shapes /\ Len(L) = Len(K) + 1 /\ Len(K) \in Nat
  BY PushedShape, ShapeType DEF Kinds
<1>3. /\ p \in Machines(L, d, A) /\ Kept(m, p)
      /\ \A i \in 1..Len(K) : Table(p, i + 1) = Table(m, i)
      /\ \A j \in DOMAIN Table(p, 1)[n] : Table(p, 1)[n][j].attributes \subseteq A
  BY <1>2, PushIn DEF PushScope
<1> HIDE DEF p, L
<1>4. /\ u \in Machines(L, d, A)
      /\ (\A i \in 1..Len(L) : Alone(Table(p, i)[n])) => Kept(p, u)
  BY <1>2, <1>3, MakunboundIn
<1> HIDE DEF u
<1>5. PopScope(u, TRUE) \in Machines(K, d, A) /\ Kept(u, PopScope(u, TRUE))
  BY <1>2, <1>4, PopScopeIn DEF L
<1>6. ASSUME \A i \in 1..Len(K) : Len(Table(m, i)[n]) < 2
      PROVE  \A i \in 1..Len(L) : Alone(Table(p, i)[n])
  <2>1. ASSUME NEW i \in 1..Len(L)
        PROVE  Alone(Table(p, i)[n])
    <3>1. CASE i = 1
      <4>1. 1 \in 0..Len(L)
        BY <1>2
      <4>2. Table(p, 1)[n] \in Seq(VariablesAt(n, L, A, 1))
        BY <1>2, <1>3, <4>1, ListType
      <4> QED
        BY <1>3, <3>1, <4>2 DEF Alone, Has
    <3>2. CASE i # 1
      <4>1. i - 1 \in 1..Len(K) /\ (i - 1) + 1 = i
        BY <1>2, <3>2
      <4> QED
        BY <1>3, <1>6, <4>1 DEF Alone
    <3> QED
      BY <3>1, <3>2
  <2> QED
    BY <2>1
<1>7. (\A i \in 1..Len(K) : Len(Table(m, i)[n]) < 2) => Kept(m, PopScope(u, TRUE))
  BY <1>3, <1>4, <1>5, <1>6, KeptTwice
<1>8. /\ Makunbound(m, n) \in Machines(K, d, A)
      /\ (\A i \in 1..Len(K) : Len(Table(m, i)[n]) < 2) => Kept(m, Makunbound(m, n))
  BY MakunboundIn DEF Alone
<1> QED
  BY <1>1, <1>5, <1>7, <1>8

LEMMA BindKeepsFreed ==
    ASSUME NEW K \in Shapes, NEW d \in Nat, NEW A \in SUBSET Attributes,
           NEW m \in Machines(K, d, A), NEW n \in Names, NEW val \in Strings,
           \A x \in Names : Table(m, 1)[x] \in Seq(Freed("push_exported_var"))
    PROVE  \A x \in Names :
             Table(BindVariable(m, n, val), 1)[x] \in Seq(Freed("push_exported_var"))
<1> DEFINE t == BindTempenv(m, n, val)
           i == Target(m, n)
           vs == Table(m, 1)[n]
           ws == BoundList(vs, n, val)
           F == Freed("push_exported_var")
<1>0. Len(K) \in Nat \ {0} /\ 1 \in 0..Len(K)
  BY ShapeType
<1>1. t \in Machines(K, d, A) /\ \A j \in 1..Len(K) : Table(t, j) = Table(m, j)
  BY BindTempenvIn
<1>2. i \in 1..Len(K) /\ (Table(m, i)[n] # <<>> \/ i = Len(K))
  BY TargetIsPlace
<1>3. BindVariable(m, n, val) = BindInternal(t, i, n, val)
  BY DEF BindVariable
<1>4. Table(t, i)[n] # <<>> \/ i = Len(K)
  BY <1>1, <1>2
<1> HIDE DEF t, i
<1>5. CASE i # 1
  <2>1. \A j \in 0..Len(K) : j # i => Table(BindInternal(t, i, n, val), j) = Table(t, j)
    BY <1>1, <1>2, <1>4, BindIn
  <2>2. Table(BindVariable(m, n, val), 1) = Table(m, 1)
    BY <1>0, <1>1, <1>3, <1>5, <2>1
  <2> QED
    BY <2>2
<1>6. CASE i = 1
  <2>1. Table(t, 1) = Table(m, 1)
    BY <1>0, <1>1
  <2>2. /\ Table(BindVariable(m, n, val), i)[n] = BoundList(Table(t, i)[n], n, val)
        /\ \A x \in Names : x # n => Table(BindVariable(m, n, val), i)[x] = Table(t, i)[x]
    <3> DEFINE h == Has(Bound(First(Table(t, 1)[n], n), val), "exported")
               bs == BoundList(Table(t, 1)[n], n, val)
    <3>3. BindInternal(t, 1, n, val) = Flag(PutAll(t, 1, n, bs), h) /\ h \in BOOLEAN
      BY <1>0, <1>1, BindIs DEF Has
    <3> HIDE DEF h, bs
    <3>4. BindInternal(t, 1, n, val) = PutAll(Flag(t, h), 1, n, bs)
      BY <1>1, <3>3, FlagPutAll
    <3>5. Flag(t, h) \in Machines(K, d, A)
      BY <1>1, <3>3, FlagIn
    <3>6. Table(BindInternal(t, 1, n, val), 1)[n] = bs
      BY <1>0, <3>4, <3>5, PutAllTwice
    <3>1. Table(BindInternal(t, i, n, val), i)[n] = BoundList(Table(t, i)[n], n, val)
      BY <1>6, <3>6 DEF bs
    <3>2. \A x \in Names : x # n => Table(BindInternal(t, i, n, val), i)[x] = Table(t, i)[x]
      BY <1>1, <1>2, <1>4, BindIn
    <3> QED
      BY <1>3, <3>1, <3>2
  <2>4. /\ Table(BindVariable(m, n, val), 1)[n] = ws
        /\ \A x \in Names : x # n => Table(BindVariable(m, n, val), 1)[x] = Table(m, 1)[x]
    BY <1>6, <2>1, <2>2
  <2>5. First(vs, n) \in F
    <3>1. vs \in Seq(F)
      OBVIOUS
    <3>2. NewVariable(n) \in F
      BY DEF NewVariable, Freed, Variable, VariableRecord, Strings, Has
    <3> HIDE DEF vs, F
    <3> QED
      BY <3>1, <3>2 DEF First
  <2>6. Bound(First(vs, n), val) \in F
    <3> DEFINE v == First(vs, n)
    <3> HIDE DEF v
    <3>1. v \in Variable /\ "propagate" \notin v.attributes
      BY <2>5 DEF Freed, Has, v
    <3>2. Bound(v, val) \in Variable /\ Bound(v, val).attributes \subseteq v.attributes
      BY <3>1 DEF Bound, Clear, Variable, VariableRecord, Has, Strings
    <3> QED
      BY <3>1, <3>2 DEF Freed, Has, v
  <2>7. Rest(vs) \in Seq(F)
    <3>1. vs \in Seq(F)
      OBVIOUS
    <3> HIDE DEF vs, F
    <3> QED
      BY <3>1 DEF Rest
  <2> HIDE DEF F
  <2>8. ws \in Seq(F)
    BY <2>6, <2>7 DEF BoundList
  <2> HIDE DEF ws
  <2> QED
    BY <2>4, <2>8 DEF F
<1> QED
  BY <1>5, <1>6

LEMMA ReadIn ==
    ASSUME NEW K \in Shapes, NEW d \in Nat, NEW A \in SUBSET Attributes, "propagate" \notin A,
           NEW m \in Machines(K, d, A), NEW n \in Names, NEW val \in Strings
    PROVE  LET x == InScope(m, FALSE, LAMBDA y : BindVariable(y, n, val))
           IN  x \in Machines(K, d, A) /\ Kept(m, x)
<1> DEFINE L == Pushed(K, "builtin", d)
           p == PushScope(m)
           b == BindVariable(p, n, val)
<1>1. InScope(m, FALSE, LAMBDA x : BindVariable(x, n, val))
        = IF m.temporary_env = NoTable THEN BindVariable(m, n, val) ELSE PopScope(b, FALSE)
  BY DEF InScope
<1>2. "builtin" \in Kinds /\ L \in Shapes /\ Len(L) \in Nat \ {0}
  BY PushedShape, ShapeType DEF Kinds
<1>3. /\ p \in Machines(L, d, A) /\ Kept(m, p) /\ p.temporary_env = NoTable
      /\ \A x \in Names : \A j \in DOMAIN Table(p, 1)[x] : Table(p, 1)[x][j].attributes \subseteq A
  BY <1>2, PushIn DEF PushScope
<1> HIDE DEF p
<1>4. ASSUME NEW x \in Names
      PROVE  Table(p, 1)[x] \in Seq(Freed("push_exported_var"))
  <2> DEFINE vs == Table(p, 1)[x]
  <2> HIDE DEF L
  <2>1. vs \in Seq(VariablesAt(x, L, A, 1))
    BY <1>2, <1>3, ListType
  <2>2. \A j \in DOMAIN vs : vs[j].attributes \subseteq A
    BY <1>3
  <2> HIDE DEF vs
  <2>3. \A j \in 1..Len(vs) : vs[j] \in Freed("push_exported_var")
    BY <2>1, <2>2, VariablesAtType DEF Freed, Has
  <2>4. vs \in Seq(Freed("push_exported_var"))
    BY <2>1, <2>3
  <2> QED
    BY <2>4 DEF vs
<1> HIDE DEF L
<1>5. b \in Machines(L, d, A) /\ Kept(p, b)
      /\ \A x \in Names : Table(b, 1)[x] \in Seq(Freed("push_exported_var"))
  BY <1>2, <1>3, <1>4, BindVariableIn, BindKeepsFreed, KeptByBind DEF NoTable
<1> HIDE DEF b
<1>6. PopScope(b, FALSE) \in Machines(K, d, A) /\ Kept(m, PopScope(b, FALSE))
  <2>1. PopScope(b, FALSE) \in Machines(K, d, A) /\ Kept(b, PopScope(b, FALSE))
    BY <1>2, <1>5, PopScopeIn DEF L
  <2> QED
    BY <1>3, <1>5, <2>1, KeptTwice
<1>7. /\ BindVariable(m, n, val) \in Machines(K, d, A)
      /\ m.temporary_env = NoTable => Kept(m, BindVariable(m, n, val))
  BY BindVariableIn, KeptByBind DEF NoTable
<1> QED
  BY <1>1, <1>6, <1>7

------------------------------------------------------------------------------
(* The contexts of the active calls. *)

Own == {"exported", "tempvar"}
GivenTable == TablesAt(<<>>, Own, TempEnv)
Call == [kind : {"function"}] \cup [kind : {"eval"}, scoped : BOOLEAN]
        \cup [kind : {"handler"}, temporary_env : GivenTable, then : {"ready", "redirected"}]

ContextIn(cs, k) == 1 + Cardinality({j \in 1..(k - 1) : Pushing(cs[j])})
DepthIn(cs, k) == Cardinality({j \in k..Len(cs) : cs[j].kind = "function"})

Fits(K, cs) ==
  /\ Len(K) = ContextIn(cs, Len(cs) + 1)
  /\ \A k \in 1..Len(cs) : Pushing(cs[k]) =>
       K[ContextIn(cs, k)] = [kind |-> ContextKind(cs[k]), scope |-> DepthIn(cs, k)]

LEMMA Shifted ==
    ASSUME NEW n \in Nat, NEW T \in SUBSET (1..n)
    PROVE  LET S == {j + 1 : j \in T}
           IN  IsFiniteSet(T) /\ IsFiniteSet(S) /\ Cardinality(S) = Cardinality(T)
               /\ Cardinality(T) \in Nat
<1> DEFINE S == {j + 1 : j \in T}
           f == [j \in T |-> j + 1]
<1>1. IsFiniteSet(1..n)
  BY FS_Interval
<1>2. IsFiniteSet(T)
  BY <1>1, FS_Subset
<1>3. f \in Bijection(T, S)
  <2>1. f \in [T -> S] /\ IsInjective(f)
    BY DEF IsInjective
  <2>2. \A t \in S : \E j \in T : f[j] = t
    OBVIOUS
  <2> QED
    BY <2>1, <2>2 DEF Bijection, Injection, Surjection
<1>4. ExistsBijection(T, S)
  BY <1>3 DEF ExistsBijection
<1> QED
  BY <1>2, <1>4, FS_Bijection, FS_CardinalityType

LEMMA CountsPushed ==
    ASSUME NEW cs \in Seq(Call), NEW c \in Call
    PROVE  LET ds == <<c>> \o cs
           IN  /\ ds \in Seq(Call) /\ Len(ds) = Len(cs) + 1 /\ ds[1] = c
               /\ ContextIn(ds, 1) = 1
               /\ DepthIn(ds, 1) = DepthIn(cs, 1) + IF c.kind = "function" THEN 1 ELSE 0
               /\ \A k \in 1..Len(cs) + 1 :
                    /\ k <= Len(cs) => ds[k + 1] = cs[k]
                    /\ DepthIn(ds, k + 1) = DepthIn(cs, k)
                    /\ ContextIn(ds, k + 1) = ContextIn(cs, k) + IF Pushing(c) THEN 1 ELSE 0
<1> DEFINE ds == <<c>> \o cs
           n == Len(cs)
           fn(xs, k) == {j \in k..Len(xs) : xs[j].kind = "function"}
           own(xs, k) == {j \in 1..(k - 1) : Pushing(xs[j])}
<1>1. n \in Nat /\ ds \in Seq(Call) /\ Len(ds) = n + 1 /\ ds[1] = c
      /\ \A k \in 1..n : ds[k + 1] = cs[k]
  OBVIOUS
<1> HIDE DEF ds
<1>2. ContextIn(ds, 1) = 1
  <2>1. own(ds, 1) = {}
    OBVIOUS
  <2> QED
    BY <2>1, FS_EmptySet DEF ContextIn
<1>3. ASSUME NEW k \in 1..n + 1
      PROVE  /\ DepthIn(ds, k + 1) = DepthIn(cs, k)
             /\ IsFiniteSet(fn(ds, k + 1)) /\ Cardinality(fn(ds, k + 1)) = Cardinality(fn(cs, k))
             /\ Cardinality(fn(cs, k)) \in Nat
  <2>1. fn(ds, k + 1) = {j + 1 : j \in fn(cs, k)}
    <3>1. ASSUME NEW j \in fn(ds, k + 1)
          PROVE  j - 1 \in fn(cs, k) /\ j = (j - 1) + 1
      <4>1. j - 1 \in k..n /\ j - 1 \in 1..n /\ j = (j - 1) + 1
        BY <1>1
      <4> QED
        BY <1>1, <4>1
    <3>2. ASSUME NEW j \in fn(cs, k)
          PROVE  j + 1 \in fn(ds, k + 1)
      BY <1>1
    <3> HIDE DEF fn
    <3> QED
      BY <3>1, <3>2
  <2>2. fn(cs, k) \in SUBSET (1..n)
    BY <1>1
  <2> HIDE DEF fn
  <2>3. IsFiniteSet(fn(ds, k + 1)) /\ Cardinality(fn(ds, k + 1)) = Cardinality(fn(cs, k))
        /\ Cardinality(fn(cs, k)) \in Nat
    BY <1>1, <2>1, <2>2, Shifted
  <2> QED
    BY <2>3 DEF DepthIn, fn
<1>4. DepthIn(ds, 1) = DepthIn(cs, 1) + IF c.kind = "function" THEN 1 ELSE 0
  <2>1. fn(ds, 1) = IF c.kind = "function" THEN fn(ds, 2) \cup {1} ELSE fn(ds, 2)
    BY <1>1
  <2>2. 1 \notin fn(ds, 2)
    OBVIOUS
  <2>3. IsFiniteSet(fn(ds, 2)) /\ Cardinality(fn(ds, 2)) = Cardinality(fn(cs, 1))
        /\ Cardinality(fn(cs, 1)) \in Nat
    <3>1. 1 \in 1..n + 1 /\ 1 + 1 = 2
      BY <1>1
    <3> HIDE DEF fn
    <3>2. IsFiniteSet(fn(ds, 1 + 1)) /\ Cardinality(fn(ds, 1 + 1)) = Cardinality(fn(cs, 1))
          /\ Cardinality(fn(cs, 1)) \in Nat
      BY <1>3, <3>1
    <3> QED
      BY <3>1, <3>2
  <2> HIDE DEF fn
  <2>4. Cardinality(fn(ds, 2) \cup {1}) = Cardinality(fn(ds, 2)) + 1
    BY <2>2, <2>3, FS_AddElement
  <2>5. Cardinality(fn(ds, 1)) = Cardinality(fn(cs, 1)) + IF c.kind = "function" THEN 1 ELSE 0
    <3>1. CASE c.kind = "function"
      BY <2>1, <2>3, <2>4, <3>1
    <3>2. CASE c.kind # "function"
      BY <2>1, <2>3, <3>2
    <3> QED
      BY <3>1, <3>2
  <2> QED
    BY <2>5 DEF fn, DepthIn
<1>5. ASSUME NEW k \in 1..n + 1
      PROVE  ContextIn(ds, k + 1) = ContextIn(cs, k) + IF Pushing(c) THEN 1 ELSE 0
  <2> DEFINE S == {j + 1 : j \in own(cs, k)}
  <2>1. own(ds, k + 1) = IF Pushing(c) THEN S \cup {1} ELSE S
    <3>1. ASSUME NEW j \in own(ds, k + 1), j # 1
          PROVE  j - 1 \in own(cs, k) /\ j = (j - 1) + 1
      <4>1. j - 1 \in 1..(k - 1) /\ j - 1 \in 1..n /\ j = (j - 1) + 1
        BY <1>1, <3>1
      <4> QED
        BY <1>1, <4>1
    <3>2. ASSUME NEW j \in own(cs, k)
          PROVE  j + 1 \in own(ds, k + 1) /\ j + 1 # 1
      BY <1>1
    <3>3. 1 \in own(ds, k + 1) <=> Pushing(c)
      BY <1>1
    <3> HIDE DEF own
    <3> QED
      BY <3>1, <3>2, <3>3
  <2>2. own(cs, k) \in SUBSET (1..n)
    BY <1>1
  <2>3. 1 \notin S
    BY <2>2
  <2> HIDE DEF own
  <2>4. IsFiniteSet(S) /\ Cardinality(S) = Cardinality(own(cs, k)) /\ Cardinality(own(cs, k)) \in Nat
    BY <1>1, <2>2, Shifted
  <2> HIDE DEF S
  <2>5. Cardinality(S \cup {1}) = Cardinality(S) + 1
    BY <2>3, <2>4, FS_AddElement
  <2>6. Cardinality(own(ds, k + 1))
          = Cardinality(own(cs, k)) + IF Pushing(c) THEN 1 ELSE 0
    BY <2>1, <2>4, <2>5
  <2>7. (k + 1) - 1 = k
    OBVIOUS
  <2> QED
    BY <2>4, <2>6 DEF own, ContextIn
<1>6. ASSUME NEW k \in 1..n + 1
      PROVE  /\ k <= n => ds[k + 1] = cs[k]
             /\ DepthIn(ds, k + 1) = DepthIn(cs, k)
             /\ ContextIn(ds, k + 1) = ContextIn(cs, k) + IF Pushing(c) THEN 1 ELSE 0
  <2>1. k <= n => k \in 1..n
    BY <1>1
  <2> QED
    BY <1>1, <1>3, <1>5, <2>1
<1> HIDE DEF fn, own
<1> QED
  BY <1>1, <1>2, <1>4, <1>6, Zenon DEF ds, n

LEMMA CountTypes ==
    ASSUME NEW cs \in Seq(Call)
    PROVE  /\ \A k \in 1..Len(cs) + 1 : DepthIn(cs, k) \in Nat /\ ContextIn(cs, k) \in Nat \ {0}
           /\ \A k \in 1..Len(cs) : Pushing(cs[k]) => ContextIn(cs, k) < ContextIn(cs, Len(cs) + 1)
<1> DEFINE n == Len(cs)
           fn(k) == {j \in k..n : cs[j].kind = "function"}
           own(k) == {j \in 1..(k - 1) : Pushing(cs[j])}
<1>0. n \in Nat /\ IsFiniteSet(1..n)
  BY FS_Interval
<1>1. \A k \in 1..n + 1 : fn(k) \in SUBSET (1..n) /\ own(k) \in SUBSET (1..n)
  BY <1>0
<1>2. \A k \in 1..n + 1 : /\ IsFiniteSet(own(k)) /\ Cardinality(own(k)) \in Nat
                          /\ Cardinality(fn(k)) \in Nat
  <2> HIDE DEF fn, own
  <2> QED
    BY <1>0, <1>1, Shifted
<1>3. ASSUME NEW k \in 1..n, Pushing(cs[k])
      PROVE  Cardinality(own(k)) < Cardinality(own(n + 1))
  <2>1. k \notin own(k) /\ own(k) \cup {k} \subseteq own(n + 1)
    BY <1>0, <1>3
  <2>2. n + 1 \in 1..n + 1 /\ k \in 1..n + 1
    BY <1>0
  <2> HIDE DEF own
  <2>3. Cardinality(own(k) \cup {k}) = Cardinality(own(k)) + 1
    BY <1>2, <2>1, <2>2, FS_AddElement
  <2>4. Cardinality(own(k) \cup {k}) <= Cardinality(own(n + 1))
    BY <1>2, <2>1, <2>2, FS_Subset
  <2>5. Cardinality(own(k)) \in Nat /\ Cardinality(own(n + 1)) \in Nat
    BY <1>2, <2>2
  <2> QED
    BY <2>3, <2>4, <2>5
<1>4. ASSUME NEW k \in 1..n, Pushing(cs[k])
      PROVE  ContextIn(cs, k) < ContextIn(cs, n + 1)
  <2>1. n + 1 \in 1..n + 1 /\ k \in 1..n + 1
    BY <1>0
  <2>2. Cardinality(own(k)) < Cardinality(own(n + 1))
    BY <1>3, <1>4
  <2> HIDE DEF own
  <2>3. Cardinality(own(k)) \in Nat /\ Cardinality(own(n + 1)) \in Nat
    BY <1>2, <2>1
  <2>4. 1 + Cardinality(own(k)) < 1 + Cardinality(own(n + 1))
    BY <2>2, <2>3
  <2> QED
    BY <2>4, Zenon DEF ContextIn, own
<1>5. ASSUME NEW k \in 1..n + 1
      PROVE  DepthIn(cs, k) \in Nat /\ ContextIn(cs, k) \in Nat \ {0}
  <2>1. DepthIn(cs, k) \in Nat
    BY <1>2 DEF DepthIn
  <2>2. ContextIn(cs, k) = 1 + Cardinality(own(k))
    BY DEF ContextIn
  <2> HIDE DEF own
  <2>3. Cardinality(own(k)) \in Nat
    BY <1>2
  <2>4. 1 + Cardinality(own(k)) \in Nat \ {0}
    BY <2>3
  <2> QED
    BY <2>1, <2>2, <2>4
<1> QED
  BY <1>4, <1>5

LEMMA FitsPushed ==
    ASSUME NEW K \in Shapes, NEW cs \in Seq(Call), NEW c \in Call, Fits(K, cs)
    PROVE  LET ds == <<c>> \o cs
           IN  IF Pushing(c) THEN Fits(Pushed(K, ContextKind(c), DepthIn(ds, 1)), ds)
                             ELSE Fits(K, ds)
<1> DEFINE ds == <<c>> \o cs
           kind == ContextKind(c)
           d == DepthIn(ds, 1)
           L == IF Pushing(c) THEN Pushed(K, kind, d) ELSE K
           up == IF Pushing(c) THEN 1 ELSE 0
           n == Len(cs)
<1>1. /\ ds \in Seq(Call) /\ Len(ds) = n + 1 /\ ds[1] = c /\ ContextIn(ds, 1) = 1
      /\ \A k \in 1..n + 1 : /\ k <= n => ds[k + 1] = cs[k]
                             /\ DepthIn(ds, k + 1) = DepthIn(cs, k)
                             /\ ContextIn(ds, k + 1) = ContextIn(cs, k) + up
  BY CountsPushed
<1>2. n \in Nat /\ d \in Nat /\ kind \in Kinds
  <2>1. n \in Nat /\ kind \in Kinds
    BY DEF ContextKind, Kinds
  <2> HIDE DEF ds
  <2>2. 1 \in 1..Len(ds) + 1
    BY <1>1, <2>1
  <2> QED
    BY <1>1, <2>1, <2>2, CountTypes
<1>3. /\ \A k \in 1..n + 1 : ContextIn(cs, k) \in Nat \ {0}
      /\ \A k \in 1..n : Pushing(cs[k]) => ContextIn(cs, k) < ContextIn(cs, n + 1)
  BY CountTypes
<1>4. /\ Len(K) = ContextIn(cs, n + 1)
      /\ \A k \in 1..n : Pushing(cs[k]) =>
           K[ContextIn(cs, k)] = [kind |-> ContextKind(cs[k]), scope |-> DepthIn(cs, k)]
  BY DEF Fits
<1> HIDE DEF ds, kind, d, n
<1>5. /\ Len(L) = Len(K) + up
      /\ Pushing(c) => L[1] = [kind |-> kind, scope |-> d]
      /\ \A i \in 1..Len(K) : L[i + up] = K[i]
  <2>1. CASE Pushing(c)
    BY <1>2, <2>1, PushedShape
  <2>2. CASE ~Pushing(c)
    BY <2>2, ShapeType
  <2> QED
    BY <2>1, <2>2
<1> HIDE DEF L, up
<1>6. Len(L) = ContextIn(ds, Len(ds) + 1)
  <2>1. n + 1 \in 1..n + 1
    BY <1>2
  <2> QED
    BY <1>1, <1>4, <1>5, <2>1
<1>7. ASSUME NEW k \in 1..Len(ds), Pushing(ds[k])
      PROVE  L[ContextIn(ds, k)] = [kind |-> ContextKind(ds[k]), scope |-> DepthIn(ds, k)]
  <2>1. CASE k = 1
    BY <1>1, <1>5, <1>7, <2>1 DEF kind, d
  <2>2. CASE k # 1
    <3>1. PICK j \in 1..n : k = j + 1
      <4>1. k - 1 \in 1..n /\ k = (k - 1) + 1
        BY <1>1, <1>2, <2>2
      <4> QED
        BY <4>1
    <3>2. j \in 1..n + 1 /\ n + 1 \in 1..n + 1 /\ j <= n
      BY <1>2
    <3>3. ds[k] = cs[j] /\ DepthIn(ds, k) = DepthIn(cs, j) /\ ContextIn(ds, k) = ContextIn(cs, j) + up
      BY <1>1, <3>1, <3>2
    <3>4. ContextIn(cs, j) \in 1..Len(K)
      BY <1>3, <1>4, <1>7, <3>2, <3>3
    <3> QED
      BY <1>4, <1>5, <1>7, <3>3, <3>4
  <2> QED
    BY <2>1, <2>2
<1>8. Fits(L, ds)
  BY <1>6, <1>7 DEF Fits
<1> QED
  BY <1>8, Zenon DEF L, ds, kind, d

LEMMA FitsPopped ==
    ASSUME NEW L \in Shapes, NEW cs \in Seq(Call), NEW c \in Call, Fits(L, <<c>> \o cs)
    PROVE  IF Pushing(c)
           THEN \E K \in Shapes : /\ Fits(K, cs)
                                  /\ L = Pushed(K, ContextKind(c), DepthIn(<<c>> \o cs, 1))
           ELSE Fits(L, cs)
<1> DEFINE ds == <<c>> \o cs
           kind == ContextKind(c)
           d == DepthIn(ds, 1)
           up == IF Pushing(c) THEN 1 ELSE 0
           n == Len(cs)
           K == IF Pushing(c) THEN Tail(L) ELSE L
<1>1. /\ ds \in Seq(Call) /\ Len(ds) = n + 1 /\ ds[1] = c /\ ContextIn(ds, 1) = 1
      /\ \A k \in 1..n + 1 : /\ k <= n => ds[k + 1] = cs[k]
                             /\ DepthIn(ds, k + 1) = DepthIn(cs, k)
                             /\ ContextIn(ds, k + 1) = ContextIn(cs, k) + up
  BY CountsPushed
<1>2. n \in Nat /\ d \in Nat /\ kind \in Kinds
  <2>1. n \in Nat /\ kind \in Kinds
    BY DEF ContextKind, Kinds
  <2> HIDE DEF ds
  <2>2. 1 \in 1..Len(ds) + 1
    BY <1>1, <2>1
  <2> QED
    BY <1>1, <2>1, <2>2, CountTypes
<1>3. /\ \A k \in 1..n + 1 : ContextIn(cs, k) \in Nat \ {0}
      /\ \A k \in 1..n : Pushing(cs[k]) => ContextIn(cs, k) < ContextIn(cs, n + 1)
  BY CountTypes
<1>4. /\ Len(L) = ContextIn(ds, Len(ds) + 1)
      /\ \A k \in 1..Len(ds) : Pushing(ds[k]) =>
           L[ContextIn(ds, k)] = [kind |-> ContextKind(ds[k]), scope |-> DepthIn(ds, k)]
  BY DEF Fits
<1> HIDE DEF ds, kind, d, n
<1>5. Len(L) = ContextIn(cs, n + 1) + up
  <2>1. n + 1 \in 1..n + 1
    BY <1>2
  <2> QED
    BY <1>1, <1>4, <2>1
<1>6. /\ Len(K) = ContextIn(cs, n + 1) /\ Len(K) \in Nat \ {0}
      /\ \A i \in 1..Len(K) : K[i] = L[i + up]
      /\ K \in Shapes
  <2>0. L \in Seq(Shape) /\ ContextIn(cs, n + 1) \in Nat \ {0}
        /\ L[Len(L)].kind = "global" /\ L[Len(L)].scope = 0
    BY <1>2, <1>3 DEF Shapes
  <2>1. CASE Pushing(c)
    <3>1. Len(L) = ContextIn(cs, n + 1) + 1
      BY <1>5, <2>1
    <3> DEFINE T == Tail(L)
    <3>2. T \in Seq(Shape) /\ Len(T) = ContextIn(cs, n + 1) /\ \A i \in 1..Len(T) : T[i] = L[i + 1]
      BY <2>0, <3>1
    <3>3. K = T /\ up = 1
      BY <2>1
    <3> HIDE DEF T, K, up
    <3>4. T[Len(T)] = L[Len(L)]
      BY <2>0, <3>1, <3>2
    <3>5. T \in Shapes
      BY <2>0, <3>2, <3>4 DEF Shapes
    <3> QED
      BY <2>0, <3>2, <3>3, <3>5
  <2>2. CASE ~Pushing(c)
    BY <1>5, <2>0, <2>2
  <2> QED
    BY <2>1, <2>2
<1>7. ASSUME NEW k \in 1..n, Pushing(cs[k])
      PROVE  K[ContextIn(cs, k)] = [kind |-> ContextKind(cs[k]), scope |-> DepthIn(cs, k)]
  <2>1. k \in 1..n + 1 /\ k <= n /\ k + 1 \in 1..Len(ds)
    BY <1>1, <1>2
  <2>2. ds[k + 1] = cs[k] /\ DepthIn(ds, k + 1) = DepthIn(cs, k)
        /\ ContextIn(ds, k + 1) = ContextIn(cs, k) + up
    BY <1>1, <2>1
  <2>3. ContextIn(cs, k) \in 1..Len(K)
    BY <1>3, <1>6, <1>7, <2>1
  <2> HIDE DEF K, up
  <2>4. K[ContextIn(cs, k)] = L[ContextIn(ds, k + 1)]
    BY <1>6, <2>2, <2>3
  <2> QED
    BY <1>4, <1>7, <2>1, <2>2, <2>4
<1>8. Fits(K, cs)
  BY <1>6, <1>7 DEF Fits, n
<1>9. ASSUME Pushing(c)
      PROVE  L = Pushed(K, kind, d)
  <2>1. 1 \in 1..Len(ds) /\ Pushing(ds[1])
    BY <1>1, <1>2, <1>9
  <2>2. L[1] = [kind |-> kind, scope |-> d]
    BY <1>1, <1>4, <2>1 DEF kind, d
  <2>3. L \in Seq(Shape) /\ L # <<>>
    BY DEF Shapes
  <2>4. L = <<L[1]>> \o Tail(L)
    BY <2>3
  <2> QED
    BY <1>9, <2>2, <2>4 DEF Pushed
<1> HIDE DEF K
<1> QED
  <2>1. CASE Pushing(c)
    BY <1>6, <1>8, <1>9, <2>1 DEF kind, d, ds
  <2>2. CASE ~Pushing(c)
    BY <1>8, <2>2 DEF K
  <2> QED
    BY <2>1, <2>2

LEMMA FitsFunction ==
    ASSUME NEW K \in Shapes, NEW cs \in Seq(Call), Fits(K, cs), DepthIn(cs, 1) > 0
    PROVE  InFunction(K, DepthIn(cs, 1))
<1> DEFINE n == Len(cs)
           fn(k) == {j \in k..n : cs[j].kind = "function"}
<1>1. n \in Nat
  OBVIOUS
<1>2. fn(1) # {} /\ fn(1) \subseteq Nat
  <2>1. fn(1) = {} => DepthIn(cs, 1) = 0
    BY FS_EmptySet DEF DepthIn
  <2> QED
    BY <1>1, <2>1
<1> HIDE DEF fn
<1>3. PICK k \in fn(1) : \A j \in fn(1) : k <= j
  BY <1>2, LeastNat
<1>4. k \in 1..n /\ cs[k].kind = "function" /\ fn(k) = fn(1)
  BY <1>1, <1>3 DEF fn
<1>5. DepthIn(cs, k) = DepthIn(cs, 1)
  BY <1>4 DEF DepthIn, fn
<1>6. Pushing(cs[k]) /\ ContextKind(cs[k]) = "function"
  BY <1>4 DEF Pushing, ContextKind
<1>7. K[ContextIn(cs, k)] = [kind |-> "function", scope |-> DepthIn(cs, 1)]
  BY <1>4, <1>5, <1>6 DEF Fits
<1>8. ContextIn(cs, k) \in 1..Len(K)
  <2>1. ContextIn(cs, k) < ContextIn(cs, n + 1) /\ ContextIn(cs, k) \in Nat \ {0}
        /\ ContextIn(cs, n + 1) \in Nat \ {0}
    BY <1>1, <1>4, <1>6, CountTypes
  <2> QED
    BY <2>1 DEF Fits
<1> QED
  BY <1>7, <1>8 DEF InFunction

------------------------------------------------------------------------------
(* The inductive invariant: what a context is and holds is what the active *)
(* calls ask of it, whatever they still have to run.                       *)

Stages == {"ready", "assigned", "redirected", "returning", "discarding", "interrupted"}

MachineOf(m, cs) == \E K \in Shapes : Fits(K, cs) /\ m \in Machines(K, DepthIn(cs, 1), Own)

ScopesInv ==
  /\ calls \in Seq(Call)
  /\ stage \in Stages
  /\ MachineOf(s, calls)

LEMMA OwnType ==
    Own \in SUBSET Attributes /\ {"exported", "tempvar"} \subseteq Own /\ "propagate" \notin Own
    /\ "local" \notin Own /\ \A K : TablesAt(K, Own, TempEnv) = GivenTable
  BY GivenTables DEF Own, Attributes, GivenTable

LEMMA InvImpliesContextsOK ==
    ScopesInv => ContextsOK
<1> SUFFICES ASSUME ScopesInv
             PROVE  ContextsOK
  OBVIOUS
<1>1. PICK K \in Shapes : Fits(K, calls) /\ s \in Machines(K, DepthIn(calls, 1), Own)
  BY DEF ScopesInv, MachineOf
<1> DEFINE d == DepthIn(calls, 1)
           n == Len(calls)
<1>2. calls \in Seq(Call) /\ n \in Nat /\ DOMAIN calls = 1..n
  BY DEF ScopesInv
<1>3. d \in Nat
  <2>1. 1 \in 1..n + 1
    BY <1>2
  <2> QED
    BY <1>2, <2>1, CountTypes
<1> HIDE DEF d, n
<1>4. \A k : ContextOf(k) = ContextIn(calls, k) /\ Depth(k) = DepthIn(calls, k)
  BY DEF ContextOf, ContextIn, Depth, DepthIn
<1>5. s \in Machines(K, d, Own)
  BY <1>1 DEF d
<1>6. /\ Len(s.contexts) = Len(K) /\ DOMAIN s.contexts = 1..Len(K) /\ Global(s) = Len(K)
      /\ s.variable_context = d
      /\ \A i \in 1..Len(K) : /\ s.contexts[i].kind = K[i].kind
                              /\ s.contexts[i].scope = K[i].scope
  BY <1>3, <1>5, MachineParts
<1>7. Len(K) \in Nat \ {0} /\ K[Len(K)].kind = "global" /\ K[Len(K)].scope = 0
  BY ShapeType DEF Shapes
<1>8. Len(s.contexts) = ContextOf(Len(calls) + 1) /\ s.variable_context = Depth(1)
  BY <1>1, <1>4, <1>6 DEF Fits, d
<1>9. ASSUME NEW k \in DOMAIN calls, Pushing(calls[k])
      PROVE  /\ s.contexts[ContextOf(k)].kind = ContextKind(calls[k])
             /\ s.contexts[ContextOf(k)].scope = Depth(k)
  <2>1. k \in 1..n /\ k \in 1..n + 1 /\ n + 1 \in 1..n + 1
    BY <1>2
  <2>2. K[ContextIn(calls, k)] = [kind |-> ContextKind(calls[k]), scope |-> DepthIn(calls, k)]
    BY <1>1, <1>9, <2>1 DEF Fits, n
  <2>3. ContextIn(calls, k) \in 1..Len(K)
    <3>1. ContextIn(calls, k) \in Nat \ {0} /\ ContextIn(calls, k) < ContextIn(calls, n + 1)
          /\ ContextIn(calls, n + 1) \in Nat \ {0}
      BY <1>2, <1>9, <2>1, CountTypes DEF n
    <3> QED
      BY <1>1, <3>1 DEF Fits, n
  <2> QED
    BY <1>4, <1>6, <2>2, <2>3
<1>10. ASSUME NEW i \in DOMAIN s.contexts, NEW name \in Names,
              NEW j \in DOMAIN s.contexts[i].table[name]
       PROVE  LET v == s.contexts[i].table[name][j]
              IN  /\ v.context = s.contexts[i].scope
                  /\ i < Global(s) => Has(v, "local") \/ Has(v, "tempvar")
  <2> DEFINE vs == s.contexts[i].table[name]
  <2>1. i \in 1..Len(K) /\ i \in 0..Len(K) /\ i # TempEnv
    BY <1>6, <1>7 DEF TempEnv
  <2>2. vs = Table(s, i)[name]
    BY <2>1 DEF Table
  <2>3. vs \in Seq(ScopeVariables(name, K, i))
    BY <1>3, <1>5, <2>1, <2>2, ListType DEF VariablesAt
  <2> HIDE DEF vs
  <2>4. vs[j] \in ScopeVariables(name, K, i)
    BY <2>3 DEF vs
  <2> QED
    BY <1>6, <2>1, <2>4 DEF ScopeVariables, Handed, vs
<1> QED
  BY <1>6, <1>7, <1>8, <1>9, <1>10 DEF ContextsOK

LEMMA ScopesInit ==
    Init => ScopesInv
<1> SUFFICES ASSUME Init
             PROVE  ScopesInv
  OBVIOUS
<1> DEFINE K == <<[kind |-> "global", scope |-> 0]>>
           c == [kind |-> "global", scope |-> 0, table |-> NoTable]
<1>1. calls = <<>> /\ stage = "ready" /\ s = Start
  BY DEF Init
<1>2. K \in Shapes /\ Len(K) = 1 /\ K[1] = [kind |-> "global", scope |-> 0]
  BY DEF Shapes, Shape, Kinds
<1> HIDE DEF K
<1>3. DepthIn(<<>>, 1) = 0 /\ ContextIn(<<>>, 1) = 1
  <2>1. {j \in 1..Len(<<>>) : <<>>[j].kind = "function"} = {}
        /\ {j \in 1..(1 - 1) : Pushing(<<>>[j])} = {}
    OBVIOUS
  <2> QED
    BY <2>1, FS_EmptySet DEF DepthIn, ContextIn
<1>4. Fits(K, <<>>)
  BY <1>2, <1>3 DEF Fits
<1>5. NoTable \in TablesAt(K, Own, TempEnv) /\ NoTable \in TablesAt(K, Own, 1)
  <2>1. NoTable \in [Names -> Seq(Variable)] /\ \A n \in Names : NoTable[n] = <<>>
    BY DEF NoTable
  <2>2. \A n : <<>> \in Seq(VariablesAt(n, K, Own, 1))
    OBVIOUS
  <2> QED
    BY <2>1, <2>2, NothingGiven DEF TablesAt
<1>6. c \in ContextAt(K, Own, 1) /\ c \in Context
  BY <1>2, <1>5 DEF ContextAt, Context, Kinds, TablesAt
<1> HIDE DEF c
<1>7. <<c>> \in ContextsOf(K, Own)
  BY <1>2, <1>6 DEF ContextsOf
<1>8. Start.contexts = <<c>> /\ Start.temporary_env = NoTable /\ Start.variable_context = 0
  BY DEF Start, c
<1>9. [n \in Names |-> NoValue] \in [Names -> Strings]
  BY DEF Strings
<1>10. Start \in Machines(K, 0, Own)
  BY <1>5, <1>7, <1>9 DEF Start, c, Machines
<1> QED
  BY <1>1, <1>2, <1>3, <1>4, <1>10 DEF ScopesInv, MachineOf, Stages

LEMMA DepthType ==
    ASSUME NEW cs \in Seq(Call)
    PROVE  DepthIn(cs, 1) \in Nat
<1>1. Len(cs) \in Nat /\ 1 \in 1..Len(cs) + 1
  OBVIOUS
<1> QED
  BY <1>1, CountTypes

LEMMA CompleteStep ==
    ASSUME ScopesInv, NEW K \in Shapes, Fits(K, calls), NEW B,
           NEW m \in Machines(K, DepthIn(calls, 1), B), Complete(m)
    PROVE  ScopesInv'
<1>1. DisposeUsedEnvVars(m) \in Machines(K, DepthIn(calls, 1), Own)
  BY OwnType, DepthType, DisposeIn DEF ScopesInv
<1> QED
  BY <1>1 DEF ScopesInv, MachineOf, Complete, Stages

LEMMA CommandStep ==
    ASSUME ScopesInv, Commands
    PROVE  ScopesInv'
<1> DEFINE d == DepthIn(calls, 1)
<1>1. PICK K \in Shapes : Fits(K, calls) /\ s \in Machines(K, d, Own)
  BY DEF ScopesInv, MachineOf
<1>2. d \in Nat /\ calls \in Seq(Call)
  BY DepthType DEF ScopesInv
<1>3. s.variable_context = d /\ (d > 0 => InFunction(K, d))
  BY <1>1, <1>2, MachineParts, FitsFunction
<1>4. NoValue \in Strings /\ Values \subseteq Strings /\ Own \in SUBSET Attributes
      /\ {"exported", "tempvar"} \subseteq Own /\ "propagate" \notin Own /\ "local" \notin Own
      /\ Attributes \in SUBSET Attributes /\ {"exported", "propagate"} \subseteq Attributes
  BY OwnType DEF Strings, Attributes
<1>5. ASSUME NEW m \in Machines(K, d, Own), Complete(m)
      PROVE  ScopesInv'
  BY <1>1, <1>5, CompleteStep
<1> HIDE DEF d
<1>6. CASE External
  BY <1>1, <1>2, <1>4, <1>5, <1>6, MaybeMakeIn DEF External
<1>7. CASE OtherBuiltin
  BY <1>1, <1>5, <1>7 DEF OtherBuiltin
<1>8. CASE LocalsOfOtherNames
  <2>1. InFunction(K, d) /\ Complete(Grow(s))
    BY <1>2, <1>3, <1>8 DEF LocalsOfOtherNames, Builtin
  <2>2. Grow(s) \in Machines(K, d, Own)
    BY <1>1, <1>2, <1>4, <2>1, GrowIn
  <2> QED
    BY <1>5, <2>1, <2>2
<1>9. ASSUME NEW n \in Names, ExportBuiltin(n)
      PROVE  ScopesInv'
  <2>1. Export(s, n) \in Machines(K, d, Own)
    BY <1>1, <1>2, <1>4, ExportIn
  <2> QED
    BY <1>5, <1>9, <2>1 DEF ExportBuiltin, Builtin
<1>10. ASSUME NEW n \in Names, UnexportBuiltin(n)
       PROVE  ScopesInv'
  <2>1. Unexport(s, n) \in Machines(K, d, Own)
    BY <1>1, <1>2, <1>4, UnexportIn
  <2> QED
    BY <1>5, <1>10, <2>1 DEF UnexportBuiltin, Builtin
<1>11. s \in Machines(K, d, Attributes)
  BY <1>1, <1>2, <1>4, MoreAttributes
<1>12. AskForEnv(s) \in Machines(K, d, Attributes)
  BY <1>2, <1>11, FlagTrueIn DEF AskForEnv
<1>13. MaybeMakeExportEnv(AskForEnv(s)) \in Machines(K, d, Attributes)
  BY <1>2, <1>4, <1>12, MaybeMakeIn
<1>14. ASSUME NEW m \in Machines(K, d, Attributes), NEW n \in Names, Complete(DeclareExport(m, n))
       PROVE  ScopesInv'
  <2>1. DeclareExport(m, n) \in Machines(K, d, Attributes)
    BY <1>2, <1>3, <1>4, DeclareExportIn
  <2> QED
    BY <1>1, <1>14, <2>1, CompleteStep DEF d
<1>15. ASSUME NEW n \in Names, DeclareBuiltin(n) \/ DeclareAfterTZ(n)
       PROVE  ScopesInv'
  BY <1>12, <1>13, <1>14, <1>15 DEF DeclareBuiltin, DeclareAfterTZ, Builtin
<1>16. ASSUME NEW n \in Names, UnsetBuiltin(n)
       PROVE  ScopesInv'
  <2> DEFINE m == InScope(s, TRUE, LAMBDA x : Makunbound(x, n))
  <2>1. m \in Machines(K, d, Own)
    BY <1>1, <1>2, <1>4, UnsetIn
  <2>2. Complete(m)
    BY <1>16 DEF UnsetBuiltin, Builtin
  <2> HIDE DEF m
  <2> QED
    BY <1>5, <2>1, <2>2
<1>17. ASSUME NEW n \in Names, NEW val \in Strings, LocalBuiltin(n, val)
       PROVE  ScopesInv'
  <2>1. InFunction(K, d) /\ Complete(Local(s, n, val))
    BY <1>2, <1>3, <1>17 DEF LocalBuiltin, Builtin
  <2>2. Local(s, n, val) \in Machines(K, d, Own)
    BY <1>1, <1>2, <1>4, <2>1, LocalIn
  <2> QED
    BY <1>5, <2>1, <2>2
<1>18. ASSUME NEW n \in Names, NEW val \in Strings, Assign(n, val)
       PROVE  ScopesInv'
  <2>1. BindVariable(s, n, val) \in Machines(K, d, Own)
    BY <1>1, <1>2, <1>4, BindVariableIn
  <2> QED
    BY <1>5, <1>18, <2>1 DEF Assign
<1>19. ASSUME NEW n \in Names, NEW val \in Strings, AssignBefore(n, val)
       PROVE  ScopesInv'
  <2>1. AssignInEnv(s, n, val) \in Machines(K, d, Own)
    BY <1>1, <1>2, <1>4, AssignInEnvIn
  <2> QED
    BY <1>1, <1>19, <2>1 DEF AssignBefore, ScopesInv, MachineOf, Stages, d
<1>20. ASSUME NEW n \in Names, NEW val \in Strings, ExportAssigning(n, val)
       PROVE  ScopesInv'
  <2>1. BindVariable(s, n, val) \in Machines(K, d, Own)
    BY <1>1, <1>2, <1>4, BindVariableIn
  <2>2. Export(BindVariable(s, n, val), n) \in Machines(K, d, Own)
    BY <1>2, <1>4, <2>1, ExportIn
  <2> QED
    BY <1>5, <1>20, <2>2 DEF ExportAssigning, Builtin
<1>21. ASSUME NEW n \in Names, NEW val \in Strings, ReadBuiltin(n, val)
       PROVE  ScopesInv'
  <2> DEFINE m == InScope(s, FALSE, LAMBDA x : BindVariable(x, n, val))
  <2>1. m \in Machines(K, d, Own)
    BY <1>1, <1>2, <1>4, ReadIn
  <2>2. Complete(m)
    BY <1>21 DEF ReadBuiltin, Builtin
  <2> HIDE DEF m
  <2> QED
    BY <1>5, <2>1, <2>2
<1>22. ASSUME NEW n \in Names, NEW val \in Strings, Cd(n, val)
       PROVE  ScopesInv'
  <2>1. SetPwd(s, n, val) \in Machines(K, d, Own)
    BY <1>1, <1>2, <1>4, SetPwdIn
  <2> QED
    BY <1>5, <1>22, <2>1 DEF Cd, Builtin
<1> QED
  BY <1>4, <1>6, <1>7, <1>8, <1>9, <1>10, <1>15, <1>16, <1>17, <1>18, <1>19, <1>20, <1>21, <1>22
     DEF Commands

LEMMA HeadAndTail ==
    ASSUME calls \in Seq(Call), calls # <<>>
    PROVE  /\ Head(calls) \in Call /\ Tail(calls) \in Seq(Call)
           /\ calls = <<Head(calls)>> \o Tail(calls)
  OBVIOUS

(* Going on without the innermost call. *)
LEMMA PoppedMachine ==
    ASSUME calls \in Seq(Call), MachineOf(s, calls), calls # <<>>
    PROVE  \E K \in Shapes :
             /\ Fits(K, Tail(calls))
             /\ IF Pushing(Head(calls))
                THEN s \in Machines(Pushed(K, ContextKind(Head(calls)), DepthIn(calls, 1)),
                                    DepthIn(calls, 1), Own)
                ELSE s \in Machines(K, DepthIn(calls, 1), Own)
<1> DEFINE c == Head(calls)
           cs == Tail(calls)
<1>1. c \in Call /\ cs \in Seq(Call) /\ calls = <<c>> \o cs
  BY HeadAndTail
<1>2. PICK L \in Shapes : Fits(L, calls) /\ s \in Machines(L, DepthIn(calls, 1), Own)
  BY DEF MachineOf
<1> HIDE DEF c, cs
<1>3. IF Pushing(c)
      THEN \E K \in Shapes : Fits(K, cs) /\ L = Pushed(K, ContextKind(c), DepthIn(calls, 1))
      ELSE Fits(L, cs)
  <2>1. Fits(L, <<c>> \o cs)
    BY <1>1, <1>2
  <2>2. DepthIn(<<c>> \o cs, 1) = DepthIn(calls, 1)
    BY <1>1
  <2> QED
    BY <1>1, <2>1, <2>2, FitsPopped
<1>4. CASE Pushing(c)
  <2>1. PICK K \in Shapes : Fits(K, cs) /\ L = Pushed(K, ContextKind(c), DepthIn(calls, 1))
    BY <1>3, <1>4
  <2> QED
    BY <1>2, <1>4, <2>1 DEF c, cs
<1>5. CASE ~Pushing(c)
  BY <1>2, <1>3, <1>5 DEF c, cs
<1> QED
  BY <1>4, <1>5

LEMMA DepthOfCalls ==
    ASSUME calls \in Seq(Call), calls # <<>>
    PROVE  /\ DepthIn(Tail(calls), 1) \in Nat
           /\ DepthIn(calls, 1) = DepthIn(Tail(calls), 1)
                                  + IF Head(calls).kind = "function" THEN 1 ELSE 0
<1> DEFINE c == Head(calls)
           cs == Tail(calls)
<1>1. c \in Call /\ cs \in Seq(Call) /\ calls = <<c>> \o cs
  BY HeadAndTail
<1> HIDE DEF c, cs
<1>2. DepthIn(<<c>> \o cs, 1) = DepthIn(cs, 1) + IF c.kind = "function" THEN 1 ELSE 0
  BY <1>1, CountsPushed
<1> QED
  BY <1>1, <1>2, DepthType DEF c, cs

LEMMA FunctionEnded ==
    ASSUME ScopesInv, Running("function")
    PROVE  MachineOf(PopContext(s), Tail(calls)) /\ Kept(s, PopContext(s))
<1> DEFINE c == Head(calls)
           d == DepthIn(calls, 1)
<1>1. calls \in Seq(Call) /\ calls # <<>> /\ c.kind = "function" /\ MachineOf(s, calls)
  BY DEF ScopesInv, Running
<1>2. Pushing(c) /\ ContextKind(c) = "function" /\ "function" \in Kinds
  BY <1>1 DEF Pushing, ContextKind, Kinds
<1>3. PICK K \in Shapes :
        Fits(K, Tail(calls)) /\ s \in Machines(Pushed(K, "function", d), d, Own)
  BY <1>1, <1>2, PoppedMachine
<1>4. DepthIn(Tail(calls), 1) \in Nat /\ d = DepthIn(Tail(calls), 1) + 1
  BY <1>1, DepthOfCalls
<1> HIDE DEF d
<1>5. d \in Nat \ {0} /\ d \in Nat /\ d - 1 = DepthIn(Tail(calls), 1)
  BY <1>4
<1>6. PopContext(s) \in Machines(K, d - 1, Own) /\ Kept(s, PopContext(s))
  BY <1>2, <1>3, <1>5, OwnType, PopContextIn
<1> QED
  BY <1>3, <1>5, <1>6 DEF MachineOf

LEMMA EvalEnded ==
    ASSUME ScopesInv, Running("eval")
    PROVE  /\ MachineOf(Unscoped(s, Head(calls)), Tail(calls))
           /\ Kept(s, Unscoped(s, Head(calls)))
<1> DEFINE c == Head(calls)
           d == DepthIn(calls, 1)
<1>1. calls \in Seq(Call) /\ calls # <<>> /\ c.kind = "eval" /\ MachineOf(s, calls)
  BY DEF ScopesInv, Running
<1>2. d \in Nat /\ d = DepthIn(Tail(calls), 1)
  BY <1>1, DepthOfCalls
<1>3. CASE c.scoped
  <2>1. Pushing(c) /\ ContextKind(c) = "builtin" /\ "builtin" \in Kinds
    BY <1>1, <1>3 DEF Pushing, ContextKind, Kinds
  <2>2. PICK K \in Shapes :
          Fits(K, Tail(calls)) /\ s \in Machines(Pushed(K, "builtin", d), d, Own)
    BY <1>1, <2>1, PoppedMachine
  <2>3. Unscoped(s, c) = PopScope(s, TRUE)
    BY <1>3 DEF Unscoped
  <2> HIDE DEF d
  <2>4. PopScope(s, TRUE) \in Machines(K, d, Own) /\ Kept(s, PopScope(s, TRUE))
    BY <1>2, <2>1, <2>2, OwnType, PopScopeIn
  <2> QED
    BY <1>2, <2>2, <2>3, <2>4 DEF MachineOf
<1>4. CASE ~c.scoped
  <2>1. ~Pushing(c)
    BY <1>1, <1>4 DEF Pushing
  <2>2. PICK K \in Shapes : Fits(K, Tail(calls)) /\ s \in Machines(K, d, Own)
    BY <1>1, <2>1, PoppedMachine
  <2>3. Unscoped(s, c) = s
    BY <1>4 DEF Unscoped
  <2> QED
    BY <1>2, <2>2, <2>3, KeptItself DEF MachineOf
<1> QED
  BY <1>3, <1>4

LEMMA HandlerEnded ==
    ASSUME ScopesInv, Running("handler")
    PROVE  /\ MachineOf(s, Tail(calls))
           /\ Head(calls).temporary_env \in GivenTable
           /\ Head(calls).then \in {"ready", "redirected"}
<1> DEFINE c == Head(calls)
           d == DepthIn(calls, 1)
<1>1. calls \in Seq(Call) /\ calls # <<>> /\ c.kind = "handler" /\ MachineOf(s, calls)
  BY DEF ScopesInv, Running
<1>2. c \in Call
  BY <1>1, HeadAndTail
<1>3. ~Pushing(c)
  BY <1>1 DEF Pushing
<1>4. d = DepthIn(Tail(calls), 1)
  BY <1>1, DepthOfCalls
<1>5. PICK K \in Shapes : Fits(K, Tail(calls)) /\ s \in Machines(K, d, Own)
  BY <1>1, <1>3, PoppedMachine
<1> HIDE DEF d, c
<1>6. c.temporary_env \in GivenTable /\ c.then \in {"ready", "redirected"}
  BY <1>1, <1>2 DEF Call
<1> QED
  BY <1>4, <1>5, <1>6 DEF MachineOf, c

LEMMA DisposedMachine ==
    ASSUME NEW cs \in Seq(Call), NEW m, MachineOf(m, cs)
    PROVE  /\ MachineOf(DisposeUsedEnvVars(m), cs)
           /\ Fresh(m) => Fresh(DisposeUsedEnvVars(m))
<1>1. PICK K \in Shapes : Fits(K, cs) /\ m \in Machines(K, DepthIn(cs, 1), Own)
  BY DEF MachineOf
<1>2. DepthIn(cs, 1) \in Nat /\ Own \in SUBSET Attributes
  BY DepthType, OwnType
<1>3. /\ DisposeUsedEnvVars(m) \in Machines(K, DepthIn(cs, 1), Own)
      /\ Fresh(m) => Fresh(DisposeUsedEnvVars(m))
  BY <1>1, <1>2, DisposeIn
<1> QED
  BY <1>1, <1>3 DEF MachineOf

(* Another temporary environment, of variables given to a command.         *)
LEMMA OtherTempEnv ==
    ASSUME NEW cs, NEW m, MachineOf(m, cs), NEW t \in GivenTable
    PROVE  MachineOf([m EXCEPT !.temporary_env = t], cs)
<1>1. PICK K \in Shapes : Fits(K, cs) /\ m \in Machines(K, DepthIn(cs, 1), Own)
  BY DEF MachineOf
<1>2. t \in TablesAt(K, Own, TempEnv)
  BY OwnType
<1>3. [m EXCEPT !.temporary_env = t] \in Machines(K, DepthIn(cs, 1), Own)
  BY <1>1, <1>2 DEF Machines
<1> QED
  BY <1>1, <1>3 DEF MachineOf

LEMMA TempEnvType ==
    ASSUME NEW cs, NEW m, MachineOf(m, cs)
    PROVE  m.temporary_env \in GivenTable /\ NoTable \in GivenTable
<1>1. PICK K \in Shapes : m \in Machines(K, DepthIn(cs, 1), Own)
  BY DEF MachineOf
<1> QED
  BY <1>1, OwnType, NothingGiven DEF Machines

LEMMA CallStep ==
    ASSUME ScopesInv, Calls
    PROVE  ScopesInv'
<1> DEFINE d == DepthIn(calls, 1)
<1>1. PICK K \in Shapes : Fits(K, calls) /\ s \in Machines(K, d, Own)
  BY DEF ScopesInv, MachineOf
<1>2. d \in Nat /\ calls \in Seq(Call) /\ stage \in Stages /\ MachineOf(s, calls)
      /\ Own \in SUBSET Attributes
  BY DepthType, OwnType DEF ScopesInv
<1> HIDE DEF d
<1>3. \A c \in Call : /\ <<c>> \o calls \in Seq(Call)
                      /\ DepthIn(<<c>> \o calls, 1) = d + IF c.kind = "function" THEN 1 ELSE 0
  BY <1>2, CountsPushed DEF d
<1>4. CASE CallFunction
  <2> DEFINE c == [kind |-> "function"]
  <2>1. c \in Call /\ Pushing(c) /\ ContextKind(c) = "function" /\ c.kind = "function"
    BY DEF Call, Pushing, ContextKind
  <2>2. calls' = <<c>> \o calls /\ s' = PushContext(s) /\ stage' = "ready"
    BY <1>4 DEF CallFunction, Called
  <2> HIDE DEF c
  <2>3. DepthIn(calls', 1) = d + 1 /\ calls' \in Seq(Call)
    BY <1>3, <2>1, <2>2
  <2>4. Fits(Pushed(K, "function", d + 1), calls')
    BY <1>1, <1>2, <2>1, <2>2, <2>3, FitsPushed
  <2>5. s' \in Machines(Pushed(K, "function", d + 1), d + 1, Own)
    BY <1>1, <1>2, <2>2, PushContextIn
  <2>6. Pushed(K, "function", d + 1) \in Shapes
    <3>1. d + 1 \in Nat /\ "function" \in Kinds
      BY <1>2 DEF Kinds
    <3> QED
      BY <3>1, PushedShape
  <2> QED
    BY <2>2, <2>3, <2>4, <2>5, <2>6 DEF ScopesInv, MachineOf, Stages
<1>5. CASE CallEval
  <2> DEFINE scoped == s.temporary_env # NoTable
             c == [kind |-> "eval", scoped |-> scoped]
  <2>1. c \in Call /\ (Pushing(c) <=> scoped) /\ ContextKind(c) = "builtin" /\ c.kind = "eval"
    BY DEF Call, Pushing, ContextKind
  <2>2. calls' = <<c>> \o calls /\ s' = (IF scoped THEN PushScope(s) ELSE s) /\ stage' = "ready"
    BY <1>5 DEF CallEval, Called
  <2> HIDE DEF c, scoped
  <2>3. DepthIn(calls', 1) = d /\ calls' \in Seq(Call)
    BY <1>2, <1>3, <2>1, <2>2
  <2>4. CASE scoped
    <3>1. Fits(Pushed(K, "builtin", d), calls')
      BY <1>1, <1>2, <2>1, <2>2, <2>3, <2>4, FitsPushed
    <3>2. s' \in Machines(Pushed(K, "builtin", d), d, Own)
      BY <1>1, <1>2, <2>2, <2>4, PushIn DEF PushScope, Kinds
    <3>3. Pushed(K, "builtin", d) \in Shapes
      BY <1>2, PushedShape DEF Kinds
    <3> QED
      BY <2>2, <2>3, <3>1, <3>2, <3>3 DEF ScopesInv, MachineOf, Stages
  <2>5. CASE ~scoped
    <3>1. Fits(K, calls')
      BY <1>1, <1>2, <2>1, <2>2, <2>5, FitsPushed
    <3> QED
      BY <1>1, <2>2, <2>3, <2>5, <3>1 DEF ScopesInv, MachineOf, Stages
  <2> QED
    BY <2>4, <2>5
<1>6. CASE EnterHandler
  <2> DEFINE c == [kind |-> "handler", temporary_env |-> s.temporary_env,
                   then |-> IF stage = "ready" THEN "ready" ELSE "redirected"]
  <2>1. s.temporary_env \in GivenTable /\ NoTable \in GivenTable
    BY <1>2, TempEnvType
  <2>2. c \in Call /\ ~Pushing(c) /\ c.kind = "handler"
    BY <2>1 DEF Call, Pushing
  <2>3. calls' = <<c>> \o calls /\ s' = [s EXCEPT !.temporary_env = NoTable] /\ stage' = "ready"
    BY <1>6 DEF EnterHandler, Called
  <2> HIDE DEF c
  <2>4. DepthIn(calls', 1) = d /\ calls' \in Seq(Call)
    BY <1>2, <1>3, <2>2, <2>3
  <2>5. Fits(K, calls')
    BY <1>1, <1>2, <2>2, <2>3, FitsPushed
  <2>6. s' \in Machines(K, d, Own)
    BY <1>1, <1>2, <2>3, ForgetGiven
  <2> QED
    BY <2>3, <2>4, <2>5, <2>6 DEF ScopesInv, MachineOf, Stages
<1>7. CASE EndFunction
  <2>1. /\ Running("function") /\ calls' = Tail(calls) /\ stage' = stage
        /\ s' = DisposeUsedEnvVars(PopContext(s))
    BY <1>7 DEF EndFunction
  <2>2. Tail(calls) \in Seq(Call)
    BY <1>2, <2>1, HeadAndTail DEF Running
  <2>3. MachineOf(DisposeUsedEnvVars(PopContext(s)), Tail(calls))
    BY <2>1, <2>2, FunctionEnded, DisposedMachine
  <2> QED
    BY <1>2, <2>1, <2>2, <2>3 DEF ScopesInv
<1>8. CASE EndEval
  <2>1. /\ Running("eval") /\ calls' = Tail(calls) /\ stage' = stage
        /\ s' = DisposeUsedEnvVars(Unscoped(s, Head(calls)))
    BY <1>8 DEF EndEval
  <2>2. Tail(calls) \in Seq(Call)
    BY <1>2, <2>1, HeadAndTail DEF Running
  <2>3. MachineOf(DisposeUsedEnvVars(Unscoped(s, Head(calls))), Tail(calls))
    BY <2>1, <2>2, EvalEnded, DisposedMachine
  <2> QED
    BY <1>2, <2>1, <2>2, <2>3 DEF ScopesInv
<1>9. CASE EndHandler
  <2>1. /\ Running("handler") /\ calls' = Tail(calls) /\ stage' = Head(calls).then
        /\ s' = [s EXCEPT !.temporary_env = Head(calls).temporary_env]
    BY <1>9 DEF EndHandler
  <2>2. Tail(calls) \in Seq(Call)
    BY <1>2, <2>1, HeadAndTail DEF Running
  <2>3. MachineOf(s', Tail(calls)) /\ stage' \in Stages
    BY <2>1, HandlerEnded, OtherTempEnv DEF Stages
  <2> QED
    BY <2>1, <2>2, <2>3 DEF ScopesInv
<1> QED
  BY <1>4, <1>5, <1>6, <1>7, <1>8, <1>9 DEF Calls

LEMMA UnwindingStep ==
    ASSUME ScopesInv, Unwinding
    PROVE  ScopesInv'
<1>1. calls \in Seq(Call) /\ stage \in Stages /\ MachineOf(s, calls)
  BY DEF ScopesInv
<1>2. CASE Return \/ ExpansionError \/ Interrupt \/ DiscardUpTo
  BY <1>1, <1>2 DEF Return, ExpansionError, Interrupt, DiscardUpTo, ScopesInv, Stages
<1>3. CASE UnwindFunction
  <2>1. /\ Running("function") /\ calls' = Tail(calls) /\ stage' \in Stages
        /\ s' = DisposeUsedEnvVars(PopContext(s)) \/ s' = PopContext(s)
    BY <1>1, <1>3 DEF UnwindFunction, Stages
  <2>2. Tail(calls) \in Seq(Call)
    BY <1>1, <2>1, HeadAndTail DEF Running
  <2>3. MachineOf(PopContext(s), Tail(calls))
    BY <2>1, FunctionEnded
  <2>4. MachineOf(DisposeUsedEnvVars(PopContext(s)), Tail(calls))
    BY <2>2, <2>3, DisposedMachine
  <2> QED
    BY <2>1, <2>2, <2>3, <2>4 DEF ScopesInv
<1>4. CASE UnwindEval
  <2>1. /\ Running("eval") /\ calls' = Tail(calls) /\ stage' = stage
        /\ s' = Unscoped(s, Head(calls))
    BY <1>4 DEF UnwindEval
  <2>2. Tail(calls) \in Seq(Call)
    BY <1>1, <2>1, HeadAndTail DEF Running
  <2>3. MachineOf(Unscoped(s, Head(calls)), Tail(calls))
    BY <2>1, EvalEnded
  <2> QED
    BY <1>1, <2>1, <2>2, <2>3 DEF ScopesInv
<1>5. CASE UnwindHandler
  <2>1. Running("handler") /\ calls' = Tail(calls) /\ stage' = stage /\ s' = s
    BY <1>5 DEF UnwindHandler
  <2>2. Tail(calls) \in Seq(Call)
    BY <1>1, <2>1, HeadAndTail DEF Running
  <2> QED
    BY <1>1, <2>1, <2>2, HandlerEnded DEF ScopesInv
<1>6. CASE ToTopLevel
  <2>1. calls' = calls /\ s' = DisposeUsedEnvVars(s) /\ stage' \in Stages
    BY <1>6 DEF ToTopLevel, Complete, Stages
  <2> QED
    BY <1>1, <2>1, DisposedMachine DEF ScopesInv
<1> QED
  BY <1>2, <1>3, <1>4, <1>5, <1>6 DEF Unwinding

(* Whatever commands run, and however the functions, evals and trap        *)
(* handlers they call are left: the contexts are those of the active       *)
(* calls, in their order, each with the kind and the depth it was pushed   *)
(* with; every variable is in the context it says, and outside the global  *)
(* one it was given or is local.  pop_context() and pop_scope() never pop  *)
(* the context of another call.                                            *)
THEOREM ContextsAreOfCalls ==
    Spec => []ContextsOK
<1>1. Init => ScopesInv
  BY ScopesInit
<1>2. ScopesInv /\ [Next]_vars => ScopesInv'
  <2> SUFFICES ASSUME ScopesInv, [Next]_vars
               PROVE  ScopesInv'
    OBVIOUS
  <2>1. CASE Next
    BY <2>1, CommandStep, CallStep, UnwindingStep DEF Next
  <2>2. CASE UNCHANGED vars
    BY <2>2 DEF vars, ScopesInv
  <2> QED
    BY <2>1, <2>2
<1>3. ScopesInv => ContextsOK
  BY InvImpliesContextsOK
<1> QED
  BY <1>1, <1>2, <1>3, PTL DEF Spec

------------------------------------------------------------------------------
(* The environment of commands, step by step. *)

LEMMA OutOfDateIs ==
    (OutOfDate <=> ~Fresh(s)) /\ (OutOfDate' <=> ~Fresh(s'))
<1>1. \A n : Deserved(n) = Deserves(s, n)
  BY Zenon DEF Deserved, Deserves
<1>2. \A n : Deserved(n)' = Deserves(s', n)
  BY Zenon DEF Deserved, Deserves
<1> QED
  BY <1>1, <1>2 DEF OutOfDate, Fresh

LEMMA CompleteFresh ==
    ASSUME ScopesInv, NEW K \in Shapes, NEW B, NEW m \in Machines(K, DepthIn(calls, 1), B),
           Complete(m), Fresh(m) \/ m.temporary_env # NoTable
    PROVE  Fresh(s')
  BY OwnType, DepthType, DisposeIn DEF ScopesInv, Complete

LEMMA CommandFresh ==
    ASSUME ScopesInv, Commands, Fresh(s), ~Duplicated, \A n \in Names : ~DeclareAfterTZ(n)
    PROVE  Fresh(s')
<1> DEFINE d == DepthIn(calls, 1)
<1>1. PICK K \in Shapes : Fits(K, calls) /\ s \in Machines(K, d, Own)
  BY DEF ScopesInv, MachineOf
<1>2. d \in Nat /\ calls \in Seq(Call)
  BY DepthType DEF ScopesInv
<1>3. s.variable_context = d /\ (d > 0 => InFunction(K, d))
  BY <1>1, <1>2, MachineParts, FitsFunction
<1>4. NoValue \in Strings /\ Values \subseteq Strings /\ Own \in SUBSET Attributes
      /\ {"exported", "tempvar"} \subseteq Own /\ "propagate" \notin Own /\ "local" \notin Own
      /\ Attributes \in SUBSET Attributes /\ {"exported", "propagate"} \subseteq Attributes
  BY OwnType DEF Strings, Attributes
<1>5. \A i \in 1..Len(K), n \in Names : Len(Table(s, i)[n]) < 2
  <2>1. ASSUME NEW i \in 1..Len(K), NEW n \in Names
        PROVE  Len(Table(s, i)[n]) < 2
    <3>1. i \in DOMAIN s.contexts /\ Table(s, i) = s.contexts[i].table /\ i \in 0..Len(K)
      BY <1>1, <1>2, MachineParts DEF Table, TempEnv
    <3>2. Table(s, i)[n] \in Seq(VariablesAt(n, K, Own, i))
      BY <1>1, <1>2, <3>1, ListType
    <3>3. Len(Table(s, i)[n]) \in Nat
      BY <3>2
    <3>4. ~(Len(Table(s, i)[n]) > 1)
      BY <3>1 DEF Duplicated
    <3> QED
      BY <3>3, <3>4
  <2> QED
    BY <2>1
<1>6. ASSUME NEW m \in Machines(K, d, Own), Complete(m), Fresh(m) \/ m.temporary_env # NoTable
      PROVE  Fresh(s')
  BY <1>6, CompleteFresh
<1> HIDE DEF d
<1>7. CASE External
  <2>1. MaybeMakeExportEnv(s) \in Machines(K, d, Own) /\ Fresh(MaybeMakeExportEnv(s))
    BY <1>1, <1>2, <1>4, MaybeMakeIn, MaybeMadeIsFresh
  <2> QED
    BY <1>6, <1>7, <2>1 DEF External
<1>8. CASE OtherBuiltin
  BY <1>1, <1>6, <1>8 DEF OtherBuiltin
<1>9. CASE LocalsOfOtherNames
  <2>1. InFunction(K, d) /\ Complete(Grow(s))
    BY <1>2, <1>3, <1>9 DEF LocalsOfOtherNames, Builtin
  <2>2. Grow(s) \in Machines(K, d, Own) /\ Kept(s, Grow(s))
    BY <1>1, <1>2, <1>4, <1>5, <2>1, GrowIn
  <2> QED
    BY <1>6, <2>1, <2>2, KeptIsFresh
<1>10. ASSUME NEW n \in Names, ExportBuiltin(n)
       PROVE  Fresh(s')
  <2>1. Export(s, n) \in Machines(K, d, Own) /\ Fresh(Export(s, n))
    BY <1>1, <1>2, <1>4, ExportIn DEF Fresh
  <2> QED
    BY <1>6, <1>10, <2>1 DEF ExportBuiltin, Builtin
<1>11. ASSUME NEW n \in Names, UnexportBuiltin(n)
       PROVE  Fresh(s')
  <2>1. Unexport(s, n) \in Machines(K, d, Own) /\ Fresh(Unexport(s, n))
    BY <1>1, <1>2, <1>4, UnexportIn DEF Fresh
  <2> QED
    BY <1>6, <1>11, <2>1 DEF UnexportBuiltin, Builtin
<1>12. ASSUME NEW n \in Names, DeclareBuiltin(n)
       PROVE  Fresh(s')
  <2> DEFINE a == AskForEnv(s)
             m == DeclareExport(a, n)
  <2>1. s \in Machines(K, d, Attributes)
    BY <1>1, <1>2, <1>4, MoreAttributes
  <2>2. a \in Machines(K, d, Attributes) /\ a.array_needs_making
    BY <1>2, <2>1, FlagTrueIn DEF AskForEnv
  <2> HIDE DEF a
  <2>3. m \in Machines(K, d, Attributes) /\ m.array_needs_making
    BY <1>2, <1>3, <1>4, <2>2, DeclareExportIn
  <2>4. Complete(m)
    BY <1>12 DEF DeclareBuiltin, Builtin, a
  <2> HIDE DEF m
  <2>5. Fresh(m)
    BY <2>3 DEF Fresh
  <2> QED
    BY <2>3, <2>4, <2>5, CompleteFresh DEF d
<1>13. ASSUME NEW n \in Names, UnsetBuiltin(n)
       PROVE  Fresh(s')
  <2> DEFINE m == InScope(s, TRUE, LAMBDA y : Makunbound(y, n))
  <2>1. m \in Machines(K, d, Own) /\ Kept(s, m)
    BY <1>1, <1>2, <1>4, <1>5, UnsetIn
  <2>2. Complete(m)
    BY <1>13 DEF UnsetBuiltin, Builtin
  <2> HIDE DEF m
  <2> QED
    BY <1>6, <2>1, <2>2, KeptIsFresh
<1>14. ASSUME NEW n \in Names, NEW val \in Strings, LocalBuiltin(n, val)
       PROVE  Fresh(s')
  <2>1. InFunction(K, d) /\ Complete(Local(s, n, val))
    BY <1>2, <1>3, <1>14 DEF LocalBuiltin, Builtin
  <2>2. Local(s, n, val) \in Machines(K, d, Own) /\ Kept(s, Local(s, n, val))
    BY <1>1, <1>2, <1>4, <2>1, LocalIn
  <2> QED
    BY <1>6, <2>1, <2>2, KeptIsFresh
<1>15. ASSUME NEW n \in Names, NEW val \in Strings, Assign(n, val)
       PROVE  Fresh(s')
  <2> DEFINE m == BindVariable(s, n, val)
  <2>1. m \in Machines(K, d, Own)
    BY <1>1, <1>2, <1>4, BindVariableIn
  <2>2. Complete(m)
    BY <1>15 DEF Assign
  <2>3. s.temporary_env = NoTable => Kept(s, m)
    BY <1>1, <1>2, <1>4, KeptByBind DEF NoTable
  <2>4. s.temporary_env # NoTable => m.temporary_env # NoTable
    BY <1>1, <1>2, <1>4, BindKeepsGiven
  <2> HIDE DEF m
  <2> QED
    BY <1>6, <2>1, <2>2, <2>3, <2>4, KeptIsFresh
<1>16. ASSUME NEW n \in Names, NEW val \in Strings, AssignBefore(n, val)
       PROVE  Fresh(s')
  <2>1. AssignInEnv(s, n, val).array_needs_making
    BY <1>1, <1>2, <1>4, AssignInEnvIn
  <2> QED
    BY <1>16, <2>1 DEF AssignBefore, Fresh
<1>17. ASSUME NEW n \in Names, NEW val \in Strings, ExportAssigning(n, val)
       PROVE  Fresh(s')
  <2> DEFINE b == BindVariable(s, n, val)
  <2>1. b \in Machines(K, d, Own)
    BY <1>1, <1>2, <1>4, BindVariableIn
  <2>2. Complete(Export(b, n))
    BY <1>17 DEF ExportAssigning, Builtin
  <2> HIDE DEF b
  <2>3. Export(b, n) \in Machines(K, d, Own) /\ Fresh(Export(b, n))
    BY <1>2, <1>4, <2>1, ExportIn DEF Fresh
  <2> QED
    BY <1>6, <2>2, <2>3
<1>18. ASSUME NEW n \in Names, NEW val \in Strings, ReadBuiltin(n, val)
       PROVE  Fresh(s')
  <2> DEFINE m == InScope(s, FALSE, LAMBDA y : BindVariable(y, n, val))
  <2>1. m \in Machines(K, d, Own) /\ Kept(s, m)
    BY <1>1, <1>2, <1>4, ReadIn
  <2>2. Complete(m)
    BY <1>18 DEF ReadBuiltin, Builtin
  <2> HIDE DEF m
  <2> QED
    BY <1>6, <2>1, <2>2, KeptIsFresh
<1>19. ASSUME NEW n \in Names, NEW val \in Strings, Cd(n, val)
       PROVE  Fresh(s')
  <2> DEFINE m == SetPwd(s, n, val)
  <2>1. /\ m \in Machines(K, d, Own)
        /\ Fresh(m) \/ m.temporary_env # NoTable
    BY <1>1, <1>2, <1>4, SetPwdIn
  <2>2. Complete(m)
    BY <1>19 DEF Cd, Builtin
  <2> HIDE DEF m
  <2> QED
    BY <1>6, <2>1, <2>2
<1> QED
  BY <1>4, <1>7, <1>8, <1>9, <1>10, <1>11, <1>12, <1>13, <1>14, <1>15, <1>16, <1>17, <1>18, <1>19
     DEF Commands

LEMMA CallFresh ==
    ASSUME ScopesInv, Calls, Fresh(s), ~EnterHandler, ~EndHandler
    PROVE  Fresh(s')
<1> DEFINE d == DepthIn(calls, 1)
<1>1. PICK K \in Shapes : s \in Machines(K, d, Own)
  BY DEF ScopesInv, MachineOf
<1>2. d \in Nat /\ calls \in Seq(Call) /\ Own \in SUBSET Attributes
  BY DepthType, OwnType DEF ScopesInv
<1> HIDE DEF d
<1>3. CASE CallFunction
  <2>1. s' = PushContext(s)
    BY <1>3 DEF CallFunction
  <2>2. Kept(s, PushContext(s))
    BY <1>1, <1>2, PushContextIn
  <2> QED
    BY <2>1, <2>2, KeptIsFresh
<1>4. CASE CallEval
  <2>1. s' = s \/ s' = Push(s, "builtin")
    BY <1>4 DEF CallEval, PushScope
  <2>2. Kept(s, Push(s, "builtin"))
    BY <1>1, <1>2, PushIn DEF Kinds
  <2> QED
    BY <2>1, <2>2, KeptIsFresh
<1>5. CASE EndFunction
  <2>1. Running("function") /\ s' = DisposeUsedEnvVars(PopContext(s))
    BY <1>5 DEF EndFunction
  <2>2. Tail(calls) \in Seq(Call)
    BY <1>2, <2>1, HeadAndTail DEF Running
  <2>3. MachineOf(PopContext(s), Tail(calls)) /\ Fresh(PopContext(s))
    BY <2>1, FunctionEnded, KeptIsFresh
  <2> QED
    BY <2>1, <2>2, <2>3, DisposedMachine
<1>6. CASE EndEval
  <2>1. Running("eval") /\ s' = DisposeUsedEnvVars(Unscoped(s, Head(calls)))
    BY <1>6 DEF EndEval
  <2>2. Tail(calls) \in Seq(Call)
    BY <1>2, <2>1, HeadAndTail DEF Running
  <2>3. MachineOf(Unscoped(s, Head(calls)), Tail(calls)) /\ Fresh(Unscoped(s, Head(calls)))
    BY <2>1, EvalEnded, KeptIsFresh
  <2> QED
    BY <2>1, <2>2, <2>3, DisposedMachine
<1> QED
  BY <1>3, <1>4, <1>5, <1>6 DEF Calls

LEMMA UnwindingFresh ==
    ASSUME ScopesInv, Unwinding, Fresh(s)
    PROVE  Fresh(s')
<1>1. calls \in Seq(Call) /\ MachineOf(s, calls)
  BY DEF ScopesInv
<1>2. CASE Return \/ ExpansionError \/ Interrupt \/ DiscardUpTo \/ UnwindHandler
  <2>1. s' = s
    BY <1>2 DEF Return, ExpansionError, Interrupt, DiscardUpTo, UnwindHandler
  <2> QED
    BY <2>1
<1>3. CASE UnwindFunction
  <2>1. /\ Running("function")
        /\ s' = DisposeUsedEnvVars(PopContext(s)) \/ s' = PopContext(s)
    BY <1>3 DEF UnwindFunction
  <2>2. Tail(calls) \in Seq(Call)
    BY <1>1, <2>1, HeadAndTail DEF Running
  <2>3. MachineOf(PopContext(s), Tail(calls)) /\ Fresh(PopContext(s))
    BY <2>1, FunctionEnded, KeptIsFresh
  <2>4. Fresh(DisposeUsedEnvVars(PopContext(s)))
    BY <2>2, <2>3, DisposedMachine
  <2> QED
    BY <2>1, <2>3, <2>4
<1>4. CASE UnwindEval
  <2>1. Running("eval") /\ s' = Unscoped(s, Head(calls))
    BY <1>4 DEF UnwindEval
  <2> QED
    BY <2>1, EvalEnded, KeptIsFresh
<1>5. CASE ToTopLevel
  <2>1. s' = DisposeUsedEnvVars(s)
    BY <1>5 DEF ToTopLevel, Complete
  <2> QED
    BY <1>1, <2>1, DisposedMachine
<1> QED
  BY <1>2, <1>3, <1>4, <1>5 DEF Unwinding

(* The environment given to commands (export_env) is never left as it was  *)
(* when what they deserve changes: every change of an exported variable,   *)
(* and every push and pop of a context, makes it anew or asks for it       *)
(* (array_needs_making), whatever the values, the nesting of calls and the *)
(* way they are left.  The exceptions are a trap handler, which sets aside *)
(* and gives back the variables given to a command without asking          *)
(* (trap.c:429, 445), declare of TZ and an exported name, which makes the  *)
(* environment between its two names, and a name with two variables in one *)
(* context: makunbound() takes away the first, and hash_grow() turns their *)
(* order round.                                                            *)
THEOREM EnvironmentIsAskedFor ==
    Spec => OutOfDateOnlyThere
<1>1. Init => ScopesInv
  BY ScopesInit
<1>2. ScopesInv /\ [Next]_vars => ScopesInv'
  <2> SUFFICES ASSUME ScopesInv, [Next]_vars
               PROVE  ScopesInv'
    OBVIOUS
  <2>1. CASE Next
    BY <2>1, CommandStep, CallStep, UnwindingStep DEF Next
  <2>2. CASE UNCHANGED vars
    BY <2>2 DEF vars, ScopesInv
  <2> QED
    BY <2>1, <2>2
<1>3. ScopesInv /\ [Next]_vars =>
        [OutOfDate' => OutOfDate \/ EnterHandler \/ EndHandler \/ Duplicated
                       \/ \E n \in Names : DeclareAfterTZ(n)]_vars
  <2> SUFFICES ASSUME ScopesInv, Next, OutOfDate', ~OutOfDate, ~EnterHandler, ~EndHandler,
                      ~Duplicated, \A n \in Names : ~DeclareAfterTZ(n)
               PROVE  FALSE
    OBVIOUS
  <2>1. Fresh(s) /\ ~Fresh(s')
    BY OutOfDateIs
  <2> QED
    BY <2>1, CommandFresh, CallFresh, UnwindingFresh DEF Next
<1> QED
  BY <1>1, <1>2, <1>3, PTL DEF Spec, OutOfDateOnlyThere
=============================================================================
