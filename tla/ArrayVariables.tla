--------------------------- MODULE ArrayVariables ---------------------------
(***************************************************************************)
(* One array variable of a script: an indexed or an associative one        *)
(* (arrayfunc.c, assoc.c), PIPESTATUS (variables.c) or BASH_ARGV with      *)
(* BASH_ARGC (variables.c).  What the code does word by word in a loop is  *)
(* one step per word, as the words of a compound assignment are expanded   *)
(* between the assignments.                                                *)
(***************************************************************************)
EXTENDS IndexedArray, HashTable

CONSTANTS
  Values,
  Buckets,    \* how many a new associative array has
  MaxIndex,   \* bound on the indices a script uses
  MaxWords,   \* bound on the words of a compound assignment, the processes of
              \* a pipeline and the arguments of a call
  NoSub       \* in a compound assignment, a word without a subscript

ASSUME ArraysAssumption ==
  /\ hash \in [Keys -> Nat] /\ Buckets \in Nat \ {0}
  /\ MaxIndex \in Nat /\ MaxWords \in Nat /\ NoSub \notin Int

VARIABLES
  kind,       \* which variable it is
  cell,       \* its table
  aside,      \* the table being built, the saved one, or that of BASH_ARGC
  doing,      \* the loop that is being run, or "nothing"
  i,          \* how many times it went round, or still has to
  last_ind,   \* the index of the next word of a compound assignment
  ps,         \* the statuses that are being recorded
  request,    \* what was last asked of a table, and
  answer      \* what a reference answered

vars == <<kind, cell, aside, doing, i, last_ind, ps, request, answer>>

Kinds == {"indexed", "associative", "PIPESTATUS", "BASH_ARGV"}
Associative == kind = "associative"
Assignable == kind \in {"indexed", "associative"}
NoTable == [elements |-> <<>>]

New == IF Associative THEN hash_create(Buckets) ELSE array_create

Request(op, key, value, inAside) ==
  [op |-> op, key |-> key, value |-> value, aside |-> inAside]
Asks(op, key, value) == request' = Request(op, key, value, FALSE)
AsksAside(op, key, value) == request' = Request(op, key, value, TRUE)
AsksNothing == request' = Request("nothing", NONE, NONE, FALSE)

Init ==
  /\ kind \in Kinds
  /\ cell = New
  /\ aside = IF kind = "BASH_ARGV" THEN array_create ELSE NoTable
  /\ doing = "nothing" /\ i = 0 /\ last_ind = 0 /\ ps = <<>>
  /\ request = Request("nothing", NONE, NONE, FALSE)
  /\ answer = NONE

Idle == doing = "nothing"
\* Where words and subscripts are expanded, which may read elements.
Expanding == doing \in {"nothing", "compound", "building"}
Starts(loop, n) == doing' = loop /\ i' = n
Ends == doing' = "nothing" /\ i' = 0 /\ last_ind' = 0 /\ ps' = <<>> /\ answer' = NONE
GoesOn == answer' = NONE /\ UNCHANGED <<kind, doing, ps>>
\* Of an action that is not a loop, answer apart.
Single == UNCHANGED <<kind, doing, i, last_ind, ps>>

\* Subscripts that count from the end.
Index(sub) == IF sub < 0 THEN cell.max_index + 1 + sub ELSE sub
Subscripts == IF Associative THEN Keys ELSE -(MaxIndex + 1) .. MaxIndex

insert(t, key, value) ==
  IF Associative THEN assoc_insert(t, key, value) ELSE array_insert(t, key, value)

KeyOf(sub) == IF Associative THEN sub ELSE Index(sub)
ValidKey(key) == IF Associative THEN TRUE ELSE key >= 0

----------------------------------------------------------------------------
\* a[sub]=value
AssignElement(sub, value) ==
  /\ Idle /\ Assignable /\ ValidKey(KeyOf(sub))
  /\ cell' = insert(cell, KeyOf(sub), value)
  /\ Asks("put", KeyOf(sub), value)
  /\ answer' = NONE /\ aside' = aside /\ Single

\* ${a[sub]}
ArrayValue(sub) ==
  /\ Expanding /\ ValidKey(KeyOf(sub))
  /\ answer' = IF Associative THEN assoc_reference(cell, sub) ELSE ValueAt(cell, Index(sub))
  /\ cell' = IF Associative THEN cell ELSE AfterReference(cell, Index(sub))
  /\ Asks("get", KeyOf(sub), NONE)
  /\ aside' = aside /\ Single

\* unset a[sub]
UnbindArrayElement(sub) ==
  /\ Idle /\ Assignable /\ ValidKey(KeyOf(sub))
  /\ cell' = IF Associative THEN assoc_remove(cell, sub) ELSE array_remove(cell, Index(sub))
  /\ Asks("drop", KeyOf(sub), NONE)
  /\ answer' = NONE /\ aside' = aside /\ Single

----------------------------------------------------------------------------
\* a=(words), a+=(words): an indexed array is emptied first, an associative one
\* is built anew and then put in the place of the old one.
BeginCompound(append) ==
  /\ Idle /\ Assignable
  /\ Starts(IF Associative /\ ~append THEN "building" ELSE "compound", 0)
  /\ last_ind' = IF append /\ ~Associative THEN cell.max_index + 1 ELSE 0
  /\ cell' = IF append \/ Associative THEN cell ELSE array_create
  /\ aside' = IF Associative /\ ~append THEN hash_create(cell.nbuckets) ELSE aside
  /\ IF append THEN AsksNothing ELSE request' = Request("clear", NONE, NONE, Associative)
  /\ answer' = NONE /\ UNCHANGED <<kind, ps>>

\* [sub]=value, or value alone; a word whose subscript is out of range is skipped,
\* and one without a subscript of an associative array.
CompoundWord(sub, value) ==
  LET key == IF sub = NoSub THEN last_ind ELSE KeyOf(sub)
      valid == IF Associative THEN sub # NoSub ELSE key >= 0
  IN /\ doing \in {"compound", "building"} /\ i < MaxWords
     /\ ~Associative => key <= MaxIndex
     /\ i' = i + 1
     /\ IF valid
        THEN /\ IF doing = "building"
                THEN aside' = insert(aside, key, value) /\ cell' = cell
                ELSE cell' = insert(cell, key, value) /\ aside' = aside
             /\ request' = Request("put", key, value, doing = "building")
             /\ last_ind' = IF Associative THEN last_ind ELSE key + 1
        ELSE AsksNothing /\ UNCHANGED <<cell, aside, last_ind>>
     /\ GoesOn

EndCompound ==
  /\ doing \in {"compound", "building"}
  /\ IF doing = "building"
     THEN cell' = aside /\ aside' = NoTable /\ Asks("put back", NONE, NONE)
     ELSE AsksNothing /\ UNCHANGED <<cell, aside>>
  /\ Ends /\ kind' = kind

----------------------------------------------------------------------------
\* set_pipestatus_array: the elements there are get the first statuses, and the
\* others are inserted; an array with more elements is emptied first.
\* Mutant: a longer array is not emptied.
SetPipestatusInPlace(statuses) ==
  /\ Idle /\ kind = "PIPESTATUS"
  /\ ps' = statuses
  /\ Starts("statuses", 0) /\ AsksNothing
  /\ answer' = NONE /\ UNCHANGED <<kind, cell, aside, last_ind>>

SetPipestatus(statuses) ==
  /\ Idle /\ kind = "PIPESTATUS"
  /\ ps' = statuses
  /\ IF cell.num_elements = 0
     THEN Starts("statuses", 0) /\ AsksNothing /\ cell' = cell
     ELSE IF cell.num_elements <= Len(statuses)
     THEN /\ Starts("statuses", cell.num_elements) /\ Asks("overwrite", NONE, NONE)
          /\ cell' = SetFirstValues(cell, statuses)
     ELSE Starts("statuses", 0) /\ Asks("clear", NONE, NONE) /\ cell' = array_create
  /\ answer' = NONE /\ UNCHANGED <<kind, aside, last_ind>>

InsertStatus ==
  /\ doing = "statuses" /\ i < Len(ps)
  /\ i' = i + 1
  /\ cell' = array_insert(cell, i, ps[i + 1])
  /\ Asks("put", i, ps[i + 1])
  /\ aside' = aside /\ last_ind' = last_ind /\ GoesOn

EndStatuses ==
  /\ doing = "statuses" /\ i = Len(ps)
  /\ AsksNothing /\ Ends /\ UNCHANGED <<kind, cell, aside>>

\* Around a trap handler.
SavePipestatus ==
  /\ Idle /\ kind = "PIPESTATUS" /\ aside = NoTable
  /\ aside' = array_copy(cell)
  /\ Asks("keep", NONE, NONE)
  /\ answer' = NONE /\ cell' = cell /\ Single

RestorePipestatus ==
  /\ Idle /\ kind = "PIPESTATUS" /\ aside # NoTable
  /\ cell' = aside /\ aside' = NoTable
  /\ Asks("put back", NONE, NONE)
  /\ answer' = NONE /\ Single

----------------------------------------------------------------------------
\* push_args, pop_args: the arguments of a call in BASH_ARGV, the last first,
\* and their number in BASH_ARGC.
PushArgs ==
  /\ Idle /\ kind = "BASH_ARGV" /\ aside.num_elements <= MaxIndex
  /\ Starts("pushing", 0)
  /\ AsksNothing /\ answer' = NONE /\ UNCHANGED <<kind, cell, aside, last_ind, ps>>

PushArg(word) ==
  /\ doing = "pushing" /\ i < MaxWords /\ cell.num_elements <= MaxIndex
  /\ i' = i + 1
  /\ cell' = array_push(cell, word)
  /\ Asks("push", NONE, word)
  /\ aside' = aside /\ last_ind' = last_ind /\ GoesOn

PushCount ==
  /\ doing = "pushing"
  /\ aside' = array_push(aside, i)
  /\ AsksAside("push", NONE, i)
  /\ Ends /\ UNCHANGED <<kind, cell>>

PopArgs ==
  /\ Idle /\ kind = "BASH_ARGV"
  /\ Starts("popping", IF aside.num_elements = 0 THEN 0 ELSE aside.elements[1].value)
  /\ aside' = array_shift(aside, 1)
  /\ AsksAside("pop", NONE, NONE)
  /\ answer' = NONE /\ UNCHANGED <<kind, cell, last_ind, ps>>

PopArg ==
  /\ doing = "popping" /\ i > 0
  /\ i' = i - 1
  /\ cell' = array_pop(cell)
  /\ Asks("pop", NONE, NONE)
  /\ aside' = aside /\ last_ind' = last_ind /\ GoesOn

EndPop ==
  /\ doing = "popping" /\ i = 0
  /\ AsksNothing /\ Ends /\ UNCHANGED <<kind, cell, aside>>

----------------------------------------------------------------------------
Next ==
  \/ \E sub \in Subscripts : \/ \E value \in Values : AssignElement(sub, value)
                             \/ ArrayValue(sub)
                             \/ UnbindArrayElement(sub)
  \/ \E append \in BOOLEAN : BeginCompound(append)
  \/ \E sub \in Subscripts \cup {NoSub}, value \in Values : CompoundWord(sub, value)
  \/ EndCompound
  \/ \E n \in 1 .. MaxWords : \E statuses \in [1 .. n -> Values] : SetPipestatus(statuses)
  \/ InsertStatus \/ EndStatuses \/ SavePipestatus \/ RestorePipestatus
  \/ PushArgs \/ (\E word \in Values : PushArg(word)) \/ PushCount
  \/ PopArgs \/ PopArg \/ EndPop

Spec == Init /\ [][Next]_vars

----------------------------------------------------------------------------
TypeOK ==
  /\ kind \in Kinds
  /\ doing \in {"nothing", "compound", "building", "statuses", "pushing", "popping"}
  /\ i \in Nat /\ last_ind \in Nat
  /\ doing = "building" => Associative

\* The bookkeeping of an array describes its list: the indices ascend, they are
\* counted, the last is max_index, and the roving pointer, which every search
\* starts from, points into the list or is null.
ArrayOK(a) ==
  /\ \A p, q \in DOMAIN a.elements : p < q => Ind(a, p) < Ind(a, q)
  /\ \A p \in DOMAIN a.elements : Ind(a, p) \in Nat
  /\ a.num_elements = Len(a.elements)
  /\ a.max_index = IndexOfLast(a.elements)
  /\ a.lastref \in 0 .. Len(a.elements)

ArraysOK ==
  /\ ~Associative => ArrayOK(cell)
  /\ ~Associative /\ aside # NoTable => ArrayOK(aside)

\* An entry is in the bucket its key is looked for in, whatever the table has
\* grown to, once, and the entries are counted: a search in a table that has
\* none is not made.
TableOK(t) ==
  /\ \A b \in 0 .. t.nbuckets - 1 : \A p, q \in DOMAIN t.bucket_array[b] :
       /\ HASH_BUCKET(t, t.bucket_array[b][p].key) = b
       /\ t.bucket_array[b][p].key = t.bucket_array[b][q].key => p = q
  /\ t.nentries = Cardinality(Entries(t))

TablesOK ==
  /\ Associative => TableOK(cell)
  /\ Associative /\ aside # NoTable => TableOK(aside)

\* PIPESTATUS is the statuses of the last pipeline, whatever it was before
\* (doc/bash.1, PIPESTATUS).
PipestatusIsLast ==
  doing = "statuses" /\ i = Len(ps) =>
    cell.elements = [p \in DOMAIN ps |-> Element(p - 1, ps[p])]
=============================================================================
