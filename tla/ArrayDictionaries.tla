-------------------------- MODULE ArrayDictionaries -------------------------
(***************************************************************************)
(* ArrayVariables as dictionaries: the keys that are set, with their       *)
(* values, are read off the lists and the chains, without searching.       *)
(***************************************************************************)
EXTENDS ArrayVariables

\* Both are the null pointer.
ASSUME NullAssumption == ABSENT = NONE

OfArray(a) ==
  [j \in {e.ind : e \in ToSet(a.elements)} |->
     (CHOOSE e \in ToSet(a.elements) : e.ind = j).value]

OfTable(t) ==
  [k \in {e.key : e \in Entries(t)} |-> (CHOOSE e \in Entries(t) : e.key = k).data]

Contents(t) == IF Associative /\ t # NoTable THEN OfTable(t) ELSE OfArray(t)

Promise == INSTANCE Dictionary WITH
  ABSENT <- NONE, seen <- Contents(cell), aside <- Contents(aside)

\* Whatever the roving pointer points to and however the table has grown, every
\* assignment, removal and shift changes what it names and nothing else, and a
\* reference finds what is there and nothing else.
IsDictionary == Promise!Spec
=============================================================================
