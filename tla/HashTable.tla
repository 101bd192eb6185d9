----------------------------- MODULE HashTable ------------------------------
(***************************************************************************)
(* hashlib.c: hash tables, as operators on a record of the buckets, each   *)
(* the list of its entries, and of their number.  The number of buckets is *)
(* a power of two, so that masking the hash is taking it modulo that       *)
(* number.  times_found is left out.                                       *)
(***************************************************************************)
EXTENDS Integers, SequencesExt

CONSTANTS
  Keys,       \* the strings that are used as keys
  hash,       \* hash_string, as a function on them
  ABSENT      \* the data of a key that has no entry

HASH_REHASH_MULTIPLIER == 4
HASH_REHASH_FACTOR == 2

hash_create(buckets) ==
  [bucket_array |-> [b \in 0 .. buckets - 1 |-> <<>>], nbuckets |-> buckets, nentries |-> 0]

Entry(key, data) == [key |-> key, data |-> data]
HASH_BUCKET(t, key) == hash[key] % t.nbuckets
Entries(t) == UNION {ToSet(t.bucket_array[b]) : b \in DOMAIN t.bucket_array}

Position(t, key) ==
  SelectInSeq(t.bucket_array[HASH_BUCKET(t, key)], LAMBDA item : item.key = key)

Has(t, key) == t.nentries # 0 /\ Position(t, key) # 0

\* The entries of a chain, from its head, into the heads of their new chains.
Moved(chains, chain, nsize) ==
  LET after[n \in 0 .. Len(chain)] ==
        IF n = 0 THEN chains
        ELSE [after[n - 1] EXCEPT ![hash[chain[n].key] % nsize] = <<chain[n]>> \o @]
  IN after[Len(chain)]

\* Every bucket in turn is emptied.
Rehash(t, nsize) ==
  LET after[b \in 0 .. t.nbuckets] ==
        IF b = 0 THEN hash_create(nsize).bucket_array
        ELSE Moved(after[b - 1], t.bucket_array[b - 1], nsize)
  IN [t EXCEPT !.nbuckets = nsize, !.bucket_array = after[t.nbuckets]]

HASH_SHOULDGROW(t) == t.nentries >= t.nbuckets * HASH_REHASH_FACTOR
\* Mutant: the chains are moved as they are.
hash_grow_only(t) ==
  LET nsize == t.nbuckets * HASH_REHASH_MULTIPLIER
  IN [t EXCEPT !.nbuckets = nsize,
               !.bucket_array = [b \in 0 .. nsize - 1 |-> IF b < t.nbuckets THEN @[b] ELSE <<>>]]

hash_grow(t) == Rehash(t, t.nbuckets * HASH_REHASH_MULTIPLIER)

AddEntry(t, key, data) ==
  [t EXCEPT !.bucket_array[HASH_BUCKET(t, key)] = <<Entry(key, data)>> \o @,
            !.nentries = @ + 1]

\* assoc_insert: hash_search with HASH_CREATE, which looks into a table without
\* entries too, then the data of what it found.
assoc_insert(t, key, value) ==
  IF Position(t, key) # 0
  THEN [t EXCEPT !.bucket_array[HASH_BUCKET(t, key)][Position(t, key)].data = value]
  ELSE AddEntry(IF HASH_SHOULDGROW(t) THEN hash_grow(t) ELSE t, key, value)

assoc_remove(t, key) ==
  IF Has(t, key)
  THEN [t EXCEPT !.bucket_array[HASH_BUCKET(t, key)] = RemoveAt(@, Position(t, key)),
                 !.nentries = @ - 1]
  ELSE t

assoc_reference(t, key) ==
  IF Has(t, key) THEN t.bucket_array[HASH_BUCKET(t, key)][Position(t, key)].data ELSE ABSENT
=============================================================================
