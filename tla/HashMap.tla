------------------------------ MODULE HashMap ------------------------------
(***************************************************************************)
(* The chained hash map of maglev/hashmap.c: a function from buckets to    *)
(* chains, each a sequence of entries [key, value] with the newest first.  *)
(* The caller gives the bucket of a key.                                   *)
(***************************************************************************)
EXTENDS Naturals, Sequences

Entry(key, value) == [key |-> key, value |-> value]

\* hashmap_init
hashmap_init(size) == [b \in 0 .. size - 1 |-> <<>>]

\* The places in a chain at which a key stands.
At(chain, key) == {n \in DOMAIN chain : chain[n].key = key}

\* The first of them, where every walk of a chain stops.
FirstAt(chain, key) ==
    CHOOSE n \in At(chain, key) : \A m \in At(chain, key) : n <= m

Has(map, b, key) == At(map[b], key) # {}

\* hashmap_lookup_elem of a key that is there.
hashmap_lookup_elem(map, b, key) == map[b][FirstAt(map[b], key)].value

\* A faulty variant: the new entry does not link to the rest of its chain.
InsertUnlinked(map, b, key, value) ==
    IF Has(map, b, key) THEN map
    ELSE [map EXCEPT ![b] = <<Entry(key, value)>>]

\* hashmap_insert_elem: a key that is there keeps its value.
hashmap_insert_elem(map, b, key, value) ==
    IF Has(map, b, key) THEN map
    ELSE [map EXCEPT ![b] = <<Entry(key, value)>> \o @]
=============================================================================
