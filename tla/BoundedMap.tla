----------------------------- MODULE BoundedMap -----------------------------
(***************************************************************************)
(* BoundedMap (src/util/bounded-map.ts): a JavaScript Map that evicts its  *)
(* oldest entries over a maximal size.  A map is the sequence of its       *)
(* entries in insertion order, each a record with a "key".                 *)
(***************************************************************************)
EXTENDS Naturals, SequencesExt

Keys(map) == {map[i].key : i \in DOMAIN map}
Has(map, key) == key \in Keys(map)
Position(map, key) == CHOOSE i \in DOMAIN map : map[i].key = key
Get(map, key) == map[Position(map, key)]
Entries(map) == {map[i] : i \in DOMAIN map}

\* Map.set leaves a known key where it is, and adds a new one at the end.
Store(map, entry) ==
  IF Has(map, entry.key)
    THEN [i \in DOMAIN map |-> IF map[i].key = entry.key THEN entry ELSE map[i]]
    ELSE Append(map, entry)

\* The entries set() hands to onEvict: the oldest ones over the limit.
Excess(map, entry, maxSize) ==
  LET stored == Store(map, entry)
  IN  IF Len(stored) > maxSize THEN Len(stored) - maxSize ELSE 0

Evicted(map, entry, maxSize) ==
  {Store(map, entry)[i] : i \in 1..Excess(map, entry, maxSize)}

Set(map, entry, maxSize) ==
  SubSeq(Store(map, entry), Excess(map, entry, maxSize) + 1,
         Len(Store(map, entry)))

Delete(map, key) == IF Has(map, key) THEN RemoveAt(map, Position(map, key)) ELSE map

\* The shape every map has: at most maxSize entries, no key twice.
IsBoundedMap(map, Entry, maxSize) ==
  /\ map \in Seq(Entry)
  /\ Len(map) <= maxSize
  /\ \A i, j \in DOMAIN map : map[i].key = map[j].key => i = j
=============================================================================
