-------------------------- MODULE BoundedMapProofs --------------------------
(***************************************************************************)
(* What the operations of BoundedMap do to the entries of a map, for every *)
(* map and every limit.                                                    *)
(***************************************************************************)
EXTENDS BoundedMap, Integers, FiniteSetTheorems, SequenceTheorems, TLAPS

-----------------------------------------------------------------------------
\* A key that is there leads to an entry that has it,
LEMMA GetEntry ==
  ASSUME NEW E, NEW max, NEW map, IsBoundedMap(map, E, max), NEW key, Has(map, key)
  PROVE  /\ Position(map, key) \in DOMAIN map /\ map[Position(map, key)].key = key
         /\ Get(map, key) \in Entries(map) /\ Get(map, key) \in E /\ Get(map, key).key = key
<1>1. \A i \in DOMAIN map : map[i] \in E
  BY LenProperties, ElementOfSeq DEF IsBoundedMap
<1>2. Position(map, key) \in DOMAIN map /\ map[Position(map, key)].key = key
  BY DEF Has, Keys, Position
<1>3. QED
  BY <1>1, <1>2 DEF Get, Entries

\* and it is the only one that has it.
LEMMA EntryIsGot ==
  ASSUME NEW E, NEW max, NEW map, IsBoundedMap(map, E, max), NEW e \in Entries(map)
  PROVE  Has(map, e.key) /\ Get(map, e.key) = e /\ e \in E
<1>1. DOMAIN map = 1 .. Len(map) /\ \A i \in DOMAIN map : map[i] \in E
  BY LenProperties, ElementOfSeq DEF IsBoundedMap
<1>2. PICK i \in DOMAIN map : e = map[i]
  BY DEF Entries
<1>3. Position(map, e.key) = i
  BY <1>2 DEF Position, IsBoundedMap
<1>4. QED
  BY <1>1, <1>2, <1>3 DEF Get, Has, Keys

\* Nothing is in an empty registry.
LEMMA EmptyMap ==
  ASSUME NEW E, NEW max \in Nat
  PROVE  IsBoundedMap(<<>>, E, max) /\ Entries(<<>>) = {}
BY DEF IsBoundedMap, Entries

\* The keys are those of the entries.
LEMMA KeysOfEntries ==
  ASSUME NEW map
  PROVE  Keys(map) = {e.key : e \in Entries(map)}
BY DEF Keys, Entries

\* Storing replaces the entry of a known key, in its place, or adds one.
LEMMA StoreEntries ==
  ASSUME NEW E, NEW max \in Nat, NEW map, IsBoundedMap(map, E, max), NEW entry \in E
  PROVE  LET stored == Store(map, entry) IN
           /\ stored \in Seq(E)
           /\ Len(stored) = IF Has(map, entry.key) THEN Len(map) ELSE Len(map) + 1
           /\ \A i, j \in DOMAIN stored : stored[i].key = stored[j].key => i = j
           /\ Entries(stored) = {e \in Entries(map) : e.key # entry.key} \cup {entry}
           /\ ~Has(map, entry.key) => /\ stored[Len(stored)] = entry
                                      /\ \A i \in 1 .. Len(map) : stored[i] = map[i]
<1> USE DEF IsBoundedMap
<1>1. Len(map) \in Nat /\ DOMAIN map = 1 .. Len(map) /\ \A i \in DOMAIN map : map[i] \in E
  BY LenProperties, ElementOfSeq
<1>2. CASE Has(map, entry.key)
  <2> DEFINE stored == [i \in 1 .. Len(map) |-> IF map[i].key = entry.key THEN entry ELSE map[i]]
  <2>1. Store(map, entry) = stored
    BY <1>1, <1>2 DEF Store
  <2>2. stored \in Seq(E) /\ Len(stored) = Len(map) /\ DOMAIN stored = 1 .. Len(map)
    BY <1>1
  <2>3. \A i \in 1 .. Len(map) : stored[i].key = map[i].key
    OBVIOUS
  <2>4. \A i, j \in DOMAIN stored : stored[i].key = stored[j].key => i = j
    BY <1>1, <2>2, <2>3
  <2>5. Entries(stored) = {e \in Entries(map) : e.key # entry.key} \cup {entry}
    BY <1>1, <1>2, <2>2 DEF Entries, Has, Keys
  <2>6. QED
    BY <1>2, <2>1, <2>2, <2>4, <2>5
<1>3. CASE ~Has(map, entry.key)
  <2> DEFINE stored == Append(map, entry)
  <2>1. Store(map, entry) = stored
    BY <1>3 DEF Store
  <2>2. /\ stored \in Seq(E) /\ Len(stored) = Len(map) + 1 /\ DOMAIN stored = 1 .. Len(map) + 1
        /\ \A i \in 1 .. Len(map) : stored[i] = map[i]
        /\ stored[Len(map) + 1] = entry
    BY <1>1, AppendProperties, LenProperties
  <2>3. \A i \in 1 .. Len(map) : map[i].key # entry.key
    BY <1>1, <1>3 DEF Has, Keys
  <2> HIDE DEF stored
  <2>4. \A i, j \in DOMAIN stored : stored[i].key = stored[j].key => i = j
    BY <1>1, <2>2, <2>3
  <2>5. Entries(stored) = Entries(map) \cup {entry}
    BY <1>1, <2>2 DEF Entries
  <2>6. {e \in Entries(map) : e.key # entry.key} = Entries(map)
    BY <1>1, <2>3 DEF Entries
  <2>7. QED
    BY <1>3, <2>1, <2>2, <2>4, <2>5, <2>6
<1>4. QED
  BY <1>2, <1>3

\* What is set stays; at most one entry, the oldest, makes room for it.
IsSet(map, entry, E, max) ==
  LET set == Set(map, entry, max)
      evicted == Evicted(map, entry, max)
      excess == Excess(map, entry, max) IN
    /\ IsBoundedMap(set, E, max)
    /\ excess \in {0, 1} /\ (Has(map, entry.key) => excess = 0)
    /\ Len(set) = (IF Has(map, entry.key) THEN Len(map) ELSE Len(map) + 1) - excess
    /\ evicted \subseteq Entries(map) /\ \A e \in evicted : e.key # entry.key
    /\ excess = 0 => evicted = {}
    /\ excess = 1 => evicted = {map[1]} /\ Len(map) = max
    /\ Cardinality(evicted) = excess
    /\ Entries(set) = ({e \in Entries(map) : e.key # entry.key} \ evicted) \cup {entry}

LEMMA SetEntries ==
  ASSUME NEW E, NEW max \in Nat \ {0}, NEW map, IsBoundedMap(map, E, max), NEW entry \in E
  PROVE  IsSet(map, entry, E, max)
<1> DEFINE stored == Store(map, entry)
           evicted == Evicted(map, entry, max)
           excess == Excess(map, entry, max)
           set == Set(map, entry, max)
<1>1. /\ Len(map) \in Nat /\ Len(map) <= max /\ DOMAIN map = 1 .. Len(map)
      /\ \A i \in DOMAIN map : map[i] \in E
      /\ max \in Nat /\ max >= 1
  BY LenProperties, ElementOfSeq DEF IsBoundedMap
<1>2. /\ stored \in Seq(E)
      /\ Len(stored) = IF Has(map, entry.key) THEN Len(map) ELSE Len(map) + 1
      /\ \A i, j \in DOMAIN stored : stored[i].key = stored[j].key => i = j
      /\ Entries(stored) = {e \in Entries(map) : e.key # entry.key} \cup {entry}
      /\ ~Has(map, entry.key) => /\ stored[Len(stored)] = entry
                                 /\ \A i \in 1 .. Len(map) : stored[i] = map[i]
  BY StoreEntries
<1>3. DOMAIN stored = 1 .. Len(stored) /\ \A i \in DOMAIN stored : stored[i] \in E
  BY <1>2, LenProperties, ElementOfSeq
<1>4. excess = IF Len(stored) > max THEN Len(stored) - max ELSE 0
  BY DEF Excess
<1> HIDE DEF stored, excess
<1>5. /\ excess \in {0, 1} /\ (Has(map, entry.key) => excess = 0)
      /\ excess = 1 => ~Has(map, entry.key) /\ Len(map) = max
      /\ Len(stored) - excess <= max /\ Len(stored) \in Nat /\ Len(stored) >= excess
  <2>1. Len(map) \in Nat /\ Len(map) <= max /\ max \in Nat /\ max >= 1
    BY <1>1
  <2>2. Len(stored) = IF Has(map, entry.key) THEN Len(map) ELSE Len(map) + 1
    BY <1>2
  <2>3. CASE Has(map, entry.key)
    BY <1>4, <2>1, <2>2, <2>3
  <2>4. CASE ~Has(map, entry.key)
    BY <1>4, <2>1, <2>2, <2>4
  <2>5. QED
    BY <2>3, <2>4
<1>6. /\ evicted = {stored[i] : i \in 1 .. excess}
      /\ set = SubSeq(stored, excess + 1, Len(stored))
  BY DEF Evicted, Set, stored, excess
<1> HIDE DEF evicted, set
<1>7. /\ set \in Seq(E) /\ Len(set) = Len(stored) - excess
      /\ \A i \in 1 .. Len(set) : set[i] = stored[i + excess]
      /\ DOMAIN set = 1 .. Len(set)
  <2>1. \A i \in (excess + 1) .. Len(stored) : stored[i] \in E
    BY <1>3, <1>5
  <2>2. /\ set \in Seq(E)
        /\ Len(set) = IF excess + 1 <= Len(stored) THEN Len(stored) - (excess + 1) + 1 ELSE 0
        /\ \A i \in 1 .. Len(stored) - (excess + 1) + 1 : set[i] = stored[excess + 1 + i - 1]
    <3>1. excess + 1 \in Int /\ Len(stored) \in Int
      BY <1>5
    <3>2. QED
      BY <1>6, <2>1, <3>1, SubSeqProperties
  <2>3. Len(stored) \in Nat /\ Len(stored) >= excess
    BY <1>5
  <2>4. Len(set) = Len(stored) - excess
    BY <1>5, <2>2, <2>3
  <2>5. \A i \in 1 .. Len(set) : set[i] = stored[i + excess]
    BY <1>5, <2>2, <2>3, <2>4
  <2>6. QED
    BY <2>2, <2>4, <2>5, LenProperties
<1>8. IsBoundedMap(set, E, max)
  <2>1. Len(set) <= max
    BY <1>5, <1>7
  <2>2. ASSUME NEW i \in 1 .. Len(set), NEW j \in 1 .. Len(set), set[i].key = set[j].key
        PROVE  i = j
    <3>1. /\ i + excess \in DOMAIN stored /\ j + excess \in DOMAIN stored
          /\ set[i] = stored[i + excess] /\ set[j] = stored[j + excess]
      BY <1>3, <1>5, <1>7
    <3>2. i + excess = j + excess
      BY <1>2, <2>2, <3>1
    <3>3. QED
      BY <1>5, <3>2
  <2>3. QED
    BY <1>7, <2>1, <2>2 DEF IsBoundedMap
<1>9. CASE excess = 0
  <2>1. evicted = {}
    BY <1>6, <1>9
  <2>2. Len(set) = Len(stored) /\ \A i \in 1 .. Len(set) : set[i] = stored[i]
    BY <1>1, <1>2, <1>7, <1>9
  <2>3. Entries(set) = Entries(stored)
    BY <1>3, <1>7, <2>2 DEF Entries
  <2>4. Cardinality(evicted) = 0
    BY <2>1, FS_EmptySet
  <2>5. QED
    BY <1>2, <1>5, <1>7, <1>8, <1>9, <2>1, <2>3, <2>4 DEF set, evicted, excess, IsSet
<1>10. CASE excess = 1
  <2>1. ~Has(map, entry.key) /\ Len(map) = max /\ Len(stored) = max + 1 /\ max >= 1
    BY <1>1, <1>2, <1>5, <1>10
  <2>2. evicted = {map[1]} /\ map[1] = stored[1]
    BY <1>1, <1>2, <1>6, <1>10, <2>1
  <2>3. Cardinality(evicted) = 1 /\ evicted \subseteq Entries(map)
    <3>1. 1 \in DOMAIN map
      BY <1>1, <2>1
    <3>2. QED
      BY <2>2, <3>1, FS_Singleton DEF Entries
  <2>4. map[1].key # entry.key
    BY <1>1, <2>1 DEF Has, Keys
  <2>5. Entries(set) = Entries(stored) \ {stored[1]}
    <3>1. \A i \in 1 .. Len(set) : set[i] = stored[i + 1] /\ stored[i + 1] # stored[1]
      BY <1>2, <1>3, <1>7, <1>10, <2>1, SMTT(30)
    <3>2. \A i \in 2 .. Len(stored) : i - 1 \in 1 .. Len(set) /\ stored[i] = set[i - 1]
      BY <1>7, <1>10, <2>1
    <3>3. Entries(set) \subseteq Entries(stored) \ {stored[1]}
      BY <1>3, <1>7, <1>10, <2>1, <3>1 DEF Entries
    <3>4. ASSUME NEW i \in DOMAIN stored, stored[i] # stored[1]
          PROVE  stored[i] \in Entries(set)
      <4>1. i \in 2 .. Len(stored)
        BY <1>3, <1>5, <3>4
      <4>2. QED
        BY <1>7, <3>2, <4>1 DEF Entries
    <3>5. QED
      BY <3>3, <3>4 DEF Entries
  <2>6. Entries(set) = ({e \in Entries(map) : e.key # entry.key} \ evicted) \cup {entry}
    BY <1>2, <2>2, <2>4, <2>5
  <2>7. QED
    BY <1>2, <1>5, <1>7, <1>8, <1>10, <2>1, <2>2, <2>3, <2>4, <2>6 DEF set, evicted, excess, IsSet
<1>11. QED
  BY <1>5, <1>9, <1>10

\* Deleting removes the entry of a key, if there is one.
LEMMA DeleteEntries ==
  ASSUME NEW E, NEW max \in Nat, NEW map, IsBoundedMap(map, E, max), NEW key
  PROVE  LET rest == Delete(map, key) IN
           /\ IsBoundedMap(rest, E, max)
           /\ Entries(rest) = {e \in Entries(map) : e.key # key}
           /\ Len(rest) = IF Has(map, key) THEN Len(map) - 1 ELSE Len(map)
<1> USE DEF IsBoundedMap
<1>1. Len(map) \in Nat /\ DOMAIN map = 1 .. Len(map) /\ \A i \in DOMAIN map : map[i] \in E
  BY LenProperties, ElementOfSeq
<1>2. CASE ~Has(map, key)
  <2>1. Delete(map, key) = map /\ \A e \in Entries(map) : e.key # key
    BY <1>2 DEF Delete, Has, Keys, Entries
  <2>2. QED
    BY <1>2, <2>1
<1>3. CASE Has(map, key)
  <2> DEFINE k == Position(map, key)
             rest == RemoveAt(map, k)
  <2>1. k \in 1 .. Len(map) /\ map[k].key = key
    BY <1>1, <1>3, GetEntry DEF Get
  <2> HIDE DEF k
  <2>2. \A i \in 1 .. Len(map) : i # k => map[i].key # key
    BY <1>1, <2>1
  <2>3. /\ rest \in Seq(E) /\ Len(rest) = Len(map) - 1 /\ DOMAIN rest = 1 .. Len(map) - 1
        /\ \A i \in 1 .. Len(map) - 1 : rest[i] = IF i < k THEN map[i] ELSE map[i + 1]
    <3> DEFINE s == SubSeq(map, 1, k - 1)
               t == SubSeq(map, k + 1, Len(map))
    <3>1. /\ s \in Seq(E) /\ Len(s) = k - 1
          /\ \A i \in 1 .. k - 1 : s[i] = map[i]
      BY <1>1, <2>1, SubSeqProperties
    <3>2. /\ t \in Seq(E) /\ Len(t) = Len(map) - k
          /\ \A i \in 1 .. Len(map) - k : t[i] = map[k + i]
      <4>1. k + 1 \in Int /\ Len(map) \in Int /\ \A i \in k + 1 .. Len(map) : map[i] \in E
        BY <1>1, <2>1
      <4>2. /\ t \in Seq(E) /\ Len(t) = IF k + 1 <= Len(map) THEN Len(map) - (k + 1) + 1 ELSE 0
            /\ \A i \in 1 .. Len(map) - (k + 1) + 1 : t[i] = map[k + 1 + i - 1]
        BY <4>1, SubSeqProperties
      <4>3. Len(t) = Len(map) - k
        <5>1. k \in Int /\ Len(map) \in Int /\ k <= Len(map)
          BY <1>1, <2>1
        <5>2. QED
          BY <4>2, <5>1
      <4> HIDE DEF t
      <4>4. ASSUME NEW i \in 1 .. Len(map) - k
            PROVE  t[i] = map[k + i]
        <5>1. k \in Int /\ Len(map) \in Int /\ i \in Int
          BY <1>1, <2>1
        <5>2. i \in 1 .. Len(map) - (k + 1) + 1 /\ k + 1 + i - 1 = k + i
          BY <5>1
        <5>3. t[i] = map[k + 1 + i - 1]
          BY <4>2, <5>2
        <5>4. QED
          BY <5>2, <5>3
      <4>5. QED
        BY <4>2, <4>3, <4>4
    <3> HIDE DEF s, t
    <3>3. rest = s \o t
      BY DEF RemoveAt, s, t
    <3>4. /\ rest \in Seq(E) /\ Len(rest) = Len(s) + Len(t)
          /\ \A i \in 1 .. Len(s) + Len(t) :
               rest[i] = IF i <= Len(s) THEN s[i] ELSE t[i - Len(s)]
      <4>1. s \in Seq(E) /\ t \in Seq(E)
        BY <3>1, <3>2
      <4> HIDE DEF rest
      <4>2. QED
        BY <3>3, <4>1, ConcatProperties
    <3>5. Len(rest) = Len(map) - 1
      BY <1>1, <2>1, <3>1, <3>2, <3>4
    <3>6. ASSUME NEW i \in 1 .. Len(map) - 1
          PROVE  rest[i] = IF i < k THEN map[i] ELSE map[i + 1]
      <4>1. CASE i < k
        <5>1. i <= Len(s) /\ i \in 1 .. k - 1 /\ i \in 1 .. Len(s) + Len(t)
          BY <1>1, <2>1, <3>1, <3>2, <4>1
        <5>2. QED
          BY <3>1, <3>4, <4>1, <5>1
      <4>2. CASE ~(i < k)
        <5>1. ~(i <= Len(s)) /\ i - Len(s) \in 1 .. Len(map) - k /\ i \in 1 .. Len(s) + Len(t)
              /\ k + (i - Len(s)) = i + 1
          BY <1>1, <2>1, <3>1, <3>2, <4>2
        <5>2. QED
          BY <3>2, <3>4, <4>2, <5>1
      <4>3. QED
        BY <4>1, <4>2
    <3>7. QED
      BY <1>1, <3>4, <3>5, <3>6, LenProperties
  <2>4. Delete(map, key) = rest
    BY <1>3 DEF Delete, k
  <2> HIDE DEF rest
  <2>5. ASSUME NEW i \in DOMAIN rest, NEW j \in DOMAIN rest, rest[i].key = rest[j].key
        PROVE  i = j
    <3>1. i \in 1 .. Len(map) - 1 /\ j \in 1 .. Len(map) - 1
      BY <2>3
    <3>2. (IF i < k THEN i ELSE i + 1) = (IF j < k THEN j ELSE j + 1)
      BY <1>1, <2>1, <2>3, <2>5, <3>1
    <3>3. QED
      BY <2>1, <3>1, <3>2
  <2>6. Entries(rest) = {e \in Entries(map) : e.key # key}
    <3>1. Entries(rest) \subseteq {e \in Entries(map) : e.key # key}
      <4>1. ASSUME NEW j \in 1 .. Len(map) - 1
            PROVE  \E i \in 1 .. Len(map) : i # k /\ rest[j] = map[i]
        <5>1. CASE j < k
          BY <1>1, <2>1, <2>3, <5>1
        <5>2. CASE ~(j < k)
          <6>1. j + 1 \in 1 .. Len(map) /\ j + 1 # k /\ rest[j] = map[j + 1]
            BY <1>1, <2>1, <2>3, <5>2
          <6>2. QED
            BY <6>1
        <5>3. QED
          BY <5>1, <5>2
      <4>2. ASSUME NEW e \in Entries(rest)
            PROVE  e \in Entries(map) /\ e.key # key
        <5>1. PICK j \in 1 .. Len(map) - 1 : e = rest[j]
          BY <2>3 DEF Entries
        <5>2. PICK i \in 1 .. Len(map) : i # k /\ rest[j] = map[i]
          BY <4>1
        <5>3. QED
          BY <1>1, <2>2, <5>1, <5>2 DEF Entries
      <4>3. QED
        BY <4>2
    <3>2. \A i \in 1 .. Len(map) : i # k => \E j \in 1 .. Len(map) - 1 : rest[j] = map[i]
      <4> TAKE i \in 1 .. Len(map)
      <4> HAVE i # k
      <4>1. CASE i < k
        BY <1>1, <2>1, <2>3, <4>1
      <4>2. CASE i > k
        <5>1. i - 1 \in 1 .. Len(map) - 1 /\ rest[i - 1] = map[i]
          BY <1>1, <2>1, <2>3, <4>2
        <5>2. QED
          BY <5>1
      <4>3. QED
        BY <1>1, <2>1, <4>1, <4>2
    <3>3. {e \in Entries(map) : e.key # key} \subseteq Entries(rest)
      <4>1. \A i \in 1 .. Len(map) : map[i].key # key => i # k
        BY <2>1
      <4>2. \A j \in 1 .. Len(map) - 1 : rest[j] \in Entries(rest)
        BY <2>3 DEF Entries
      <4>3. \A i \in 1 .. Len(map) : map[i].key # key => map[i] \in Entries(rest)
        BY <3>2, <4>1, <4>2
      <4>4. QED
        BY <1>1, <4>3 DEF Entries
    <3>4. QED
      BY <3>1, <3>3
  <2>7. Len(rest) <= max
    BY <1>1, <2>3
  <2>8. IsBoundedMap(rest, E, max)
    BY <2>3, <2>5, <2>7
  <2>9. QED
    BY <1>3, <2>3, <2>4, <2>6, <2>8
<1>4. QED
  BY <1>2, <1>3
\* The values of a map may be rewritten in their places, as long as the keys stay:
LEMMA RewrittenIsBounded ==
  ASSUME NEW E, NEW max, NEW map, IsBoundedMap(map, E, max),
         NEW other \in Seq(E), Len(other) = Len(map),
         \A i \in DOMAIN map : other[i].key = map[i].key
  PROVE  DOMAIN other = DOMAIN map /\ IsBoundedMap(other, E, max)
<1>1. DOMAIN other = DOMAIN map
  BY LenProperties DEF IsBoundedMap
<1>2. QED
  BY <1>1 DEF IsBoundedMap

\* a key is where it was.
LEMMA RewrittenEntries ==
  ASSUME NEW E, NEW max, NEW map, IsBoundedMap(map, E, max),
         NEW other \in Seq(E), Len(other) = Len(map),
         \A i \in DOMAIN map : other[i].key = map[i].key,
         NEW key, Has(map, key)
  PROVE  LET i == Position(map, key) IN
           /\ i \in DOMAIN map /\ map[i].key = key
           /\ Get(map, key) = map[i] /\ Get(other, key) = other[i]
<1>1. DOMAIN other = DOMAIN map /\ IsBoundedMap(other, E, max)
  BY RewrittenIsBounded
<1>2. Has(other, key)
  BY <1>1 DEF Has, Keys
<1>3. Position(map, key) \in DOMAIN map /\ map[Position(map, key)].key = key
  BY GetEntry
<1>4. Position(other, key) \in DOMAIN other /\ other[Position(other, key)].key = key
  BY <1>1, <1>2, GetEntry
<1>5. Position(other, key) = Position(map, key)
  BY <1>1, <1>3, <1>4 DEF IsBoundedMap
<1>6. QED
  BY <1>3, <1>5 DEF Get

\* How many entries have to go depends on the key alone.
LEMMA ExcessOfKey ==
  ASSUME NEW E, NEW max \in Nat, NEW map, IsBoundedMap(map, E, max), NEW entry
  PROVE  Excess(map, entry, max) =
           IF ~Has(map, entry.key) /\ Len(map) = max THEN 1 ELSE 0
<1> DEFINE wider == E \cup {entry}
           stored == Store(map, entry)
<1>1. Len(map) \in Nat /\ Len(map) <= max /\ DOMAIN map = 1 .. Len(map) /\ \A i \in DOMAIN map : map[i] \in E
  BY LenProperties, ElementOfSeq DEF IsBoundedMap
<1>2. map \in Seq(wider)
  <2>1. map \in [1 .. Len(map) -> wider]
    BY <1>1, LenProperties DEF IsBoundedMap
  <2>2. QED
    BY <1>1, <2>1, SeqDef
<1>3. IsBoundedMap(map, wider, max) /\ entry \in wider
  BY <1>2 DEF IsBoundedMap
<1> HIDE DEF wider
<1>4. Len(stored) = IF Has(map, entry.key) THEN Len(map) ELSE Len(map) + 1
  BY <1>3, StoreEntries
<1> HIDE DEF stored
<1>5. Excess(map, entry, max) = IF Len(stored) > max THEN Len(stored) - max ELSE 0
  BY DEF Excess, stored
<1>6. CASE Has(map, entry.key)
  <2>1. Len(stored) = Len(map)
    BY <1>4, <1>6
  <2>2. Len(map) \in Nat /\ Len(map) <= max
    BY <1>1
  <2>3. Excess(map, entry, max) = 0
    BY <1>5, <2>1, <2>2
  <2>4. QED
    BY <1>6, <2>3
<1>7. CASE ~Has(map, entry.key)
  <2>1. Len(stored) = Len(map) + 1
    BY <1>4, <1>7
  <2>2. Len(map) \in Nat /\ Len(map) <= max
    BY <1>1
  <2>3. Excess(map, entry, max) = IF Len(map) = max THEN 1 ELSE 0
    BY <1>5, <2>1, <2>2
  <2>4. QED
    BY <1>7, <2>3
<1>8. QED
  BY <1>6, <1>7
=============================================================================
