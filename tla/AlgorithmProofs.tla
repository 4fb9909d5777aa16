-------------------------- MODULE AlgorithmProofs --------------------------
(***************************************************************************)
(* The LRU cache for any capacity, keys and values: its two pools never run *)
(* out in the middle of put, and it implements LeastRecentlyUsed.  The QOI   *)
(* codec for any pixels: the decoder gives back what was compressed.         *)
(***************************************************************************)
EXTENDS LRUCache, QoiCodec, SequenceTheorems, FiniteSetTheorems, TLAPS

\* No block is twice in a sequence; every element of it is in the set.
Once(s) == \A i, j \in 1..Len(s) : s[i] = s[j] => i = j
Apart(s, t) == \A i \in 1..Len(s), j \in 1..Len(t) : s[i] # t[j]
Occurs(b, s) == \E i \in 1..Len(s) : s[i] = b

\* The list's pool: every block is in the list l or free (p), never both, and once.
ListOK(l, p) ==
    /\ l \in Seq(Blocks) /\ p \in Seq(Blocks)
    /\ Once(l) /\ Once(p) /\ Apart(l, p)
    /\ \A b \in Blocks : Occurs(b, l) \/ Occurs(b, p)
    /\ Len(l) + Len(p) = Capacity

\* The list's blocks hold items.
ItemOK(l, it) ==
    /\ it \in [Blocks -> (Keys \X Values) \cup {NoValue}]
    /\ \A b \in Blocks : Occurs(b, l) => it[b] \in Keys \X Values

\* The map has the entries of the list's items, and nothing else.
MapOK(l, it, m) ==
    /\ m \in [DOMAIN m -> [at : Blocks, block : Blocks]]
    /\ DOMAIN m \subseteq Keys
    /\ \A k \in DOMAIN m : Occurs(m[k].at, l) /\ it[m[k].at][1] = k
    /\ \A b \in Blocks : Occurs(b, l) => it[b][1] \in DOMAIN m /\ m[it[b][1]].at = b

\* The map's pool, as long as that of the list.
MapPoolOK(l, p, m, q) ==
    /\ q \in Seq(Blocks)
    /\ \A b \in Blocks : Occurs(b, q) \/ \E k \in DOMAIN m : m[k].block = b
    /\ IsFiniteSet(DOMAIN m) /\ Cardinality(DOMAIN m) = Len(l)
    /\ Len(q) = Len(p)

CInv ==
    /\ ListOK(list, listPool) /\ ItemOK(list, item) /\ MapOK(list, item, map)
    /\ MapPoolOK(list, listPool, map, mapPool)
    /\ threw = FALSE
    /\ answer \in Values \cup {NoValue}

-----------------------------------------------------------------------------
(* The cache: what the invariant implies *)

LEMMA CInvSound == ASSUME CInv PROVE CacheSound
<1> USE DEF CInv
<1>1. Range(list) \cup Range(listPool) = Blocks
      BY RangeEquality DEF ListOK, Occurs
<1>2. {map[k].block : k \in DOMAIN map} \cup Range(mapPool) = Blocks
  <2>1. Range(mapPool) = {mapPool[i] : i \in 1..Len(mapPool)}
        BY RangeEquality DEF MapPoolOK
  <2> QED
      BY <2>1 DEF MapPoolOK, MapOK, Occurs
<1>3. {<<k, map[k].at>> : k \in DOMAIN map} = {<<item[b][1], b>> : b \in Range(list)}
  <2>1. Range(list) = {list[i] : i \in 1..Len(list)} /\ Range(list) \subseteq Blocks
        BY RangeEquality DEF ListOK
  <2>2. ASSUME NEW k \in DOMAIN map
        PROVE  <<k, map[k].at>> \in {<<item[b][1], b>> : b \in Range(list)}
        BY <2>1 DEF MapOK, Occurs
  <2>3. ASSUME NEW b \in Range(list)
        PROVE  <<item[b][1], b>> \in {<<k, map[k].at>> : k \in DOMAIN map}
        BY <2>1 DEF MapOK, Occurs
  <2> QED
      BY <2>2, <2>3
<1>4. Cardinality(DOMAIN map) + Len(mapPool) = Capacity
      BY DEF MapPoolOK, ListOK
<1>5. PoolsAndMapAgree
      BY <1>1, <1>2, <1>3, <1>4 DEF PoolsAndMapAgree, ListOK
<1>6. CacheTypeOK
      BY DEF CacheTypeOK, ListOK, ItemOK, MapOK, MapPoolOK
<1> QED
    BY <1>5, <1>6 DEF CacheSound, NeverThrows

LEMMA CacheStarts == ASSUME CacheInit PROVE CInv
<1> USE CacheAssumption DEF CacheInit, Blocks
<1>1. /\ init_pool \in Seq(Blocks) /\ Len(init_pool) = Capacity
      /\ \A i \in 1..Capacity : init_pool[i] = Capacity + 1 - i
      BY DEF init_pool
<1>2. \A b \in Blocks : Occurs(b, init_pool)
  <2> SUFFICES ASSUME NEW b \in Blocks PROVE Occurs(b, init_pool)
      OBVIOUS
  <2>1. Capacity + 1 - b \in 1..Capacity /\ init_pool[Capacity + 1 - b] = b
        BY <1>1
  <2> QED
      BY <1>1, <2>1 DEF Occurs
<1>3. Once(init_pool)
      BY <1>1 DEF Once
<1> HIDE DEF Blocks
<1>4. ListOK(list, listPool)
      BY <1>1, <1>2, <1>3 DEF ListOK, Once, Apart
<1>5. ItemOK(list, item)
      BY DEF ItemOK, Occurs
<1>6. DOMAIN map = {} /\ map = [k \in {} |-> 0]
      OBVIOUS
<1>7. MapOK(list, item, map)
      BY <1>6 DEF MapOK, Occurs
<1>8. MapPoolOK(list, listPool, map, mapPool)
      BY <1>1, <1>2, <1>6, FS_EmptySet DEF MapPoolOK
<1> QED
    BY <1>4, <1>5, <1>7, <1>8 DEF CInv

-----------------------------------------------------------------------------
(* The cache: sequences *)

LEMMA RemoveAtIs ==
    ASSUME NEW S, NEW s \in Seq(S), NEW i \in 1..Len(s)
    PROVE  /\ RemoveAt(s, i) \in Seq(S) /\ Len(RemoveAt(s, i)) = Len(s) - 1
           /\ \A j \in 1..Len(s) - 1 : RemoveAt(s, i)[j] = IF j < i THEN s[j] ELSE s[j + 1]
<1> DEFINE a == SubSeq(s, 1, i - 1)
           b == SubSeq(s, i + 1, Len(s))
<1>0. Len(s) \in Nat /\ i \in Nat /\ i <= Len(s) /\ i >= 1
      OBVIOUS
<1>1. /\ a \in Seq(S) /\ Len(a) = i - 1 /\ Len(a) \in Nat
      /\ \A j \in 1..i - 1 : a[j] = s[j]
      BY <1>0
<1>2. /\ b \in Seq(S) /\ Len(b) = Len(s) - i /\ Len(b) \in Nat
      /\ \A j \in 1..Len(s) - i : b[j] = s[i + j]
      BY <1>0
<1>3. RemoveAt(s, i) = a \o b
      BY DEF RemoveAt
<1> HIDE DEF a, b
<1>4. /\ a \o b \in Seq(S) /\ Len(a \o b) = Len(a) + Len(b)
      /\ \A j \in 1..Len(a) + Len(b) : (a \o b)[j] = IF j <= Len(a) THEN a[j] ELSE b[j - Len(a)]
      BY <1>1, <1>2, ConcatProperties
<1>5. ASSUME NEW j \in 1..Len(s) - 1
      PROVE  (a \o b)[j] = IF j < i THEN s[j] ELSE s[j + 1]
  <2>1. j \in 1..Len(a) + Len(b)
        BY <1>0, <1>1, <1>2
  <2>2. CASE j < i
        BY <1>0, <1>1, <1>4, <2>1, <2>2
  <2>3. CASE ~(j < i)
    <3>1. j - Len(a) \in 1..Len(s) - i /\ i + (j - Len(a)) = j + 1 /\ ~(j <= Len(a))
          BY <1>0, <1>1, <2>3
    <3> QED
        BY <1>2, <1>4, <2>1, <2>3, <3>1
  <2> QED
      BY <2>2, <2>3
<1> QED
    BY <1>0, <1>1, <1>2, <1>3, <1>4, <1>5

\* A sequence whose element e takes the place of the one at i, at the front.
ToFront(e, s, i) == <<e>> \o RemoveAt(s, i)

LEMMA ToFrontIs ==
    ASSUME NEW S, NEW s, NEW i, NEW e, s \in Seq(S), i \in 1..Len(s), e \in S
    PROVE  /\ ToFront(e, s, i) \in Seq(S) /\ Len(ToFront(e, s, i)) = Len(s)
           /\ ToFront(e, s, i)[1] = e
           /\ \A j \in 2..Len(s) : ToFront(e, s, i)[j] = IF j <= i THEN s[j - 1] ELSE s[j]
<1> DEFINE t == RemoveAt(s, i)
<1>1. /\ t \in Seq(S) /\ Len(t) = Len(s) - 1
      /\ \A j \in 1..Len(s) - 1 : t[j] = IF j < i THEN s[j] ELSE s[j + 1]
      BY RemoveAtIs
<1> HIDE DEF t
<1>2. /\ <<e>> \o t \in Seq(S) /\ Len(<<e>> \o t) = Len(s) /\ (<<e>> \o t)[1] = e
      /\ \A j \in 2..Len(s) : (<<e>> \o t)[j] = t[j - 1]
      BY <1>1
<1> QED
    BY <1>1, <1>2 DEF ToFront, t

\* The elements stay the same.
LEMMA ToFrontSame ==
    ASSUME NEW S, NEW s, NEW i, s \in Seq(S), i \in 1..Len(s)
    PROVE  /\ ToFront(s[i], s, i) \in Seq(S) /\ Len(ToFront(s[i], s, i)) = Len(s)
           /\ \A b : Occurs(b, ToFront(s[i], s, i)) <=> Occurs(b, s)
           /\ Once(s) => Once(ToFront(s[i], s, i))
<1>0. s[i] \in S /\ Len(s) \in Nat
      OBVIOUS
<1> DEFINE t == ToFront(s[i], s, i)
<1>1. /\ t \in Seq(S) /\ Len(t) = Len(s) /\ t[1] = s[i]
      /\ \A j \in 2..Len(s) : t[j] = IF j <= i THEN s[j - 1] ELSE s[j]
      BY <1>0, ToFrontIs
<1> HIDE DEF t
<1> DEFINE from(j) == IF j = 1 THEN i ELSE IF j <= i THEN j - 1 ELSE j
           to(k) == IF k = i THEN 1 ELSE IF k < i THEN k + 1 ELSE k
<1>2. \A j \in 1..Len(s) : from(j) \in 1..Len(s) /\ t[j] = s[from(j)] /\ to(from(j)) = j
      BY <1>0, <1>1
<1>3. \A k \in 1..Len(s) : to(k) \in 1..Len(s) /\ from(to(k)) = k
      BY <1>0
<1> HIDE DEF from, to
<1>4. \A b : Occurs(b, t) <=> Occurs(b, s)
  <2> SUFFICES ASSUME NEW b PROVE Occurs(b, t) <=> Occurs(b, s)
      OBVIOUS
  <2>1. ASSUME NEW j \in 1..Len(s), t[j] = b PROVE Occurs(b, s)
        BY <1>2, <2>1 DEF Occurs
  <2>2. ASSUME NEW k \in 1..Len(s), s[k] = b PROVE Occurs(b, t)
        BY <1>1, <1>2, <1>3, <2>2 DEF Occurs
  <2> QED
      BY <1>1, <2>1, <2>2 DEF Occurs
<1>5. Once(s) => Once(t)
  <2> SUFFICES ASSUME Once(s), NEW j \in 1..Len(s), NEW k \in 1..Len(s), t[j] = t[k]
               PROVE  j = k
      BY <1>1 DEF Once
  <2>1. from(j) = from(k)
    <3>1. from(j) \in 1..Len(s) /\ from(k) \in 1..Len(s) /\ s[from(j)] = s[from(k)]
          BY <1>2
    <3> QED
        BY <3>1 DEF Once
  <2> QED
      BY <1>2, <2>1
<1> QED
    BY <1>1, <1>4, <1>5 DEF t

LEMMA SpliceIs ==
    ASSUME NEW b, Occurs(b, list)
    PROVE  \E i \in 1..Len(list) : list[i] = b /\ splice(b) = ToFront(list[i], list, i)
BY DEF splice, Occurs, ToFront

LEMMA ApartIs ==
    ASSUME NEW s, NEW t
    PROVE  Apart(s, t) <=> \A b : ~(Occurs(b, s) /\ Occurs(b, t))
BY DEF Apart, Occurs

\* The blocks of the list stay the same.
LEMMA ToFrontKeeps ==
    ASSUME NEW l, NEW p, ListOK(l, p), NEW i, i \in 1..Len(l)
    PROVE  ListOK(ToFront(l[i], l, i), p)
<1> DEFINE t == ToFront(l[i], l, i)
<1>1. /\ t \in Seq(Blocks) /\ Len(t) = Len(l) /\ Once(t)
      /\ \A b : Occurs(b, t) <=> Occurs(b, l)
      BY ToFrontSame DEF ListOK
<1> HIDE DEF t
<1>2. Apart(t, p)
  <2>1. \A b : ~(Occurs(b, l) /\ Occurs(b, p))
        BY ApartIs DEF ListOK
  <2> QED
      BY <1>1, <2>1, ApartIs
<1>3. ListOK(t, p)
      BY <1>1, <1>2 DEF ListOK
<1> QED
    BY <1>3 DEF t

\* One element more at the front.
LEMMA ConsIs ==
    ASSUME NEW S, NEW s, NEW h, s \in Seq(S), h \in S
    PROVE  /\ <<h>> \o s \in Seq(S) /\ Len(<<h>> \o s) = Len(s) + 1
           /\ (<<h>> \o s)[1] = h
           /\ \A j \in 1..Len(s) : (<<h>> \o s)[j + 1] = s[j]
           /\ \A b : Occurs(b, <<h>> \o s) <=> b = h \/ Occurs(b, s)
           /\ Once(s) /\ ~Occurs(h, s) => Once(<<h>> \o s)
<1> DEFINE t == <<h>> \o s
<1>1. /\ t \in Seq(S) /\ Len(t) = Len(s) + 1 /\ Len(s) \in Nat /\ t[1] = h
      /\ \A j \in 2..Len(s) + 1 : t[j] = s[j - 1]
      OBVIOUS
<1> HIDE DEF t
<1>2. \A j \in 1..Len(s) : j + 1 \in 2..Len(s) + 1 /\ t[j + 1] = s[j]
      BY <1>1
<1>3. \A j \in 1..Len(t) : j = 1 \/ (j - 1 \in 1..Len(s) /\ t[j] = s[j - 1])
      BY <1>1
<1>4. ASSUME NEW b PROVE Occurs(b, t) <=> b = h \/ Occurs(b, s)
  <2>1. ASSUME NEW j \in 1..Len(t), t[j] = b PROVE b = h \/ Occurs(b, s)
        BY <1>1, <1>3, <2>1 DEF Occurs
  <2>2. ASSUME NEW j \in 1..Len(s), s[j] = b PROVE Occurs(b, t)
    <3>1. j + 1 \in 1..Len(t) /\ t[j + 1] = b
          BY <1>1, <1>2, <2>2
    <3> QED
        BY <3>1 DEF Occurs
  <2>3. Occurs(h, t)
        BY <1>1 DEF Occurs
  <2> QED
      BY <2>1, <2>2, <2>3 DEF Occurs
<1>5. ASSUME Once(s), ~Occurs(h, s) PROVE Once(t)
  <2> SUFFICES ASSUME NEW i \in 1..Len(t), NEW j \in 1..Len(t), t[i] = t[j] PROVE i = j
      BY DEF Once
  <2>1. CASE i = 1 \/ j = 1
        BY <1>1, <1>3, <1>5, <2>1 DEF Occurs
  <2>2. CASE i # 1 /\ j # 1
    <3>1. i - 1 \in 1..Len(s) /\ j - 1 \in 1..Len(s) /\ s[i - 1] = s[j - 1]
          BY <1>3, <2>2
    <3> QED
        BY <1>5, <3>1 DEF Once
  <2> QED
      BY <2>1, <2>2
<1> QED
    BY <1>1, <1>2, <1>4, <1>5 DEF t

\* One element less at the front.
LEMMA TailIs ==
    ASSUME NEW S, NEW s, s \in Seq(S), Len(s) > 0
    PROVE  /\ Head(s) \in S /\ Tail(s) \in Seq(S) /\ Len(Tail(s)) = Len(s) - 1
           /\ \A b : Occurs(b, s) <=> b = Head(s) \/ Occurs(b, Tail(s))
           /\ Once(s) => Once(Tail(s)) /\ ~Occurs(Head(s), Tail(s))
<1> DEFINE t == Tail(s)
           h == Head(s)
<1>1. /\ h \in S /\ t \in Seq(S) /\ Len(t) = Len(s) - 1 /\ Len(s) \in Nat /\ h = s[1]
      /\ \A j \in 1..Len(t) : t[j] = s[j + 1]
      OBVIOUS
<1> HIDE DEF t, h
<1>2. \A j \in 1..Len(t) : j + 1 \in 1..Len(s) /\ j + 1 # 1 /\ s[j + 1] = t[j]
      BY <1>1
<1>3. \A j \in 1..Len(s) : j = 1 \/ (j - 1 \in 1..Len(t) /\ s[j] = t[j - 1])
      BY <1>1
<1>4. ASSUME NEW b PROVE Occurs(b, s) <=> b = h \/ Occurs(b, t)
  <2>1. ASSUME NEW j \in 1..Len(s), s[j] = b PROVE b = h \/ Occurs(b, t)
        BY <1>1, <1>3, <2>1 DEF Occurs
  <2>2. ASSUME NEW j \in 1..Len(t), t[j] = b PROVE Occurs(b, s)
        BY <1>2, <2>2 DEF Occurs
  <2>3. Occurs(h, s)
        BY <1>1 DEF Occurs
  <2> QED
      BY <2>1, <2>2, <2>3 DEF Occurs
<1>5. ASSUME Once(s) PROVE Once(t) /\ ~Occurs(h, t)
  <2>1. ASSUME NEW i \in 1..Len(t), NEW j \in 1..Len(t), t[i] = t[j] PROVE i = j
    <3>1. i + 1 = j + 1
          BY <1>2, <1>5, <2>1 DEF Once
    <3> QED
        BY <1>1, <3>1
  <2>2. ASSUME NEW j \in 1..Len(t), t[j] = h PROVE FALSE
    <3>1. 1 \in 1..Len(s) /\ s[1] = s[j + 1] /\ j + 1 \in 1..Len(s) /\ j + 1 # 1
          BY <1>1, <1>2, <2>2
    <3> QED
        BY <1>5, <3>1 DEF Once
  <2> QED
      BY <2>1, <2>2 DEF Once, Occurs
<1> QED
    BY <1>1, <1>4, <1>5 DEF t, h

\* One element less at the back.
LEMMA FrontIs ==
    ASSUME NEW S, NEW s, s \in Seq(S), Len(s) > 0
    PROVE  /\ Last(s) \in S /\ Front(s) \in Seq(S) /\ Len(Front(s)) = Len(s) - 1
           /\ \A j \in 1..Len(s) - 1 : Front(s)[j] = s[j]
           /\ \A b : Occurs(b, s) <=> b = Last(s) \/ Occurs(b, Front(s))
           /\ Once(s) => Once(Front(s)) /\ ~Occurs(Last(s), Front(s))
<1> DEFINE t == Front(s)
           h == Last(s)
           n == Len(s)
<1>0. Len(s) \in Nat /\ Len(s) \in 1..Len(s) /\ 0 <= Len(s) - 1
      OBVIOUS
<1>1. /\ h \in S /\ t \in Seq(S) /\ Len(t) = n - 1 /\ n \in Nat /\ n > 0 /\ h = s[n]
      /\ \A j \in 1..n - 1 : t[j] = s[j]
  <2>1. t \in Seq(S) /\ Len(t) = n - 1 /\ \A j \in 1..n - 1 : t[j] = s[j]
    <3>1. \A i \in 1..Len(s) :
            /\ SubSeq(s, 1, i - 1) \in Seq(S) /\ Len(SubSeq(s, 1, i - 1)) = i - 1
            /\ \A j \in 1..i - 1 : SubSeq(s, 1, i - 1)[j] = s[j]
          OBVIOUS
    <3> QED
        BY <1>0, <3>1 DEF Front
  <2>2. h \in S /\ h = s[n]
        BY <1>0 DEF Last
  <2> QED
      BY <1>0, <2>1, <2>2
<1> HIDE DEF t, h
<1>2. \A j \in 1..Len(t) : j \in 1..n /\ j # n /\ s[j] = t[j]
      BY <1>1
<1>3. \A j \in 1..n : j = n \/ (j \in 1..Len(t) /\ s[j] = t[j])
      BY <1>1
<1>4. ASSUME NEW b PROVE Occurs(b, s) <=> b = h \/ Occurs(b, t)
  <2>1. ASSUME NEW j \in 1..n, s[j] = b PROVE b = h \/ Occurs(b, t)
        BY <1>1, <1>3, <2>1 DEF Occurs
  <2>2. ASSUME NEW j \in 1..Len(t), t[j] = b PROVE Occurs(b, s)
        BY <1>2, <2>2 DEF Occurs
  <2>3. Occurs(h, s)
        BY <1>1 DEF Occurs
  <2> QED
      BY <2>1, <2>2, <2>3 DEF Occurs
<1>5. ASSUME Once(s) PROVE Once(t) /\ ~Occurs(h, t)
  <2>1. ASSUME NEW i \in 1..Len(t), NEW j \in 1..Len(t), t[i] = t[j] PROVE i = j
        BY <1>2, <1>5, <2>1 DEF Once
  <2>2. ASSUME NEW j \in 1..Len(t), t[j] = h PROVE FALSE
    <3>1. n \in 1..n /\ s[n] = s[j] /\ j \in 1..n /\ j # n
          BY <1>1, <1>2, <2>2
    <3> QED
        BY <1>5, <3>1 DEF Once
  <2> QED
      BY <2>1, <2>2 DEF Once, Occurs
<1> QED
    BY <1>1, <1>4, <1>5 DEF t, h

\* emplace_front takes a block from the pool.
LEMMA TakeBlock ==
    ASSUME NEW l, NEW p, ListOK(l, p), Len(p) > 0
    PROVE  ListOK(<<Head(p)>> \o l, Tail(p)) /\ ~Occurs(Head(p), l) /\ Head(p) \in Blocks
<1> DEFINE h == Head(p)
           q == Tail(p)
           t == <<h>> \o l
<1>1. /\ h \in Blocks /\ q \in Seq(Blocks) /\ Len(q) = Len(p) - 1 /\ Once(q) /\ ~Occurs(h, q)
      /\ \A b : Occurs(b, p) <=> b = h \/ Occurs(b, q)
      BY TailIs DEF ListOK
<1> HIDE DEF h, q
<1>2. /\ t \in Seq(Blocks) /\ Len(t) = Len(l) + 1
      /\ \A b : Occurs(b, t) <=> b = h \/ Occurs(b, l)
      /\ ~Occurs(h, l) => Once(t)
      BY <1>1, ConsIs DEF ListOK
<1> HIDE DEF t
<1>3. \A b : ~(Occurs(b, l) /\ Occurs(b, p))
      BY ApartIs DEF ListOK
<1>4. ~Occurs(h, l) /\ Apart(t, q)
      BY <1>1, <1>2, <1>3, ApartIs
<1>5. Len(t) + Len(q) = Capacity
      BY <1>1, <1>2 DEF ListOK
<1>6. ListOK(t, q)
      BY <1>1, <1>2, <1>4, <1>5 DEF ListOK
<1> QED
    BY <1>1, <1>4, <1>6 DEF h, q, t

\* pop_back gives a block back.
LEMMA GiveBlock ==
    ASSUME NEW l, NEW p, ListOK(l, p), Len(l) > 0
    PROVE  ListOK(Front(l), <<Last(l)>> \o p)
<1> DEFINE h == Last(l)
           k == Front(l)
           t == <<h>> \o p
<1>1. /\ h \in Blocks /\ k \in Seq(Blocks) /\ Len(k) = Len(l) - 1 /\ Once(k) /\ ~Occurs(h, k)
      /\ \A b : Occurs(b, l) <=> b = h \/ Occurs(b, k)
      BY FrontIs DEF ListOK
<1> HIDE DEF h, k
<1>2. /\ t \in Seq(Blocks) /\ Len(t) = Len(p) + 1
      /\ \A b : Occurs(b, t) <=> b = h \/ Occurs(b, p)
      /\ ~Occurs(h, p) => Once(t)
      BY <1>1, ConsIs DEF ListOK
<1> HIDE DEF t
<1>3. \A b : ~(Occurs(b, l) /\ Occurs(b, p))
      BY ApartIs DEF ListOK
<1>4. ~Occurs(h, p) /\ Apart(k, t)
      BY <1>1, <1>2, <1>3, ApartIs
<1>5. Len(k) + Len(t) = Capacity
      BY <1>1, <1>2 DEF ListOK
<1>6. ListOK(k, t)
      BY <1>1, <1>2, <1>4, <1>5 DEF ListOK
<1> QED
    BY <1>6 DEF h, k, t

-----------------------------------------------------------------------------
(* The cache: put of a new key *)

\* What emplace_front and m_map[key] do, from a list kept, a map index and pools
\* free and room that agree and have a block each.
LEMMA EmplaceKeeps ==
    ASSUME NEW k \in Keys, NEW v \in Values, NEW kept, NEW index, NEW free, NEW room,
           ListOK(kept, free), ItemOK(kept, item), MapOK(kept, item, index),
           MapPoolOK(kept, free, index, room),
           Len(kept) < Capacity, k \notin DOMAIN index, threw = FALSE,
           Emplace(k, v, kept, index, free, room)
    PROVE  /\ CInv'
           /\ list' = <<Head(free)>> \o kept
           /\ item' = [item EXCEPT ![Head(free)] = <<k, v>>]
           /\ ~Occurs(Head(free), kept) /\ Head(free) \in Blocks
           /\ answer' = NoValue
<1> DEFINE h == Head(free)
           r == Head(room)
<1>0. Len(free) > 0 /\ Len(room) > 0 /\ free # <<>> /\ room # <<>>
      BY DEF ListOK, MapPoolOK
<1>1. /\ list' = <<h>> \o kept /\ threw' = FALSE /\ answer' = NoValue
      /\ listPool' = Tail(free) /\ mapPool' = Tail(room)
      BY <1>0 DEF Emplace
<1>2. item' = [b \in Blocks |-> IF b = h THEN <<k, v>> ELSE item[b]]
  <2>1. item' = [b \in Blocks |-> IF <<h>> = <<b>> THEN <<k, v>> ELSE item[b]]
        BY <1>0 DEF Emplace
  <2>2. \A b \in Blocks : <<h>> = <<b>> <=> b = h
        OBVIOUS
  <2> QED
      BY <2>1, <2>2
<1>3. map' = [x \in DOMAIN index \cup {k} |->
                IF x = k THEN [at |-> h, block |-> r] ELSE index[x]]
      BY <1>0 DEF Emplace
<1>4. ListOK(list', listPool') /\ ~Occurs(h, kept) /\ h \in Blocks
      BY <1>0, <1>1, TakeBlock
<1>5. /\ r \in Blocks /\ Tail(room) \in Seq(Blocks) /\ Len(Tail(room)) = Len(room) - 1
      /\ \A b : Occurs(b, room) <=> b = r \/ Occurs(b, Tail(room))
      BY <1>0, TailIs DEF MapPoolOK
<1>6. /\ \A b : Occurs(b, list') <=> b = h \/ Occurs(b, kept)
      /\ Len(list') = Len(kept) + 1
      BY <1>1, <1>4, ConsIs DEF ListOK
<1>7. Len(listPool') = Len(free) - 1
      BY <1>0, <1>1, TailIs DEF ListOK
<1> HIDE DEF h, r
<1>8. ItemOK(list', item')
      BY <1>2, <1>4, <1>6 DEF ItemOK
<1>9. DOMAIN map' = DOMAIN index \cup {k} /\ map'[k] = [at |-> h, block |-> r]
      BY <1>3
<1>10. \A x \in DOMAIN index : map'[x] = index[x]
      BY <1>3
<1>11. MapOK(list', item', map')
  <2>1. map' \in [DOMAIN map' -> [at : Blocks, block : Blocks]] /\ DOMAIN map' \subseteq Keys
        BY <1>3, <1>4, <1>5 DEF MapOK
  <2>2. \A x \in DOMAIN map' : Occurs(map'[x].at, list') /\ item'[map'[x].at][1] = x
    <3>1. ASSUME NEW x \in DOMAIN index
          PROVE  Occurs(map'[x].at, list') /\ item'[map'[x].at][1] = x
          BY <1>2, <1>4, <1>6, <1>10 DEF MapOK
    <3>2. Occurs(map'[k].at, list') /\ item'[map'[k].at][1] = k
          BY <1>2, <1>4, <1>6, <1>9
    <3> QED
        BY <1>9, <3>1, <3>2
  <2>3. ASSUME NEW b \in Blocks, Occurs(b, list')
        PROVE  item'[b][1] \in DOMAIN map' /\ map'[item'[b][1]].at = b
    <3>1. CASE b = h
          BY <1>2, <1>9, <3>1
    <3>2. CASE b # h
      <4>1. Occurs(b, kept) /\ item'[b] = item[b]
            BY <1>2, <1>6, <2>3, <3>2
      <4>2. item[b][1] \in DOMAIN index /\ index[item[b][1]].at = b
            BY <4>1 DEF MapOK
      <4> QED
          BY <1>9, <1>10, <4>1, <4>2
    <3> QED
        BY <3>1, <3>2
  <2> QED
      BY <2>1, <2>2, <2>3 DEF MapOK
<1>12. MapPoolOK(list', listPool', map', mapPool')
  <2>1. \A b \in Blocks : Occurs(b, mapPool') \/ \E x \in DOMAIN map' : map'[x].block = b
    <3> SUFFICES ASSUME NEW b \in Blocks, ~Occurs(b, mapPool')
                 PROVE  \E x \in DOMAIN map' : map'[x].block = b
        OBVIOUS
    <3>1. CASE b = r
          BY <1>9, <3>1
    <3>2. CASE b # r
      <4>1. PICK x \in DOMAIN index : index[x].block = b
            BY <1>1, <1>5, <3>2 DEF MapPoolOK
      <4> QED
          BY <1>9, <1>10, <4>1
    <3> QED
        BY <3>1, <3>2
  <2>2. IsFiniteSet(DOMAIN map') /\ Cardinality(DOMAIN map') = Len(kept) + 1
        BY <1>9, FS_AddElement DEF MapPoolOK
  <2>3. Len(mapPool') = Len(listPool')
        BY <1>1, <1>5, <1>7 DEF MapPoolOK
  <2> QED
      BY <1>1, <1>5, <1>6, <2>1, <2>2, <2>3 DEF MapPoolOK
<1>13. CInv'
      BY <1>1, <1>4, <1>8, <1>11, <1>12 DEF CInv
<1>14. item' = [item EXCEPT ![h] = <<k, v>>]
      BY <1>2, <1>4 DEF ItemOK
<1> QED
    BY <1>1, <1>4, <1>13, <1>14 DEF h

LEMMA NewKeeps ==
    ASSUME CInv, NEW k \in Keys, NEW v \in Values, PutNew(k, v)
    PROVE  /\ CInv'
           /\ \E h \in Blocks : /\ ~Occurs(h, list) /\ list' = <<h>> \o list
                                /\ item' = [item EXCEPT ![h] = <<k, v>>]
           /\ answer' = NoValue
<1>1. Len(list) < Capacity
      BY CacheAssumption DEF PutNew, Full, CInv, ListOK
<1> QED
    BY <1>1, EmplaceKeeps DEF PutNew, CInv

\* The back of the list leaves list and map, and its blocks are free.
LEMMA EvictKeeps ==
    ASSUME CInv, NEW k \in Keys, NEW v \in Values, PutEvict(k, v)
    PROVE  /\ CInv'
           /\ \E h \in Blocks : /\ ~Occurs(h, Front(list)) /\ list' = <<h>> \o Front(list)
                                /\ item' = [item EXCEPT ![h] = <<k, v>>]
           /\ answer' = NoValue
<1> DEFINE b == Last(list)
           old == item[b][1]
           kept == Front(list)
           index == [x \in DOMAIN map \ {old} |-> map[x]]
           free == <<b>> \o listPool
           room == <<map[old].block>> \o mapPool
<1>0. Len(list) = Capacity /\ Len(list) > 0
      BY CacheAssumption DEF PutEvict, Full, CInv, ListOK
<1>1. /\ k \notin DOMAIN map /\ Emplace(k, v, kept, index, free, room)
      BY DEF PutEvict
<1>2. ListOK(kept, free)
      BY <1>0, GiveBlock DEF CInv
<1>3. /\ b \in Blocks /\ Len(kept) = Len(list) - 1 /\ ~Occurs(b, kept)
      /\ \A x : Occurs(x, list) <=> x = b \/ Occurs(x, kept)
      BY <1>0, FrontIs DEF CInv, ListOK
<1>4. old \in DOMAIN map /\ map[old].at = b /\ map[old].block \in Blocks
      BY <1>3 DEF CInv, MapOK
<1>5. Len(free) = Len(listPool) + 1
      BY <1>3, ConsIs DEF CInv, ListOK
<1>6. /\ room \in Seq(Blocks) /\ Len(room) = Len(mapPool) + 1
      /\ \A x : Occurs(x, room) <=> x = map[old].block \/ Occurs(x, mapPool)
      BY <1>4, ConsIs DEF CInv, MapPoolOK
<1>7. DOMAIN index = DOMAIN map \ {old} /\ \A x \in DOMAIN index : index[x] = map[x]
      OBVIOUS
<1>8. index \in [DOMAIN index -> [at : Blocks, block : Blocks]]
      BY DEF CInv, MapOK
<1> HIDE DEF b, old, kept, index, free, room
<1>9. ItemOK(kept, item)
      BY <1>3 DEF CInv, ItemOK
<1>10. MapOK(kept, item, index)
  <2>1. ASSUME NEW x \in DOMAIN index
        PROVE  Occurs(index[x].at, kept) /\ item[index[x].at][1] = x
    <3>1. x \in DOMAIN map /\ x # old /\ index[x] = map[x]
          BY <1>7
    <3>2. Occurs(map[x].at, list) /\ item[map[x].at][1] = x
          BY <3>1 DEF CInv, MapOK
    <3>3. map[x].at # b
          BY <3>1, <3>2 DEF old
    <3> QED
        BY <1>3, <3>1, <3>2, <3>3
  <2>2. ASSUME NEW x \in Blocks, Occurs(x, kept)
        PROVE  item[x][1] \in DOMAIN index /\ index[item[x][1]].at = x
    <3>1. item[x][1] \in DOMAIN map /\ map[item[x][1]].at = x
          BY <1>3, <2>2 DEF CInv, MapOK
    <3>2. x # b
          BY <1>3, <2>2
    <3>3. item[x][1] # old
          BY <1>4, <3>1, <3>2
    <3> QED
        BY <1>7, <3>1, <3>3
  <2> QED
      BY <1>7, <1>8, <2>1, <2>2 DEF MapOK, CInv
<1>11. MapPoolOK(kept, free, index, room)
  <2>1. \A x \in Blocks : Occurs(x, room) \/ \E y \in DOMAIN index : index[y].block = x
    <3> SUFFICES ASSUME NEW x \in Blocks, ~Occurs(x, room)
                 PROVE  \E y \in DOMAIN index : index[y].block = x
        OBVIOUS
    <3>1. PICK y \in DOMAIN map : map[y].block = x
          BY <1>6 DEF CInv, MapPoolOK
    <3>2. y # old
          BY <1>6, <3>1
    <3> QED
        BY <1>7, <3>1, <3>2
  <2>2. IsFiniteSet(DOMAIN index) /\ Cardinality(DOMAIN index) = Cardinality(DOMAIN map) - 1
        BY <1>4, <1>7, FS_RemoveElement DEF CInv, MapPoolOK
  <2> QED
      BY <1>3, <1>5, <1>6, <2>1, <2>2 DEF CInv, MapPoolOK
<1>12. Len(kept) < Capacity /\ k \notin DOMAIN index /\ threw = FALSE
      BY <1>0, <1>1, <1>3, <1>7, CacheAssumption DEF CInv
<1>13. /\ CInv'
       /\ list' = <<Head(free)>> \o kept
       /\ item' = [item EXCEPT ![Head(free)] = <<k, v>>]
       /\ ~Occurs(Head(free), kept) /\ Head(free) \in Blocks
       /\ answer' = NoValue
      BY <1>1, <1>2, <1>9, <1>10, <1>11, <1>12, EmplaceKeeps
<1> QED
    BY <1>13 DEF kept

-----------------------------------------------------------------------------
(* The cache: get, and put of a key that is held *)

\* A use of key k: its node moves to the front, and may get another value.
LEMMA UseKeeps ==
    ASSUME CInv, NEW k \in DOMAIN map, list' = splice(map[k].at),
           \/ item' = item
           \/ \E v \in Values : item' = [item EXCEPT ![map[k].at] = <<k, v>>],
           UNCHANGED <<map, listPool, mapPool, threw>>,
           answer' \in Values \cup {NoValue}
    PROVE  /\ CInv'
           /\ \E i \in 1..Len(list) : /\ list[i] = map[k].at
                                      /\ list' = ToFront(list[i], list, i)
<1> DEFINE b == map[k].at
<1>0. Occurs(b, list) /\ item[b][1] = k /\ b \in Blocks /\ k \in Keys /\ list \in Seq(Blocks)
      BY DEF CInv, MapOK, ListOK
<1>1. PICK i \in 1..Len(list) : list[i] = b /\ list' = ToFront(list[i], list, i)
      BY <1>0, SpliceIs
<1>2. ListOK(list', listPool')
      BY <1>1, ToFrontKeeps DEF CInv
<1>3. Len(list') = Len(list) /\ \A x : Occurs(x, list') <=> Occurs(x, list)
      BY <1>0, <1>1, ToFrontSame
<1>4. /\ item' \in [Blocks -> (Keys \X Values) \cup {NoValue}]
      /\ \A x \in Blocks : x # b => item'[x] = item[x]
      /\ item'[b] \in Keys \X Values /\ item'[b][1] = k
      BY <1>0 DEF CInv, ItemOK
<1> HIDE DEF b
<1>5. ItemOK(list', item')
      BY <1>3, <1>4 DEF CInv, ItemOK
<1>6. \A x \in Blocks : Occurs(x, list) => item'[x][1] = item[x][1]
      BY <1>0, <1>4
<1>7. MapOK(list', item', map')
      BY <1>3, <1>6 DEF CInv, MapOK
<1>8. MapPoolOK(list', listPool', map', mapPool')
      BY <1>3 DEF CInv, MapPoolOK
<1> QED
    BY <1>1, <1>2, <1>5, <1>7, <1>8 DEF CInv, b

LEMMA HitKeeps ==
    ASSUME CInv, NEW k \in Keys, GetHit(k)
    PROVE  /\ CInv'
           /\ \E i \in 1..Len(list) : /\ list[i] = map[k].at
                                      /\ list' = ToFront(list[i], list, i)
<1>1. item[map[k].at] \in Keys \X Values
      BY DEF GetHit, CInv, MapOK, ItemOK
<1> QED
    BY <1>1, UseKeeps DEF GetHit

LEMMA UpdateKeeps ==
    ASSUME CInv, NEW k \in Keys, NEW v \in Values, PutUpdate(k, v)
    PROVE  /\ CInv'
           /\ \E i \in 1..Len(list) : /\ list[i] = map[k].at
                                      /\ list' = ToFront(list[i], list, i)
BY UseKeeps DEF PutUpdate

LEMMA CacheStep == ASSUME CInv, [CacheNext]_cacheVars PROVE CInv'
<1>1. ASSUME NEW k \in Keys, GetMiss(k) PROVE CInv'
      BY <1>1 DEF GetMiss, CInv
<1>2. CASE UNCHANGED cacheVars
      BY <1>2 DEF cacheVars, CInv
<1> QED
    BY <1>1, <1>2, HitKeeps, UpdateKeeps, NewKeeps, EvictKeeps DEF CacheNext

\* Whatever keys are got and put, no call of the cache ends in bad_alloc, every
\* block of the two pools is free or in use, and list and map agree.
THEOREM CacheNeverThrows == CacheSpec => []CacheSound
<1>1. CacheInit => CInv
      BY CacheStarts
<1>2. CInv /\ [CacheNext]_cacheVars => CInv'
      BY CacheStep
<1>3. CInv => CacheSound
      BY CInvSound
<1> QED
    BY <1>1, <1>2, <1>3, PTL DEF CacheSpec

-----------------------------------------------------------------------------
(* The cache implements LeastRecentlyUsed *)

\* The refinement mapping: the items of list l.
Items(l, it) == [i \in 1..Len(l) |-> it[l[i]]]

Pairs == Keys \X Values

LEMMA ItemsIs ==
    ASSUME NEW l, NEW it, l \in Seq(Blocks), ItemOK(l, it)
    PROVE  /\ Items(l, it) \in Seq(Pairs) /\ Len(Items(l, it)) = Len(l)
           /\ \A i \in 1..Len(l) : Items(l, it)[i] = it[l[i]]
<1>1. \A i \in 1..Len(l) : it[l[i]] \in Pairs /\ Len(l) \in Nat
      BY DEF ItemOK, Occurs, Pairs
<1> QED
    BY <1>1 DEF Items

\* Two contents of the list's blocks that differ in block b at most.
SameBut(jt, it, b) == \A x \in Blocks : x # b => jt[x] = it[x]

\* A node of the list moves to the front and may get another value.
LEMMA ItemsToFront ==
    ASSUME NEW l, NEW it, NEW i, NEW jt, l \in Seq(Blocks), ItemOK(l, it), Once(l),
           i \in 1..Len(l), ItemOK(ToFront(l[i], l, i), jt),
           SameBut(jt, it, l[i])
    PROVE  Items(ToFront(l[i], l, i), jt) = ToFront(jt[l[i]], Items(l, it), i)
<1> DEFINE n == ToFront(l[i], l, i)
           r == Items(l, it)
           e == jt[l[i]]
<1>0. l[i] \in Blocks /\ Len(l) \in Nat /\ Len(l) > 0
      OBVIOUS
<1>1. /\ n \in Seq(Blocks) /\ Len(n) = Len(l) /\ n[1] = l[i]
      /\ \A j \in 2..Len(l) : n[j] = IF j <= i THEN l[j - 1] ELSE l[j]
      BY <1>0, ToFrontIs
<1>2. r \in Seq(Pairs) /\ Len(r) = Len(l) /\ \A j \in 1..Len(l) : r[j] = it[l[j]]
      BY ItemsIs
<1>3. Items(n, jt) \in Seq(Pairs) /\ Len(Items(n, jt)) = Len(l)
      /\ \A j \in 1..Len(l) : Items(n, jt)[j] = jt[n[j]]
      BY <1>1, ItemsIs
<1>4. 1 \in 1..Len(l) /\ Items(n, jt)[1] = e
      BY <1>0, <1>1, <1>3
<1>5. e \in Pairs
      BY <1>3, <1>4
<1>6. /\ ToFront(e, r, i) \in Seq(Pairs) /\ Len(ToFront(e, r, i)) = Len(l)
      /\ ToFront(e, r, i)[1] = e
      /\ \A j \in 2..Len(l) : ToFront(e, r, i)[j] = IF j <= i THEN r[j - 1] ELSE r[j]
      BY <1>2, <1>5, ToFrontIs
<1> HIDE DEF n, r, e
<1>7. ASSUME NEW j \in 2..Len(l) PROVE Items(n, jt)[j] = ToFront(e, r, i)[j]
  <2> DEFINE m == IF j <= i THEN j - 1 ELSE j
  <2>1. m \in 1..Len(l) /\ m # i /\ n[j] = l[m] /\ ToFront(e, r, i)[j] = r[m]
        BY <1>0, <1>1, <1>6
  <2> HIDE DEF m
  <2>2. l[m] # l[i] /\ l[m] \in Blocks
        BY <2>1 DEF Once
  <2> QED
      BY <1>2, <1>3, <2>1, <2>2 DEF SameBut
<1>8. \A j \in 1..Len(l) : Items(n, jt)[j] = ToFront(e, r, i)[j]
      BY <1>4, <1>6, <1>7
<1>9. Items(n, jt) = ToFront(e, r, i)
      BY <1>3, <1>6, <1>8, SeqEqual
<1> QED
    BY <1>9 DEF n, r, e

\* A new node at the front.
LEMMA ItemsCons ==
    ASSUME NEW l, NEW it, NEW h, NEW jt, NEW e, l \in Seq(Blocks), ItemOK(l, it),
           h \in Blocks, ~Occurs(h, l), e \in Pairs, jt = [it EXCEPT ![h] = e]
    PROVE  Items(<<h>> \o l, jt) = <<e>> \o Items(l, it)
<1> DEFINE n == <<h>> \o l
           r == Items(l, it)
<1>1. /\ n \in Seq(Blocks) /\ Len(n) = Len(l) + 1 /\ n[1] = h
      /\ \A j \in 1..Len(l) : n[j + 1] = l[j]
      /\ \A b : Occurs(b, n) <=> b = h \/ Occurs(b, l)
      BY ConsIs
<1>2. r \in Seq(Pairs) /\ Len(r) = Len(l) /\ \A j \in 1..Len(l) : r[j] = it[l[j]]
      BY ItemsIs
<1> DEFINE s == <<e>> \o r
<1>3. /\ s \in Seq(Pairs) /\ Len(s) = Len(r) + 1 /\ s[1] = e
      /\ \A j \in 1..Len(r) : s[j + 1] = r[j]
      BY <1>2, ConsIs
<1>4. jt[h] = e /\ \A b \in Blocks : b # h => jt[b] = it[b]
      BY DEF ItemOK
<1>5. ItemOK(n, jt)
      BY <1>1 DEF ItemOK, Pairs
<1> HIDE DEF n, r, s
<1> DEFINE q == Items(n, jt)
<1>6. q \in Seq(Pairs) /\ Len(q) = Len(n) /\ \A j \in 1..Len(n) : q[j] = jt[n[j]]
      BY <1>1, <1>5, ItemsIs, ZenonT(30)
<1> HIDE DEF q
<1>7. \A j \in 1..Len(l) : q[j + 1] = s[j + 1]
  <2> SUFFICES ASSUME NEW j \in 1..Len(l) PROVE q[j + 1] = s[j + 1]
      OBVIOUS
  <2>1. l[j] # h /\ l[j] \in Blocks /\ j + 1 \in 1..Len(n)
        BY <1>1 DEF Occurs
  <2> QED
      BY <1>1, <1>2, <1>3, <1>4, <1>6, <2>1, SMTT(30)
<1>8. Len(l) \in Nat /\ q[1] = s[1]
      BY <1>1, <1>3, <1>4, <1>6
<1>9. ASSUME NEW j \in 1..Len(l) + 1 PROVE q[j] = s[j]
  <2>1. CASE j = 1
        BY <1>8, <2>1
  <2>2. CASE j # 1
    <3>1. j - 1 \in 1..Len(l) /\ (j - 1) + 1 = j
          BY <1>8, <2>2
    <3> QED
        BY <1>7, <3>1
  <2> QED
      BY <2>1, <2>2
<1>10. q = s
      BY <1>1, <1>2, <1>3, <1>6, <1>9, SeqEqual
<1> QED
    BY <1>10 DEF n, r, q, s

LEMMA ItemsFront ==
    ASSUME NEW l, NEW it, l \in Seq(Blocks), ItemOK(l, it), Len(l) > 0
    PROVE  Items(Front(l), it) = Front(Items(l, it)) /\ ItemOK(Front(l), it)
<1> DEFINE f == Front(l)
           r == Items(l, it)
           g == Front(r)
           q == Items(f, it)
<1>1. /\ f \in Seq(Blocks) /\ Len(f) = Len(l) - 1
      /\ \A j \in 1..Len(l) - 1 : f[j] = l[j]
      /\ \A b : Occurs(b, f) => Occurs(b, l)
      BY FrontIs
<1>2. ItemOK(f, it)
      BY <1>1 DEF ItemOK
<1>3. r \in Seq(Pairs) /\ Len(r) = Len(l) /\ \A i \in 1..Len(l) : r[i] = it[l[i]]
      BY ItemsIs
<1> HIDE DEF f, r
<1>4. q \in Seq(Pairs) /\ Len(q) = Len(f) /\ \A i \in 1..Len(f) : q[i] = it[f[i]]
      BY <1>1, <1>2, ItemsIs
<1>5. /\ g \in Seq(Pairs) /\ Len(g) = Len(r) - 1
      /\ \A j \in 1..Len(r) - 1 : g[j] = r[j]
      BY <1>3, FrontIs
<1> HIDE DEF g, q
<1>6. ASSUME NEW j \in 1..Len(q) PROVE q[j] = g[j]
  <2>1. j \in 1..Len(l) - 1 /\ j \in 1..Len(l) /\ Len(l) \in Nat
        BY <1>1, <1>4
  <2> QED
      BY <1>1, <1>3, <1>4, <1>5, <2>1, SMTT(30)
<1>7. q = g
      BY <1>1, <1>3, <1>4, <1>5, <1>6, SeqEqual
<1> QED
    BY <1>2, <1>7 DEF f, r, g, q

\* What the invariant says of the mapping.
LEMMA RecentIs ==
    ASSUME CInv
    PROVE  /\ Items(list, item) \in Seq(Pairs) /\ Len(Items(list, item)) = Len(list)
           /\ \A i \in 1..Len(list) : Items(list, item)[i] = item[list[i]]
BY ItemsIs DEF CInv, ListOK

\* The positions of k in the mapping are those of its node.
LEMMA AtIs ==
    ASSUME CInv, NEW k
    PROVE  /\ Lru!At(k) = {i \in 1..Len(list) : item[list[i]][1] = k}
           /\ k \notin DOMAIN map => Lru!At(k) = {}
<1>1. Lru!At(k) = {i \in 1..Len(Items(list, item)) : Items(list, item)[i][1] = k}
      BY DEF Lru!At, Items
<1>2. Lru!At(k) = {i \in 1..Len(list) : item[list[i]][1] = k}
      BY <1>1, RecentIs
<1>3. ASSUME NEW i \in 1..Len(list) PROVE item[list[i]][1] \in DOMAIN map
  <2>1. list[i] \in Blocks /\ Occurs(list[i], list)
        BY DEF CInv, ListOK, Occurs
  <2> QED
      BY <2>1 DEF CInv, MapOK
<1> QED
    BY <1>2, <1>3

\* LeastRecentlyUsed has its own instances of the sequence operators.
LEMMA LruSame ==
    /\ \A s, i : Lru!RemoveAt(s, i) = RemoveAt(s, i)
    /\ \A s : Lru!Front(s) = Front(s)
BY DEF Lru!RemoveAt, RemoveAt, Lru!Front, Front

LEMMA HitRefines == ASSUME CInv, NEW k \in Keys, GetHit(k) PROVE Lru!Hit(k)
<1>1. PICK i \in 1..Len(list) : list[i] = map[k].at /\ list' = ToFront(list[i], list, i)
      BY HitKeeps
<1>2. /\ item' = item /\ item[list[i]][1] = k /\ answer' = item[list[i]][2]
      BY <1>1 DEF GetHit, CInv, MapOK
<1>3. Items(list', item') = ToFront(item[list[i]], Items(list, item), i)
  <2>1. ItemOK(ToFront(list[i], list, i), item)
        BY <1>1, <1>2, HitKeeps DEF CInv
  <2>2. /\ list \in Seq(Blocks) /\ ItemOK(list, item) /\ Once(list)
        BY DEF CInv, ListOK
  <2>3. Items(ToFront(list[i], list, i), item)
            = ToFront(item[list[i]], Items(list, item), i)
    <3>1. SameBut(item, item, list[i])
          BY DEF SameBut
    <3> QED
        BY <2>1, <2>2, <3>1, ItemsToFront
  <2> QED
      BY <1>1, <1>2, <2>3
<1>4. i \in Lru!At(k) /\ item[list[i]] = Items(list, item)[i]
      BY <1>2, AtIs, RecentIs
<1>5. /\ answer' = Items(list, item)[i][2]
      /\ Items(list, item)' = <<Items(list, item)[i]>> \o RemoveAt(Items(list, item), i)
      BY <1>2, <1>3, <1>4 DEF ToFront, Items
<1> QED
    BY <1>4, <1>5, LruSame DEF Lru!Hit, Items

LEMMA UpdateRefines ==
    ASSUME CInv, NEW k \in Keys, NEW v \in Values, PutUpdate(k, v) PROVE Lru!Renew(k, v)
<1>1. PICK i \in 1..Len(list) : list[i] = map[k].at /\ list' = ToFront(list[i], list, i)
      BY UpdateKeeps
<1>0. /\ list \in Seq(Blocks) /\ ItemOK(list, item) /\ Once(list) /\ list[i] \in Blocks
      BY DEF CInv, ListOK
<1>2. /\ item' = [item EXCEPT ![list[i]] = <<k, v>>] /\ item[list[i]][1] = k
      /\ answer' = NoValue
      BY <1>1 DEF PutUpdate, CInv, MapOK
<1>3. item'[list[i]] = <<k, v>> /\ \A b \in Blocks : b # list[i] => item'[b] = item[b]
      BY <1>0, <1>2 DEF ItemOK
<1>4. Items(list', item') = ToFront(<<k, v>>, Items(list, item), i)
  <2>1. ItemOK(ToFront(list[i], list, i), item')
        BY <1>1, UpdateKeeps DEF CInv
  <2>2. SameBut(item', item, list[i])
        BY <1>3 DEF SameBut
  <2>3. Items(ToFront(list[i], list, i), item')
            = ToFront(item'[list[i]], Items(list, item), i)
        BY <1>0, <2>1, <2>2, ItemsToFront
  <2> QED
      BY <1>1, <1>3, <2>3
<1>5. i \in Lru!At(k)
      BY <1>2, AtIs
<1>6. Items(list, item)' = <<<<k, v>>>> \o RemoveAt(Items(list, item), i)
      BY <1>4 DEF ToFront, Items
<1> QED
    BY <1>2, <1>5, <1>6, LruSame DEF Lru!Renew, Items

LEMMA NewRefines ==
    ASSUME CInv, NEW k \in Keys, NEW v \in Values, PutNew(k, v) PROVE Lru!Add(k, v)
<1>1. PICK h \in Blocks : /\ ~Occurs(h, list) /\ list' = <<h>> \o list
                          /\ item' = [item EXCEPT ![h] = <<k, v>>]
      BY NewKeeps
<1>2. list \in Seq(Blocks) /\ ItemOK(list, item) /\ <<k, v>> \in Pairs
      BY DEF CInv, ListOK, Pairs
<1>3. Items(list', item') = <<<<k, v>>>> \o Items(list, item)
      BY <1>1, <1>2, ItemsCons, ZenonT(30)
<1>4. Len(Items(list, item)) < Capacity
  <2>1. Len(list) < Capacity
        BY CacheAssumption DEF PutNew, Full, CInv, ListOK
  <2> QED
      BY <2>1, RecentIs
<1>5. Lru!At(k) = {} /\ answer' = NoValue
      BY AtIs, NewKeeps DEF PutNew
<1>6. Items(list, item)' = <<<<k, v>>>> \o
        IF Len(Items(list, item)) < Capacity THEN Items(list, item) ELSE Front(Items(list, item))
      BY <1>3, <1>4 DEF Items
<1> QED
    BY <1>5, <1>6, LruSame DEF Lru!Add, Items

LEMMA EvictRefines ==
    ASSUME CInv, NEW k \in Keys, NEW v \in Values, PutEvict(k, v) PROVE Lru!Add(k, v)
<1> DEFINE f == Front(list)
<1>1. PICK h \in Blocks : /\ ~Occurs(h, f) /\ list' = <<h>> \o f
                          /\ item' = [item EXCEPT ![h] = <<k, v>>]
      BY EvictKeeps
<1>2. /\ list \in Seq(Blocks) /\ ItemOK(list, item) /\ <<k, v>> \in Pairs
      /\ Len(list) > 0 /\ Len(list) = Capacity
      BY CacheAssumption DEF CInv, ListOK, Pairs, PutEvict, Full
<1>3. Items(f, item) = Front(Items(list, item)) /\ ItemOK(f, item) /\ f \in Seq(Blocks)
      BY <1>2, ItemsFront, FrontIs
<1> HIDE DEF f
<1>4. Items(list', item') = <<<<k, v>>>> \o Items(f, item)
      BY <1>1, <1>2, <1>3, ItemsCons, ZenonT(30)
<1>5. ~(Len(Items(list, item)) < Capacity)
      BY <1>2, RecentIs
<1>6. Lru!At(k) = {} /\ answer' = NoValue
      BY AtIs, EvictKeeps DEF PutEvict
<1>7. Items(list, item)' = <<<<k, v>>>> \o
        IF Len(Items(list, item)) < Capacity THEN Items(list, item) ELSE Front(Items(list, item))
      BY <1>3, <1>4, <1>5 DEF Items
<1> QED
    BY <1>6, <1>7, LruSame DEF Lru!Add, Items

LEMMA CacheStepRefines ==
    ASSUME CInv, [CacheNext]_cacheVars PROVE [Lru!Next]_(Lru!vars)
<1>1. ASSUME NEW k \in Keys, GetMiss(k) PROVE Lru!Miss(k)
  <2>1. Lru!At(k) = {} /\ answer' = NoValue /\ list' = list /\ item' = item
        BY <1>1, AtIs DEF GetMiss
  <2> QED
      BY <2>1 DEF Lru!Miss
<1>2. CASE UNCHANGED cacheVars
      BY <1>2 DEF cacheVars, Lru!vars
<1> QED
    BY <1>1, <1>2, HitRefines, UpdateRefines, NewRefines, EvictRefines DEF CacheNext, Lru!Next

\* get and put implement least recently used: every call is a step of
\* LeastRecentlyUsed on the items of the list.
THEOREM CacheIsLeastRecentlyUsed == CacheSpec => CacheKeepsMostRecent
<1>1. CacheInit => CInv
      BY CacheStarts
<1>2. CInv /\ [CacheNext]_cacheVars => CInv'
      BY CacheStep
<1>3. CacheInit => Lru!Init
      BY DEF CacheInit, Lru!Init
<1>4. CInv /\ [CacheNext]_cacheVars => [Lru!Next]_(Lru!vars)
      BY CacheStepRefines
<1> QED
    BY <1>1, <1>2, <1>3, <1>4, PTL DEF CacheSpec, CacheKeepsMostRecent, Lru!Spec

-----------------------------------------------------------------------------
(* QOI: what the invariant says *)

\* A run, the bytes that stand for a pixel, and the end of the file.
Same(p, n) == [i \in 1..n |-> p]
Code(c) == IF colorHistory[hash(c)] = c THEN <<hash(c)>> ELSE Coded(c, px)
EndMarker == <<0, 0, 0, 0, 0, 0, 0, 1>>

\* The registers hold pixels; a run that is written at once has 62.
QTypeOK ==
    /\ prevPixel \in Pixel /\ px \in Pixel
    /\ history \in [0..63 -> Pixel] /\ colorHistory \in [0..63 -> Pixel]
    /\ runLength \in 0..61
    /\ finished \in BOOLEAN

\* The decoder has caught up with the compressor.
Agree == px = prevPixel /\ colorHistory = history

\* The four states the two can be in between rounds: only the current run is
\* still to be drawn;
Settled == stream = <<>> /\ todo = Same(px, runLength) /\ Agree

\* a full run has been written;
FullRun == stream = Run(62) /\ todo = Same(px, 62) /\ runLength = 0 /\ Agree /\ ~finished

\* a pixel has been written, and before it the run it ended;
Fed == /\ \E n \in 0..61 : /\ stream = Run(n) \o Code(prevPixel)
                           /\ todo = Append(Same(px, n), prevPixel)
       /\ runLength = 0
       /\ history = [colorHistory EXCEPT ![hash(prevPixel)] = prevPixel]
       /\ ~finished

\* the end marker has been written, and before it the last run.
Ended == /\ finished /\ runLength = 0 /\ Agree
         /\ \E n \in 0..61 : stream = Run(n) \o EndMarker /\ todo = Same(px, n)

\* Why the tables agree: the last pixel drawn is in the decoder's table, so that
\* storing it again for a run changes nothing.
QInv == /\ QTypeOK
        /\ colorHistory[hash(px)] = px
        /\ drawn = due
        /\ Settled \/ FullRun \/ Fed \/ Ended

\* The index is one of the table.
LEMMA HashInTable ==
    ASSUME NEW p \in Pixel
    PROVE  hash(p) \in 0..63
<1>1. /\ p.r \in Int /\ p.g \in Int /\ p.b \in Int /\ p.a \in Int
  BY DEF Pixel
<1>2. \A n \in Int : n % 64 \in 0..63
  OBVIOUS
<1>3. p.r * 3 + p.g * 5 + p.b * 7 + p.a * 11 \in Int
  BY <1>1
<1> QED
  BY <1>2, <1>3 DEF hash

\* The difference of two bytes as an int8_t.
LEMMA Int8Undone ==
    ASSUME NEW c \in 0..255, NEW p \in 0..255
    PROVE  /\ Int8(c - p) \in -128..127
           /\ Add(p, Int8(c - p)) = c
BY DEF Int8, Add

\* What each kind of first byte makes the decoder read.
LEMMA DecodedRgb ==
    ASSUME NEW s, s[1] = 254
    PROVE  Decoded(s) = Rgb(s[2], s[3], s[4])
BY DEF Decoded

LEMMA DecodedRgba ==
    ASSUME NEW s, s[1] = 255
    PROVE  Decoded(s) = [r |-> s[2], g |-> s[3], b |-> s[4], a |-> s[5]]
BY DEF Decoded

LEMMA DecodedIndex ==
    ASSUME NEW s, s[1] \in 0..63
    PROVE  Decoded(s) = colorHistory[s[1]]
BY DEF Decoded

LEMMA DecodedDiff ==
    ASSUME NEW s, s[1] \in 64..127
    PROVE  Decoded(s) = Rgb(Add(px.r, ((s[1] \div 16) % 4) - 2),
                            Add(px.g, ((s[1] \div 4) % 4) - 2),
                            Add(px.b, (s[1] % 4) - 2))
BY DEF Decoded

LEMMA DecodedLuma ==
    ASSUME NEW s, s[1] \in 128..191
    PROVE  Decoded(s) = Rgb(Add(px.r, (s[1] % 64) - 32 - 8 + (s[2] \div 16)),
                            Add(px.g, (s[1] % 64) - 32),
                            Add(px.b, (s[1] % 64) - 32 - 8 + (s[2] % 16)))
BY DEF Decoded

LEMMA DecodedRun ==
    ASSUME NEW s, s[1] \in 192..253
    PROVE  Decoded(s) = px
BY DEF Decoded

\* Alpha is only left out where it is that of the last pixel.
LEMMA RgbIs ==
    ASSUME QTypeOK, NEW c \in Pixel, c.a = px.a
    PROVE  Rgb(c.r, c.g, c.b) = c
BY ZenonT(30) DEF Rgb, Pixel, QTypeOK

\* QOI_OP_DIFF: three differences of two bits each.
LEMMA DiffRead ==
    ASSUME QTypeOK, NEW c \in Pixel, c.a = px.a, NEW dr, NEW dg, NEW db, NEW b,
           dr = Int8(c.r - px.r), dg = Int8(c.g - px.g), db = Int8(c.b - px.b),
           Small(dr), Small(dg), Small(db),
           b = 64 + (dr + 2) * 16 + (dg + 2) * 4 + db + 2
    PROVE  Decoded(<<b>>) = c /\ b \in 64..127
<1>1. /\ dr \in -2..1 /\ dg \in -2..1 /\ db \in -2..1
  BY DEF Small
<1>3. /\ px.r \in 0..255 /\ px.g \in 0..255 /\ px.b \in 0..255
      /\ c.r \in 0..255 /\ c.g \in 0..255 /\ c.b \in 0..255
  BY ZenonT(30) DEF QTypeOK, Pixel
<1>4. Add(px.r, dr) = c.r /\ Add(px.g, dg) = c.g /\ Add(px.b, db) = c.b
  BY <1>3, Int8Undone
<1>5. /\ b \in 64..127
      /\ ((b \div 16) % 4) - 2 = dr
      /\ ((b \div 4) % 4) - 2 = dg
      /\ (b % 4) - 2 = db
  BY ONLY <1>1, b = 64 + (dr + 2) * 16 + (dg + 2) * 4 + db + 2
<1>6. Decoded(<<b>>) = Rgb(Add(px.r, dr), Add(px.g, dg), Add(px.b, db))
  BY <1>5, DecodedDiff
<1> QED
  BY <1>4, <1>5, <1>6, RgbIs

\* A byte, and a difference of two.
Unsigned(p) == p \in 0..255
Signed(d) == d \in -128..127

\* A difference to a difference, in eight bits, adds up.
LEMMA Relative ==
    ASSUME NEW p, NEW d, NEW g, Unsigned(p), Signed(d), Signed(g)
    PROVE  Add(p, g + Int8(d - g)) = Add(p, d)
<1>0. p \in 0..255 /\ d \in -128..127 /\ g \in -128..127
  BY DEF Unsigned, Signed
<1>1. Int8(d - g) = d - g \/ Int8(d - g) = d - g - 256 \/ Int8(d - g) = d - g + 256
  BY <1>0, SMTT(30) DEF Int8
<1>2. g + Int8(d - g) \in {d, d - 256, d + 256}
  BY <1>0, <1>1
<1>3. (p + d) % 256 = (p + (d - 256)) % 256 /\ (p + d) % 256 = (p + (d + 256)) % 256
  BY <1>0, SMTT(30)
<1> QED
  BY <1>2, <1>3, SMTT(30) DEF Add

\* QOI_OP_LUMA: green in six bits, red and blue relative to it in four.
LEMMA LumaRead ==
    ASSUME QTypeOK, NEW c \in Pixel, c.a = px.a,
           NEW dr, NEW dg, NEW db, NEW rg, NEW bg, NEW b, NEW e,
           dr = Int8(c.r - px.r), dg = Int8(c.g - px.g), db = Int8(c.b - px.b),
           rg = Int8(dr - dg), bg = Int8(db - dg),
           dg \in -32..31, rg \in -8..7, bg \in -8..7,
           b = 128 + dg + 32, e = (rg + 8) * 16 + bg + 8
    PROVE  Decoded(<<b, e>>) = c /\ b \in 128..191
<1>3. /\ px.r \in 0..255 /\ px.g \in 0..255 /\ px.b \in 0..255
      /\ c.r \in 0..255 /\ c.g \in 0..255 /\ c.b \in 0..255
  BY ZenonT(30) DEF QTypeOK, Pixel
<1>4. /\ Add(px.r, dr) = c.r /\ Add(px.g, dg) = c.g /\ Add(px.b, db) = c.b
      /\ dr \in -128..127 /\ dg \in -128..127 /\ db \in -128..127
  <2>1. Int8(c.r - px.r) \in -128..127 /\ Add(px.r, Int8(c.r - px.r)) = c.r
    BY <1>3, Int8Undone, ZenonT(30)
  <2>2. Int8(c.g - px.g) \in -128..127 /\ Add(px.g, Int8(c.g - px.g)) = c.g
    BY <1>3, Int8Undone, ZenonT(30)
  <2>3. Int8(c.b - px.b) \in -128..127 /\ Add(px.b, Int8(c.b - px.b)) = c.b
    BY <1>3, Int8Undone, ZenonT(30)
  <2> QED
    BY <2>1, <2>2, <2>3, Zenon
<1>5. Add(px.r, dg + rg) = c.r /\ Add(px.b, dg + bg) = c.b
  <2>1. /\ Add(px.r, dg + Int8(dr - dg)) = Add(px.r, dr)
        /\ Add(px.b, dg + Int8(db - dg)) = Add(px.b, db)
    <3>0. /\ Unsigned(px.r) /\ Unsigned(px.b)
          /\ Signed(dr) /\ Signed(dg) /\ Signed(db)
      BY <1>3, <1>4, Zenon DEF Unsigned, Signed
    <3>1. Add(px.r, dg + Int8(dr - dg)) = Add(px.r, dr)
      BY ONLY <3>0, Relative
    <3>2. Add(px.b, dg + Int8(db - dg)) = Add(px.b, db)
      BY ONLY <3>0, Relative
    <3> QED
      BY <3>1, <3>2
  <2> QED
    BY <2>1, <1>4
<1>6. /\ b \in 128..191 /\ e \in 0..255
      /\ (b % 64) - 32 = dg
      /\ (b % 64) - 32 - 8 + (e \div 16) = dg + rg
      /\ (b % 64) - 32 - 8 + (e % 16) = dg + bg
  BY ONLY dg \in -32..31, rg \in -8..7, bg \in -8..7,
          b = 128 + dg + 32, e = (rg + 8) * 16 + bg + 8
<1>7. Decoded(<<b, e>>) = Rgb(Add(px.r, dg + rg), Add(px.g, dg), Add(px.b, dg + bg))
  <2> DEFINE s == <<b, e>>
  <2>1. s[1] = b /\ s[2] = e
    OBVIOUS
  <2> HIDE DEF s
  <2>2. Decoded(s) = Rgb(Add(px.r, (s[1] % 64) - 32 - 8 + (s[2] \div 16)),
                         Add(px.g, (s[1] % 64) - 32),
                         Add(px.b, (s[1] % 64) - 32 - 8 + (s[2] % 16)))
    BY <1>6, <2>1, DecodedLuma, ZenonT(30)
  <2>3. Decoded(s) = Rgb(Add(px.r, dg + rg), Add(px.g, dg), Add(px.b, dg + bg))
    BY ONLY <1>6, <2>1, <2>2
  <2> QED
    BY <2>3, Zenon DEF s
<1> QED
  BY <1>4, <1>5, <1>6, <1>7, RgbIs, ZenonT(30)

\* The bytes of a pixel are read back as that pixel, and the decoder takes
\* exactly those bytes.
LEMMA CodeRead ==
    ASSUME QTypeOK, NEW c \in Pixel
    PROVE  /\ Code(c) \in Seq(Int) /\ Code(c) # <<>>
           /\ Decoded(Code(c)) = c
           /\ Count(Head(Code(c))) = 1
           /\ Bytes(Head(Code(c))) = Len(Code(c))
<1> DEFINE dr == Int8(c.r - px.r)
           dg == Int8(c.g - px.g)
           db == Int8(c.b - px.b)
           rg == Int8(dr - dg)
           bg == Int8(db - dg)
           small == Small(dr) /\ Small(dg) /\ Small(db)
           luma == dg \in -32..31 /\ rg \in -8..7 /\ bg \in -8..7
<1>1. c.r \in Int /\ c.g \in Int /\ c.b \in Int /\ c.a \in Int
  <2>1. \A p \in Pixel : p.r \in Int /\ p.g \in Int /\ p.b \in Int /\ p.a \in Int
    BY DEF Pixel
  <2> QED
    BY <2>1
<1>2. CASE colorHistory[hash(c)] = c
  <2>1. Code(c) = <<hash(c)>>
    BY <1>2 DEF Code
  <2>2. hash(c) \in 0..63
    BY HashInTable
  <2>3. Decoded(<<hash(c)>>) = c
    BY <1>2, <2>2, DecodedIndex
  <2> QED
    BY <2>1, <2>2, <2>3 DEF Count, Bytes
<1>3. CASE colorHistory[hash(c)] # c /\ c.a # px.a
  <2>1. Code(c) = <<255, c.r, c.g, c.b, c.a>>
    BY <1>3 DEF Code, Coded
  <2> DEFINE s == <<255, c.r, c.g, c.b, c.a>>
  <2>2. Decoded(s) = [r |-> c.r, g |-> c.g, b |-> c.b, a |-> c.a]
    BY DecodedRgba
  <2>3. Decoded(s) = c
    BY <2>2 DEF Pixel
  <2> QED
    BY <1>1, <2>1, <2>3 DEF Count, Bytes
<1>4. CASE colorHistory[hash(c)] # c /\ c.a = px.a /\ small
  <2> DEFINE b == 64 + (dr + 2) * 16 + (dg + 2) * 4 + db + 2
  <2>1. Code(c) = <<b>>
    BY <1>4 DEF Code, Coded
  <2>2. Decoded(<<b>>) = c /\ b \in 64..127
    BY <1>4, DiffRead
  <2> HIDE DEF b
  <2> QED
    BY <2>1, <2>2 DEF Count, Bytes
<1>5. CASE colorHistory[hash(c)] # c /\ c.a = px.a /\ ~small /\ luma
  <2> DEFINE b == 128 + dg + 32
             e == (rg + 8) * 16 + bg + 8
  <2>1. Code(c) = <<b, e>>
    BY <1>5 DEF Code, Coded
  <2>2. Decoded(<<b, e>>) = c /\ b \in 128..191
    BY <1>5, LumaRead
  <2>3. e \in Int
    BY <1>5
  <2> HIDE DEF b, e
  <2> QED
    BY <2>1, <2>2, <2>3 DEF Count, Bytes
<1>6. CASE colorHistory[hash(c)] # c /\ c.a = px.a /\ ~small /\ ~luma
  <2>1. Code(c) = <<254, c.r, c.g, c.b>>
    BY <1>6, ZenonT(30) DEF Code, Coded
  <2> DEFINE s == <<254, c.r, c.g, c.b>>
  <2>2. Decoded(s) = Rgb(c.r, c.g, c.b)
    BY DecodedRgb
  <2>3. Decoded(s) = c
    BY <1>6, <2>2, RgbIs
  <2> QED
    BY <1>1, <2>1, <2>3 DEF Count, Bytes
<1> QED
  BY <1>2, <1>3, <1>4, <1>5, <1>6

\* The byte of a run is read back as its length.
LEMMA RunRead ==
    ASSUME NEW n \in 1..62, NEW s \in Seq(Int), NEW w, w = Run(n) \o s
    PROVE  /\ w \in Seq(Int) /\ w # <<>>
           /\ Decoded(w) = px
           /\ Count(Head(w)) = n
           /\ Bytes(Head(w)) = 1
           /\ SubSeq(w, 2, Len(w)) = s
<1>1. w = <<191 + n>> \o s
  BY DEF Run
<1>2. /\ w \in Seq(Int) /\ w # <<>> /\ w[1] = 191 + n /\ Head(w) = 191 + n
      /\ SubSeq(w, 2, Len(w)) = s
  BY <1>1
<1>3. Decoded(w) = px
  <2>1. w[1] \in 192..253
    BY <1>2
  <2> QED
    BY <2>1, DecodedRun
<1>4. Count(191 + n) = n /\ Bytes(191 + n) = 1
  <2>1. 191 + n \in 192..253 /\ (191 + n) % 64 = n - 1
    BY ONLY n \in 1..62
  <2>2. Count(191 + n) = n
    BY <2>1 DEF Count
  <2>3. 191 + n # 254 /\ 191 + n # 255 /\ 191 + n \notin 128..191
    BY ONLY n \in 1..62
  <2> DEFINE b == 191 + n
  <2> HIDE DEF b
  <2>4. Bytes(b) = 1
    BY <2>3 DEF Bytes, b
  <2> QED
    BY <2>2, <2>4 DEF b
<1> QED
  BY <1>2, <1>3, <1>4

LEMMA JoinNotEmpty ==
    ASSUME NEW s, NEW t, s \in Seq(Int), t \in Seq(Int), t # <<>>
    PROVE  s \o t # <<>>
OBVIOUS

LEMMA SameGrows ==
    ASSUME NEW p, NEW n, n \in Nat
    PROVE  Append(Same(p, n), p) = Same(p, n + 1)
BY DEF Same

LEMMA SameWhole ==
    ASSUME NEW p, NEW n, n \in Nat
    PROVE  /\ Len(Same(p, n)) = n
           /\ SubSeq(Same(p, n), 1, n) = Same(p, n)
           /\ SubSeq(Same(p, n), n + 1, n) = <<>>
<1>1. Same(p, n) \in Seq({p}) /\ Len(Same(p, n)) = n
  BY DEF Same
<1> QED
  BY <1>1

LEMMA OneParts ==
    ASSUME NEW q, NEW t, t = <<q>>
    PROVE  Len(t) = 1 /\ SubSeq(t, 1, 1) = t /\ SubSeq(t, 2, 1) = <<>>
<1>1. t \in Seq({q}) /\ Len(t) = 1
  OBVIOUS
<1> QED
  BY ONLY <1>1

-----------------------------------------------------------------------------
(* The codec: the invariant is kept *)

LEMMA InitQInv == QoiInit => QInv
<1> SUFFICES ASSUME QoiInit
             PROVE  QInv
  OBVIOUS
<1>1. Black \in Pixel
  BY DEF Black, Pixel
<1>2. hash(Black) \in 0..63
  BY <1>1, HashInTable
<1>3. QTypeOK
  <2>1. [i \in 0..63 |-> Black] \in [0..63 -> Pixel]
    BY <1>1
  <2>2. runLength \in 0..61
    BY DEF QoiInit
  <2> QED
    BY <1>1, <2>1, <2>2, Zenon DEF QoiInit, QTypeOK
<1>4. colorHistory[hash(px)] = px
  BY <1>2 DEF QoiInit
<1>5. Settled
  <2>1. Same(px, 0) = <<>>
    BY DEF Same
  <2> QED
    BY <2>1, Zenon DEF QoiInit, Settled, Agree
<1> QED
  BY <1>3, <1>4, <1>5 DEF QInv, QoiInit

\* Between two pixels the stream is used up, so the compressor starts from
\* Settled.
LEMMA IdleSettled ==
    ASSUME QInv, stream = <<>>
    PROVE  Settled
<1>1. ~FullRun
  BY DEF FullRun, Run
<1>2. ~Fed
  <2> SUFFICES ASSUME NEW n \in 0..61, stream = Run(n) \o Code(prevPixel)
               PROVE  FALSE
    BY DEF Fed
  <2>1. Code(prevPixel) \in Seq(Int) /\ Code(prevPixel) # <<>>
    BY CodeRead DEF QInv, QTypeOK
  <2>2. Run(n) \in Seq(Int)
    BY DEF Run
  <2> QED
    BY <2>1, <2>2, JoinNotEmpty
<1>3. ~Ended
  <2> SUFFICES ASSUME NEW n \in 0..61, stream = Run(n) \o EndMarker
               PROVE  FALSE
    BY DEF Ended
  <2>1. EndMarker \in Seq(Int) /\ EndMarker # <<>>
    BY DEF EndMarker
  <2>2. Run(n) \in Seq(Int)
    BY DEF Run
  <2> QED
    BY <2>1, <2>2, JoinNotEmpty
<1> QED
  BY <1>1, <1>2, <1>3 DEF QInv

\* A repetition lengthens the run, or writes it.
LEMMA RepeatQInv ==
    ASSUME QInv, Repeat
    PROVE  QInv'
<1>1. Settled /\ runLength \in 0..61 /\ ~finished
  BY IdleSettled DEF Repeat, QInv, QTypeOK
<1>2. QTypeOK'
  BY <1>1 DEF QInv, QTypeOK, Repeat, decoder, RunLimit
<1>3. colorHistory'[hash(px')] = px' /\ drawn' = due'
  BY DEF QInv, Repeat, decoder
<1>4. todo' = Same(px, runLength + 1) /\ px' = px /\ Agree' /\ ~finished'
  <2>1. Append(Same(px, runLength), px) = Same(px, runLength + 1)
    <3>1. runLength \in Nat
      BY <1>1
    <3> QED
      BY <3>1, SameGrows
  <2> QED
    BY <1>1, <2>1 DEF Settled, Repeat, Agree, decoder
<1>5. CASE runLength + 1 = 62
  <2>1. stream' = Run(62) /\ runLength' = 0
    BY <1>5 DEF Repeat, RunLimit
  <2> QED
    BY <1>2, <1>3, <1>4, <1>5, <2>1 DEF QInv, FullRun
<1>6. CASE runLength + 1 # 62
  <2>1. stream' = <<>> /\ runLength' = runLength + 1
    BY <1>1, <1>6 DEF Repeat, RunLimit
  <2> QED
    BY <1>2, <1>3, <1>4, <2>1 DEF QInv, Settled
<1> QED
  BY <1>5, <1>6

\* Another pixel is written behind the run it ends.
LEMMA FeedQInv ==
    ASSUME QInv, NEW c \in Pixels, Feed(c)
    PROVE  QInv'
<1>1. Settled /\ runLength \in 0..61 /\ c \in Pixel /\ hash(c) \in 0..63
  BY IdleSettled, QoiAssumption, HashInTable DEF Feed, QInv, QTypeOK
<1>2. QTypeOK'
  <2>1. history' \in [0..63 -> Pixel]
    BY <1>1 DEF QInv, QTypeOK, Feed
  <2>2. runLength' \in 0..61
    BY DEF Feed
  <2> QED
    BY <1>1, <2>1, <2>2, Zenon DEF QInv, QTypeOK, Feed, decoder
<1>3. colorHistory'[hash(px')] = px' /\ drawn' = due'
  BY DEF QInv, Feed, decoder
<1>4. px = prevPixel /\ colorHistory = history /\ px' = px /\ colorHistory' = colorHistory
  BY <1>1 DEF Settled, Agree, Feed, decoder
<1>5. Code(prevPixel)' = IF history[hash(c)] = c THEN <<hash(c)>> ELSE Coded(c, prevPixel)
  BY <1>4 DEF Feed, Code
<1>6. /\ stream' = Run(runLength) \o Code(prevPixel)'
      /\ todo' = Append(Same(px', runLength), prevPixel')
  BY <1>1, <1>4, <1>5 DEF Feed, Settled
<1>7. /\ history' = [colorHistory' EXCEPT ![hash(prevPixel')] = prevPixel']
      /\ runLength' = 0 /\ ~finished'
  BY <1>4 DEF Feed
<1>8. Fed'
  BY <1>1, <1>6, <1>7 DEF Fed
<1> QED
  BY <1>2, <1>3, <1>8 DEF QInv

\* The end marker is written behind the last run.
LEMMA FinishQInv ==
    ASSUME QInv, Finish
    PROVE  QInv'
<1>1. Settled /\ runLength \in 0..61
  BY IdleSettled DEF Finish, QInv, QTypeOK
<1>2. QTypeOK' /\ colorHistory'[hash(px')] = px' /\ drawn' = due'
  BY DEF QInv, QTypeOK, Finish, decoder
<1>3. Ended'
  BY <1>1 DEF Ended, Settled, Finish, Agree, decoder, EndMarker
<1> QED
  BY <1>2, <1>3 DEF QInv

\* A round that reads a run leaves the decoder's registers as they are.
LEMMA DecodeRun ==
    ASSUME QInv, Decode, NEW n, n \in 1..62, NEW s, s \in Seq(Int),
           stream = Run(n) \o s
    PROVE  /\ px' = px /\ colorHistory' = colorHistory
           /\ drawn' = Same(px, n)
           /\ due' = SubSeq(todo, 1, IF n < Len(todo) THEN n ELSE Len(todo))
           /\ todo' = SubSeq(todo, n + 1, Len(todo))
           /\ stream' = s
<1>1. /\ Decoded(stream) = px /\ Count(Head(stream)) = n
      /\ Bytes(Head(stream)) = 1 /\ SubSeq(stream, 2, Len(stream)) = s
  BY RunRead
<1>2. [colorHistory EXCEPT ![hash(px)] = px] = colorHistory
  BY DEF QInv, QTypeOK
<1>3. 1 + 1 = 2
  OBVIOUS
<1> QED
  BY <1>1, <1>2, <1>3, Zenon DEF Decode, Same

\* A round that reads the pixel under way leaves both sides with it.
LEMMA DecodeCode ==
    ASSUME QInv, Decode, Fed, stream = Code(prevPixel), todo = <<prevPixel>>
    PROVE  /\ px' = prevPixel
           /\ colorHistory' = [colorHistory EXCEPT ![hash(prevPixel)] = prevPixel]
           /\ drawn' = <<prevPixel>> /\ due' = <<prevPixel>>
           /\ todo' = <<>> /\ stream' = <<>>
<1>1. /\ stream \in Seq(Int) /\ Decoded(stream) = prevPixel
      /\ Count(Head(stream)) = 1 /\ Bytes(Head(stream)) = Len(stream)
  BY CodeRead DEF QInv, QTypeOK
<1>2. /\ drawn' = [i \in 1..1 |-> prevPixel]
      /\ due' = SubSeq(todo, 1, IF 1 < Len(todo) THEN 1 ELSE Len(todo))
      /\ todo' = SubSeq(todo, 2, Len(todo))
      /\ stream' = SubSeq(stream, Len(stream) + 1, Len(stream))
      /\ px' = prevPixel
      /\ colorHistory' = [colorHistory EXCEPT ![hash(prevPixel)] = prevPixel]
  BY <1>1, SMTT(30) DEF Decode
<1>3. [i \in 1..1 |-> prevPixel] = <<prevPixel>>
  OBVIOUS
<1>4. SubSeq(stream, Len(stream) + 1, Len(stream)) = <<>>
  BY <1>1
<1>5. Len(todo) = 1 /\ SubSeq(todo, 1, 1) = todo /\ SubSeq(todo, 2, 1) = <<>>
  BY OneParts
<1> QED
  BY <1>2, <1>3, <1>4, <1>5

\* A round of the decoder, for each kind of stream it can find.
LEMMA DecodeQInv ==
    ASSUME QInv, Decode
    PROVE  QInv'
<1>1. /\ prevPixel' = prevPixel /\ history' = history /\ runLength' = runLength
      /\ finished' = finished /\ stream # <<>> /\ todo # <<>>
  BY DEF Decode, encoder
<1>2. QTypeOK /\ prevPixel \in Pixel
  BY DEF QInv, QTypeOK
<1>3. ~Settled
  BY <1>1 DEF Settled
<1>4. CASE FullRun
  <2>1. stream = Run(62) \o <<>> /\ <<>> \in Seq(Int)
    BY <1>4 DEF FullRun, Run
  <2>2. /\ px' = px /\ colorHistory' = colorHistory /\ drawn' = Same(px, 62)
        /\ due' = SubSeq(todo, 1, IF 62 < Len(todo) THEN 62 ELSE Len(todo))
        /\ todo' = SubSeq(todo, 63, Len(todo)) /\ stream' = <<>>
    <3>1. PICK n \in 1..62 : n = 62
      OBVIOUS
    <3>2. /\ px' = px /\ colorHistory' = colorHistory /\ drawn' = Same(px, n)
          /\ due' = SubSeq(todo, 1, IF n < Len(todo) THEN n ELSE Len(todo))
          /\ todo' = SubSeq(todo, n + 1, Len(todo)) /\ stream' = <<>>
      BY <2>1, <3>1, DecodeRun
    <3> QED
      BY <3>1, <3>2
  <2>3. /\ Len(todo) = 62 /\ SubSeq(todo, 1, 62) = Same(px, 62)
        /\ SubSeq(todo, 63, 62) = <<>> /\ Same(px, 0) = <<>>
    <3>1. 62 \in Nat
      OBVIOUS
    <3>2. /\ Len(Same(px, 62)) = 62 /\ SubSeq(Same(px, 62), 1, 62) = Same(px, 62)
          /\ SubSeq(Same(px, 62), 62 + 1, 62) = <<>>
      BY <3>1, SameWhole, Zenon
    <3>3. Same(px, 0) = <<>>
      BY DEF Same
    <3> QED
      BY <1>4, <3>2, <3>3 DEF FullRun
  <2>4. drawn' = due' /\ todo' = Same(px, 0)
    BY <2>2, <2>3
  <2>5. QTypeOK' /\ colorHistory'[hash(px')] = px'
    BY <1>1, <2>2 DEF QInv, QTypeOK
  <2>6. Settled'
    BY <1>1, <1>4, <2>2, <2>4 DEF Settled, FullRun, Agree
  <2> QED
    BY <2>4, <2>5, <2>6 DEF QInv
<1>5. CASE Fed
  <2>1. PICK n \in 0..61 : /\ stream = Run(n) \o Code(prevPixel)
                           /\ todo = Append(Same(px, n), prevPixel)
    BY <1>5 DEF Fed
  <2>2. Code(prevPixel) \in Seq(Int)
    BY <1>2, CodeRead
  <2>3. CASE n = 0
    <3>1. stream = Code(prevPixel) /\ todo = <<prevPixel>>
      <4>1. Run(0) = <<>> /\ Append(Same(px, 0), prevPixel) = <<prevPixel>>
        BY DEF Run, Same
      <4> QED
        BY <2>1, <2>2, <2>3, <4>1
    <3>2. /\ px' = prevPixel
          /\ colorHistory' = [colorHistory EXCEPT ![hash(prevPixel)] = prevPixel]
          /\ drawn' = <<prevPixel>> /\ due' = <<prevPixel>>
          /\ todo' = <<>> /\ stream' = <<>>
      BY <1>5, <3>1, DecodeCode
    <3>3. history = [colorHistory EXCEPT ![hash(prevPixel)] = prevPixel] /\ runLength = 0
      BY <1>5 DEF Fed
    <3>4. Settled'
      BY <1>1, <3>2, <3>3 DEF Settled, Agree, Same
    <3>5. hash(prevPixel) \in 0..63
      BY <1>2, HashInTable
    <3>6. colorHistory' \in [0..63 -> Pixel] /\ colorHistory'[hash(prevPixel)] = prevPixel
      BY <1>2, <3>2, <3>5 DEF QTypeOK
    <3>7. QTypeOK'
      BY <1>1, <1>2, <3>2, <3>6 DEF QTypeOK
    <3> QED
      BY <3>2, <3>4, <3>6, <3>7 DEF QInv
  <2>4. CASE n # 0
    <3>1. n \in 1..62
      BY <2>4
    <3>2. /\ px' = px /\ colorHistory' = colorHistory /\ drawn' = Same(px, n)
          /\ due' = SubSeq(todo, 1, IF n < Len(todo) THEN n ELSE Len(todo))
          /\ todo' = SubSeq(todo, n + 1, Len(todo)) /\ stream' = Code(prevPixel)
      BY <2>1, <2>2, <3>1, DecodeRun
    <3>3. /\ Len(todo) = n + 1 /\ SubSeq(todo, 1, n) = Same(px, n)
          /\ SubSeq(todo, n + 1, n + 1) = <<prevPixel>>
      <4>1. n \in Nat
        BY <3>1
      <4> DEFINE s == Same(px, n)
                 u == SubSeq(todo, n + 1, n + 1)
      <4>2. s \in Seq({px, prevPixel}) /\ Len(s) = n
        BY <4>1 DEF Same
      <4> HIDE DEF s
      <4>3. todo = Append(s, prevPixel)
        BY <2>1 DEF s
      <4>4. /\ todo \in Seq({px, prevPixel}) /\ Len(todo) = n + 1
            /\ \A i \in 1..n : todo[i] = s[i]
            /\ todo[n + 1] = prevPixel
        BY ONLY <4>1, <4>2, <4>3
      <4>5. SubSeq(todo, 1, n) = s
        BY ONLY <4>1, <4>2, <4>4
      <4>6. u \in Seq({px, prevPixel}) /\ Len(u) = 1 /\ u[1] = prevPixel
        BY ONLY <4>1, <4>4
      <4> HIDE DEF u
      <4>7. u = <<u[1]>>
        BY ONLY <4>6
      <4> QED
        BY <4>4, <4>5, <4>6, <4>7 DEF s, u
    <3>4. drawn' = due' /\ todo' = <<prevPixel>>
      BY <3>2, <3>3
    <3>5. QTypeOK' /\ colorHistory'[hash(px')] = px'
      BY <1>1, <3>2 DEF QInv, QTypeOK
    <3>6. Code(prevPixel)' = Code(prevPixel)
      BY <1>1, <3>2 DEF Code
    <3>7. /\ Code(prevPixel) = Run(0) \o Code(prevPixel)
          /\ <<prevPixel>> = Append(Same(px, 0), prevPixel)
      BY <2>2 DEF Run, Same
    <3>8. Fed'
      <4>1. /\ stream' = Run(0) \o Code(prevPixel)'
            /\ todo' = Append(Same(px', 0), prevPixel')
        BY <1>1, <3>2, <3>4, <3>6, <3>7
      <4>2. 0 \in 0..61
        OBVIOUS
      <4> QED
        BY <1>1, <1>5, <3>2, <4>1, <4>2, Zenon DEF Fed
    <3> QED
      BY <3>4, <3>5, <3>8 DEF QInv
  <2> QED
    BY <2>3, <2>4
<1>6. CASE Ended
  <2>1. PICK n \in 0..61 : stream = Run(n) \o EndMarker /\ todo = Same(px, n)
    BY <1>6 DEF Ended
  <2>2. EndMarker \in Seq(Int) /\ n \in 1..62
    BY <1>1, <2>1 DEF EndMarker, Same
  <2>3. /\ px' = px /\ colorHistory' = colorHistory /\ drawn' = Same(px, n)
        /\ due' = SubSeq(todo, 1, IF n < Len(todo) THEN n ELSE Len(todo))
        /\ todo' = SubSeq(todo, n + 1, Len(todo)) /\ stream' = EndMarker
    BY <2>1, <2>2, DecodeRun
  <2>4. /\ Len(todo) = n /\ SubSeq(todo, 1, n) = Same(px, n)
        /\ SubSeq(todo, n + 1, n) = <<>> /\ Same(px, 0) = <<>>
    <3>1. n \in Nat
      BY <2>2
    <3>2. /\ Len(Same(px, n)) = n /\ SubSeq(Same(px, n), 1, n) = Same(px, n)
          /\ SubSeq(Same(px, n), n + 1, n) = <<>>
      BY <3>1, SameWhole
    <3>3. Same(px, 0) = <<>>
      BY DEF Same
    <3> QED
      BY <2>1, <3>2, <3>3
  <2>5. drawn' = due' /\ todo' = Same(px, 0)
    BY <2>3, <2>4, <2>2
  <2>6. QTypeOK' /\ colorHistory'[hash(px')] = px'
    BY <1>1, <2>3 DEF QInv, QTypeOK
  <2>7. EndMarker = Run(0) \o EndMarker
    BY <2>2 DEF Run
  <2>8. Ended'
    <3>1. 0 \in 0..61
      OBVIOUS
    <3>2. stream' = Run(0) \o EndMarker /\ todo' = Same(px', 0)
      BY <2>3, <2>5, <2>7
    <3> QED
      BY <1>1, <1>6, <2>3, <3>1, <3>2, Zenon DEF Ended, Agree
  <2> QED
    BY <2>5, <2>6, <2>8 DEF QInv
<1> QED
  BY <1>3, <1>4, <1>5, <1>6 DEF QInv

\* compressToQoiRuntime and decompressQoiToDisplay: for every image the decoder
\* draws the pixels that were compressed, in order, and both sides have the same
\* colour table whenever the stream is used up.
THEOREM QoiGivesBackTheImage == QoiSpec => []QoiLossless
<1>1. QInv /\ [QoiNext]_qoiVars => QInv'
  <2> SUFFICES ASSUME QInv, [QoiNext]_qoiVars
               PROVE  QInv'
    OBVIOUS
  <2>1. CASE UNCHANGED qoiVars
    BY <2>1, ZenonT(30) DEF QInv, QTypeOK, Settled, FullRun, Fed, Ended, Agree, Code, Coded, qoiVars
  <2> QED
    BY <2>1, RepeatQInv, FeedQInv, FinishQInv, DecodeQInv DEF QoiNext
<1>2. QInv => QoiLossless
  <2> SUFFICES ASSUME QInv
               PROVE  QoiLossless
    OBVIOUS
  <2>1. ASSUME stream = <<>>
        PROVE  /\ Len(todo) = runLength /\ colorHistory = history /\ px = prevPixel
               /\ history[hash(prevPixel)] = prevPixel
    <3>1. Settled /\ runLength \in 0..61
      BY <2>1, IdleSettled DEF QInv, QTypeOK
    <3>2. Len(Same(px, runLength)) = runLength
      <4>1. runLength \in Nat
        BY <3>1
      <4> QED
        BY <4>1, SameWhole
    <3> QED
      BY <3>1, <3>2 DEF Settled, Agree, QInv
  <2> QED
    BY <2>1 DEF QInv, QoiLossless, Lossless, TablesAgree
<1> QED
  BY <1>1, <1>2, InitQInv, PTL DEF QoiSpec

=============================================================================
