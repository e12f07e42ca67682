-------------------------- MODULE GeoLookupProofs --------------------------
(***************************************************************************)
(* The lookup of countries keeps its promises for every set of addresses,  *)
(* all capacities, and every interleaving of the processor, geoWorker,     *)
(* clears of the history and kills of the process.                         *)
(***************************************************************************)
EXTENDS GeoLookup, SequenceTheorems, FiniteSetTheorems, TLAPS

-----------------------------------------------------------------------------
(* Lists without repetition, the data of lruCache *)

(* A sequence of distinct elements of S. *)
DistinctSeq(s, S) == s \in Seq(S) /\ IsInjective(s)

(* The elements of a sequence by position. *)
LEMMA SeqView ==
  ASSUME NEW S, NEW s \in Seq(S)
  PROVE  /\ Len(s) \in Nat /\ DOMAIN s = 1 .. Len(s)
         /\ \A i \in 1 .. Len(s) : s[i] \in S
         /\ Range(s) = {s[i] : i \in 1 .. Len(s)}
         /\ IsInjective(s) <=> \A i, j \in 1 .. Len(s) : s[i] = s[j] => i = j
BY DEF Range, IsInjective

(* PushFront of a new element. *)
LEMMA Pushed ==
  ASSUME NEW S, NEW s, DistinctSeq(s, S), NEW k \in S, k \notin Range(s)
  PROVE  /\ DistinctSeq(<<k>> \o s, S)
         /\ Range(<<k>> \o s) = Range(s) \cup {k}
         /\ Len(<<k>> \o s) = Len(s) + 1
<1> DEFINE t == <<k>> \o s
<1>1. s \in Seq(S) /\ <<k>> \in Seq(S) /\ Len(<<k>>) = 1 /\ Len(s) \in Nat
  BY DEF DistinctSeq
<1>2. t \in Seq(S) /\ Len(t) = Len(s) + 1
  BY <1>1, ConcatProperties
<1>3. t[1] = k /\ \A i \in 1 .. Len(s) : t[i + 1] = s[i]
  BY <1>1
<1>4. \A i \in 1 .. Len(t) : i = 1 \/ (i - 1 \in 1 .. Len(s) /\ t[i] = s[i - 1])
  BY <1>1, <1>2, <1>3
<1>5. \A i \in 1 .. Len(s) : i + 1 \in 1 .. Len(t) /\ 1 \in 1 .. Len(t)
  BY <1>1, <1>2
<1>6. 1 \in 1 .. Len(t)
  BY <1>1, <1>2
<1> HIDE DEF t
<1>7. Range(s) = {s[i] : i \in 1 .. Len(s)} /\ Range(t) = {t[i] : i \in 1 .. Len(t)}
  BY <1>1, <1>2, SeqView
<1>8. Range(t) = Range(s) \cup {k}
  BY <1>3, <1>4, <1>5, <1>6, <1>7
<1>9. \A i, j \in 1 .. Len(s) : s[i] = s[j] => i = j
  BY <1>1, SeqView DEF DistinctSeq
<1>10. \A i \in 1 .. Len(s) : s[i] # k
  BY <1>7
<1>11. ASSUME NEW i \in 1 .. Len(t), NEW j \in 1 .. Len(t), t[i] = t[j]
       PROVE  i = j
  <2>1. CASE i = 1 \/ j = 1
    BY <1>3, <1>4, <1>10, <1>11, <2>1
  <2>2. CASE i # 1 /\ j # 1
    <3>1. i - 1 = j - 1
      BY <1>4, <1>9, <1>11, <2>2
    <3> QED BY <3>1, <1>2
  <2> QED BY <2>1, <2>2
<1>12. IsInjective(t)
  BY <1>2, <1>11, SeqView
<1> QED BY <1>2, <1>8, <1>12 DEF DistinctSeq, t

(* What a channel holds after a send. *)
LEMMA SentRange ==
  ASSUME NEW S, NEW s \in Seq(S), NEW a \in S
  PROVE  Range(Append(s, a)) = Range(s) \cup {a}
<1> DEFINE t == Append(s, a)
           n == Len(s)
<1>1. /\ n \in Nat /\ t \in Seq(S) /\ Len(t) = n + 1 /\ t[n + 1] = a
      /\ \A i \in 1 .. n : t[i] = s[i]
  BY AppendProperties, LenProperties
<1>2. n + 1 \in 1 .. n + 1 /\ \A i \in 1 .. n + 1 : i = n + 1 \/ i \in 1 .. n
  BY <1>1
<1>3. \A i \in 1 .. n : i \in 1 .. n + 1
  BY <1>1
<1> HIDE DEF t
<1>4. Range(s) = {s[i] : i \in 1 .. n} /\ Range(t) = {t[i] : i \in 1 .. n + 1}
  BY <1>1, SeqView
<1> HIDE DEF n
<1> QED BY <1>1, <1>2, <1>3, <1>4 DEF t

(* What it held before a receive. *)
LEMMA ReceivedRange ==
  ASSUME NEW S, NEW s \in Seq(S), s # <<>>
  PROVE  Range(s) = Range(Tail(s)) \cup {Head(s)}
<1> DEFINE t == Tail(s)
           n == Len(s)
<1>1. /\ t \in Seq(S) /\ Len(t) = n - 1
      /\ \A i \in 1 .. n - 1 : t[i] = s[i + 1]
  BY HeadTailProperties
<1>2. Head(s) = s[1] /\ n \in Nat \ {0}
  BY EmptySeq
<1>3. \A i \in 1 .. n : i = 1 \/ (i - 1 \in 1 .. n - 1 /\ (i - 1) + 1 = i)
  BY <1>2
<1>4. 1 \in 1 .. n /\ \A i \in 1 .. n - 1 : i + 1 \in 1 .. n
  BY <1>2
<1> HIDE DEF t
<1>5. Range(s) = {s[i] : i \in 1 .. n} /\ Range(t) = {t[i] : i \in 1 .. n - 1}
  BY <1>1, SeqView
<1> HIDE DEF n
<1>6. \A i \in 1 .. n : i # 1 => s[i] \in Range(t)
  <2> TAKE i \in 1 .. n
  <2> HAVE i # 1
  <2>1. t[i - 1] = s[i] /\ i - 1 \in 1 .. n - 1
    BY <1>1, <1>3
  <2> QED BY <1>5, <2>1
<1>7. \A i \in 1 .. n - 1 : t[i] \in Range(s)
  BY <1>1, <1>4, <1>5
<1> QED BY <1>2, <1>4, <1>5, <1>6, <1>7 DEF t

(* Removal of one element. *)
LEMMA CutOut ==
  ASSUME NEW S, NEW s, DistinctSeq(s, S), NEW p \in 1 .. Len(s)
  PROVE  LET t == SubSeq(s, 1, p - 1) \o SubSeq(s, p + 1, Len(s))
         IN /\ DistinctSeq(t, S)
            /\ Range(t) = Range(s) \ {s[p]}
            /\ Len(t) = Len(s) - 1
<1> DEFINE a == SubSeq(s, 1, p - 1)
           b == SubSeq(s, p + 1, Len(s))
           t == a \o b
<1>1. s \in Seq(S) /\ Len(s) \in Nat /\ p \in Nat /\ p >= 1 /\ p <= Len(s)
  BY DEF DistinctSeq
<1>2. \A i \in 1 .. Len(s) : s[i] \in S
  BY <1>1
<1>3. /\ a \in Seq(S) /\ Len(a) = p - 1
      /\ \A i \in 1 .. p - 1 : a[i] = s[i]
  <2>1. \A i \in 1 .. p - 1 : s[i] \in S
    BY <1>1, <1>2
  <2>2. 1 \in Int /\ p - 1 \in Int
    BY <1>1
  <2>3. /\ a \in Seq(S) /\ Len(a) = IF 1 <= p - 1 THEN (p - 1) - 1 + 1 ELSE 0
        /\ \A i \in 1 .. (p - 1) - 1 + 1 : a[i] = s[1 + i - 1]
    BY <2>1, <2>2, SubSeqProperties
  <2> HIDE DEF a
  <2> QED BY <1>1, <2>3
<1>4. /\ b \in Seq(S) /\ Len(b) = Len(s) - p
      /\ \A i \in 1 .. Len(s) - p : b[i] = s[p + i]
  <2>1. \A i \in p + 1 .. Len(s) : s[i] \in S
    BY <1>1, <1>2
  <2>2. p + 1 \in Int /\ Len(s) \in Int
    BY <1>1
  <2>3. /\ b \in Seq(S) /\ Len(b) = IF p + 1 <= Len(s) THEN Len(s) - (p + 1) + 1 ELSE 0
        /\ \A i \in 1 .. Len(s) - (p + 1) + 1 : b[i] = s[(p + 1) + i - 1]
    BY <2>1, <2>2, SubSeqProperties
  <2> HIDE DEF b
  <2> QED BY <1>1, <2>3
<1> HIDE DEF a, b
<1>5. /\ t \in Seq(S) /\ Len(t) = Len(s) - 1
      /\ \A i \in 1 .. Len(a) + Len(b) : t[i] = IF i <= Len(a) THEN a[i] ELSE b[i - Len(a)]
  <2>1. /\ t \in Seq(S) /\ Len(t) = Len(a) + Len(b)
        /\ \A i \in 1 .. Len(a) + Len(b) : t[i] = IF i <= Len(a) THEN a[i] ELSE b[i - Len(a)]
    BY <1>3, <1>4, ConcatProperties
  <2> HIDE DEF t
  <2> QED BY <1>1, <1>3, <1>4, <2>1
<1> HIDE DEF t
<1>6. \A i \in 1 .. Len(t) : t[i] = IF i < p THEN s[i] ELSE s[i + 1]
  <2> TAKE i \in 1 .. Len(t)
  <2>0. i \in 1 .. Len(a) + Len(b) /\ Len(a) = p - 1 /\ i \in Nat
    BY <1>1, <1>3, <1>4, <1>5
  <2>1. CASE i < p
    <3>1. i <= Len(a) /\ i \in 1 .. p - 1
      BY <1>1, <2>0, <2>1
    <3>2. t[i] = a[i]
      BY <1>5, <2>0, <3>1
    <3> QED BY <1>3, <2>1, <3>1, <3>2
  <2>2. CASE ~(i < p)
    <3>1. i - (p - 1) \in 1 .. Len(s) - p /\ p + (i - (p - 1)) = i + 1
      BY <1>1, <1>5, <2>2
    <3>2. t[i] = b[i - (p - 1)]
      <4>1. ~(i <= Len(a))
        BY <1>1, <2>0, <2>2
      <4> QED BY <1>5, <2>0, <4>1
    <3> QED BY <1>4, <2>2, <3>1, <3>2
  <2> QED BY <2>1, <2>2
<1>7. Range(s) = {s[i] : i \in 1 .. Len(s)} /\ Range(t) = {t[i] : i \in 1 .. Len(t)}
  BY <1>1, <1>5, SeqView
<1>8. \A i, j \in 1 .. Len(s) : s[i] = s[j] => i = j
  BY <1>1, SeqView DEF DistinctSeq
<1>9. \A i \in 1 .. Len(t) : \E j \in 1 .. Len(s) : j # p /\ t[i] = s[j]
  <2> TAKE i \in 1 .. Len(t)
  <2>1. CASE i < p
    <3>1. i \in 1 .. Len(s) /\ i # p
      BY <1>1, <1>5, <2>1
    <3> QED BY <1>6, <2>1, <3>1
  <2>2. CASE ~(i < p)
    <3>1. i + 1 \in 1 .. Len(s) /\ i + 1 # p
      BY <1>1, <1>5, <2>2
    <3> QED BY <1>6, <2>2, <3>1
  <2> QED BY <2>1, <2>2
<1>10. \A j \in 1 .. Len(s) : j # p => \E i \in 1 .. Len(t) : t[i] = s[j]
  <2> TAKE j \in 1 .. Len(s)
  <2> HAVE j # p
  <2>1. CASE j < p
    <3>1. j \in 1 .. Len(t)
      BY <1>1, <1>5, <2>1
    <3> QED BY <1>6, <2>1, <3>1
  <2>2. CASE j > p
    <3>1. j - 1 \in 1 .. Len(t) /\ ~(j - 1 < p) /\ (j - 1) + 1 = j
      BY <1>1, <1>5, <2>2
    <3> QED BY <1>6, <3>1
  <2> QED BY <1>1, <2>1, <2>2
<1>11. Range(t) = Range(s) \ {s[p]}
  BY <1>7, <1>8, <1>9, <1>10
<1>12. ASSUME NEW i \in 1 .. Len(t), NEW j \in 1 .. Len(t), t[i] = t[j]
       PROVE  i = j
  <2>1. /\ i \in Nat /\ j \in Nat
        /\ i \in 1 .. Len(s) /\ j \in 1 .. Len(s) /\ i + 1 \in 1 .. Len(s) /\ j + 1 \in 1 .. Len(s)
    BY <1>1, <1>5
  <2>2. t[i] = (IF i < p THEN s[i] ELSE s[i + 1]) /\ t[j] = (IF j < p THEN s[j] ELSE s[j + 1])
    BY <1>6
  <2>3. CASE i < p /\ j < p
    BY <1>8, <1>12, <2>1, <2>2, <2>3
  <2>4. CASE i < p /\ ~(j < p)
    <3>1. i = j + 1
      BY <1>8, <1>12, <2>1, <2>2, <2>4
    <3> QED BY <1>1, <2>1, <2>4, <3>1
  <2>5. CASE ~(i < p) /\ j < p
    <3>1. i + 1 = j
      BY <1>8, <1>12, <2>1, <2>2, <2>5
    <3> QED BY <1>1, <2>1, <2>5, <3>1
  <2>6. CASE ~(i < p) /\ ~(j < p)
    <3>1. i + 1 = j + 1
      BY <1>8, <1>12, <2>1, <2>2, <2>6
    <3> QED BY <2>1, <3>1
  <2> QED BY <2>3, <2>4, <2>5, <2>6
<1>13. IsInjective(t)
  BY <1>5, <1>12, SeqView
<1> QED BY <1>5, <1>11, <1>13 DEF DistinctSeq, t, a, b

(* Removal of the last element. *)
LEMMA CutLast ==
  ASSUME NEW S, NEW s, DistinctSeq(s, S), s # <<>>
  PROVE  LET t == SubSeq(s, 1, Len(s) - 1)
         IN /\ DistinctSeq(t, S)
            /\ Range(t) = Range(s) \ {s[Len(s)]}
            /\ Len(t) = Len(s) - 1
<1> DEFINE n == Len(s)
           t == SubSeq(s, 1, n - 1)
<1>1. s \in Seq(S)
  BY DEF DistinctSeq
<1>2. n \in Nat /\ n \in 1 .. n /\ n + 1 \in Int /\ n \in Int /\ n < n + 1
  BY <1>1, EmptySeq
<1>3. SubSeq(s, n + 1, n) = <<>>
  BY <1>2, SubSeqEmpty
<1>4. t \in Seq(S)
  <2>1. \A i \in 1 .. n - 1 : s[i] \in S
    BY <1>1, <1>2
  <2>2. 1 \in Int /\ n - 1 \in Int
    BY <1>2
  <2> QED BY <2>1, <2>2, SubSeqProperties
<1>5. t \o SubSeq(s, n + 1, n) = t
  BY <1>3, <1>4, ConcatEmptySeq
<1>6. LET u == t \o SubSeq(s, n + 1, n)
      IN DistinctSeq(u, S) /\ Range(u) = Range(s) \ {s[n]} /\ Len(u) = n - 1
  BY <1>2, CutOut
<1> QED BY <1>5, <1>6

-----------------------------------------------------------------------------
(* lruCache *)

(* What the cache needs of its variables: the map and the list agree, and  *)
(* the cached country of an address is that of the address.                *)
CacheOK ==
  /\ list \in Seq(Ips)
  /\ Lru!CacheAgrees
  /\ \A k \in DOMAIN cache : k \in Known /\ cache[k] = k

(* The operators LruCache takes from Functions and FiniteSets are those of *)
(* this module.                                                            *)
LEMMA SameNames ==
  /\ \A f : Lru!Range(f) = Range(f)
  /\ \A f : Lru!IsInjective(f) <=> IsInjective(f)
  /\ \A f, S : Lru!Restrict(f, S) = [x \in S |-> f[x]]
  /\ \A S : Lru!Cardinality(S) = Cardinality(S)
<1>1. \A f : Lru!Range(f) = Range(f)
  BY DEF Range, Lru!Range
<1>2. \A f : Lru!IsInjective(f) <=> IsInjective(f)
  BY DEF IsInjective, Lru!IsInjective
<1>3. \A f, S : Lru!Restrict(f, S) = [x \in S |-> f[x]]
  BY DEF Lru!Restrict
<1>4. \A S : Lru!Cardinality(S) = Cardinality(S)
  BY DEF Cardinality, Lru!Cardinality
<1> QED BY <1>1, <1>2, <1>3, <1>4

(* The list without a key. *)
LEMMA WithoutKey ==
  ASSUME CacheOK, NEW k
  PROVE  /\ DistinctSeq(Lru!Without(k), Ips)
         /\ Range(Lru!Without(k)) = DOMAIN cache \ {k}
         /\ Len(Lru!Without(k)) \in Nat
         /\ Len(Lru!Without(k)) <= CacheCapacity
         /\ k \in DOMAIN cache => Len(Lru!Without(k)) + 1 <= CacheCapacity
<1>1. /\ DistinctSeq(list, Ips) /\ Range(list) = DOMAIN cache
      /\ Len(list) \in Nat /\ Len(list) <= CacheCapacity
  BY SameNames DEF CacheOK, Lru!CacheAgrees, DistinctSeq
<1>2. CacheCapacity \in Nat
  BY GeoAssumption
<1>3. CASE k \in DOMAIN cache
  <2> DEFINE p == Lru!Position(k)
             t == SubSeq(list, 1, p - 1) \o SubSeq(list, p + 1, Len(list))
  <2>1. \E i \in 1 .. Len(list) : list[i] = k
    BY <1>1, <1>3, SeqView DEF DistinctSeq
  <2>2. p \in 1 .. Len(list) /\ list[p] = k
    BY <2>1 DEF Lru!Position
  <2> HIDE DEF p
  <2>3. DistinctSeq(t, Ips) /\ Range(t) = Range(list) \ {k} /\ Len(t) = Len(list) - 1
    BY <1>1, <2>2, CutOut
  <2>4. Lru!Without(k) = t
    BY <1>3 DEF Lru!Without, p
  <2>5. Len(list) - 1 \in Nat
    BY <1>1, <2>2
  <2> HIDE DEF t
  <2> QED BY <1>1, <1>2, <2>3, <2>4, <2>5
<1>4. CASE k \notin DOMAIN cache
  BY <1>1, <1>4 DEF Lru!Without
<1> QED BY <1>3, <1>4

(* A use of a key moves it to the front. *)
LEMMA HitKeeps ==
  ASSUME CacheOK, NEW k \in DOMAIN cache, Lru!MoveToFront(k)
  PROVE  /\ list' \in Seq(Ips) /\ IsInjective(list')
         /\ Range(list') = DOMAIN cache /\ Len(list') <= CacheCapacity
<1> DEFINE w == Lru!Without(k)
<1>1. /\ DistinctSeq(w, Ips) /\ Range(w) = DOMAIN cache \ {k}
      /\ Len(w) \in Nat /\ Len(w) + 1 <= CacheCapacity
  BY WithoutKey
<1>2. k \in Ips
  BY GeoAssumption DEF CacheOK
<1>3. list' = <<k>> \o w
  BY DEF Lru!MoveToFront
<1> HIDE DEF w
<1>4. DistinctSeq(<<k>> \o w, Ips) /\ Range(<<k>> \o w) = Range(w) \cup {k} /\ Len(<<k>> \o w) = Len(w) + 1
  BY <1>1, <1>2, Pushed
<1> QED BY <1>1, <1>3, <1>4 DEF DistinctSeq

(* Get, Add, Remove and Load keep the map and the list in step. *)
LEMMA GetKeeps ==
  ASSUME CacheOK, NEW k, Lru!Hit(k) \/ Lru!Miss(k)
  PROVE  CacheOK'
<1>1. CASE Lru!Hit(k)
  <2>1. k \in DOMAIN cache /\ Lru!MoveToFront(k) /\ cache' = cache
    BY <1>1 DEF Lru!Hit
  <2> QED BY <2>1, HitKeeps, SameNames DEF CacheOK, Lru!CacheAgrees
<1>2. CASE Lru!Miss(k)
  BY <1>2 DEF Lru!Miss, CacheOK, Lru!CacheAgrees
<1> QED BY <1>1, <1>2

(* Add evicts the key that was not used for longest from both. *)
LEMMA AddKeeps ==
  ASSUME CacheOK, NEW k \in Known, Lru!Add(k, k)
  PROVE  CacheOK'
<1>1. CASE k \in DOMAIN cache
  <2>1. Lru!MoveToFront(k) /\ cache' = [cache EXCEPT ![k] = k]
    BY <1>1 DEF Lru!Add
  <2>2. DOMAIN cache' = DOMAIN cache /\ \A x \in DOMAIN cache : cache'[x] = x
    BY <2>1 DEF CacheOK
  <2> QED BY <1>1, <2>1, <2>2, HitKeeps, SameNames DEF CacheOK, Lru!CacheAgrees
<1>2. CASE k \notin DOMAIN cache
  <2> DEFINE rest == Lru!Kept
             gone == Lru!Evicted
  <2>1. /\ list' = <<k>> \o rest
        /\ cache' = [x \in (DOMAIN cache \ gone) \cup {k} |-> IF x = k THEN k ELSE cache[x]]
    BY <1>2 DEF Lru!Add
  <2>2. DOMAIN cache' = (DOMAIN cache \ gone) \cup {k} /\ \A x \in DOMAIN cache' : x \in Known /\ cache'[x] = x
    BY <2>1 DEF CacheOK
  <2>3. /\ DistinctSeq(list, Ips) /\ Range(list) = DOMAIN cache
        /\ Len(list) \in Nat /\ Len(list) <= CacheCapacity
    BY SameNames DEF CacheOK, Lru!CacheAgrees, DistinctSeq
  <2>4. CacheCapacity \in Nat /\ CacheCapacity > 0 /\ k \in Ips
    BY GeoAssumption
  <2>5. /\ DistinctSeq(rest, Ips) /\ Range(rest) = DOMAIN cache \ gone
        /\ Len(rest) \in Nat /\ Len(rest) < CacheCapacity
    <3>1. CASE Lru!Full
      <4>1. /\ list # <<>> /\ rest = SubSeq(list, 1, Len(list) - 1)
            /\ gone = {list[Len(list)]}
        BY <3>1 DEF Lru!Full, Lru!Kept, Lru!Evicted
      <4>2. Len(list) \in Nat \ {0}
        BY <2>3, <4>1, EmptySeq DEF DistinctSeq
      <4>3. /\ DistinctSeq(rest, Ips) /\ Range(rest) = Range(list) \ gone
            /\ Len(rest) = Len(list) - 1
        BY <2>3, <4>1, CutLast
      <4> HIDE DEF rest, gone
      <4> QED BY <2>3, <2>4, <4>2, <4>3
    <3>2. CASE ~Lru!Full
      <4>1. rest = list /\ gone = {}
        BY <3>2 DEF Lru!Kept, Lru!Evicted
      <4>2. Len(list) < CacheCapacity
        <5>1. ~(Len(list) >= CacheCapacity) \/ list = <<>>
          BY <3>2 DEF Lru!Full
        <5>2. list = <<>> => Len(list) = 0
          OBVIOUS
        <5> QED BY <2>3, <2>4, <5>1, <5>2
      <4> QED BY <2>3, <4>1, <4>2
    <3> QED BY <3>1, <3>2
  <2> HIDE DEF rest, gone
  <2>6. k \notin Range(rest)
    BY <1>2, <2>5
  <2>7. /\ DistinctSeq(<<k>> \o rest, Ips) /\ Range(<<k>> \o rest) = Range(rest) \cup {k}
        /\ Len(<<k>> \o rest) = Len(rest) + 1
    BY <2>4, <2>5, <2>6, Pushed
  <2>8. Len(rest) + 1 <= CacheCapacity
    BY <2>4, <2>5
  <2> QED BY <2>1, <2>2, <2>5, <2>7, <2>8, SameNames DEF CacheOK, Lru!CacheAgrees, DistinctSeq
<1> QED BY <1>1, <1>2

(* Remove takes a key from both. *)
LEMMA RemoveKeeps ==
  ASSUME CacheOK, NEW k, Lru!Remove(k)
  PROVE  CacheOK'
<1>1. list' = Lru!Without(k) /\ cache' = [x \in DOMAIN cache \ {k} |-> cache[x]]
  BY SameNames DEF Lru!Remove
<1>2. DOMAIN cache' = DOMAIN cache \ {k} /\ \A x \in DOMAIN cache' : x \in Known /\ cache'[x] = x
  BY <1>1 DEF CacheOK
<1> QED BY <1>1, <1>2, WithoutKey, SameNames DEF CacheOK, Lru!CacheAgrees, DistinctSeq

(* Load takes what fits: the file holds no more keys than the cache did. *)
LEMMA LoadKeeps ==
  ASSUME NEW keys \in SUBSET Known, Cardinality(keys) <= CacheCapacity,
         Lru!Load([k \in keys |-> k])
  PROVE  CacheOK'
<1> DEFINE n == Cardinality(keys)
<1>1. IsFiniteSet(keys) /\ n \in Nat
  BY GeoAssumption, FS_Subset, FS_CardinalityType
<1>2. cache' = [k \in keys |-> k] /\ list' \in [1 .. n -> keys] /\ IsInjective(list')
  BY SameNames DEF Lru!Load
<1>3. IsFiniteSet(1 .. n) /\ Cardinality(1 .. n) = n
  <2>1. 1 \in Int /\ n \in Int
    BY <1>1
  <2> HIDE DEF n
  <2>2. IsFiniteSet(1 .. n) /\ Cardinality(1 .. n) = IF 1 > n THEN 0 ELSE n - 1 + 1
    BY <2>1, FS_Interval
  <2> QED BY <1>1, <2>2 DEF n
<1>4. list' \in Injection(1 .. n, keys)
  BY <1>2 DEF Injection
<1>5. list' \in Surjection(1 .. n, keys)
  BY <1>1, <1>3, <1>4, FS_Injection
<1> HIDE DEF n
<1>6. DOMAIN list' = 1 .. n /\ \A k \in keys : \E i \in 1 .. n : list'[i] = k
  BY <1>2, <1>5 DEF Surjection
<1>7. Range(list') = keys
  BY <1>2, <1>6 DEF Range
<1>8. list' \in Seq(keys) /\ Len(list') = n
  BY <1>1, <1>2
<1>9. keys \subseteq Ips
  BY GeoAssumption
<1>10. list' \in Seq(Ips)
  BY <1>8, <1>9, SeqMonotonic
<1> QED BY <1>2, <1>7, <1>8, <1>10, SameNames DEF n, CacheOK, Lru!CacheAgrees

(* A list without repetition holds as many keys as it is long, at most. *)
LEMMA KeysFit ==
  ASSUME CacheOK
  PROVE  DOMAIN cache \subseteq Known /\ Cardinality(DOMAIN cache) <= CacheCapacity
<1> DEFINE n == Len(list)
           K == DOMAIN cache
<1>1. list \in Seq(Ips) /\ n \in Nat /\ n <= CacheCapacity /\ Range(list) = K
  BY SameNames DEF CacheOK, Lru!CacheAgrees
<1>2. list \in Surjection(1 .. n, K)
  <2>1. list \in [1 .. n -> Ips]
    BY <1>1, LenProperties
  <2>2. Range(list) = {list[i] : i \in 1 .. n}
    BY <1>1, SeqView
  <2>3. K = {list[i] : i \in 1 .. n}
    BY <1>1, <2>2
  <2> HIDE DEF n, K
  <2> QED BY <2>1, <2>3 DEF Surjection
<1>3. IsFiniteSet(1 .. n) /\ Cardinality(1 .. n) = n
  <2> HIDE DEF n
  <2>1. 1 \in Int /\ n \in Int
    BY <1>1
  <2>2. IsFiniteSet(1 .. n) /\ Cardinality(1 .. n) = IF 1 > n THEN 0 ELSE n - 1 + 1
    BY <2>1, FS_Interval
  <2> QED BY <1>1, <2>2
<1>4. IsFiniteSet(K) /\ Cardinality(K) <= n
  BY <1>2, <1>3, FS_Surjection
<1>5. Cardinality(K) \in Nat /\ CacheCapacity \in Nat
  BY <1>4, GeoAssumption, FS_CardinalityType
<1>6. K \subseteq Known
  BY DEF CacheOK
<1> QED BY <1>1, <1>4, <1>5, <1>6

-----------------------------------------------------------------------------
(* The steps, by what they disturb *)

(* The cache and the disk. *)
LEMMA CacheView == TypeOK /\ CacheSound => CacheOK
BY DEF TypeOK, CacheSound, CacheOK

(* The cache stays sound, and what is on the disk can be loaded. *)
LEMMA CacheStep ==
  ASSUME TypeOK, CacheSound, WorkerInv, [Next]_vars
  PROVE  CacheSound' /\ list' \in Seq(Ips)
<1> DEFINE DiskOK == disk.whole => disk.keys \subseteq Known /\ Cardinality(disk.keys) <= CacheCapacity
<1>1. CacheOK /\ DiskOK
  BY CacheView DEF CacheSound
<1>2. SUFFICES CacheOK' /\ DiskOK'
  BY <1>2 DEF CacheOK, CacheSound
<1> HIDE DEF DiskOK
<1>3. ASSUME UNCHANGED <<cache, list>> PROVE CacheOK'
  BY <1>1, <1>3, SameNames DEF CacheOK, Lru!CacheAgrees
<1>4. ASSUME UNCHANGED disk PROVE DiskOK'
  BY <1>1, <1>4 DEF DiskOK
<1>5. ASSUME NEW src, NEW dst, ProcessPacket(src, dst) PROVE CacheOK' /\ DiskOK'
  BY <1>1, <1>3, <1>4, <1>5, GetKeeps DEF ProcessPacket
<1>6. CASE RequestLookup \/ StorePacket \/ FilterOut \/ ClearHistory \/ TakeRequest \/ UpdateHistory
           \/ UNCHANGED vars
  <2>1. UNCHANGED <<cache, list, disk>>
    BY <1>6 DEF RequestLookup, StorePacket, FilterOut, ClearHistory, TakeRequest, UpdateHistory, vars
  <2> QED BY <1>3, <1>4, <2>1
<1>7. CASE LookupFails
  BY <1>1, <1>4, <1>7, RemoveKeeps DEF LookupFails
<1>8. CASE LookupSucceeds
  BY <1>1, <1>4, <1>8, AddKeeps DEF LookupSucceeds
<1>9. CASE SaveBegins
  BY <1>3, <1>9 DEF SaveBegins, DiskOK
<1>10. CASE SaveEnds
  BY <1>3, <1>10 DEF SaveEnds, DiskOK, WorkerInv
<1>11. CASE Restart
  <2>1. DiskOK'
    BY <1>4, <1>11 DEF Restart
  <2>2. CASE disk.whole
    <3>1. Lru!Load([k \in disk.keys |-> k])
      BY <1>11, <2>2 DEF Restart
    <3>2. disk.keys \in SUBSET Known /\ Cardinality(disk.keys) <= CacheCapacity
      BY <1>1, <2>2 DEF DiskOK
    <3> QED BY <2>1, <3>1, <3>2, LoadKeeps
  <2>3. CASE ~disk.whole
    <3>1. cache' = [k \in {} |-> k] /\ list' = <<>>
      BY <1>11, <2>3 DEF Restart
    <3>2. <<>> \in Seq(Ips) /\ Len(<<>>) = 0 /\ DOMAIN <<>> = {}
      OBVIOUS
    <3>3. 0 <= CacheCapacity
      BY GeoAssumption
    <3> QED BY <2>1, <3>1, <3>2, <3>3, SameNames DEF CacheOK, Lru!CacheAgrees, Range, IsInjective
  <2> QED BY <2>2, <2>3
<1> QED BY <1>5, <1>6, <1>7, <1>8, <1>9, <1>10, <1>11 DEF Next, WorkerStep

(* geoWorker's address. *)
LEMMA WorkerStepInv ==
  ASSUME TypeOK, CacheSound, WorkerInv, [Next]_vars
  PROVE  WorkerInv'
<1> USE DEF WorkerInv
<1>1. DOMAIN cache \subseteq Known /\ Cardinality(DOMAIN cache) <= CacheCapacity
  BY CacheView, KeysFit
<1>2. {} \subseteq Known /\ Cardinality({}) <= CacheCapacity
  BY GeoAssumption, FS_EmptySet
<1>3. ASSUME NEW src, NEW dst, ProcessPacket(src, dst) PROVE WorkerInv'
  BY <1>3 DEF ProcessPacket, workervars
<1>4. CASE RequestLookup \/ StorePacket \/ FilterOut \/ ClearHistory \/ UNCHANGED vars
  BY <1>4 DEF RequestLookup, StorePacket, FilterOut, ClearHistory, vars, workervars
<1>5. CASE TakeRequest
  <2>1. Head(geoReqChan) \in Ips
    BY <1>5, HeadTailProperties DEF TypeOK, TakeRequest
  <2> QED BY <1>5, <2>1 DEF TakeRequest
<1>6. CASE LookupFails \/ UpdateHistory
  BY <1>6 DEF LookupFails, UpdateHistory
<1>7. CASE LookupSucceeds
  BY <1>7 DEF LookupSucceeds
<1>8. CASE SaveBegins
  BY <1>1, <1>8 DEF SaveBegins
<1>9. CASE SaveEnds
  BY <1>2, <1>9 DEF SaveEnds
<1>10. CASE Restart
  BY <1>2, <1>10 DEF Restart
<1> HIDE DEF WorkerInv
<1> QED BY <1>3, <1>4, <1>5, <1>6, <1>7, <1>8, <1>9, <1>10 DEF Next, WorkerStep

(* A new packet has the label of the address it is looked up by, if the    *)
(* cache knows it, and the right one if there is nothing to look up.       *)
LEMMA NewPacket ==
  ASSUME TypeOK, CacheSound, NEW flow \in Flows, ProcessPacket(flow[1], flow[2])
  PROVE  /\ pkt' \in Packets /\ pkt'.index > 0 /\ Coherent(pkt')
         /\ packetCounter' \in 0 .. MaxPackets
         /\ \/ proc' = "filter" /\ pkt'.country # Searching
            \/ proc' = "request" /\ pkt'.country = Searching /\ Looked(pkt') \in Ips
<1> DEFINE src == flow[1]
           dst == flow[2]
           n == packetCounter + 1
           addr == IF src # Private THEN src ELSE dst
           made(c) == [index |-> n, src |-> src, dst |-> dst, country |-> c, city |-> NoCity]
<1>1. src \in Addresses /\ dst \in Addresses
  BY FlowsAssumption
<1>2. n \in 0 .. MaxPackets /\ n > 0 /\ packetCounter' = n
  <2>1. packetCounter \in 0 .. MaxPackets /\ packetCounter < MaxPackets /\ packetCounter' = n /\ MaxPackets \in Nat
    BY GeoAssumption DEF TypeOK, ProcessPacket
  <2> QED BY <2>1
<1>3. /\ Private \notin Ips /\ Searching \notin Ips /\ NoCity \notin Ips
      /\ Private # Searching
  BY LabelsAssumption DEF Private, Searching, NoCity
<1>4. \A c : Looked(made(c)) = addr
  BY DEF Looked
<1>5. \/ addr = Private /\ pkt' = made(Private) /\ proc' = "filter"
      \/ addr # Private /\ addr \in DOMAIN cache /\ pkt' = made(cache[addr]) /\ proc' = "filter"
      \/ addr # Private /\ pkt' = made(Searching) /\ proc' = "request"
  BY <1>4 DEF ProcessPacket, Lru!Hit
<1> HIDE DEF n
<1>6. \A c \in Labels : /\ made(c) \in Packets /\ made(c).index > 0 /\ made(c).country = c
                        /\ made(c).src = src /\ made(c).dst = dst /\ made(c).city = NoCity
  BY <1>1, <1>2 DEF Packets
<1>7. CASE addr = Private /\ pkt' = made(Private) /\ proc' = "filter"
  <2>1. src = Private /\ dst = Private /\ Private \in Labels
    BY <1>7 DEF Labels
  <2> HIDE DEF src, dst, addr, made
  <2> QED BY <1>2, <1>3, <1>6, <1>7, <2>1 DEF Coherent
<1>8. CASE addr # Private /\ addr \in DOMAIN cache /\ pkt' = made(cache[addr]) /\ proc' = "filter"
  <2>1. cache[addr] = addr /\ addr \in Ips
    BY <1>8, GeoAssumption DEF CacheSound
  <2>2. addr \in Labels /\ addr \in {src, dst}
    BY <2>1 DEF Labels
  <2> HIDE DEF src, dst, addr, made
  <2> QED BY <1>2, <1>3, <1>6, <1>8, <2>1, <2>2 DEF Coherent
<1>9. CASE addr # Private /\ pkt' = made(Searching) /\ proc' = "request"
  <2>1. Searching \in Labels /\ addr \in Ips
    BY <1>1, <1>9 DEF Labels, Addresses
  <2> HIDE DEF src, dst, addr, made
  <2> QED BY <1>2, <1>3, <1>4, <1>6, <1>9, <2>1 DEF Coherent
<1> QED BY <1>5, <1>7, <1>8, <1>9

(* The idle processor's packet is of no account. *)
LEMMA NoPacketOK ==
  NoPacket \in Packets /\ Coherent(NoPacket) /\ NoPacket.country # Searching
<1>1. 0 \in 0 .. MaxPackets /\ Private \in Addresses /\ Private \in Labels /\ NoCity \in Ips \cup {NoCity}
  BY GeoAssumption DEF Addresses, Labels
<1>2. Private \notin Ips /\ Private # Searching
  BY LabelsAssumption DEF Private, Searching
<1> QED BY <1>1, <1>2 DEF NoPacket, Packets, Coherent

(* A packet that geoWorker relabels. *)
LEMMA RelabelledOK ==
  ASSUME NEW p \in Packets, Coherent(p), ip \in Ips
  PROVE  /\ Relabelled(p) \in Packets /\ Coherent(Relabelled(p))
         /\ Relabelled(p) = p \/ Relabelled(p).country # Searching
         /\ Looked(p) = ip => Relabelled(p).country # Searching
<1>1. ip \notin {Private, Searching, NoCity} /\ ip \in Labels
  BY LabelsAssumption DEF Labels
<1>2. CASE ip \in {p.src, p.dst}
  <2>1. Relabelled(p) = [p EXCEPT !.country = ip, !.city = ip]
    BY <1>2 DEF Relabelled
  <2>2. /\ Relabelled(p) \in Packets
        /\ Relabelled(p).country = ip /\ Relabelled(p).city = ip
        /\ Relabelled(p).src = p.src /\ Relabelled(p).dst = p.dst
    BY <1>1, <2>1 DEF Packets
  <2> QED BY <1>1, <1>2, <2>2 DEF Coherent
<1>3. CASE ip \notin {p.src, p.dst}
  BY <1>3 DEF Relabelled, Looked
<1> QED BY <1>2, <1>3

(* The history after a packet is added: what it had, and the packet. *)
LEMMA HistoryAdds ==
  ASSUME TypeOK, Hist!Add(pkt)
  PROVE  /\ history' \in Seq(Packets) /\ Len(history') <= HistorySize
         /\ \A i \in 1 .. Len(history') :
              history'[i] = pkt \/ \E j \in 1 .. Len(history) : history'[i] = history[j]
<1> DEFINE old == IF Len(history) < HistorySize THEN history ELSE Tail(history)
<1>1. /\ history \in Seq(Packets) /\ Len(history) \in Nat /\ Len(history) <= HistorySize
      /\ pkt \in Packets /\ HistorySize \in Nat /\ HistorySize > 0
  BY GeoAssumption DEF TypeOK
<1>2. /\ old \in Seq(Packets) /\ Len(old) \in Nat /\ Len(old) < HistorySize
      /\ \A i \in 1 .. Len(old) : \E j \in 1 .. Len(history) : old[i] = history[j]
  <2>1. CASE Len(history) < HistorySize
    BY <1>1, <2>1
  <2>2. CASE ~(Len(history) < HistorySize)
    <3>1. history # <<>> /\ old = Tail(history)
      BY <1>1, <2>2
    <3>2. /\ Tail(history) \in Seq(Packets) /\ Len(Tail(history)) = Len(history) - 1
          /\ \A i \in 1 .. Len(Tail(history)) : Tail(history)[i] = history[i + 1]
      BY <1>1, <3>1, HeadTailProperties
    <3>3. \A i \in 1 .. Len(history) - 1 : i + 1 \in 1 .. Len(history)
      BY <1>1
    <3>4. Len(history) - 1 \in Nat /\ Len(history) - 1 < HistorySize
      BY <1>1, <2>2
    <3> QED BY <3>1, <3>2, <3>3, <3>4
  <2> QED BY <2>1, <2>2
<1>3. history' = Append(old, pkt)
  BY DEF Hist!Add
<1> HIDE DEF old
<1>4. /\ history' \in Seq(Packets) /\ Len(history') = Len(old) + 1
      /\ history'[Len(old) + 1] = pkt
      /\ \A i \in 1 .. Len(old) : history'[i] = old[i]
  BY <1>1, <1>2, <1>3, AppendProperties
<1>5. \A i \in 1 .. Len(history') : i = Len(old) + 1 \/ i \in 1 .. Len(old)
  BY <1>2, <1>4
<1>6. Len(history') <= HistorySize
  BY <1>1, <1>2, <1>4
<1> QED BY <1>2, <1>4, <1>5, <1>6

(* The history after geoWorker went through it. *)
LEMMA HistoryUpdates ==
  ASSUME TypeOK, LabelsCoherent, WorkerInv, UpdateHistory
  PROVE  /\ history' \in Seq(Packets) /\ Len(history') = Len(history)
         /\ \A i \in 1 .. Len(history) : /\ history[i] \in Packets /\ Coherent(history[i])
                                         /\ history'[i] = Relabelled(history[i])
<1>1. /\ history \in Seq(Packets) /\ Len(history) \in Nat /\ DOMAIN history = 1 .. Len(history)
      /\ \A i \in 1 .. Len(history) : history[i] \in Packets /\ history[i] \in Range(history)
  <2>1. history \in Seq(Packets)
    BY DEF TypeOK
  <2> QED BY <2>1, SeqView
<1>2. ip \in Ips
  BY DEF UpdateHistory, WorkerInv
<1>3. history' = [i \in 1 .. Len(history) |-> Relabelled(history[i])]
  BY <1>1 DEF UpdateHistory, Hist!Update
<1>4. \A i \in 1 .. Len(history) : Coherent(history[i]) /\ Relabelled(history[i]) \in Packets
  BY <1>1, <1>2, RelabelledOK DEF LabelsCoherent
<1>5. history' \in [1 .. Len(history) -> Packets]
  BY <1>3, <1>4
<1>6. history' \in Seq(Packets) /\ Len(history') = Len(history)
  BY <1>1, <1>5
<1> QED BY <1>1, <1>3, <1>4, <1>6

(* Types: the conjuncts of TypeOK besides the list of the cache. *)
RestOK ==
  /\ geoDB \in BOOLEAN
  /\ disk \in [whole : BOOLEAN, keys : SUBSET Ips]
  /\ geoReqChan \in Seq(Ips) /\ Len(geoReqChan) <= ChanRoom
  /\ history \in Seq(Packets) /\ Len(history) <= HistorySize
  /\ packetCounter \in 0 .. MaxPackets
  /\ proc \in {"idle", "request", "filter"}
  /\ pkt \in Packets
  /\ worker \in {"idle", "lookup", "save", "write", "update"}
  /\ ip \in Ips \cup {Nowhere}
  /\ saving \in SUBSET Ips
  /\ missed \subseteq 1 .. MaxPackets
  /\ unanswered \subseteq Ips

(* A packet that is under way may be counted as missed. *)
LEMMA MissedOK ==
  ASSUME TypeOK, pkt.index > 0
  PROVE  missed \cup {pkt.index} \subseteq 1 .. MaxPackets
<1>1. pkt.index \in 0 .. MaxPackets /\ missed \subseteq 1 .. MaxPackets /\ MaxPackets \in Nat
  BY GeoAssumption DEF TypeOK, Packets
<1>2. pkt.index \in 1 .. MaxPackets
  BY <1>1
<1> QED BY <1>1, <1>2

(* Every step preserves the types. *)
LEMMA TypeStep ==
  ASSUME GeoInv, [Next]_vars
  PROVE  TypeOK'
<1>1. TypeOK /\ CacheSound /\ WorkerInv /\ PacketInv /\ LabelsCoherent
  BY DEF GeoInv
<1>2. list' \in Seq(Ips)
  BY <1>1, CacheStep
<1>3. SUFFICES RestOK'
  BY <1>2, <1>3 DEF RestOK, TypeOK
<1>4. RestOK
  BY <1>1 DEF TypeOK, RestOK
<1>5. <<>> \in Seq(Packets) /\ <<>> \in Seq(Ips) /\ Len(<<>>) = 0 /\ 0 <= HistorySize /\ 0 <= ChanRoom
  BY GeoAssumption
<1>6. NoPacket \in Packets
  BY NoPacketOK
<1> USE DEF RestOK, procvars, workervars
<1>7. ASSUME NEW flow \in Flows, ProcessPacket(flow[1], flow[2]) PROVE RestOK'
  <2>1. pkt' \in Packets /\ packetCounter' \in 0 .. MaxPackets /\ proc' \in {"filter", "request"}
    BY <1>1, <1>7, NewPacket
  <2>2. UNCHANGED <<geoDB, disk, geoReqChan, history, workervars, missed, unanswered, restarts>>
    BY <1>7 DEF ProcessPacket
  <2> QED BY <1>4, <2>1, <2>2
<1>8. CASE RequestLookup
  <2>1. Looked(pkt) \in Ips /\ pkt.index > 0
    BY <1>1, <1>8 DEF RequestLookup, PacketInv
  <2>2. geoReqChan' \in Seq(Ips) /\ Len(geoReqChan') <= ChanRoom
    <3>1. geoReqChan \in Seq(Ips) /\ Len(geoReqChan) \in Nat /\ ChanRoom \in Nat
      BY <1>4, GeoAssumption
    <3>2. CASE Len(geoReqChan) < ChanRoom
      BY <1>8, <2>1, <3>1, <3>2, AppendProperties DEF RequestLookup
    <3>3. CASE ~(Len(geoReqChan) < ChanRoom)
      BY <1>4, <1>8, <3>3 DEF RequestLookup
    <3> QED BY <3>2, <3>3
  <2>3. missed' \subseteq 1 .. MaxPackets
    BY <1>1, <1>4, <1>8, <2>1, MissedOK DEF RequestLookup
  <2> QED BY <1>4, <1>8, <2>2, <2>3 DEF RequestLookup
<1>9. CASE StorePacket
  <2>1. history' \in Seq(Packets) /\ Len(history') <= HistorySize
    BY <1>1, <1>9, HistoryAdds DEF StorePacket
  <2> QED BY <1>4, <1>6, <1>9, <2>1 DEF StorePacket
<1>10. CASE FilterOut
  BY <1>4, <1>6, <1>10 DEF FilterOut
<1>11. CASE ClearHistory
  BY <1>4, <1>5, <1>11 DEF ClearHistory, Hist!Clear
<1>12. CASE TakeRequest
  <2>1. /\ Head(geoReqChan) \in Ips /\ geoReqChan' \in Seq(Ips)
        /\ Len(geoReqChan') <= ChanRoom
    <3>1. geoReqChan \in Seq(Ips) /\ Len(geoReqChan) \in Nat /\ Len(geoReqChan) <= ChanRoom
          /\ ChanRoom \in Nat /\ geoReqChan # <<>> /\ geoReqChan' = Tail(geoReqChan)
      BY <1>4, <1>12, GeoAssumption DEF TakeRequest
    <3>2. /\ Head(geoReqChan) \in Ips /\ Tail(geoReqChan) \in Seq(Ips)
          /\ Len(Tail(geoReqChan)) = Len(geoReqChan) - 1
      BY <3>1, HeadTailProperties
    <3> QED BY <3>1, <3>2
  <2>2. /\ ip' \in Ips \cup {Nowhere} /\ worker' \in {"idle", "lookup"}
        /\ unanswered' \subseteq Ips
        /\ UNCHANGED <<geoDB, disk, history, procvars, saving, missed>>
    BY <1>4, <1>12, <2>1 DEF TakeRequest
  <2> QED BY <1>4, <2>1, <2>2
<1>13. CASE LookupFails \/ LookupSucceeds
  <2>1. ip \in Ips
    BY <1>1, <1>13 DEF LookupFails, LookupSucceeds, WorkerInv
  <2> QED BY <1>4, <1>13, <2>1 DEF LookupFails, LookupSucceeds
<1>14. CASE SaveBegins
  <2>1. DOMAIN cache \subseteq Ips
    BY <1>1, GeoAssumption DEF CacheSound
  <2>2. disk' \in [whole : BOOLEAN, keys : SUBSET Ips]
    BY <1>14 DEF SaveBegins
  <2> QED BY <1>4, <1>14, <2>1, <2>2 DEF SaveBegins
<1>15. CASE SaveEnds
  <2>1. disk' \in [whole : BOOLEAN, keys : SUBSET Ips]
    BY <1>4, <1>15 DEF SaveEnds
  <2> QED BY <1>4, <1>15, <2>1 DEF SaveEnds
<1>16. CASE UpdateHistory
  <2>1. history' \in Seq(Packets) /\ Len(history') = Len(history)
    BY <1>1, <1>16, HistoryUpdates
  <2>2. missed' \subseteq 1 .. MaxPackets
    <3>1. proc = "filter" => pkt.index > 0
      BY <1>1 DEF PacketInv
    <3> QED BY <1>1, <1>4, <1>16, <3>1, MissedOK DEF UpdateHistory
  <2> QED BY <1>4, <1>16, <2>1, <2>2 DEF UpdateHistory
<1>17. CASE Restart
  <2>1. 0 \in 0 .. MaxPackets
    BY GeoAssumption
  <2> QED BY <1>4, <1>5, <1>6, <1>17, <2>1 DEF Restart
<1>18. CASE UNCHANGED vars
  BY <1>4, <1>18 DEF vars
<1> HIDE DEF RestOK
<1> QED BY <1>7, <1>8, <1>9, <1>10, <1>11, <1>12, <1>13, <1>14, <1>15, <1>16, <1>17, <1>18
     DEF Next, WorkerStep

-----------------------------------------------------------------------------
(* The labels of the packets *)

(* What is stored keeps its labels, is relabelled or is new. *)
LEMMA LabelsStep ==
  ASSUME GeoInv, [Next]_vars
  PROVE  LabelsCoherent' /\ Coherent(pkt')
<1>1. TypeOK /\ CacheSound /\ WorkerInv /\ PacketInv /\ LabelsCoherent /\ Coherent(pkt)
  BY DEF GeoInv, PacketInv
<1>2. ASSUME UNCHANGED history PROVE LabelsCoherent'
  BY <1>1, <1>2 DEF LabelsCoherent
<1>3. ASSUME history' = <<>> PROVE LabelsCoherent'
  BY <1>3 DEF LabelsCoherent
<1>4. Coherent(NoPacket)
  BY NoPacketOK
<1>5. ASSUME NEW flow \in Flows, ProcessPacket(flow[1], flow[2]) PROVE LabelsCoherent' /\ Coherent(pkt')
  BY <1>1, <1>2, <1>5, NewPacket DEF ProcessPacket
<1>6. CASE StorePacket
  <2>1. LabelsCoherent'
    BY <1>1, <1>6, HistoryAdds DEF StorePacket, LabelsCoherent
  <2> QED BY <1>4, <1>6, <2>1 DEF StorePacket
<1>7. CASE FilterOut
  BY <1>2, <1>4, <1>7 DEF FilterOut
<1>8. CASE ClearHistory
  BY <1>1, <1>3, <1>8 DEF ClearHistory, Hist!Clear, procvars
<1>9. CASE UpdateHistory
  <2>1. ip \in Ips /\ pkt' = pkt
    BY <1>1, <1>9 DEF UpdateHistory, WorkerInv, procvars
  <2>2. LabelsCoherent'
    BY <1>1, <1>9, <2>1, HistoryUpdates, RelabelledOK DEF LabelsCoherent
  <2> QED BY <1>1, <2>1, <2>2
<1>10. CASE Restart
  BY <1>3, <1>4, <1>10 DEF Restart
<1>11. CASE RequestLookup \/ TakeRequest \/ LookupFails \/ LookupSucceeds \/ SaveBegins \/ SaveEnds
            \/ UNCHANGED vars
  <2>1. UNCHANGED <<history, pkt>>
    BY <1>11 DEF RequestLookup, TakeRequest, LookupFails, LookupSucceeds, SaveBegins, SaveEnds, vars,
         procvars
  <2> QED BY <1>1, <1>2, <2>1
<1> QED BY <1>5, <1>6, <1>7, <1>8, <1>9, <1>10, <1>11 DEF Next, WorkerStep

-----------------------------------------------------------------------------
(* The packets that wait for a lookup *)

(* Packet p is tracked after the step. *)
TrackedNext(p) ==
  p.country = Searching =>
    Looked(p) \in Pending' \/ Looked(p) \in unanswered' \/ p.index \in missed'

(* Pending in both states, by where geoWorker is. *)
LEMMA PendingView ==
  /\ worker = "idle" => Pending = Range(geoReqChan)
  /\ worker # "idle" => Pending = Range(geoReqChan) \cup {ip}
  /\ worker' = "idle" => Pending' = Range(geoReqChan')
  /\ worker' # "idle" => Pending' = Range(geoReqChan') \cup {ip'}
BY DEF Pending

(* A step under which the pending addresses stay pending or are given up   *)
(* keeps every packet tracked.                                             *)
LEMMA TrackedKeeps ==
  ASSUME missed \subseteq missed', unanswered \subseteq unanswered',
         Pending \subseteq Pending' \cup unanswered'
  PROVE  \A p : Tracked(p) => TrackedNext(p)
BY DEF Tracked, TrackedNext

(* A packet that is resolved is tracked. *)
LEMMA ResolvedTracked ==
  ASSUME NEW p, p.country # Searching
  PROVE  TrackedNext(p)
BY DEF TrackedNext

(* What a step must do about the packet in hand and the stored ones. *)
HandNext ==
  /\ proc' = "idle" => pkt' = NoPacket
  /\ proc' = "request" => pkt'.country = Searching /\ Looked(pkt') \in Ips
  /\ proc' = "filter" => TrackedNext(pkt')
  /\ proc' # "idle" => pkt'.index > 0

StoredNext == \A i \in 1 .. Len(history') : TrackedNext(history'[i])

(* The steps of the processor. *)
LEMMA ProcessorTracks ==
  ASSUME GeoInv,
         \/ \E flow \in Flows : ProcessPacket(flow[1], flow[2])
         \/ RequestLookup \/ StorePacket \/ FilterOut \/ ClearHistory
  PROVE  HandNext /\ StoredNext
<1>1. /\ TypeOK /\ CacheSound /\ WorkerInv
      /\ \A i \in 1 .. Len(history) : Tracked(history[i])
      /\ proc = "filter" => Tracked(pkt)
      /\ proc # "idle" => pkt.index > 0
      /\ proc = "idle" => pkt = NoPacket
  BY DEF GeoInv, PacketInv, SearchingIsPending
<1>2. missed \subseteq missed' /\ unanswered \subseteq unanswered'
  BY DEF ProcessPacket, RequestLookup, StorePacket, FilterOut, ClearHistory
<1>3. Pending \subseteq Pending'
  <2>1. UNCHANGED <<worker, ip>>
    BY DEF ProcessPacket, RequestLookup, StorePacket, FilterOut, ClearHistory, workervars
  <2>2. Range(geoReqChan) \subseteq Range(geoReqChan')
    <3>1. CASE UNCHANGED geoReqChan
      BY <3>1
    <3>2. CASE RequestLookup /\ Len(geoReqChan) < ChanRoom
      <4>1. geoReqChan \in Seq(Ips) /\ Looked(pkt) \in Ips /\ geoReqChan' = Append(geoReqChan, Looked(pkt))
        BY <3>2 DEF GeoInv, TypeOK, PacketInv, RequestLookup
      <4> QED BY <4>1, SentRange
    <3> QED BY <3>1, <3>2 DEF ProcessPacket, RequestLookup, StorePacket, FilterOut, ClearHistory
  <2> QED BY <2>1, <2>2 DEF Pending
<1>4. \A p : Tracked(p) => TrackedNext(p)
  BY <1>2, <1>3, TrackedKeeps
<1>5. ASSUME UNCHANGED history PROVE StoredNext
  BY <1>1, <1>4, <1>5 DEF StoredNext
<1>6. CASE \E flow \in Flows : ProcessPacket(flow[1], flow[2])
  <2>1. PICK flow \in Flows : ProcessPacket(flow[1], flow[2])
    BY <1>6
  <2>2. /\ pkt'.index > 0
        /\ \/ proc' = "filter" /\ pkt'.country # Searching
           \/ proc' = "request" /\ pkt'.country = Searching /\ Looked(pkt') \in Ips
    BY <1>1, <2>1, NewPacket
  <2>3. history' = history
    BY <2>1 DEF ProcessPacket
  <2> QED BY <1>5, <2>2, <2>3, ResolvedTracked DEF HandNext
<1>7. CASE RequestLookup
  <2>1. pkt' = pkt /\ proc' = "filter" /\ proc = "request" /\ history' = history
    BY <1>7 DEF RequestLookup
  <2>2. TrackedNext(pkt)
    <3>1. CASE Len(geoReqChan) < ChanRoom
      <4>1. geoReqChan \in Seq(Ips) /\ Looked(pkt) \in Ips /\ geoReqChan' = Append(geoReqChan, Looked(pkt))
        BY <1>7, <3>1 DEF GeoInv, TypeOK, PacketInv, RequestLookup
      <4>2. Looked(pkt) \in Range(geoReqChan')
        BY <4>1, SentRange
      <4> QED BY <4>2, PendingView DEF TrackedNext
    <3>2. CASE ~(Len(geoReqChan) < ChanRoom)
      BY <1>7, <3>2 DEF RequestLookup, TrackedNext
    <3> QED BY <3>1, <3>2
  <2> QED BY <1>1, <1>5, <2>1, <2>2 DEF HandNext
<1>8. NoPacket.country # Searching
  BY NoPacketOK
<1>9. CASE StorePacket
  <2>1. pkt' = NoPacket /\ proc' = "idle" /\ Tracked(pkt) /\ Hist!Add(pkt)
    BY <1>1, <1>9 DEF StorePacket
  <2>2. StoredNext
    BY <1>1, <1>4, <2>1, HistoryAdds DEF StoredNext
  <2> QED BY <1>8, <2>1, <2>2, ResolvedTracked DEF HandNext
<1>10. CASE FilterOut
  <2>1. pkt' = NoPacket /\ proc' = "idle" /\ history' = history
    BY <1>10 DEF FilterOut
  <2> QED BY <1>5, <1>8, <2>1, ResolvedTracked DEF HandNext
<1>11. CASE ClearHistory
  <2>1. pkt' = pkt /\ proc' = "idle" /\ proc = "idle" /\ history' = <<>>
    BY <1>11 DEF ClearHistory, Hist!Clear, procvars
  <2>2. StoredNext
    BY <2>1 DEF StoredNext
  <2> QED BY <1>1, <1>4, <2>1, <2>2 DEF HandNext
<1> QED BY <1>6, <1>7, <1>9, <1>10, <1>11

(* The steps of geoWorker: an address leaves Pending when it is given up   *)
(* or when the history has been relabelled.                                *)
LEMMA WorkerTracks ==
  ASSUME GeoInv, WorkerStep
  PROVE  HandNext /\ StoredNext
<1>1. /\ TypeOK /\ WorkerInv /\ LabelsCoherent /\ PacketInv
      /\ \A i \in 1 .. Len(history) : Tracked(history[i])
      /\ proc = "filter" => Tracked(pkt)
  BY DEF GeoInv, PacketInv, SearchingIsPending
<1>2. UNCHANGED <<proc, pkt>> /\ missed \subseteq missed' /\ unanswered \subseteq unanswered'
  BY DEF WorkerStep, TakeRequest, LookupFails, LookupSucceeds, SaveBegins, SaveEnds, UpdateHistory,
       procvars
<1>3. ASSUME TrackedNext(pkt) PROVE HandNext
  BY <1>1, <1>2, <1>3 DEF HandNext, PacketInv
<1>4. ASSUME history' = history, Pending \subseteq Pending' \cup unanswered'
      PROVE  HandNext /\ StoredNext
  <2>1. \A p : Tracked(p) => TrackedNext(p)
    BY <1>2, <1>4, TrackedKeeps
  <2>2. StoredNext
    BY <1>1, <1>4, <2>1 DEF StoredNext
  <2>3. HandNext
    BY <1>1, <1>2, <2>1 DEF HandNext, PacketInv
  <2> QED BY <2>2, <2>3
<1>5. CASE TakeRequest
  <2>1. /\ worker = "idle" /\ geoReqChan \in Seq(Ips) /\ geoReqChan # <<>>
        /\ geoReqChan' = Tail(geoReqChan) /\ history' = history
        /\ \/ ip' = Head(geoReqChan) /\ worker' = "lookup"
           \/ worker' = "idle" /\ Head(geoReqChan) \in unanswered'
    BY <1>1, <1>5 DEF TakeRequest, TypeOK
  <2>2. Range(geoReqChan) = Range(Tail(geoReqChan)) \cup {Head(geoReqChan)}
    BY <2>1, ReceivedRange
  <2>3. Pending \subseteq Pending' \cup unanswered'
    BY <2>1, <2>2, PendingView
  <2> QED BY <1>4, <2>1, <2>3
<1>6. CASE LookupFails
  <2>1. /\ ip \in unanswered' /\ worker # "idle" /\ worker' = "idle"
        /\ geoReqChan' = geoReqChan /\ history' = history
    BY <1>6 DEF LookupFails
  <2> QED BY <1>4, <2>1, PendingView
<1>7. CASE LookupSucceeds \/ SaveBegins \/ SaveEnds
  <2>1. /\ worker # "idle" /\ worker' # "idle" /\ ip' = ip
        /\ geoReqChan' = geoReqChan /\ history' = history
    BY <1>7 DEF LookupSucceeds, SaveBegins, SaveEnds
  <2> QED BY <1>4, <2>1, PendingView
<1>8. CASE UpdateHistory
  <2>1. /\ worker # "idle" /\ worker' = "idle" /\ geoReqChan' = geoReqChan /\ ip \in Ips
        /\ Pending = Range(geoReqChan) \cup {ip} /\ Pending' = Range(geoReqChan)
    <3>1. worker # "idle" /\ worker' = "idle" /\ geoReqChan' = geoReqChan
      BY <1>8 DEF UpdateHistory
    <3> QED BY <1>1, <3>1, PendingView DEF WorkerInv
  <2>2. \A p : Tracked(p) /\ Looked(p) # ip => TrackedNext(p)
    BY <1>2, <2>1 DEF Tracked, TrackedNext
  <2>3. ASSUME NEW i \in 1 .. Len(history')
        PROVE  TrackedNext(history'[i])
    <3>1. /\ i \in 1 .. Len(history) /\ history[i] \in Packets /\ Coherent(history[i])
          /\ history'[i] = Relabelled(history[i])
      BY <1>1, <1>8, HistoryUpdates
    <3>2. CASE history'[i].country # Searching
      BY <3>2, ResolvedTracked
    <3>3. CASE history'[i].country = Searching
      <4>1. history'[i] = history[i] /\ Looked(history[i]) # ip
        BY <2>1, <3>1, <3>3, RelabelledOK
      <4> QED BY <1>1, <2>2, <3>1, <4>1
    <3> QED BY <3>2, <3>3
  <2>4. CASE proc = "filter" /\ pkt.country = Searching /\ Looked(pkt) = ip /\ ip \notin Range(geoReqChan)
    <3>1. pkt.index \in missed'
      BY <1>8, <2>4 DEF UpdateHistory
    <3> QED BY <1>3, <2>3, <3>1 DEF TrackedNext, StoredNext
  <2>5. CASE ~(proc = "filter" /\ pkt.country = Searching /\ Looked(pkt) = ip /\ ip \notin Range(geoReqChan))
    <3>1. CASE proc = "filter"
      <4>1. TrackedNext(pkt)
        BY <1>1, <2>1, <2>2, <2>5, <3>1 DEF TrackedNext
      <4> QED BY <1>3, <2>3, <4>1 DEF StoredNext
    <3>2. CASE proc # "filter"
      BY <1>1, <1>2, <2>3, <3>2 DEF HandNext, PacketInv, StoredNext
    <3> QED BY <3>1, <3>2
  <2> QED BY <2>4, <2>5
<1> QED BY <1>5, <1>6, <1>7, <1>8 DEF WorkerStep

(* An address is given up without a database or after an error only, and   *)
(* the database neither opens nor closes while the process runs.           *)
LEMMA GivenUpStep ==
  ASSUME GeoInv, [Next]_vars
  PROVE  \A addr \in unanswered' : GivenUp(addr)'
<1>1. \A addr \in unanswered : GivenUp(addr)
  BY DEF GeoInv, SearchingIsPending
<1>2. geoDB' = geoDB
  BY DEF Next, WorkerStep, ProcessPacket, RequestLookup, StorePacket, FilterOut, ClearHistory,
       TakeRequest, LookupFails, LookupSucceeds, SaveBegins, SaveEnds, UpdateHistory, Restart, vars
<1>3. \A addr \in unanswered' : addr \in unanswered \/ ~geoDB \/ addr \notin Known
  BY DEF Next, WorkerStep, ProcessPacket, RequestLookup, StorePacket, FilterOut, ClearHistory,
       TakeRequest, LookupFails, LookupSucceeds, SaveBegins, SaveEnds, UpdateHistory, Restart, vars
<1> QED BY <1>1, <1>2, <1>3 DEF GivenUp

-----------------------------------------------------------------------------
(* The theorems *)

(* A process that has just started owes no packet anything. *)
LEMMA FreshTracks ==
  ASSUME proc' = "idle", pkt' = NoPacket, history' = <<>>
  PROVE  HandNext /\ StoredNext
BY DEF HandNext, StoredNext

(* Every step preserves the invariant. *)
LEMMA GeoStep == GeoInv /\ [Next]_vars => GeoInv'
<1> SUFFICES ASSUME GeoInv, [Next]_vars PROVE GeoInv'
  OBVIOUS
<1>1. TypeOK /\ CacheSound /\ WorkerInv /\ PacketInv
  BY DEF GeoInv
<1>2. HandNext /\ StoredNext
  <2>1. CASE Restart
    BY <2>1, FreshTracks DEF Restart
  <2>2. CASE UNCHANGED vars
    <3>1. UNCHANGED <<proc, pkt, history, missed, unanswered, Pending>>
      BY <2>2 DEF vars, procvars, workervars, Pending
    <3>2. \A p : Tracked(p) => TrackedNext(p)
      BY <3>1, TrackedKeeps
    <3> QED BY <3>1, <3>2 DEF GeoInv, PacketInv, SearchingIsPending, HandNext, StoredNext
  <2> QED BY <2>1, <2>2, ProcessorTracks, WorkerTracks DEF Next
<1>3. TypeOK'
  BY TypeStep
<1>4. CacheSound'
  BY <1>1, CacheStep
<1>5. WorkerInv'
  BY <1>1, WorkerStepInv
<1>6. LabelsCoherent' /\ Coherent(pkt')
  BY LabelsStep
<1>7. SearchingIsPending'
  BY <1>2, GivenUpStep DEF StoredNext, TrackedNext, SearchingIsPending, Tracked
<1>8. PacketInv'
  BY <1>2, <1>6 DEF HandNext, TrackedNext, PacketInv, Tracked
<1> QED BY <1>3, <1>4, <1>5, <1>6, <1>7, <1>8 DEF GeoInv

(* The process starts with an empty cache and history. *)
LEMMA GeoInit == Init => GeoInv
<1> SUFFICES ASSUME Init PROVE GeoInv
  OBVIOUS
<1>1. /\ <<>> \in Seq(Ips) /\ <<>> \in Seq(Packets) /\ Len(<<>>) = 0 /\ DOMAIN <<>> = {}
      /\ 0 <= ChanRoom /\ 0 <= HistorySize /\ 0 <= CacheCapacity /\ 0 \in 0 .. MaxPackets
  BY GeoAssumption
<1>2. cache = [k \in {} |-> k] /\ list = <<>>
  BY DEF Init, Lru!Init
<1>3. TypeOK
  <2>1. [whole |-> FALSE, keys |-> {}] \in [whole : BOOLEAN, keys : SUBSET Ips]
    OBVIOUS
  <2> QED BY <1>1, <1>2, <2>1, NoPacketOK DEF Init, TypeOK
<1>4. CacheSound
  BY <1>1, <1>2, SameNames DEF Init, CacheSound, Lru!CacheAgrees, Range, IsInjective
<1>5. WorkerInv
  BY <1>1, FS_EmptySet DEF Init, WorkerInv
<1>6. PacketInv
  BY NoPacketOK DEF Init, PacketInv
<1>7. SearchingIsPending /\ LabelsCoherent
  BY <1>1 DEF Init, SearchingIsPending, LabelsCoherent
<1> QED BY <1>3, <1>4, <1>5, <1>6, <1>7 DEF GeoInv

(* The processor and geoWorker, which share the cache, the channel and the *)
(* history and hold no lock over two steps, preserve GeoInv, and so does a *)
(* kill of the process at any point of saveGeoCacheToDisk.                 *)
THEOREM GeoInvariant == Spec => []GeoInv
<1> QED BY GeoInit, GeoStep, PTL DEF Spec

(* lruCache never has a key in its map only or in its list only, never     *)
(* outgrows its capacity and holds no address whose lookup failed, also    *)
(* when it was loaded from a file that was being rewritten.                *)
THEOREM CacheIsSound == Spec => []CacheSound
<1>1. GeoInv => CacheSound
  BY DEF GeoInv
<1> QED BY <1>1, GeoInvariant, PTL

(* A stored packet says "searching..." without a lookup under way only if  *)
(* its request was dropped, geoWorker passed before it was stored, or      *)
(* geoWorker gave its address up; and geoWorker gives an address up only   *)
(* without a database or when City returns an error.                       *)
THEOREM SearchesPend == Spec => []SearchingIsPending
<1>1. GeoInv => SearchingIsPending
  BY DEF GeoInv
<1> QED BY <1>1, GeoInvariant, PTL

(* The labels that getCountry and geoWorker write one after the other      *)
(* never mix two addresses.                                                *)
THEOREM LabelsAgree == Spec => []LabelsCoherent
<1>1. GeoInv => LabelsCoherent
  BY DEF GeoInv
<1> QED BY <1>1, GeoInvariant, PTL
=============================================================================
