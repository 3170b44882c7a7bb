--------------------------- MODULE ResolverProofs ---------------------------
(***************************************************************************)
(* Proofs about the DNS response cache, for every set of keys and          *)
(* responses and every value of its limits: types, the agreement of the    *)
(* entries map with the recency list, the lifetime bound, and that the     *)
(* cache is a bounded map.  Then proofs about ResolveQuery, for any number *)
(* of calls, refresh goroutines, clients and names: every step uses the    *)
(* cache as its own specification allows, admission is counted exactly,    *)
(* refreshes are single-flight, answers match their questions, and nothing *)
(* blocked for the whole of a call is answered.                            *)
(***************************************************************************)
EXTENDS Resolver, TLAPS, FiniteSetTheorems, SequenceTheorems, WellFoundedInduction

NoRepeat(s) == \A i, j \in 1..Len(s) : s[i] = s[j] => i = j

(* A non-empty set of naturals has a least element, which Min returns.      *)
LEMMA MinNat ==
    ASSUME NEW S \in SUBSET Nat, S # {}
    PROVE  Min(S) \in S /\ \A y \in S : Min(S) <= y
<1>1. PICK x \in S : \A y \in S : <<y, x>> \notin OpToRel(<, Nat)
  BY NatLessThanWellFounded, WFMin, Zenon
<1>2. \A y \in S : x <= y
  <2> TAKE y \in S
  <2>1. <<y, x>> \notin {p \in Nat \X Nat : p[1] < p[2]}
    BY <1>1, Zenon DEF OpToRel
  <2>2. ~(y < x)
    BY <2>1
  <2> QED
    BY <2>2
<1> QED
  BY <1>2 DEF Min

(* A response is given a natural lifetime within the cap, within every      *)
(* record TTL and, when negative, within every SOA MINIMUM, or zero.        *)
LEMMA ClampBounds ==
    ASSUME NEW r \in Response
    PROVE  /\ clampResponseTTLs(r) \in Nat
           /\ clampResponseTTLs(r) <= MaxTTL
           /\ \A t \in r.ttls : clampResponseTTLs(r) <= t
           /\ r.negative => \A m \in r.soa :
                clampResponseTTLs(r) > 0 => clampResponseTTLs(r) <= m
<1> DEFINE C == {Cap(t) : t \in r.ttls}
<1>1. /\ r.ttls \in SUBSET Nat /\ r.soa \in SUBSET Nat /\ r.negative \in BOOLEAN
      /\ MaxTTL \in Nat
  BY CacheAssumption DEF CacheAssumption, ResponseType
<1>2. \A t \in r.ttls : Cap(t) \in Nat /\ Cap(t) <= t /\ Cap(t) <= MaxTTL
  BY <1>1 DEF Cap
<1>3. CASE r.ttls = {}
  BY <1>1, <1>3 DEF clampResponseTTLs
<1>4. CASE r.ttls # {} /\ r.negative
  <2>1. clampResponseTTLs(r) = Min(C \cup r.soa)
    BY <1>4 DEF clampResponseTTLs
  <2>2. C \cup r.soa \in SUBSET Nat /\ C \cup r.soa # {}
    BY <1>1, <1>2, <1>4
  <2> DEFINE m == Min(C \cup r.soa)
  <2>3. m \in C \cup r.soa /\ \A y \in C \cup r.soa : m <= y
    BY <2>2, MinNat
  <2>4. m \in Nat /\ \A t \in r.ttls : m <= Cap(t)
    BY <2>2, <2>3
  <2>5. \A t \in r.ttls : m <= t /\ m <= MaxTTL
    BY <2>4, <1>1, <1>2
  <2> QED
    BY <2>1, <2>3, <2>4, <2>5, <1>4
<1>5. CASE r.ttls # {} /\ ~r.negative
  <2>1. clampResponseTTLs(r) = Min(C)
    BY <1>5 DEF clampResponseTTLs
  <2>2. C \in SUBSET Nat /\ C # {}
    BY <1>1, <1>2, <1>5
  <2> DEFINE m == Min(C)
  <2>3. m \in C /\ \A y \in C : m <= y
    BY <2>2, MinNat
  <2>4. m \in Nat /\ \A t \in r.ttls : m <= Cap(t)
    BY <2>2, <2>3
  <2>5. \A t \in r.ttls : m <= t /\ m <= MaxTTL
    BY <2>4, <1>1, <1>2
  <2> QED
    BY <2>1, <2>4, <2>5, <1>5
<1> QED
  BY <1>1, <1>3, <1>4, <1>5

(* Taking one key out of a list without repetitions removes it and nothing  *)
(* else: the list loses one element and keeps the others, each once.        *)
LEMMA WithoutProperties ==
    ASSUME NEW S, NEW s \in Seq(S), NoRepeat(s),
           NEW k, Contains(s, k)
    PROVE  /\ Without(s, k) \in Seq(S)
           /\ Len(Without(s, k)) = Len(s) - 1
           /\ NoRepeat(Without(s, k))
           /\ \A x : Contains(Without(s, k), x) <=> x # k /\ Contains(s, x)
<1> DEFINE n == IndexOf(s, k)
           a == SubSeq(s, 1, n - 1)
           b == SubSeq(s, n + 1, Len(s))
           w == a \o b
<1>1. n \in 1..Len(s) /\ s[n] = k
  BY DEF IndexOf, Contains
<1>2. Without(s, k) = w
  BY DEF Without, RemoveAt
<1>3. Len(s) \in Nat
  OBVIOUS
<1>4. /\ a \in Seq(S) /\ Len(a) = n - 1
      /\ \A i \in 1..n-1 : a[i] = s[i]
  BY <1>1, <1>3
<1>5. /\ b \in Seq(S) /\ Len(b) = Len(s) - n
      /\ \A i \in 1..Len(s)-n : b[i] = s[n + i]
  BY <1>1, <1>3
<1> HIDE DEF n, a, b
<1>6. /\ w \in Seq(S) /\ Len(w) = Len(s) - 1
      /\ \A i \in 1..Len(s)-1 : w[i] = IF i < n THEN s[i] ELSE s[i + 1]
  <2>1. n \in Nat /\ Len(a) \in Nat /\ Len(b) \in Nat /\ Len(a) + Len(b) = Len(s) - 1
    BY <1>1, <1>3, <1>4, <1>5
  <2>2. w \in Seq(S) /\ Len(w) = Len(a) + Len(b)
    BY <1>4, <1>5, ConcatProperties
  <2>3. \A i \in 1..Len(a)+Len(b) : w[i] = IF i <= Len(a) THEN a[i] ELSE b[i - Len(a)]
    BY <1>4, <1>5, ConcatProperties, Zenon
  <2>4. ASSUME NEW i \in 1..Len(s)-1
        PROVE  w[i] = IF i < n THEN s[i] ELSE s[i + 1]
    <3>1. CASE i < n
      BY <2>1, <2>3, <1>1, <1>4, <3>1
    <3>2. CASE ~(i < n)
      <4>1. w[i] = b[i - (n - 1)]
        BY <2>1, <2>3, <1>1, <1>4, <3>2
      <4>2. i - (n - 1) \in 1..Len(s)-n /\ n + (i - (n - 1)) = i + 1
        BY <2>1, <1>1, <1>3, <3>2
      <4> QED
        BY <4>1, <4>2, <1>5, <3>2
    <3> QED
      BY <3>1, <3>2
  <2> QED
    BY <2>1, <2>2, <2>4
<1> HIDE DEF w
<1>7. NoRepeat(w)
  <2> SUFFICES ASSUME NEW i \in 1..Len(w), NEW j \in 1..Len(w), w[i] = w[j]
               PROVE  i = j
    BY DEF NoRepeat
  <2> DEFINE at(m) == IF m < n THEN m ELSE m + 1
  <2>1. /\ at(i) \in 1..Len(s) /\ at(j) \in 1..Len(s)
        /\ w[i] = s[at(i)] /\ w[j] = s[at(j)]
    BY <1>1, <1>3, <1>6
  <2>2. at(i) = at(j)
    BY <2>1 DEF NoRepeat
  <2> QED
    BY <1>1, <1>3, <1>6, <2>2
<1>8. ASSUME NEW x
      PROVE  Contains(w, x) <=> x # k /\ Contains(s, x)
  <2>1. ASSUME NEW i \in 1..Len(w), w[i] = x
        PROVE  x # k /\ \E j \in 1..Len(s) : s[j] = x
    <3>1. CASE i < n
      BY <1>1, <1>3, <1>6, <2>1, <3>1 DEF NoRepeat
    <3>2. CASE ~(i < n)
      <4>1. i + 1 \in 1..Len(s) /\ s[i + 1] = x
        BY <1>1, <1>3, <1>6, <2>1, <3>2
      <4> QED
        BY <1>1, <1>3, <4>1, <3>2 DEF NoRepeat
    <3> QED
      BY <3>1, <3>2
  <2>2. ASSUME x # k, NEW j \in 1..Len(s), s[j] = x
        PROVE  \E i \in 1..Len(w) : w[i] = x
    <3>1. CASE j < n
      BY <1>1, <1>3, <1>6, <2>2, <3>1
    <3>2. CASE j > n
      <4>1. j - 1 \in 1..Len(w) /\ w[j - 1] = s[j]
        BY <1>1, <1>3, <1>6, <2>2, <3>2
      <4> QED
        BY <4>1, <2>2
    <3> QED
      BY <1>1, <1>3, <2>2, <3>1, <3>2
  <2> QED
    BY <2>1, <2>2 DEF Contains
<1> QED
  BY <1>2, <1>6, <1>7, <1>8

(* Pushing a new key on the front of a list without repetitions.            *)
LEMMA ConsProperties ==
    ASSUME NEW S, NEW s \in Seq(S), NoRepeat(s),
           NEW k \in S, ~Contains(s, k)
    PROVE  /\ <<k>> \o s \in Seq(S)
           /\ Len(<<k>> \o s) = Len(s) + 1
           /\ NoRepeat(<<k>> \o s)
           /\ \A x : Contains(<<k>> \o s, x) <=> x = k \/ Contains(s, x)
<1> DEFINE c == <<k>> \o s
<1>1. /\ c \in Seq(S) /\ Len(c) = Len(s) + 1 /\ Len(s) \in Nat
      /\ c[1] = k
      /\ \A i \in 2..Len(s)+1 : c[i] = s[i - 1]
  OBVIOUS
<1> HIDE DEF c
<1>2. NoRepeat(c)
  <2> SUFFICES ASSUME NEW i \in 1..Len(c), NEW j \in 1..Len(c), c[i] = c[j]
               PROVE  i = j
    BY DEF NoRepeat
  <2>1. \A m \in 1..Len(c) : m # 1 => m - 1 \in 1..Len(s) /\ c[m] = s[m - 1]
    BY <1>1
  <2>2. CASE i = 1 \/ j = 1
    BY <1>1, <2>1, <2>2 DEF Contains
  <2>3. CASE i # 1 /\ j # 1
    <3>1. i - 1 = j - 1
      BY <2>1, <2>3 DEF NoRepeat
    <3> QED
      BY <1>1, <3>1
  <2> QED
    BY <2>2, <2>3
<1>3. ASSUME NEW i \in 1..Len(s)
      PROVE  i + 1 \in 1..Len(c) /\ c[i + 1] = s[i]
  <2>1. i + 1 \in 2..Len(s)+1 /\ (i + 1) - 1 = i
    BY <1>1
  <2> QED
    BY <1>1, <2>1
<1>4. ASSUME NEW x
      PROVE  Contains(c, x) <=> x = k \/ Contains(s, x)
  <2>1. ASSUME NEW i \in 1..Len(c), c[i] = x
        PROVE  x = k \/ \E j \in 1..Len(s) : s[j] = x
    <3>1. CASE i = 1
      BY <1>1, <2>1, <3>1
    <3>2. CASE i # 1
      <4>1. i - 1 \in 1..Len(s) /\ s[i - 1] = x
        BY <1>1, <2>1, <3>2
      <4> QED
        BY <4>1
    <3> QED
      BY <3>1, <3>2
  <2> QED
    BY <1>1, <1>3, <2>1 DEF Contains
<1> QED
  BY <1>1, <1>2, <1>4 DEF c

(* Moving a listed key to the front keeps the keys, each once.              *)
LEMMA MoveToFrontProperties ==
    ASSUME NEW S, NEW s \in Seq(S), NoRepeat(s), NEW k \in S, Contains(s, k)
    PROVE  /\ MoveToFront(s, k) \in Seq(S)
           /\ Len(MoveToFront(s, k)) = Len(s)
           /\ NoRepeat(MoveToFront(s, k))
           /\ \A x : Contains(MoveToFront(s, k), x) <=> Contains(s, x)
<1> DEFINE w == Without(s, k)
           c == <<k>> \o w
<1>1. /\ w \in Seq(S) /\ Len(w) = Len(s) - 1 /\ NoRepeat(w)
      /\ \A x : Contains(w, x) <=> x # k /\ Contains(s, x)
  BY WithoutProperties, Zenon
<1> HIDE DEF w
<1>2. /\ c \in Seq(S) /\ Len(c) = Len(w) + 1 /\ NoRepeat(c)
      /\ \A x : Contains(c, x) <=> x = k \/ Contains(w, x)
  BY <1>1, ConsProperties, Zenon
<1>3. MoveToFront(s, k) = c
  BY DEF MoveToFront, w
<1>4. Len(s) \in Nat
  OBVIOUS
<1> HIDE DEF c
<1>5. \A x : Contains(c, x) <=> Contains(s, x)
  BY <1>1, <1>2, Zenon
<1>6. Len(c) = Len(s)
  BY <1>1, <1>2, <1>4
<1> QED
  BY <1>2, <1>3, <1>5, <1>6, Zenon

(* Dropping the back of a list without repetitions.                         *)
LEMMA DropBackProperties ==
    ASSUME NEW S, NEW s \in Seq(S), NoRepeat(s), Len(s) > 0
    PROVE  LET w == SubSeq(s, 1, Len(s) - 1) IN
           /\ w \in Seq(S) /\ Len(w) = Len(s) - 1 /\ NoRepeat(w)
           /\ Len(s) \in 1..Len(s)
           /\ \A x : Contains(w, x) <=> x # s[Len(s)] /\ Contains(s, x)
<1> DEFINE w == SubSeq(s, 1, Len(s) - 1)
<1>1. Len(s) \in Nat /\ Len(s) > 0
  OBVIOUS
<1>2. w \in Seq(S) /\ Len(w) = Len(s) - 1 /\ \A i \in 1..Len(s)-1 : w[i] = s[i]
  <2>1. Len(s) - 1 \in Int /\ \A i \in 1..Len(s)-1 : s[i] \in S
    BY <1>1
  <2>2. /\ w \in Seq(S)
        /\ Len(w) = IF 1 <= Len(s) - 1 THEN Len(s) - 1 - 1 + 1 ELSE 0
        /\ \A i \in 1..Len(s)-1-1+1 : w[i] = s[1 + i - 1]
    BY <2>1, SubSeqProperties
  <2> HIDE DEF w
  <2>3. Len(w) = Len(s) - 1
    <3>1. CASE 1 <= Len(s) - 1
      BY <1>1, <2>2, <3>1
    <3>2. CASE ~(1 <= Len(s) - 1)
      <4>1. Len(s) - 1 = 0
        <5>1. \A n \in Nat : n > 0 /\ ~(1 <= n - 1) => n - 1 = 0
          OBVIOUS
        <5> QED
          BY <1>1, <3>2, <5>1, Zenon
      <4>2. Len(w) = 0
        BY <2>2, <3>2, Zenon
      <4> QED
        BY <4>1, <4>2
    <3> QED
      BY <3>1, <3>2
  <2>4. ASSUME NEW i \in 1..Len(s)-1 PROVE w[i] = s[i]
    <3>1. i \in 1..Len(s)-1-1+1 /\ 1 + i - 1 = i
      BY <1>1
    <3> QED
      BY <2>2, <3>1
  <2> QED
    BY <2>2, <2>3, <2>4
<1> HIDE DEF w
<1>3. NoRepeat(w)
  BY <1>1, <1>2 DEF NoRepeat
<1>4. ASSUME NEW x
      PROVE  Contains(w, x) <=> x # s[Len(s)] /\ Contains(s, x)
  <2>1. ASSUME NEW i \in 1..Len(w), w[i] = x
        PROVE  x # s[Len(s)] /\ \E j \in 1..Len(s) : s[j] = x
    <3>1. i \in 1..Len(s) /\ s[i] = x /\ i # Len(s) /\ Len(s) \in 1..Len(s)
      BY <1>1, <1>2, <2>1
    <3> QED
      BY <3>1 DEF NoRepeat
  <2>2. ASSUME x # s[Len(s)], NEW j \in 1..Len(s), s[j] = x
        PROVE  \E i \in 1..Len(w) : w[i] = x
    <3>1. j \in 1..Len(w) /\ w[j] = x
      BY <1>1, <1>2, <2>2
    <3> QED
      BY <3>1
  <2> QED
    BY <2>1, <2>2 DEF Contains
<1> QED
  <2>1. Len(s) \in 1..Len(s)
    BY <1>1
  <2> QED
    BY <1>2, <1>3, <1>4, <2>1, Zenon DEF w
-----------------------------------------------------------------------------
(* The inductive invariant.  The three parts need one another: the list     *)
(* operations are only defined on listed keys, which ListMatchesMap gives,  *)
(* and the bound on a lifetime needs the types of the entries.              *)
CacheInv == CacheTypeOK /\ ListMatchesMap /\ LifetimeBounded

(* What every action that rewrites the list relies on.                      *)
LEMMA ListFacts ==
    ASSUME CacheInv
    PROVE  /\ lru \in Seq(Key) /\ NoRepeat(lru) /\ Len(lru) \in Nat
           /\ Len(lru) <= MaxEntries
           /\ \A k \in Key : Present(k) <=> Contains(lru, k)
<1>1. lru \in Seq(Key)
  BY DEF CacheInv, CacheTypeOK
<1>2. Len(lru) \in Nat
  BY <1>1
<1>3. NoRepeat(lru) /\ Len(lru) <= MaxEntries /\ \A k \in Key : Present(k) <=> Contains(lru, k)
  BY Zenon DEF CacheInv, ListMatchesMap, NoRepeat
<1> QED
  BY <1>1, <1>2, <1>3

(* The lifetime part for one entry at time t.                               *)
Bounded(e, t) ==
    /\ e.ttl > 0
    /\ e.ttl <= MaxTTL
    /\ \A u \in e.msg.ttls : e.ttl <= u
    /\ e.msg.negative => \A m \in e.msg.soa : e.ttl <= m
    /\ e.storedAt <= t

(* Bounded is what LifetimeBounded says of each entry.                      *)
LEMMA BoundedEntries ==
    LifetimeBounded <=> \A k \in Key : entry[k] # NoEntry => Bounded(entry[k], now)
BY Zenon DEF LifetimeBounded, Bounded, Present

(* The types and lifetime of the entries after an action, from the entries  *)
(* it leaves alone and the ones it writes; and the list part from lists     *)
(* that list exactly the present keys.                                      *)
LEMMA InvFromParts ==
    ASSUME entry' \in [Key -> Entry \cup {NoEntry}],
           now' \in 0..MaxTime,
           refreshing' \subseteq Key,
           lru' \in Seq(Key), NoRepeat(lru'), Len(lru') <= MaxEntries,
           \A k \in Key : (entry'[k] # NoEntry) <=> Contains(lru', k),
           \A k \in Key : entry'[k] # NoEntry => Bounded(entry'[k], now')
    PROVE  CacheInv'
<1>1. CacheTypeOK'
  BY DEF CacheTypeOK
<1>2. ListMatchesMap'
  BY Zenon DEF ListMatchesMap, NoRepeat, Present
<1>3. LifetimeBounded'
  BY Zenon DEF LifetimeBounded, Bounded, Present
<1> QED
  BY <1>1, <1>2, <1>3 DEF CacheInv

(* Initially the cache is empty.                                            *)
LEMMA CacheInitInv == CacheInit => CacheInv
<1> SUFFICES ASSUME CacheInit PROVE CacheInv
  OBVIOUS
<1>1. CacheTypeOK
  BY CacheAssumption DEF CacheInit, CacheTypeOK, CacheAssumption
<1>2. ListMatchesMap
  <2>1. Len(lru) = 0 /\ MaxEntries \in Nat
    BY CacheAssumption DEF CacheInit, CacheAssumption
  <2>2. \A k \in Key : ~Present(k)
    BY DEF CacheInit, Present
  <2>3. \A k \in Key : ~Contains(lru, k)
    BY <2>1 DEF Contains
  <2> QED
    BY <2>1, <2>2, <2>3 DEF ListMatchesMap
<1>3. LifetimeBounded
  BY DEF CacheInit, LifetimeBounded, Present
<1> QED
  BY <1>1, <1>2, <1>3 DEF CacheInv

(* A hit only moves its key to the front and counts.                        *)
LEMMA GetHitInv ==
    ASSUME CacheInv, NEW k \in Key, GetHit(k)
    PROVE  CacheInv'
<1>1. Present(k) /\ Contains(lru, k)
  BY ListFacts DEF GetHit, Fresh
<1>2. lru' = MoveToFront(lru, k) /\ refreshing' = refreshing /\ now' = now
  BY DEF GetHit
<1>3. /\ lru' \in Seq(Key) /\ Len(lru') = Len(lru) /\ NoRepeat(lru')
      /\ \A x : Contains(lru', x) <=> Contains(lru, x)
  BY <1>1, <1>2, ListFacts, MoveToFrontProperties, Zenon
<1>4. /\ entry \in [Key -> Entry \cup {NoEntry}]
      /\ entry[k] \in Entry /\ RefreshMinHits \in Nat
  BY <1>1, CacheAssumption DEF CacheInv, CacheTypeOK, Present, CacheAssumption
<1> DEFINE h == IF entry[k].hits < RefreshMinHits
                  THEN entry[k].hits + 1 ELSE entry[k].hits
<1>5. h \in Nat
  BY <1>4 DEF Entry
<1> HIDE DEF h
<1>6. entry' = [entry EXCEPT ![k] = [entry[k] EXCEPT !.hits = h]]
  BY DEF GetHit, h
<1>7. /\ entry'[k] \in Entry
      /\ entry'[k].msg = entry[k].msg /\ entry'[k].ttl = entry[k].ttl
      /\ entry'[k].storedAt = entry[k].storedAt
  BY <1>4, <1>5, <1>6 DEF Entry
<1>8. \A j \in Key : j # k => entry'[j] = entry[j]
  BY <1>4, <1>6
<1>9. entry' \in [Key -> Entry \cup {NoEntry}]
  BY <1>4, <1>6, <1>7
<1>10. NoEntry \notin Entry
  BY CacheAssumption DEF CacheAssumption, Entry
<1>11. \A j \in Key : (entry'[j] # NoEntry) <=> Contains(lru', j)
  BY <1>1, <1>3, <1>7, <1>8, <1>10, ListFacts DEF Present
<1>12. ASSUME NEW j \in Key, entry'[j] # NoEntry
       PROVE  Bounded(entry'[j], now')
  <2>1. /\ entry'[j].msg = entry[j].msg /\ entry'[j].ttl = entry[j].ttl
        /\ entry'[j].storedAt = entry[j].storedAt /\ entry[j] # NoEntry
    BY <1>1, <1>7, <1>8, <1>12 DEF Present
  <2>2. Bounded(entry[j], now)
    BY <2>1, BoundedEntries, Zenon DEF CacheInv
  <2> QED
    BY <1>2, <2>1, <2>2, Zenon DEF Bounded
<1>13. now' \in 0..MaxTime /\ refreshing' \subseteq Key /\ Len(lru') <= MaxEntries
  BY <1>2, <1>3, ListFacts DEF CacheInv, CacheTypeOK
<1> QED
  BY <1>3, <1>9, <1>11, <1>12, <1>13, InvFromParts, Zenon

(* An expired entry leaves the map and the list together.                   *)
LEMMA GetExpiredInv ==
    ASSUME CacheInv, NEW k \in Key, GetExpired(k)
    PROVE  CacheInv'
<1>1. Present(k) /\ Contains(lru, k)
  BY ListFacts DEF GetExpired
<1>2. /\ lru' = Without(lru, k) /\ refreshing' = refreshing /\ now' = now
      /\ entry' = [entry EXCEPT ![k] = NoEntry]
  BY DEF GetExpired
<1>3. /\ lru' \in Seq(Key) /\ Len(lru') = Len(lru) - 1 /\ NoRepeat(lru')
      /\ \A x : Contains(lru', x) <=> x # k /\ Contains(lru, x)
  BY <1>1, <1>2, ListFacts, WithoutProperties, Zenon
<1>4. entry \in [Key -> Entry \cup {NoEntry}]
  BY DEF CacheInv, CacheTypeOK
<1>5. /\ entry' \in [Key -> Entry \cup {NoEntry}]
      /\ \A j \in Key : entry'[j] = IF j = k THEN NoEntry ELSE entry[j]
  BY <1>2, <1>4
<1>6. \A j \in Key : (entry'[j] # NoEntry) <=> Contains(lru', j)
  BY <1>3, <1>5, ListFacts DEF Present
<1>7. \A j \in Key : entry'[j] # NoEntry => Bounded(entry'[j], now')
  BY <1>2, <1>5, BoundedEntries DEF CacheInv
<1>8. /\ now' \in 0..MaxTime /\ refreshing' \subseteq Key /\ Len(lru') <= MaxEntries
  <2>1. Len(lru) \in Nat /\ Len(lru) <= MaxEntries /\ MaxEntries \in Nat
    BY ListFacts, CacheAssumption DEF CacheAssumption
  <2> QED
    BY <1>2, <1>3, <2>1 DEF CacheInv, CacheTypeOK
<1> QED
  BY <1>3, <1>5, <1>6, <1>7, <1>8, InvFromParts, Zenon

(* The fields Put writes for a storable response satisfy the bounds.        *)
LEMMA StoredFields ==
    ASSUME CacheInv, NEW r \in Response, Storable(r), NEW t \in PutClock
    PROVE  /\ t \in Nat /\ t <= now
           /\ clampResponseTTLs(r) \in Nat
           /\ \A e : e.msg = r /\ e.storedAt = t /\ e.ttl = clampResponseTTLs(r)
                       => Bounded(e, now)
<1>1. t \in Nat /\ t <= now
  BY DEF PutClock, CacheInv, CacheTypeOK
<1>2. /\ clampResponseTTLs(r) \in Nat
      /\ clampResponseTTLs(r) > 0
      /\ clampResponseTTLs(r) <= MaxTTL
      /\ \A u \in r.ttls : clampResponseTTLs(r) <= u
      /\ r.negative => \A m \in r.soa : clampResponseTTLs(r) <= m
  BY ClampBounds, Zenon DEF Storable
<1> QED
  BY <1>1, <1>2, Zenon DEF Bounded

(* Replacing the message of a key that is present.                          *)
LEMMA PutReplaceInv ==
    ASSUME CacheInv, NEW k \in Key, NEW r \in Response, PutReplace(k, r)
    PROVE  CacheInv'
<1>1. Present(k) /\ Contains(lru, k) /\ Storable(r)
  BY ListFacts DEF PutReplace
<1>2. lru' = MoveToFront(lru, k) /\ refreshing' = refreshing /\ now' = now
  BY DEF PutReplace
<1>3. PICK t \in PutClock :
        entry' = [entry EXCEPT ![k].msg = r, ![k].storedAt = t,
                               ![k].ttl = clampResponseTTLs(r)]
  BY DEF PutReplace
<1>4. /\ t \in Nat /\ t <= now /\ clampResponseTTLs(r) \in Nat
      /\ \A e : e.msg = r /\ e.storedAt = t /\ e.ttl = clampResponseTTLs(r)
                  => Bounded(e, now)
  BY <1>1, StoredFields, Zenon
<1>5. /\ lru' \in Seq(Key) /\ Len(lru') = Len(lru) /\ NoRepeat(lru')
      /\ \A x : Contains(lru', x) <=> Contains(lru, x)
  BY <1>1, <1>2, ListFacts, MoveToFrontProperties, Zenon
<1>6. entry \in [Key -> Entry \cup {NoEntry}] /\ entry[k] \in Entry
  BY <1>1 DEF CacheInv, CacheTypeOK, Present
<1>7. /\ entry'[k] \in Entry /\ entry'[k].msg = r
      /\ entry'[k].storedAt = t /\ entry'[k].ttl = clampResponseTTLs(r)
  BY <1>3, <1>4, <1>6 DEF Entry
<1>8. \A j \in Key : j # k => entry'[j] = entry[j]
  BY <1>3, <1>6
<1>9. entry' \in [Key -> Entry \cup {NoEntry}]
  BY <1>3, <1>6, <1>7
<1>10. NoEntry \notin Entry
  BY CacheAssumption DEF CacheAssumption, Entry
<1>11. \A j \in Key : (entry'[j] # NoEntry) <=> Contains(lru', j)
  BY <1>1, <1>5, <1>7, <1>8, <1>10, ListFacts DEF Present
<1>12. ASSUME NEW j \in Key, entry'[j] # NoEntry
       PROVE  Bounded(entry'[j], now')
  <2>1. CASE j = k
    BY <1>2, <1>4, <1>7, <2>1, Zenon
  <2>2. CASE j # k
    BY <1>2, <1>8, <1>12, <2>2, BoundedEntries DEF CacheInv
  <2> QED
    BY <2>1, <2>2
<1>13. now' \in 0..MaxTime /\ refreshing' \subseteq Key /\ Len(lru') <= MaxEntries
  BY <1>2, <1>5, ListFacts DEF CacheInv, CacheTypeOK
<1> QED
  BY <1>5, <1>9, <1>11, <1>12, <1>13, InvFromParts, Zenon

(* A new entry is well typed and within its bounds.                         *)
LEMMA NewEntryFacts ==
    ASSUME CacheInv, NEW r \in Response, Storable(r), NEW t \in PutClock
    PROVE  NewEntry(r, t) \in Entry /\ Bounded(NewEntry(r, t), now)
<1>1. /\ t \in Nat /\ clampResponseTTLs(r) \in Nat
      /\ \A e : e.msg = r /\ e.storedAt = t /\ e.ttl = clampResponseTTLs(r)
                  => Bounded(e, now)
  BY StoredFields, Zenon
<1>2. /\ NewEntry(r, t) \in Entry
      /\ NewEntry(r, t).msg = r /\ NewEntry(r, t).storedAt = t
      /\ NewEntry(r, t).ttl = clampResponseTTLs(r)
  BY <1>1 DEF NewEntry, Entry
<1> QED
  BY <1>1, <1>2, Zenon

(* Inserting a new key below the limit.                                     *)
LEMMA PutInsertInv ==
    ASSUME CacheInv, NEW k \in Key, NEW r \in Response, PutInsert(k, r)
    PROVE  CacheInv'
<1>1. ~Present(k) /\ ~Contains(lru, k) /\ Storable(r) /\ Len(lru) < MaxEntries
  BY ListFacts DEF PutInsert
<1>2. lru' = <<k>> \o lru /\ refreshing' = refreshing /\ now' = now
  BY DEF PutInsert
<1>3. PICK t \in PutClock : entry' = [entry EXCEPT ![k] = NewEntry(r, t)]
  BY DEF PutInsert
<1>4. NewEntry(r, t) \in Entry /\ Bounded(NewEntry(r, t), now)
  BY <1>1, NewEntryFacts, Zenon
<1>5. /\ lru' \in Seq(Key) /\ Len(lru') = Len(lru) + 1 /\ NoRepeat(lru')
      /\ \A x : Contains(lru', x) <=> x = k \/ Contains(lru, x)
  BY <1>1, <1>2, ListFacts, ConsProperties, Zenon
<1>6. entry \in [Key -> Entry \cup {NoEntry}] /\ NoEntry \notin Entry
  BY CacheAssumption DEF CacheInv, CacheTypeOK, CacheAssumption, Entry
<1>7. /\ entry' \in [Key -> Entry \cup {NoEntry}]
      /\ \A j \in Key : entry'[j] = IF j = k THEN NewEntry(r, t) ELSE entry[j]
  BY <1>3, <1>4, <1>6
<1>8. \A j \in Key : (entry'[j] # NoEntry) <=> Contains(lru', j)
  BY <1>4, <1>5, <1>6, <1>7, ListFacts DEF Present
<1>9. \A j \in Key : entry'[j] # NoEntry => Bounded(entry'[j], now')
  BY <1>2, <1>4, <1>7, BoundedEntries DEF CacheInv
<1>10. now' \in 0..MaxTime /\ refreshing' \subseteq Key /\ Len(lru') <= MaxEntries
  <2>1. Len(lru) \in Nat /\ MaxEntries \in Nat
    BY ListFacts, CacheAssumption DEF CacheAssumption
  <2> QED
    BY <1>1, <1>2, <1>5, <2>1 DEF CacheInv, CacheTypeOK
<1> QED
  BY <1>5, <1>7, <1>8, <1>9, <1>10, InvFromParts, Zenon

(* At the limit the cache is exactly full, and its back is a listed key.    *)
LEMMA FullCache ==
    ASSUME CacheInv, Len(lru) >= MaxEntries
    PROVE  /\ Len(lru) = MaxEntries /\ Len(lru) > 0
           /\ lru[Len(lru)] \in Key /\ Contains(lru, lru[Len(lru)])
<1>1. Len(lru) \in Nat /\ Len(lru) <= MaxEntries /\ lru \in Seq(Key)
      /\ MaxEntries \in Nat \ {0}
  BY ListFacts, CacheAssumption DEF CacheAssumption
<1>2. Len(lru) = MaxEntries /\ Len(lru) \in 1..Len(lru)
  BY <1>1
<1> QED
  BY <1>1, <1>2 DEF Contains

(* Inserting a new key at the limit costs the key at the back of the list.  *)
LEMMA PutEvictInv ==
    ASSUME CacheInv, NEW k \in Key, NEW r \in Response, PutEvict(k, r)
    PROVE  CacheInv'
<1> DEFINE b == lru[Len(lru)]
           w == SubSeq(lru, 1, Len(lru) - 1)
<1>1. ~Present(k) /\ ~Contains(lru, k) /\ Storable(r) /\ Len(lru) >= MaxEntries
  BY ListFacts DEF PutEvict
<1>2. lru' = <<k>> \o w /\ refreshing' = refreshing /\ now' = now
  BY DEF PutEvict
<1>3. PICK t \in PutClock :
        entry' = [entry EXCEPT ![k] = NewEntry(r, t), ![b] = NoEntry]
  BY DEF PutEvict
<1>4. NewEntry(r, t) \in Entry /\ Bounded(NewEntry(r, t), now)
  BY <1>1, NewEntryFacts, Zenon
<1>5. Len(lru) = MaxEntries /\ Len(lru) > 0 /\ b \in Key /\ Contains(lru, b)
  BY <1>1, FullCache, Zenon
<1>6. /\ w \in Seq(Key) /\ Len(w) = Len(lru) - 1 /\ NoRepeat(w)
      /\ \A x : Contains(w, x) <=> x # b /\ Contains(lru, x)
  BY <1>5, ListFacts, DropBackProperties, Zenon
<1> HIDE DEF b, w
<1>7. b # k
  BY <1>1, <1>5
<1>8. ~Contains(w, k)
  BY <1>1, <1>6
<1>9. /\ lru' \in Seq(Key) /\ Len(lru') = Len(w) + 1 /\ NoRepeat(lru')
      /\ \A x : Contains(lru', x) <=> x = k \/ Contains(w, x)
  BY <1>2, <1>6, <1>8, ConsProperties, Zenon
<1>10. entry \in [Key -> Entry \cup {NoEntry}] /\ NoEntry \notin Entry
  BY CacheAssumption DEF CacheInv, CacheTypeOK, CacheAssumption, Entry
<1>11. /\ entry' \in [Key -> Entry \cup {NoEntry}]
       /\ \A j \in Key : entry'[j] = IF j = k THEN NewEntry(r, t)
                                   ELSE IF j = b THEN NoEntry ELSE entry[j]
  BY <1>3, <1>4, <1>5, <1>7, <1>10
<1>12. \A j \in Key : (entry'[j] # NoEntry) <=> Contains(lru', j)
  BY <1>4, <1>6, <1>7, <1>9, <1>10, <1>11, ListFacts DEF Present
<1>13. \A j \in Key : entry'[j] # NoEntry => Bounded(entry'[j], now')
  BY <1>2, <1>4, <1>11, BoundedEntries DEF CacheInv
<1>14. now' \in 0..MaxTime /\ refreshing' \subseteq Key /\ Len(lru') <= MaxEntries
  <2>1. Len(lru) \in Nat
    BY ListFacts
  <2> QED
    BY <1>2, <1>5, <1>6, <1>9, <2>1 DEF CacheInv, CacheTypeOK
<1> QED
  BY <1>9, <1>11, <1>12, <1>13, <1>14, InvFromParts, Zenon

(* Put as a whole.                                                          *)
LEMMA PutInv ==
    ASSUME CacheInv, NEW k \in Key, NEW r \in Response, Put(k, r)
    PROVE  CacheInv'
<1>1. CASE PutRefused(r)
  <2>1. UNCHANGED cacheVars
    BY <1>1 DEF PutRefused
  <2> QED
    BY <2>1 DEF CacheInv, CacheTypeOK, ListMatchesMap, LifetimeBounded, Present, cacheVars
<1> QED
  BY <1>1, PutReplaceInv, PutInsertInv, PutEvictInv DEF Put

(* Actions that touch only the refresh slots or the clock.                  *)
LEMMA SlotOrClockInv ==
    ASSUME CacheInv, entry' = entry, lru' = lru, refreshing' \subseteq Key,
           now' \in 0..MaxTime, now <= now'
    PROVE  CacheInv'
<1>1. CacheTypeOK'
  BY DEF CacheInv, CacheTypeOK
<1>2. ListMatchesMap'
  BY DEF CacheInv, ListMatchesMap, Present
<1>3. ASSUME NEW k \in Key, entry[k] # NoEntry
      PROVE  Bounded(entry[k], now')
  <2>1. entry[k] \in Entry /\ Bounded(entry[k], now)
    BY <1>3, BoundedEntries DEF CacheInv, CacheTypeOK
  <2>2. entry[k].storedAt \in Nat /\ now \in Nat
    BY <2>1 DEF Entry, CacheInv, CacheTypeOK
  <2>3. entry[k].storedAt <= now'
    BY <2>1, <2>2 DEF Bounded
  <2> QED
    BY <2>1, <2>3, Zenon DEF Bounded
<1>4. LifetimeBounded'
  BY <1>3, Zenon DEF LifetimeBounded, Bounded, Present
<1> QED
  BY <1>1, <1>2, <1>4 DEF CacheInv

(* Every action preserves the invariant.                                    *)
LEMMA CacheNextInv == CacheInv /\ [CacheNext]_cacheVars => CacheInv'
<1> SUFFICES ASSUME CacheInv, [CacheNext]_cacheVars PROVE CacheInv'
  OBVIOUS
<1>1. CASE UNCHANGED cacheVars
  BY <1>1 DEF CacheInv, CacheTypeOK, ListMatchesMap, LifetimeBounded, Present, cacheVars
<1>2. ASSUME NEW k \in Key, GetAbsent(k) PROVE CacheInv'
  BY <1>1, <1>2 DEF GetAbsent
<1>3. ASSUME NEW k \in Key, BeginRefresh(k) PROVE CacheInv'
  BY <1>3, SlotOrClockInv DEF BeginRefresh, CacheInv, CacheTypeOK
<1>4. ASSUME NEW k \in Key, EndRefresh(k) PROVE CacheInv'
  BY <1>4, SlotOrClockInv DEF EndRefresh, CacheInv, CacheTypeOK
<1>5. CASE Tick
  <2>1. now \in 0..MaxTime /\ MaxTime \in Nat
    BY CacheAssumption DEF CacheInv, CacheTypeOK, CacheAssumption
  <2> QED
    BY <1>5, <2>1, SlotOrClockInv DEF Tick, CacheInv, CacheTypeOK
<1> QED
  BY <1>1, <1>2, <1>3, <1>4, <1>5, GetHitInv, GetExpiredInv, PutInv, Zenon DEF CacheNext

(* Map and list agree, entries are typed and live within the bounds their   *)
(* records set, in every reachable state of the cache.                      *)
THEOREM CacheCorrect ==
    CacheSpec => [](CacheTypeOK /\ ListMatchesMap /\ LifetimeBounded)
<1>1. CacheInv => CacheTypeOK /\ ListMatchesMap /\ LifetimeBounded
  BY DEF CacheInv
<1> QED
  BY <1>1, CacheInitInv, CacheNextInv, PTL DEF CacheSpec
-----------------------------------------------------------------------------
(* The cache as a bounded map: the value of a key is its message.           *)
Bar == [k \in Key |-> IF Present(k) THEN entry[k].msg ELSE NoEntry]

(* The keys the abstract cache holds are the present ones, and the list     *)
(* counts them.                                                             *)
LEMMA HeldCount ==
    ASSUME CacheInv
    PROVE  /\ Promise!Held(Bar) = {k \in Key : Present(k)}
           /\ Promise!Cardinality(Promise!Held(Bar)) = Len(lru)
<1> DEFINE H == {k \in Key : Present(k)}
<1>1. \A k \in Key : Present(k) => entry[k].msg # NoEntry
  BY CacheAssumption DEF CacheInv, CacheTypeOK, Entry, Present, CacheAssumption
<1>2. Promise!Held(Bar) = H
  BY <1>1 DEF Promise!Held, Bar, Present
<1>3. Len(lru) \in Nat /\ lru \in Seq(Key) /\ NoRepeat(lru)
      /\ \A k \in Key : Present(k) <=> Contains(lru, k)
  BY ListFacts, Zenon
<1>4. \A i \in 1..Len(lru) : lru[i] \in H
  BY <1>3 DEF Contains
<1>5. lru \in [1..Len(lru) -> H]
  BY <1>3, <1>4
<1>6. \A k \in H : \E i \in 1..Len(lru) : lru[i] = k
  BY <1>3 DEF Contains
<1>7. IsInjective(lru)
  <2>1. DOMAIN lru = 1..Len(lru)
    BY <1>3
  <2> QED
    BY <1>3, <2>1, Zenon DEF IsInjective, NoRepeat
<1> HIDE DEF H
<1>8. lru \in Bijection(1..Len(lru), H)
  BY <1>5, <1>6, <1>7, Zenon DEF Bijection, Injection, Surjection
<1>9. ExistsBijection(1..Len(lru), H)
  BY <1>8, Zenon DEF ExistsBijection
<1>10. IsFiniteSet(1..Len(lru)) /\ Cardinality(1..Len(lru)) = Len(lru)
  <2>1. 1 \in Int /\ Len(lru) \in Int /\ Len(lru) - 1 + 1 = Len(lru) /\ ~(1 > Len(lru) /\ Len(lru) # 0)
    BY <1>3
  <2> QED BY <1>3, <2>1, FS_Interval
<1>11. Cardinality(H) = Len(lru)
  BY <1>9, <1>10, FS_Bijection, Zenon
<1>12. Promise!Cardinality(H) = Cardinality(H)
  BY Zenon DEF Promise!Cardinality, Cardinality
<1> QED
  BY <1>2, <1>11, <1>12 DEF H

(* A step that leaves every message where it is, is a stutter.              *)
LEMMA BarUnchanged ==
    ASSUME \A k \in Key : /\ (entry'[k] # NoEntry) <=> (entry[k] # NoEntry)
                          /\ entry[k] # NoEntry => entry'[k].msg = entry[k].msg
    PROVE  Bar' = Bar
BY DEF Bar, Present

(* A lookup that hits changes no value.                                     *)
LEMMA GetHitStutters ==
    ASSUME CacheInv, NEW k \in Key, GetHit(k)
    PROVE  Bar' = Bar
<1>1. /\ entry \in [Key -> Entry \cup {NoEntry}] /\ entry[k] \in Entry
      /\ NoEntry \notin Entry /\ RefreshMinHits \in Nat
  BY CacheAssumption
     DEF GetHit, Fresh, Present, CacheInv, CacheTypeOK, CacheAssumption, Entry
<1> DEFINE h == IF entry[k].hits < RefreshMinHits
                  THEN entry[k].hits + 1 ELSE entry[k].hits
<1>2. h \in Nat
  BY <1>1 DEF Entry
<1> HIDE DEF h
<1>3. entry' = [entry EXCEPT ![k] = [entry[k] EXCEPT !.hits = h]]
  BY DEF GetHit, h
<1>4. entry'[k] \in Entry /\ entry'[k].msg = entry[k].msg
  BY <1>1, <1>2, <1>3 DEF Entry
<1>5. \A j \in Key : j # k => entry'[j] = entry[j]
  BY <1>1, <1>3
<1> QED
  BY <1>1, <1>4, <1>5, BarUnchanged

(* Put of a storable response is a store, evicting when the cache is full.  *)
LEMMA PutImplements ==
    ASSUME CacheInv, NEW k \in Key, NEW r \in Response, Put(k, r)
    PROVE  Promise!Next \/ Bar' = Bar
<1> DEFINE H == Promise!Held(Bar)
<1>0. /\ entry \in [Key -> Entry \cup {NoEntry}] /\ NoEntry \notin Entry
      /\ NoEntry \notin Response
  BY CacheAssumption DEF CacheInv, CacheTypeOK, CacheAssumption, Entry
<1>1. /\ H = {j \in Key : Present(j)} /\ Promise!Cardinality(H) = Len(lru)
      /\ Len(lru) \in Nat
  BY HeldCount, ListFacts, Zenon
<1>2. CASE PutRefused(r)
  BY <1>2, BarUnchanged DEF PutRefused, cacheVars
<1>3. CASE PutReplace(k, r)
  <2>1. Present(k) /\ Storable(r) /\ entry[k] \in Entry
    BY <1>0, <1>3 DEF PutReplace, Present
  <2>2. PICK t \in PutClock :
          entry' = [entry EXCEPT ![k].msg = r, ![k].storedAt = t,
                                 ![k].ttl = clampResponseTTLs(r)]
    BY <1>3 DEF PutReplace
  <2>3. t \in Nat /\ clampResponseTTLs(r) \in Nat
    BY <2>1, StoredFields, Zenon
  <2>4. entry'[k] \in Entry /\ entry'[k].msg = r
    BY <1>0, <2>1, <2>2, <2>3 DEF Entry
  <2>5. \A j \in Key : j # k => entry'[j] = entry[j]
    BY <1>0, <2>2
  <2>6. Bar' = [Bar EXCEPT ![k] = r]
    BY <1>0, <2>4, <2>5 DEF Bar, Present
  <2>7. Promise!Store(k, r)
    BY <1>1, <2>1, <2>6 DEF Promise!Store, Bar
  <2> QED
    BY <2>7 DEF Promise!Next
<1>4. CASE PutInsert(k, r)
  <2>1. Storable(r) /\ Len(lru) < MaxEntries
    BY <1>4 DEF PutInsert
  <2>2. PICK t \in PutClock : entry' = [entry EXCEPT ![k] = NewEntry(r, t)]
    BY <1>4 DEF PutInsert
  <2>3. NewEntry(r, t) \in Entry /\ NewEntry(r, t).msg = r
    BY <2>1, NewEntryFacts DEF NewEntry
  <2>4. Bar' = [Bar EXCEPT ![k] = r]
    BY <1>0, <2>2, <2>3 DEF Bar, Present
  <2>5. Promise!Cardinality(H) < MaxEntries
    BY <1>1, <2>1, Zenon
  <2>6. Promise!Store(k, r)
    BY <2>4, <2>5, Zenon DEF Promise!Store, Bar
  <2> QED
    BY <2>6 DEF Promise!Next
<1>5. CASE PutEvict(k, r)
  <2>1. Storable(r) /\ ~Present(k) /\ Len(lru) >= MaxEntries
    BY <1>5 DEF PutEvict
  <2>2. Len(lru) = MaxEntries /\ lru[Len(lru)] \in Key /\ Contains(lru, lru[Len(lru)])
    BY <2>1, FullCache, Zenon
  <2>3. PICK b \in Key : b = lru[Len(lru)]
    BY <2>2, Zenon
  <2>4. PICK t \in PutClock :
          entry' = [entry EXCEPT ![k] = NewEntry(r, t), ![b] = NoEntry]
    BY <1>5, <2>3 DEF PutEvict
  <2>5. NewEntry(r, t) \in Entry /\ NewEntry(r, t).msg = r
    BY <2>1, NewEntryFacts DEF NewEntry
  <2>6. Present(b) /\ b # k
    BY <2>1, <2>2, <2>3, ListFacts
  <2>7. Bar' = [Bar EXCEPT ![k] = r, ![b] = NoEntry]
    BY <1>0, <2>4, <2>5, <2>6 DEF Bar, Present
  <2>8. k \notin H /\ b \in H /\ Promise!Cardinality(H) = MaxEntries
    BY <1>1, <2>1, <2>2, <2>6
  <2>9. Promise!StoreEvicting(k, r, b)
    BY <2>7, <2>8, Zenon DEF Promise!StoreEvicting, Bar
  <2> QED
    BY <2>9 DEF Promise!Next
<1> QED
  BY <1>2, <1>3, <1>4, <1>5 DEF Put

(* Every step of the cache is a step of the bounded map, or changes no      *)
(* value of it.                                                             *)
LEMMA CacheStepImplements ==
    CacheInv /\ [CacheNext]_cacheVars => [Promise!Next]_Bar
<1> SUFFICES ASSUME CacheInv, [CacheNext]_cacheVars PROVE Promise!Next \/ Bar' = Bar
  OBVIOUS
<1>1. CASE UNCHANGED cacheVars
  BY <1>1, BarUnchanged DEF cacheVars
<1>2. ASSUME NEW k \in Key, GetAbsent(k) \/ BeginRefresh(k) \/ EndRefresh(k)
      PROVE  Bar' = Bar
  BY <1>2, BarUnchanged DEF GetAbsent, BeginRefresh, EndRefresh, cacheVars
<1>3. ASSUME NEW k \in Key, GetExpired(k)
      PROVE  Promise!Next
  <2>1. /\ entry \in [Key -> Entry \cup {NoEntry}] /\ Present(k)
        /\ entry' = [entry EXCEPT ![k] = NoEntry]
    BY <1>3 DEF GetExpired, CacheInv, CacheTypeOK
  <2>2. Bar' = [Bar EXCEPT ![k] = NoEntry]
    BY <2>1 DEF Bar, Present
  <2>3. k \in Promise!Held(Bar)
    BY <2>1, HeldCount
  <2>4. Promise!Drop(k)
    BY <2>2, <2>3 DEF Promise!Drop, Bar
  <2> QED
    BY <2>4 DEF Promise!Next
<1>4. CASE Tick
  BY <1>4, BarUnchanged DEF Tick
<1> QED
  BY <1>1, <1>2, <1>3, <1>4, GetHitStutters, PutImplements, Zenon DEF CacheNext

(* The LRU cache of cache.go implements the bounded map: whatever the keys, *)
(* the responses and the limit, a store costs at most one other key and     *)
(* only when the cache is full, and lookups change no value.                *)
THEOREM CacheImplementsPromise == CacheSpec => ImplementsBoundedCache
<1>1. CacheInit => Promise!Init
  BY DEF CacheInit, Promise!Init, Present
<1>2. CacheInv /\ [CacheNext]_cacheVars => [Promise!Next]_(Bar)
  BY CacheStepImplements
<1> QED
  BY <1>1, <1>2, CacheInitInv, CacheNextInv, PTL
     DEF CacheSpec, ImplementsBoundedCache, Promise!Spec, Bar

-----------------------------------------------------------------------------
(* The resolver, which uses the cache.                                      *)

CallTypes ==
    /\ pc \in [Call -> Location]
    /\ query \in [Call -> Query \cup {None}]
    /\ msg \in [Call -> Response \cup {None}]
    /\ cacheHit \in [Call -> BOOLEAN]
    /\ checked \in [Call -> Nat]
    /\ reply \in [Call -> Reply]
    /\ blocked \in SUBSET (Domain \X Client)
    /\ cleared \in [Call -> SUBSET Domain]
    /\ hadStale \in [Call -> BOOLEAN]

TaskTypes == task \in [Task -> Refresh \cup {None}]

(* Locations after the policy has passed the name asked for.                *)
Passed == {"lookup", "ahead", "claim", "forward", "stale", "uncloak", "store"}

(* Locations at which the call holds the message it may return.             *)
Holding == {"ahead", "claim", "uncloak", "store"}

Returned(c) == pc[c] = "done" /\ reply[c] \in {"fresh", "hit"}

(* What is true of one call wherever it is.                                 *)
CallOK(c) ==
    /\ pc[c] # "idle" => query[c] \in Query
    /\ pc[c] # "done" => reply[c] = "none"
    /\ pc[c] \in Holding \/ (pc[c] = "done" /\ reply[c] \in {"fresh", "hit", "stale"}) =>
          msg[c] \in Response /\ Answers(msg[c], query[c].key)
    /\ pc[c] # "idle" => Allowed(query[c].client) \subseteq cleared[c]
    /\ pc[c] \in Passed \/ Returned(c) => Name(c) \in cleared[c]
    /\ pc[c] \in {"idle", "rejected", "policy", "lookup", "ahead", "claim", "forward", "stale"}
          => checked[c] = 0
    /\ pc[c] \in {"uncloak", "store"} \/ Returned(c) =>
          \A i \in 1..Len(msg[c].cnames) : i <= checked[c] => msg[c].cnames[i] \in cleared[c]
    /\ pc[c] = "store" \/ Returned(c) => Len(msg[c].cnames) <= checked[c]

AllCallsOK == \A c \in Call : CallOK(c)

(* A refresh goroutine stores only what answers its key.                    *)
TasksOK ==
    \A t \in Task : task[t] # None /\ task[t].at = "store" =>
        task[t].msg \in Response /\ Answers(task[t].msg, task[t].key)

CachedAnswers == \A k \in Key : Present(k) => Answers(entry[k].msg, k)

ResolverInv ==
    /\ CacheInv /\ CachedAnswers
    /\ CallTypes /\ AllCallsOK
    /\ TaskTypes /\ TasksOK /\ SingleFlight
    /\ inflight \in Nat /\ AdmissionBound
-----------------------------------------------------------------------------
(* Shapes of the records used throughout.                                   *)
LEMMA QueryFields ==
    ASSUME NEW q \in Query
    PROVE  q.key \in Key /\ q.client \in Client /\ q.cacheable \in BOOLEAN /\ q # None
BY ResolverAssumption DEF Query

LEMMA RefreshFields ==
    ASSUME NEW x \in Refresh
    PROVE  x.key \in Key /\ x.at \in {"forward", "store", "end"} /\ x # None
BY ResolverAssumption DEF Refresh

(* Cardinality facts about the calls under way.                             *)
LEMMA ActiveFinite ==
    /\ IsFiniteSet(Active) /\ IsFiniteSet(Admitted)
    /\ Cardinality(Active) \in Nat /\ Cardinality(Admitted) \in Nat
<1>1. Active \subseteq Call /\ Admitted \subseteq Call /\ IsFiniteSet(Call)
  BY ResolverAssumption DEF Active, Admitted
<1>2. IsFiniteSet(Active) /\ IsFiniteSet(Admitted)
  BY <1>1, FS_Subset
<1> QED BY <1>2, FS_CardinalityType

(* Admission stays exact when no call comes in, is admitted or returns.     *)
LEMMA AdmissionSame ==
    ASSUME AdmissionBound, inflight \in Nat, inflight' = inflight,
           \A c \in Call : /\ pc'[c] = "idle" <=> pc[c] = "idle"
                           /\ pc'[c] = "rejected" <=> pc[c] = "rejected"
    PROVE  AdmissionBound' /\ inflight' \in Nat
<1>1. Active' = Active /\ Admitted' = Admitted
  BY DEF Active, Admitted
<1> QED BY <1>1 DEF AdmissionBound

(* One call's facts depend on that call's variables and on the policy.      *)
LEMMA CallFrame ==
    ASSUME NEW c \in Call, CallOK(c), blocked' = blocked,
           pc'[c] = pc[c], query'[c] = query[c], msg'[c] = msg[c],
           checked'[c] = checked[c], reply'[c] = reply[c], cleared'[c] = cleared[c]
    PROVE  CallOK(c)'
BY DEF CallOK, Returned, Allowed, Name, Answers

(* The initial state.                                                       *)
LEMMA ResolverInitInv == Init => ResolverInv
<1> SUFFICES ASSUME Init PROVE ResolverInv
  OBVIOUS
<1>1. CacheInv
  BY CacheInitInv DEF Init
<1>2. CachedAnswers
  BY DEF Init, CacheInit, CachedAnswers, Present
<1>3. CallTypes /\ TaskTypes
  BY DEF Init, CallTypes, TaskTypes, Location, Reply
<1>4. AllCallsOK
  BY DEF Init, AllCallsOK, CallOK, Holding, Passed, Returned
<1>5. TasksOK
  BY DEF Init, TasksOK
<1>6. SingleFlight
  BY DEF Init, CacheInit, SingleFlight
<1>7. inflight \in Nat /\ AdmissionBound
  <2>1. Active = {} /\ Admitted = {}
    BY DEF Init, Active, Admitted
  <2>2. Cardinality({}) = 0
    BY FS_EmptySet
  <2>3. inflight = 0 /\ MaxInflight \in Nat
    BY ResolverAssumption DEF Init
  <2> QED BY <2>1, <2>2, <2>3 DEF AdmissionBound
<1> QED BY <1>1, <1>2, <1>3, <1>4, <1>5, <1>6, <1>7 DEF ResolverInv
-----------------------------------------------------------------------------
(* Whatever is stored under a key answers the key's question.               *)
LEMMA PutAnswers ==
    ASSUME CacheInv, CachedAnswers, NEW k \in Key, NEW r \in Response, Answers(r, k),
           Put(k, r)
    PROVE  CachedAnswers'
<1>1. entry \in [Key -> Entry \cup {NoEntry}]
  BY DEF CacheInv, CacheTypeOK
<1>2. CASE PutRefused(r)
  BY <1>2 DEF PutRefused, cacheVars, CachedAnswers, Present, Answers
<1>3. CASE PutReplace(k, r)
  <2>1. PICK t \in PutClock :
          entry' = [entry EXCEPT ![k].msg = r, ![k].storedAt = t,
                                 ![k].ttl = clampResponseTTLs(r)]
    BY <1>3 DEF PutReplace
  <2>2. entry[k] \in Entry
    BY <1>1, <1>3 DEF PutReplace, Present
  <2>3. entry'[k].msg = r /\ \A x \in Key \ {k} : entry'[x] = entry[x]
    BY <1>1, <2>1, <2>2 DEF Entry
  <2> QED BY <2>3 DEF CachedAnswers, Present, Answers
<1>4. ASSUME PutInsert(k, r) \/ PutEvict(k, r) PROVE CachedAnswers'
  <2>1. PICK t \in PutClock :
          \/ entry' = [entry EXCEPT ![k] = NewEntry(r, t)]
          \/ entry' = [entry EXCEPT ![k] = NewEntry(r, t), ![lru[Len(lru)]] = NoEntry]
    BY <1>4 DEF PutInsert, PutEvict
  <2>2. \A x \in Key : entry'[x] \in {entry[x], NoEntry} \/ (x = k /\ entry'[x] = NewEntry(r, t))
    BY <1>1, <2>1
  <2>3. NewEntry(r, t).msg = r
    BY DEF NewEntry
  <2> QED BY <2>2, <2>3 DEF CachedAnswers, Present, Answers
<1> QED BY <1>2, <1>3, <1>4 DEF Put

(* Steps of the cache that store nothing.                                   *)
LEMMA NoPutAnswers ==
    ASSUME CacheInv, CachedAnswers, NEW k \in Key,
           GetHit(k) \/ GetAbsent(k) \/ GetExpired(k)
    PROVE  CachedAnswers'
<1>1. entry \in [Key -> Entry \cup {NoEntry}]
  BY DEF CacheInv, CacheTypeOK
<1>2. CASE GetHit(k)
  <2>1. entry[k] \in Entry
    BY <1>1, <1>2 DEF GetHit, Fresh, Present
  <2>2. /\ entry'[k].msg = entry[k].msg
        /\ \A x \in Key \ {k} : entry'[x] = entry[x]
    BY <1>1, <1>2, <2>1 DEF GetHit, Entry
  <2>3. Present(k)
    BY <1>2 DEF GetHit, Fresh
  <2> QED BY <2>2, <2>3 DEF CachedAnswers, Present, Answers
<1>3. CASE GetAbsent(k)
  BY <1>3 DEF GetAbsent, cacheVars, CachedAnswers, Present, Answers
<1>4. CASE GetExpired(k)
  BY <1>1, <1>4 DEF GetExpired, CachedAnswers, Present, Answers
<1> QED BY <1>2, <1>3, <1>4
-----------------------------------------------------------------------------
OthersSame(c) ==
    \A x \in Call \ {c} :
        /\ pc'[x] = pc[x] /\ query'[x] = query[x] /\ msg'[x] = msg[x]
        /\ checked'[x] = checked[x] /\ reply'[x] = reply[x] /\ cleared'[x] = cleared[x]

CacheAndTasks ==
    CacheInv /\ CachedAnswers /\ TaskTypes /\ TasksOK /\ SingleFlight

(* Between admission and return, a step of one call has to keep the facts   *)
(* about that call; the others follow.                                      *)
LEMMA MoveInv ==
    ASSUME ResolverInv, NEW c \in Call, CallTypes', OthersSame(c), CallOK(c)',
           pc[c] \notin {"idle", "rejected"}, pc'[c] \notin {"idle", "rejected"},
           blocked' = blocked, inflight' = inflight, CacheAndTasks'
    PROVE  ResolverInv'
<1>1. ASSUME NEW x \in Call, x # c PROVE CallOK(x)'
  BY <1>1, CallFrame DEF OthersSame, ResolverInv, AllCallsOK
<1>2. AllCallsOK'
  BY <1>1 DEF AllCallsOK
<1>3. AdmissionBound' /\ inflight' \in Nat
  BY AdmissionSame DEF OthersSame, ResolverInv
<1> QED BY <1>2, <1>3 DEF ResolverInv, CacheAndTasks

(* A step that leaves the cache and the refresh goroutines alone.           *)
LEMMA CacheAndTasksSame ==
    ASSUME ResolverInv, UNCHANGED cacheVars, task' = task
    PROVE  CacheAndTasks'
<1>1. CacheInv'
  BY CacheNextInv DEF ResolverInv
<1> QED BY <1>1 DEF ResolverInv, CacheAndTasks, cacheVars, CachedAnswers, Present, Answers,
                    TaskTypes, TasksOK, SingleFlight

(* A step of the cache that leaves the slots and the goroutines alone.      *)
LEMMA SlotsSame ==
    ASSUME ResolverInv, refreshing' = refreshing, task' = task
    PROVE  TaskTypes' /\ TasksOK' /\ SingleFlight'
BY DEF ResolverInv, TaskTypes, TasksOK, SingleFlight, Answers

(* Steps that change nothing but the location and the reply of a call.      *)
Plain(c, l, o) ==
    /\ pc' = [pc EXCEPT ![c] = l]
    /\ reply' = [reply EXCEPT ![c] = o]
    /\ UNCHANGED <<cacheVars, query, msg, cacheHit, checked, inflight, task, blocked,
                   cleared, hadStale>>

LEMMA PlainInv ==
    ASSUME ResolverInv, NEW c \in Call, NEW l \in Location, NEW o \in Reply, Plain(c, l, o),
           pc[c] \notin {"idle", "rejected"}, l \notin {"idle", "rejected"},
           l # "done" => o = "none",
           l \in Holding \/ o \in {"fresh", "hit", "stale"} => pc[c] \in Holding,
           l \in Passed \/ o \in {"fresh", "hit"} => pc[c] \in Passed \/ Name(c) \in cleared[c],
           l \in {"policy", "lookup", "ahead", "claim", "forward", "stale"} =>
               pc[c] \in {"policy", "lookup", "ahead", "claim", "forward", "stale"},
           l \in {"uncloak", "store"} \/ o \in {"fresh", "hit"} =>
               pc[c] \in {"ahead", "claim", "uncloak"},
           l = "store" \/ o \in {"fresh", "hit"} => ~MoreTargets(c)
    PROVE  ResolverInv'
<1>1. CallTypes /\ CallOK(c)
  BY DEF ResolverInv, AllCallsOK
<1>2. /\ pc'[c] = l /\ reply'[c] = o /\ query' = query /\ msg' = msg
      /\ checked' = checked /\ cleared' = cleared /\ blocked' = blocked
      /\ inflight' = inflight /\ cacheHit' = cacheHit /\ hadStale' = hadStale
      /\ \A x \in Call \ {c} : pc'[x] = pc[x] /\ reply'[x] = reply[x]
  BY <1>1 DEF Plain, CallTypes
<1>3. CallTypes'
  BY <1>1, <1>2 DEF Plain, CallTypes
<1>4. OthersSame(c)
  BY <1>2 DEF OthersSame
<1>5. CacheAndTasks'
  BY CacheAndTasksSame DEF Plain
<1>6. pc[c] \in Holding => msg[c] \in Response /\ Answers(msg[c], query[c].key)
  BY <1>1 DEF CallOK
<1>7. ~MoreTargets(c) /\ pc[c] \in Holding => Len(msg[c].cnames) <= checked[c]
  <2>1. ASSUME pc[c] \in Holding PROVE msg[c].cnames \in Seq(Domain)
    BY <1>6, <2>1, CacheAssumption DEF ResponseType
  <2>2. checked[c] \in Nat
    BY <1>1 DEF CallTypes
  <2> QED BY <2>1, <2>2 DEF MoreTargets
<1>8. pc[c] \in {"ahead", "claim"} => checked[c] = 0
  BY <1>1 DEF CallOK
<1>9. CallOK(c)'
  <2>1. query[c] \in Query /\ Allowed(query[c].client) \subseteq cleared[c]
    BY <1>1 DEF CallOK
  <2>2. (l \in Passed \/ (l = "done" /\ o \in {"fresh", "hit"})) => Name(c) \in cleared[c]
    BY <1>1 DEF CallOK
  <2>3. l \in {"idle", "rejected", "policy", "lookup", "ahead", "claim", "forward", "stale"}
          => checked[c] = 0
    BY <1>1 DEF CallOK
  <2>4. (l \in {"uncloak", "store"} \/ (l = "done" /\ o \in {"fresh", "hit"})) =>
          \A i \in 1..Len(msg[c].cnames) : i <= checked[c] => msg[c].cnames[i] \in cleared[c]
    BY <1>1, <1>8 DEF CallOK
  <2>5. (l = "store" \/ (l = "done" /\ o \in {"fresh", "hit"})) =>
          Len(msg[c].cnames) <= checked[c]
    BY <1>7 DEF Holding
  <2> QED BY <1>2, <1>6, <2>1, <2>2, <2>3, <2>4, <2>5
          DEF CallOK, Returned, Allowed, Name, Answers
<1> QED BY <1>2, <1>3, <1>4, <1>5, <1>9, MoveInv

(* The name a call asks for, and what a passed check says about it.         *)
LEMMA CheckedName ==
    ASSUME ResolverInv, NEW c \in Call, pc[c] # "idle"
    PROVE  /\ query[c] \in Query /\ query[c].key \in Key /\ query[c] # None
           /\ Name(c) \in Domain
           /\ \A d \in Domain : ~Blocks(d, c) => d \in cleared[c]
<1>1. query[c] \in Query /\ Allowed(query[c].client) \subseteq cleared[c]
  BY DEF ResolverInv, AllCallsOK, CallOK
<1>2. query[c].key \in Key /\ query[c] # None
  BY <1>1, QueryFields
<1>3. Name(c) \in Domain
  BY <1>2, ResolverAssumption DEF Name
<1>4. \A d \in Domain : ~Blocks(d, c) => d \in Allowed(query[c].client)
  BY DEF Blocks, Allowed
<1> QED BY <1>1, <1>2, <1>3, <1>4

LEMMA GotoPlain ==
    ASSUME ResolverInv, NEW c \in Call, NEW l \in Location, pc[c] # "done", Goto(c, l),
           UNCHANGED <<cacheVars, query, msg, cacheHit, checked, reply, inflight, task,
                       blocked, cleared, hadStale>>
    PROVE  Plain(c, l, "none")
<1>1. reply[c] = "none" /\ reply \in [Call -> Reply]
  BY DEF ResolverInv, AllCallsOK, CallOK, CallTypes
<1>2. reply' = [reply EXCEPT ![c] = "none"]
  BY <1>1
<1> QED BY <1>2 DEF Plain, Goto

(* Policy decisions and failures of a call.                                 *)
LEMMA PlainSteps ==
    ASSUME ResolverInv, NEW c \in Call,
           \/ NoQuestion(c) \/ PolicyBlock(c) \/ PolicyAllow(c) \/ CheckRefresh(c)
           \/ ClaimTaken(c) \/ ForwardUnusable(c) \/ ForwardFails(c) \/ StaleNone(c)
           \/ CNAMEOverflow(c) \/ CNAMEBlock(c) \/ UncloakedHit(c) \/ UncloakedFresh(c)
    PROVE  ResolverInv'
<1> USE DEF Location, Reply, Holding, Passed
<1>1. ASSUME NEW o \in {"error", "blocked"}, Plain(c, "done", o),
             pc[c] \notin {"idle", "rejected"}
      PROVE  ResolverInv'
  BY <1>1, PlainInv
<1>2. CASE NoQuestion(c) \/ ForwardUnusable(c) \/ StaleNone(c) \/ CNAMEOverflow(c)
  BY <1>1, <1>2
  DEF NoQuestion, ForwardUnusable, StaleNone, CNAMEOverflow, Finish, Goto, Plain
<1>3. CASE PolicyBlock(c) \/ CNAMEBlock(c)
  BY <1>1, <1>3 DEF PolicyBlock, CNAMEBlock, Finish, Goto, Plain
<1>4. CASE PolicyAllow(c)
  <2>1. PICK l \in {"lookup", "forward"} : Goto(c, l)
    BY <1>4 DEF PolicyAllow
  <2>2. Plain(c, l, "none") /\ pc[c] = "policy"
    BY <1>4, <2>1, GotoPlain DEF PolicyAllow
  <2>3. Name(c) \in cleared[c]
    BY <1>4, <2>2, CheckedName DEF PolicyAllow
  <2> QED BY <2>2, <2>3, PlainInv
<1>5. CASE CheckRefresh(c)
  <2>1. PICK l \in {"claim", "uncloak"} : Goto(c, l)
    BY <1>5 DEF CheckRefresh
  <2>2. Plain(c, l, "none") /\ pc[c] = "ahead"
    BY <1>5, <2>1, GotoPlain DEF CheckRefresh
  <2> QED BY <2>2, PlainInv
<1>6. CASE ClaimTaken(c)
  <2>1. Plain(c, "uncloak", "none") /\ pc[c] = "claim"
    BY <1>6, GotoPlain DEF ClaimTaken
  <2> QED BY <2>1, PlainInv
<1>7. CASE ForwardFails(c)
  <2>1. Plain(c, "stale", "none") /\ pc[c] = "forward"
    BY <1>7, GotoPlain DEF ForwardFails
  <2> QED BY <2>1, PlainInv
<1>8. CASE UncloakedHit(c)
  <2>1. Plain(c, "done", "hit") /\ pc[c] = "uncloak" /\ ~MoreTargets(c)
    BY <1>8 DEF UncloakedHit, Finish, Goto, Plain
  <2> QED BY <2>1, PlainInv
<1>9. CASE UncloakedFresh(c)
  <2>1. Plain(c, "store", "none") /\ pc[c] = "uncloak" /\ ~MoreTargets(c)
    BY <1>9, GotoPlain DEF UncloakedFresh
  <2> QED BY <2>1, PlainInv
<1> QED BY <1>2, <1>3, <1>4, <1>5, <1>6, <1>7, <1>8, <1>9
-----------------------------------------------------------------------------
(* The step of the cache that a lookup is.                                  *)
LEMMA LookupCacheStep ==
    ASSUME ResolverInv, NEW k \in Key, GetHit(k) \/ GetAbsent(k) \/ GetExpired(k),
           task' = task
    PROVE  CacheAndTasks'
<1>1. CacheInv'
  BY CacheNextInv DEF ResolverInv, CacheNext
<1>2. CachedAnswers'
  BY NoPutAnswers DEF ResolverInv
<1>3. refreshing' = refreshing
  BY DEF GetHit, GetAbsent, GetExpired, cacheVars
<1> QED BY <1>1, <1>2, <1>3, SlotsSame DEF CacheAndTasks

LEMMA LookupHitInv ==
    ASSUME ResolverInv, NEW c \in Call, LookupHit(c)
    PROVE  ResolverInv'
<1> DEFINE k == query[c].key
<1>1. pc[c] = "lookup" /\ k \in Key /\ CallTypes /\ CallOK(c)
  BY CheckedName DEF LookupHit, ResolverInv, AllCallsOK
<1>2. GetHit(k) /\ task' = task /\ inflight' = inflight /\ blocked' = blocked
      /\ query' = query /\ checked' = checked /\ reply' = reply /\ cleared' = cleared
      /\ hadStale' = hadStale
  BY DEF LookupHit
<1>3. CacheAndTasks'
  BY <1>1, <1>2, LookupCacheStep
<1>4. /\ reply[c] = "none" /\ checked[c] = 0 /\ query[c] \in Query
      /\ Name(c) \in cleared[c] /\ Allowed(query[c].client) \subseteq cleared[c]
  BY <1>1 DEF CallOK, Passed
<1>5. CASE Answers(entry[k].msg, k)
  <2>1. /\ pc' = [pc EXCEPT ![c] = "ahead"]
        /\ msg' = [msg EXCEPT ![c] = entry[k].msg]
        /\ cacheHit' = [cacheHit EXCEPT ![c] = TRUE]
    BY <1>5 DEF LookupHit, Goto
  <2>2. entry[k].msg \in Response
    BY <1>1, <1>2 DEF GetHit, Fresh, Present, ResolverInv, CacheInv, CacheTypeOK, Entry
  <2>3. CallTypes'
    BY <1>1, <1>2, <2>1, <2>2 DEF CallTypes, Location
  <2>4. OthersSame(c) /\ pc'[c] = "ahead" /\ msg'[c] = entry[k].msg
    BY <1>1, <1>2, <2>1 DEF CallTypes, OthersSame
  <2>5. CallOK(c)'
    BY <1>2, <1>4, <1>5, <2>2, <2>4
    DEF CallOK, Returned, Holding, Passed, Name, Allowed, Answers
  <2> QED BY <1>1, <1>2, <1>3, <2>3, <2>4, <2>5, MoveInv
<1>6. CASE ~Answers(entry[k].msg, k)
  <2>1. pc' = [pc EXCEPT ![c] = "forward"] /\ msg' = msg /\ cacheHit' = cacheHit
    BY <1>6 DEF LookupHit, Goto
  <2>2. CallTypes'
    BY <1>1, <1>2, <2>1 DEF CallTypes, Location
  <2>3. OthersSame(c) /\ pc'[c] = "forward"
    BY <1>1, <1>2, <2>1 DEF CallTypes, OthersSame
  <2>4. CallOK(c)'
    BY <1>2, <1>4, <2>1, <2>3
    DEF CallOK, Returned, Holding, Passed, Name, Allowed, Answers
  <2> QED BY <1>1, <1>2, <1>3, <2>2, <2>3, <2>4, MoveInv
<1> QED BY <1>5, <1>6

LEMMA LookupMissInv ==
    ASSUME ResolverInv, NEW c \in Call, LookupMiss(c)
    PROVE  ResolverInv'
<1> DEFINE k == query[c].key
<1>1. pc[c] = "lookup" /\ k \in Key /\ CallTypes /\ CallOK(c)
  BY CheckedName DEF LookupMiss, ResolverInv, AllCallsOK
<1>2. /\ GetAbsent(k) \/ GetExpired(k)
      /\ pc' = [pc EXCEPT ![c] = "forward"]
      /\ hadStale' = [hadStale EXCEPT ![c] = InStaleWindow(k)]
      /\ task' = task /\ inflight' = inflight /\ blocked' = blocked
      /\ query' = query /\ checked' = checked /\ reply' = reply /\ cleared' = cleared
      /\ msg' = msg /\ cacheHit' = cacheHit
  BY DEF LookupMiss, Goto
<1>3. CacheAndTasks'
  BY <1>1, <1>2, LookupCacheStep
<1>4. InStaleWindow(k) \in BOOLEAN
  BY DEF InStaleWindow
<1>5. CallTypes'
  BY <1>1, <1>2, <1>4 DEF CallTypes, Location
<1>6. OthersSame(c) /\ pc'[c] = "forward"
  BY <1>1, <1>2 DEF CallTypes, OthersSame
<1>7. CallOK(c)'
  BY <1>1, <1>2, <1>6 DEF CallOK, Returned, Holding, Passed, Name, Allowed, Answers
<1> QED BY <1>1, <1>2, <1>3, <1>5, <1>6, <1>7, MoveInv

(* Claiming a slot starts the only goroutine that works on the key.         *)
LEMMA ClaimRefreshInv ==
    ASSUME ResolverInv, NEW c \in Call, NEW t \in Task, ClaimRefresh(c, t)
    PROVE  ResolverInv'
<1> DEFINE k == query[c].key
           x == [at |-> "forward", key |-> k, msg |-> None]
<1>1. pc[c] = "claim" /\ k \in Key /\ CallTypes /\ CallOK(c)
  BY CheckedName DEF ClaimRefresh, ResolverInv, AllCallsOK
<1>2. /\ BeginRefresh(k) /\ task[t] = None /\ task' = [task EXCEPT ![t] = x]
      /\ pc' = [pc EXCEPT ![c] = "uncloak"]
      /\ inflight' = inflight /\ blocked' = blocked /\ hadStale' = hadStale
      /\ query' = query /\ checked' = checked /\ reply' = reply /\ cleared' = cleared
      /\ msg' = msg /\ cacheHit' = cacheHit
  BY DEF ClaimRefresh, Goto
<1>3. x \in Refresh /\ x # None /\ x.key = k /\ x.at = "forward"
  <2>1. x \in Refresh
    BY <1>1 DEF Refresh
  <2> QED BY <2>1, RefreshFields
<1>4. task \in [Task -> Refresh \cup {None}] /\ SingleFlight /\ TasksOK
  BY DEF ResolverInv, TaskTypes
<1> HIDE DEF x
<1>5. task'[t] = x /\ \A u \in Task \ {t} : task'[u] = task[u]
  BY <1>2, <1>4
<1>6. CacheInv' /\ CachedAnswers'
  <2>1. CacheInv'
    BY <1>1, <1>2, CacheNextInv DEF ResolverInv, CacheNext
  <2>2. entry' = entry
    BY <1>2 DEF BeginRefresh
  <2> QED BY <2>1, <2>2 DEF ResolverInv, CachedAnswers, Present, Answers
<1>7. TaskTypes' /\ TasksOK'
  BY <1>2, <1>3, <1>4, <1>5 DEF TaskTypes, TasksOK, Answers
<1>8. SingleFlight'
  <2>1. k \notin refreshing /\ refreshing' = refreshing \cup {k}
    BY <1>2 DEF BeginRefresh
  <2>2. \A u \in Task : task[u] # None => task[u].key # k
    BY <1>4, <2>1 DEF SingleFlight
  <2>3. \A u, v \in Task : task'[u] # None /\ task'[v] # None /\ task'[u].key = task'[v].key
                              => u = v
    BY <1>3, <1>4, <1>5, <2>2 DEF SingleFlight
  <2>4. refreshing' = {task'[u].key : u \in {v \in Task : task'[v] # None}}
    BY <1>2, <1>3, <1>4, <1>5, <2>1 DEF SingleFlight
  <2> QED BY <2>3, <2>4 DEF SingleFlight
<1>9. CallTypes'
  BY <1>1, <1>2 DEF CallTypes, Location
<1>10. OthersSame(c) /\ pc'[c] = "uncloak"
  BY <1>1, <1>2 DEF CallTypes, OthersSame
<1>11. CallOK(c)'
  BY <1>1, <1>2, <1>10 DEF CallOK, Returned, Holding, Passed, Name, Allowed, Answers
<1>12. CacheAndTasks'
  BY <1>6, <1>7, <1>8 DEF CacheAndTasks
<1> QED BY <1>1, <1>2, <1>9, <1>10, <1>11, <1>12, MoveInv

LEMMA ForwardOKInv ==
    ASSUME ResolverInv, NEW c \in Call, NEW r \in Response, ForwardOK(c, r)
    PROVE  ResolverInv'
<1>1. pc[c] = "forward" /\ CallTypes /\ CallOK(c) /\ Answers(r, query[c].key)
  BY DEF ForwardOK, ResolverInv, AllCallsOK
<1>2. /\ pc' = [pc EXCEPT ![c] = "uncloak"] /\ msg' = [msg EXCEPT ![c] = r]
      /\ inflight' = inflight /\ blocked' = blocked /\ hadStale' = hadStale
      /\ query' = query /\ checked' = checked /\ reply' = reply /\ cleared' = cleared
      /\ cacheHit' = cacheHit
  BY DEF ForwardOK, Goto
<1>3. CacheAndTasks'
  BY CacheAndTasksSame DEF ForwardOK
<1>4. CallTypes'
  BY <1>1, <1>2 DEF CallTypes, Location
<1>5. OthersSame(c) /\ pc'[c] = "uncloak" /\ msg'[c] = r
  BY <1>1, <1>2 DEF CallTypes, OthersSame
<1>6. CallOK(c)'
  BY <1>1, <1>2, <1>5 DEF CallOK, Returned, Holding, Passed, Name, Allowed, Answers
<1> QED BY <1>1, <1>2, <1>3, <1>4, <1>5, <1>6, MoveInv

LEMMA StaleServeInv ==
    ASSUME ResolverInv, NEW c \in Call, StaleServe(c)
    PROVE  ResolverInv'
<1> DEFINE k == query[c].key
           m == entry[k].msg
<1>1. pc[c] = "stale" /\ k \in Key /\ CallTypes /\ CallOK(c)
  BY CheckedName DEF StaleServe, ResolverInv, AllCallsOK
<1>2. /\ pc' = [pc EXCEPT ![c] = "done"] /\ msg' = [msg EXCEPT ![c] = m]
      /\ reply' = [reply EXCEPT ![c] = "stale"]
      /\ inflight' = inflight /\ blocked' = blocked /\ hadStale' = hadStale
      /\ query' = query /\ checked' = checked /\ cleared' = cleared
      /\ cacheHit' = cacheHit
  BY DEF StaleServe, Finish, Goto
<1>3. Present(k) /\ Answers(m, k)
  BY DEF StaleServe, StaleFound, InStaleWindow
<1>4. m \in Response
  BY <1>1, <1>3 DEF Present, ResolverInv, CacheInv, CacheTypeOK, Entry
<1>5. CacheAndTasks'
  BY CacheAndTasksSame DEF StaleServe
<1>6. CallTypes'
  BY <1>1, <1>2, <1>4 DEF CallTypes, Location, Reply
<1>7. OthersSame(c) /\ pc'[c] = "done" /\ msg'[c] = m /\ reply'[c] = "stale"
  BY <1>1, <1>2 DEF CallTypes, OthersSame
<1>8. CallOK(c)'
  BY <1>1, <1>2, <1>3, <1>4, <1>7
  DEF CallOK, Returned, Holding, Passed, Name, Allowed, Answers
<1> QED BY <1>1, <1>2, <1>5, <1>6, <1>7, <1>8, MoveInv

(* One more CNAME target is found to be allowed.                            *)
LEMMA CNAMEAllowInv ==
    ASSUME ResolverInv, NEW c \in Call, CNAMEAllow(c)
    PROVE  ResolverInv'
<1> DEFINE n == checked[c] + 1
<1>1. pc[c] = "uncloak" /\ CallTypes /\ CallOK(c)
  BY DEF CNAMEAllow, ResolverInv, AllCallsOK
<1>2. /\ checked' = [checked EXCEPT ![c] = n]
      /\ pc' = pc /\ msg' = msg /\ reply' = reply
      /\ inflight' = inflight /\ blocked' = blocked /\ hadStale' = hadStale
      /\ query' = query /\ cleared' = cleared /\ cacheHit' = cacheHit
  BY DEF CNAMEAllow
<1>3. checked[c] \in Nat /\ n \in Nat
  BY <1>1 DEF CallTypes
<1>4. msg[c] \in Response /\ msg[c].cnames \in Seq(Domain)
  BY <1>1, CacheAssumption DEF CallOK, Holding, ResponseType
<1>5. n \in 1..Len(msg[c].cnames) /\ msg[c].cnames[n] \in Domain
  BY <1>3, <1>4 DEF CNAMEAllow, MoreTargets
<1>6. msg[c].cnames[n] \in cleared[c]
  BY <1>1, <1>5, CheckedName DEF CNAMEAllow, Target
<1>7. CacheAndTasks'
  BY CacheAndTasksSame DEF CNAMEAllow
<1>8. CallTypes'
  BY <1>1, <1>2, <1>3 DEF CallTypes
<1>9. OthersSame(c) /\ checked'[c] = n
  BY <1>1, <1>2 DEF CallTypes, OthersSame
<1>10. \A i \in 1..Len(msg[c].cnames) : i <= n => msg[c].cnames[i] \in cleared[c]
  <2>1. \A i \in 1..Len(msg[c].cnames) :
           i <= checked[c] => msg[c].cnames[i] \in cleared[c]
    BY <1>1 DEF CallOK
  <2>2. ASSUME NEW i \in 1..Len(msg[c].cnames), i <= n PROVE i <= checked[c] \/ i = n
    BY <1>3, <1>4, <2>2
  <2> QED BY <1>6, <2>1, <2>2
<1>11. CallOK(c)'
  BY <1>1, <1>2, <1>9, <1>10
  DEF CallOK, Returned, Holding, Passed, Name, Allowed, Answers
<1> QED BY <1>1, <1>2, <1>7, <1>8, <1>9, <1>11, MoveInv

(* Storing what the call returns.                                           *)
LEMMA PutStep ==
    ASSUME ResolverInv, NEW k \in Key, NEW r \in Response, Answers(r, k), Put(k, r)
    PROVE  CacheInv' /\ CachedAnswers' /\ refreshing' = refreshing
<1>1. CacheInv'
  BY CacheNextInv DEF ResolverInv, CacheNext
<1>2. CachedAnswers'
  BY PutAnswers DEF ResolverInv
<1>3. refreshing' = refreshing
  BY DEF Put, PutRefused, PutReplace, PutInsert, PutEvict, cacheVars
<1> QED BY <1>1, <1>2, <1>3

LEMMA StoreAnswerInv ==
    ASSUME ResolverInv, NEW c \in Call, StoreAnswer(c)
    PROVE  ResolverInv'
<1> DEFINE k == query[c].key
<1>1. pc[c] = "store" /\ k \in Key /\ CallTypes /\ CallOK(c)
  BY CheckedName DEF StoreAnswer, ResolverInv, AllCallsOK
<1>2. /\ pc' = [pc EXCEPT ![c] = "done"] /\ reply' = [reply EXCEPT ![c] = "fresh"]
      /\ inflight' = inflight /\ blocked' = blocked /\ hadStale' = hadStale
      /\ query' = query /\ checked' = checked /\ cleared' = cleared
      /\ cacheHit' = cacheHit /\ msg' = msg /\ task' = task
  BY DEF StoreAnswer, Finish, Goto
<1>3. msg[c] \in Response /\ Answers(msg[c], k)
  BY <1>1 DEF CallOK, Holding
<1>4. CacheAndTasks'
  <2>1. CASE UNCHANGED cacheVars
    BY <1>2, <2>1, CacheAndTasksSame
  <2>2. CASE Put(k, msg[c])
    BY <1>1, <1>2, <1>3, <2>2, PutStep, SlotsSame DEF CacheAndTasks
  <2> QED BY <2>1, <2>2 DEF StoreAnswer
<1>5. CallTypes'
  BY <1>1, <1>2 DEF CallTypes, Location, Reply
<1>6. OthersSame(c) /\ pc'[c] = "done" /\ reply'[c] = "fresh"
  BY <1>1, <1>2 DEF CallTypes, OthersSame
<1>7. CallOK(c)'
  BY <1>1, <1>2, <1>3, <1>6
  DEF CallOK, Returned, Holding, Passed, Name, Allowed, Answers
<1> QED BY <1>1, <1>2, <1>4, <1>5, <1>6, <1>7, MoveInv
-----------------------------------------------------------------------------
(* Admission.  The counter follows Active by one; an admitted call raised   *)
(* it to at most the limit, and Admitted is part of Active.                 *)
LEMMA ArriveInv ==
    ASSUME ResolverInv, NEW c \in Call, NEW q \in Query, Arrive(c, q)
    PROVE  ResolverInv'
<1> DEFINE l == IF inflight + 1 > MaxInflight THEN "rejected" ELSE "policy"
<1>1. pc[c] = "idle" /\ CallTypes /\ CallOK(c) /\ inflight \in Nat /\ AdmissionBound
  BY DEF Arrive, ResolverInv, AllCallsOK
<1>2. /\ pc' = [pc EXCEPT ![c] = l] /\ query' = [query EXCEPT ![c] = q]
      /\ inflight' = inflight + 1
      /\ cleared' = [cleared EXCEPT ![c] = Allowed(q.client)]
      /\ blocked' = blocked /\ hadStale' = hadStale
      /\ checked' = checked /\ reply' = reply /\ msg' = msg /\ cacheHit' = cacheHit
  BY DEF Arrive, Goto
<1>3. CacheAndTasks'
  BY CacheAndTasksSame DEF Arrive
<1>4. CallTypes'
  BY <1>1, <1>2 DEF CallTypes, Location, Allowed
<1>5. /\ OthersSame(c) /\ pc'[c] = l /\ query'[c] = q /\ reply'[c] = reply[c]
      /\ cleared'[c] = Allowed(q.client)
  BY <1>1, <1>2 DEF CallTypes, OthersSame
<1>6. CallOK(c)'
  BY <1>1, <1>2, <1>5 DEF CallOK, Returned, Holding, Passed, Allowed
<1>7. AllCallsOK'
  <2>1. ASSUME NEW x \in Call, x # c PROVE CallOK(x)'
    BY <1>2, <1>5, <2>1, CallFrame DEF OthersSame, ResolverInv, AllCallsOK
  <2> QED BY <1>6, <2>1 DEF AllCallsOK
<1>8. Active' = Active \cup {c} /\ c \notin Active
  BY <1>1, <1>5 DEF Active, OthersSame
<1>9. Cardinality(Active') = Cardinality(Active) + 1
  BY <1>8, ActiveFinite, FS_AddElement
<1>10. Cardinality(Admitted') <= MaxInflight
  <2>1. CASE l = "rejected"
    <3>1. Admitted' = Admitted
      BY <1>1, <1>5, <2>1 DEF Admitted, OthersSame
    <3> QED BY <1>1, <3>1 DEF AdmissionBound
  <2>2. CASE l = "policy"
    <3>1. Admitted' \subseteq Active' /\ IsFiniteSet(Active')
      BY <1>8, ActiveFinite, FS_AddElement DEF Admitted, Active
    <3>2. Cardinality(Admitted') \in Nat /\ Cardinality(Admitted') <= Cardinality(Active')
      BY <3>1, FS_Subset, FS_CardinalityType
    <3>3. inflight + 1 <= MaxInflight
      BY <1>1, <2>2, ResolverAssumption
    <3> QED BY <1>1, <1>9, <3>2, <3>3, ActiveFinite, ResolverAssumption DEF AdmissionBound
  <2> QED BY <2>1, <2>2
<1>11. AdmissionBound' /\ inflight' \in Nat
  BY <1>1, <1>2, <1>9, <1>10 DEF AdmissionBound
<1> QED BY <1>3, <1>4, <1>7, <1>11 DEF ResolverInv, CacheAndTasks

(* A refused call takes its unit back; a returning one gives its unit back. *)
LEMMA LeaveInv ==
    ASSUME ResolverInv, NEW c \in Call, RejectReturn(c) \/ Return(c)
    PROVE  ResolverInv'
<1>1. /\ pc[c] \in {"rejected", "done"} /\ CallTypes /\ CallOK(c)
      /\ inflight \in Nat /\ AdmissionBound
  BY DEF RejectReturn, Return, ResolverInv, AllCallsOK
<1>2. /\ pc' = [pc EXCEPT ![c] = "idle"] /\ query' = [query EXCEPT ![c] = None]
      /\ inflight' = inflight - 1 /\ cleared' = [cleared EXCEPT ![c] = {}]
      /\ blocked' = blocked
  BY DEF RejectReturn, Return, Goto
<1>3. /\ msg' \in {msg, [msg EXCEPT ![c] = None]}
      /\ cacheHit' \in {cacheHit, [cacheHit EXCEPT ![c] = FALSE]}
      /\ hadStale' \in {hadStale, [hadStale EXCEPT ![c] = FALSE]}
  BY DEF RejectReturn, Return
<1>4. \/ pc[c] = "rejected" /\ checked' = checked /\ reply' = reply
      \/ /\ checked' = [checked EXCEPT ![c] = 0]
         /\ reply' = [reply EXCEPT ![c] = "none"]
  BY DEF RejectReturn, Return
<1>5. CacheAndTasks'
  BY CacheAndTasksSame DEF RejectReturn, Return
<1>6. CallTypes'
  <2>1. /\ pc' \in [Call -> Location] /\ query' \in [Call -> Query \cup {None}]
        /\ blocked' \in SUBSET (Domain \X Client) /\ cleared' \in [Call -> SUBSET Domain]
    BY <1>1, <1>2 DEF CallTypes, Location
  <2>2. msg' \in [Call -> Response \cup {None}]
    BY <1>1, <1>3 DEF CallTypes
  <2>3. cacheHit' \in [Call -> BOOLEAN] /\ hadStale' \in [Call -> BOOLEAN]
    BY <1>1, <1>3 DEF CallTypes
  <2>4. checked' \in [Call -> Nat] /\ reply' \in [Call -> Reply]
    BY <1>1, <1>4 DEF CallTypes, Reply
  <2> QED BY <2>1, <2>2, <2>3, <2>4 DEF CallTypes
<1>7. /\ pc'[c] = "idle" /\ checked'[c] = 0 /\ reply'[c] = "none"
  BY <1>1, <1>2, <1>4 DEF CallTypes, CallOK
<1>8. OthersSame(c)
  BY <1>1, <1>2, <1>3, <1>4 DEF CallTypes, OthersSame
<1>9. CallOK(c)'
  BY <1>7 DEF CallOK, Returned, Holding, Passed
<1>10. AllCallsOK'
  <2>1. ASSUME NEW x \in Call, x # c PROVE CallOK(x)'
    BY <1>2, <1>8, <2>1, CallFrame DEF OthersSame, ResolverInv, AllCallsOK
  <2> QED BY <1>9, <2>1 DEF AllCallsOK
<1>11. Active' = Active \ {c} /\ c \in Active
  BY <1>1, <1>7, <1>8 DEF Active, OthersSame
<1>12. Cardinality(Active') = Cardinality(Active) - 1 /\ Cardinality(Active') \in Nat
  <2>1. IsFiniteSet(Active \ {c}) /\ Cardinality(Active \ {c}) = Cardinality(Active) - 1
    BY <1>11, ActiveFinite, FS_RemoveElement
  <2> QED BY <1>11, <2>1, FS_CardinalityType
<1>13. Cardinality(Admitted') <= MaxInflight
  <2>1. Admitted' \subseteq Admitted
    BY <1>7, <1>8 DEF Admitted, OthersSame
  <2>2. Cardinality(Admitted') <= Cardinality(Admitted) /\ Cardinality(Admitted') \in Nat
    BY <2>1, ActiveFinite, FS_Subset, FS_CardinalityType
  <2> QED BY <1>1, <2>2, ActiveFinite, ResolverAssumption DEF AdmissionBound
<1>14. AdmissionBound' /\ inflight' \in Nat
  BY <1>1, <1>2, <1>12, <1>13 DEF AdmissionBound
<1> QED BY <1>5, <1>6, <1>10, <1>14 DEF ResolverInv, CacheAndTasks
-----------------------------------------------------------------------------
(* Steps that touch no call: only the cache and the goroutines matter.      *)
LEMMA CallsSame ==
    ASSUME ResolverInv, UNCHANGED <<callVars, inflight, blocked, cleared, hadStale>>,
           CacheAndTasks'
    PROVE  ResolverInv'
<1>1. CallTypes'
  BY DEF ResolverInv, CallTypes, callVars
<1>2. AllCallsOK'
  BY CallFrame DEF ResolverInv, AllCallsOK, callVars
<1>3. AdmissionBound' /\ inflight' \in Nat
  BY AdmissionSame DEF ResolverInv, callVars
<1> QED BY <1>1, <1>2, <1>3 DEF ResolverInv, CacheAndTasks

(* A goroutine that moves on keeps its key, and so its slot.                *)
LEMMA TaskMove ==
    ASSUME ResolverInv, NEW t \in Task, task[t] # None, NEW a \in {"store", "end"},
           NEW r \in Response \cup {None},
           task' = [task EXCEPT ![t].at = a, ![t].msg = r], refreshing' = refreshing,
           a = "store" => r \in Response /\ Answers(r, task[t].key)
    PROVE  TaskTypes' /\ TasksOK' /\ SingleFlight'
<1>1. TaskTypes /\ TasksOK /\ SingleFlight /\ task[t] \in Refresh
  BY DEF ResolverInv, TaskTypes
<1>2. /\ task'[t] \in Refresh /\ task'[t].at = a /\ task'[t].msg = r
      /\ task'[t].key = task[t].key
  BY <1>1 DEF TaskTypes, Refresh
<1>3. \A u \in Task \ {t} : task'[u] = task[u]
  BY <1>1 DEF TaskTypes
<1>4. task'[t] # None
  BY <1>2, RefreshFields
<1>5. TaskTypes'
  BY <1>1, <1>2, <1>3 DEF TaskTypes
<1>6. TasksOK'
  BY <1>1, <1>2, <1>3 DEF TasksOK, Answers
<1>7. \A u \in Task : (task'[u] # None <=> task[u] # None)
                      /\ (task[u] # None => task'[u].key = task[u].key)
  BY <1>2, <1>3, <1>4
<1>8. SingleFlight'
  <2>1. {task'[u].key : u \in {v \in Task : task'[v] # None}} =
        {task[u].key : u \in {v \in Task : task[v] # None}}
    BY <1>7
  <2> QED BY <1>1, <1>7, <2>1 DEF SingleFlight
<1> QED BY <1>5, <1>6, <1>8

LEMMA TaskForwardOKInv ==
    ASSUME ResolverInv, NEW t \in Task, NEW r \in Response, TaskForwardOK(t, r)
    PROVE  ResolverInv'
<1>1. CacheInv' /\ CachedAnswers'
  <2>1. UNCHANGED cacheVars
    BY DEF TaskForwardOK
  <2>2. CacheInv'
    BY <2>1, CacheNextInv DEF ResolverInv
  <2> QED BY <2>1, <2>2 DEF ResolverInv, cacheVars, CachedAnswers, Present, Answers
<1>2. TaskTypes' /\ TasksOK' /\ SingleFlight'
  BY TaskMove DEF TaskForwardOK, cacheVars
<1> QED BY <1>1, <1>2, CallsSame DEF TaskForwardOK, CacheAndTasks

LEMMA TaskFailsInv ==
    ASSUME ResolverInv, NEW t \in Task, TaskFails(t)
    PROVE  ResolverInv'
<1>1. CacheInv' /\ CachedAnswers'
  <2>1. UNCHANGED cacheVars
    BY DEF TaskFails
  <2>2. CacheInv'
    BY <2>1, CacheNextInv DEF ResolverInv
  <2> QED BY <2>1, <2>2 DEF ResolverInv, cacheVars, CachedAnswers, Present, Answers
<1>2. task[t] \in Refresh /\ task \in [Task -> Refresh \cup {None}]
  BY DEF TaskFails, ResolverInv, TaskTypes
<1>3. task' = [task EXCEPT ![t].at = "end", ![t].msg = task[t].msg]
  BY <1>2 DEF TaskFails, Refresh
<1>4. TaskTypes' /\ TasksOK' /\ SingleFlight'
  BY <1>2, <1>3, TaskMove DEF TaskFails, cacheVars, Refresh
<1> QED BY <1>1, <1>4, CallsSame DEF TaskFails, CacheAndTasks

LEMMA TaskStoreInv ==
    ASSUME ResolverInv, NEW t \in Task, TaskStore(t)
    PROVE  ResolverInv'
<1>1. task[t] \in Refresh /\ task[t].key \in Key
  BY RefreshFields DEF TaskStore, ResolverInv, TaskTypes
<1>2. task[t].msg \in Response /\ Answers(task[t].msg, task[t].key)
  BY DEF TaskStore, ResolverInv, TasksOK
<1>3. CacheInv' /\ CachedAnswers' /\ refreshing' = refreshing
  BY <1>1, <1>2, PutStep DEF TaskStore
<1>4. TaskTypes' /\ TasksOK' /\ SingleFlight'
  BY <1>3, TaskMove DEF TaskStore
<1> QED BY <1>3, <1>4, CallsSame DEF TaskStore, CacheAndTasks

(* The ending goroutine was the only one with its key.                      *)
LEMMA TaskEndInv ==
    ASSUME ResolverInv, NEW t \in Task, TaskEnd(t)
    PROVE  ResolverInv'
<1>1. /\ TaskTypes /\ TasksOK /\ SingleFlight /\ CachedAnswers
      /\ task[t] \in Refresh /\ task[t].key \in Key /\ task[t] # None
  BY RefreshFields DEF TaskEnd, ResolverInv, TaskTypes
<1>2. refreshing' = refreshing \ {task[t].key} /\ entry' = entry
  BY DEF TaskEnd, EndRefresh
<1>3. task'[t] = None /\ \A u \in Task \ {t} : task'[u] = task[u]
  BY <1>1 DEF TaskEnd, TaskTypes
<1>4. CacheInv'
  BY <1>1, CacheNextInv DEF ResolverInv, CacheNext, TaskEnd
<1>5. CachedAnswers'
  BY <1>1, <1>2 DEF CachedAnswers, Present, Answers
<1>6. TaskTypes'
  BY <1>1 DEF TaskEnd, TaskTypes
<1>7. TasksOK'
  BY <1>1, <1>3 DEF TasksOK, Answers
<1>8. SingleFlight'
  <2>1. \A u \in Task : task[u] # None /\ task[u].key = task[t].key => u = t
    BY <1>1 DEF SingleFlight
  <2>2. {task'[u].key : u \in {v \in Task : task'[v] # None}} =
        {task[u].key : u \in {v \in Task : task[v] # None}} \ {task[t].key}
    BY <1>3, <2>1
  <2>3. \A u, v \in Task : task'[u] # None /\ task'[v] # None /\ task'[u].key = task'[v].key
           => u = v
    BY <1>1, <1>3 DEF SingleFlight
  <2> QED BY <1>1, <1>2, <2>2, <2>3 DEF SingleFlight
<1> QED BY <1>4, <1>5, <1>6, <1>7, <1>8, CallsSame DEF TaskEnd, CacheAndTasks

(* What becomes allowed during a call is added to what the call has seen    *)
(* allowed; what becomes blocked is not taken away.                         *)
LEMMA PolicyChangeInv ==
    ASSUME ResolverInv, NEW d \in Domain, NEW cl \in Client, PolicyChange(d, cl)
    PROVE  ResolverInv'
<1>1. CallTypes /\ AllCallsOK
  BY DEF ResolverInv
<1>2. /\ pc' = pc /\ query' = query /\ msg' = msg /\ cacheHit' = cacheHit
      /\ checked' = checked /\ reply' = reply /\ inflight' = inflight
      /\ hadStale' = hadStale
  BY DEF PolicyChange, callVars
<1>3. CacheAndTasks'
  BY CacheAndTasksSame DEF PolicyChange
<1>4. CallTypes'
  BY <1>1, <1>2 DEF CallTypes, PolicyChange
<1>5. ASSUME NEW c \in Call PROVE CallOK(c)'
  <2>1. CallOK(c)
    BY <1>1 DEF AllCallsOK
  <2>2. cleared[c] \subseteq cleared'[c]
    BY DEF PolicyChange
  <2>3. pc[c] # "idle" => Allowed(query[c].client)' \subseteq cleared'[c]
    <3>1. ASSUME pc[c] # "idle", NEW x \in Domain, <<x, query[c].client>> \notin blocked'
          PROVE  x \in cleared'[c]
      <4>1. Allowed(query[c].client) \subseteq cleared[c] /\ query[c].client \in Client
        BY <2>1, <3>1, QueryFields DEF CallOK
      <4>2. CASE <<x, query[c].client>> \notin blocked
        BY <2>2, <4>1, <4>2 DEF Allowed
      <4>3. CASE <<x, query[c].client>> \in blocked
        <5>1. x = d /\ query[c].client = cl /\ <<d, cl>> \in blocked
          BY <3>1, <4>3 DEF PolicyChange
        <5> QED BY <3>1, <5>1 DEF PolicyChange
      <4> QED BY <4>2, <4>3
    <3> QED BY <1>2, <3>1 DEF Allowed
  <2> QED BY <1>2, <2>1, <2>2, <2>3 DEF CallOK, Returned, Name, Answers
<1>6. AllCallsOK'
  BY <1>5 DEF AllCallsOK
<1>7. AdmissionBound' /\ inflight' \in Nat
  BY <1>2, AdmissionSame DEF ResolverInv
<1> QED BY <1>3, <1>4, <1>6, <1>7 DEF ResolverInv, CacheAndTasks

LEMMA ClockInv ==
    ASSUME ResolverInv, Clock
    PROVE  ResolverInv'
<1>1. CacheInv'
  BY CacheNextInv DEF ResolverInv, CacheNext, Clock
<1>2. CachedAnswers'
  BY DEF ResolverInv, Clock, Tick, CachedAnswers, Present, Answers
<1>3. TaskTypes' /\ TasksOK' /\ SingleFlight'
  BY SlotsSame DEF Clock, Tick
<1> QED BY <1>1, <1>2, <1>3, CallsSame DEF Clock, CacheAndTasks
-----------------------------------------------------------------------------
(* Every step of the resolver preserves the invariant.                      *)
LEMMA ResolverNextInv == ResolverInv /\ [Next]_vars => ResolverInv'
<1> SUFFICES ASSUME ResolverInv, [Next]_vars PROVE ResolverInv'
  OBVIOUS
<1>1. ASSUME NEW c \in Call, NEW q \in Query, Arrive(c, q) PROVE ResolverInv'
  BY <1>1, ArriveInv
<1>2. ASSUME NEW c \in Call, CallStep(c) PROVE ResolverInv'
  <2>1. CASE RejectReturn(c) \/ Return(c)
    BY <2>1, LeaveInv
  <2>2. CASE \/ NoQuestion(c) \/ PolicyBlock(c) \/ PolicyAllow(c) \/ CheckRefresh(c)
             \/ ClaimTaken(c) \/ ForwardUnusable(c) \/ ForwardFails(c) \/ StaleNone(c)
             \/ CNAMEOverflow(c) \/ CNAMEBlock(c) \/ UncloakedHit(c) \/ UncloakedFresh(c)
    BY <2>2, PlainSteps
  <2>3. CASE LookupHit(c)
    BY <2>3, LookupHitInv
  <2>4. CASE LookupMiss(c)
    BY <2>4, LookupMissInv
  <2>5. CASE \E t \in Task : ClaimRefresh(c, t)
    BY <2>5, ClaimRefreshInv
  <2>6. CASE \E r \in Response : ForwardOK(c, r)
    BY <2>6, ForwardOKInv
  <2>7. CASE StaleServe(c)
    BY <2>7, StaleServeInv
  <2>8. CASE CNAMEAllow(c)
    BY <2>8, CNAMEAllowInv
  <2>9. CASE StoreAnswer(c)
    BY <2>9, StoreAnswerInv
  <2> QED BY <1>2, <2>1, <2>2, <2>3, <2>4, <2>5, <2>6, <2>7, <2>8, <2>9 DEF CallStep
<1>3. ASSUME NEW t \in Task, TaskStep(t) PROVE ResolverInv'
  BY <1>3, TaskForwardOKInv, TaskFailsInv, TaskStoreInv, TaskEndInv DEF TaskStep
<1>4. ASSUME NEW d \in Domain, NEW cl \in Client, PolicyChange(d, cl) PROVE ResolverInv'
  BY <1>4, PolicyChangeInv
<1>5. CASE Clock
  BY <1>5, ClockInv
<1>6. CASE UNCHANGED vars
  <2>1. UNCHANGED <<cacheVars, callVars, inflight, task, blocked, cleared, hadStale>>
    BY <1>6 DEF vars
  <2> QED BY <2>1, CacheAndTasksSame, CallsSame
<1> QED BY <1>1, <1>2, <1>3, <1>4, <1>5, <1>6 DEF Next

(* The invariant says what the runs check.                                  *)
LEMMA ResolverInvImplies ==
    ResolverInv => /\ TypeOK /\ AdmissionBound /\ SingleFlight
                   /\ AnswersMatch /\ NoBlockedNameAnswered
<1> SUFFICES ASSUME ResolverInv
             PROVE  /\ TypeOK /\ AdmissionBound /\ SingleFlight
                    /\ AnswersMatch /\ NoBlockedNameAnswered
  OBVIOUS
<1>1. TypeOK
  BY DEF ResolverInv, TypeOK, CacheInv, CallTypes, TaskTypes
<1>2. AdmissionBound /\ SingleFlight
  BY DEF ResolverInv
<1>3. AnswersMatch
  BY DEF ResolverInv, CachedAnswers, AllCallsOK, CallOK, AnswersMatch
<1>4. NoBlockedNameAnswered
  <2> SUFFICES ASSUME NEW c \in Call, reply[c] \in {"fresh", "hit"}
               PROVE  /\ Name(c) \in cleared[c]
                      /\ \A i \in 1..Len(msg[c].cnames) : msg[c].cnames[i] \in cleared[c]
    BY DEF NoBlockedNameAnswered
  <2>1. CallOK(c) /\ checked[c] \in Nat
    BY DEF ResolverInv, AllCallsOK, CallTypes
  <2>2. Returned(c)
    BY <2>1 DEF CallOK, Returned
  <2>3. msg[c] \in Response /\ msg[c].cnames \in Seq(Domain)
    BY <2>1, <2>2, CacheAssumption DEF CallOK, Returned, ResponseType
  <2>4. Name(c) \in cleared[c] /\ Len(msg[c].cnames) <= checked[c]
    BY <2>1, <2>2 DEF CallOK
  <2>5. ASSUME NEW i \in 1..Len(msg[c].cnames) PROVE msg[c].cnames[i] \in cleared[c]
    <3>1. i <= checked[c]
      BY <2>1, <2>3, <2>4
    <3> QED BY <2>1, <2>2, <3>1 DEF CallOK
  <2> QED BY <2>4, <2>5
<1> QED BY <1>1, <1>2, <1>3, <1>4

(* For any number of concurrent calls, refresh goroutines, clients and      *)
(* names, and any interleaving with policy changes: types hold, the         *)
(* admission counter is exact and bounds the calls past admission, each key *)
(* has at most one refresh and every claimed slot an owner, every cached or *)
(* returned message answers its question, and a fresh or cached answer      *)
(* never names what was blocked for its client during the whole call        *)
(* (resolver.go:86-317).                                                    *)
THEOREM ResolverCorrect ==
    Spec => [](/\ TypeOK /\ AdmissionBound /\ SingleFlight
               /\ AnswersMatch /\ NoBlockedNameAnswered)
<1>1. Init => ResolverInv
  BY ResolverInitInv
<1>2. ResolverInv /\ [Next]_vars => ResolverInv'
  BY ResolverNextInv
<1>3. ResolverInv => /\ TypeOK /\ AdmissionBound /\ SingleFlight
                     /\ AnswersMatch /\ NoBlockedNameAnswered
  BY ResolverInvImplies
<1> QED BY <1>1, <1>2, <1>3, PTL DEF Spec

(* However arrivals, refusals and returns interleave, no unit is lost and   *)
(* never more calls than MaxConcurrentQueries are past admission            *)
(* (resolver.go:95-103).                                                    *)
THEOREM AdmissionIsBounded == Spec => []AdmissionBound
BY ResolverCorrect, PTL

(* A refresh slot is claimed exactly while one goroutine works on its key,  *)
(* through every failure path of the goroutine (resolver.go:246-284).       *)
THEOREM RefreshIsSingleFlight == Spec => []SingleFlight
BY ResolverCorrect, PTL

(* What is cached under a key or returned to a call answers that question,  *)
(* whoever stored it (resolver.go:160-170, 273-282).                        *)
THEOREM AnswersAreMatched == Spec => []AnswersMatch
BY ResolverCorrect, PTL

(* The resolver uses the cache only through its methods, each with a key    *)
(* and a response in their types: seen on the cache's variables alone, the  *)
(* composed system is an execution of the cache's own specification, so     *)
(* everything proved of the cache holds inside the resolver.                *)
THEOREM ResolverUsesCache == Spec => CacheSpec
<1>1. Init => CacheInit
  BY DEF Init
<1>2. ResolverInv /\ [Next]_vars => [CacheNext]_cacheVars
  <2> SUFFICES ASSUME ResolverInv, Next PROVE [CacheNext]_cacheVars
    BY DEF vars, cacheVars
  <2>1. ASSUME NEW c \in Call, CallStep(c) PROVE [CacheNext]_cacheVars
    <3>1. CASE UNCHANGED cacheVars
      BY <3>1
    <3>2. CASE LookupHit(c) \/ LookupMiss(c)
      BY <3>2, CheckedName DEF LookupHit, LookupMiss, CacheNext
    <3>3. CASE \E t \in Task : ClaimRefresh(c, t)
      BY <3>3, CheckedName DEF ClaimRefresh, CacheNext
    <3>4. CASE StoreAnswer(c)
      <4>1. query[c].key \in Key /\ msg[c] \in Response
        BY <3>4, CheckedName DEF StoreAnswer, ResolverInv, AllCallsOK, CallOK, Holding
      <4> QED BY <3>4, <4>1 DEF StoreAnswer, CacheNext
    <3> QED BY <2>1, <3>1, <3>2, <3>3, <3>4
            DEF CallStep, RejectReturn, NoQuestion, PolicyBlock, PolicyAllow, CheckRefresh,
                ClaimTaken, ForwardOK, ForwardUnusable, ForwardFails, StaleServe, StaleNone,
                CNAMEOverflow, CNAMEBlock, CNAMEAllow, UncloakedHit, UncloakedFresh, Return
  <2>2. ASSUME NEW t \in Task, TaskStep(t) PROVE [CacheNext]_cacheVars
    <3>1. task[t] # None => task[t].key \in Key
      BY <2>2, RefreshFields DEF ResolverInv, TaskTypes
    <3>2. CASE TaskStore(t)
      <4>1. task[t].msg \in Response
        BY <3>2 DEF TaskStore, ResolverInv, TasksOK
      <4> QED BY <3>1, <3>2, <4>1 DEF TaskStore, CacheNext
    <3>3. CASE TaskEnd(t)
      BY <3>1, <3>3 DEF TaskEnd, CacheNext
    <3> QED BY <2>2, <3>2, <3>3 DEF TaskStep, TaskForwardOK, TaskFails
  <2>3. CASE Clock
    BY <2>3 DEF Clock, CacheNext
  <2> QED BY <2>1, <2>2, <2>3 DEF Next, Arrive, PolicyChange
<1> QED BY <1>1, <1>2, ResolverInitInv, ResolverNextInv, PTL DEF Spec, CacheSpec

(* Inside the resolver, whatever calls and refreshes do to it, the cache is *)
(* still one structure of bounded size whose entries never outlive their    *)
(* records, and a bounded map to those who use it (cache.go:123-218).       *)
THEOREM ResolverCacheCorrect ==
    Spec => [](ListMatchesMap /\ LifetimeBounded) /\ ImplementsBoundedCache
<1>1. CacheSpec => [](CacheTypeOK /\ ListMatchesMap /\ LifetimeBounded)
  BY CacheCorrect
<1>2. Spec => CacheSpec
  BY ResolverUsesCache
<1>3. CacheSpec => ImplementsBoundedCache
  BY CacheImplementsPromise
<1> QED BY <1>1, <1>2, <1>3, PTL
=============================================================================
