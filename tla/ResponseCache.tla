---------------------------- MODULE ResponseCache ----------------------------
(***************************************************************************)
(* The resolver's in-process cache of upstream DNS responses               *)
(* (internal/dns/resolver/cache.go).  Every method holds one mutex for its *)
(* whole critical section, so every method is one atomic action.  `entry`  *)
(* is the entries map, `lru` the list (front first) that orders the same   *)
(* keys by recency, `refreshing` the set of claimed refresh slots.         *)
(*                                                                         *)
(* A response is abstracted to what the cache reads of it: the question it *)
(* answers, whether it may be cached at all, whether it is negative, the   *)
(* TTLs of its records, the MINIMUM of its SOA records, and the CNAME      *)
(* targets in the order the resolver walks them.                           *)
(***************************************************************************)
EXTENDS Integers, Sequences, FiniteSets, FiniteSetsExt, SequencesExt

CONSTANTS
    Key,            \* responseCacheKey values
    Question,       \* what a response says it answers
    Domain,         \* names that policy is evaluated on
    Response,       \* the responses an upstream can return
    MaxEntries,     \* ResponseCache.maxEntries
    MaxTTL,         \* DNSCacheMaxTTLSeconds
    StaleWindow,    \* DNSCacheStaleWindow
    RefreshMinHits, \* refreshAheadMinHits
    LockWait,       \* bound: how long Put may wait for the mutex
    MaxTime,        \* bound on the clock
    NoEntry         \* a key that is not in the entries map

ResponseType ==
    [question : Question, cacheable : BOOLEAN, negative : BOOLEAN,
     ttls : SUBSET Nat, soa : SUBSET Nat, cnames : Seq(Domain)]

ASSUME CacheAssumption ==
    /\ IsFiniteSet(Key)
    /\ Response \subseteq ResponseType
    /\ MaxEntries \in Nat \ {0}
    /\ MaxTTL \in Nat \ {0}
    /\ StaleWindow \in Nat
    /\ RefreshMinHits \in Nat
    /\ LockWait \in Nat
    /\ MaxTime \in Nat
    /\ NoEntry \notin Response
    /\ NoEntry \notin [msg : Response, storedAt : Nat, ttl : Nat, hits : Nat]

VARIABLES
    entry,      \* Key -> responseCacheEntry, NoEntry when absent
    lru,        \* the keys, most recently used first
    refreshing, \* keys whose refresh slot is claimed
    now         \* the monotonic clock, in seconds

cacheVars == <<entry, lru, refreshing, now>>

Entry == [msg : Response, storedAt : Nat, ttl : Nat, hits : Nat]

CacheInit ==
    /\ entry = [k \in Key |-> NoEntry]
    /\ lru = <<>>
    /\ refreshing = {}
    /\ now = 0
-----------------------------------------------------------------------------
(* Whole-message lifetime: the smallest record TTL after the cap, further   *)
(* limited by the SOA MINIMUM for a negative answer; 0 when no record has   *)
(* a TTL.  Put then lowers every record to this one value.                  *)

Cap(t) == IF t > MaxTTL THEN MaxTTL ELSE t

\* Mutant: the SOA MINIMUM is applied only to answers without records.
clampSkipsSOA(r) ==
    IF r.ttls = {} THEN 0 ELSE Min({Cap(t) : t \in r.ttls})

clampResponseTTLs(r) ==
    CASE r.ttls = {} -> 0
      [] r.ttls # {} /\ r.negative -> Min({Cap(t) : t \in r.ttls} \cup r.soa)
      [] r.ttls # {} /\ ~r.negative -> Min({Cap(t) : t \in r.ttls})

Storable(r) == r.cacheable /\ clampResponseTTLs(r) > 0

Present(k) == entry[k] # NoEntry

Age(k) == now - entry[k].storedAt

Fresh(k) == Present(k) /\ Age(k) < entry[k].ttl

(* Expired no longer ago than the stale window: what GetStale may return.   *)
InStaleWindow(k) ==
    /\ Present(k)
    /\ Age(k) >= entry[k].ttl
    /\ Age(k) <= entry[k].ttl + StaleWindow

ShouldRefresh(k) ==
    /\ Present(k)
    /\ entry[k].hits >= RefreshMinHits
    /\ Age(k) >= entry[k].ttl \div 2

IndexOf(s, k) == CHOOSE i \in 1..Len(s) : s[i] = k

(* list.Remove on the element of k, which the map says is in the list.      *)
Without(s, k) == RemoveAt(s, IndexOf(s, k))

MoveToFront(s, k) == <<k>> \o Without(s, k)
-----------------------------------------------------------------------------
(* Get: a hit counts and moves to the front; an expired entry is deleted.   *)

GetHit(k) ==
    /\ Fresh(k)
    /\ entry' = [entry EXCEPT ![k].hits = IF @ < RefreshMinHits THEN @ + 1 ELSE @]
    /\ lru' = MoveToFront(lru, k)
    /\ UNCHANGED <<refreshing, now>>

GetAbsent(k) ==
    /\ ~Present(k)
    /\ UNCHANGED cacheVars

\* Mutant: the list element is removed and the map key forgotten.
GetExpiredKeepsKey(k) ==
    /\ Present(k)
    /\ ~Fresh(k)
    /\ lru' = Without(lru, k)
    /\ UNCHANGED <<entry, refreshing, now>>

GetExpired(k) ==
    /\ Present(k)
    /\ ~Fresh(k)
    /\ entry' = [entry EXCEPT ![k] = NoEntry]
    /\ lru' = Without(lru, k)
    /\ UNCHANGED <<refreshing, now>>

(* Put reads the clock before it takes the mutex, so the time it records    *)
(* may be up to LockWait behind.                                            *)
PutClock == {t \in 0..now : now - t <= LockWait}

PutRefused(r) ==
    /\ ~Storable(r)
    /\ UNCHANGED cacheVars

PutReplace(k, r) ==
    /\ Storable(r)
    /\ Present(k)
    /\ \E t \in PutClock :
          entry' = [entry EXCEPT ![k].msg = r, ![k].storedAt = t,
                                 ![k].ttl = clampResponseTTLs(r)]
    /\ lru' = MoveToFront(lru, k)
    /\ UNCHANGED <<refreshing, now>>

NewEntry(r, t) ==
    [msg |-> r, storedAt |-> t, ttl |-> clampResponseTTLs(r), hits |-> 0]

PutInsert(k, r) ==
    /\ Storable(r)
    /\ ~Present(k)
    /\ Len(lru) < MaxEntries
    /\ \E t \in PutClock : entry' = [entry EXCEPT ![k] = NewEntry(r, t)]
    /\ lru' = <<k>> \o lru
    /\ UNCHANGED <<refreshing, now>>

\* Mutant: evicts one entry too early.
PutEvictEarly(k, r) ==
    /\ Storable(r)
    /\ ~Present(k)
    /\ lru # <<>>
    /\ \E t \in PutClock :
          entry' = [entry EXCEPT ![k] = NewEntry(r, t), ![lru[Len(lru)]] = NoEntry]
    /\ lru' = <<k>> \o SubSeq(lru, 1, Len(lru) - 1)
    /\ UNCHANGED <<refreshing, now>>

PutEvict(k, r) ==
    /\ Storable(r)
    /\ ~Present(k)
    /\ Len(lru) >= MaxEntries
    /\ \E t \in PutClock :
          entry' = [entry EXCEPT ![k] = NewEntry(r, t), ![lru[Len(lru)]] = NoEntry]
    /\ lru' = <<k>> \o SubSeq(lru, 1, Len(lru) - 1)
    /\ UNCHANGED <<refreshing, now>>

Put(k, r) ==
    \/ PutRefused(r)
    \/ PutReplace(k, r)
    \/ PutInsert(k, r)
    \/ PutEvict(k, r)

BeginRefresh(k) ==
    /\ k \notin refreshing
    /\ refreshing' = refreshing \cup {k}
    /\ UNCHANGED <<entry, lru, now>>

EndRefresh(k) ==
    /\ refreshing' = refreshing \ {k}
    /\ UNCHANGED <<entry, lru, now>>

Tick ==
    /\ now < MaxTime
    /\ now' = now + 1
    /\ UNCHANGED <<entry, lru, refreshing>>

CacheNext ==
    \/ \E k \in Key :
          \/ GetHit(k)
          \/ GetAbsent(k)
          \/ GetExpired(k)
          \/ \E r \in Response : Put(k, r)
          \/ BeginRefresh(k)
          \/ EndRefresh(k)
    \/ Tick

CacheSpec == CacheInit /\ [][CacheNext]_cacheVars
-----------------------------------------------------------------------------
CacheTypeOK ==
    /\ entry \in [Key -> Entry \cup {NoEntry}]
    /\ lru \in Seq(Key)
    /\ refreshing \subseteq Key
    /\ now \in 0..MaxTime

(* The map and the list always describe the same keys, each once, and never *)
(* more than maxEntries of them: Get, Put and the eviction in Put update    *)
(* both structures together (cache.go:123-217).  A key in one and not in    *)
(* the other would leak an element for ever or evict a live entry twice.    *)
ListMatchesMap ==
    /\ \A i, j \in 1..Len(lru) : lru[i] = lru[j] => i = j
    /\ \A k \in Key : Present(k) <=> Contains(lru, k)
    /\ Len(lru) <= MaxEntries

(* An entry lives no longer than any record in it asked for, than the cap,  *)
(* or (negative answers) than the SOA MINIMUM: the lifetime clampResponse-  *)
(* TTLs computed is the one stored with the very message it was computed    *)
(* from, also after a replacement (cache.go:186-204, 292-338).              *)
LifetimeBounded ==
    \A k \in Key : Present(k) =>
        LET e == entry[k] IN
        /\ e.ttl > 0
        /\ e.ttl <= MaxTTL
        /\ \A t \in e.msg.ttls : e.ttl <= t
        /\ e.msg.negative => \A m \in e.msg.soa : e.ttl <= m
        /\ e.storedAt <= now

(* The bounded cache this module implements: a key's value is its message.  *)
Promise == INSTANCE BoundedCache WITH
    Value <- Response, NoValue <- NoEntry, Capacity <- MaxEntries,
    held <- [k \in Key |-> IF Present(k) THEN entry[k].msg ELSE NoEntry]

(* Seen from outside, the LRU cache is a bounded map: a lookup that hits    *)
(* changes no value, a store changes its own key and costs at most one      *)
(* other key, and only when maxEntries keys are held (cache.go:173-217).    *)
ImplementsBoundedCache == Promise!Spec
=============================================================================
