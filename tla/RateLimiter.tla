------------------------------ MODULE RateLimiter ------------------------------
(***************************************************************************)
(* The token bucket per client: a bounded table, two recency lists (keys   *)
(* with a token, keys without), eviction in three passes and the sweep of  *)
(* idle keys.  Every operation holds the mutex, so each is one step.       *)
(* Tokens are counted in parts: a request costs Unit, a tick refills Rate. *)
(***************************************************************************)
EXTENDS Integers, Sequences, FiniteSets, SequencesExt, Lists

CONSTANTS
    Client,         \* keys: client addresses
    Burst,          \* Limiter.burst, in requests
    Unit,           \* parts of a token
    Rate,           \* parts refilled per tick
    MaxKeys,        \* Limiter.maxKeys; no cap when it is not positive
    IdleThreshold,  \* of cleanup, in ticks
    MaxTime,        \* bound on the clock
    MaxHits         \* bound: hits of a bucket that are told apart

LimiterAssumption ==
    /\ Burst \in Nat /\ Unit \in Nat /\ Rate \in Nat
    /\ MaxKeys \in Int /\ IdleThreshold \in Nat
    /\ MaxTime \in Nat /\ MaxHits \in Nat /\ MaxHits > 1

VARIABLES
    buckets,        \* the table: tokens, lastCheck, hits
    active, blocked,    \* the recency lists, most recent first
    oneShot,        \* keys seen exactly once
    granted,        \* requests a bucket let through, since when: for properties
    now

vars == <<buckets, active, blocked, oneShot, granted, now>>

Init ==
    /\ buckets = [k \in {} |-> 0]
    /\ active = <<>> /\ blocked = <<>>
    /\ oneShot = 0
    /\ granted = [k \in {} |-> 0]
    /\ now = 0

(* trimCount: int(maxKeys * evictionRatio), at least one.                   *)
TrimCount == LET trim == (MaxKeys * 9) \div 10 IN IF trim < 1 THEN 1 ELSE trim

First(s, n) == SubSeq(s, 1, IF Len(s) < n THEN Len(s) ELSE n)

Without(s, gone) == Keep(s, {i \in DOMAIN s : s[i] \notin gone})

(* The active keys that are given up first, from the least recent: those    *)
(* seen once, then the others.                                              *)
Sparing(keys) == Without(Reverse(active), keys)
Once == IF oneShot = 0 THEN {} ELSE {k \in ToSet(active) : buckets[k].hits = 1}
ActiveFirst == Sparing(ToSet(active) \ Once) \o Sparing(Once)

(* Mutant: the blocked keys go before the last of the active ones.          *)
EvictLockedBlind ==
    First(Sparing(ToSet(active) \ Once) \o Reverse(blocked) \o Sparing(Once), TrimCount)

(* evictLocked: keys seen once, then active keys, then blocked ones, each   *)
(* from the least recent.                                                   *)
EvictLocked == First(ActiveFirst \o Reverse(blocked), TrimCount)

Only(f, keys) == [k \in DOMAIN f \cap keys |-> f[k]]

(* removeKey: the counter knows the keys seen once.                         *)
OneShotWithout(gone) == oneShot - Cardinality({k \in gone : buckets[k].hits = 1})

Refill(b) ==
    LET t == b.tokens + (now - b.lastCheck) * Rate
    IN  IF t > Burst * Unit THEN Burst * Unit ELSE t

Checked(b) == now

(* Mutant: the list is chosen by the answer, before the token is spent.     *)
BlockedNextByAnswer(tokens, spent) == tokens < Unit

(* place is called after the decision: would the next request be denied?    *)
BlockedNext(tokens, spent) == spent < Unit

(* Allow.                                                                   *)
Allow(k) ==
    LET known == k \in DOMAIN buckets
        gone == IF ~known /\ MaxKeys > 0 /\ Cardinality(DOMAIN buckets) >= MaxKeys
                  THEN ToSet(EvictLocked) ELSE {}
        b == IF known THEN buckets[k]
                      ELSE [tokens |-> Burst * Unit, lastCheck |-> now, hits |-> 0]
        tokens == Refill(b)
        ok == tokens >= Unit
        spent == IF ok THEN tokens - Unit ELSE tokens
        hits == IF b.hits < MaxHits THEN b.hits + 1 ELSE b.hits
        others == (DOMAIN buckets \ gone) \ {k}
        g == IF known THEN granted[k] ELSE [count |-> 0, since |-> now]
    IN  /\ buckets' = [x \in others \cup {k} |->
                         IF x = k THEN [tokens |-> spent, lastCheck |-> Checked(b), hits |-> hits]
                                  ELSE buckets[x]]
        /\ oneShot' = OneShotWithout(gone)
                      + (IF ~known THEN 1 ELSE IF b.hits = 1 THEN -1 ELSE 0)
        /\ LET a == Without(active, gone \cup {k})
               d == Without(blocked, gone \cup {k})
           IN  IF BlockedNext(tokens, spent)
                 THEN active' = a /\ blocked' = <<k>> \o d
                 ELSE active' = <<k>> \o a /\ blocked' = d
        /\ granted' = [x \in others \cup {k} |->
                         IF x = k THEN [g EXCEPT !.count = g.count + (IF ok THEN 1 ELSE 0)]
                                  ELSE granted[x]]
        /\ UNCHANGED now

Idle(k) == buckets[k].lastCheck < now - IdleThreshold

(* The keys at the back of a list that a sweep takes: it stops at the first *)
(* key that is in use.                                                      *)
Swept(s) == {s[i] : i \in {i \in DOMAIN s : \A j \in i..Len(s) : Idle(s[j])}}

Cleaned == Swept(active) \cup Swept(blocked)

Cleanup ==
    /\ Cleaned # {}
    /\ buckets' = Only(buckets, DOMAIN buckets \ Cleaned)
    /\ granted' = Only(granted, DOMAIN buckets \ Cleaned)
    /\ oneShot' = OneShotWithout(Cleaned)
    /\ active' = Without(active, Cleaned) /\ blocked' = Without(blocked, Cleaned)
    /\ UNCHANGED now

Tick ==
    /\ now < MaxTime
    /\ now' = now + 1
    /\ UNCHANGED <<buckets, active, blocked, oneShot, granted>>

Next == Cleanup \/ Tick \/ \E k \in Client : Allow(k)

Spec == Init /\ [][Next]_vars

-----------------------------------------------------------------------------
(* Properties.                                                              *)

(* The table, the lists and the counter describe the same keys: no key is   *)
(* stranded in a list, none is in both, the cap holds, and the counter that *)
(* lets a pass be skipped is exact.                                         *)
TableExact ==
    /\ MaxKeys > 0 => Cardinality(DOMAIN buckets) <= MaxKeys
    /\ ToSet(active) \cup ToSet(blocked) = DOMAIN buckets
    /\ Len(active) + Len(blocked) = Cardinality(DOMAIN buckets)
    /\ oneShot = Cardinality({k \in DOMAIN buckets : buckets[k].hits = 1})

(* The invariant of the comment on Limiter: a key is in the blocked list    *)
(* exactly when it would be denied, as of its last request.                 *)
BlockedIsDenied ==
    \A k \in DOMAIN buckets : Contains(blocked, k) <=> buckets[k].tokens < Unit

(* While a client stays in the table it is never given more than the burst  *)
(* and what time refilled, however its requests are spread.                 *)
AllowanceBound ==
    \A k \in DOMAIN granted :
        granted[k].count * Unit <= Burst * Unit + (now - granted[k].since) * Rate

(* The three together: what the table says of a client is true and bounds   *)
(* what it is given.                                                        *)
TableSound == TableExact /\ BlockedIsDenied /\ AllowanceBound

(* A sweep that stops early misses nothing: after it no idle key is left.   *)
SweepsAll ==
    (DOMAIN buckets' \subseteq DOMAIN buckets /\ buckets' # buckets
        /\ \A k \in DOMAIN buckets' : buckets'[k] = buckets[k])
      => \A k \in DOMAIN buckets' : ~Idle(k)

(* When eviction takes a blocked key, it took every active one as well.     *)
SparesThrottled ==
    (\E k \in ToSet(blocked) : k \notin DOMAIN buckets' /\ ~Idle(k))
      => ToSet(active) \cap DOMAIN buckets' = {}

(* The right keys go: a throttled client is not handed a fresh burst to     *)
(* spare another, and no idle key outlives a sweep.                         *)
RightKeysGo == [][SweepsAll /\ SparesThrottled]_vars
=============================================================================
