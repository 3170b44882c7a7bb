-------------------------------- MODULE MCDns --------------------------------
(***************************************************************************)
(* The DNS path for TLC, in three parts of which a behaviour exercises     *)
(* one: the response cache with three keys for two places and a running    *)
(* clock; two calls of the resolver, for one key, at one instant; and      *)
(* three calls that arrive where two are admitted.                         *)
(***************************************************************************)
EXTENDS Resolver

CONSTANTS ka, kb, kc, qa, qb, d0, d1

VARIABLE part

(* Two keys that ask different questions about the same name.               *)
MCKeyQuestion == [k \in Key |-> IF k = ka THEN qa ELSE qb]

MCQuestionName == [q \in Question |-> d0]

Msg(q, ts, cnames) ==
    [question |-> q, cacheable |-> TRUE, negative |-> FALSE,
     ttls |-> ts, soa |-> {}, cnames |-> cnames]

(* One key: an answer behind a CNAME, and one to another question.          *)
CloakedResponse == { Msg(qa, {1}, <<d1>>), Msg(qb, {1}, <<>>) }

(* Calls, refresh goroutines and clients are interchangeable.               *)
Symmetry == Permutations(Call) \cup Permutations(Task) \cup Permutations(Client)

(* Keys that differ in their flags only ask the same question.              *)
OneQuestion == [k \in Key |-> qa]

(* A long TTL above the cap with a short one, the long one alone, a         *)
(* negative answer shortened by its SOA, and two that are refused.          *)
Plain(c, n, ts, soa) ==
    [question |-> qa, cacheable |-> c, negative |-> n, ttls |-> ts, soa |-> soa, cnames |-> <<>>]

PlainResponse ==
    { Plain(TRUE, FALSE, {2, 9}, {}), Plain(TRUE, FALSE, {9}, {}), Plain(TRUE, TRUE, {2}, {1}),
      Plain(FALSE, FALSE, {2}, {}), Plain(TRUE, TRUE, {}, {}) }

AnyResponse == PlainResponse \cup CloakedResponse

(* The refresh slots depend on nothing else in the cache, and the calls     *)
(* exercise them.                                                           *)
CacheStep ==
    \/ \E k \in Key : \/ GetHit(k)
                      \/ GetAbsent(k)
                      \/ GetExpired(k)
                      \/ \E r \in PlainResponse : Put(k, r)
    \/ Tick

(* Every query asks for ka, and the upstream knows the cloaked answers.     *)
CallsOnly ==
    /\ now' = now
    /\ Cardinality(Active') <= 2
    /\ \A c \in Call : /\ query'[c] # None => query'[c].key = ka
                       /\ msg'[c] \notin PlainResponse
    /\ \A t \in Task : task'[t] # None => task'[t].msg \notin PlainResponse

(* Uncacheable queries that are refused, blocked, or fail at the upstream.  *)
ArrivalsOnly ==
    /\ now' = now
    /\ \A c \in Call : /\ query'[c] # None => query'[c].key = ka /\ ~query'[c].cacheable
                       /\ pc'[c] \in {"idle", "rejected", "policy", "forward", "done"}

SuiteInit ==
    /\ part \in {"cache", "calls", "arrivals"}
    /\ Init
    /\ part = "cache" => blocked = {}

SuiteNext ==
    /\ UNCHANGED part
    /\ \/ part = "cache" /\ CacheStep
             /\ UNCHANGED <<callVars, inflight, task, blocked, cleared, hadStale>>
       \/ part = "calls" /\ Next /\ CallsOnly
       \/ part = "arrivals" /\ Next /\ ArrivalsOnly

SuiteSpec == SuiteInit /\ [][SuiteNext]_<<part, vars>>

(* The resolver without the division, in an instance that is small enough.  *)
WholeSpec == part = "all" /\ Init /\ [][Next /\ UNCHANGED part]_<<part, vars>>

SuiteSymmetry == Symmetry \cup Permutations({kb, kc})
=============================================================================
