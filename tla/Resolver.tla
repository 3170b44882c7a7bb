------------------------------ MODULE Resolver ------------------------------
(***************************************************************************)
(* ResolveQuery (internal/dns/resolver/resolver.go): concurrent calls from *)
(* every transport share the admission counter, the response cache and the *)
(* policy of the risk service; a cache hit may start a background refresh. *)
(*                                                                         *)
(* A call is a process that runs one query after another.  Each call into  *)
(* the cache, the policy or the upstream is one step, because each is      *)
(* atomic or is where other calls run.  The policy itself is external      *)
(* here: `blocked` holds the (name, client) pairs it blocks, and an        *)
(* operator, a feed or a group change may alter it at any time.            *)
(***************************************************************************)
EXTENDS ResponseCache

CONSTANTS
    Call,            \* goroutines running ResolveQuery
    Task,            \* goroutines of refresh-ahead
    Client,          \* who asks: policy depends on it
    MaxInflight,     \* Config.MaxConcurrentQueries
    MaxCNAMEChecks,  \* maxCNAMEPolicyChecks
    KeyQuestion,     \* the question a cache key was made from
    QuestionName,    \* the name a question asks for
    None             \* no query, response or refresh at hand

Query == [key : Key, client : Client, cacheable : BOOLEAN]

Refresh == [at : {"forward", "store", "end"}, key : Key, msg : Response \cup {None}]

ASSUME ResolverAssumption ==
    /\ IsFiniteSet(Call)
    /\ MaxInflight \in Nat \ {0}
    /\ MaxCNAMEChecks \in Nat
    /\ KeyQuestion \in [Key -> Question]
    /\ QuestionName \in [Question -> Domain]
    /\ None \notin Response \cup Query \cup Refresh

VARIABLES
    pc,         \* where each call is
    query,      \* what each call was asked
    msg,        \* responseMsg of each call
    cacheHit,   \* cacheHit of each call
    checked,    \* CNAME targets each call has evaluated
    reply,      \* what each call returns
    inflight,   \* Resolver.inflight
    task,       \* refresh-ahead goroutines
    blocked,    \* what the policy blocks, per name and client
    cleared,    \* history: names not blocked at some time during the call
    hadStale    \* history: at lookup the key had an entry GetStale may serve

callVars == <<pc, query, msg, cacheHit, checked, reply>>
vars == <<cacheVars, callVars, inflight, task, blocked, cleared, hadStale>>

Location == {"idle", "rejected", "policy", "lookup", "ahead", "claim", "forward",
             "stale", "uncloak", "store", "done"}

Reply == {"none", "error", "blocked", "fresh", "hit", "stale"}

Name(c) == QuestionName[KeyQuestion[query[c].key]]

Blocks(d, c) == <<d, query[c].client>> \in blocked

Init ==
    /\ CacheInit
    /\ query = [c \in Call |-> None]
    /\ pc = [c \in Call |-> "idle"]
    /\ msg = [c \in Call |-> None]
    /\ cacheHit = [c \in Call |-> FALSE]
    /\ checked = [c \in Call |-> 0]
    /\ reply = [c \in Call |-> "none"]
    /\ inflight = 0
    /\ task = [t \in Task |-> None]
    /\ blocked \in SUBSET (Domain \X Client)
    /\ cleared = [c \in Call |-> {}]
    /\ hadStale = [c \in Call |-> FALSE]

Goto(c, l) == pc' = [pc EXCEPT ![c] = l]

Finish(c, outcome) ==
    /\ Goto(c, "done")
    /\ reply' = [reply EXCEPT ![c] = outcome]

Allowed(cl) == {d \in Domain : <<d, cl>> \notin blocked}
-----------------------------------------------------------------------------
(* Admission: one atomic add decides; a refused call takes its unit back in *)
(* a second step.                                                           *)
\* Mutant: the limit is compared with the value before the add.
ArriveLate(c, q) ==
    /\ pc[c] = "idle"
    /\ query' = [query EXCEPT ![c] = q]
    /\ inflight' = inflight + 1
    /\ Goto(c, IF inflight > MaxInflight THEN "rejected" ELSE "policy")
    /\ cleared' = [cleared EXCEPT ![c] = Allowed(q.client)]
    /\ UNCHANGED <<cacheVars, msg, cacheHit, checked, reply, task, blocked, hadStale>>

Arrive(c, q) ==
    /\ pc[c] = "idle"
    /\ query' = [query EXCEPT ![c] = q]
    /\ inflight' = inflight + 1
    /\ Goto(c, IF inflight + 1 > MaxInflight THEN "rejected" ELSE "policy")
    /\ cleared' = [cleared EXCEPT ![c] = Allowed(q.client)]
    /\ UNCHANGED <<cacheVars, msg, cacheHit, checked, reply, task, blocked, hadStale>>

RejectReturn(c) ==
    /\ pc[c] = "rejected"
    /\ inflight' = inflight - 1
    /\ Goto(c, "idle")
    /\ query' = [query EXCEPT ![c] = None]
    /\ cleared' = [cleared EXCEPT ![c] = {}]
    /\ UNCHANGED <<cacheVars, msg, cacheHit, checked, reply, task, blocked, hadStale>>

(* A query without a question is refused after admission.                   *)
NoQuestion(c) ==
    /\ pc[c] = "policy"
    /\ Finish(c, "error")
    /\ UNCHANGED <<cacheVars, query, msg, cacheHit, checked, inflight, task, blocked,
                   cleared, hadStale>>

PolicyBlock(c) ==
    /\ pc[c] = "policy"
    /\ Blocks(Name(c), c)
    /\ Finish(c, "blocked")
    /\ UNCHANGED <<cacheVars, query, msg, cacheHit, checked, inflight, task, blocked,
                   cleared, hadStale>>

PolicyAllow(c) ==
    /\ pc[c] = "policy"
    /\ ~Blocks(Name(c), c)
    /\ Goto(c, IF query[c].cacheable THEN "lookup" ELSE "forward")
    /\ UNCHANGED <<cacheVars, query, msg, cacheHit, checked, reply, inflight, task,
                   blocked, cleared, hadStale>>
-----------------------------------------------------------------------------
(* validateUpstreamResponse: the reply answers the question that was asked. *)
Answers(r, k) == r.question = KeyQuestion[k]

(* lookupCache.  An entry that fails validation is treated as a miss.       *)
LookupHit(c) ==
    LET k == query[c].key IN
    /\ pc[c] = "lookup"
    /\ GetHit(k)
    /\ IF Answers(entry[k].msg, k)
         THEN /\ msg' = [msg EXCEPT ![c] = entry[k].msg]
              /\ cacheHit' = [cacheHit EXCEPT ![c] = TRUE]
              /\ Goto(c, "ahead")
         ELSE /\ Goto(c, "forward")
              /\ UNCHANGED <<msg, cacheHit>>
    /\ UNCHANGED <<query, checked, reply, inflight, task, blocked, cleared, hadStale>>

LookupMiss(c) ==
    LET k == query[c].key IN
    /\ pc[c] = "lookup"
    /\ GetAbsent(k) \/ GetExpired(k)
    /\ Goto(c, "forward")
    /\ hadStale' = [hadStale EXCEPT ![c] = InStaleWindow(k)]
    /\ UNCHANGED <<query, msg, cacheHit, checked, reply, inflight, task, blocked, cleared>>

(* maybeRefreshAhead: two separate critical sections of the cache.          *)
CheckRefresh(c) ==
    /\ pc[c] = "ahead"
    /\ Goto(c, IF ShouldRefresh(query[c].key) THEN "claim" ELSE "uncloak")
    /\ UNCHANGED <<cacheVars, query, msg, cacheHit, checked, reply, inflight, task,
                   blocked, cleared, hadStale>>

\* Mutant: the slot is set without looking whether it is taken.
ClaimAlways(c, t) ==
    LET k == query[c].key IN
    /\ pc[c] = "claim"
    /\ refreshing' = refreshing \cup {k}
    /\ task[t] = None
    /\ task' = [task EXCEPT ![t] = [at |-> "forward", key |-> k, msg |-> None]]
    /\ Goto(c, "uncloak")
    /\ UNCHANGED <<entry, lru, now, query, msg, cacheHit, checked, reply, inflight,
                   blocked, cleared, hadStale>>

ClaimRefresh(c, t) ==
    LET k == query[c].key IN
    /\ pc[c] = "claim"
    /\ BeginRefresh(k)
    /\ task[t] = None
    /\ task' = [task EXCEPT ![t] = [at |-> "forward", key |-> k, msg |-> None]]
    /\ Goto(c, "uncloak")
    /\ UNCHANGED <<query, msg, cacheHit, checked, reply, inflight, blocked, cleared, hadStale>>

ClaimTaken(c) ==
    /\ pc[c] = "claim"
    /\ query[c].key \in refreshing
    /\ Goto(c, "uncloak")
    /\ UNCHANGED <<cacheVars, query, msg, cacheHit, checked, reply, inflight, task,
                   blocked, cleared, hadStale>>
-----------------------------------------------------------------------------
(* ForwardDoH with the checks on what comes back.                           *)
ForwardOK(c, r) ==
    /\ pc[c] = "forward"
    /\ Answers(r, query[c].key)
    /\ msg' = [msg EXCEPT ![c] = r]
    /\ Goto(c, "uncloak")
    /\ UNCHANGED <<cacheVars, query, cacheHit, checked, reply, inflight, task, blocked,
                   cleared, hadStale>>

(* The message does not pack, does not unpack, or answers something else.   *)
ForwardUnusable(c) ==
    /\ pc[c] = "forward"
    /\ Finish(c, "error")
    /\ UNCHANGED <<cacheVars, query, msg, cacheHit, checked, inflight, task, blocked,
                   cleared, hadStale>>

ForwardFails(c) ==
    /\ pc[c] = "forward"
    /\ Goto(c, "stale")
    /\ UNCHANGED <<cacheVars, query, msg, cacheHit, checked, reply, inflight, task,
                   blocked, cleared, hadStale>>

(* lookupStale: the answer is returned as it is.                            *)
StaleFound(c) ==
    query[c].cacheable /\ InStaleWindow(query[c].key)
        /\ Answers(entry[query[c].key].msg, query[c].key)

StaleServe(c) ==
    /\ pc[c] = "stale"
    /\ StaleFound(c)
    /\ msg' = [msg EXCEPT ![c] = entry[query[c].key].msg]
    /\ Finish(c, "stale")
    /\ UNCHANGED <<cacheVars, query, cacheHit, checked, inflight, task, blocked,
                   cleared, hadStale>>

\* Mutant: without a stale answer the upstream is asked again, for ever.
StaleRetry(c) ==
    /\ pc[c] = "stale"
    /\ ~StaleFound(c)
    /\ Goto(c, "forward")
    /\ UNCHANGED <<cacheVars, query, msg, cacheHit, checked, reply, inflight, task,
                   blocked, cleared, hadStale>>

StaleNone(c) ==
    /\ pc[c] = "stale"
    /\ ~StaleFound(c)
    /\ Finish(c, "error")
    /\ UNCHANGED <<cacheVars, query, msg, cacheHit, checked, inflight, task, blocked,
                   cleared, hadStale>>
-----------------------------------------------------------------------------
(* CNAME uncloaking, one policy evaluation per step.                        *)
Target(c) == msg[c].cnames[checked[c] + 1]

MoreTargets(c) == checked[c] < Len(msg[c].cnames)

CNAMEOverflow(c) ==
    /\ pc[c] = "uncloak"
    /\ MoreTargets(c)
    /\ checked[c] + 1 > MaxCNAMEChecks
    /\ Finish(c, "error")
    /\ UNCHANGED <<cacheVars, query, msg, cacheHit, checked, inflight, task, blocked,
                   cleared, hadStale>>

CNAMEBlock(c) ==
    /\ pc[c] = "uncloak"
    /\ MoreTargets(c)
    /\ checked[c] + 1 <= MaxCNAMEChecks
    /\ Blocks(Target(c), c)
    /\ Finish(c, "blocked")
    /\ UNCHANGED <<cacheVars, query, msg, cacheHit, checked, inflight, task, blocked,
                   cleared, hadStale>>

CNAMEAllow(c) ==
    /\ pc[c] = "uncloak"
    /\ MoreTargets(c)
    /\ checked[c] + 1 <= MaxCNAMEChecks
    /\ ~Blocks(Target(c), c)
    /\ checked' = [checked EXCEPT ![c] = @ + 1]
    /\ UNCHANGED <<cacheVars, pc, query, msg, cacheHit, reply, inflight, task, blocked,
                   cleared, hadStale>>

\* Mutant: a cached answer was checked when it was stored, so skip the walk.
UncloakSkipped(c) ==
    /\ pc[c] = "uncloak"
    /\ cacheHit[c]
    /\ Finish(c, "hit")
    /\ UNCHANGED <<cacheVars, query, msg, cacheHit, checked, inflight, task, blocked,
                   cleared, hadStale>>

UncloakedHit(c) ==
    /\ pc[c] = "uncloak"
    /\ ~MoreTargets(c)
    /\ cacheHit[c]
    /\ Finish(c, "hit")
    /\ UNCHANGED <<cacheVars, query, msg, cacheHit, checked, inflight, task, blocked,
                   cleared, hadStale>>

UncloakedFresh(c) ==
    /\ pc[c] = "uncloak"
    /\ ~MoreTargets(c)
    /\ ~cacheHit[c]
    /\ Goto(c, "store")
    /\ UNCHANGED <<cacheVars, query, msg, cacheHit, checked, reply, inflight, task,
                   blocked, cleared, hadStale>>

(* storeCache; an uncacheable query has no key to store under.              *)
StoreAnswer(c) ==
    /\ pc[c] = "store"
    /\ IF query[c].cacheable THEN Put(query[c].key, msg[c]) ELSE UNCHANGED cacheVars
    /\ Finish(c, "fresh")
    /\ UNCHANGED <<query, msg, cacheHit, checked, inflight, task, blocked, cleared, hadStale>>

(* The deferred decrement; the transport gets the reply.                    *)
Return(c) ==
    /\ pc[c] = "done"
    /\ inflight' = inflight - 1
    /\ Goto(c, "idle")
    /\ query' = [query EXCEPT ![c] = None]
    /\ msg' = [msg EXCEPT ![c] = None]
    /\ cacheHit' = [cacheHit EXCEPT ![c] = FALSE]
    /\ checked' = [checked EXCEPT ![c] = 0]
    /\ reply' = [reply EXCEPT ![c] = "none"]
    /\ cleared' = [cleared EXCEPT ![c] = {}]
    /\ hadStale' = [hadStale EXCEPT ![c] = FALSE]
    /\ UNCHANGED <<cacheVars, task, blocked>>
-----------------------------------------------------------------------------
(* The refresh-ahead goroutine: forward, validate, store, release the slot. *)
\* Mutant: the refresh goroutine does not validate the upstream's reply.
TaskForwardUnchecked(t, r) ==
    /\ task[t] # None /\ task[t].at = "forward"
    /\ task' = [task EXCEPT ![t].at = "store", ![t].msg = r]
    /\ UNCHANGED <<cacheVars, callVars, inflight, blocked, cleared, hadStale>>

TaskForwardOK(t, r) ==
    /\ task[t] # None /\ task[t].at = "forward"
    /\ Answers(r, task[t].key)
    /\ task' = [task EXCEPT ![t].at = "store", ![t].msg = r]
    /\ UNCHANGED <<cacheVars, callVars, inflight, blocked, cleared, hadStale>>

TaskFails(t) ==
    /\ task[t] # None /\ task[t].at = "forward"
    /\ task' = [task EXCEPT ![t].at = "end"]
    /\ UNCHANGED <<cacheVars, callVars, inflight, blocked, cleared, hadStale>>

TaskStore(t) ==
    /\ task[t] # None /\ task[t].at = "store"
    /\ Put(task[t].key, task[t].msg)
    /\ task' = [task EXCEPT ![t].at = "end", ![t].msg = None]
    /\ UNCHANGED <<callVars, inflight, blocked, cleared, hadStale>>

TaskEnd(t) ==
    /\ task[t] # None /\ task[t].at = "end"
    /\ EndRefresh(task[t].key)
    /\ task' = [task EXCEPT ![t] = None]
    /\ UNCHANGED <<callVars, inflight, blocked, cleared, hadStale>>

(* Any change of policy: one name becomes blocked or allowed for a client.  *)
PolicyChange(d, cl) ==
    /\ blocked' = IF <<d, cl>> \in blocked THEN blocked \ {<<d, cl>>}
                                           ELSE blocked \cup {<<d, cl>>}
    /\ cleared' = [c \in Call |-> IF <<d, cl>> \in blocked /\ pc[c] # "idle"
                                       /\ query[c].client = cl
                                    THEN cleared[c] \cup {d} ELSE cleared[c]]
    /\ UNCHANGED <<cacheVars, callVars, inflight, task, hadStale>>

Clock == Tick /\ UNCHANGED <<callVars, inflight, task, blocked, cleared, hadStale>>

CallStep(c) ==
    \/ RejectReturn(c)
    \/ NoQuestion(c)
    \/ PolicyBlock(c)
    \/ PolicyAllow(c)
    \/ LookupHit(c)
    \/ LookupMiss(c)
    \/ CheckRefresh(c)
    \/ \E t \in Task : ClaimRefresh(c, t)
    \/ ClaimTaken(c)
    \/ \E r \in Response : ForwardOK(c, r)
    \/ ForwardUnusable(c)
    \/ ForwardFails(c)
    \/ StaleServe(c)
    \/ StaleNone(c)
    \/ CNAMEOverflow(c)
    \/ CNAMEBlock(c)
    \/ CNAMEAllow(c)
    \/ UncloakedHit(c)
    \/ UncloakedFresh(c)
    \/ StoreAnswer(c)
    \/ Return(c)

TaskStep(t) ==
    \/ \E r \in Response : TaskForwardOK(t, r)
    \/ TaskFails(t)
    \/ TaskStore(t)
    \/ TaskEnd(t)

Next ==
    \/ \E c \in Call, q \in Query : Arrive(c, q)
    \/ \E c \in Call : CallStep(c)
    \/ \E t \in Task : TaskStep(t)
    \/ \E d \in Domain, cl \in Client : PolicyChange(d, cl)
    \/ Clock

Spec == Init /\ [][Next]_vars

(* A call that has started is never suspended for ever: the upstream client *)
(* and the refresh context have timeouts, every lock is held for a bounded  *)
(* time.  Arrivals, policy changes and the clock are not fair.              *)
FairSpec ==
    /\ Spec
    /\ \A c \in Call : WF_vars(CallStep(c))
    /\ \A t \in Task : WF_vars(TaskStep(t))
-----------------------------------------------------------------------------
TypeOK ==
    /\ CacheTypeOK
    /\ pc \in [Call -> Location]
    /\ query \in [Call -> Query \cup {None}]
    /\ msg \in [Call -> Response \cup {None}]
    /\ cacheHit \in [Call -> BOOLEAN]
    /\ checked \in [Call -> Nat]
    /\ reply \in [Call -> Reply]
    /\ inflight \in Nat
    /\ task \in [Task -> Refresh \cup {None}]
    /\ blocked \in SUBSET (Domain \X Client)
    /\ cleared \in [Call -> SUBSET Domain]
    /\ hadStale \in [Call -> BOOLEAN]

Active == {c \in Call : pc[c] # "idle"}

Admitted == {c \in Call : pc[c] \notin {"idle", "rejected"}}

(* However arrivals, refusals and returns interleave, the counter equals    *)
(* the number of calls between their add and their decrement, so no unit is *)
(* lost or returned twice, and no more than MaxConcurrentQueries calls get  *)
(* past admission (resolver.go:95-103).                                     *)
AdmissionBound ==
    /\ inflight = Cardinality(Active)
    /\ Cardinality(Admitted) <= MaxInflight

(* An answer that is not stale was policy-checked for this client during    *)
(* this call: a name blocked for the client from start to end of the call,  *)
(* be it the question or any CNAME target, is never answered, whoever put   *)
(* the message in the cache and whatever changed meanwhile                  *)
(* (resolver.go:119-122, 179-200).                                          *)
NoBlockedNameAnswered ==
    \A c \in Call : reply[c] \in {"fresh", "hit"} =>
        /\ Name(c) \in cleared[c]
        /\ \A i \in 1..Len(msg[c].cnames) : msg[c].cnames[i] \in cleared[c]

(* Whatever is cached under a key, and whatever is returned to a call,      *)
(* answers that key's question: both the query path and the refresh         *)
(* goroutine validate before they store (resolver.go:160-170, 273-282).     *)
AnswersMatch ==
    /\ \A k \in Key : Present(k) => Answers(entry[k].msg, k)
    /\ \A c \in Call : reply[c] \in {"fresh", "hit", "stale"} =>
          Answers(msg[c], query[c].key)

(* A refresh slot is claimed exactly while one goroutine works on that key: *)
(* no two refreshes of a key run at once, and none leaks its slot on any of *)
(* its failure paths (resolver.go:246-284, cache.go:447-474).               *)
SingleFlight ==
    /\ \A t, u \in Task :
          task[t] # None /\ task[u] # None /\ task[t].key = task[u].key => t = u
    /\ refreshing = {task[t].key : t \in {u \in Task : task[u] # None}}

(* Every admitted or refused call returns.                                  *)
CallsReturn == \A c \in Call : []<>(pc[c] = "idle")

(* Every claimed refresh slot is released.                                  *)
SlotsReleased == \A k \in Key : []<>(k \notin refreshing)

(* What the architecture notes say of an upstream outage: a call that found *)
(* its entry expired but within the stale window, and then could not reach  *)
(* the upstream, does not fail.                                             *)
ServesStale ==
    \A c \in Call : pc[c] = "stale" /\ hadStale[c] => StaleFound(c)

(* What the comment on the stale path says: the stale answer still runs     *)
(* through the policy checks on its CNAME targets.                          *)
StaleAnswerChecked ==
    \A c \in Call : reply[c] = "stale" =>
        \A i \in 1..Len(msg[c].cnames) : msg[c].cnames[i] \in cleared[c]
=============================================================================
