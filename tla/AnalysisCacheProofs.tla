------------------------- MODULE AnalysisCacheProofs -------------------------
(***************************************************************************)
(* Proofs about the analysis cache: its types, the dating of results by    *)
(* feed revision, and the exactness of the in-flight marks, for any number *)
(* of requests, workers, domains, revisions and configurations.            *)
(***************************************************************************)
EXTENDS AnalysisCache, TLAPS

Evaluated == {"lexical", "osint", "osintWrite", "store", "stamp", "enqueue", "send", "done"}

(* A request past the evaluation has a result, a busy worker has a job.     *)
InHand ==
    /\ \A r \in Req : req[r].at \in Evaluated => req[r].res \in Result
    /\ \A w \in Worker : Busy(w) => worker[w].job \in Job

(* A revision is bumped for contents that exist, and there is room for the  *)
(* bumps of the syncs under way.                                            *)
RevisionsBehind ==
    /\ feedRev + pending <= FirstRev + feedData
    /\ \A v \in FeedTag : feedAt[v] <= feedData

(* A tag handed out is a revision that has been bumped already.             *)
TagsBumped ==
    /\ \A d \in Domain : entry[d] # NoEntry => entry[d].feed <= feedRev
    /\ \A r \in Req : req[r].feed <= feedRev
    /\ \A i \in 1..Len(queue) : queue[i].feed <= feedRev
    /\ \A w \in Worker : Busy(w) => worker[w].job.feed <= feedRev

(* Whatever carries a result and a tag is dated correctly.                  *)
AllReflect ==
    /\ \A d \in Domain : entry[d] # NoEntry => Reflects(entry[d].res, entry[d].feed)
    /\ \A r \in Req : req[r].at \in Evaluated => Reflects(req[r].res, req[r].feed)
    /\ \A i \in 1..Len(queue) : Reflects(queue[i].res, queue[i].feed)
    /\ \A w \in Worker : Busy(w) => Reflects(worker[w].job.res, worker[w].job.feed)

TypeInv == TypeOK /\ InHand /\ RevisionsBehind

DateInv == TagsBumped /\ AllReflect
-----------------------------------------------------------------------------
(* The initial state is well typed and holds nothing.                       *)
LEMMA InitInv == Init => TypeInv /\ DateInv /\ InFlightExact
<1> SUFFICES ASSUME Init PROVE TypeInv /\ DateInv /\ InFlightExact
  OBVIOUS
<1> USE AnalysisAssumption
<1>1. Content[0] \in Revision /\ 0 \in FeedTag /\ FirstRev \in FeedTag
  BY DEF Revision, FeedTag
<1>2. /\ req \in [Req -> Request]
      /\ \A r \in Req : req[r].at = "start" /\ req[r].feed = 0
  <2> DEFINE Fresh == [at : {"start"}, domain : Domain, feed : {0}, known : {FALSE},
                       config : {Content[0]}, hit : {FALSE}, enriched : {FALSE},
                       res : {NoResult}, writeAs : {Content[0]}, stamp : {0}]
  <2>1. req \in [Req -> Fresh]
    BY DEF Init
  <2>2. ASSUME NEW q \in Fresh PROVE q \in Request /\ q.at = "start" /\ q.feed = 0
    <3>1. /\ q.at = "start" /\ q.domain \in Domain /\ q.feed = 0
          /\ q.config = Content[0] /\ q.res = NoResult
          /\ q.writeAs = Content[0] /\ q.stamp = 0
      OBVIOUS
    <3>2. q.known = FALSE /\ q.hit = FALSE /\ q.enriched = FALSE
      BY Zenon
    <3>3. q = [at |-> q.at, domain |-> q.domain, feed |-> q.feed, known |-> q.known,
               config |-> q.config, hit |-> q.hit, enriched |-> q.enriched,
               res |-> q.res, writeAs |-> q.writeAs, stamp |-> q.stamp]
      OBVIOUS
    <3>4. q.known \in BOOLEAN /\ q.hit \in BOOLEAN /\ q.enriched \in BOOLEAN
      BY <3>2
    <3> QED BY <1>1, <3>1, <3>3, <3>4 DEF Request, ReqAt
  <2> HIDE DEF Fresh
  <2> QED BY <2>1, <2>2
<1>3. queue \in Seq(Job) /\ Len(queue) = 0
  BY DEF Init
<1>4. TypeOK
  <2>1. worker \in [Worker -> [at : WorkerAt, job : Job \cup {NoJob}, stamp : Nat]]
    BY DEF Init, WorkerAt
  <2>2. entry \in [Domain -> Entry \cup {NoEntry}] /\ feedAt \in [FeedTag -> Nat]
    BY DEF Init
  <2>3. /\ looked \in [Req -> Nat] /\ inFlight \subseteq Domain /\ clock \in Nat
        /\ closed \in BOOLEAN /\ released \in BOOLEAN
    BY DEF Init
  <2>4. /\ feedData \in 0..MaxFeed /\ feedRev \in FeedTag /\ pending \in Nat
        /\ config \in 0..MaxConfig
    BY <1>1 DEF Init
  <2> QED BY <1>2, <1>3, <2>1, <2>2, <2>3, <2>4 DEF TypeOK
<1>5. InHand /\ RevisionsBehind
  BY <1>1, <1>2 DEF Init, InHand, RevisionsBehind, Evaluated, Busy
<1>6. DateInv
  BY <1>1, <1>2, <1>3 DEF Init, DateInv, TagsBumped, AllReflect, Evaluated, Busy, Reflects
<1>7. ASSUME NEW d \in Domain PROVE Holders(d) = {}
  BY <1>2, <1>3 DEF Init, Holders, At, Busy
<1>8. InFlightExact
  BY <1>7 DEF InFlightExact, Init
<1> QED BY <1>4, <1>5, <1>6, <1>8 DEF TypeInv
-----------------------------------------------------------------------------
(* What one step of a request does to the requests: the others stand still, *)
(* this one stays well typed, keeps its domain, and has a result once it is *)
(* evaluated.                                                               *)
ReqMoves(r) ==
    /\ req' \in [Req -> Request]
    /\ \A x \in Req \ {r} : req'[x] = req[x]
    /\ req'[r].domain = req[r].domain
    /\ req'[r].at \in Evaluated => req'[r].res \in Result

ReqBecomes(r, at, feed, res) ==
    req'[r].at = at /\ req'[r].feed = feed /\ req'[r].res = res

(* Changing the location alone.                                             *)
LEMMA GotoMoves ==
    ASSUME TypeInv, NEW r \in Req, NEW l \in ReqAt, Goto(r, l),
           l \in Evaluated => req[r].at \in Evaluated
    PROVE  ReqMoves(r) /\ ReqBecomes(r, l, req[r].feed, req[r].res)
<1>1. req \in [Req -> Request]
  BY DEF TypeInv, TypeOK
<1>2. req' = [req EXCEPT ![r] = [req[r] EXCEPT !.at = l]]
  BY <1>1 DEF Goto
<1>3. [req[r] EXCEPT !.at = l] \in Request
  BY <1>1 DEF Request
<1>4. /\ [req[r] EXCEPT !.at = l].at = l
      /\ [req[r] EXCEPT !.at = l].domain = req[r].domain
      /\ [req[r] EXCEPT !.at = l].feed = req[r].feed
      /\ [req[r] EXCEPT !.at = l].res = req[r].res
  BY <1>1 DEF Request
<1>5. req'[r] = [req[r] EXCEPT !.at = l] /\ req' \in [Req -> Request]
  BY <1>1, <1>2, <1>3
<1>6. \A x \in Req \ {r} : req'[x] = req[x]
  BY <1>1, <1>2
<1> QED BY <1>4, <1>5, <1>6 DEF ReqMoves, ReqBecomes, TypeInv, InHand

(* A request record replaced by another well-typed one.                     *)
LEMMA ReplaceMoves ==
    ASSUME TypeInv, NEW r \in Req, NEW q \in Request, req' = [req EXCEPT ![r] = q],
           q.domain = req[r].domain, q.at \in Evaluated => q.res \in Result
    PROVE  ReqMoves(r) /\ ReqBecomes(r, q.at, q.feed, q.res)
<1>1. req \in [Req -> Request]
  BY DEF TypeInv, TypeOK
<1> QED BY <1>1 DEF ReqMoves, ReqBecomes

(* Reading the epoch, evaluating, upgrading and stamping.                   *)
LEMMA ReadFeedRevisionMoves ==
    ASSUME TypeInv, NEW r \in Req, NEW known \in BOOLEAN, ReadFeedRevision(r, known)
    PROVE  ReqMoves(r)
           /\ ReqBecomes(r, "config", IF known THEN feedRev ELSE 0, req[r].res)
<1> DEFINE f == IF known THEN feedRev ELSE 0
           q == [req[r] EXCEPT !.at = "config", !.known = known, !.feed = f]
<1>1. req \in [Req -> Request] /\ f \in FeedTag
  BY AnalysisAssumption DEF TypeInv, TypeOK, FeedTag
<1>2. req' = [req EXCEPT ![r] = q]
  BY <1>1 DEF ReadFeedRevision
<1> HIDE DEF f
<1>3. q \in Request /\ q.domain = req[r].domain /\ q.at = "config" /\ q.feed = f
      /\ q.res = req[r].res
  BY <1>1 DEF Request, ReqAt
<1> HIDE DEF q
<1>4. ReqMoves(r) /\ ReqBecomes(r, q.at, q.feed, q.res)
  BY <1>2, <1>3, ReplaceMoves DEF Evaluated
<1> QED BY <1>3, <1>4 DEF f, ReqBecomes

LEMMA ReadConfigRevisionMoves ==
    ASSUME TypeInv, NEW r \in Req, ReadConfigRevision(r)
    PROVE  ReqMoves(r) /\ ReqBecomes(r, "get", req[r].feed, req[r].res)
<1> DEFINE c == Content[config]
           q == [req[r] EXCEPT !.at = "get", !.config = c]
<1>1. req \in [Req -> Request] /\ c \in Revision
  BY AnalysisAssumption DEF TypeInv, TypeOK, Revision
<1>2. req' = [req EXCEPT ![r] = q]
  BY <1>1 DEF ReadConfigRevision
<1> HIDE DEF c
<1>3. q \in Request /\ q.domain = req[r].domain /\ q.at = "get" /\ q.feed = req[r].feed
      /\ q.res = req[r].res
  BY <1>1 DEF Request, ReqAt
<1> HIDE DEF q
<1>4. ReqMoves(r) /\ ReqBecomes(r, q.at, q.feed, q.res)
  BY <1>2, <1>3, ReplaceMoves DEF Evaluated
<1> QED BY <1>3, <1>4

LEMMA CacheHitMoves ==
    ASSUME TypeInv, NEW r \in Req, CacheHit(r)
    PROVE  /\ ReqMoves(r)
           /\ ReqBecomes(r, "osint", req[r].feed, entry[req[r].domain].res)
           /\ entry[req[r].domain] # NoEntry
           /\ entry[req[r].domain].feed = req[r].feed
<1> DEFINE e == entry[req[r].domain]
           q == [req[r] EXCEPT !.at = "osint", !.hit = TRUE, !.enriched = e.enriched,
                               !.res = e.res]
<1>1. req \in [Req -> Request] /\ entry \in [Domain -> Entry \cup {NoEntry}]
  BY DEF TypeInv, TypeOK
<1>2. e \in Entry /\ e.feed = req[r].feed /\ e # NoEntry
  BY <1>1 DEF CacheHit, entryMatchesRevision, Request
<1>3. e.res \in Result /\ e.enriched \in BOOLEAN
  BY <1>2 DEF Entry
<1>4. req' = [req EXCEPT ![r] = q]
  BY <1>1 DEF CacheHit
<1> HIDE DEF e
<1>5. q \in Request /\ q.domain = req[r].domain /\ q.at = "osint" /\ q.feed = req[r].feed
      /\ q.res = e.res
  BY <1>1, <1>3 DEF Request, ReqAt
<1> HIDE DEF q
<1>6. ReqMoves(r) /\ ReqBecomes(r, q.at, q.feed, q.res)
  BY <1>3, <1>4, <1>5, ReplaceMoves DEF Evaluated
<1> QED BY <1>2, <1>5, <1>6 DEF e

LEMMA LookupFeedMoves ==
    ASSUME TypeInv, NEW r \in Req, NEW blind \in BOOLEAN, LookupFeed(r, blind)
    PROVE  /\ ReqMoves(r)
           /\ req'[r].at = "lexical" /\ req'[r].feed = req[r].feed
           /\ req'[r].res.feed = feedData
<1> DEFINE new == [class |-> "settled", osint |-> FALSE, blind |-> blind,
                   feed |-> feedData, config |-> config, id |-> r]
           q == [req[r] EXCEPT !.at = "lexical", !.res = new]
<1>1. req \in [Req -> Request] /\ feedData \in Nat /\ config \in 0..MaxConfig
  BY DEF TypeInv, TypeOK
<1>2. new \in Result /\ new.feed = feedData
  BY <1>1 DEF Result, Class
<1>3. req' = [req EXCEPT ![r] = q]
  BY <1>1 DEF LookupFeed
<1> HIDE DEF new
<1>4. q \in Request /\ q.domain = req[r].domain /\ q.at = "lexical" /\ q.feed = req[r].feed
      /\ q.res = new
  BY <1>1, <1>2 DEF Request, ReqAt
<1> HIDE DEF q
<1>5. ReqMoves(r) /\ ReqBecomes(r, q.at, q.feed, q.res)
  BY <1>2, <1>3, <1>4, ReplaceMoves DEF Evaluated
<1> QED BY <1>2, <1>4, <1>5 DEF ReqBecomes

LEMMA AnalyzeLexicalMoves ==
    ASSUME TypeInv, NEW r \in Req, NEW class \in Class, AnalyzeLexical(r, class)
    PROVE  /\ ReqMoves(r)
           /\ req'[r].at = "osint" /\ req'[r].feed = req[r].feed
           /\ req'[r].res.feed = req[r].res.feed /\ req'[r].res.blind = req[r].res.blind
<1> DEFINE new == [req[r].res EXCEPT !.class = class, !.config = config]
           q == [req[r] EXCEPT !.at = "osint", !.res = new]
<1>1. req \in [Req -> Request] /\ config \in 0..MaxConfig /\ req[r].res \in Result
  BY DEF TypeInv, TypeOK, InHand, AnalyzeLexical, At, Evaluated
<1>2. new \in Result /\ new.feed = req[r].res.feed /\ new.blind = req[r].res.blind
  BY <1>1 DEF Result, Class
<1>3. req' = [req EXCEPT ![r] = q]
  BY <1>1 DEF AnalyzeLexical, Request, Result
<1> HIDE DEF new
<1>4. q \in Request /\ q.domain = req[r].domain /\ q.at = "osint" /\ q.feed = req[r].feed
      /\ q.res = new
  BY <1>1, <1>2 DEF Request, ReqAt
<1> HIDE DEF q
<1>5. ReqMoves(r) /\ ReqBecomes(r, q.at, q.feed, q.res)
  BY <1>2, <1>3, <1>4, ReplaceMoves DEF Evaluated
<1> QED BY <1>2, <1>4, <1>5 DEF ReqBecomes

LEMMA OSINTUpgradeMoves ==
    ASSUME TypeInv, NEW r \in Req, OSINTUpgrade(r)
    PROVE  /\ ReqMoves(r)
           /\ req'[r].at = "osintWrite" /\ req'[r].feed = req[r].feed
           /\ req'[r].res.feed = req[r].res.feed /\ req'[r].res.blind = req[r].res.blind
<1> DEFINE t == clock + 1
           c == Content[config]
           new == [req[r].res EXCEPT !.class = "settled", !.osint = TRUE]
           q == [req[r] EXCEPT !.at = "osintWrite", !.res = new,
                               !.writeAs = c, !.stamp = t]
<1>1. /\ req \in [Req -> Request] /\ c \in Revision /\ t \in Nat
      /\ req[r].res \in Result
  BY AnalysisAssumption
  DEF TypeInv, TypeOK, InHand, OSINTUpgrade, At, Evaluated, Revision
<1>2. new \in Result /\ new.feed = req[r].res.feed /\ new.blind = req[r].res.blind
  BY <1>1 DEF Result, Class
<1>3. req' = [req EXCEPT ![r] = q]
  BY <1>1 DEF OSINTUpgrade, Request, Result
<1> HIDE DEF new, t, c
<1>4. q \in Request /\ q.domain = req[r].domain /\ q.at = "osintWrite"
      /\ q.feed = req[r].feed /\ q.res = new
  BY <1>1, <1>2 DEF Request, ReqAt
<1> HIDE DEF q
<1>5. ReqMoves(r) /\ ReqBecomes(r, q.at, q.feed, q.res)
  BY <1>2, <1>3, <1>4, ReplaceMoves DEF Evaluated
<1> QED BY <1>2, <1>4, <1>5 DEF ReqBecomes

LEMMA StampJobMoves ==
    ASSUME TypeInv, NEW r \in Req, StampJob(r)
    PROVE  ReqMoves(r) /\ ReqBecomes(r, "enqueue", req[r].feed, req[r].res)
<1> DEFINE t == clock + 1
           q == [req[r] EXCEPT !.at = "enqueue", !.stamp = t]
<1>1. req \in [Req -> Request] /\ t \in Nat /\ req[r].res \in Result
  BY DEF TypeInv, TypeOK, InHand, StampJob, At, Evaluated
<1>2. req' = [req EXCEPT ![r] = q]
  BY <1>1 DEF StampJob
<1> HIDE DEF t
<1>3. q \in Request /\ q.domain = req[r].domain /\ q.at = "enqueue" /\ q.feed = req[r].feed
      /\ q.res = req[r].res
  BY <1>1 DEF Request, ReqAt
<1> HIDE DEF q
<1>4. ReqMoves(r) /\ ReqBecomes(r, q.at, q.feed, q.res)
  BY <1>1, <1>2, <1>3, ReplaceMoves DEF Evaluated
<1> QED BY <1>3, <1>4
-----------------------------------------------------------------------------
(* The marks stay exact when nobody comes to hold or lets go of a domain.   *)
LEMMA HoldersSame ==
    ASSUME InFlightExact, inFlight' = inFlight, queue' = queue,
           \A x \in Req : /\ req'[x].at = "send" <=> req[x].at = "send"
                          /\ req'[x].at = "send" => req'[x].domain = req[x].domain,
           \A x \in Worker : /\ Busy(x)' <=> Busy(x)
                             /\ Busy(x) => worker'[x].job.domain = worker[x].job.domain
    PROVE  InFlightExact'
<1>1. ASSUME NEW d \in Domain PROVE Holders(d)' = Holders(d)
  <2>1. {x \in Req : req'[x].at = "send" /\ req'[x].domain = d}
          = {x \in Req : req[x].at = "send" /\ req[x].domain = d}
    OBVIOUS
  <2>2. {x \in Worker : Busy(x)' /\ worker'[x].job.domain = d}
          = {x \in Worker : Busy(x) /\ worker[x].job.domain = d}
    OBVIOUS
  <2> QED BY <2>1, <2>2 DEF Holders, At
<1> QED BY <1>1 DEF InFlightExact

(* What a request step must respect to keep every result dated.             *)
ReqDated(r) ==
    /\ req'[r].feed <= feedRev
    /\ req'[r].at \in Evaluated => Reflects(req'[r].res, req'[r].feed)

EntriesDated ==
    /\ entry' \in [Domain -> Entry \cup {NoEntry}]
    /\ \A d \in Domain : entry'[d] # NoEntry =>
          entry'[d].feed <= feedRev /\ Reflects(entry'[d].res, entry'[d].feed)

(* A step of one request that touches no job.                               *)
LEMMA ReqOnly ==
    ASSUME TypeInv, DateInv, InFlightExact, NEW r \in Req, ReqMoves(r), ReqDated(r),
           EntriesDated, clock' \in Nat, req[r].at # "send", req'[r].at # "send",
           UNCHANGED <<feedVars, config, jobVars, closeVars>>
    PROVE  TypeInv' /\ DateInv' /\ InFlightExact'
<1>1. TypeOK'
  BY DEF TypeInv, TypeOK, ReqMoves, EntriesDated, feedVars, jobVars, closeVars
<1>2. InHand' /\ RevisionsBehind'
  BY DEF TypeInv, InHand, RevisionsBehind, ReqMoves, feedVars, jobVars, Busy
<1>3. TagsBumped'
  BY DEF DateInv, TagsBumped, ReqMoves, ReqDated, EntriesDated, feedVars, jobVars, Busy
<1>4. AllReflect'
  BY DEF DateInv, AllReflect, ReqMoves, ReqDated, EntriesDated, feedVars, jobVars, Busy,
         Reflects
<1>5. InFlightExact'
  <2>1. inFlight' = inFlight /\ queue' = queue /\ worker' = worker
    BY DEF jobVars
  <2>2. \A x \in Req : /\ req'[x].at = "send" <=> req[x].at = "send"
                       /\ req'[x].at = "send" => req'[x].domain = req[x].domain
    BY DEF ReqMoves
  <2> QED BY <2>1, <2>2, HoldersSame DEF Busy
<1> QED BY <1>1, <1>2, <1>3, <1>4, <1>5 DEF TypeInv, DateInv

(* Nothing written to the cache.                                            *)
LEMMA EntriesKept ==
    ASSUME TypeInv, DateInv, entry' = entry
    PROVE  EntriesDated
BY DEF TypeInv, TypeOK, DateInv, TagsBumped, AllReflect, EntriesDated

(* A request's own result, kept by the step, stays dated.                   *)
LEMMA ResultKept ==
    ASSUME TypeInv, DateInv, NEW r \in Req,
           req'[r].feed = req[r].feed,
           req'[r].at \in Evaluated =>
               /\ req[r].at \in Evaluated
               /\ req'[r].res.feed = req[r].res.feed /\ req'[r].res.blind = req[r].res.blind
    PROVE  ReqDated(r)
BY DEF DateInv, TagsBumped, AllReflect, ReqDated, Reflects

(* Writing a request's result under the tag the request started with.       *)
LEMMA WriteOwn ==
    ASSUME TypeInv, DateInv, NEW r \in Req, req[r].at \in Evaluated,
           NEW c \in Revision, NEW a \in Nat, NEW z \in Nat,
           entry' = [entry EXCEPT ![req[r].domain] =
                       [res |-> req[r].res, feed |-> req[r].feed, config |-> c,
                        assessedAt |-> a, enriched |-> FALSE, snap |-> z]]
    PROVE  EntriesDated
<1> DEFINE d == req[r].domain
           e == [res |-> req[r].res, feed |-> req[r].feed, config |-> c,
                 assessedAt |-> a, enriched |-> FALSE, snap |-> z]
<1>1. /\ d \in Domain /\ req[r].res \in Result /\ req[r].feed \in FeedTag
      /\ entry \in [Domain -> Entry \cup {NoEntry}]
  BY DEF TypeInv, TypeOK, InHand, Request
<1>2. e \in Entry /\ e.feed = req[r].feed /\ e.res = req[r].res
  BY <1>1 DEF Entry
<1>3. e.feed <= feedRev /\ Reflects(e.res, e.feed)
  BY <1>2 DEF DateInv, TagsBumped, AllReflect
<1>4. entry' = [entry EXCEPT ![d] = e]
  OBVIOUS
<1> HIDE DEF d, e
<1>5. entry' \in [Domain -> Entry \cup {NoEntry}]
  BY <1>1, <1>2, <1>4
<1>6. \A x \in Domain : entry'[x] = IF x = d THEN e ELSE entry[x]
  BY <1>1, <1>4
<1> QED BY <1>3, <1>5, <1>6 DEF EntriesDated, DateInv, TagsBumped, AllReflect

(* The steps of a request before it enqueues.                               *)
LEMMA EvaluateInv ==
    ASSUME TypeInv, DateInv, InFlightExact, NEW r \in Req,
           \/ \E known \in BOOLEAN : ReadFeedRevision(r, known)
           \/ ReadConfigRevision(r) \/ CacheHit(r) \/ CacheMiss(r)
           \/ \E blind \in BOOLEAN : LookupFeed(r, blind)
           \/ \E class \in Class : AnalyzeLexical(r, class)
           \/ OSINTUpgrade(r) \/ StampJob(r)
    PROVE  TypeInv' /\ DateInv' /\ InFlightExact'
<1>1. /\ clock \in Nat /\ feedRev \in Nat /\ feedData \in Nat /\ req \in [Req -> Request]
      /\ feedAt \in [FeedTag -> Nat]
  BY AnalysisAssumption DEF TypeInv, TypeOK, FeedTag
<1>2. req[r].feed <= feedRev /\ req[r].feed \in FeedTag
  BY <1>1 DEF DateInv, TagsBumped, Request
<1>3. ASSUME NEW known \in BOOLEAN, ReadFeedRevision(r, known)
      PROVE  TypeInv' /\ DateInv' /\ InFlightExact'
  <2>1. /\ ReqMoves(r)
        /\ ReqBecomes(r, "config", IF known THEN feedRev ELSE 0, req[r].res)
    BY <1>3, ReadFeedRevisionMoves
  <2>2. ReqDated(r)
    BY <1>1, <2>1 DEF ReqDated, ReqBecomes, Evaluated
  <2> QED BY <1>1, <1>3, <2>1, <2>2, EntriesKept, ReqOnly
          DEF ReadFeedRevision, At, ReqBecomes
<1>4. CASE ReadConfigRevision(r)
  <2>1. ReqMoves(r) /\ ReqBecomes(r, "get", req[r].feed, req[r].res)
    BY <1>4, ReadConfigRevisionMoves
  <2>2. ReqDated(r)
    BY <1>2, <2>1 DEF ReqDated, ReqBecomes, Evaluated
  <2> QED BY <1>1, <1>4, <2>1, <2>2, EntriesKept, ReqOnly
          DEF ReadConfigRevision, At, ReqBecomes
<1>5. CASE CacheHit(r)
  <2>1. /\ ReqMoves(r)
        /\ ReqBecomes(r, "osint", req[r].feed, entry[req[r].domain].res)
        /\ entry[req[r].domain] # NoEntry
        /\ entry[req[r].domain].feed = req[r].feed
    BY <1>5, CacheHitMoves
  <2>2. req[r].domain \in Domain
    BY <1>1 DEF Request
  <2>3. ReqDated(r)
    BY <1>2, <2>1, <2>2 DEF ReqDated, ReqBecomes, DateInv, AllReflect
  <2> QED BY <1>1, <1>5, <2>1, <2>3, EntriesKept, ReqOnly DEF CacheHit, At, ReqBecomes
<1>6. CASE CacheMiss(r)
  <2>1. ReqMoves(r) /\ ReqBecomes(r, "feed", req[r].feed, req[r].res)
    BY <1>6, GotoMoves DEF CacheMiss, ReqAt, Evaluated
  <2>2. ReqDated(r)
    BY <1>2, <2>1 DEF ReqDated, ReqBecomes, Evaluated
  <2> QED BY <1>1, <1>6, <2>1, <2>2, EntriesKept, ReqOnly DEF CacheMiss, At, ReqBecomes
<1>7. ASSUME NEW blind \in BOOLEAN, LookupFeed(r, blind)
      PROVE  TypeInv' /\ DateInv' /\ InFlightExact'
  <2>1. /\ ReqMoves(r)
        /\ req'[r].at = "lexical" /\ req'[r].feed = req[r].feed
        /\ req'[r].res.feed = feedData
    BY <1>7, LookupFeedMoves
  <2>2. feedAt[req[r].feed] <= feedData /\ feedAt[req[r].feed] \in Nat
    BY <1>1, <1>2 DEF TypeInv, RevisionsBehind
  <2>3. ReqDated(r)
    BY <1>1, <1>2, <2>1, <2>2 DEF ReqDated, Reflects
  <2> QED BY <1>1, <1>7, <2>1, <2>3, EntriesKept, ReqOnly DEF LookupFeed, At
<1>8. ASSUME NEW class \in Class, AnalyzeLexical(r, class)
      PROVE  TypeInv' /\ DateInv' /\ InFlightExact'
  <2>1. /\ ReqMoves(r)
        /\ req'[r].at = "osint" /\ req'[r].feed = req[r].feed
        /\ req'[r].res.feed = req[r].res.feed /\ req'[r].res.blind = req[r].res.blind
    BY <1>8, AnalyzeLexicalMoves
  <2>2. ReqDated(r)
    BY <1>8, <2>1, ResultKept DEF AnalyzeLexical, At, Evaluated
  <2> QED BY <1>1, <1>8, <2>1, <2>2, EntriesKept, ReqOnly DEF AnalyzeLexical, At
<1>9. CASE OSINTUpgrade(r)
  <2>1. /\ ReqMoves(r)
        /\ req'[r].at = "osintWrite" /\ req'[r].feed = req[r].feed
        /\ req'[r].res.feed = req[r].res.feed /\ req'[r].res.blind = req[r].res.blind
    BY <1>9, OSINTUpgradeMoves
  <2>2. ReqDated(r)
    BY <1>9, <2>1, ResultKept DEF OSINTUpgrade, At, Evaluated
  <2> QED BY <1>1, <1>9, <2>1, <2>2, EntriesKept, ReqOnly DEF OSINTUpgrade, At
<1>10. CASE StampJob(r)
  <2>1. ReqMoves(r) /\ ReqBecomes(r, "enqueue", req[r].feed, req[r].res)
    BY <1>10, StampJobMoves
  <2>2. ReqDated(r)
    BY <1>10, <2>1, ResultKept DEF StampJob, At, Evaluated, ReqBecomes
  <2> QED BY <1>1, <1>10, <2>1, <2>2, EntriesKept, ReqOnly DEF StampJob, At, ReqBecomes
<1> QED BY <1>3, <1>4, <1>5, <1>6, <1>7, <1>8, <1>9, <1>10

(* The cache writes of a request, and the failures that skip them.          *)
LEMMA StoreInv ==
    ASSUME TypeInv, DateInv, InFlightExact, NEW r \in Req,
           \/ OSINTNothing(r) \/ OSINTWrite(r) \/ OSINTWriteFails(r)
           \/ Store(r) \/ StoreFails(r) \/ EnqueueSkip(r)
    PROVE  TypeInv' /\ DateInv' /\ InFlightExact'
<1>1. clock \in Nat /\ clock + 1 \in Nat /\ req \in [Req -> Request]
  BY DEF TypeInv, TypeOK
<1>2. /\ req[r].config \in Revision /\ req[r].writeAs \in Revision
      /\ req[r].stamp \in Nat
  BY <1>1 DEF Request
<1>3. req[r].at \in Evaluated \ {"send"}
  BY DEF OSINTNothing, OSINTWrite, OSINTWriteFails, Store, StoreFails, EnqueueSkip, At,
         Evaluated
<1>4. PICK l \in {"store", "stamp", "done"} : Goto(r, l)
  BY DEF OSINTNothing, OSINTWrite, OSINTWriteFails, Store, StoreFails, EnqueueSkip,
         AfterOSINT, AfterStore
<1>5. ReqMoves(r) /\ ReqBecomes(r, l, req[r].feed, req[r].res)
  BY <1>3, <1>4, GotoMoves DEF ReqAt
<1>6. ReqDated(r)
  BY <1>3, <1>5, ResultKept DEF ReqBecomes
<1>7. EntriesDated
  <2>1. CASE entry' = entry
    BY <2>1, EntriesKept
  <2>2. CASE OSINTWrite(r)
    BY <1>1, <1>2, <1>3, <2>2, WriteOwn DEF OSINTWrite, SetJSON
  <2>3. CASE Store(r)
    BY <1>1, <1>2, <1>3, <2>3, WriteOwn DEF Store, SetJSON
  <2> QED BY <2>1, <2>2, <2>3
          DEF OSINTNothing, OSINTWriteFails, StoreFails, EnqueueSkip
<1>8. clock' \in Nat
  BY <1>1 DEF OSINTNothing, OSINTWrite, OSINTWriteFails, Store, StoreFails, EnqueueSkip,
              SetJSON
<1>9. UNCHANGED <<feedVars, config, jobVars, closeVars>>
  BY DEF OSINTNothing, OSINTWrite, OSINTWriteFails, Store, StoreFails, EnqueueSkip
<1>10. req[r].at # "send" /\ req'[r].at # "send"
  BY <1>3, <1>5 DEF ReqBecomes
<1> QED BY <1>5, <1>6, <1>7, <1>8, <1>9, <1>10, ReqOnly
-----------------------------------------------------------------------------
(* The three kinds of holder of a domain.                                   *)
Senders(d) == {x \in Req : req[x].at = "send" /\ req[x].domain = d}

Queued(d) == {i \in 1..Len(queue) : queue[i].domain = d}

Working(d) == {x \in Worker : Busy(x) /\ worker[x].job.domain = d}

Tagged(S, Q, W) ==
    {<<"req", x>> : x \in S} \cup {<<"queue", x>> : x \in Q} \cup {<<"worker", x>> : x \in W}

Single(S) == \E x \in S : S = {x}

OneOf(S, Q, W) ==
    \/ Single(S) /\ Q = {} /\ W = {}
    \/ S = {} /\ Single(Q) /\ W = {}
    \/ S = {} /\ Q = {} /\ Single(W)

(* There is one holder when one kind has one member and the others none.    *)
LEMMA TaggedParts ==
    ASSUME NEW S, NEW Q, NEW W
    PROVE  /\ (\E h \in Tagged(S, Q, W) : Tagged(S, Q, W) = {h}) <=> OneOf(S, Q, W)
           /\ Tagged(S, Q, W) = {} <=> (S = {} /\ Q = {} /\ W = {})
<1> DEFINE T == Tagged(S, Q, W)
<1>1. /\ \A x \in S : <<"req", x>> \in T
      /\ \A x \in Q : <<"queue", x>> \in T
      /\ \A x \in W : <<"worker", x>> \in T
  BY DEF Tagged
<1>2. \A h \in T : \/ \E x \in S : h = <<"req", x>>
                   \/ \E x \in Q : h = <<"queue", x>>
                   \/ \E x \in W : h = <<"worker", x>>
  BY DEF Tagged
<1>3. \A x, y : /\ <<"req", x>> = <<"req", y>> => x = y
                /\ <<"queue", x>> = <<"queue", y>> => x = y
                /\ <<"worker", x>> = <<"worker", y>> => x = y
                /\ <<"req", x>> # <<"queue", y>>
                /\ <<"req", x>> # <<"worker", y>>
                /\ <<"queue", x>> # <<"worker", y>>
  OBVIOUS
<1> HIDE DEF T
<1>4. ASSUME NEW h \in T, T = {h} PROVE OneOf(S, Q, W)
  <2>1. CASE \E x \in S : h = <<"req", x>>
    BY <1>1, <1>3, <1>4, <2>1 DEF OneOf, Single
  <2>2. CASE \E x \in Q : h = <<"queue", x>>
    BY <1>1, <1>3, <1>4, <2>2 DEF OneOf, Single
  <2>3. CASE \E x \in W : h = <<"worker", x>>
    BY <1>1, <1>3, <1>4, <2>3 DEF OneOf, Single
  <2> QED BY <1>2, <2>1, <2>2, <2>3
<1>5. ASSUME OneOf(S, Q, W) PROVE \E h \in T : T = {h}
  <2>1. CASE Single(S) /\ Q = {} /\ W = {}
    <3>1. PICK x \in S : S = {x}
      BY <2>1 DEF Single
    <3>2. T = {<<"req", x>>}
      BY <1>1, <1>2, <2>1, <3>1
    <3> QED BY <3>2
  <2>2. CASE S = {} /\ Single(Q) /\ W = {}
    <3>1. PICK x \in Q : Q = {x}
      BY <2>2 DEF Single
    <3>2. T = {<<"queue", x>>}
      BY <1>1, <1>2, <2>2, <3>1
    <3> QED BY <3>2
  <2>3. CASE S = {} /\ Q = {} /\ Single(W)
    <3>1. PICK x \in W : W = {x}
      BY <2>3 DEF Single
    <3>2. T = {<<"worker", x>>}
      BY <1>1, <1>2, <2>3, <3>1
    <3> QED BY <3>2
  <2> QED BY <1>5, <2>1, <2>2, <2>3 DEF OneOf
<1>6. T = {} <=> (S = {} /\ Q = {} /\ W = {})
  BY <1>1, <1>2
<1> QED BY <1>4, <1>5, <1>6 DEF T

(* The invariant, kind by kind.                                             *)
Exact(d) ==
    IF d \in inFlight THEN OneOf(Senders(d), Queued(d), Working(d))
    ELSE Senders(d) = {} /\ Queued(d) = {} /\ Working(d) = {}

LEMMA ExactFromInv == InFlightExact => \A d \in Domain : Exact(d)
<1>1. ASSUME NEW d \in Domain
      PROVE  Holders(d) = Tagged(Senders(d), Queued(d), Working(d))
  BY DEF Holders, Tagged, Senders, Queued, Working, At
<1> QED BY <1>1, TaggedParts DEF InFlightExact, Exact

LEMMA InvFromExact == (\A d \in Domain : Exact(d)') => InFlightExact'
<1>1. ASSUME NEW d \in Domain
      PROVE  Holders(d)' = Tagged(Senders(d)', Queued(d)', Working(d)')
  BY DEF Holders, Tagged, Senders, Queued, Working, At
<1> QED BY <1>1, TaggedParts DEF InFlightExact, Exact
-----------------------------------------------------------------------------
(* Types and dates when a request step also changes the marks or the queue. *)
LEMMA ReqTypes ==
    ASSUME TypeInv, DateInv, NEW r \in Req, ReqMoves(r), ReqDated(r),
           UNCHANGED <<feedVars, config, entry, worker, looked, clock, closeVars>>,
           inFlight' \subseteq Domain, queue' \in Seq(Job), Len(queue') <= QueueCap,
           \A i \in 1..Len(queue') :
              queue'[i].feed <= feedRev /\ Reflects(queue'[i].res, queue'[i].feed)
    PROVE  TypeInv' /\ DateInv'
<1>1. TypeOK'
  BY DEF TypeInv, TypeOK, ReqMoves, feedVars, closeVars
<1>2. InHand' /\ RevisionsBehind'
  BY DEF TypeInv, InHand, RevisionsBehind, ReqMoves, feedVars, Busy
<1>3. TagsBumped'
  BY DEF DateInv, TagsBumped, ReqMoves, ReqDated, feedVars, Busy
<1>4. AllReflect'
  BY DEF DateInv, AllReflect, ReqMoves, ReqDated, feedVars, Busy, Reflects
<1> QED BY <1>1, <1>2, <1>3, <1>4 DEF TypeInv, DateInv

(* The last three steps of a request move along GotoMoves.                  *)
LEMMA EnqueueMoves ==
    ASSUME TypeInv, DateInv, NEW r \in Req, NEW l \in {"send", "done"}, Goto(r, l),
           req[r].at \in {"enqueue", "send"}
    PROVE  /\ ReqMoves(r) /\ ReqDated(r) /\ req'[r].at = l /\ req[r].domain \in Domain
           /\ req[r].res \in Result
<1>1. req[r].at \in Evaluated
  BY DEF Evaluated
<1>2. ReqMoves(r) /\ ReqBecomes(r, l, req[r].feed, req[r].res)
  BY <1>1, GotoMoves DEF ReqAt
<1>3. ReqDated(r)
  BY <1>1, <1>2, ResultKept DEF ReqBecomes
<1>4. req[r].domain \in Domain /\ req[r].res \in Result
  BY <1>1 DEF TypeInv, TypeOK, Request, InHand
<1> QED BY <1>2, <1>3, <1>4 DEF ReqBecomes

(* Marking makes the request the only holder of its domain.                 *)
LEMMA EnqueueMarkInv ==
    ASSUME TypeInv, DateInv, InFlightExact, NEW r \in Req, EnqueueMark(r)
    PROVE  TypeInv' /\ DateInv' /\ InFlightExact'
<1> DEFINE d == req[r].domain
<1>1. /\ ReqMoves(r) /\ ReqDated(r) /\ req'[r].at = "send" /\ d \in Domain
  BY EnqueueMoves DEF EnqueueMark, At
<1>2. TypeInv' /\ DateInv'
  BY <1>1, ReqTypes
  DEF EnqueueMark, TypeInv, TypeOK, DateInv, TagsBumped, AllReflect
<1>3. \A e \in Domain : Exact(e)
  BY ExactFromInv
<1>4. \A x \in Req \ {r} : req'[x] = req[x]
  BY <1>1 DEF ReqMoves
<1>5. req'[r].at = "send" /\ req'[r].domain = d /\ req[r].at = "enqueue"
  BY <1>1 DEF ReqMoves, EnqueueMark, At
<1>6. inFlight' = inFlight \cup {d} /\ d \notin inFlight /\ queue' = queue /\ worker' = worker
  BY DEF EnqueueMark
<1> HIDE DEF d
<1>7. ASSUME NEW e \in Domain PROVE Exact(e)'
  <2>1. Queued(e)' = Queued(e) /\ Working(e)' = Working(e)
    BY <1>6 DEF Queued, Working, Busy
  <2>2. CASE e = d
    <3>1. Senders(e) = {} /\ Queued(e) = {} /\ Working(e) = {}
      BY <1>3, <1>6, <2>2 DEF Exact
    <3>2. Senders(e)' = {r}
      BY <1>4, <1>5, <2>2, <3>1 DEF Senders
    <3> QED BY <1>6, <2>1, <2>2, <3>1, <3>2 DEF Exact, OneOf, Single
  <2>3. CASE e # d
    <3>1. Senders(e)' = Senders(e)
      BY <1>4, <1>5, <2>3 DEF Senders
    <3> QED BY <1>3, <1>6, <2>1, <2>3, <3>1 DEF Exact
  <2> QED BY <2>2, <2>3
<1> QED BY <1>2, <1>7, InvFromExact

(* Dropping lets go of the mark the request alone held.                     *)
LEMMA DropInv ==
    ASSUME TypeInv, DateInv, InFlightExact, NEW r \in Req, Drop(r)
    PROVE  TypeInv' /\ DateInv' /\ InFlightExact'
<1> DEFINE d == req[r].domain
<1>1. /\ ReqMoves(r) /\ ReqDated(r) /\ req'[r].at = "done" /\ d \in Domain
  BY EnqueueMoves DEF Drop, At
<1>2. TypeInv' /\ DateInv'
  BY <1>1, ReqTypes
  DEF Drop, TypeInv, TypeOK, DateInv, TagsBumped, AllReflect
<1>3. \A e \in Domain : Exact(e)
  BY ExactFromInv
<1>4. \A x \in Req \ {r} : req'[x] = req[x]
  BY <1>1 DEF ReqMoves
<1>5. req'[r].at = "done" /\ req[r].domain = d /\ req[r].at = "send"
  BY <1>1 DEF Drop, At
<1>6. inFlight' = inFlight \ {d} /\ queue' = queue /\ worker' = worker
  BY DEF Drop
<1> HIDE DEF d
<1>7. ASSUME NEW e \in Domain PROVE Exact(e)'
  <2>1. Queued(e)' = Queued(e) /\ Working(e)' = Working(e)
    BY <1>6 DEF Queued, Working, Busy
  <2>2. CASE e = d
    <3>1. r \in Senders(e)
      BY <1>5, <2>2 DEF Senders
    <3>2. Senders(e) = {r} /\ Queued(e) = {} /\ Working(e) = {}
      BY <1>3, <3>1 DEF Exact, OneOf, Single
    <3>3. Senders(e)' = {}
      BY <1>4, <1>5, <3>2 DEF Senders
    <3> QED BY <1>6, <2>1, <2>2, <3>2, <3>3 DEF Exact
  <2>3. CASE e # d
    <3>1. Senders(e)' = Senders(e)
      BY <1>4, <1>5, <2>3 DEF Senders
    <3> QED BY <1>3, <1>6, <2>1, <2>3, <3>1 DEF Exact
  <2> QED BY <2>2, <2>3
<1> QED BY <1>2, <1>7, InvFromExact

(* Sending hands the mark over to the queued job.                           *)
LEMMA SendInv ==
    ASSUME TypeInv, DateInv, InFlightExact, NEW r \in Req, Send(r)
    PROVE  TypeInv' /\ DateInv' /\ InFlightExact'
<1> DEFINE d == req[r].domain
           j == JobOf(req[r])
           n == Len(queue) + 1
<1>1. /\ ReqMoves(r) /\ ReqDated(r) /\ req'[r].at = "done" /\ d \in Domain
      /\ req[r].res \in Result
  BY EnqueueMoves DEF Send, At
<1>2. req \in [Req -> Request] /\ queue \in Seq(Job)
  BY DEF TypeInv, TypeOK
<1>3. j \in Job /\ j.domain = d /\ j.feed = req[r].feed /\ j.res = req[r].res
  BY <1>1, <1>2 DEF JobOf, Job, Request
<1>4. j.feed <= feedRev /\ Reflects(j.res, j.feed)
  BY <1>3 DEF DateInv, TagsBumped, AllReflect, Send, At, Evaluated
<1>5. queue' = Append(queue, j) /\ Len(queue) < QueueCap
  BY DEF Send
<1> HIDE DEF d, j
<1>6. /\ queue' \in Seq(Job) /\ Len(queue') = n /\ queue'[n] = j
      /\ \A i \in 1..Len(queue) : queue'[i] = queue[i]
      /\ Len(queue) \in Nat
  BY <1>2, <1>3, <1>5
<1>7. TypeInv' /\ DateInv'
  <2>1. Len(queue') <= QueueCap
    BY <1>5, <1>6, AnalysisAssumption
  <2>2. \A i \in 1..Len(queue') :
           queue'[i].feed <= feedRev /\ Reflects(queue'[i].res, queue'[i].feed)
    <3>1. ASSUME NEW i \in 1..Len(queue') PROVE i = n \/ i \in 1..Len(queue)
      BY <1>6
    <3> QED BY <1>4, <1>6, <3>1 DEF DateInv, TagsBumped, AllReflect
  <2>3. UNCHANGED <<feedVars, config, entry, worker, looked, clock, closeVars, inFlight>>
    BY DEF Send
  <2> QED BY <1>1, <1>6, <2>1, <2>2, <2>3, ReqTypes DEF TypeInv, TypeOK
<1>8. \A e \in Domain : Exact(e)
  BY ExactFromInv
<1>9. \A x \in Req \ {r} : req'[x] = req[x]
  BY <1>1 DEF ReqMoves
<1>10. req'[r].at = "done" /\ req[r].domain = d /\ req[r].at = "send"
  BY <1>1 DEF Send, At, d
<1>11. inFlight' = inFlight /\ worker' = worker
  BY DEF Send
<1>12. ASSUME NEW e \in Domain PROVE Exact(e)'
  <2>1. Working(e)' = Working(e)
    BY <1>11 DEF Working, Busy
  <2>2. CASE e = d
    <3>1. r \in Senders(e)
      BY <1>10, <2>2 DEF Senders
    <3>2. Senders(e) = {r} /\ Queued(e) = {} /\ Working(e) = {} /\ e \in inFlight
      BY <1>8, <3>1 DEF Exact, OneOf, Single
    <3>3. Senders(e)' = {}
      BY <1>9, <1>10, <3>2 DEF Senders
    <3>4. Queued(e)' = {n}
      BY <1>3, <1>6, <2>2, <3>2 DEF Queued
    <3> QED BY <1>11, <2>1, <3>2, <3>3, <3>4 DEF Exact, OneOf, Single
  <2>3. CASE e # d
    <3>1. Senders(e)' = Senders(e)
      BY <1>9, <1>10, <2>3 DEF Senders
    <3>2. Queued(e)' = Queued(e)
      BY <1>3, <1>6, <2>3 DEF Queued
    <3> QED BY <1>8, <1>11, <2>1, <3>1, <3>2 DEF Exact
  <2> QED BY <2>2, <2>3
<1> QED BY <1>7, <1>12, InvFromExact
-----------------------------------------------------------------------------
Goroutine == [at : WorkerAt, job : Job \cup {NoJob}, stamp : Nat]

BusyAt == WorkerAt \ {"idle", "exited"}

JobDated(j) == j \in Job /\ j.feed <= feedRev /\ Reflects(j.res, j.feed)

(* A worker record replaced by another; a busy one has a dated job.         *)
LEMMA WorkerTypes ==
    ASSUME TypeInv, DateInv, NEW w \in Worker, NEW v \in Goroutine,
           worker' = [worker EXCEPT ![w] = v],
           v.at \in BusyAt => JobDated(v.job),
           EntriesDated, clock' \in Nat, looked' \in [Req -> Nat],
           UNCHANGED <<feedVars, config, req, closeVars>>,
           inFlight' \subseteq Domain, queue' \in Seq(Job), Len(queue') <= QueueCap,
           \A i \in 1..Len(queue') :
              queue'[i].feed <= feedRev /\ Reflects(queue'[i].res, queue'[i].feed)
    PROVE  /\ TypeInv' /\ DateInv'
           /\ worker'[w] = v /\ \A x \in Worker \ {w} : worker'[x] = worker[x]
<1>1. worker \in [Worker -> Goroutine]
  BY DEF TypeInv, TypeOK, Goroutine
<1>2. /\ worker' \in [Worker -> Goroutine]
      /\ worker'[w] = v /\ \A x \in Worker \ {w} : worker'[x] = worker[x]
  BY <1>1
<1>3. v.at \in BusyAt <=> v.at \notin {"idle", "exited"}
  BY DEF Goroutine, BusyAt
<1>4. \A x \in Worker : Busy(x)' =>
          worker'[x].job \in Job /\ worker'[x].job.feed <= feedRev
            /\ Reflects(worker'[x].job.res, worker'[x].job.feed)
  BY <1>2, <1>3 DEF Busy, JobDated, TypeInv, InHand, DateInv, TagsBumped, AllReflect
<1>5. TypeOK'
  BY <1>2 DEF TypeInv, TypeOK, EntriesDated, Goroutine, feedVars, closeVars
<1>6. InHand' /\ RevisionsBehind'
  BY <1>4 DEF TypeInv, InHand, RevisionsBehind, feedVars
<1>7. TagsBumped'
  BY <1>4 DEF DateInv, TagsBumped, EntriesDated, feedVars
<1>8. AllReflect'
  BY <1>4 DEF DateInv, AllReflect, EntriesDated, feedVars, Reflects
<1> QED BY <1>2, <1>5, <1>6, <1>7, <1>8 DEF TypeInv, DateInv

(* The same, when the worker keeps working for its domain or keeps idle.    *)
LEMMA WorkerOnly ==
    ASSUME TypeInv, DateInv, InFlightExact, NEW w \in Worker, NEW v \in Goroutine,
           worker' = [worker EXCEPT ![w] = v],
           v.at \in BusyAt <=> Busy(w),
           Busy(w) => JobDated(v.job) /\ v.job.domain = worker[w].job.domain,
           EntriesDated, clock' \in Nat, looked' \in [Req -> Nat],
           UNCHANGED <<feedVars, config, req, inFlight, queue, closeVars>>
    PROVE  TypeInv' /\ DateInv' /\ InFlightExact'
<1>1. /\ inFlight' \subseteq Domain /\ queue' \in Seq(Job) /\ Len(queue') <= QueueCap
      /\ \A i \in 1..Len(queue') :
            queue'[i].feed <= feedRev /\ Reflects(queue'[i].res, queue'[i].feed)
  BY DEF TypeInv, TypeOK, DateInv, TagsBumped, AllReflect
<1>2. /\ TypeInv' /\ DateInv'
      /\ worker'[w] = v /\ \A x \in Worker \ {w} : worker'[x] = worker[x]
  BY <1>1, WorkerTypes
<1>3. v.at \in BusyAt <=> v.at \notin {"idle", "exited"}
  BY DEF Goroutine, BusyAt
<1>4. InFlightExact'
  BY <1>2, <1>3, HoldersSame DEF Busy
<1> QED BY <1>2, <1>4

(* A worker's own job is dated.                                             *)
LEMMA OwnJob ==
    ASSUME TypeInv, DateInv, NEW w \in Worker, worker[w].at \in BusyAt
    PROVE  Busy(w) /\ JobDated(worker[w].job) /\ worker[w] \in Goroutine
<1>1. Busy(w)
  BY DEF Busy, BusyAt
<1> QED BY <1>1 DEF JobDated, TypeInv, TypeOK, InHand, DateInv, TagsBumped, AllReflect,
                    Goroutine

(* Changing the location of a worker alone.                                 *)
LEMMA WorkerGoto ==
    ASSUME NEW w, NEW l \in WorkerAt, worker \in [Worker -> Goroutine], w \in Worker
    PROVE  LET v == [worker[w] EXCEPT !.at = l] IN
           /\ [worker EXCEPT ![w].at = l] = [worker EXCEPT ![w] = v]
           /\ v \in Goroutine /\ v.at = l /\ v.job = worker[w].job
BY DEF Goroutine

(* The enriched entry carries the job's result under the job's tag.         *)
LEMMA CasWriteDates ==
    ASSUME TypeInv, DateInv, NEW w \in Worker, CasWrite(w)
    PROVE  EntriesDated
<1> DEFINE j == worker[w].job
           d == j.domain
           e == EnrichedEntry(w)
<1>1. JobDated(j) /\ worker[w] \in Goroutine
  BY OwnJob DEF CasWrite, BusyAt, WorkerAt
<1>2. j \in Job /\ worker[w].stamp \in Nat
  BY <1>1 DEF JobDated, Goroutine
<1>3. e \in Entry /\ e.feed = j.feed /\ e.res = j.res /\ d \in Domain
  BY <1>2 DEF EnrichedEntry, Entry, Job
<1>4. entry \in [Domain -> Entry \cup {NoEntry}] /\ entry' = [entry EXCEPT ![d] = e]
  BY DEF TypeInv, TypeOK, CasWrite
<1>5. e.feed <= feedRev /\ Reflects(e.res, e.feed)
  BY <1>1, <1>3 DEF JobDated
<1> HIDE DEF d, e, j
<1>6. /\ entry' \in [Domain -> Entry \cup {NoEntry}]
      /\ \A x \in Domain : entry'[x] = IF x = d THEN e ELSE entry[x]
  BY <1>3, <1>4
<1> QED BY <1>5, <1>6 DEF EntriesDated, DateInv, TagsBumped, AllReflect

(* A worker's steps between taking a job and clearing its mark, and exit.   *)
LEMMA WorkInv ==
    ASSUME TypeInv, DateInv, InFlightExact, NEW w \in Worker,
           \/ CheckPasses(w) \/ CheckStale(w) \/ CasWrite(w) \/ CasNoWrite(w)
           \/ WorkerExit(w)
    PROVE  TypeInv' /\ DateInv' /\ InFlightExact'
<1>1. /\ worker \in [Worker -> Goroutine] /\ clock \in Nat /\ looked \in [Req -> Nat]
  BY DEF TypeInv, TypeOK, Goroutine
<1>2. PICK l \in {"lookup", "clear", "exited"} :
        /\ worker' = [worker EXCEPT ![w].at = l]
        /\ IF l = "exited" THEN worker[w].at = "idle"
                           ELSE worker[w].at \in {"check", "write"}
  BY DEF CheckPasses, CheckStale, CasWrite, CasNoWrite, WorkerExit
<1> DEFINE v == [worker[w] EXCEPT !.at = l]
<1>3. /\ worker' = [worker EXCEPT ![w] = v]
      /\ v \in Goroutine /\ v.at = l /\ v.job = worker[w].job
  BY <1>1, <1>2, WorkerGoto DEF WorkerAt
<1>4. EntriesDated
  BY EntriesKept, CasWriteDates DEF CheckPasses, CheckStale, CasNoWrite, WorkerExit
<1>5. UNCHANGED <<feedVars, config, req, inFlight, queue, closeVars, clock, looked>>
  BY DEF CheckPasses, CheckStale, CasWrite, CasNoWrite, WorkerExit
<1>7. l \in BusyAt <=> worker[w].at \in BusyAt
  BY <1>2 DEF BusyAt, WorkerAt
<1>8. Busy(w) <=> worker[w].at \in BusyAt
  BY <1>1 DEF Busy, BusyAt, Goroutine
<1>9. Busy(w) => JobDated(worker[w].job)
  BY <1>8, OwnJob
<1> HIDE DEF v
<1> QED BY <1>1, <1>3, <1>4, <1>5, <1>7, <1>8, <1>9, WorkerOnly

(* The lookup changes the class of the result and nothing it is dated by.   *)
LEMMA LookupInv ==
    ASSUME TypeInv, DateInv, InFlightExact, NEW w \in Worker, NEW class \in Class,
           Lookup(w, class)
    PROVE  TypeInv' /\ DateInv' /\ InFlightExact'
<1> DEFINE t == clock + 1
           j == worker[w].job
           res == [j.res EXCEPT !.class = class]
           k == [j EXCEPT !.res = res]
           v == [worker[w] EXCEPT !.at = "write", !.job = k, !.stamp = t]
<1>1. /\ worker \in [Worker -> Goroutine] /\ t \in Nat /\ looked \in [Req -> Nat]
      /\ clock' = t
  BY DEF TypeInv, TypeOK, Goroutine, Lookup
<1>2. Busy(w) /\ JobDated(j) /\ worker[w] \in Goroutine
  BY OwnJob DEF Lookup, BusyAt, WorkerAt
<1>3. j \in Job /\ j.res \in Result
  BY <1>2 DEF JobDated, Job
<1>4. res \in Result /\ res.feed = j.res.feed /\ res.blind = j.res.blind
  BY <1>3 DEF Result
<1>5. worker' = [worker EXCEPT ![w] = v]
  BY <1>1, <1>2, <1>3 DEF Lookup, Goroutine, Job, Result
<1>6. looked' \in [Req -> Nat]
  BY <1>1, <1>3 DEF Lookup, Result
<1> HIDE DEF t, res
<1>7. k \in Job /\ k.res = res /\ k.feed = j.feed /\ k.domain = j.domain
  BY <1>3, <1>4 DEF Job
<1>8. JobDated(k)
  BY <1>2, <1>4, <1>7 DEF JobDated, Reflects
<1> HIDE DEF k
<1>9. v \in Goroutine /\ v.at = "write" /\ v.job = k
  BY <1>1, <1>2, <1>7 DEF Goroutine, WorkerAt
<1> HIDE DEF v
<1>10. v.at \in BusyAt
  BY <1>9 DEF BusyAt, WorkerAt
<1>11. EntriesDated
  BY EntriesKept DEF Lookup
<1>12. UNCHANGED <<feedVars, config, req, inFlight, queue, closeVars>>
  BY DEF Lookup
<1> QED BY <1>1, <1>2, <1>5, <1>6, <1>7, <1>8, <1>9, <1>10, <1>11, <1>12, WorkerOnly

(* Taking hands the mark over from the first queued job to the worker; the  *)
(* other jobs move up.                                                      *)
LEMMA TakeInv ==
    ASSUME TypeInv, DateInv, InFlightExact, NEW w \in Worker, Take(w)
    PROVE  TypeInv' /\ DateInv' /\ InFlightExact'
<1> DEFINE j == Head(queue)
           v == [worker[w] EXCEPT !.at = "check", !.job = j]
<1>1. /\ worker \in [Worker -> Goroutine] /\ clock' \in Nat /\ looked' \in [Req -> Nat]
      /\ queue \in Seq(Job) /\ queue # <<>> /\ worker[w].at = "idle"
      /\ Len(queue) <= QueueCap
  BY DEF TypeInv, TypeOK, Goroutine, Take
<1>2. /\ j = queue[1] /\ j \in Job /\ Len(queue) \in Nat /\ 1 \in 1..Len(queue)
      /\ queue' \in Seq(Job) /\ Len(queue') = Len(queue) - 1
      /\ \A i \in 1..Len(queue') : queue'[i] = queue[i + 1] /\ i + 1 \in 1..Len(queue)
  BY <1>1 DEF Take
<1>3. JobDated(j) /\ j.domain \in Domain
  BY <1>2 DEF JobDated, DateInv, TagsBumped, AllReflect, Job
<1>4. worker' = [worker EXCEPT ![w] = v]
  BY <1>1 DEF Take, Goroutine
<1> HIDE DEF j
<1>5. v \in Goroutine /\ v.at = "check" /\ v.job = j
  BY <1>1, <1>2 DEF Goroutine, WorkerAt
<1> HIDE DEF v
<1>6. /\ TypeInv' /\ DateInv'
      /\ worker'[w] = v /\ \A x \in Worker \ {w} : worker'[x] = worker[x]
  <2>1. \A i \in 1..Len(queue') :
           queue'[i].feed <= feedRev /\ Reflects(queue'[i].res, queue'[i].feed)
    BY <1>2 DEF DateInv, TagsBumped, AllReflect
  <2>2. QueueCap \in Nat
    BY AnalysisAssumption
  <2>3. Len(queue') <= QueueCap
    BY <1>1, <1>2, <2>2
  <2>4. EntriesDated
    BY EntriesKept DEF Take
  <2>5. UNCHANGED <<feedVars, config, req, closeVars, inFlight>>
    BY DEF Take
  <2>6. inFlight' \subseteq Domain
    BY <2>5 DEF TypeInv, TypeOK
  <2> QED BY <1>1, <1>2, <1>3, <1>4, <1>5, <2>1, <2>3, <2>4, <2>5, <2>6, WorkerTypes
<1>7. \A e \in Domain : Exact(e)
  BY ExactFromInv
<1>8. req' = req /\ inFlight' = inFlight
  BY DEF Take
<1>9. ~Busy(w) /\ Busy(w)' /\ worker'[w].job = j
  BY <1>1, <1>5, <1>6 DEF Busy
<1>10. \A x \in Worker \ {w} : Busy(x)' = Busy(x)
  BY <1>6 DEF Busy
<1>11. ASSUME NEW e \in Domain PROVE Exact(e)'
  <2>1. Senders(e)' = Senders(e)
    BY <1>8 DEF Senders
  <2>2. CASE e = j.domain
    <3>1. 1 \in Queued(e)
      BY <1>2, <2>2 DEF Queued
    <3>2. Senders(e) = {} /\ Queued(e) = {1} /\ Working(e) = {} /\ e \in inFlight
      BY <1>7, <3>1 DEF Exact, OneOf, Single
    <3>3. Queued(e)' = {}
      <4>1. ASSUME NEW i \in 1..Len(queue'), queue'[i].domain = e PROVE FALSE
        <5>1. i + 1 \in Queued(e)
          BY <1>2, <4>1 DEF Queued
        <5> QED BY <1>2, <3>2, <5>1
      <4> QED BY <4>1 DEF Queued
    <3>4. Working(e)' = {w}
      BY <1>6, <1>9, <1>10, <2>2, <3>2 DEF Working
    <3> QED BY <1>8, <2>1, <3>2, <3>3, <3>4 DEF Exact, OneOf, Single
  <2>3. CASE e # j.domain
    <3>1. Working(e)' = Working(e)
      BY <1>6, <1>9, <1>10, <2>3 DEF Working
    <3>2. \A i \in Queued(e) : i - 1 \in Queued(e)'
      <4>1. ASSUME NEW i \in Queued(e) PROVE i - 1 \in Queued(e)'
        <5>1. i \in 1..Len(queue) /\ queue[i].domain = e /\ i # 1
          BY <1>2, <2>3, <4>1 DEF Queued
        <5>2. i - 1 \in 1..Len(queue') /\ (i - 1) + 1 = i
          BY <1>2, <5>1
        <5>3. queue'[i - 1].domain = e
          BY <1>2, <5>1, <5>2
        <5> QED BY <5>2, <5>3 DEF Queued
      <4> QED BY <4>1
    <3>3. \A i \in Queued(e)' : i + 1 \in Queued(e)
      BY <1>2 DEF Queued
    <3>4. Queued(e) \subseteq Int /\ Queued(e)' \subseteq Int
      BY <1>2 DEF Queued
    <3>5. Queued(e) = {} => Queued(e)' = {}
      BY <3>3
    <3>6. Single(Queued(e)) => Single(Queued(e)')
      <4>1. ASSUME NEW i \in Queued(e), Queued(e) = {i} PROVE Queued(e)' = {i - 1}
        <5>1. i - 1 \in Queued(e)'
          BY <3>2
        <5>2. ASSUME NEW k \in Queued(e)' PROVE k = i - 1
          <6>1. k + 1 = i /\ k \in Int /\ i \in Int
            BY <3>3, <3>4, <4>1
          <6> QED BY <6>1
        <5> QED BY <5>1, <5>2
      <4> QED BY <4>1 DEF Single
    <3> QED BY <1>7, <1>8, <2>1, <3>1, <3>5, <3>6 DEF Exact, OneOf
  <2> QED BY <2>2, <2>3
<1> QED BY <1>6, <1>11, InvFromExact

(* Clearing lets go of the mark the worker alone held.                      *)
LEMMA ClearInv ==
    ASSUME TypeInv, DateInv, InFlightExact, NEW w \in Worker, Clear(w)
    PROVE  TypeInv' /\ DateInv' /\ InFlightExact'
<1> DEFINE d == worker[w].job.domain
           v == [worker[w] EXCEPT !.at = "idle", !.job = NoJob]
<1>1. /\ worker \in [Worker -> Goroutine] /\ clock' \in Nat /\ looked' \in [Req -> Nat]
      /\ inFlight' \subseteq Domain /\ queue' \in Seq(Job) /\ Len(queue') <= QueueCap
      /\ UNCHANGED <<feedVars, config, req, closeVars, queue>>
      /\ inFlight' = inFlight \ {d}
  BY DEF TypeInv, TypeOK, Goroutine, Clear
<1>2. Busy(w)
  BY DEF Clear, Busy
<1>3. worker' = [worker EXCEPT ![w] = v]
  BY <1>1 DEF Clear, Goroutine
<1>4. v \in Goroutine /\ v.at = "idle" /\ v.at \notin BusyAt
  BY <1>1 DEF Goroutine, WorkerAt, BusyAt
<1>5. \A i \in 1..Len(queue') :
         queue'[i].feed <= feedRev /\ Reflects(queue'[i].res, queue'[i].feed)
  BY <1>1 DEF DateInv, TagsBumped, AllReflect
<1>6. EntriesDated
  BY EntriesKept DEF Clear
<1> HIDE DEF v
<1>7. /\ TypeInv' /\ DateInv'
      /\ worker'[w] = v /\ \A x \in Worker \ {w} : worker'[x] = worker[x]
  BY <1>1, <1>3, <1>4, <1>5, <1>6, WorkerTypes
<1>8. \A e \in Domain : Exact(e)
  BY ExactFromInv
<1>9. ~Busy(w)' /\ \A x \in Worker \ {w} : Busy(x)' = Busy(x)
  BY <1>4, <1>7 DEF Busy
<1>10. ASSUME NEW e \in Domain PROVE Exact(e)'
  <2>1. Senders(e)' = Senders(e) /\ Queued(e)' = Queued(e)
    BY <1>1 DEF Senders, Queued
  <2>2. CASE e = d
    <3>1. w \in Working(e)
      BY <1>2, <2>2 DEF Working
    <3>2. Senders(e) = {} /\ Queued(e) = {} /\ Working(e) = {w}
      BY <1>8, <3>1 DEF Exact, OneOf, Single
    <3>3. Working(e)' = {}
      BY <1>7, <1>9, <3>2 DEF Working
    <3> QED BY <1>1, <2>1, <2>2, <3>2, <3>3 DEF Exact
  <2>3. CASE e # d
    <3>1. Working(e)' = Working(e)
      BY <1>7, <1>9, <2>3 DEF Working
    <3> QED BY <1>1, <1>8, <2>1, <2>3, <3>1 DEF Exact
  <2> QED BY <2>2, <2>3
<1> QED BY <1>7, <1>10, InvFromExact
-----------------------------------------------------------------------------
(* Steps of the feed sync, the operator, expiry and shutdown.               *)
LEMMA FeedWriteInv ==
    ASSUME TypeInv, DateInv, InFlightExact, FeedWrite
    PROVE  TypeInv' /\ DateInv' /\ InFlightExact'
<1>1. /\ feedData \in 0..MaxFeed /\ pending \in Nat /\ feedRev \in Nat
      /\ feedAt \in [FeedTag -> Nat] /\ feedData < MaxFeed
      /\ FirstRev \in Nat /\ MaxFeed \in Nat
  BY AnalysisAssumption DEF TypeInv, TypeOK, FeedTag, FeedWrite
<1>2. feedData' \in 0..MaxFeed /\ pending' \in Nat
  BY <1>1 DEF FeedWrite
<1>3. TypeOK' /\ InHand'
  BY <1>2 DEF FeedWrite, TypeInv, TypeOK, InHand, jobVars, closeVars, Busy
<1>4. RevisionsBehind'
  <2>1. feedRev + pending <= FirstRev + feedData /\ \A v \in FeedTag : feedAt[v] <= feedData
    BY DEF TypeInv, RevisionsBehind
  <2>2. feedData' = feedData + 1 /\ pending' = pending + 1 /\ feedRev' = feedRev
        /\ feedAt' = feedAt
    BY DEF FeedWrite
  <2>3. feedRev' + pending' <= FirstRev + feedData'
    BY <1>1, <2>1, <2>2
  <2>4. \A v \in FeedTag : feedAt'[v] <= feedData'
    BY <1>1, <2>1, <2>2
  <2> QED BY <2>3, <2>4 DEF RevisionsBehind
<1>5. DateInv'
  BY DEF FeedWrite, DateInv, TagsBumped, AllReflect, Reflects, jobVars, Busy
<1>6. InFlightExact'
  BY HoldersSame DEF FeedWrite, jobVars, Busy
<1> QED BY <1>3, <1>4, <1>5, <1>6 DEF TypeInv

(* A bump dates its own revision only; every tag in use is an older one.    *)
LEMMA FeedBumpInv ==
    ASSUME TypeInv, DateInv, InFlightExact, FeedBump
    PROVE  TypeInv' /\ DateInv' /\ InFlightExact'
<1> DEFINE n == feedRev + 1
<1>1. /\ feedData \in Nat /\ pending \in Nat /\ feedRev \in Nat /\ pending > 0
      /\ feedAt \in [FeedTag -> Nat] /\ feedData <= MaxFeed
      /\ FirstRev \in Nat /\ MaxFeed \in Nat
      /\ feedRev + pending <= FirstRev + feedData
      /\ \A v \in FeedTag : feedAt[v] <= feedData
  BY AnalysisAssumption DEF TypeInv, TypeOK, FeedTag, FeedBump, RevisionsBehind
<1>2. n \in FeedTag /\ pending - 1 \in Nat
  <2>1. n <= FirstRev + MaxFeed /\ n \in Nat
    BY <1>1
  <2> QED BY <1>1, <2>1 DEF FeedTag
<1>3. /\ feedRev' = n /\ feedAt' = [feedAt EXCEPT ![n] = feedData]
      /\ feedData' = feedData /\ pending' = pending - 1
  BY DEF FeedBump
<1>4. TypeOK' /\ InHand'
  BY <1>1, <1>2, <1>3 DEF FeedBump, TypeInv, TypeOK, InHand, jobVars, closeVars, Busy
<1>5. RevisionsBehind'
  BY <1>1, <1>2, <1>3 DEF RevisionsBehind
<1>6. \A t \in FeedTag : t <= feedRev => t <= feedRev' /\ feedAt'[t] = feedAt[t]
  BY <1>1, <1>3 DEF FeedTag
<1>7. /\ \A d \in Domain : entry[d] # NoEntry => entry[d].feed \in FeedTag
      /\ \A r \in Req : req[r].feed \in FeedTag
      /\ \A i \in 1..Len(queue) : queue[i].feed \in FeedTag
      /\ \A w \in Worker : Busy(w) => worker[w].job.feed \in FeedTag
  <2>1. \A d \in Domain : entry[d] # NoEntry => entry[d].feed \in FeedTag
    BY DEF TypeInv, TypeOK, Entry
  <2>2. \A r \in Req : req[r].feed \in FeedTag
    BY DEF TypeInv, TypeOK, Request
  <2>3. \A i \in 1..Len(queue) : queue[i].feed \in FeedTag
    <3>1. \A i \in 1..Len(queue) : queue[i] \in Job
      BY DEF TypeInv, TypeOK
    <3> QED BY <3>1 DEF Job
  <2>4. \A w \in Worker : Busy(w) => worker[w].job.feed \in FeedTag
    BY DEF TypeInv, InHand, Job
  <2> QED BY <2>1, <2>2, <2>3, <2>4
<1>8. UNCHANGED <<entry, req, queue, worker, inFlight>>
  BY DEF FeedBump, jobVars
<1>9. DateInv'
  BY <1>6, <1>7, <1>8 DEF DateInv, TagsBumped, AllReflect, Reflects, Busy
<1>10. InFlightExact'
  BY <1>8, HoldersSame DEF Busy
<1> QED BY <1>4, <1>5, <1>9, <1>10 DEF TypeInv

LEMMA EnvironmentInv ==
    ASSUME TypeInv, DateInv, InFlightExact,
           \/ FeedSyncFails \/ ConfigApply \/ CloseBegin \/ CloseEnd
           \/ \E d \in Domain : Expire(d)
    PROVE  TypeInv' /\ DateInv' /\ InFlightExact'
<1>1. /\ feedData' = feedData /\ feedRev' = feedRev /\ feedAt' = feedAt
      /\ UNCHANGED <<req, jobVars, clock>>
  BY DEF FeedSyncFails, ConfigApply, CloseBegin, CloseEnd, Expire, feedVars
<1>2. pending \in Nat /\ config \in 0..MaxConfig /\ MaxConfig \in Nat
  BY AnalysisAssumption DEF TypeInv, TypeOK
<1>3. pending' \in Nat /\ pending' <= pending
  BY <1>2 DEF FeedSyncFails, ConfigApply, CloseBegin, CloseEnd, Expire, feedVars
<1>4. config' \in 0..MaxConfig
  BY <1>2 DEF FeedSyncFails, ConfigApply, CloseBegin, CloseEnd, Expire
<1>5. EntriesDated
  <2>1. CASE entry' = entry
    BY <2>1, EntriesKept
  <2>2. ASSUME NEW d \in Domain, Expire(d) PROVE EntriesDated
    BY <2>2 DEF Expire, EntriesDated, TypeInv, TypeOK, DateInv, TagsBumped, AllReflect
  <2> QED BY <2>1, <2>2 DEF FeedSyncFails, ConfigApply, CloseBegin, CloseEnd
<1>6. closed' \in BOOLEAN /\ released' \in BOOLEAN
  BY Zenon
  DEF FeedSyncFails, ConfigApply, CloseBegin, CloseEnd, Expire, closeVars, TypeInv, TypeOK
<1>7. TypeOK' /\ InHand'
  BY <1>1, <1>3, <1>4, <1>5, <1>6
  DEF TypeInv, TypeOK, InHand, EntriesDated, jobVars, Busy
<1>8. RevisionsBehind'
  <2>1. feedRev \in Nat /\ feedData \in Nat /\ FirstRev \in Nat
    BY AnalysisAssumption DEF TypeInv, TypeOK, FeedTag
  <2>2. feedRev + pending <= FirstRev + feedData /\ \A v \in FeedTag : feedAt[v] <= feedData
    BY DEF TypeInv, RevisionsBehind
  <2>3. \A a, b, c, d \in Nat : d <= b /\ a + b <= c => a + d <= c
    OBVIOUS
  <2>4. FirstRev + feedData \in Nat
    BY <2>1
  <2>5. feedRev + pending' <= FirstRev + feedData
    BY <1>2, <1>3, <2>1, <2>2, <2>3, <2>4
  <2>6. /\ feedRev' + pending' <= FirstRev + feedData'
        /\ \A v \in FeedTag : feedAt'[v] <= feedData'
    BY <1>1, <2>2, <2>5
  <2> QED BY <2>6 DEF RevisionsBehind
<1>9. DateInv'
  BY <1>1, <1>5 DEF DateInv, TagsBumped, AllReflect, EntriesDated, Reflects, jobVars, Busy
<1>10. InFlightExact'
  BY <1>1, HoldersSame DEF jobVars, Busy
<1> QED BY <1>7, <1>8, <1>9, <1>10 DEF TypeInv
-----------------------------------------------------------------------------
(* The inductive invariant is preserved by every step.                      *)
LEMMA NextInv ==
    ASSUME TypeInv, DateInv, InFlightExact, [Next]_vars
    PROVE  TypeInv' /\ DateInv' /\ InFlightExact'
<1>1. ASSUME NEW r \in Req, ReqStep(r) PROVE TypeInv' /\ DateInv' /\ InFlightExact'
  BY <1>1, EvaluateInv, StoreInv, EnqueueMarkInv, SendInv, DropInv DEF ReqStep
<1>2. ASSUME NEW w \in Worker, WorkerStep(w) \/ WorkerExit(w)
      PROVE  TypeInv' /\ DateInv' /\ InFlightExact'
  BY <1>2, TakeInv, WorkInv, LookupInv, ClearInv DEF WorkerStep
<1>3. CASE UNCHANGED vars
  <2>1. TypeInv'
    BY <1>3 DEF vars, feedVars, jobVars, closeVars, TypeInv, TypeOK, InHand,
                RevisionsBehind, Busy
  <2>2. DateInv'
    BY <1>3 DEF vars, feedVars, jobVars, DateInv, TagsBumped, AllReflect, Reflects, Busy
  <2>3. InFlightExact'
    BY <1>3, HoldersSame DEF vars, jobVars, Busy
  <2> QED BY <2>1, <2>2, <2>3
<1> QED BY <1>1, <1>2, <1>3, FeedWriteInv, FeedBumpInv, EnvironmentInv DEF Next

(* For any number of requests, workers, domains and feed revisions: the     *)
(* state is well typed, a domain is marked in flight exactly while one job  *)
(* for it is alive (enrichment.go:41-82), and whatever is cached or         *)
(* returned under a feed revision was computed from the feed of that        *)
(* revision or a later one, or failed open (analysis_pipeline.go:290-449).  *)
THEOREM AnalysisCorrect == Spec => [](TypeOK /\ InFlightExact /\ FeedNeverOlder)
<1>1. Init => TypeInv /\ DateInv /\ InFlightExact
  BY InitInv
<1>2. TypeInv /\ DateInv /\ InFlightExact /\ [Next]_vars
        => (TypeInv /\ DateInv /\ InFlightExact)'
  BY NextInv
<1>3. TypeInv /\ DateInv /\ InFlightExact => TypeOK /\ InFlightExact /\ FeedNeverOlder
  BY DEF TypeInv, DateInv, AllReflect, FeedNeverOlder, Evaluated, At
<1> QED BY <1>1, <1>2, <1>3, PTL DEF Spec

(* A domain is marked in flight exactly while one job for it is in          *)
(* somebody's hands, through full queues, cancelled requests, stale jobs    *)
(* and failed writes (enrichment.go:40-82).                                 *)
THEOREM MarksAreExact == Spec => []InFlightExact
BY AnalysisCorrect, PTL
=============================================================================
