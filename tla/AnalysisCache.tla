---------------------------- MODULE AnalysisCache ----------------------------
(***************************************************************************)
(* The analysis result cache of the risk service: one Redis entry per      *)
(* domain, tagged with the revisions it was computed under.  Requests      *)
(* (analyze in internal/risk/analysis_pipeline.go, applyOSINT in           *)
(* osint_ai.go) read and write it, background enrichment workers           *)
(* (enrichment.go) rewrite it later by compare-and-swap, the feed sync     *)
(* bumps the feed revision and an operator changes the configuration.      *)
(*                                                                         *)
(* A request is one run of analyze, so Req bounds the evaluations made.    *)
(* Every Redis round trip and every in-process lock section is one step.   *)
(* The configuration revision stands for the revisions that applyOSINT     *)
(* reads again (configuration and brands); the model revision is fixed for *)
(* the life of a process.  Revision 0 is the empty string: no revision     *)
(* key, or a revision that could not be read.                              *)
(***************************************************************************)
EXTENDS Integers, Sequences, FiniteSets

CONSTANTS
    Req,          \* runs of analyze
    Worker,       \* enrichment goroutines
    Domain,       \* normalized domains
    QueueCap,     \* capacity of enrichQueue
    FirstRev,     \* the feed revision at the start
    MaxFeed,      \* bound: writes to the threat feed
    MaxConfig,    \* bound: changes of the configuration
    MayClose,     \* bound: whether the service may be shut down
    Content,      \* configRevision (a content hash) of each configuration
    NoEntry,      \* no cache entry
    NoResult,     \* no result yet
    NoJob         \* a worker without a job

(* A score from 20 to 69 is worth enrichment; any other is settled.         *)
Class == {"mid", "settled"}

(* A result and, as history, what it was computed from and by which run.    *)
Result ==
    [class : Class, osint : BOOLEAN, blind : BOOLEAN, feed : Nat,
     config : 0..MaxConfig, id : Req]

FeedTag == 0..(FirstRev + MaxFeed)

Revision == {Content[v] : v \in 0..MaxConfig}

Job == [domain : Domain, res : Result, feed : FeedTag, config : Revision, queuedAt : Nat]

(* snap is history: when the evaluation held here was materialized.         *)
Entry ==
    [res : Result, feed : FeedTag, config : Revision, assessedAt : Nat,
     enriched : BOOLEAN, snap : Nat]

ReqAt == {"start", "config", "get", "feed", "lexical", "osint", "osintWrite",
          "store", "stamp", "enqueue", "send", "done"}

WorkerAt == {"idle", "check", "lookup", "write", "clear", "exited"}

ASSUME AnalysisAssumption ==
    /\ QueueCap \in Nat \ {0}
    /\ FirstRev \in Nat
    /\ MaxFeed \in Nat
    /\ MaxConfig \in Nat
    /\ MayClose \in BOOLEAN
    /\ DOMAIN Content = 0..MaxConfig
    /\ NoEntry \notin Entry
    /\ NoResult \notin Result
    /\ NoJob \notin Job

VARIABLES
    feedData,   \* version of the threat feed's contents
    feedRev,    \* the feed revision key
    pending,    \* syncs that have written the feed and not yet bumped it
    feedAt,     \* history: the contents each revision was bumped for
    config,     \* the configuration in force
    entry,      \* the cache
    req,        \* the runs of analyze
    inFlight,   \* enrichInFlight
    queue,      \* enrichQueue
    worker,     \* the enrichment goroutines
    clock,      \* a stamp later than every stamp taken so far
    looked,     \* history: external lookups made for each evaluation
    closed,     \* Close has cancelled the lifecycle
    released    \* Close has closed Redis

feedVars == <<feedData, feedRev, pending, feedAt>>
closeVars == <<closed, released>>
jobVars == <<inFlight, queue, worker, looked>>
vars == <<feedVars, config, entry, req, jobVars, clock, closeVars>>

Init ==
    /\ feedData = 0 /\ feedRev = FirstRev /\ pending = 0
    /\ feedAt = [v \in FeedTag |-> 0]
    /\ config = 0
    /\ entry = [d \in Domain |-> NoEntry]
    /\ req \in [Req -> [at : {"start"}, domain : Domain, feed : {0}, known : {FALSE},
                        config : {Content[0]},
                        hit : {FALSE}, enriched : {FALSE}, res : {NoResult},
                        writeAs : {Content[0]}, stamp : {0}]]
    /\ inFlight = {}
    /\ queue = <<>>
    /\ worker = [w \in Worker |-> [at |-> "idle", job |-> NoJob, stamp |-> 0]]
    /\ clock = 0
    /\ looked = [r \in Req |-> 0]
    /\ closed = FALSE /\ released = FALSE

Goto(r, l) == req' = [req EXCEPT ![r].at = l]

At(r, l) == req[r].at = l
-----------------------------------------------------------------------------
(* The epoch is read first, once: feed (and brand) from Redis, then the     *)
(* in-process configuration.  An unreadable revision is not known.          *)
ReadFeedRevision(r, known) ==
    /\ At(r, "start")
    /\ known => ~released
    /\ req' = [req EXCEPT ![r].at = "config", ![r].known = known,
                          ![r].feed = IF known THEN feedRev ELSE 0]
    /\ UNCHANGED <<feedVars, config, entry, jobVars, clock, closeVars>>

ReadConfigRevision(r) ==
    /\ At(r, "config")
    /\ req' = [req EXCEPT ![r].at = "get", ![r].config = Content[config]]
    /\ UNCHANGED <<feedVars, config, entry, jobVars, clock, closeVars>>

entryMatchesRevision(e, q) ==
    /\ e # NoEntry
    /\ e.config = q.config
    /\ q.known
    /\ e.feed = q.feed

CacheHit(r) ==
    LET e == entry[req[r].domain] IN
    /\ At(r, "get")
    /\ ~released
    /\ entryMatchesRevision(e, req[r])
    /\ req' = [req EXCEPT ![r].at = "osint", ![r].hit = TRUE,
                          ![r].enriched = e.enriched, ![r].res = e.res]
    /\ UNCHANGED <<feedVars, config, entry, jobVars, clock, closeVars>>

(* No entry, another epoch, or the read failed.                             *)
CacheMiss(r) ==
    /\ At(r, "get")
    /\ Goto(r, "feed")
    /\ UNCHANGED <<feedVars, config, entry, jobVars, clock, closeVars>>

(* The feed lookup fails open: without it the result is blind to the feed.  *)
LookupFeed(r, blind) ==
    /\ At(r, "feed")
    /\ ~blind => ~released
    /\ req' = [req EXCEPT ![r].at = "lexical",
                  ![r].res = [class |-> "settled", osint |-> FALSE, blind |-> blind,
                              feed |-> feedData, config |-> config, id |-> r]]
    /\ UNCHANGED <<feedVars, config, entry, jobVars, clock, closeVars>>

(* Lexical analysis under the configuration in force now, then ML and AI.   *)
AnalyzeLexical(r, class) ==
    /\ At(r, "lexical")
    /\ req' = [req EXCEPT ![r].at = "osint", ![r].res.class = class,
                          ![r].res.config = config]
    /\ UNCHANGED <<feedVars, config, entry, jobVars, clock, closeVars>>
-----------------------------------------------------------------------------
shouldEnqueueEnrichment(res) == res.class = "mid"

(* After the OSINT section: a miss stores its result; a hit may still need  *)
(* enrichment.                                                              *)
AfterOSINT(q) ==
    IF ~q.hit THEN "store"
    ELSE IF shouldEnqueueEnrichment(q.res) /\ ~q.enriched THEN "stamp" ELSE "done"

OSINTNothing(r) ==
    /\ At(r, "osint")
    /\ Goto(r, AfterOSINT(req[r]))
    /\ UNCHANGED <<feedVars, config, entry, jobVars, clock, closeVars>>

(* A public warning raises the score to 90, which settles it; the entry to  *)
(* write is stamped and tagged with the configuration revision of now.      *)
OSINTUpgrade(r) ==
    /\ At(r, "osint")
    /\ ~req[r].res.osint
    /\ req' = [req EXCEPT ![r].at = "osintWrite", ![r].res.class = "settled",
                          ![r].res.osint = TRUE, ![r].writeAs = Content[config],
                          ![r].stamp = clock + 1]
    /\ clock' = clock + 1
    /\ UNCHANGED <<feedVars, config, entry, jobVars, closeVars>>

SetJSON(d, e) ==
    /\ ~released
    /\ entry' = [entry EXCEPT ![d] = e]
    /\ clock' = clock + 1

\* Mutant: the feed revision is read again too.
OSINTWriteLive(r) ==
    /\ At(r, "osintWrite")
    /\ SetJSON(req[r].domain,
          [res |-> req[r].res, feed |-> feedRev, config |-> req[r].writeAs,
           assessedAt |-> req[r].stamp, enriched |-> FALSE, snap |-> req[r].stamp])
    /\ Goto(r, AfterOSINT(req[r]))
    /\ UNCHANGED <<feedVars, config, jobVars, closeVars>>

OSINTWrite(r) ==
    /\ At(r, "osintWrite")
    /\ SetJSON(req[r].domain,
          [res |-> req[r].res, feed |-> req[r].feed, config |-> req[r].writeAs,
           assessedAt |-> req[r].stamp, enriched |-> FALSE, snap |-> req[r].stamp])
    /\ Goto(r, AfterOSINT(req[r]))
    /\ UNCHANGED <<feedVars, config, jobVars, closeVars>>

OSINTWriteFails(r) ==
    /\ At(r, "osintWrite")
    /\ Goto(r, AfterOSINT(req[r]))
    /\ UNCHANGED <<feedVars, config, entry, jobVars, clock, closeVars>>

AfterStore(q) == IF shouldEnqueueEnrichment(q.res) THEN "stamp" ELSE "done"

(* The final write of a miss: tagged with the epoch read first, unstamped.  *)
Store(r) ==
    /\ At(r, "store")
    /\ SetJSON(req[r].domain,
          [res |-> req[r].res, feed |-> req[r].feed, config |-> req[r].config,
           assessedAt |-> 0, enriched |-> FALSE, snap |-> clock + 1])
    /\ Goto(r, AfterStore(req[r]))
    /\ UNCHANGED <<feedVars, config, jobVars, closeVars>>

StoreFails(r) ==
    /\ At(r, "store")
    /\ Goto(r, AfterStore(req[r]))
    /\ UNCHANGED <<feedVars, config, entry, jobVars, clock, closeVars>>
-----------------------------------------------------------------------------
(* enqueueEnrichment: QueuedAt is taken, the domain is marked under the     *)
(* lock, then one non-blocking send decides.                                *)
StampJob(r) ==
    /\ At(r, "stamp")
    /\ req' = [req EXCEPT ![r].at = "enqueue", ![r].stamp = clock + 1]
    /\ clock' = clock + 1
    /\ UNCHANGED <<feedVars, config, entry, jobVars, closeVars>>

EnqueueSkip(r) ==
    /\ At(r, "enqueue")
    /\ req[r].domain \in inFlight
    /\ Goto(r, "done")
    /\ UNCHANGED <<feedVars, config, entry, jobVars, clock, closeVars>>

EnqueueMark(r) ==
    /\ At(r, "enqueue")
    /\ req[r].domain \notin inFlight
    /\ inFlight' = inFlight \cup {req[r].domain}
    /\ Goto(r, "send")
    /\ UNCHANGED <<feedVars, config, entry, queue, worker, looked, clock, closeVars>>

(* A hit takes the job's revisions from the entry, a miss from its epoch:   *)
(* entryMatchesRevision makes them the same.                                *)
JobOf(q) ==
    [domain |-> q.domain, res |-> q.res, feed |-> q.feed, config |-> q.config,
     queuedAt |-> q.stamp]

Send(r) ==
    /\ At(r, "send")
    /\ Len(queue) < QueueCap
    /\ queue' = Append(queue, JobOf(req[r]))
    /\ Goto(r, "done")
    /\ UNCHANGED <<feedVars, config, entry, inFlight, worker, looked, clock, closeVars>>

\* Mutant: the branch for a full queue forgets the mark.
DropKeepsMark(r) ==
    /\ At(r, "send")
    /\ Goto(r, "done")
    /\ UNCHANGED <<feedVars, config, entry, jobVars, clock, closeVars>>

(* The queue is full, or the request's context is done.                     *)
Drop(r) ==
    /\ At(r, "send")
    /\ inFlight' = inFlight \ {req[r].domain}
    /\ Goto(r, "done")
    /\ UNCHANGED <<feedVars, config, entry, queue, worker, looked, clock, closeVars>>
-----------------------------------------------------------------------------
(* enrichmentWorker and processEnrichmentJob.                               *)
Busy(w) == worker[w].at \notin {"idle", "exited"}

Take(w) ==
    /\ worker[w].at = "idle"
    /\ queue # <<>>
    /\ worker' = [worker EXCEPT ![w].at = "check", ![w].job = Head(queue)]
    /\ queue' = Tail(queue)
    /\ UNCHANGED <<feedVars, config, entry, req, inFlight, looked, clock, closeVars>>

(* A feed revision that is empty or cannot be read does not stop the job.   *)
CheckPasses(w) ==
    /\ worker[w].at = "check"
    /\ Content[config] = worker[w].job.config
    /\ worker' = [worker EXCEPT ![w].at = "lookup"]
    /\ UNCHANGED <<feedVars, config, entry, req, inFlight, queue, looked, clock, closeVars>>

CheckStale(w) ==
    /\ worker[w].at = "check"
    /\ \/ Content[config] # worker[w].job.config
       \/ ~released /\ feedRev # 0 /\ worker[w].job.feed # 0
            /\ feedRev # worker[w].job.feed
    /\ worker' = [worker EXCEPT ![w].at = "clear"]
    /\ UNCHANGED <<feedVars, config, entry, req, inFlight, queue, looked, clock, closeVars>>

(* TLS, WHOIS and DNS signals only ever add to the score.                   *)
Lookup(w, class) ==
    /\ worker[w].at = "lookup"
    /\ worker' = [worker EXCEPT ![w].at = "write", ![w].job.res.class = class,
                                ![w].stamp = clock + 1]
    /\ looked' = [looked EXCEPT ![worker[w].job.res.id] = @ + 1]
    /\ clock' = clock + 1
    /\ UNCHANGED <<feedVars, config, entry, req, inFlight, queue, closeVars>>

(* The recency guard compares QueuedAt with the entry's own stamps.         *)
Newer(e, job) == e # NoEntry /\ e.assessedAt > job.queuedAt

EnrichedEntry(w) ==
    LET job == worker[w].job IN
    [res |-> job.res, feed |-> job.feed, config |-> job.config,
     assessedAt |-> worker[w].stamp, enriched |-> TRUE, snap |-> job.queuedAt]

CasWrite(w) ==
    /\ worker[w].at = "write"
    /\ ~released
    /\ ~Newer(entry[worker[w].job.domain], worker[w].job)
    /\ entry' = [entry EXCEPT ![worker[w].job.domain] = EnrichedEntry(w)]
    /\ worker' = [worker EXCEPT ![w].at = "clear"]
    /\ UNCHANGED <<feedVars, config, req, inFlight, queue, looked, clock, closeVars>>

(* The guard refuses, conflicts use up the attempts, or Redis fails.        *)
CasNoWrite(w) ==
    /\ worker[w].at = "write"
    /\ worker' = [worker EXCEPT ![w].at = "clear"]
    /\ UNCHANGED <<feedVars, config, entry, req, inFlight, queue, looked, clock, closeVars>>

Clear(w) ==
    /\ worker[w].at = "clear"
    /\ inFlight' = inFlight \ {worker[w].job.domain}
    /\ worker' = [worker EXCEPT ![w].at = "idle", ![w].job = NoJob]
    /\ UNCHANGED <<feedVars, config, entry, req, queue, looked, clock, closeVars>>

WorkerExit(w) ==
    /\ worker[w].at = "idle"
    /\ closed
    /\ worker' = [worker EXCEPT ![w].at = "exited"]
    /\ UNCHANGED <<feedVars, config, entry, req, inFlight, queue, looked, clock, closeVars>>
-----------------------------------------------------------------------------
(* Close: stop the workers, wait for them, then release Redis.              *)
CloseBegin ==
    /\ MayClose /\ ~closed
    /\ closed' = TRUE
    /\ UNCHANGED <<feedVars, config, entry, req, jobVars, clock, released>>

CloseEnd ==
    /\ closed /\ ~released
    /\ \A w \in Worker : worker[w].at = "exited"
    /\ released' = TRUE
    /\ UNCHANGED <<feedVars, config, entry, req, jobVars, clock, closed>>

(* A feed sync writes members (or renames the staging key), then bumps; it  *)
(* may fail or die between the two.                                         *)
FeedWrite ==
    /\ feedData < MaxFeed
    /\ feedData' = feedData + 1
    /\ pending' = pending + 1
    /\ UNCHANGED <<feedRev, feedAt, config, entry, req, jobVars, clock, closeVars>>

FeedBump ==
    /\ pending > 0
    /\ pending' = pending - 1
    /\ feedRev' = feedRev + 1
    /\ feedAt' = [feedAt EXCEPT ![feedRev + 1] = feedData]
    /\ UNCHANGED <<feedData, config, entry, req, jobVars, clock, closeVars>>

FeedSyncFails ==
    /\ pending > 0
    /\ pending' = pending - 1
    /\ UNCHANGED <<feedData, feedRev, feedAt, config, entry, req, jobVars, clock, closeVars>>

(* applyAnalysisConfig: analyzer and revision change under one lock.        *)
ConfigApply ==
    /\ config < MaxConfig
    /\ config' = config + 1
    /\ UNCHANGED <<feedVars, entry, req, jobVars, clock, closeVars>>

(* The entry's TTL runs out, or an agent promotion deletes it.              *)
Expire(d) ==
    /\ entry[d] # NoEntry
    /\ entry' = [entry EXCEPT ![d] = NoEntry]
    /\ UNCHANGED <<feedVars, config, req, jobVars, clock, closeVars>>
-----------------------------------------------------------------------------
ReqStep(r) ==
    \/ \E known \in BOOLEAN : ReadFeedRevision(r, known)
    \/ ReadConfigRevision(r)
    \/ CacheHit(r)
    \/ CacheMiss(r)
    \/ \E blind \in BOOLEAN : LookupFeed(r, blind)
    \/ \E class \in Class : AnalyzeLexical(r, class)
    \/ OSINTNothing(r)
    \/ OSINTUpgrade(r)
    \/ OSINTWrite(r)
    \/ OSINTWriteFails(r)
    \/ Store(r)
    \/ StoreFails(r)
    \/ StampJob(r)
    \/ EnqueueSkip(r)
    \/ EnqueueMark(r)
    \/ Send(r)
    \/ Drop(r)

WorkerStep(w) ==
    \/ Take(w)
    \/ CheckPasses(w)
    \/ CheckStale(w)
    \/ \E class \in Class : Lookup(w, class)
    \/ CasWrite(w)
    \/ CasNoWrite(w)
    \/ Clear(w)

Next ==
    \/ \E r \in Req : ReqStep(r)
    \/ \E w \in Worker : WorkerStep(w) \/ WorkerExit(w)
    \/ CloseBegin
    \/ CloseEnd
    \/ FeedWrite
    \/ FeedBump
    \/ FeedSyncFails
    \/ ConfigApply
    \/ \E d \in Domain : Expire(d)

Spec == Init /\ [][Next]_vars

(* Redis calls and lookups have timeouts, so a request that has started     *)
(* and a worker with a job go on.  A worker whose stop signal stays ready   *)
(* is picked by select sooner or later, however full the queue (Go chooses  *)
(* at random among ready cases).  Changes and expiry are not fair.          *)
FairSpec ==
    /\ Spec
    /\ \A r \in Req : WF_vars(~At(r, "start") /\ ReqStep(r))
    /\ \A w \in Worker : WF_vars(WorkerStep(w)) /\ SF_vars(WorkerExit(w))
    /\ WF_vars(CloseEnd)
-----------------------------------------------------------------------------
Request ==
    [at : ReqAt, domain : Domain, feed : FeedTag, known : BOOLEAN, config : Revision,
     hit : BOOLEAN, enriched : BOOLEAN,
     res : Result \cup {NoResult}, writeAs : Revision, stamp : Nat]

TypeOK ==
    /\ feedData \in 0..MaxFeed /\ feedRev \in FeedTag /\ pending \in Nat
    /\ feedAt \in [FeedTag -> Nat]
    /\ config \in 0..MaxConfig
    /\ entry \in [Domain -> Entry \cup {NoEntry}]
    /\ req \in [Req -> Request]
    /\ inFlight \subseteq Domain
    /\ queue \in Seq(Job) /\ Len(queue) <= QueueCap
    /\ worker \in [Worker -> [at : WorkerAt, job : Job \cup {NoJob}, stamp : Nat]]
    /\ clock \in Nat
    /\ looked \in [Req -> Nat]
    /\ closed \in BOOLEAN /\ released \in BOOLEAN

(* Whoever owns a domain's mark: a request about to send, a queued job, or  *)
(* a worker that has not cleared it.                                        *)
Holders(d) ==
    {<<"req", r>> : r \in {x \in Req : At(x, "send") /\ req[x].domain = d}}
    \cup {<<"queue", i>> : i \in {x \in 1..Len(queue) : queue[x].domain = d}}
    \cup {<<"worker", w>> : w \in {x \in Worker : Busy(x) /\ worker[x].job.domain = d}}

(* A domain is marked in flight exactly while one job for it is in          *)
(* somebody's hands: no path (full queue, cancelled request, stale job,     *)
(* failed write) forgets the mark, which would stop enrichment of that      *)
(* domain for ever, and no two jobs for a domain are ever alive             *)
(* (enrichment.go:40-82).                                                   *)
InFlightExact ==
    \A d \in Domain :
        IF d \in inFlight THEN \E h \in Holders(d) : Holders(d) = {h}
                          ELSE Holders(d) = {}

(* A result reflects at least the feed contents its tag was bumped for.     *)
Reflects(res, tag) == res.blind \/ res.feed >= feedAt[tag]

(* What is cached under a feed revision, and what a request that read this  *)
(* revision returns, was computed from the contents of the feed at that     *)
(* revision or later (or failed open), whatever bumps, hits, OSINT writes   *)
(* and late worker writes came in between (analysis_pipeline.go:290-449,    *)
(* enrichment.go:117-153, osint_ai.go:154-177).                             *)
FeedNeverOlder ==
    /\ \A d \in Domain : entry[d] # NoEntry => Reflects(entry[d].res, entry[d].feed)
    /\ \A r \in Req : At(r, "done") => Reflects(req[r].res, req[r].feed)

(* Every mark in flight is cleared while the service runs.                  *)
MarksCleared == \A d \in Domain : []<>(d \notin inFlight \/ closed)

(* Close returns: no worker can keep it waiting (service.go:657-687).       *)
CloseReturns == []<>(closed => released)

(* What the recency guard says: a job snapshot must not overwrite an        *)
(* evaluation materialized after the snapshot was taken.                    *)
NewerEvaluationKept ==
    [][\A d \in Domain :
          entry[d] # NoEntry /\ entry'[d] \notin {entry[d], NoEntry} /\ entry'[d].enriched
             => entry'[d].snap >= entry[d].snap]_vars

(* What the cache contract says of a configuration change: staleness 0.  A  *)
(* hit serves a result computed under the configuration the request read,   *)
(* or under a later one.                                                    *)
HitConfigCurrent ==
    \A r \in Req : req[r].hit =>
        \E v \in 0..MaxConfig :
            Content[v] = req[r].config /\ v <= req[r].res.config

(* What the comment on the hit path says: exactly one lookup per episode.   *)
(* An evaluation whose enriched entry is in the cache has cost one lookup.  *)
OneLookup ==
    \A d \in Domain : entry[d] # NoEntry /\ entry[d].enriched =>
        looked[entry[d].res.id] <= 1
=============================================================================
