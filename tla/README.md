# Safe Zone: a TLA+ verification project

Safe Zone is a self-hosted filtering DNS resolver. `cmd/dns-resolver` answers
DoH and DoT queries, `cmd/core-api` serves the operator console and runs the
agent, `feed-syncd` fills the threat feed; they share Redis and a SQLite store.
This directory models the parts of it whose correctness depends on
interleavings, failures and ordering, checks them with TLC on small instances,
and proves the safety properties of every modelled part, but one, with TLAPS for
instances of every size.

Paths below are relative to `src/internal/` unless they start with `src/`.

## 1. Inventory

| Component | State it keeps | Operations | Talks to |
|---|---|---|---|
| DNS response cache (`dns/resolver/cache.go`) | map and LRU list of entries, refresh slots, one mutex | `Get`, `Put`, `GetStale`, `ShouldRefresh`, `BeginRefresh`, `EndRefresh` | resolver, refresh goroutines |
| Resolution pipeline (`dns/resolver/resolver.go`) | `inflight` counter | `ResolveQuery`, `maybeRefreshAhead` | policy, cache, upstream pool |
| Upstream pool (`dns/doh/upstream.go`) | health, latency and failures per endpoint | `Forward`, `ProbeLoop` | upstream resolvers |
| Policy precedence (`risk/policy.go`, `analysis_pipeline.go`) | none of its own | `Policy`, `AnalyzeWithOptions` | overrides, groups, whitelist, adblock, analysis |
| Client identity and groups (`ratelimit/middleware.go`, `store/groups.go`) | trusted proxies, mappings, CIDR index | `ClientIP`, `GetGroupForClient`, edits | HTTP servers, policy |
| Rate limiter (`ratelimit/limiter.go`) | buckets, two recency lists, a counter | `Allow`, eviction, cleanup | HTTP middleware |
| Analysis result cache (`risk/analysis_pipeline.go`, `cache_types.go`, `osint_ai.go`) | one Redis entry per domain, tagged with revisions | `analyze`, `applyOSINT` | Redis, feed, analyzer, OSINT, AI |
| Background enrichment (`risk/enrichment.go`) | queue, in-flight marks, workers | enqueue, worker, `Close` | Redis, TLS/WHOIS/DNS lookups |
| Configuration reload (`risk/config_reload.go`) | configuration, revisions, indexes | subscriber, reconciler, update, reset | store, Redis pub/sub |
| Allow list (`risk/whitelist.go`, `store/whitelist*.go`, `agent/whitelist_update.go`) | table, revision, snapshots, published index | load, import, undo, rollback | store, reload |
| Feed sync (`feed`, `feedsync`, `agent/feedsync.go`, `agent/osint.go`) | feed sorted set, revision, source status | merge and replace syncs, promotion | feed sources, Redis |
| Adblock (`risk/adblock_*.go`, `domaintrie`) | switches, list caches, tags, trie, exceptions | settings, 30 s refresh, rebuild, match | list publishers, files, store |
| OSINT (`osint`) | reports in memory and Redis | `Lookup`, `Cached`, `Apply` | public pages, Redis |
| Brand list (`store/brand.go`, `serve/brands.go`) | rows, Redis copy, snapshot, revision | list, edit, seed | analyzer |
| Outbound guards (`netguard`, `osint`, `feed/sync.go`, `tlsinspect`) | none | resolve, check, dial, redirect | the network |
| Agent engine (`agent/engine.go`) | registered tasks, trigger queue | `Start`, `Stop`, `Trigger`, loop | tasks |
| Alerts and audits (`agent/alert.go`, `audit.go`) | persisted cursors | one cycle each | channels, store |
| Moderation (`store/proposals.go`, `reports.go`, `overrides.go`, `retention.go`) | proposals, reports, overrides | audit, review, sweep | operators, agent |
| URL feedback (`risk/url_feedback*.go`, `store/url_feedback.go`) | ring and index, or rows under a keyed fingerprint | record, label, prune | API, store |
| Sessions (`auth`, `api/handlers/auth*.go`, `access.go`) | session rows, guest account | login, logout, admission | store |
| Process end (`serve/http.go`, `risk/service.go`, `store/sqlite.go`) | wait groups, telemetry queue | drain, stop, close | everything |
| DoH/DoT transport, ML, lexical analysis, WHOIS, observability, tools | mostly computation or I/O | | |

How they interact on the query path: a transport identifies the client, the
limiter admits it, and `ResolveQuery` takes an admission unit, asks `Policy` for
the name, looks in the response cache (and may start a background refresh), asks
the upstream, walks the CNAME targets through `Policy` and stores the answer.
`Policy` finds the client's group, the closest override, the allow list, content
rules, and at last runs `analyze`, which reads the revisions of feed, brands and
configuration, looks for an entry of this epoch, or computes one, stores it and
may enqueue the domain for enrichment. A worker looks up TLS, WHOIS and DNS data
and rewrites the entry by compare-and-swap. Meanwhile feed syncs write members and bump
the revision, operators edit rows that other processes learn of by lossy
messages or by polling, lists are downloaded and compiled, and the agent
proposes, alerts and imports.

What is hard:

- *shared state between calls*: the response cache serves one client's answer to
  another, so policy has to be applied again on every hit, under a policy that
  changes during the call;
- *check, then act*: admission adds before it compares; `ShouldRefresh` and
  `BeginRefresh` are separate critical sections; a name is resolved, checked and
  then dialled; an audit looks for overrides, then spends seconds on lookups;
- *stale reads*: revisions are read seconds before the entry that carries them
  is written; loads publish out of order; readers refill a cache an edit has
  just dropped;
- *failure*: upstream, Redis, SQLite, files and channels fail at each call; a
  sync may die between its writes and its bump, a cache file between remove and
  rename, a cursor between memory and store; queues overflow; shutdown comes at
  any time;
- *limits*: caches, queues, the limiter's table and the report map are at their
  bound in normal operation.

`PROJECT.json` lists every hazard at its line, with the properties that would
catch it.

## 2. Modules

| Module | Models | What makes it correct |
|---|---|---|
| `BoundedCache` | what the response cache promises: a bounded map | (abstract specification) |
| `ResponseCache` | `cache.go`, one action per outcome of a method | implements `BoundedCache`; `ListMatchesMap`, `LifetimeBounded` |
| `Resolver` | `resolver.go`; EXTENDS `ResponseCache` and calls its actions | `NoBlockedNameAnswered`, `AdmissionBound`, `SingleFlight`, `AnswersMatch`, calls return |
| `AnalysisCache` | `analyze`, `applyOSINT`, enrichment, Close, feed bump | `FeedNeverOlder`, `InFlightExact`, marks are cleared, Close returns |
| `Whitelist` | loads, imports, rollbacks, floors, reconciler | `RevisionTellsSet`, `PopulatedStays`, `Converges` |
| `ConfigReload` | configuration and client mappings across processes | `FollowsStore`, `RevisionTellsRows` |
| `UpstreamPool` | order and health of endpoints | `MarksHeal` |
| `FeedSync` | feed writers, source status, promotion | `LiveFeedSurvives`, `ListedProtected` |
| `FeedParse` | lines to indicators to an admission plan | `PlanMatchesEvidence` |
| `Policy` | precedence, query by query, under edits | `PolicySound` against the documented order |
| `ClientIdentity` | forwarded headers, mappings, CIDR order | `ClientIdentified` |
| `RateLimiter` | buckets, eviction, sweep | `TableSound`, `RightKeysGo` |
| `Brands` | rows, copies and their refills | `ListBounded` |
| `Outbound` | resolve, check, dial, redirect | `OutboundConfined` |
| `Adblock` | switches, downloads, cache files, rebuild | `ListsKept`, `ListsCurrent` |
| `RuleTrie` | trie, merge, walk, cache file | `RulesDecide` against a reference |
| `AdblockExceptions` | exception file, index, match | `LiftsExactly` against a reference |
| `Osint` | lookups, evidence caches, blocking | `ReportsSound`, `WarningEnforced` |
| `AgentEngine` | scheduler, triggers, start and stop | `StopIsFinal`, `EngineProgress` |
| `AlertDelivery` | pages, channels, cursor | `AtLeastOnce`, `BacklogDrains` |
| `AuditCursor` | windows, pages, cursor | `PassedWasAudited` |
| `Moderation` | audit of a name, proposals, reports, retention | `DecisionsStand` |
| `UrlFeedback` | ring, rows, key rotation, prune | `FeedbackKept` |
| `Sessions` | login, logout, admission, guest account | `LogoutIsFinal` |
| `Lifecycle` | drain, stop, close, prune, telemetry writer | `StoreOutlivesUsers`, `ShutdownEnds` |
| `Lists` | the place of an element in a list, and the list without some (used by `RateLimiter` and `Osint`) | |
| `AgentParts`, `RecordParts`, `EdgeParts`, `ContentParts` | the parts of a run as instances, and the properties of each under one name | |
| `ResolverProofs` | theorems about `ResponseCache` and `Resolver` | section 4 |
| `AnalysisCacheProofs` | theorems about `AnalysisCache` | |
| `ControlProofs` | theorems about `Whitelist` and `ConfigReload` | |
| `AgentProofs` | theorems about the engine, the end of the process and alerts | |
| `RecordProofs` | theorems about feed sync, parsing, the audit walk, moderation, labels and sessions | |
| `PolicyProofs` | theorems about `Policy` | |
| `ContentProofs` | theorems about lists, exceptions and the trie | |
| `EdgeProofs` | theorems about the brand list, outbound requests, the limiter, identity and warnings | |
| `MC*` | instances for TLC | |

A `Parts` module declares the constants and variables of several components that
share no state, instantiates them and names their properties
(`TableSound == L!TableSound`). The MC module of the run and the module of the
proofs both extend it. So what TLC checks on a small instance and what a theorem
states for every instance is one definition: the cfg gives the constants values,
and the theorem leaves them open.

**ResponseCache.** `entry` is the entries map (`NoEntry` when absent), `lru` the
list front first, `refreshing` the claimed slots, `now` the monotonic clock in
seconds. Every method runs in one critical section, so `GetHit`, `GetAbsent`,
`GetExpired` are the outcomes of `Get`, and `PutRefused`, `PutReplace`,
`PutInsert`, `PutEvict` those of `Put`. `Put` reads the clock before it takes the
mutex, so the time it records may lag (`PutClock`, bounded by `LockWait`). A
response is a record of what the cache reads: question, cacheability, sign, TTLs,
SOA minima, CNAME targets. The hit counter stops at `RefreshMinHits`, because it
is only ever compared with that number. `GetStale` and `ShouldRefresh` change
nothing and are predicates.

**Resolver.** One process per running call. Each call into the cache, the policy
or the upstream is a step of its own; what happens between two of them is not
visible to others. `blocked` is the policy as the resolver sees it, and
`PolicyChange` may alter one (name, client) pair at any time. `cleared` is
history: the names not blocked for the client at some moment of the call;
`hadStale` remembers what the lookup found. A refresh goroutine (`task`)
forwards, validates, stores and releases its slot. The number of goroutines is
bounded by `Task`: a hit that could claim a slot when all are in use waits in the
model, so the instances have as many tasks as keys.

**AnalysisCache.** `req` holds the runs of `analyze`; `entry` is the Redis cache;
a result carries as history the feed contents, the configuration and the run it
came from. Every Redis round trip is a step that may fail, as is every lock
section. Revision 0 is the empty string. The score is reduced to `Class`: worth
enrichment (20 to 69) or settled. Configuration and brand revision are one
revision: both are read at the start and again by `applyOSINT`. The compare-and-swap is
one step, as WATCH/EXEC makes it; running out of its attempts is `CasNoWrite`.

**Whitelist, ConfigReload.** A load reads revision, count and rows in separate
steps and publishes at the end; loaders (`Proc`) belong to a process (`NodeOf`)
and have a role. Messages are a set: one may be taken twice, late or never. A
reader compares revisions (or configuration hashes) only, which is what
`RevisionTellsSet` and `RevisionTellsRows` are about.

**FeedSync, FeedParse.** The feed maps a name to the day it expires. A writer
goes through open, batches, sweep, rename (replace mode), bump and status; each
Redis call may fail and the writer may die anywhere (`SyncFails`, `Cancelled`,
`Crash`). A line of a feed is one indicator or none, with fields that do not
parse; the bounded set of seen names fills up. The interval a writer runs on
(`Interval`) and the one its start-up compares the churn window with
(`CheckedInterval`) are two constants, because they are two settings.
`PlanMatchesEvidence` is about the classification of hosts, not about the counters
or the queue of a legacy sync.

**Policy, ClientIdentity.** Names are sequences of labels, addresses sequences
of leading bits. Each query of `GetEffectiveOverride` is a step; `standing` and
`ever` are history: the rows that were there throughout, or at some time of, the
request. The reference, `Documented`, knows no walk: a row applies to a name that
it `Covers`, that is, no public suffix of the name separates the two. Proxies are
taken to append to the one `X-Forwarded-For` line there is: `ClientIP` reads the
first line only (`ratelimit/middleware.go:302`).

**Adblock, RuleTrie, AdblockExceptions.** A list is the number of its version.
Body, rules and tags are three files, each replaced by remove and rename, so a
crash can leave none. The trie holds rules per node; its decisions and those of
the exception index are compared with definitions over the lines that were read.

**Osint, Outbound, Brands.** Pages, records and rows change at any step. A report
is evidence with a confidence; a source is what a configuration reads and trusts.
`dialled` collects the connections of a request. In `Brands` the clock stands
still while a call is under way, whose duration is small beside the lifetimes. An
evaluation whose read of the rows failed is marked `blind`: it goes by the list the
program ships with, and so does the result cached for it. A process without a
store, which goes by that list always, is left out. In `Outbound` the
guard is on: `SAFE_ZONE_OUTBOUND_PROXY` and the `allowPrivate` switch
(`netguard/http.go:58-77`) turn it off, and the transport of the warning pages keeps
a proxy of the environment (`osint/osint.go:621-643`), behind which the
address dialled is the proxy's choice; none of the three is modelled.

**AgentEngine, AlertDelivery, AuditCursor, Lifecycle.** The engine's mutex
protects single reads and writes; what the loop decided is acted on later. `tail`
counts runs that still have to write their last record. A cursor exists in
memory and persisted, and either write can be lost. `Lifecycle` follows the order
of `main` and `Service.Close` with the goroutines that may still be running;
`adblock` among its workers is the configuration sync of `service.go:644`, which no
wait group counts. A restart of the alert task resumes at the persisted cursor or,
when there is none to be read, at the present (`StartBlind`); `skipped` is history,
the rows it jumped over, and is part of no guard.

**Moderation, UrlFeedback, Sessions.** A transaction is a step; an audit is
several; the three statements of `PruneURLFeedback` are one step, as they only take
rows away. A cookie is kept for ever by its client; the row revokes it. A route
has the label `routes.go` gives it: any session, administrators for changes,
administrators. A logout is admitted like any request and revokes the row in a
second step, between which the store may go away, the claims expire or another
logout pass. The static API key, which is not a session, is left out.

## 3. Runs

A run is a suite: the modules named share no state, so the variable `part`,
chosen at the start and never changed, says which of them a behaviour exercises.
This keeps one run per question asked of a region of the system, and the state
spaces add up and do not multiply.

| Run | Parts | Shows |
|---|---|---|
| `dns` | the response cache alone; calls of the resolver; arrivals | map and list agree, lifetimes are bounded, the cache is a bounded map; nothing blocked is answered, one refresh per key, answers match questions; admission is bounded |
| `analysis` | a changing feed; a queue with several workers; a changing configuration | verdicts are as new as their feed tag, marks are exact |
| `progress` | DNS calls; enrichment with Close; switches; lists; warnings | calls return, slots and marks are freed, Close returns; lists are kept and become current, a warning that stays is enforced |
| `control` | allow list; configuration and mappings; upstreams; rules; exceptions | every process comes to run what is stored, revisions do not lie, the list stays populated, health marks recover; rules decide as the lists say |
| `agent` | engine; alerts; shutdown | nothing runs after Stop, alerts at least once but for what a blind restart jumps over, the store is closed after all its users but one; due tasks run, backlogs drain, shutdown ends |
| `records` | feed sync; parsing; moderation; audit walk; ring; labels; sessions | the live feed survives, listed names stay protected under settings that fit, decisions, labels and logouts stand |
| `edge` | limiter; identity; policy; outbound; brands; warnings | what a query meets is decided for the right client, by the right row, within the stated bounds, and a warning blocks only while it is trusted |
| `stale_outage` (violated) | `ServesStale` | the lookup deletes what the outage needs |
| `stale_unchecked` (violated) | `StaleAnswerChecked` | stale answers skip the CNAME walk |
| `newer_evaluation` (violated) | `NewerEvaluationKept` | the recency guard cannot see unstamped entries |
| `hit_config` (violated) | `HitConfigCurrent` | an old verdict under a new revision |
| `alert_backlog` (violated) | `NothingSkipped` | a restart without a readable cursor jumps over rows |

The five violated properties state what a document or a comment of the
repository says; `PROJECT.json` quotes each line in its finding and the
counterexample is the run's output.

**Bounds.** They are the least with which the cases happen.
*Dns*: three keys for two places, TTLs of 2 and 9 and a SOA minimum of 1 against
the cap 3, so capping, SOA limits, expiry and eviction happen within the clock's
bound; two clients and two calls, the least with which one client's answer
reaches another; the upstream may answer another question; three calls arrive
where two are admitted. *Analysis*: one feed
write and bump between any two steps of two evaluations; a queue of one place
for two domains; one change of configuration. *Progress*: a refused call, a chain over the CNAME limit,
an answer that expires; two evaluations of one domain and a worker, where the second
starts when the first comes to its job and reads fail once Redis is closed (what they
read decides no wait; `analysis` has all of it); two sources, two versions and two
faults with fixed switches for what must never happen to lists, one source and one
change of switches for what must eventually; one domain that two warning pages may
come to name. *Control*: four loaders, lists that shrink below the
floor and one with a public suffix, two imports; two writers of configuration and mappings; two
endpoints with two callers; three rule lines over three nested names; two
exceptions. *Agent*: two tasks with different intervals, a
trigger queue of one; three events in pages of two with one page a cycle, two
channels, two faults; two requests and a telemetry buffer of one. *Records*: two
writers of overlapping sources, batches of one, churn lifetimes of 0 (off), 1
(refused) and 2 intervals, one fault; three lines over two hosts; two names, one
below the other; pages of two over three names; a ring of two for three events,
two keys. *Edge*: four clients in a table of three; headers of up to two forged
hops and two proxies (a hop may be a loopback address, as a client may write it), networks of both families and an IPv4 network stored by an
earlier release; a client mapped by address or by network, one edit and one fault during a
request; one change of DNS records; two processes, one brand edit (at time zero, as a later one leaves no list time to
outlive its copies), four units of time; two warning pages that name one domain, one of them perhaps unclearly, and a
second domain, for a memory of one report, with one fault, restarts and changes of
the configuration. Sessions have two units of time: a logout, an outage and an expiry
fit. The violated runs `stale_*` and those on verdicts use the modules of `dns` and
`analysis` without their division into parts (`WholeSpec`); `alert_backlog` is the instance of
`agent` with another property.
Symmetry is used in `dns` and `analysis`, which check no liveness; the parts of
both are restrictions of one instance that treat the permuted values alike.
Deadlock is checked for `dns`; the other suites stop when their bounded supply of
requests, changes or time is used up, so there it is not.
In `dns` the clock stands still during calls; answers that expire between the
steps of a call are in `progress`.

**Fairness.** Weak fairness of steps a goroutine takes by itself once started:
calls, refreshes, requests, loads, handlers, syncs (all run under timeouts), of
tickers that never stop (reconciler, prober, list interval, the engine's call of
the alert task) and of restarts by the service manager. Strong fairness where a
Go `select` picks at random among ready cases: the worker's exit, the three cases of
the engine's loop; and of starting an OSINT lookup, since lookups of one domain
run beside each other. Arrivals, operators, messages, faults, crashes, expiry of
analysis entries and publishers are never assumed to act; reports in memory and
in Redis do expire, as the clock goes on. Faults are bounded by a constant, which is
the usual "once failures stop". In suites some conjuncts are shared by parts, as
`WF(A \/ B)` with A of one part and B of another: a behaviour stays in its part,
so each conjunct is about the one that runs.

**Mutants.** Every property has a mutant in `PROJECT.json`: an operator beside the
one it replaces, marked `\* Mutant`, that changes one guard, order or reset the
way a slip in that code would, and under which TLC finds the property violated.

## 4. Proofs

Every theorem holds for all values of the constants that the named assumptions
allow. Those of a component that a run EXTENDS are ASSUMEd in its module; those of
a component that is an instance (`L!LimiterAssumption`) are hypotheses of its
theorems. TLC evaluates both in a passing run, the second in `PartAssumptions` of the MC
module. Bounds on edits, faults, versions and time are constants as well, so they
are arbitrary. What the assumptions say:

- sizes: `Key`, `Call`, the feed's `Domain` and the requests of a process
  (`LifecycleAssumption`) are finite; capacities, page sizes and limits are positive
  (`CacheAssumption`, `DeliveryAssumption`, `AuditAssumption`, `FeedbackAssumption`,
  `ReportAssumption`; the parser's cap may be any integer, since zero and less mean
  none: `ParseAssumption`); of the feed's windows and intervals nothing is assumed
  that start-up does not check (`FeedAssumption`); lifetimes are natural numbers (`LifetimeAssumption`,
  `SessionAssumption`, `ModerationAssumption`). A limiter counts at least two hits
  (`LimiterAssumption`: a key is seen once or more often), and its cap may be zero or
  less, which means none;
- words: sentinels and reserved words lie outside the types ("any" is no
  category, `ExceptionAssumption`; a host is no source, `ReportAssumption`);
- one importer of the allow list (`WhitelistAssumption`: the download task is one
  task of one engine, and an engine never runs a task twice, which `StoppingIsFinal`
  proves);
- every top-level label is a public suffix (`PolicyAssumption`: the list's
  prevailing rule is `*`), and the parents of a name are names, which the walks of
  the trie and of the exceptions pass (`TrieAssumption`, `ExceptionAssumption`);
- clients are neither trusted proxies nor on this host, and proxies are not on
  this host either; networks are bits of a family, and those stored by an earlier
  release are finitely many and none lies under the prefix of mapped addresses
  (`IdentityAssumption`: `String` prints a mapped network in its IPv4 form,
  `store/groups.go:374-382`).

**Response cache and resolver.**

- `CacheCorrect`: `CacheSpec => [](CacheTypeOK /\ ListMatchesMap /\ LifetimeBounded)`.
  The conjunction (`CacheInv`) is inductive. The work is in the list: removing the
  one occurrence of a key, or moving it to the front, keeps a sequence free of
  duplicates and changes its set of elements as the map changes; the last element
  dropped by an eviction is a key the map holds. The lifetime facts rest on the
  minimum of a finite set of TTLs.
- `CacheImplementsPromise`: `CacheSpec => ImplementsBoundedCache`. Each action
  maps to a step of the bounded map or to a stutter; the eviction case needs
  that the list is duplicate-free, so its length is the number of keys held.
- `ResolverCorrect`: types, `AdmissionBound`, `SingleFlight`, `AnswersMatch`
  and `NoBlockedNameAnswered`; `AdmissionIsBounded`, `RefreshIsSingleFlight` and
  `AnswersAreMatched` state the middle three on their own. None is inductive alone. `ResolverInv`
  adds, per location of a call, what it knows (`CallOK`): the message it holds
  answers its question; everything allowed *now* is in `cleared`, so a passed
  check puts the name there; the first `checked` targets are in `cleared`, and at
  `store` or after an answer these are all. `TasksOK` says a goroutine about to
  store holds a validated reply. Admission: the counter is the cardinality of
  `Active`, and a call is admitted only if the counter after its add, hence
  `Admitted`, is within the limit.
- `ResolverUsesCache`: `Spec => CacheSpec`. On the cache's variables the
  composed system is a behaviour of the cache, so the two cache theorems hold in
  it (`ResolverCacheCorrect`).

**Analysis cache.** `AnalysisCorrect`: `Spec => [](TypeOK /\ InFlightExact /\
FeedNeverOlder)`, and `MarksAreExact` for the marks alone.
`FeedNeverOlder` is not inductive: `DateInv` carries it through requests between
lookup and write, queued jobs and workers, using that revisions only grow and
that a revision is bumped after the contents it stands for were written.
`InFlightExact` needs the type invariant (a busy worker has a job) and is proved
per holder: request, queue position or worker.

**Allow list.** `WhitelistTypes`; `RevisionsTellTheSet`: `RevInv` says that no
revision published or remembered is ahead of the store's, and that the rows a
loader is about to publish are the table's if they were read under the present
revision: rows change only together with the revision. `PopulatedIndexStays` (an
action property): `FloorInv` says that stored copies are nonempty sets of safe
names (`CopiesKept`) and, with a floor, that a table found empty was never filled:
nothing was copied, published or read from it (`NeverEmptied`).

**Agent engine.** `StoppingIsFinal`: `EngineInv` ties the loop's location, the
number of runs of a task, its state and the runs that still write their record to
how far Stop has come. The trigger queue needs no type: what `SelectSeq` returns
is out of the provers' reach, and nothing depends on it.

**Feed.** `FeedTypes`; `FeedSurvives` (an action property): `StagedToday` says that
what a running sync has staged expires later than today, so a renamed set is not
a dead one. `ListedAreProtected`: `ListedInv` says, in merge mode, that what a
running sync has written holds its full window (`Written`) and that what a source
listed at its last success holds the window of that day, or the window is over
(`Delivered`); a sweep takes neither earlier. What follows from it depends on
settings the code does not relate, and the property names the relation as a
condition: `CheckCoversCycles`, that the interval is within the base window and
within the one the churn window was checked against, for names to outlive a cycle;
`WarnsInTime`, that a source turns stale before the shortest window ends, for a
status of ok to mean protected. Section 5 says what happens without the first.

**Policy.** `PolicyTypes`: mappings name groups there are, one row of an owner for
a name. `PrecedenceIsSound`: `Spec => []PolicySound`. First, that the walk visits
exactly the names that cover the one asked for (`CoversIff`, `VisitedIff`): the
floor is one label below the longest public suffix, which exists as the largest of
a bounded set. Then `PolicyInv`: groups that were gone stay gone during a request
(`Burial`); while nothing moved, the request is under the mapped group with its
settings and sees the tables it met (`Calm`); unless a lookup failed, no row that
stood throughout lies below the walk, and the row returned wins over all of them
(`Walk`); a decision names what it rests on (`Grounds`). The order among rows is
strict, so the reference's choice is unique.

**Adblock.** `ListsAreKept`: `Spec => ListsKept`, one invariant and two action
properties. `ListsInv` says that the cached body of a source is the newest version
the process knows of it, in force, in any file or gathered so far (`BodyNewest`);
that a body on its way to the disk is newer than all of those (`BodyArrives`); and
that a rebuild gathers nothing older than what is in force, and began with no
rules if it may fall back to the file of all rules (`GathersForward`).

**Configuration.** `MappingsFollowRevision`: an index that carries the store's
revision holds the store's rows and names no group that is gone. It is what
`FollowsStore` presupposes: a reader compares revisions only. `ReloadInv` says how
far a routine that reads may lag (`ReadInOrder`: rows read under the present
revision are the present rows, as revision and rows change together) and the same
of what is published (`IndexInOrder`).

**Lists compiled.** `LiftsAreExact`: the index is `Build` of the file accepted last
(`ExceptionInv`). The order in which buckets are asked is the order of closeness
(`Bucket`), an identifier stands for one entry and a selector occurs once, so the
first bucket with a hit holds the closest entry and no other. `RulesAreDecided`:
every slot of the trie holds the rule of the first line that wanted it (`Filed`, for
the staging trie and for the one in force; a merge keeps it because the slots are
independent). A walk never ends before a rule on its way, the deepest rule is the
line that beats the others, and reading the cache back changes nothing but origins.

**End of the process.** `StoreIsClosedLast`: `CloseInv` says that the wait group
counts the prunes that run, that a request prunes only after its telemetry, and,
phase by phase, that what a stage waited for is gone and does not come back. The
adblock configuration sync is waited for by none, so the theorem excepts it
(section 5).

**Alerts and the audit walk.** `AlertsAreToldAtLeastOnce`: the property is in
`AlertInv`, with the log ordered by time and id, the cursors behind what is logged
and, of a page on its way, that it is the first rows behind the cursor and that
the channels done have them (`PageInFlight`); only when all have may the cursor
pass. The exception is the code's: rows recorded before a restart that found no
cursor to resume at (`skipped`); `alert_backlog` shows one. `CursorPassesAudited`: `UnderWay` says of a cycle that its page
is the first names behind the cursor and that those done were audited for its
window; `PassedAt` says what lies before the cursor, in memory and persisted, was.

**Decisions.** `DecisionsAreKept` (three action properties) needs that ids are handed
out once (`Numbered`). `LogoutStands`: the row of a session that logged out is
revoked or gone, and neither turns back; a cookie without a row is not admitted; on
routes not open to any session a change needs an administrator.
`LabelsAreKept`: in memory, index and ring describe the same events and the next
slot is the oldest (`RingInv`); durable, one row for an event under a key
(`RowsInv`), so that a row found is the row labelled.

**Feed plans.** `PlansMatchFeeds`: `ParseInv` says what the lines read so far put into
the set of names held under the cap (`HeldExact`) and what the plan remembers of
each (`PlanExact`), in terms of the set of lines and not of their order.

**What a query meets.** `TableIsSound` and `EvictionIsFair`: in `LimiterInv` the two
lists hold every key of the table once, and in the list that what its last request
left calls for (`Filed`); the counter is the number of keys seen once; what a key was granted and
what it has left are within burst and refill (`Allowed`); the lists are in order
of last use (`Recent`), which is why a sweep may stop at the first key in use.
`ClientsAreIdentified`: each proxy appends the address it saw, so the hops from the
right are trusted up to the client's (`Chained`); the index is sorted, so the first
network that holds an address is the narrowest (`IndexExact`). `RequestsAreConfined`:
every address about to be dialled was checked, and every URL of the chain may be
visited (`MayVisit`). `ListsAreBounded`: lists carry the day the rows last had them (`Dated`), and
each copy, in Redis, in a process or in the hands of a call, is younger than the
lifetime it is given (`Copies`, `Carried`); a blind evaluation, whose list has any age,
hands it to the cached result only, which ends with its own lifetime. `WarningsAreGrounded`: every report, kept
anywhere, is grounded in the sources and hosts of the configuration it is filed
under (`Grounded`); since these are the key, a reader under another configuration does
not find it.

What the proofs changed in the models. A sync stages under a fresh key
(`feed/sync.go:294`); the model reused the staging set of a sync that had died,
and `StagedToday` was not inductive. The reference of `Policy` took any public
suffix between two names, also of other names, where the walk looks at those of
the name asked for; with nested public suffixes the two differ. A configuration
without adblock sources had no rebuild. A limiter without a cap (zero or less) was
left out; the index of networks was not sorted when a process started with rows; and
warning pages were blank at the start. Recursions and selections from
sequences were restated where the provers see no induction: a page or a backlog is
a set of ids, the hops behind a client and the rules on a walk are sets of
positions, an eviction is the keys left in their order (`Lists!Keep`), and a merge of
tries is done slot by slot. The definitions say the same, and the mutants and runs
still hold.

Only model-checked: every liveness property (`Converges`, the eventual part of
`FollowsStore`, `MarksHeal`, `WorkEnds`, `EngineProgress`, `BacklogDrains`, `ShutdownEnds`,
`ListsCurrent`, `WarningEnforced`: fairness and leads-to are outside the prover's
reach); the order of endpoints in `UpstreamPool`, which matters to its liveness
only; and the violated properties, which have counterexamples.

## 5. What modelling brought up besides the findings

None of these is a violated run; each follows from the definitions named. Of the
first four the modules state the claim of the document or comment as a definition:
named as the invariant of the run's configuration, TLC finds it violated.

- `cmd/core-api/main.go:98`: the churn window is compared with
  `SAFE_ZONE_FEED_SYNC_INTERVAL_SECONDS`, but the agent's feed task runs every
  `SAFE_ZONE_AGENT_FEED_INTERVAL_SECONDS` (`main.go:229`), which is compared with
  nothing. With three days there and a window of two (in `records`: `Interval` 3,
  `CheckedInterval` 1, `TTL` 4, `MaxTime` 3) names a source still lists lapse between
  two cycles, the hole that the comment at `main.go:95-97` says the guard closes. The
  claim is `ListedStaysLive`; `ListedProtected` has it under `CheckCoversCycles`.
- `api/server/routes.go:80`: `POST /v1/url-ml/feedback` is open to any session and its
  handler looks at no role, so a guest writes labels;
  `docs/specs/guest-readonly-dashboard/requirements.md:65` promises a 403 for every
  guest mutation. The claim is `GuestsChangeNothing` (`records`).
- `risk/service.go:644`: `runAdblockConfigSync` and the sync it starts are waited for by
  nothing; `Close` ("stops background work", `service.go:650`) closes the store while one
  of them may be about to read it under `context.Background()`. The claim is
  `CloseStopsWork` (`agent`); `StoreOutlivesUsers` excepts this one worker.
- `store/brand.go:61-64`: a list refilled into Redis after an edit gets a second whole
  lifetime when it is copied into memory;
  `docs/architecture/cache-invalidation.md:42` gives one as the worst case, in processes
  other than the writer. The claim is `WithinOneLifetime` (`edge`); `ListBounded` says two.

- `store/groups.go:836-846`: the comment says address families are compared
  first. `Mask.Size` returns the prefix length first, so the code compares prefix
  lengths and breaks ties by family (`ClientIdentity!Ahead`). Networks are stored in
  their IPv4 form, also by releases before the normalization (`String` prints a mapped
  network so), and `ClientIdentified` holds for everything a store can contain.
- `risk/osint_ai.go:115-118`: when the brand rows cannot be read, an evaluation goes
  by the list the program ships with, however long ago an operator replaced it, and
  its result is cached like any other. `ListBounded` bounds that by the lifetime of
  the result.
- `feedsync/settings.go:137-143`: the one-shot feed tool compares the
  churn window with no interval; how often it runs is the operator's choice
  (`CheckedInterval` 0).
- `api/handlers/settings_validate.go:132` says that turning adblock on triggers a
  rebuild. `SetAdblockEnabled` only stores the switch; the layer enforces what was
  compiled last until the next interval or the next rebuild asked for otherwise.
- `risk/analysis_pipeline.go:341-343` promises one enrichment lookup per episode.
  A hit that read an entry before a worker replaced it may enqueue after the
  worker cleared the mark: `AnalysisCache!OneLookup` does not hold. The cost is a
  second lookup with the same answer.
- `feed/sync.go:354`: a merge sync that fails after some batches leaves their
  members live without a bump, and the next sync, finding nothing new, does not
  bump either. Verdicts cached before are served until their own TTL runs out.
- `agent/audit.go`: when no cycle ran for longer than `Lookback`, the next window
  starts from now, and what was seen only in between is not audited
  (`AuditCursor!Window`). `PassedWasAudited` is about the windows that were opened.
- `ratelimit/limiter.go:203`: eviction takes throttled keys last, as `RightKeysGo`
  says. "Throttled" is what the key's last request left it, so a blocked key whose
  tokens came back is still taken after an active one.
- `risk/adblock_shadow.go:33`: the count of content blocks that an exact scope would
  lift looks at the rule that fired only; a wildcard or per-source rule above it
  may still block, so the count is an upper bound.

## 6. Not modelled

Formatting, logs, metrics and wire encoding; the choice of which queries and
responses are cacheable (a Boolean here); the scores of the lexical analyser, the
domain and URL models and the AI providers (numeric computation over fixed
tables, reduced to the classes that control depends on); limits and framing of
the DoH and DoT servers; WHOIS; schema migrations, SQL as text; panics; the
offline tools and evaluations under `src/tools`, which are batch programs without
shared state. SQLite transactions, Redis commands and WATCH/EXEC are atomic steps
that may fail. `PROJECT.json` gives the reason for each part left out.

## 7. Plan

The modules are written to be proved about: constants with named assumptions,
one action per operation, invariants as conjunctions of named parts, no RECURSIVE
operator. Every safety property of the passing runs has its theorem. Next, in this
order:

1. `AnalysisCache` with `Resolver`: that a returned verdict's configuration is the
   one read at its start, where it is, to delimit the finding `hit_config`.
2. `ResponseCache`: the stale window, as a second refinement of `BoundedCache`.
3. `UpstreamPool`: which endpoint a request may fail over to, as a safety property.
