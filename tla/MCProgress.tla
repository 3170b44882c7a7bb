------------------------------ MODULE MCProgress ------------------------------
(***************************************************************************)
(* What must go on, for TLC: the calls of the resolver, the background     *)
(* enrichment, the content lists with their switches and files, and the    *)
(* way of a public warning to its enforcement.  The lists are run in two   *)
(* sizes, one for what must eventually happen and a larger one for what    *)
(* must never.  The parts share no state, so a behaviour exercises one of  *)
(* them.                                                                   *)
(***************************************************************************)
EXTENDS Adblock

CONSTANTS r1, r2, w1, absent, NoEntry, NoResult, NoJob

VARIABLES part,
    config, page, reports, redis, lookup, served, published, lookupFaults,
    feedData, feedRev, pending, feedAt, revision, analysed, req, inFlight, queue, worker, clock,
    looked, closed, released,
    answers, lru, refreshing, seconds, step, query, msg, cacheHit, checked, reply, calls, refresher,
    blocked, cleared, hadStale

warningVars == <<config, page, reports, redis, lookup, served, published, lookupFaults>>
jobVars == <<feedData, feedRev, pending, feedAt, revision, analysed, req, inFlight, queue, worker,
             clock, looked, closed, released>>
dnsVars == <<answers, lru, refreshing, seconds, step, query, msg, cacheHit, checked, reply, calls,
             refresher, blocked, cleared, hadStale>>
suiteVars == <<part, vars, warningVars, jobVars, dnsVars>>

(* The configuration gives several sources, versions and faults; S has one  *)
(* source and switches that change.                                         *)
MCSources == <<"s1", "s2">>
MCDefaults == [enabled |-> "true", mode |-> "suffix", policy |-> "p0"]

S == INSTANCE Adblock WITH Sources <- <<"s1">>, MaxVersion <- 1, MaxChanges <- 1, MaxFaults <- 1

HostOfSource == [s1 |-> "h1", s2 |-> "h2"]

Config(sources, trusted) == [sources |-> sources, trusted |-> trusted]

(* One domain that two pages may come to name.                              *)
W == INSTANCE Osint WITH
        Domain <- {"d1"}, Source <- {"s1", "s2"}, HostOf <- HostOfSource, Official <- {"h1"},
        Configs <- <<Config(<<"s1", "s2">>, {"h1", "h2"}), Config(<<"s2">>, {"h2"})>>,
        MaxReports <- 1, MaxPublished <- 1, MaxFaults <- 1, memory <- reports, task <- lookup,
        faults <- lookupFaults

(* Two evaluations of one domain and one worker, and Close at any moment.   *)
J == INSTANCE AnalysisCache WITH
        Req <- {r1, r2}, Worker <- {w1}, Domain <- {"d1"}, QueueCap <- 1, FirstRev <- 0,
        MaxFeed <- 0, MaxConfig <- 0, MayClose <- TRUE, Content <- [v \in {0} |-> v],
        config <- revision, entry <- analysed

(* Two calls with room for one, one refresh, an answer that lives a second  *)
(* and one with a chain of targets over the limit.                          *)
D == INSTANCE Resolver WITH
        entry <- answers, now <- seconds, pc <- step, inflight <- calls, task <- refresher,
        Key <- {"ka"}, Question <- {"qa"}, Domain <- {"d0"}, KeyQuestion <- [ka |-> "qa"],
        QuestionName <- [qa |-> "d0"],
        Response <- {[question |-> "qa", cacheable |-> TRUE, negative |-> FALSE,
                      ttls |-> {1}, soa |-> {}, cnames |-> chain] :
                        chain \in {<<>>, <<"d0", "d0">>}},
        Call <- {"c1", "c2"}, Task <- {"f1"}, Client <- {"u1"}, MaxEntries <- 1, MaxTTL <- 300,
        StaleWindow <- 1, RefreshMinHits <- 1, LockWait <- 0, MaxTime <- 1, MaxInflight <- 1,
        MaxCNAMEChecks <- 1, None <- absent

ASSUME PartAssumptions == W!ReportAssumption /\ J!AnalysisAssumption

SuiteInit ==
    /\ part \in {"switches", "lists", "warnings", "enrichment", "dns"}
    /\ IF part = "switches" THEN S!Init ELSE Init
    /\ W!Init /\ page = [s \in {"s1", "s2"} |-> [d1 |-> "none"]]
    /\ J!Init
    /\ D!Init /\ (part # "dns" => blocked = {})

(* A step of one part leaves the others alone.                              *)
Switches(act) == part = "switches" /\ act /\ UNCHANGED <<part, warningVars, jobVars, dnsVars>>
Lists(act) == part = "lists" /\ act /\ UNCHANGED <<part, warningVars, jobVars, dnsVars>>
Warnings(act) == part = "warnings" /\ act /\ UNCHANGED <<part, vars, jobVars, dnsVars>>
Jobs(act) == part = "enrichment" /\ act /\ UNCHANGED <<part, vars, warningVars, dnsVars>>
Dns(act) == part = "dns" /\ act /\ UNCHANGED <<part, vars, warningVars, jobVars>>

(* Nothing changes the switches where there are several lists, and the      *)
(* refresh finds them as they are.                                          *)
SwitchesStay == UNCHANGED switchVars

(* A revision or a feed that cannot be read changes what a result is worth  *)
(* and not who waits for whom: the reads fail once Redis is closed.  Nor    *)
(* does an evaluation wait for anything before it comes to its job: the     *)
(* second starts when the first is there.                                   *)
ReadsWork ==
    released \/ \A r \in {r1, r2} : /\ req'[r].at # "start" => req'[r].known
                                  /\ req'[r].res # NoResult => ~req'[r].res.blind

SecondLater == req'[r1].at \in {"stamp", "enqueue", "send", "done"} \/ req'[r2].at = "start"

SuiteNext ==
    \/ Switches(S!Next)
    \/ Lists(Next /\ SwitchesStay)
    \/ Warnings(W!Next)
    \/ Jobs(J!Next /\ ReadsWork /\ SecondLater)
    \/ Dns(D!Next)

(* Fairness of Adblock, AnalysisCache and Resolver.  Reports expire with    *)
(* the clock; requests for the domain keep coming, are served when a report *)
(* is there, and a lookup goes on to its end.  Lookups of one domain run    *)
(* beside each other, so that one does not keep the next from starting for  *)
(* ever.  A behaviour stays in its part, so the parts share the conjuncts:  *)
(* each is about the action of the part that runs.                          *)
SuiteFairness ==
    /\ WF_suiteVars(Switches(S!RequestStep) \/ Warnings(W!Progress)
                    \/ Jobs(~J!At(r1, "start") /\ J!ReqStep(r1)) \/ Dns(D!CallStep("c1")))
    /\ WF_suiteVars(Switches(S!TickStep) \/ Warnings(W!ExpireMemory)
                    \/ Jobs(~J!At(r2, "start") /\ J!ReqStep(r2)) \/ Dns(D!CallStep("c2")))
    /\ WF_suiteVars(Switches(S!SyncStep) \/ Warnings(W!ExpireRedis)
                    \/ Jobs(J!WorkerStep(w1)) \/ Dns(D!TaskStep("f1")))
    /\ WF_suiteVars(Switches(S!Interval) \/ Warnings(W!Hit("d1")) \/ Jobs(J!CloseEnd))
    /\ SF_suiteVars(Warnings(W!Begin("d1", FALSE)) \/ Jobs(J!WorkerExit(w1)))

SuiteSpec == SuiteInit /\ [][SuiteNext]_suiteVars /\ SuiteFairness

(* Adblock!Settled: once changes and failures are over, current lists come  *)
(* to be enforced and stay so.                                              *)
ListsCurrent == <>[](part = "switches" => S!Settled)

(* Osint!WarningEnforced: a warning that stays published is enforced.       *)
WarningEnforced ==
    (<>[](part = "warnings" /\ W!Warned("d1"))) => []<>(served["api"]["d1"].block)

(* Resolver!CallsReturn and SlotsReleased, AnalysisCache!MarksCleared and   *)
(* CloseReturns: every call returns and frees the refresh slot it claimed,  *)
(* every mark in flight is cleared, and no job keeps Close waiting.         *)
WorkEnds == D!CallsReturn /\ D!SlotsReleased /\ J!MarksCleared /\ J!CloseReturns
=============================================================================
