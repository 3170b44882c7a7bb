--------------------------------- MODULE Osint ---------------------------------
(***************************************************************************)
(* Public warnings about a domain.  The API reads the configured pages one *)
(* by one, within a deadline, and keeps the report in memory and in Redis; *)
(* the resolver only looks at what is kept.  Pages change, sources and     *)
(* Redis fail, reports expire, and a restart may change the sources and    *)
(* the domains that are trusted.  What a page says about a domain is       *)
(* abstracted to its role there; confidences are in thousandths.           *)
(***************************************************************************)
EXTENDS Integers, Sequences, SequencesExt, FiniteSets, Lists

CONSTANTS
    Domain,
    Source,         \* URLs of warning pages
    HostOf,         \* source -> its host
    Official,       \* hosts of the government and the police
    Configs,        \* sequence of [sources, trusted]: the settings of each start
    MaxReports,     \* maxMemoryReports
    MaxPublished,   \* bound: changes of pages
    MaxFaults       \* bound: sources, Redis calls and classifications that fail

(* There is room for a report, and a host name is no URL.                   *)
ReportAssumption ==
    /\ MaxReports \in Nat \ {0}
    /\ Configs # <<>> /\ Configs \in Seq(Range(Configs))
    /\ \A i \in DOMAIN Configs : /\ Range(Configs[i].sources) \subseteq Source
                                /\ Configs[i].trusted \cap Source = {}
    /\ \A s \in Source : HostOf[s] \notin Source

Role == {"none", "attacker", "victim", "unclear"}

StrongEvidence == 850

VARIABLES
    config,         \* which of Configs the process was started with
    page,           \* source -> domain -> its role on the page
    memory,         \* reports in memory, oldest check first
    redis,          \* <<key, domain>> -> report
    task,           \* the lookup under way in the API
    served,         \* "api", "resolver" -> domain -> the report last acted on
    published, faults

vars == <<config, page, memory, redis, task, served, published, faults>>

Cfg == Configs[config]

(* The sources that are read and lie on a trusted host.                     *)
Trusted == {s \in Range(Cfg.sources) : HostOf[s] \in Cfg.trusted}

Idle == [at |-> "idle"]
Nothing == [evidence |-> {}, block |-> FALSE]

Init ==
    /\ config = 1
    /\ page \in [Source -> [Domain -> Role]]
    /\ memory = <<>>
    /\ redis = <<>>
    /\ task = Idle
    /\ served = [p \in {"api", "resolver"} |-> [d \in Domain |-> Nothing]]
    /\ published = 0 /\ faults = 0

-----------------------------------------------------------------------------
(* Mutant: the key leaves the configuration out.                            *)
NoRevision(c) == {}

(* sourceRevision: a fingerprint of the sources and the trusted domains.    *)
SourceRevision(c) == Range(Configs[c].sources) \cup Configs[c].trusted

Key(d) == <<SourceRevision(config), d>>

HasStrongWarning(evidence) == \E e \in evidence : e.confidence >= StrongEvidence

SourceTrust(s) == IF HostOf[s] \in Official THEN 950 ELSE 880

Confidence(s, role) == IF role = "unclear" THEN (SourceTrust(s) * 6) \div 10 ELSE SourceTrust(s)

(* Cached: the shared copy first, then this process's own.                  *)
InRedis(d) == Key(d) \in DOMAIN redis /\ redis[Key(d)].expires # "past"

InMemory(d) == \E i \in DOMAIN memory : memory[i].domain = d /\ memory[i].expires # "past"

Remembered(d) == CHOOSE i \in DOMAIN memory : memory[i].domain = d

Act(p, d, r) ==
    served' = [served EXCEPT ![p][d] = [evidence |-> r.evidence, block |-> r.block]]

(* The resolver uses evidence that is kept and never fetches any.  It has   *)
(* no reports of its own in memory.                                         *)
ResolverReads(d) ==
    /\ \/ /\ Act("resolver", d, IF InRedis(d) THEN redis[Key(d)] ELSE Nothing)
          /\ UNCHANGED faults
       \/ /\ faults < MaxFaults /\ faults' = faults + 1
          /\ Act("resolver", d, Nothing)
    /\ UNCHANGED <<config, page, memory, redis, task, published>>

(* Lookup: a report that is kept answers, unless the caller insists on a    *)
(* new one.                                                                 *)
Hit(d) ==
    /\ task.at = "idle"
    /\ \/ InRedis(d) /\ Act("api", d, redis[Key(d)]) /\ UNCHANGED faults
       \/ /\ InMemory(d)
          /\ \/ ~InRedis(d) /\ UNCHANGED faults
             \/ InRedis(d) /\ faults < MaxFaults /\ faults' = faults + 1
          /\ Act("api", d, memory[Remembered(d)])
    /\ UNCHANGED <<config, page, memory, redis, task, published>>

Begin(d, force) ==
    /\ task.at = "idle"
    /\ force \/ (~InRedis(d) /\ ~InMemory(d))
    /\ task' = [at |-> "fetch", domain |-> d, next |-> 1, evidence |-> {}]
    /\ UNCHANGED <<config, page, memory, redis, served, published, faults>>

(* fetchSource and classifyDomainRole: a page that calls the domain a       *)
(* victim is no evidence against it; one that leaves its role open is put   *)
(* to the classifier, whose failure leaves it open.                         *)
Classified(role) == IF role = "unclear" THEN {"attacker", "victim", "unclear"} ELSE {role}

Fetch ==
    /\ task.at = "fetch" /\ task.next <= Len(Cfg.sources)
    /\ LET s == Cfg.sources[task.next]
       IN  \E role \in Classified(page[s][task.domain]) :
            task' = [task EXCEPT
                !.next = @ + 1,
                !.evidence =
                    IF s \in Trusted /\ role \in {"attacker", "unclear"}
                    THEN task.evidence \cup {[source |-> s, confidence |-> Confidence(s, role)]}
                    ELSE task.evidence]
    /\ UNCHANGED <<config, page, memory, redis, served, published, faults>>

FetchFails ==
    /\ task.at = "fetch" /\ task.next <= Len(Cfg.sources)
    /\ faults < MaxFaults /\ faults' = faults + 1
    /\ task' = [task EXCEPT !.next = @ + 1]
    /\ UNCHANGED <<config, page, memory, redis, served, published>>

(* Mutant: the report of a lookup that ran out of time has no expiry.       *)
NeverExpires(t) == [domain |-> t.domain, evidence |-> t.evidence, block |-> FALSE, expires |-> "never"]

(* The deadline passes between two sources: what was found so far is kept,  *)
(* and whether it blocks was never worked out.                              *)
TimedOut(t) == [domain |-> t.domain, evidence |-> t.evidence, block |-> FALSE, expires |-> "due"]

Complete(t) ==
    [domain |-> t.domain, evidence |-> t.evidence,
     block |-> HasStrongWarning(t.evidence), expires |-> "due"]

(* evictForInsertLocked: a full map gives up what has expired and, if that  *)
(* is nothing, its oldest report, also when the domain is in it already.    *)
Evicted ==
    IF Len(memory) < MaxReports THEN memory
    ELSE LET live == Keep(memory, {i \in DOMAIN memory : memory[i].expires # "past"})
         IN  IF Len(live) < MaxReports THEN live ELSE Tail(live)

Remember(r) ==
    /\ memory' = Append(Keep(Evicted, {i \in DOMAIN Evicted : Evicted[i].domain # r.domain}), r)
    /\ task' = [at |-> "store", report |-> r]

Timeout ==
    /\ task.at = "fetch" /\ task.next <= Len(Cfg.sources)
    /\ faults < MaxFaults /\ faults' = faults + 1
    /\ Remember(TimedOut(task))
    /\ UNCHANGED <<config, page, redis, served, published>>

Finish ==
    /\ task.at = "fetch" /\ task.next > Len(Cfg.sources)
    /\ Remember(Complete(task))
    /\ UNCHANGED <<config, page, redis, served, published, faults>>

(* The copy for the other processes, which may be refused.                  *)
Share ==
    /\ task.at = "store"
    /\ \/ /\ redis' = [k \in DOMAIN redis \cup {Key(task.report.domain)} |->
                          IF k = Key(task.report.domain) THEN task.report ELSE redis[k]]
          /\ UNCHANGED faults
       \/ faults < MaxFaults /\ faults' = faults + 1 /\ UNCHANGED redis
    /\ Act("api", task.report.domain, task.report)
    /\ task' = Idle
    /\ UNCHANGED <<config, page, memory, published>>

-----------------------------------------------------------------------------
(* The lifetime of a report ends, in one place or the other first.          *)
ExpireMemory ==
    /\ \E i \in DOMAIN memory :
        /\ memory[i].expires = "due"
        /\ memory' = [memory EXCEPT ![i].expires = "past"]
    /\ UNCHANGED <<config, page, redis, task, served, published, faults>>

ExpireRedis ==
    /\ \E k \in DOMAIN redis :
        /\ redis[k].expires = "due"
        /\ redis' = [redis EXCEPT ![k].expires = "past"]
    /\ UNCHANGED <<config, page, memory, task, served, published, faults>>

Publish ==
    /\ published < MaxPublished
    /\ published' = published + 1
    /\ \E s \in Source, d \in Domain, role \in Role : page' = [page EXCEPT ![s][d] = role]
    /\ UNCHANGED <<config, memory, redis, task, served, faults>>

Restart ==
    /\ config < Len(Configs)
    /\ config' = config + 1
    /\ memory' = <<>> /\ task' = Idle
    /\ served' = [p \in {"api", "resolver"} |-> [d \in Domain |-> Nothing]]
    /\ UNCHANGED <<page, redis, published, faults>>

Progress == Fetch \/ Finish \/ Share

Next ==
    \/ \E d \in Domain : ResolverReads(d) \/ Hit(d) \/ \E force \in BOOLEAN : Begin(d, force)
    \/ Fetch \/ FetchFails \/ Timeout \/ Finish \/ Share
    \/ ExpireMemory \/ ExpireRedis
    \/ Publish \/ Restart

Spec == Init /\ [][Next]_vars

-----------------------------------------------------------------------------
(* A block rests on a strong warning from a source that the running         *)
(* configuration reads and trusts, whichever process and configuration left *)
(* the report.                                                              *)
BlockGrounded ==
    \A p \in {"api", "resolver"}, d \in Domain :
        served[p][d].block =>
            \E e \in served[p][d].evidence :
                /\ e.confidence >= StrongEvidence
                /\ e.source \in Trusted

(* The map of reports in memory stays within its bound and holds at most    *)
(* one report of a domain.                                                  *)
MemoryBounded ==
    /\ Len(memory) <= MaxReports
    /\ \A i, j \in DOMAIN memory : memory[i].domain = memory[j].domain => i = j

(* What is kept of the reports is bounded, and what is done about them is   *)
(* grounded.                                                                *)
ReportsSound == BlockGrounded /\ MemoryBounded

Warned(d) == \E s \in Trusted : page[s][d] = "attacker"

(* A warning that stays published is enforced: however lookups ran out of   *)
(* time, sources failed, copies were lost or restarts came before, requests *)
(* for the domain meet the block again and again once faults end.           *)
WarningEnforced == \A d \in Domain : (<>[]Warned(d)) => []<>(served["api"][d].block)
=============================================================================
