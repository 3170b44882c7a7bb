-------------------------------- MODULE MCEdge --------------------------------
(***************************************************************************)
(* What a query meets on its way through a process, for TLC: the policy    *)
(* and what stands around it.  These parts share no state, so a behaviour  *)
(* exercises one of them.                                                  *)
(***************************************************************************)
EXTENDS Policy, EdgeParts

VARIABLE part

limiterVars == <<buckets, active, blocked, oneShot, granted, limiterClock>>
identityVars == <<trusted, ips, cidrs, cidrCache, msg, ip, group>>
outboundVars == <<dns, fetch, dialled, flips>>
brandVars == <<rows, snapshot, shared, revision, entry, task, edit, served, asOf, brandClock,
               edits, brandFaults>>
warningVars == <<config, page, reports, redis, lookup, acted, published, lookupFaults>>
suiteVars == <<part, vars, limiterVars, identityVars, outboundVars, brandVars, warningVars>>

Net(f, p) == [family |-> f, prefix |-> p]

MCMappedPrefix == <<0, 0>>
MCClient == {<<0, 0>>, <<0, 1>>}
MCProxy == {<<1, 0>>}
MCLoopback == {<<1, 1>>}
MCLegacy == {Net(4, <<0>>)}
MCNetwork == {Net(4, <<>>), Net(4, <<0>>), Net(4, <<0, 0>>),
              Net(6, <<0, 0, 0>>), Net(6, <<0, 0>>), Net(6, <<0>>)}

MCName == {<<"com">>, <<"com", "x">>, <<"com", "x", "a">>}
MCPublicSuffix == {<<"com">>}

MCSetting ==
    {[malware |-> FALSE, phishing |-> TRUE, categories |-> {"adult"}],
     [malware |-> TRUE, phishing |-> FALSE, categories |-> {}]}

Assessment(v, s, p, c) == [verdict |-> v, score |-> s, phishing |-> p, category |-> c]

MCResult ==
    {Assessment("malicious", 100, FALSE, "none"), Assessment("suspicious", 40, TRUE, "none"),
     Assessment("safe", 0, FALSE, "adult")}

MCContent == [n \in MCName |-> IF Len(n) = 3 THEN "excepted" ELSE "rule"]

MCHostOf == [s \in Source |-> IF s = "s1" THEN "news" ELSE "other"]

Config(sources, hosts) == [sources |-> sources, trusted |-> hosts]
MCConfigs == <<Config(<<"s1", "s2">>, {"news", "other"}), Config(<<"s2">>, {"other"})>>

(* Both pages name d1, one of them perhaps in words that leave its role     *)
(* open, and one names d2.                                                  *)
MCPages ==
    {[s1 |-> [d1 |-> role, d2 |-> "none"], s2 |-> [d1 |-> "attacker", d2 |-> "attacker"]] :
        role \in {"attacker", "unclear"}}

ASSUME PartAssumptions ==
    /\ L!LimiterAssumption /\ I!IdentityAssumption /\ B!LifetimeAssumption
    /\ W!ReportAssumption

(* Without a store there are no rows and no mappings; with one group, the   *)
(* client is mapped one way or the other; content rules and the whitelist   *)
(* vary where the order of precedence makes a difference.                   *)
PolicyInit ==
    /\ Init
    /\ semantics = "legacy" => adblock
    /\ ~stored => overrides = {} /\ ipRow = "none" /\ cidrRow = "none"
    /\ ipRow = "none" \/ cidrRow = "none"
    /\ whitelist \in {{}, {<<"com", "x">>}}
    /\ part # "policy" => /\ ~stored /\ adblock /\ whitelist = {} /\ semantics = "legacy"
                          /\ \A g \in DOMAIN groups : groups[g].malware

SuiteInit ==
    /\ part \in {"limiter", "identity", "policy", "outbound", "brands", "warnings"}
    /\ L!Init /\ B!Init
    /\ I!Init /\ (part # "identity" => trusted = {<<1, 1>>} /\ cidrs = <<>>)
    /\ O!Init /\ (part # "outbound" => dns = [n \in DOMAIN dns |-> <<>>])
    /\ W!Init /\ (IF part = "warnings"
                   THEN page \in MCPages ELSE page = [s \in Source |-> [d \in Domain |-> "none"]])
    /\ PolicyInit

(* A list edited later could not outlive the lifetimes it has before the    *)
(* clock ends.                                                              *)
EarlyEdit == edits' # edits => brandClock = 0

SuiteNext ==
    \/ /\ part = "limiter" /\ L!Next
       /\ UNCHANGED <<part, identityVars, vars, outboundVars, brandVars, warningVars>>
    \/ /\ part = "identity" /\ I!Next
       /\ UNCHANGED <<part, limiterVars, vars, outboundVars, brandVars, warningVars>>
    \/ /\ part = "policy" /\ Next
       /\ UNCHANGED <<part, limiterVars, identityVars, outboundVars, brandVars, warningVars>>
    \/ /\ part = "outbound" /\ O!Next
       /\ UNCHANGED <<part, limiterVars, identityVars, vars, brandVars, warningVars>>
    \/ /\ part = "brands" /\ B!Next /\ EarlyEdit
       /\ UNCHANGED <<part, limiterVars, identityVars, vars, outboundVars, warningVars>>
    \/ /\ part = "warnings" /\ W!Next
       /\ UNCHANGED <<part, limiterVars, identityVars, vars, outboundVars, brandVars>>

SuiteSpec == SuiteInit /\ [][SuiteNext]_suiteVars
=============================================================================
