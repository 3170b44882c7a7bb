------------------------------ MODULE MCControl ------------------------------
(***************************************************************************)
(* What a process follows while it serves, for TLC: the allow list, the    *)
(* configuration with the client mappings, the upstreams, and the content  *)
(* rules with their exceptions.  They share no state, so a behaviour       *)
(* exercises one of them.                                                  *)
(***************************************************************************)
EXTENDS Whitelist, ContentParts

CONSTANTS core, rec, sub, admin, imp, a, b, s, k0, k1, none

VARIABLES part,
    stored, groups, mappings, mapRevision, config, cidr, subscribed, mail, at, local,
    writes, reloadFaults,
    pool, reachable, call, probe, changes

reloadVars == <<stored, groups, mappings, mapRevision, config, cidr, subscribed, mail, at,
                local, writes, reloadFaults>>
poolVars == <<pool, reachable, call, probe, changes>>
ruleVars == <<compiled, staging, section, source, staged, offered>>
exceptionVars == <<snapshot, loaded>>
contentVars == <<ruleVars, exceptionVars>>
suiteVars == <<part, vars, reloadVars, poolVars, contentVars>>

MCNodeOf == [p \in Proc |-> core]
MCRoleOf ==
    [p \in Proc |-> CASE p = rec -> "reconcile" [] p = sub -> "subscribe"
                      [] p = admin -> "admin" [] p = imp -> "import"]
MCLists == {{a, b}, {b}, {s}}

MCName == {<<"com">>, <<"com", "x">>, <<"com", "x", "a">>}
MCPublicSuffix == {<<"com">>}
MCRuleSources ==
    << [id |-> "s1", category |-> "unknown", scope |-> "none"],
       [id |-> "s2", category |-> "ads", scope |-> "exact"] >>

ASSUME PartAssumptions == T!TrieAssumption /\ E!ExceptionAssumption

R == INSTANCE ConfigReload WITH
        Node <- {"core"}, Core <- "core", Config <- {k0, k1}, Default <- k0,
        Cidr <- {"c1"}, Group <- {"g1"}, Writer <- {"w1", "w2"}, None <- none,
        MaxWrites <- 2, MaxFaults <- 1, revision <- mapRevision, msgs <- mail,
        pc <- at, reg <- local, faults <- reloadFaults

U == INSTANCE UpstreamPool WITH
        Endpoints <- <<"u1", "u2">>, Caller <- {"c1", "c2"}, Latency <- {1, 2}, MaxChanges <- 2

SuiteInit ==
    /\ part \in {"whitelist", "reload", "upstream", "rules", "exceptions"}
    /\ Init /\ R!Init /\ U!Init /\ T!Init /\ E!Init
    /\ part # "whitelist" => minEntries = 0

(* A step of one part leaves the others alone.                              *)
AllowList(act) == part = "whitelist" /\ act /\ UNCHANGED <<part, reloadVars, poolVars, contentVars>>
Configured(act) == part = "reload" /\ act /\ UNCHANGED <<part, vars, poolVars, contentVars>>
Upstream(act) == part = "upstream" /\ act /\ UNCHANGED <<part, vars, reloadVars, contentVars>>
Rules(act) == part = "rules" /\ act /\ UNCHANGED <<part, vars, reloadVars, poolVars, exceptionVars>>
Exceptions(act) == part = "exceptions" /\ act /\ UNCHANGED <<part, vars, reloadVars, poolVars, ruleVars>>

SuiteNext ==
    \/ AllowList(Next) \/ Configured(R!Next) \/ Upstream(U!Next)
    \/ Rules(T!Next) \/ Exceptions(E!Next)

ReloadStep(p) ==
    R!Reload(p) \/ R!ApplyWritten(p) \/ R!AnnounceConfig(p) \/ R!AnnounceMappings(p)

(* Fairness of Whitelist and ConfigReload; the prober never stops, and      *)
(* every attempt of a call ends within its timeout.  A behaviour stays in   *)
(* its part, so the parts share the conjuncts: each is about the action of  *)
(* the part that runs.                                                      *)
SuiteFairness ==
    /\ \A p \in Proc : WF_suiteVars(AllowList(Load(p))) /\ WF_suiteVars(AllowList(Reconcile(p)))
    /\ WF_suiteVars(AllowList(Restart(core)) \/ Configured(R!Tick("core")) \/ Upstream(U!StartProbe))
    /\ \A p \in R!Routine : WF_suiteVars(Configured(ReloadStep(p)))
    /\ \A c \in {"c1", "c2"} : WF_suiteVars(Upstream(U!CallStep(c)))
    /\ WF_suiteVars(Upstream(U!Probe))

SuiteSpec == SuiteInit /\ [][SuiteNext]_suiteVars /\ SuiteFairness

(* ConfigReload!FollowsStore: every process comes to run what is stored,    *)
(* and never takes old mappings for the current ones.                       *)
FollowsStore == [](part = "reload" => R!RevisionTellsRows) /\ R!Converges

(* UpstreamPool!MarksHeal: the marks come to say what answers.              *)
MarksHeal == U!MarksHeal
=============================================================================
