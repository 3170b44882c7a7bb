------------------------------ MODULE Moderation ------------------------------
(***************************************************************************)
(* What the agent and the operators decide about a name: the audit of one  *)
(* domain, the queue of proposals and their review, the reports of users   *)
(* and their review, the global and the group overrides, and the retention *)
(* sweep.  Every statement or transaction is one step (SQLite has a single *)
(* connection); an audit is several, with lookups of seconds in between.   *)
(***************************************************************************)
EXTENDS Integers, FiniteSets

CONSTANTS
    Domain,         \* names
    Walk,           \* Walk[d]: d and its parents down to the registrable label
    Registrable,    \* the names that are not public suffixes
    ProposalTTL,    \* AuditConfig.ProposalTTL
    Retention,      \* proposalRetentionDays and telemetry retention
    Suspicious,     \* the names the telemetry has an audit look at
    MaxProposals,   \* bound: proposals ever created
    MaxReports,     \* bound: reports ever created
    MaxTime         \* bound on the clock

ModerationAssumption == ProposalTTL \in Nat /\ Retention \in Nat

VARIABLES
    auto,           \* AuditConfig.AutoEnforce
    audit,          \* the audit of a domain: next step and name
    proposals,      \* agent_proposals
    reports,        \* block_reports
    override,       \* local_overrides: action and author, per name
    groups,         \* names some row of group_overrides is for
    ids,            \* ids given: proposals and reports
    now

vars == <<auto, audit, proposals, reports, override, groups, ids, now>>

NoOverride == [action |-> "none", by |-> "nobody"]
NoAudit == [step |-> "idle", domain |-> "nothing"]

Init ==
    /\ auto \in BOOLEAN
    /\ audit = NoAudit
    /\ proposals = {} /\ reports = {}
    /\ override = [d \in Domain |-> NoOverride]
    /\ groups = {}
    /\ ids = [proposals |-> 0, reports |-> 0]
    /\ now = 0

(* GetOverride and HasGroupOverrideForDomain: the name or a parent of it.   *)
Overridden(d) == \E e \in Walk[d] : override[e] # NoOverride
Grouped(d) == Walk[d] \cap groups # {}

-----------------------------------------------------------------------------
(* auditDomain.                                                             *)

(* A name with an override is skipped.                                      *)
CheckOverride(d) ==
    /\ audit = NoAudit /\ d \in Suspicious /\ ~Overridden(d)
    /\ audit' = [step |-> "group", domain |-> d]
    /\ UNCHANGED <<auto, proposals, reports, override, groups, ids, now>>

CheckGroup ==
    /\ audit.step = "group"
    /\ audit' = IF Grouped(audit.domain) THEN NoAudit ELSE [audit EXCEPT !.step = "act"]
    /\ UNCHANGED <<auto, proposals, reports, override, groups, ids, now>>

(* The enriched verdict is not malicious enough, or a step fails.           *)
EndAudit ==
    /\ audit.step # "idle"
    /\ audit' = NoAudit
    /\ UNCHANGED <<auto, proposals, reports, override, groups, ids, now>>

Pending(d) == {p \in proposals : p.domain = d /\ p.status = "pending"}

(* CreateAgentProposal: refresh the pending row, whether expired or not, or *)
(* insert one.                                                              *)
Propose ==
    /\ audit.step = "act" /\ ~auto
    /\ LET d == audit.domain
       IN  \/ \E p \in Pending(d) :
                /\ proposals' = (proposals \ {p})
                                \cup {[p EXCEPT !.expires = now + ProposalTTL, !.updated = now]}
                /\ UNCHANGED ids
           \/ /\ Pending(d) = {} /\ ids.proposals < MaxProposals
              /\ ids' = [ids EXCEPT !.proposals = @ + 1]
              /\ proposals' = proposals \cup
                   {[id |-> ids.proposals + 1, domain |-> d, status |-> "pending",
                     expires |-> now + ProposalTTL, updated |-> now]}
    /\ audit' = NoAudit
    /\ UNCHANGED <<auto, reports, override, groups, now>>

(* AutoEnforce: upsertOverride, which refuses a public suffix.              *)
Enforce ==
    /\ audit.step = "act" /\ auto /\ audit.domain \in Registrable
    /\ override' = [override EXCEPT ![audit.domain] = [action |-> "block", by |-> "agent"]]
    /\ audit' = NoAudit
    /\ UNCHANGED <<auto, proposals, reports, groups, ids, now>>

-----------------------------------------------------------------------------
(* Operators.                                                               *)

Reviewable(p) == p.status = "pending" /\ now < p.expires

(* Mutant: the group policy is not checked again.                           *)
ApprovableBlind(p) == Reviewable(p) /\ p.domain \in Registrable

Approvable(p) == Reviewable(p) /\ ~Grouped(p.domain) /\ p.domain \in Registrable

Decide(p, status) ==
    proposals' = (proposals \ {p}) \cup {[p EXCEPT !.status = status, !.updated = now]}

(* ReviewAgentProposal: one transaction; any other answer changes nothing.  *)
Approve(p) ==
    /\ Approvable(p)
    /\ Decide(p, "approved")
    /\ override' = [override EXCEPT ![p.domain] = [action |-> "block", by |-> "agent"]]
    /\ UNCHANGED <<auto, audit, reports, groups, ids, now>>

Reject(p) ==
    /\ Reviewable(p)
    /\ Decide(p, "rejected")
    /\ UNCHANGED <<auto, audit, reports, override, groups, ids, now>>

(* OverridesHandler.                                                        *)
PutOverride(d, action) ==
    /\ d \in Registrable
    /\ override' = [override EXCEPT ![d] = [action |-> action, by |-> "operator"]]
    /\ UNCHANGED <<auto, audit, proposals, reports, groups, ids, now>>

DeleteOverride(d) ==
    /\ override[d] # NoOverride
    /\ override' = [override EXCEPT ![d] = NoOverride]
    /\ UNCHANGED <<auto, audit, proposals, reports, groups, ids, now>>

(* GroupOverridesHandler.                                                   *)
PutGroupOverride(d) ==
    /\ d \in Registrable
    /\ groups' = groups \cup {d}
    /\ UNCHANGED <<auto, audit, proposals, reports, override, ids, now>>

DeleteGroupOverride(d) ==
    /\ d \in groups
    /\ groups' = groups \ {d}
    /\ UNCHANGED <<auto, audit, proposals, reports, override, ids, now>>

(* CreateBlockReportWithAudit, for a user of the block page.                *)
Report(d) ==
    /\ ids.reports < MaxReports
    /\ ids' = [ids EXCEPT !.reports = @ + 1]
    /\ reports' = reports \cup
         {[id |-> ids.reports + 1, domain |-> d, status |-> "pending", created |-> now]}
    /\ UNCHANGED <<auto, audit, proposals, override, groups, now>>

AllowReported(d) == override' = [override EXCEPT ![d] = [action |-> "allow", by |-> "operator"]]

(* ApproveFalsePositive, for a report or for a name reviewed elsewhere.     *)
ApproveFalsePositive(d, id) ==
    /\ id = 0 \/ \E r \in reports : r.id = id /\ r.domain = d
    /\ AllowReported(d)
    /\ reports' = {IF r.domain = d /\ (r.status = "pending" \/ r.id = id)
                     THEN [r EXCEPT !.status = "resolved"] ELSE r : r \in reports}
    /\ UNCHANGED <<auto, audit, proposals, groups, ids, now>>

(* ReviewBlockReport: the earlier status is recorded, not checked.          *)
RejectReport(r) ==
    /\ reports' = (reports \ {r}) \cup {[r EXCEPT !.status = "rejected"]}
    /\ UNCHANGED <<auto, audit, proposals, override, groups, ids, now>>

-----------------------------------------------------------------------------
(* cleanup: what was decided long ago, and what expired long ago.           *)
Kept(p) ==
    IF p.status = "pending" THEN p.expires >= now - Retention
                            ELSE p.updated >= now - Retention

KeptReport(r) == r.status = "pending" \/ r.created >= now - Retention

Cleanup ==
    /\ proposals' = {p \in proposals : Kept(p)}
    /\ reports' = {r \in reports : KeptReport(r)}
    /\ <<proposals, reports>>' # <<proposals, reports>>
    /\ UNCHANGED <<auto, audit, override, groups, ids, now>>

Tick ==
    /\ now < MaxTime
    /\ now' = now + 1
    /\ UNCHANGED <<auto, audit, proposals, reports, override, groups, ids>>

Next ==
    \/ CheckGroup \/ EndAudit \/ Propose \/ Enforce \/ Cleanup \/ Tick
    \/ \E d \in Domain :
         \/ CheckOverride(d) \/ DeleteOverride(d) \/ Report(d)
         \/ PutGroupOverride(d) \/ DeleteGroupOverride(d)
         \/ PutOverride(d, "allow") \/ PutOverride(d, "block")
         \/ \E id \in 0..MaxReports : ApproveFalsePositive(d, id)
    \/ \E p \in proposals : Approve(p) \/ Reject(p)
    \/ \E r \in reports : RejectReport(r)

Spec == Init /\ [][Next]_vars

-----------------------------------------------------------------------------
(* Properties.                                                              *)

(* The policy of a group is kept: while the agent only proposes, no block   *)
(* that comes from it is written over a group override, also when that      *)
(* appeared after the audit had looked or after the proposal was queued.    *)
KeepsGroupPolicy ==
    \A d \in Domain :
        (~auto /\ override'[d] # override[d] /\ override'[d].by = "agent") => ~Grouped(d)

(* A decided proposal changes only by leaving the table, a pending one      *)
(* leaves it only after it expired.                                         *)
KeepsProposals ==
    /\ \A p \in proposals \ proposals' :
         \/ \A q \in proposals' : q.id # p.id
         \/ p.status = "pending"
    /\ \A p \in proposals :
         p.status = "pending" /\ now < p.expires => \E q \in proposals' : q.id = p.id

(* A pending report never leaves the table, and a report becomes resolved   *)
(* only together with the override that lets the name through.              *)
KeepsReports ==
    \A r \in reports :
        /\ r.status = "pending" => \E q \in reports' : q.id = r.id
        /\ \A q \in reports' :
             (q.id = r.id /\ q.status = "resolved" /\ r.status # "resolved")
               => override'[r.domain].action = "allow"

(* Reviews are final, the queue is kept, and the agent overrides nothing an *)
(* operator decided for a group, whatever steps of audit, review, expiry    *)
(* and retention come in between.                                           *)
DecisionsStand == [][KeepsGroupPolicy /\ KeepsProposals /\ KeepsReports]_vars
=============================================================================
