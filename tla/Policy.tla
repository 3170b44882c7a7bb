--------------------------------- MODULE Policy ---------------------------------
(***************************************************************************)
(* The order in which a request is decided: the group of the client, the   *)
(* administrative overrides, the whitelist, content rules, and at last the *)
(* security assessment with the enforcement of the group.  Every lookup in *)
(* the store is a step of its own, so that operators change tables while a *)
(* request walks them.  A name is the sequence of its labels, the          *)
(* top-level domain first.                                                 *)
(***************************************************************************)
EXTENDS Integers, Sequences, SequencesExt, FiniteSets

CONSTANTS
    Label,          \* labels of names
    Name,           \* names
    PublicSuffix,   \* the public suffixes among them
    Group,          \* groups beside "default"
    Setting,        \* settings a group can have: malware, phishing, categories
    Result,         \* assessments: verdict, score, phishing, category
    Content,        \* for every name "none", "rule" or "excepted"
    MaxChanges,     \* bound: changes operators make
    MaxFaults       \* bound: lookups that fail

(* The prevailing rule of the public suffix list is "*": every top-level    *)
(* label is a public suffix.  The names of groups are not reserved words.   *)
ASSUME PolicyAssumption ==
    /\ Name \subseteq Seq(Label) /\ <<>> \notin Name
    /\ PublicSuffix \subseteq Name
    /\ \A n \in Name : SubSeq(n, 1, 1) \in PublicSuffix
    /\ {"default", "global", "none"} \cap Group = {}
    /\ MaxChanges \in Nat /\ MaxFaults \in Nat

VARIABLES
    groups,         \* the settings of every group there is
    ipRow, cidrRow, \* the client's mappings by address and by network
    cidrIndex,      \* the network mapping this process has in memory
    overrides,      \* rows of both override tables
    whitelist,      \* the whitelist in memory
    adblock,        \* whether content rules are enabled
    semantics,      \* "separated" or "legacy"
    stored,         \* whether there is a store
    req,            \* the request under way
    changes, faults,
    standing, ever, \* history: rows there throughout, and at some time of, the request
    quiet,          \* history: nothing changed or failed since the request came
    buried          \* history: the groups that were gone when the request came

tables == <<groups, ipRow, cidrRow, overrides>>
memory == <<cidrIndex, whitelist, adblock, semantics, stored>>
history == <<standing, ever, quiet, buried>>
vars == <<tables, memory, req, changes, faults, history>>

Owner == Group \cup {"default", "global"}
Row == [owner : Owner, domain : Name, action : {"allow", "block"}]

(* The group the code falls back to, and the one the store is created with. *)
BuiltIn == [malware |-> TRUE, phishing |-> FALSE, categories |-> {}]

Idle == [pc |-> "idle"]
Unassessed == [verdict |-> "none", score |-> 0, phishing |-> FALSE, category |-> "none"]

(* Rows for a public suffix are those an earlier release let in.            *)
Init ==
    /\ groups \in [Group -> Setting] /\ ipRow \in Group \cup {"none"}
    /\ cidrRow \in Group \cup {"none"} /\ cidrIndex = cidrRow
    /\ overrides \in {{}} \cup {{r} : r \in {r \in Row : r.domain \in PublicSuffix}}
    /\ whitelist \in {{}} \cup {{n} : n \in Name \ PublicSuffix}
    /\ adblock \in BOOLEAN /\ semantics \in {"separated", "legacy"} /\ stored \in BOOLEAN
    /\ req = Idle
    /\ changes = 0 /\ faults = 0
    /\ standing = {} /\ ever = {} /\ quiet = TRUE /\ buried = {}

-----------------------------------------------------------------------------
(* A walk visits a name and its parents down to the registrable one.        *)
FloorLen(q) ==
    LET suffixes == {i \in 1..Len(q) : SubSeq(q, 1, i) \in PublicSuffix}
    IN  IF q \in PublicSuffix \/ suffixes = {} THEN Len(q)
        ELSE 1 + CHOOSE i \in suffixes : \A j \in suffixes : j <= i

Visited(q) == {SubSeq(q, 1, i) : i \in FloorLen(q)..Len(q)}

GroupOf(g) == IF g = "default" THEN BuiltIn ELSE groups[g]

IsAllowed(q) == \E n \in Visited(q) : n \in whitelist

(* Enforcement of the group on an assessment.                               *)
Enforced(g, r) ==
    IF \/ r.verdict = "malicious" /\ g.malware
       \/ g.phishing /\ r.score >= 40 /\ (r.phishing \/ r.category = "phishing")
       \/ r.category \in g.categories
    THEN "block" ELSE "allow"

-----------------------------------------------------------------------------
Decided(r, layer, policy, row) ==
    req' = [pc |-> "done", q |-> req.q, kind |-> req.kind, group |-> req.group, result |-> r,
            layer |-> layer, policy |-> policy, row |-> row]
Outcome(layer, policy, row) == Decided(Unassessed, layer, policy, row)

NoRow == [owner |-> "none"]
Goto(pc) == req' = [req EXCEPT !.pc = pc]

(* A request: Policy decides it for the resolver, AnalyzeWithOptions for    *)
(* the API.                                                                 *)
Begin(q, kind) ==
    /\ req.pc = "idle"
    /\ req' = [pc |-> IF stored THEN "mapping" ELSE "whitelist", q |-> q, kind |-> kind, result |-> Unassessed,
               at |-> Len(q), group |-> "default", settings |-> BuiltIn]
    /\ standing' = overrides /\ ever' = overrides /\ quiet' = (cidrIndex = cidrRow)
    /\ buried' = Group \ DOMAIN groups
    /\ UNCHANGED <<tables, memory, changes, faults>>

(* GetGroupForClient: the address, then the index of networks.              *)
QueryMapping ==
    /\ req.pc = "mapping"
    /\ req' = [req EXCEPT !.pc = "group",
                          !.group = IF ipRow # "none" THEN ipRow ELSE IF cidrIndex # "none" THEN cidrIndex ELSE "default"]
    /\ UNCHANGED <<tables, memory, changes, faults, history>>

(* A group that is gone is an error, and an error the built-in group.       *)
QueryGroupKept ==
    /\ req.pc = "group"
    /\ req' = [req EXCEPT !.pc = "own", !.settings = IF req.group \in DOMAIN groups THEN groups[req.group] ELSE BuiltIn]
    /\ UNCHANGED <<tables, memory, changes, faults, history>>

QueryGroup ==
    /\ req.pc = "group"
    /\ IF req.group \in DOMAIN groups \cup {"default"}
       THEN req' = [req EXCEPT !.pc = "own", !.settings = GroupOf(req.group)]
       ELSE req' = [req EXCEPT !.pc = "own", !.settings = BuiltIn, !.group = "default"]
    /\ UNCHANGED <<tables, memory, changes, faults, history>>

Candidate == SubSeq(req.q, 1, req.at)
Found(owner) == {r \in overrides : r.owner = owner /\ r.domain = Candidate}

(* GetEffectiveOverride asks at each name for a row of the group, then for  *)
(* a global one, then goes to the parent.                                   *)
QueryOwn ==
    /\ req.pc = "own"
    /\ IF Found(req.group) = {} THEN Goto("global")
       ELSE \E r \in Found(req.group) : Outcome("override", r.action, r)
    /\ UNCHANGED <<tables, memory, changes, faults, history>>

QueryGlobal ==
    /\ req.pc = "global"
    /\ IF Found("global") # {} THEN \E r \in Found("global") : Outcome("override", r.action, r)
       ELSE IF req.at > FloorLen(req.q) THEN req' = [req EXCEPT !.pc = "own", !.at = req.at - 1]
       ELSE Goto("whitelist")
    /\ UNCHANGED <<tables, memory, changes, faults, history>>

(* A failed lookup: of the group, the built-in one; of an override, none.   *)
Fail ==
    /\ req.pc \in {"mapping", "group", "own", "global"} /\ faults < MaxFaults
    /\ req' = IF req.pc \in {"mapping", "group"}
              THEN [req EXCEPT !.pc = "own", !.group = "default", !.settings = BuiltIn]
              ELSE [req EXCEPT !.pc = "whitelist"]
    /\ faults' = faults + 1
    /\ quiet' = FALSE
    /\ UNCHANGED <<tables, memory, changes, standing, ever, buried>>

(* A caller that went away is not answered from the whitelist.              *)
AskWhitelist(cancelled) ==
    /\ req.pc = "whitelist"
    /\ IF IsAllowed(req.q) /\ ~cancelled THEN Outcome("whitelist", "allow", NoRow) ELSE Goto("adblock")
    /\ quiet' = (quiet /\ ~cancelled)
    /\ UNCHANGED <<tables, memory, changes, faults, standing, ever, buried>>

(* A rule blocks at once, but on the API's path only under the old          *)
(* semantics, which know no exceptions; one lifts this rule and no more.    *)
MatchAdblock ==
    /\ req.pc = "adblock"
    /\ IF /\ adblock /\ Content[req.q] # "none"
          /\ semantics = "legacy" \/ (req.kind = "policy" /\ Content[req.q] = "rule")
       THEN Outcome("content", "block", NoRow) ELSE Goto("assess")
    /\ UNCHANGED <<tables, memory, changes, faults, history>>

(* The assessment, enforced for the resolver only.                          *)
Assess(r) ==
    /\ req.pc = "assess"
    /\ Decided(r, "assessment",
               IF req.kind = "policy" THEN Enforced(req.settings, r)
               ELSE IF r.verdict = "malicious" THEN "block" ELSE "allow", NoRow)
    /\ UNCHANGED <<tables, memory, changes, faults, history>>

(* The answer is sent.                                                      *)
Reply ==
    /\ req.pc = "done"
    /\ req' = Idle
    /\ standing' = {} /\ ever' = {} /\ quiet' = TRUE /\ buried' = {}
    /\ UNCHANGED <<tables, memory, changes, faults>>

-----------------------------------------------------------------------------
Change ==
    /\ changes < MaxChanges
    /\ changes' = changes + 1
    /\ quiet' = (req = Idle)
    /\ UNCHANGED <<req, faults, buried>>

Tracked ==
    /\ standing' = standing \cap overrides'
    /\ ever' = IF req = Idle THEN {} ELSE ever \cup overrides'

(* UpsertOverride and UpsertGroupOverride refuse a public suffix.           *)
Upsert(owner, n, action) ==
    /\ Change /\ stored
    /\ n \notin PublicSuffix /\ owner \in DOMAIN groups \cup {"default", "global"}
    /\ overrides' = {r \in overrides : r.owner # owner \/ r.domain # n} \cup {[owner |-> owner, domain |-> n, action |-> action]}
    /\ Tracked
    /\ UNCHANGED <<groups, ipRow, cidrRow, memory>>

Delete(r) ==
    /\ Change /\ stored
    /\ overrides' = overrides \ {r}
    /\ Tracked
    /\ UNCHANGED <<groups, ipRow, cidrRow, memory>>

(* Deleting a group takes its mappings and its overrides along; another     *)
(* process keeps the network in memory until it reconciles.                 *)
DeleteGroup(g) ==
    /\ Change /\ stored
    /\ g \in DOMAIN groups
    /\ groups' = [h \in DOMAIN groups \ {g} |-> groups[h]]
    /\ overrides' = {r \in overrides : r.owner # g}
    /\ ipRow' = IF ipRow = g THEN "none" ELSE ipRow
    /\ cidrRow' = IF cidrRow = g THEN "none" ELSE cidrRow
    /\ Tracked
    /\ UNCHANGED memory

UpdateGroup(g, s) ==
    /\ Change /\ stored
    /\ g \in DOMAIN groups
    /\ groups' = [groups EXCEPT ![g] = s]
    /\ UNCHANGED <<ipRow, cidrRow, overrides, memory, standing, ever>>

Reconcile ==
    /\ cidrIndex # cidrRow
    /\ cidrIndex' = cidrRow
    /\ quiet' = (req = Idle)
    /\ UNCHANGED <<tables, whitelist, adblock, semantics, stored, req, changes, faults, standing, ever, buried>>

Next ==
    \/ \E q \in Name, kind \in {"policy", "analyze"} : Begin(q, kind)
    \/ QueryMapping \/ QueryGroup \/ QueryOwn \/ QueryGlobal \/ Fail
    \/ \E cancelled \in BOOLEAN : AskWhitelist(cancelled)
    \/ MatchAdblock \/ Reply
    \/ \E r \in Result : Assess(r)
    \/ \E owner \in Owner, n \in Name, a \in {"allow", "block"} : Upsert(owner, n, a)
    \/ \E r \in overrides : Delete(r)
    \/ \E g \in Group : DeleteGroup(g)
    \/ \E g \in Group, s \in Setting : UpdateGroup(g, s)
    \/ Reconcile

Spec == Init /\ [][Next]_vars

-----------------------------------------------------------------------------
(* A name covers itself and the names below it that no public suffix        *)
(* separates from it.                                                       *)
Covers(n, q) ==
    /\ IsPrefix(n, q)
    /\ n = q \/ \A s \in PublicSuffix : IsPrefix(s, q) => ~IsPrefix(n, s)

Applies(r, group) == r.owner \in {group, "global"} /\ Covers(r.domain, req.q)
Closer(r, s) == Len(r.domain) > Len(s.domain) \/ (Len(r.domain) = Len(s.domain) /\ r.owner # "global")

Mapped == IF ~stored THEN "default" ELSE IF ipRow # "none" THEN ipRow ELSE IF cidrRow # "none" THEN cidrRow ELSE "default"
Effective == {r \in overrides : Applies(r, Mapped) /\ \A s \in overrides : Applies(s, Mapped) => s = r \/ Closer(r, s)}
Vouched == \E n \in whitelist : Covers(n, req.q)
Covered ==
    /\ adblock
    /\ \/ Content[req.q] = "rule" /\ req.kind = "policy"
       \/ Content[req.q] # "none" /\ semantics = "legacy"
Verdict ==
    \/ req.result.verdict = "malicious" /\ (req.kind = "analyze" \/ GroupOf(Mapped).malware)
    \/ /\ req.kind = "policy"
       /\ \/ GroupOf(Mapped).phishing /\ req.result.score >= 40 /\ (req.result.phishing \/ req.result.category = "phishing")
          \/ req.result.category \in GroupOf(Mapped).categories

(* What the documented order of precedence makes of a request.              *)
Documented ==
    CASE stored /\ Effective # {} -> (CHOOSE r \in Effective : TRUE).action
      [] (~stored \/ Effective = {}) /\ Vouched -> "allow"
      [] OTHER -> IF Covered \/ Verdict THEN "block" ELSE "allow"

(* Policy and AnalyzeWithOptions: a request during which nothing changed    *)
(* and nothing failed is decided as the documented precedence says: the     *)
(* closest override down to the registrable name, the group's before the    *)
(* global one, then the whitelist, content rules, and the assessment under  *)
(* the client's own group; a row for a public suffix covers no name below   *)
(* it.                                                                      *)
PrecedenceHonoured == req.pc = "done" /\ quiet => req.policy = Documented

(* GetEffectiveOverride walks the tables query by query while operators     *)
(* edit them: a row that was there throughout the request, with no closer   *)
(* row at any time of it, decides the request unless a lookup failed.       *)
StandingRowDecides ==
    req.pc = "done" /\ stored /\ faults = 0 =>
        \A r \in standing :
            (Applies(r, req.group) /\ \A s \in ever : Applies(s, req.group) => s = r \/ Closer(r, s))
                => req.layer = "override" /\ req.row = r

(* DeleteGroup and GetGroup: a group that was gone when a request came      *)
(* decides nothing about it, even while the index of this process still     *)
(* maps the client to it.                                                   *)
BuriedGroupsRest == req.pc = "done" => req.group \notin buried

(* The decision is the documented one when nothing moves, and under edits   *)
(* it still obeys every row that stood throughout and no group that was     *)
(* gone before.                                                             *)
PolicySound == PrecedenceHonoured /\ StandingRowDecides /\ BuriedGroupsRest
=============================================================================
