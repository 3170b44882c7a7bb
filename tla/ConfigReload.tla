----------------------------- MODULE ConfigReload -----------------------------
(***************************************************************************)
(* How core-api and dns-resolver come to run the same analysis             *)
(* configuration and the same client-to-group mappings.  Both open one     *)
(* SQLite file; each keeps the configuration and a CIDR index in RAM.  A   *)
(* handler of core-api writes the store, updates its own process and       *)
(* publishes a message on Redis, which may lose or repeat it; every        *)
(* process also polls the store.  A configuration is identified by the     *)
(* hash of its content, the mappings by a revision that commits with them. *)
(***************************************************************************)
EXTENDS Integers, FiniteSets

CONSTANTS
    Node,           \* processes
    Core,           \* the one of them whose handlers write
    Config,         \* analysis configurations (a revision is one's hash)
    Default,        \* DefaultAnalysisConfig, one of them
    Cidr,           \* client ranges
    Group,          \* policy groups, besides the default one
    Writer,         \* concurrent requests of the admin API
    None,           \* neither a configuration nor a group
    MaxWrites,      \* bound: requests that change the store
    MaxFaults       \* bound: failing store reads, lost messages, disconnects

Sub(n) == <<n, "subscriber">>
Rec(n) == <<n, "reconciler">>
Routine == (Node \X {"subscriber", "reconciler"}) \cup (Writer \X {"writer"})
HostOf(p) == IF p[2] = "writer" THEN Core ELSE p[1]

VARIABLES
    stored,         \* system_config[analysis_config], or None
    groups,         \* client_groups
    mappings,       \* client_mappings: the group of a range, or None
    revision,       \* system_config[client_mappings_revision]
    config,         \* per process: the configuration in effect
    cidr,           \* per process: the CIDR index and its revision
    subscribed,     \* per process: connected to the Redis channel
    msgs,           \* reload messages on their way
    pc, reg,        \* per goroutine: its next step and what it has read
    writes, faults  \* counters of the bounds

storeVars == <<stored, groups, mappings, revision>>
memVars == <<config, cidr>>
vars == <<storeVars, memVars, subscribed, msgs, pc, reg, writes, faults>>

Mappings == [Cidr -> Group \cup {None}]
Message == [node : Node, type : {"config"}, rev : Config]
           \cup [node : Node, type : {"mappings"}, rev : Nat]
Register == [cfg : Config \cup {None}, rev : Nat, rows : Mappings]
NoRows == [c \in Cidr |-> None]
NoRegister == [cfg |-> None, rev |-> 0, rows |-> NoRows]

Init ==
    /\ stored = None
    /\ groups = Group
    /\ mappings = NoRows /\ revision = 0
    /\ config = [n \in Node |-> Default]
    /\ cidr = [n \in Node |-> [rows |-> NoRows, rev |-> 0]]
    /\ subscribed = [n \in Node |-> TRUE]
    /\ msgs = {}
    /\ pc = [p \in Routine |-> "idle"]
    /\ reg = [p \in Routine |-> NoRegister]
    /\ writes = 0 /\ faults = 0

Goto(p, step) == pc' = [pc EXCEPT ![p] = step]
Finish(p) == Goto(p, "idle") /\ reg' = [reg EXCEPT ![p] = NoRegister]
Write(p) == pc[p] = "idle" /\ p[2] = "writer" /\ writes < MaxWrites /\ writes' = writes + 1
Fault == faults < MaxFaults /\ faults' = faults + 1

(* Mutant: the poll looks at the configuration only.                        *)
ConfigDoneOnly(p) == Finish(p)

(* What follows the two parts of a reload: the reconciler goes on from the  *)
(* configuration to the mappings, a handler publishes.                      *)
ConfigDone(p) ==
    IF p[2] = "reconciler" THEN Goto(p, "compare") /\ UNCHANGED reg ELSE Finish(p)
MappingsDone(p) ==
    IF p[2] = "writer" THEN Goto(p, "announceMappings") /\ UNCHANGED reg ELSE Finish(p)

-----------------------------------------------------------------------------
(* reloadAnalysisConfigFromStore.                                           *)

ReadConfig(p) ==
    /\ pc[p] = "config"
    /\ IF stored = None
         THEN ConfigDone(p)
         ELSE reg' = [reg EXCEPT ![p].cfg = stored] /\ Goto(p, "apply")
    /\ UNCHANGED <<storeVars, memVars, subscribed, msgs, writes, faults>>

ReadConfigFails(p) ==
    /\ pc[p] = "config" /\ Fault
    /\ ConfigDone(p)
    /\ UNCHANGED <<storeVars, memVars, subscribed, msgs, writes>>

(* applyAnalysisConfig: the configuration, its hash and the analyzer built  *)
(* from it change under one lock.                                           *)
ApplyConfig(p) ==
    /\ pc[p] = "apply"
    /\ config' = [config EXCEPT ![HostOf(p)] = reg[p].cfg]
    /\ ConfigDone(p)
    /\ UNCHANGED <<storeVars, cidr, subscribed, msgs, writes, faults>>

-----------------------------------------------------------------------------
(* reloadClientMappingsFromStore and loadCIDRCache.                         *)

CompareMappings(p) ==
    /\ pc[p] = "compare"
    /\ IF revision = cidr[HostOf(p)].rev
         THEN MappingsDone(p) ELSE Goto(p, "revision") /\ UNCHANGED reg
    /\ UNCHANGED <<storeVars, memVars, subscribed, msgs, writes, faults>>

ReadRevision(p) ==
    /\ pc[p] = "revision"
    /\ reg' = [reg EXCEPT ![p].rev = revision]
    /\ Goto(p, "rows")
    /\ UNCHANGED <<storeVars, memVars, subscribed, msgs, writes, faults>>

ReadRows(p) ==
    /\ pc[p] = "rows"
    /\ reg' = [reg EXCEPT ![p].rows = mappings]
    /\ Goto(p, "publish")
    /\ UNCHANGED <<storeVars, memVars, subscribed, msgs, writes, faults>>

PublishIndex(p) ==
    /\ pc[p] = "publish"
    /\ cidr' = [cidr EXCEPT ![HostOf(p)] = [rows |-> reg[p].rows, rev |-> reg[p].rev]]
    /\ MappingsDone(p)
    /\ UNCHANGED <<storeVars, config, subscribed, msgs, writes, faults>>

(* A failed reload keeps the previous index; after a write it is logged     *)
(* and the handler goes on, because the write has committed.                *)
ReadMappingsFails(p) ==
    /\ pc[p] \in {"compare", "revision", "rows"} /\ Fault
    /\ MappingsDone(p)
    /\ UNCHANGED <<storeVars, memVars, subscribed, msgs, writes>>

-----------------------------------------------------------------------------
(* What starts a reload.                                                    *)

Tick(n) ==
    /\ pc[Rec(n)] = "idle"
    /\ Goto(Rec(n), "config")
    /\ UNCHANGED <<storeVars, memVars, subscribed, msgs, reg, writes, faults>>

(* handleConfigReloadMessage: a message about the state the process is      *)
(* already in is ignored.  A message may be delivered again.                *)
Deliver(n, m) ==
    /\ pc[Sub(n)] = "idle" /\ m \in msgs /\ m.node = n
    /\ msgs' \in {msgs, msgs \ {m}}
    /\ \/ /\ m.type = "config"
          /\ IF m.rev = config[n] THEN UNCHANGED pc ELSE Goto(Sub(n), "config")
       \/ /\ m.type = "mappings"
          /\ IF m.rev = cidr[n].rev THEN UNCHANGED pc ELSE Goto(Sub(n), "compare")
    /\ UNCHANGED <<storeVars, memVars, subscribed, reg, writes, faults>>

(* The subscription breaks and what was on its way is gone; the goroutine   *)
(* subscribes again after a backoff.                                        *)
Disconnect(n) ==
    /\ subscribed[n] /\ pc[Sub(n)] = "idle" /\ Fault
    /\ subscribed' = [subscribed EXCEPT ![n] = FALSE]
    /\ msgs' = {m \in msgs : m.node # n}
    /\ UNCHANGED <<storeVars, memVars, pc, reg, writes>>

Subscribe(n) ==
    /\ ~subscribed[n]
    /\ subscribed' = [subscribed EXCEPT ![n] = TRUE]
    /\ UNCHANGED <<storeVars, memVars, msgs, pc, reg, writes, faults>>

-----------------------------------------------------------------------------
(* The handlers of the admin API.                                           *)

(* Redis delivers to whoever is subscribed; a publication that fails is     *)
(* logged.                                                                  *)
Broadcast(type, rev) ==
    \/ msgs' = msgs \cup {[node |-> n, type |-> type, rev |-> rev] : n \in {k \in Node : subscribed[k]}}
    \/ UNCHANGED msgs

(* UpdateAnalysisConfig and ResetAnalysisConfig: store, apply, publish.     *)
UpdateAnalysisConfig(p, c) ==
    /\ Write(p)
    /\ stored' = c
    /\ reg' = [reg EXCEPT ![p].cfg = c]
    /\ Goto(p, "applyWritten")
    /\ UNCHANGED <<groups, mappings, revision, memVars, subscribed, msgs, faults>>

ApplyWritten(p) ==
    /\ pc[p] = "applyWritten"
    /\ config' = [config EXCEPT ![Core] = reg[p].cfg]
    /\ Goto(p, "announceConfig")
    /\ UNCHANGED <<storeVars, cidr, subscribed, msgs, reg, writes, faults>>

AnnounceConfig(p) ==
    /\ pc[p] = "announceConfig"
    /\ Broadcast("config", reg[p].cfg)
    /\ Finish(p)
    /\ UNCHANGED <<storeVars, memVars, subscribed, writes, faults>>

(* Rows and revision commit together; then the CIDR index of this process   *)
(* is rebuilt.                                                              *)
AddMapping(p, c, g) ==
    /\ mappings[c] = None /\ g \in groups
    /\ Write(p)
    /\ mappings' = [mappings EXCEPT ![c] = g]
    /\ revision' = revision + 1
    /\ Goto(p, "compare")
    /\ UNCHANGED <<stored, groups, memVars, subscribed, msgs, reg, faults>>

(* A mapping of an address or a client id is read from the table when it is *)
(* needed: the revision moves and the index of this process stays.          *)
AddOtherMapping(p) ==
    /\ Write(p)
    /\ revision' = revision + 1
    /\ Goto(p, "announceMappings")
    /\ UNCHANGED <<stored, groups, mappings, memVars, subscribed, msgs, reg, faults>>

DeleteMapping(p, c) ==
    /\ mappings[c] # None
    /\ Write(p)
    /\ mappings' = [mappings EXCEPT ![c] = None]
    /\ revision' = revision + 1
    /\ Goto(p, "compare")
    /\ UNCHANGED <<stored, groups, memVars, subscribed, msgs, reg, faults>>

(* The mappings of a deleted group go with it (ON DELETE CASCADE).          *)
DeleteGroup(p, g) ==
    /\ g \in groups
    /\ Write(p)
    /\ groups' = groups \ {g}
    /\ mappings' = [c \in Cidr |-> IF mappings[c] = g THEN None ELSE mappings[c]]
    /\ revision' = revision + 1
    /\ Goto(p, "compare")
    /\ UNCHANGED <<stored, memVars, subscribed, msgs, reg, faults>>

(* publishClientMappingsReload publishes the revision the store has now.    *)
AnnounceMappings(p) ==
    /\ pc[p] = "announceMappings"
    /\ Broadcast("mappings", revision)
    /\ Finish(p)
    /\ UNCHANGED <<storeVars, memVars, subscribed, writes, faults>>

-----------------------------------------------------------------------------

Reload(p) ==
    \/ ReadConfig(p) \/ ApplyConfig(p)
    \/ CompareMappings(p) \/ ReadRevision(p) \/ ReadRows(p) \/ PublishIndex(p)

Handler(p) ==
    \/ \E c \in Config : UpdateAnalysisConfig(p, c)
    \/ ApplyWritten(p) \/ AnnounceConfig(p)
    \/ \E c \in Cidr, g \in Group : AddMapping(p, c, g)
    \/ AddOtherMapping(p)
    \/ \E c \in Cidr : DeleteMapping(p, c)
    \/ \E g \in Group : DeleteGroup(p, g)
    \/ AnnounceMappings(p)

Next ==
    \/ \E p \in Routine : Reload(p) \/ ReadConfigFails(p) \/ ReadMappingsFails(p) \/ Handler(p)
    \/ \E n \in Node : \/ Tick(n)
                       \/ \E m \in msgs : Deliver(n, m)
                       \/ Disconnect(n) \/ Subscribe(n)

Spec == Init /\ [][Next]_vars

(* Goroutines that have started go on, handlers finish what they began, and *)
(* the ticker fires.  Nothing is assumed of Redis.                          *)
FairSpec ==
    /\ Spec
    /\ \A p \in Routine : WF_vars(Reload(p) \/ ApplyWritten(p) \/ AnnounceConfig(p) \/ AnnounceMappings(p))
    /\ \A n \in Node : WF_vars(Tick(n))

-----------------------------------------------------------------------------
(* Properties.                                                              *)

(* Every variable has its type.                                             *)
TypeOK ==
    /\ stored \in Config \cup {None}
    /\ groups \subseteq Group
    /\ mappings \in Mappings /\ revision \in 0..MaxWrites
    /\ config \in [Node -> Config]
    /\ cidr \in [Node -> [rows : Mappings, rev : Nat]]
    /\ subscribed \in [Node -> BOOLEAN]
    /\ msgs \subseteq Message
    /\ pc \in [Routine -> {"idle", "config", "apply", "compare", "revision", "rows", "publish",
                        "applyWritten", "announceConfig", "announceMappings"}]
    /\ reg \in [Routine -> Register]
    /\ writes \in 0..MaxWrites /\ faults \in 0..MaxFaults

(* A CIDR index that carries the store's revision holds the store's rows,   *)
(* whatever reloads and deletions overlap: no client keeps resolving        *)
(* through a deleted group while the reconciler believes the index current. *)
RevisionTellsRows ==
    \A n \in Node : cidr[n].rev = revision =>
        /\ cidr[n].rows = mappings
        /\ \A c \in Cidr : cidr[n].rows[c] \in groups \cup {None}

(* Once the writes are over, every process runs the stored configuration    *)
(* and the stored mappings, though handlers apply in another order than     *)
(* they wrote, a reload applies what it read before a newer write, and      *)
(* Redis loses every message.                                               *)
Converges ==
    <>[](\A n \in Node : /\ stored # None => config[n] = stored
                         /\ cidr[n] = [rows |-> mappings, rev |-> revision])

(* A process follows the store: the revision it compares is never wrong     *)
(* about its rows, so that it comes to run what is stored.                  *)
FollowsStore == []RevisionTellsRows /\ Converges
=============================================================================
