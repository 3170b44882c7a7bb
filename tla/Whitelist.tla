------------------------------ MODULE Whitelist ------------------------------
(***************************************************************************)
(* The allow list: its table and revision in SQLite, the rollback copies,  *)
(* and the index every process keeps in RAM.  core-api and dns-resolver    *)
(* open the same database; an index is rebuilt by LoadFromDB, which reads  *)
(* the revision, the count and the rows in three statements and publishes  *)
(* the result at the end.  Loaders run concurrently: the poll reconciler   *)
(* and the pub/sub subscriber of a process, the cache-flush handler, the   *)
(* rollback handler and the agent's import task.                           *)
(***************************************************************************)
EXTENDS Integers, FiniteSets, Sequences

CONSTANTS
    Node,           \* processes that keep an index
    Proc,           \* goroutines and handlers that load it
    NodeOf,         \* the process a goroutine runs in
    RoleOf,         \* "reconcile", "subscribe", "admin", "import"
    Domain,         \* names a source may list
    Safe,           \* the registrable ones among them
    Lists,          \* what a download may turn out to list
    Floors,         \* values of SAFE_ZONE_WHITELIST_MIN_ENTRIES to consider
    MinPercent,     \* SAFE_ZONE_WHITELIST_MIN_PERCENT
    MaxSnapshots,   \* MaxWhitelistSnapshots
    MaxRevision,    \* bound: replacements of the table
    MaxImports,     \* bound: runs of the import task
    MaxFaults       \* bound: failing reads and lost messages

(* The agent engine runs its import task once at a time.                    *)
ASSUME WhitelistAssumption ==
    /\ NodeOf \in [Proc -> Node]
    /\ RoleOf \in [Proc -> {"reconcile", "subscribe", "admin", "import"}]
    /\ \A p, q \in Proc : RoleOf[p] = "import" /\ RoleOf[q] = "import" => p = q
    /\ Lists \subseteq SUBSET Domain
    /\ Safe \subseteq Domain
    /\ Floors \subseteq Nat
    /\ MinPercent \in 0..100
    /\ MaxSnapshots \in Nat \ {0}
    /\ MaxRevision \in Nat
    /\ MaxImports \in Nat
    /\ MaxFaults \in Nat

VARIABLES
    minEntries,     \* the floor the operator configured
    table,          \* whitelist_domains
    revision,       \* system_config[whitelist_revision]
    snapshots,      \* whitelist_snapshots, oldest first
    index,          \* per process: the published set and its revision
    up,             \* per process: running
    msgs,           \* reload messages on their way to a process
    pc,             \* per goroutine: its next step
    reg,            \* per goroutine: what it has read
    imports, faults \* counters of the bounds

storeVars == <<table, revision, snapshots>>
vars == <<minEntries, table, revision, snapshots, index, up, msgs, pc, reg,
          imports, faults>>

Index == [set : SUBSET Domain, rev : Nat]
Register == [rev : Nat, rows : SUBSET Domain, id : Nat, new : SUBSET Domain,
             undo : BOOLEAN, tell : BOOLEAN]
Snapshot == [id : Nat \ {0}, set : SUBSET Domain]
Steps == {"idle", "rev", "count", "rows", "publish",      \* LoadFromDB
          "announce",                                      \* rollback handler
          "snapshot", "save", "floor", "commit", "undo"}   \* import task

NoRegister == [rev |-> 0, rows |-> {}, id |-> 0, new |-> {}, undo |-> FALSE,
               tell |-> FALSE]

Init ==
    /\ minEntries \in Floors
    /\ table = {} /\ revision = 0 /\ snapshots = <<>>
    /\ index = [n \in Node |-> [set |-> {}, rev |-> 0]]
    /\ up = [n \in Node |-> TRUE]
    /\ msgs = {}
    /\ pc = [p \in Proc |-> "idle"]
    /\ reg = [p \in Proc |-> NoRegister]
    /\ imports = 0 /\ faults = 0

Active(p, step) == up[NodeOf[p]] /\ pc[p] = step
Goto(p, step) == pc' = [pc EXCEPT ![p] = step]
Finish(p) == Goto(p, "idle") /\ reg' = [reg EXCEPT ![p] = NoRegister]

-----------------------------------------------------------------------------
(* LoadFromDB: a finished load lets the rollback handler announce it; a     *)
(* failed one makes the import task put the previous set back, once.        *)

Loaded(p) ==
    IF reg[p].tell THEN Goto(p, "announce") /\ UNCHANGED reg ELSE Finish(p)

LoadFailed(p) ==
    IF RoleOf[p] = "import" /\ ~reg[p].undo
      THEN Goto(p, "undo") /\ UNCHANGED reg
      ELSE Finish(p)

ReadRevision(p) ==
    /\ Active(p, "rev")
    /\ reg' = [reg EXCEPT ![p].rev = revision]
    /\ Goto(p, "count")
    /\ UNCHANGED <<minEntries, storeVars, index, up, msgs, imports, faults>>

(* An empty table replaces an empty index and never a populated one.        *)
ReadCountEmpty(p) ==
    /\ Active(p, "count") /\ table = {}
    /\ index' = IF index[NodeOf[p]].set # {} THEN index
                ELSE [index EXCEPT ![NodeOf[p]] = [set |-> {}, rev |-> reg[p].rev]]
    /\ Loaded(p)
    /\ UNCHANGED <<minEntries, storeVars, up, msgs, imports, faults>>

ReadCount(p) ==
    /\ Active(p, "count") /\ table # {}
    /\ Goto(p, "rows")
    /\ UNCHANGED <<minEntries, storeVars, index, up, msgs, reg, imports, faults>>

StreamRows(p) ==
    /\ Active(p, "rows")
    /\ reg' = [reg EXCEPT ![p].rows = table]
    /\ Goto(p, "publish")
    /\ UNCHANGED <<minEntries, storeVars, index, up, msgs, imports, faults>>

(* Mutant: the revision is read when the index is published.                *)
PublishLate(p) ==
    /\ Active(p, "publish") /\ reg[p].rows # {}
    /\ index' = [index EXCEPT ![NodeOf[p]] = [set |-> reg[p].rows, rev |-> revision]]
    /\ Loaded(p)
    /\ UNCHANGED <<minEntries, storeVars, up, msgs, imports, faults>>

Publish(p) ==
    /\ Active(p, "publish") /\ reg[p].rows # {}
    /\ index' = [index EXCEPT ![NodeOf[p]] = [set |-> reg[p].rows, rev |-> reg[p].rev]]
    /\ Loaded(p)
    /\ UNCHANGED <<minEntries, storeVars, up, msgs, imports, faults>>

(* The rows vanished after they were counted: there is no filter to size in *)
(* the log line after the publication, and the goroutine panics.  The HTTP  *)
(* server and the agent engine recover; a reload goroutine takes the        *)
(* process down with it.                                                    *)
PublishEmpty(p) ==
    /\ Active(p, "publish") /\ reg[p].rows = {}
    /\ index' = [index EXCEPT ![NodeOf[p]] = [set |-> {}, rev |-> reg[p].rev]]
    /\ up' = [up EXCEPT ![NodeOf[p]] = RoleOf[p] \notin {"reconcile", "subscribe"}]
    /\ Finish(p)
    /\ UNCHANGED <<minEntries, storeVars, msgs, imports, faults>>

ReadFails(p) ==
    /\ up[NodeOf[p]] /\ pc[p] \in {"rev", "count", "rows"}
    /\ faults < MaxFaults /\ faults' = faults + 1
    /\ LoadFailed(p)
    /\ UNCHANGED <<minEntries, storeVars, index, up, msgs, imports>>

(* A restarted process builds its index before it starts its goroutines.    *)
Restart(n) ==
    /\ ~up[n]
    /\ up' = [up EXCEPT ![n] = TRUE]
    /\ index' = [index EXCEPT ![n] = [set |-> table, rev |-> revision]]
    /\ pc' = [p \in Proc |-> IF NodeOf[p] = n THEN "idle" ELSE pc[p]]
    /\ reg' = [p \in Proc |-> IF NodeOf[p] = n THEN NoRegister ELSE reg[p]]
    /\ msgs' = {m \in msgs : m.node # n}
    /\ UNCHANGED <<minEntries, storeVars, imports, faults>>

-----------------------------------------------------------------------------
(* What starts a load.                                                      *)

(* Mutant: only an empty index is filled.                                   *)
NeedsReloadEmpty(n) == index[n].set = {}

(* reloadWhitelistFromStore: nothing to do when the revisions agree.        *)
NeedsReload(n) == revision # index[n].rev

Reconcile(p) ==
    /\ Active(p, "idle") /\ RoleOf[p] = "reconcile"
    /\ NeedsReload(NodeOf[p])
    /\ Goto(p, "rev")
    /\ UNCHANGED <<minEntries, storeVars, index, up, msgs, reg, imports, faults>>

(* A message that names the published revision is ignored; any other makes  *)
(* the subscriber compare with the store.  A message may arrive again.      *)
Deliver(p, m) ==
    /\ Active(p, "idle") /\ RoleOf[p] = "subscribe"
    /\ m \in msgs /\ m.node = NodeOf[p]
    /\ msgs' \in {msgs, msgs \ {m}}
    /\ IF m.rev # index[m.node].rev /\ NeedsReload(m.node)
         THEN Goto(p, "rev") ELSE UNCHANGED pc
    /\ UNCHANGED <<minEntries, storeVars, index, up, reg, imports, faults>>

Lose(m) ==
    /\ m \in msgs /\ faults < MaxFaults
    /\ msgs' = msgs \ {m} /\ faults' = faults + 1
    /\ UNCHANGED <<minEntries, storeVars, index, up, pc, reg, imports>>

(* CacheFlushHandler loads whatever the revisions say.                      *)
Flush(p) ==
    /\ Active(p, "idle") /\ RoleOf[p] = "admin" /\ revision > 0
    /\ Goto(p, "rev")
    /\ UNCHANGED <<minEntries, storeVars, index, up, msgs, reg, imports, faults>>

-----------------------------------------------------------------------------
(* What changes the table.                                                  *)

(* updateWhitelist's transaction: the public suffixes are dropped, and the  *)
(* rows and the revision commit together.                                   *)
Replace(domains) ==
    /\ revision < MaxRevision
    /\ table' = domains \cap Safe
    /\ revision' = revision + 1

(* RestoreWhitelistSnapshot by the rollback handler, which then rebuilds    *)
(* the index of its own process.                                            *)
Rollback(p, i) ==
    /\ Active(p, "idle") /\ RoleOf[p] = "admin"
    /\ snapshots[i].set # {}
    /\ Replace(snapshots[i].set)
    /\ reg' = [reg EXCEPT ![p].tell = TRUE]
    /\ Goto(p, "rev")
    /\ UNCHANGED <<minEntries, snapshots, index, up, msgs, imports, faults>>

(* PublishWhitelistReload: whoever subscribes is told the revision that     *)
(* this process publishes; without Redis nobody is.                         *)
Announce(p) ==
    /\ Active(p, "announce")
    /\ \/ msgs' = msgs \cup {m \in [node : Node, rev : {index[NodeOf[p]].rev}] :
                               /\ m.rev > 0 /\ up[m.node]
                               /\ \E q \in Proc : RoleOf[q] = "subscribe" /\ NodeOf[q] = m.node}
       \/ UNCHANGED msgs
    /\ Finish(p)
    /\ UNCHANGED <<minEntries, storeVars, index, up, imports, faults>>

(* The import task has downloaded a list.                                   *)
Download(p, domains) ==
    /\ Active(p, "idle") /\ RoleOf[p] = "import"
    /\ imports < MaxImports /\ imports' = imports + 1
    /\ reg' = [reg EXCEPT ![p].new = domains]
    /\ Goto(p, "snapshot")
    /\ UNCHANGED <<minEntries, storeVars, index, up, msgs, faults>>

(* snapshotCurrentAllowList: nothing to keep when the list is empty.        *)
SnapshotRead(p) ==
    /\ Active(p, "snapshot")
    /\ reg' = [reg EXCEPT ![p].rows = table]
    /\ Goto(p, IF table = {} THEN "floor" ELSE "save")
    /\ UNCHANGED <<minEntries, storeVars, index, up, msgs, imports, faults>>

NextId == IF snapshots = <<>> THEN 1 ELSE snapshots[Len(snapshots)].id + 1

(* pruneWhitelistSnapshots: the newest ones stay.                           *)
Prune(s) == IF Len(s) > MaxSnapshots THEN SubSeq(s, Len(s) - MaxSnapshots + 1, Len(s)) ELSE s

SaveSnapshot(p) ==
    /\ Active(p, "save")
    /\ snapshots' = Prune(Append(snapshots, [id |-> NextId, set |-> reg[p].rows]))
    /\ reg' = [reg EXCEPT ![p].id = NextId]
    /\ Goto(p, "floor")
    /\ UNCHANGED <<minEntries, table, revision, index, up, msgs, imports, faults>>

(* Mutant: the list is counted before the public suffixes are dropped.      *)
AboveFloorRaw(new, old) ==
    \/ old = {}
    \/ /\ Cardinality(new) >= minEntries
       /\ Cardinality(new) * 100 >= Cardinality(old) * MinPercent

(* The poison floor: it applies when there is something to lose.            *)
AboveFloor(new, old) ==
    \/ old = {}
    \/ /\ Cardinality(new \cap Safe) >= minEntries
       /\ Cardinality(new \cap Safe) * 100 >= Cardinality(old) * MinPercent

CheckFloor(p) ==
    /\ Active(p, "floor")
    /\ IF AboveFloor(reg[p].new, table) THEN Goto(p, "commit") /\ UNCHANGED reg ELSE Finish(p)
    /\ UNCHANGED <<minEntries, storeVars, index, up, msgs, imports, faults>>

Commit(p) ==
    /\ Active(p, "commit")
    /\ Replace(reg[p].new)
    /\ Goto(p, "rev")
    /\ UNCHANGED <<minEntries, snapshots, index, up, msgs, reg, imports, faults>>

(* restoreSnapshot after a load that failed.                                *)
Undo(p) ==
    /\ Active(p, "undo")
    /\ LET found == {i \in DOMAIN snapshots : snapshots[i].id = reg[p].id}
       IN IF found = {}
            THEN Finish(p) /\ UNCHANGED <<table, revision>>
            ELSE /\ \E i \in found : Replace(snapshots[i].set)
                 /\ reg' = [reg EXCEPT ![p].undo = TRUE]
                 /\ Goto(p, "rev")
    /\ UNCHANGED <<minEntries, snapshots, index, up, msgs, imports, faults>>

-----------------------------------------------------------------------------

Load(p) ==
    \/ ReadRevision(p) \/ ReadCountEmpty(p) \/ ReadCount(p) \/ StreamRows(p)
    \/ Publish(p) \/ PublishEmpty(p)

Import(p) ==
    \/ SnapshotRead(p) \/ SaveSnapshot(p) \/ CheckFloor(p) \/ Commit(p) \/ Undo(p)

Next ==
    \/ \E p \in Proc :
         \/ Load(p) \/ ReadFails(p)
         \/ Reconcile(p) \/ \E m \in msgs : Deliver(p, m)
         \/ Flush(p)
         \/ \E i \in DOMAIN snapshots : Rollback(p, i)
         \/ Announce(p)
         \/ \E domains \in Lists : Download(p, domains)
         \/ Import(p)
    \/ \E m \in msgs : Lose(m)
    \/ \E n \in Node : Restart(n)

Spec == Init /\ [][Next]_vars

(* The reconciler ticks for ever, a goroutine that has started goes on, and *)
(* the service manager restarts a process; nothing is assumed of messages,  *)
(* handlers or the agent's schedule.                                        *)
Fairness ==
    /\ \A p \in Proc : WF_vars(Load(p)) /\ WF_vars(Reconcile(p))
    /\ \A n \in Node : WF_vars(Restart(n))

FairSpec == Spec /\ Fairness

-----------------------------------------------------------------------------
(* Properties.                                                              *)

(* Every variable has its type.                                             *)
TypeOK ==
    /\ minEntries \in Floors
    /\ table \subseteq Domain /\ revision \in 0..MaxRevision
    /\ snapshots \in Seq(Snapshot) /\ Len(snapshots) <= MaxSnapshots
    /\ index \in [Node -> Index]
    /\ up \in [Node -> BOOLEAN]
    /\ msgs \subseteq [node : Node, rev : Nat]
    /\ pc \in [Proc -> Steps] /\ reg \in [Proc -> Register]
    /\ imports \in 0..MaxImports /\ faults \in 0..MaxFaults

(* An index that carries the store's revision holds the store's rows, with  *)
(* whatever loads, imports and rollbacks overlap: the reconciler, which     *)
(* compares revisions only, never takes a stale set for the current one.    *)
(* It is why loadFromDB reads the revision before the rows.                 *)
RevisionTellsSet ==
    \A n \in Node : index[n].rev = revision => index[n].set = table

(* With a floor configured, no interleaving of imports, rollbacks and loads *)
(* empties a populated index: every name on it would be scored again.       *)
PopulatedStays ==
    [][\A n \in Node : minEntries > 0 /\ index[n].set # {} => index'[n].set # {}]_vars

(* Once the table stops changing, every process comes to serve it, though   *)
(* every reload message may be lost and loads may publish out of order; the *)
(* exception is the index that is kept because the table is empty.          *)
Converges ==
    <>[](\A n \in Node : /\ up[n]
                         /\ \/ index[n] = [set |-> table, rev |-> revision]
                            \/ table = {} /\ index[n].set # {})
=============================================================================
