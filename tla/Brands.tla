-------------------------------- MODULE Brands --------------------------------
(***************************************************************************)
(* The trusted brand list: rows in SQLite that the API edits, a copy in    *)
(* Redis, and a snapshot in the memory of each process, which evaluations  *)
(* read without locks.  An edit drops the writer's snapshot and the Redis  *)
(* copy and bumps the brand revision that cached analysis results carry.   *)
(* Every database and Redis call is a step.  The clock counts in units     *)
(* beside which a call takes no time: it stands still while one is under   *)
(* way.                                                                    *)
(***************************************************************************)
EXTENDS Integers

CONSTANTS
    Process,       \* the API first: it alone serves the edits
    Writer,        \* that process
    Brand,         \* names of brands
    Default,       \* those the program ships with
    TTL,           \* SAFE_ZONE_BRAND_CACHE_TTL_SECONDS
    EntryTTL,      \* lifetime of a cached analysis result
    MaxEdits,      \* bound: edits of the list
    MaxFaults,     \* bound: failed calls
    MaxTime        \* bound: the clock

LifetimeAssumption == TTL \in Nat /\ EntryTTL \in Nat

Absent == 0
Shipped == 1       \* the domains a default brand ships with; edits write 2, 3, ...

VARIABLES
    rows,          \* the table: brand -> its domains, by the edit that wrote them
    memory,        \* process -> its snapshot and when that expires, if it has one
    shared,        \* the Redis copy and its expiry, likewise
    revision,      \* brand_revision in Redis
    entry,         \* the analysis result cached for the domain evaluated
    task,          \* process -> the evaluation under way
    edit,          \* what the edit under way has left to do
    served,        \* what the last decision of any process rested on
    asOf,          \* history: list -> when it was last what the rows say
    now, edits, faults

vars == <<rows, memory, shared, revision, entry, task, edit, served, asOf, now, edits, faults>>

(* DB.ListBrands; an empty table stands for the defaults.                   *)
Defaults == [b \in Brand |-> IF b \in Default THEN Shipped ELSE Absent]
Listed(r) == IF \A b \in Brand : r[b] = Absent THEN Defaults ELSE r

Idle == [at |-> "idle"]
Undecided == [how |-> "none", blind |-> FALSE, age |-> 0, kept |-> 0]

Init ==
    /\ rows = Defaults
    /\ memory = [p \in Process |-> {}]
    /\ shared = {} /\ revision = 0 /\ entry = {}
    /\ task = [p \in Process |-> Idle]
    /\ edit = "none"
    /\ served = Undecided
    /\ asOf = [l \in {Defaults} |-> 0]
    /\ now = 0 /\ edits = 0 /\ faults = 0

Touch(f, l) == [m \in DOMAIN f \cup {l} |-> IF m = l THEN now ELSE f[m]]

Fault == faults < MaxFaults /\ faults' = faults + 1

-----------------------------------------------------------------------------
(* An evaluation reads the revision, which may fail, then the cached result *)
(* that matches it.                                                         *)
ReadRevision(p) ==
    /\ task[p].at = "idle"
    /\ \/ task' = [task EXCEPT ![p] = [at |-> "entry", revision |-> revision]] /\ UNCHANGED faults
       \/ task' = [task EXCEPT ![p] = [at |-> "list", revision |-> -1]] /\ Fault
    /\ UNCHANGED <<rows, memory, shared, revision, entry, edit, served, asOf, now, edits>>

(* What a decision rests on: a list of some age, the shipped one when the   *)
(* rows could not be read (blind), and a result kept for some time.         *)
Decide(how, c, kept) ==
    served' = [how |-> how, blind |-> c.blind, age |-> now - asOf[c.list], kept |-> kept]

ReadEntry(p) ==
    /\ task[p].at = "entry"
    /\ LET hits == {e \in entry : e.revision = task[p].revision}
       IN  \/ /\ hits = {}
              /\ task' = [task EXCEPT ![p].at = "list"]
              /\ UNCHANGED served
           \/ /\ \E e \in hits : Decide("hit", e, now - (e.until - EntryTTL))
              /\ task' = [task EXCEPT ![p] = Idle]
    /\ UNCHANGED <<rows, memory, shared, revision, entry, edit, asOf, now, edits, faults>>

(* ListBrands: the snapshot, else the Redis copy, else the rows.            *)
Renewed(c) == {[list |-> c.list, until |-> now + TTL]}

Holding(p, at, l, blind) ==
    task' = [task EXCEPT ![p] = [at |-> at, revision |-> task[p].revision, list |-> l, blind |-> blind]]

Listing(p, l) == Holding(p, "store", l, FALSE)

FromMemory(p) ==
    /\ task[p].at = "list"
    /\ \/ \E c \in memory[p] : Listing(p, c.list)
       \/ memory[p] = {} /\ task' = [task EXCEPT ![p].at = "redis"]
    /\ UNCHANGED <<rows, memory, shared, revision, entry, edit, served, asOf, now, edits, faults>>

FromRedis(p) ==
    /\ task[p].at = "redis"
    /\ \/ \E c \in shared :
            /\ memory' = [memory EXCEPT ![p] = Renewed(c)]
            /\ Listing(p, c.list) /\ UNCHANGED faults
       \/ /\ shared = {} /\ UNCHANGED <<memory, faults>>
          /\ task' = [task EXCEPT ![p].at = "db"]
       \/ /\ Fault /\ UNCHANGED memory
          /\ task' = [task EXCEPT ![p].at = "db"]
    /\ UNCHANGED <<rows, shared, revision, entry, edit, served, asOf, now, edits>>

FromRows(p) ==
    /\ task[p].at = "db"
    /\ Holding(p, "fill", Listed(rows), FALSE)
    /\ UNCHANGED <<rows, memory, shared, revision, entry, edit, served, asOf, now, edits, faults>>

(* The rows cannot be read: this evaluation goes by the shipped list,       *)
(* however long ago an edit replaced it, and puts it in neither copy.       *)
RowsFail(p) ==
    /\ task[p].at = "db" /\ Fault
    /\ Holding(p, "store", Defaults, TRUE)
    /\ UNCHANGED <<rows, memory, shared, revision, entry, edit, served, asOf, now, edits>>

FillMemory(p) ==
    /\ task[p].at = "fill"
    /\ memory' = [memory EXCEPT ![p] = Renewed(task[p])]
    /\ task' = [task EXCEPT ![p].at = "share"]
    /\ UNCHANGED <<rows, shared, revision, entry, edit, served, asOf, now, edits, faults>>

FillRedis(p) ==
    /\ task[p].at = "share"
    /\ \/ shared' = Renewed(task[p]) /\ UNCHANGED faults
       \/ Fault /\ UNCHANGED shared
    /\ task' = [task EXCEPT ![p].at = "store"]
    /\ UNCHANGED <<rows, memory, revision, entry, edit, served, asOf, now, edits>>

(* The result is cached under the revision read at the start.               *)
Store(p) ==
    /\ task[p].at = "store"
    /\ \/ /\ entry' = {[list |-> task[p].list, blind |-> task[p].blind, until |-> now + EntryTTL,
                        revision |-> IF task[p].revision = -1 THEN 0 ELSE task[p].revision]}
          /\ UNCHANGED faults
       \/ Fault /\ UNCHANGED entry
    /\ Decide("fresh", task[p], 0)
    /\ task' = [task EXCEPT ![p] = Idle]
    /\ UNCHANGED <<rows, memory, shared, revision, edit, asOf, now, edits>>

-----------------------------------------------------------------------------
(* The edits the rows accept: a name is unique, and only a row that exists  *)
(* is changed, renamed or deleted.  The others are refused and change       *)
(* nothing.                                                                 *)
Create(b) == rows[b] = Absent /\ rows' = [rows EXCEPT ![b] = Shipped + edits + 1]

Update(b, c) ==
    /\ rows[b] # Absent /\ (c = b \/ rows[c] = Absent)
    /\ rows' = [rows EXCEPT ![b] = Absent, ![c] = Shipped + edits + 1]

Delete(b) == rows[b] # Absent /\ rows' = [rows EXCEPT ![b] = Absent]

Edit ==
    /\ edit = "none" /\ edits < MaxEdits
    /\ edits' = edits + 1
    /\ \E b \in Brand : Create(b) \/ Delete(b) \/ \E c \in Brand : Update(b, c)
    /\ asOf' = Touch(Touch(asOf, Listed(rows)), Listed(rows'))
    /\ edit' = "memory"
    /\ UNCHANGED <<memory, shared, revision, entry, task, served, now, faults>>

(* invalidate, then bumpBrandRevision.                                      *)
DropMemory ==
    /\ edit = "memory"
    /\ memory' = [memory EXCEPT ![Writer] = {}]
    /\ edit' = "redis"
    /\ UNCHANGED <<rows, shared, revision, entry, task, served, asOf, now, edits, faults>>

DropRedis ==
    /\ edit = "redis"
    /\ \/ shared' = {} /\ UNCHANGED faults
       \/ Fault /\ UNCHANGED shared
    /\ edit' = "bump"
    /\ UNCHANGED <<rows, memory, revision, entry, task, served, asOf, now, edits>>

Bump ==
    /\ edit = "bump"
    /\ \/ revision' = revision + 1 /\ UNCHANGED faults
       \/ Fault /\ UNCHANGED revision
    /\ edit' = "none"
    /\ UNCHANGED <<rows, memory, shared, entry, task, served, asOf, now, edits>>

(* SeedDefaultBrands when the store is opened: names that are missing are   *)
(* put back, rows that are there keep what the operator wrote.              *)
Seeded(b) == IF b \in Default /\ rows[b] = Absent THEN Shipped ELSE rows[b]

Restart(p) ==
    /\ task[p] = Idle /\ (p = Writer => edit = "none")
    /\ rows' = [b \in Brand |-> Seeded(b)]
    /\ asOf' = Touch(Touch(asOf, Listed(rows)), Listed(rows'))
    /\ memory' = [memory EXCEPT ![p] = {}]
    /\ UNCHANGED <<shared, revision, entry, task, edit, served, now, edits, faults>>

(* Mutant: the expiry of a copy is not looked at.                           *)
LeftAll(c) == c

(* Copies that are past their time are never read again.                    *)
Left(c) == {x \in c : now < x.until}

Tick ==
    /\ now < MaxTime
    /\ \A p \in Process : task[p] = Idle
    /\ edit = "none"
    /\ now' = now + 1
    /\ asOf' = [l \in DOMAIN asOf |-> IF l = Listed(rows) THEN now + 1 ELSE asOf[l]]
    /\ memory' = [p \in Process |-> Left(memory[p])]
    /\ shared' = Left(shared)
    /\ entry' = Left(entry)
    /\ served' = Undecided
    /\ UNCHANGED <<rows, revision, task, edit, edits, faults>>

Evaluate(p) ==
    \/ ReadRevision(p) \/ ReadEntry(p) \/ FromMemory(p) \/ FromRedis(p) \/ FromRows(p)
    \/ RowsFail(p) \/ FillMemory(p) \/ FillRedis(p) \/ Store(p)

Next ==
    \/ \E p \in Process : Evaluate(p) \/ Restart(p)
    \/ Edit \/ DropMemory \/ DropRedis \/ Bump
    \/ Tick

Spec == Init /\ [][Next]_vars

-----------------------------------------------------------------------------
(* Whatever copies are refilled while an edit drops them, an evaluation     *)
(* that got hold of a list never goes by one replaced more than two         *)
(* lifetimes ago, one in Redis and one in the memory that took it from      *)
(* there, and a cached result adds its own lifetime.  One that could not    *)
(* read the rows goes by the shipped list, which has no bound on its age:   *)
(* no copy ever takes that list over as what the rows say, and nothing of   *)
(* the decision outlives the cached result.                                 *)
ListBounded ==
    LET own == IF served.how = "hit" THEN EntryTTL ELSE 0
    IN  IF served.blind THEN served.kept <= own ELSE served.age <= 2 * TTL + own

(* Claimed by docs/architecture/cache-invalidation.md:42: a process goes by *)
(* a list that was read at most SAFE_ZONE_BRAND_CACHE_TTL_SECONDS ago.      *)
WithinOneLifetime == served.how = "fresh" /\ ~served.blind => served.age <= TTL
=============================================================================
