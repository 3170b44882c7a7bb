------------------------------- MODULE FeedSync -------------------------------
(***************************************************************************)
(* The threat feed in Redis and its writers.  The feed is one sorted set   *)
(* of names scored by the day they expire, next to a revision that retires *)
(* cached verdicts.  The daemon, the one-shot tool and the agent's task    *)
(* sync one source after another, additively or (when they own the key)    *)
(* by staging a new set and renaming it over the live one; the OSINT task  *)
(* promotes single names.  Any Redis call, and the process, may fail at    *)
(* any step.                                                               *)
(***************************************************************************)
EXTENDS Integers, FiniteSets, Sequences

CONSTANTS
    Writer,         \* processes that sync sources
    Source,         \* feed sources
    Cycle,          \* the sources of a writer, in their configured order
    Domain,         \* names a source may list
    Listings,       \* what a download may turn out to list
    Refused,        \* public suffixes and shared serving hosts among them
    ChurnProne,     \* tenants of recycled-label roots among them
    TTL,            \* SAFE_ZONE_FEED_TTL_DAYS
    ChurnTTLs,      \* values of SAFE_ZONE_FEED_CHURN_TTL_DAYS to consider
    Interval,       \* days between the cycles of a writer
    CheckedInterval,\* the interval start-up compares the churn window with
    StaleAfter,     \* days without a success before a source is stale
    BatchSize,      \* defaultRedisBatchSize
    MinWrites,      \* SAFE_ZONE_FEED_CACHE_INVALIDATION_MIN_WRITES
    MaxTime,        \* bound: the last day
    MaxRevision,    \* bound: bumps of the revision
    MaxFaults       \* bound: failing calls and crashes

(* The windows and intervals are settings of their own, and nothing relates *)
(* them but ValidChurnTTL.  The daemon checks the interval it runs on;      *)
(* core-api checks SAFE_ZONE_FEED_SYNC_INTERVAL_SECONDS while its task runs *)
(* every SAFE_ZONE_AGENT_FEED_INTERVAL_SECONDS; the one-shot tool, whose    *)
(* cycles are the operator's, checks none.                                  *)
ASSUME FeedAssumption ==
    /\ Cycle \in [Writer -> Seq(Source)] /\ \A w \in Writer : Cycle[w] # <<>>
    /\ Refused \subseteq Domain /\ ChurnProne \subseteq Domain
    /\ Listings \subseteq SUBSET Domain /\ ChurnTTLs \subseteq Nat
    /\ Interval \in Nat \ {0} /\ CheckedInterval \in Nat
    /\ TTL \in Nat \ {0} /\ StaleAfter \in Nat
    /\ BatchSize \in Nat \ {0} /\ MinWrites \in Nat \ {0}
    /\ IsFiniteSet(Domain)
    /\ MaxTime \in Nat /\ MaxRevision \in Nat /\ MaxFaults \in Nat

Absent == 0 - 1     \* the score of a name that is not a member

VARIABLES
    now,            \* the day
    churnTTL,       \* the configured churn window, 0 when disabled
    replacing,      \* the -replace flag: one writer that owns the key
    live,           \* the sorted set: the expiry day of every member
    revision,       \* the feed revision
    staging,        \* per writer: its staging set
    status,         \* per source: the status record
    due,            \* per writer: the day of its next cycle
    pc, reg,        \* per writer: its step and what its sync holds
    promoted,       \* names the running OSINT cycle counted as promoted
    faults,
    listed          \* history: what the last successful sync of a source wrote

feedVars == <<live, revision, staging>>
vars == <<now, churnTTL, replacing, live, revision, staging, status, due, pc,
          reg, promoted, faults, listed>>

Scores == [Domain -> Absent..(MaxTime + TTL)]
Empty == [d \in Domain |-> Absent]
Members(set) == {d \in Domain : set[d] # Absent}
Unexpired(set) == {d \in Domain : set[d] >= now}

Status == [state : {"never", "ok", "error"}, success : Absent..MaxTime, empty : BOOLEAN]
Register == [todo : Seq(Source), list : SUBSET Domain, rest : SUBSET Domain,
             written : 0..Cardinality(Domain)]
NoRegister == [todo |-> <<>>, list |-> {}, rest |-> {}, written |-> 0]

(* Mutant: any window as long as the interval will do.                      *)
ValidChurnTTLWeak(days) == days = 0 \/ days >= CheckedInterval

(* ChurnTTLFromDays and CheckChurnTTLAgainstInterval: a window is refused   *)
(* unless it is off, or at least two days and longer than the interval it   *)
(* is compared with; with no comparison CheckedInterval is 0.               *)
ValidChurnTTL(days) == days = 0 \/ (days >= 2 /\ days > CheckedInterval)

(* ParseSettings: replace is refused for more than one source; that the key *)
(* is then owned by one writer is the operator's duty.                      *)
Active == IF replacing THEN {w \in Writer : Len(Cycle[w]) = 1} ELSE Writer

Init ==
    /\ now = 0
    /\ churnTTL \in {days \in ChurnTTLs : ValidChurnTTL(days)}
    /\ replacing \in BOOLEAN
    /\ live = Empty /\ revision = 0
    /\ staging = [w \in Writer |-> Empty]
    /\ status = [s \in Source |-> [state |-> "never", success |-> Absent, empty |-> FALSE]]
    /\ due = [w \in Writer |-> 0]
    /\ pc = [w \in Writer |-> "idle"]
    /\ reg = [w \in Writer |-> NoRegister]
    /\ promoted = {}
    /\ faults = 0
    /\ listed = [s \in Source |-> {}]

Goto(w, step) == pc' = [pc EXCEPT ![w] = step]
Fault == faults < MaxFaults /\ faults' = faults + 1
Current(w) == Head(reg[w].todo)

(* IsAdmissibleDomain and MemberTTL.                                        *)
Admissible(d) == d \notin Refused
MemberTTL(d) ==
    IF churnTTL = 0 \/ d \notin ChurnProne \/ churnTTL >= TTL THEN TTL ELSE churnTTL

(* ZADD: rescored members are not counted as written.                       *)
ZAdd(set, names) == [d \in Domain |-> IF d \in names THEN now + MemberTTL(d) ELSE set[d]]
(* ZREMRANGEBYSCORE -inf now.                                               *)
ZSweep(set) == [d \in Domain |-> IF set[d] <= now THEN Absent ELSE set[d]]

(* INCR of the revision: every verdict cached before it is retired.         *)
Bump == revision < MaxRevision /\ revision' = revision + 1

-----------------------------------------------------------------------------
(* A cycle: one Sync per source.                                            *)

StartCycle(w) ==
    /\ w \in Active /\ pc[w] = "idle" /\ due[w] <= now
    /\ due' = [due EXCEPT ![w] = now + Interval]
    /\ reg' = [reg EXCEPT ![w] = [NoRegister EXCEPT !.todo = Cycle[w]]]
    /\ Goto(w, "open")
    /\ UNCHANGED <<now, churnTTL, replacing, feedVars, status, promoted, faults, listed>>

(* The next source, or the end of the cycle: a source that failed does not  *)
(* stop the others.                                                         *)
NextSource(w) ==
    LET rest == Tail(reg[w].todo)
    IN  /\ reg' = [reg EXCEPT ![w] = [NoRegister EXCEPT !.todo = rest]]
        /\ Goto(w, IF rest = <<>> THEN "idle" ELSE "open")

(* fail(): the failure is recorded under a deadline of its own, best effort. *)
RecordFailure(w) ==
    status' = [status EXCEPT ![Current(w)].state = "error"]

(* OpenSourceWithin and the parse have delivered the names of the source;   *)
(* a captive portal or an empty body delivers none.  A replace sync stages  *)
(* under a key of its own: what an earlier one left behind is not in it.    *)
Open(w, names) ==
    /\ pc[w] = "open"
    /\ staging' = [staging EXCEPT ![w] = Empty]
    /\ reg' = [reg EXCEPT ![w].list = names, ![w].rest = {d \in names : Admissible(d)}]
    /\ Goto(w, "write")
    /\ UNCHANGED <<now, churnTTL, replacing, live, revision, status, due, promoted, faults, listed>>

(* flush: a full batch, or what is left.                                    *)
Batches(names) ==
    {b \in SUBSET names : Cardinality(b) = BatchSize \/ (b = names /\ Cardinality(b) < BatchSize)}

WriteBatch(w) ==
    /\ pc[w] = "write" /\ reg[w].rest # {}
    /\ \E b \in Batches(reg[w].rest) :
         LET target == IF replacing THEN staging[w] ELSE live
         IN  /\ reg' = [reg EXCEPT ![w].rest = @ \ b,
                                   ![w].written = @ + Cardinality(b \ Members(target))]
             /\ IF replacing
                  THEN staging' = [staging EXCEPT ![w] = ZAdd(@, b)] /\ UNCHANGED live
                  ELSE live' = ZAdd(live, b) /\ UNCHANGED staging
    /\ UNCHANGED <<now, churnTTL, replacing, revision, status, due, pc, promoted, faults, listed>>

(* The sweep of expired members; a failing one is only logged.              *)
Sweep(w) ==
    /\ pc[w] = "write" /\ reg[w].rest = {}
    /\ \/ UNCHANGED faults
          /\ IF replacing
               THEN staging' = [staging EXCEPT ![w] = ZSweep(@)] /\ UNCHANGED live
               ELSE live' = ZSweep(live) /\ UNCHANGED staging
       \/ Fault /\ UNCHANGED <<live, staging>>
    /\ Goto(w, IF replacing THEN "rename" ELSE "bump")
    /\ UNCHANGED <<now, churnTTL, replacing, revision, status, due, reg, promoted, listed>>

(* Mutant: the rename has no guard.                                         *)
CanRenameAlways(w) == TRUE

(* A replace sync with nothing valid keeps the live feed, and renaming a    *)
(* staging set that was never created is an error.                          *)
CanRename(w) == reg[w].list # {} /\ Members(staging[w]) # {}

Rename(w) ==
    /\ pc[w] = "rename" /\ CanRename(w)
    /\ live' = staging[w]
    /\ staging' = [staging EXCEPT ![w] = Empty]
    /\ Goto(w, "bump")
    /\ UNCHANGED <<now, churnTTL, replacing, revision, status, due, reg, promoted, faults, listed>>

RenameRefused(w) ==
    /\ pc[w] = "rename" /\ ~CanRename(w)
    /\ staging' = [staging EXCEPT ![w] = Empty]
    /\ RecordFailure(w)
    /\ NextSource(w)
    /\ UNCHANGED <<now, churnTTL, replacing, live, revision, due, promoted, faults, listed>>

BumpRevision(w) ==
    /\ pc[w] = "bump"
    /\ IF reg[w].written >= MinWrites \/ replacing THEN Bump ELSE UNCHANGED revision
    /\ Goto(w, "status")
    /\ UNCHANGED <<now, churnTTL, replacing, live, staging, status, due, reg, promoted, faults, listed>>

RecordSuccess(w) ==
    /\ pc[w] = "status"
    /\ status' = [status EXCEPT ![Current(w)] =
                    [state |-> "ok", success |-> now, empty |-> reg[w].list = {}]]
    /\ listed' = [listed EXCEPT ![Current(w)] = {d \in reg[w].list : Admissible(d)}]
    /\ NextSource(w)
    /\ UNCHANGED <<now, churnTTL, replacing, feedVars, due, promoted, faults>>

(* A call of Sync fails: the download, a batch, the rename, the bump or the *)
(* status write.  What is already live stays; the staging set is deleted,   *)
(* unless that fails too.                                                   *)
SyncFails(w) ==
    /\ pc[w] # "idle" /\ Fault
    /\ staging' \in {staging, [staging EXCEPT ![w] = Empty]}
    /\ RecordFailure(w)
    /\ NextSource(w)
    /\ UNCHANGED <<now, churnTTL, replacing, live, revision, due, promoted, listed>>

(* The agent's task looks at its context before every source and returns.   *)
Cancelled(w) ==
    /\ pc[w] = "open" /\ Fault
    /\ Goto(w, "idle")
    /\ reg' = [reg EXCEPT ![w] = NoRegister]
    /\ UNCHANGED <<now, churnTTL, replacing, feedVars, status, due, promoted, listed>>

Crash(w) ==
    /\ pc[w] # "idle" /\ Fault
    /\ Goto(w, "idle")
    /\ reg' = [reg EXCEPT ![w] = NoRegister]
    /\ UNCHANGED <<now, churnTTL, replacing, feedVars, status, due, promoted, listed>>

-----------------------------------------------------------------------------
(* The OSINT task.                                                          *)

(* promote: a member whose cached verdict could not be deleted is not       *)
(* counted.                                                                 *)
Promote(d) ==
    /\ Admissible(d) /\ d \notin promoted
    /\ live' = ZAdd(live, {d})
    /\ \/ promoted' = promoted \cup {d} /\ UNCHANGED faults
       \/ Fault /\ UNCHANGED promoted
    /\ UNCHANGED <<now, churnTTL, replacing, revision, staging, status, due, pc, reg, listed>>

(* bumpFeedRevision, at the end of a cycle that promoted something.         *)
EndPromotions ==
    /\ promoted # {} /\ promoted' = {}
    /\ \/ Bump /\ UNCHANGED faults
       \/ Fault /\ UNCHANGED revision
    /\ UNCHANGED <<now, churnTTL, replacing, live, staging, status, due, pc, reg, listed>>

-----------------------------------------------------------------------------

(* The clock counts days and a sync or a promotion cycle takes minutes, so a *)
(* day passes between them; the ticker does not skip a cycle that is due.    *)
Tick ==
    /\ now < MaxTime /\ now' = now + 1
    /\ promoted = {}
    /\ \A w \in Active : pc[w] = "idle" /\ due[w] > now
    /\ UNCHANGED <<churnTTL, replacing, feedVars, status, due, pc, reg, promoted, faults, listed>>

Next ==
    \/ \E w \in Writer :
         \/ StartCycle(w)
         \/ \E names \in Listings : Open(w, names)
         \/ WriteBatch(w) \/ Sweep(w) \/ Rename(w) \/ RenameRefused(w)
         \/ BumpRevision(w) \/ RecordSuccess(w)
         \/ SyncFails(w) \/ Cancelled(w) \/ Crash(w)
    \/ \E d \in Domain : Promote(d)
    \/ EndPromotions
    \/ Tick

Spec == Init /\ [][Next]_vars

-----------------------------------------------------------------------------
(* ReadStatusSummary.                                                       *)

Stale(s) == status[s].success = Absent \/ now - status[s].success > StaleAfter

Summary ==
    LET succeeded == revision > 0 \/ \E s \in Source : status[s].success # Absent
        warning == \E s \in Source : status[s].state = "error" \/ status[s].empty
    IN  CASE Unexpired(live) = {} /\ succeeded -> "missing"
          [] \E s \in Source : Stale(s) -> "stale"
          [] warning -> "warning"
          [] OTHER -> "ok"

-----------------------------------------------------------------------------
(* Properties.                                                              *)

(* Every variable has its type; no name that the admission policy refuses   *)
(* is ever a member, whoever writes it.                                     *)
TypeOK ==
    /\ now \in 0..MaxTime /\ churnTTL \in ChurnTTLs /\ replacing \in BOOLEAN
    /\ live \in Scores /\ revision \in 0..MaxRevision
    /\ staging \in [Writer -> Scores]
    /\ status \in [Source -> Status]
    /\ due \in [Writer -> 0..(MaxTime + Interval)]
    /\ pc \in [Writer -> {"idle", "open", "write", "rename", "bump", "status"}]
    /\ reg \in [Writer -> Register]
    /\ promoted \subseteq Domain /\ faults \in 0..MaxFaults
    /\ listed \in [Source -> SUBSET Domain]
    /\ Members(live) \cap Refused = {}

(* No sync takes the protection away: while the clock stands still, a feed  *)
(* with members that expire later keeps some, whatever a source delivers    *)
(* (nothing, garbage, refused names only) and wherever a replace sync fails *)
(* or dies.                                                                 *)
LiveFeedSurvives ==
    [][now' = now /\ (\E d \in Domain : live[d] > now) => \E d \in Domain : live'[d] > now]_vars

(* The comment on FeedSyncConfig.ChurnTTL: a name that a source still       *)
(* listed when its sync last succeeded does not expire before the next      *)
(* cycle, with the shortened window and with the sweeps of other writers in *)
(* between.  Checking one interval and running on another refutes it.       *)
ListedStaysLive ==
    ~replacing =>
      \A s \in Source :
        status[s].success # Absent /\ now <= status[s].success + Interval
          => listed[s] \subseteq Unexpired(live)

(* What an operator has to see to, since start-up does not: the base window *)
(* outlives the interval, and the interval is no longer than the one the    *)
(* churn window was checked against.                                        *)
CheckCoversCycles == Interval < TTL /\ (churnTTL = 0 \/ Interval <= CheckedInterval)

(* And a source turns stale before the shortest window ends: the defaults   *)
(* are 36 hours, 14 days and, when set, at least 2 days.                    *)
WarnsInTime == StaleAfter < TTL /\ (churnTTL = 0 \/ StaleAfter < churnTTL)

(* Listed names are protected, and a status of ok means protected: every    *)
(* name the sources listed when they last delivered is live now.  A failing *)
(* or silent source has to show up as stale before the shortest expiry      *)
(* window takes its names away.  Both hold only of settings that fit.       *)
ListedProtected ==
    /\ CheckCoversCycles => ListedStaysLive
    /\ WarnsInTime /\ ~replacing /\ Summary = "ok"
         => \A s \in Source : listed[s] \subseteq Unexpired(live)
=============================================================================
