------------------------------ MODULE AuditCursor ------------------------------
(***************************************************************************)
(* How the audit task walks the telemetry: a frozen window of Lookback, a  *)
(* keyset page of the suspicious names in it per cycle, and a cursor that  *)
(* is kept in memory and persisted, across cancelled cycles, audits that   *)
(* fail, writes that are lost and restarts.  What happens to one name is   *)
(* Moderation's.                                                           *)
(***************************************************************************)
EXTENDS Integers, FiniteSets

CONSTANTS
    NameCount,      \* the names are 1..NameCount, in the order of the column
    Lookback,       \* AuditConfig.Lookback
    MinOccurrences, \* AuditConfig.MinOccurrences
    MaxPerCycle,    \* AuditConfig.MaxPerCycle
    MaxTime,        \* bound on the clock
    MaxFaults       \* bound: cancelled cycles, failed audits and writes, crashes

AuditAssumption ==
    /\ NameCount \in Nat /\ Lookback \in Nat
    /\ MinOccurrences \in Nat /\ MaxPerCycle \in Nat \ {0}

VARIABLES
    hits,           \* analysis_log: the seconds a name was seen suspicious at
    cursor,         \* AuditTask.cursor: the end of the window, the last name done
    saved,          \* system_config[agent_audit_cursor]
    run,            \* the cycle: window end, page, the names of it audited
    up,             \* the process runs
    audited,        \* <<name, window end>> of the audits done, for the properties
    now,
    faults

vars == <<hits, cursor, saved, run, up, audited, now, faults>>

Name == 1..NameCount
Fresh == [end |-> -9, last |-> 0]
Resting == [end |-> -9, page |-> {}, done |-> {}]

(* NewAuditTask, over the telemetry of the time before it.                  *)
Init ==
    /\ hits \in [Name -> SUBSET {-1}]
    /\ cursor = Fresh /\ saved = Fresh
    /\ run = Resting /\ up = TRUE
    /\ audited = {} /\ now = 0 /\ faults = 0

(* Telemetry of the resolver: a name is seen again, now.                    *)
See(n) ==
    /\ now \notin hits[n]
    /\ hits' = [hits EXCEPT ![n] = @ \cup {now}]
    /\ UNCHANGED <<cursor, saved, run, up, audited, now, faults>>

(* QuerySuspiciousDomainsPage: the second the window ends in belongs to it. *)
Suspicious(n, end) ==
    Cardinality({t \in hits[n] : t >= end - Lookback /\ t <= end}) >= MinOccurrences

(* ORDER BY domain LIMIT MaxPerCycle.                                       *)
PageOf(c) ==
    LET found == {n \in Name : n > c.last /\ Suspicious(n, c.end)}
    IN  {n \in found : Cardinality({m \in found : m < n}) < MaxPerCycle}

(* Run: a window that was never opened, or whose successor is out of reach, *)
(* starts now; one in its middle is resumed however old it is.              *)
Window ==
    IF cursor.end = Fresh.end \/ (cursor.last = 0 /\ cursor.end < now - Lookback)
      THEN [cursor EXCEPT !.end = now] ELSE cursor

(* storeCursor: the write is detached from the task's context but may fail. *)
Store(c) ==
    /\ cursor' = c
    /\ \/ saved' = c /\ UNCHANGED faults
       \/ faults < MaxFaults /\ faults' = faults + 1 /\ UNCHANGED saved

(* Run, up to the audit of the first name: an empty page retires the        *)
(* window.  A query that fails changes nothing.                             *)
Begin ==
    /\ up /\ run = Resting
    /\ LET found == PageOf(Window)
       IN  \/ /\ found = {}
              /\ Store([end |-> now, last |-> 0])
              /\ UNCHANGED run
           \/ /\ found # {}
              /\ run' = [end |-> Window.end, page |-> found, done |-> {}]
              /\ UNCHANGED <<cursor, saved, faults>>
    /\ UNCHANGED <<hits, up, audited, now>>

(* auditDomain returns without an error, for one name after the other.      *)
Audit ==
    /\ \E n \in run.page \ run.done :
         /\ \A m \in run.page : m < n => m \in run.done
         /\ run' = [run EXCEPT !.done = @ \cup {n}]
         /\ audited' = {a \in audited : a[2] \in {cursor.end, saved.end, run.end}}
                         \cup {<<n, run.end>>}
    /\ UNCHANGED <<hits, cursor, saved, up, now, faults>>

Greatest(names) == CHOOSE n \in names : \A m \in names : m <= n

(* Mutant: the page is left behind as a whole.                              *)
DonePage == Greatest(run.page)

(* lastDone.                                                                *)
Done == Greatest(run.done)

(* The task is cancelled, or an audit fails: the prefix done is committed.  *)
Abort ==
    /\ run.done # run.page /\ faults < MaxFaults
    /\ IF run.done = {} THEN UNCHANGED <<cursor, saved>> /\ faults' = faults + 1
                     ELSE /\ cursor' = [end |-> run.end, last |-> Done]
                          /\ saved' \in {saved, cursor'}
                          /\ faults' = faults + 1
    /\ run' = Resting
    /\ UNCHANGED <<hits, up, audited, now>>

Exhausted == Cardinality(run.page) < MaxPerCycle

(* The page was audited: resume behind it, or retire the window.            *)
Finish ==
    /\ run # Resting /\ run.done = run.page
    /\ Store(IF Exhausted THEN [end |-> now, last |-> 0]
                          ELSE [end |-> run.end, last |-> Done])
    /\ run' = Resting
    /\ UNCHANGED <<hits, up, audited, now>>

Crash ==
    /\ up /\ faults < MaxFaults
    /\ up' = FALSE /\ run' = Resting /\ faults' = faults + 1
    /\ UNCHANGED <<hits, cursor, saved, audited, now>>

(* NewAuditTask and loadCursor: a cursor that cannot be read is a fresh one.*)
Restart ==
    /\ ~up /\ up' = TRUE
    /\ \/ cursor' = saved /\ UNCHANGED faults
       \/ cursor' = Fresh /\ faults < MaxFaults /\ faults' = faults + 1
    /\ UNCHANGED <<hits, saved, run, audited, now>>

Tick ==
    /\ now < MaxTime
    /\ now' = now + 1
    /\ UNCHANGED <<hits, cursor, saved, run, up, audited, faults>>

Next ==
    \/ \E n \in Name : See(n)
    \/ Begin \/ Audit \/ Abort \/ Finish \/ Crash \/ Restart \/ Tick

Spec == Init /\ [][Next]_vars

-----------------------------------------------------------------------------
(* Properties.                                                              *)

(* Names that were suspicious before the window was frozen.                 *)
Owed(end) ==
    {n \in Name : Cardinality({t \in hits[n] : t >= end - Lookback /\ t < end})
                       >= MinOccurrences}

(* A position is passed only behind audited names: whatever was cancelled,  *)
(* failed, lost or restarted, every name of the window at or before the     *)
(* cursor, in memory and persisted, was audited for that window.            *)
PassedWasAudited ==
    \A c \in {cursor, saved} : \A n \in Owed(c.end) :
        n <= c.last => <<n, c.end>> \in audited
=============================================================================
