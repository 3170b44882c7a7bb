------------------------------ MODULE UrlFeedback ------------------------------
(***************************************************************************)
(* Labels for URL observations.  The memory backend is a ring of           *)
(* fingerprints with an index; the durable one is a table of fingerprints  *)
(* keyed by a secret that may be rotated, in which an event is looked up   *)
(* under the current key and then under the previous one.  Callers choose  *)
(* the event ids, so an id can be recorded again at any time.              *)
(***************************************************************************)
EXTENDS Integers, Sequences, FiniteSets

CONSTANTS
    Event,          \* event ids the memory backend sees
    Persisted,      \* event ids the durable backend sees
    Caller,         \* concurrent calls of the feedback endpoint
    Capacity,       \* urlFeedbackStore.capacity
    MaxRows,        \* URLMLFeedbackConfig.MaxRows
    Retention,      \* URLMLFeedbackConfig.Retention
    MaxKey,         \* bound: secrets ever used
    MaxTime         \* bound on the clock

FeedbackAssumption == Capacity \in Nat \ {0}

VARIABLES
    entries, index, nextSlot,   \* urlFeedbackStore
    rows,           \* url_ml_feedback
    key,            \* version of the current key; the previous one is before it
    call,           \* where each durable apply is
    now

vars == <<entries, index, nextSlot, rows, key, call, now>>

Labels == {"malicious", "benign"}
Waiting == [step |-> "none", event |-> "", label |-> "", key |-> 0]

Init ==
    /\ entries = <<>> /\ index = [e \in {} |-> 0] /\ nextSlot = 1
    /\ rows = {} /\ key = 1
    /\ call = [c \in Caller |-> Waiting]
    /\ now = 0

durable == <<rows, key, call, now>>
memory == <<entries, index, nextSlot>>

-----------------------------------------------------------------------------
(* The memory backend: each call holds the mutex.                           *)

Put(f, k, v) == [x \in DOMAIN f \cup {k} |-> IF x = k THEN v ELSE f[x]]
Drop(f, k) == [x \in DOMAIN f \ {k} |-> f[x]]

Evicted == IF Len(entries) < Capacity THEN index ELSE Drop(index, entries[nextSlot].event)

(* record: a known event has only its probability refreshed, which, with    *)
(* the counters of the status, no step depends on.                          *)
Record(e) ==
    /\ e \notin DOMAIN index
    /\ LET entry == [event |-> e, label |-> "none"]
       IN  entries' = IF Len(entries) < Capacity
                        THEN Append(entries, entry)
                        ELSE [entries EXCEPT ![nextSlot] = entry]
    /\ index' = Put(Evicted, e, nextSlot)
    /\ nextSlot' = (nextSlot % Capacity) + 1
    /\ UNCHANGED durable

(* apply: unknown, labelled and invalid are refused.                        *)
Apply(e, label) ==
    /\ e \in DOMAIN index /\ entries[index[e]].label = "none"
    /\ entries' = [entries EXCEPT ![index[e]].label = label]
    /\ UNCHANGED <<index, nextSlot, durable>>

-----------------------------------------------------------------------------
(* The durable backend: each statement is a step.                           *)

RowOf(e, k) == {r \in rows : r.event = e /\ r.key = k}

(* UpsertURLFeedback: an existing row keeps its label and its age.          *)
RecordRow(e) ==
    /\ RowOf(e, key) = {}
    /\ rows' = rows \cup {[event |-> e, key |-> key, label |-> "none", at |-> now]}
    /\ UNCHANGED <<memory, key, call, now>>

ApplyRow(c, e, label) ==
    /\ call[c] = Waiting
    /\ call' = [call EXCEPT ![c] = [step |-> "update", event |-> e, label |-> label, key |-> key]]
    /\ UNCHANGED <<memory, rows, key, now>>

(* Mutant: UPDATE without "AND labeled = 0".                                *)
OpenAny(e, k) == RowOf(e, k)

Open(e, k) == {r \in RowOf(e, k) : r.label = "none"}

(* ApplyURLFeedbackLabel, its UPDATE.                                       *)
Update(c) ==
    /\ call[c].step = "update"
    /\ LET open == Open(call[c].event, call[c].key)
       IN  /\ rows' = {IF r \in open THEN [r EXCEPT !.label = call[c].label] ELSE r : r \in rows}
           /\ call' = [call EXCEPT ![c] = IF open = {} THEN [@ EXCEPT !.step = "select"] ELSE Waiting]
    /\ UNCHANGED <<memory, key, now>>

(* Its SELECT, which tells a row labelled before from one that is not there:*)
(* then the previous key is tried.                                          *)
Select(c) ==
    /\ call[c].step = "select"
    /\ LET done == \E r \in RowOf(call[c].event, call[c].key) : r.label # "none"
       IN  call' = [call EXCEPT ![c] =
                      IF done \/ @.key = 1 \/ @.key < key THEN Waiting
                      ELSE [@ EXCEPT !.step = "update", !.key = call[c].key - 1]]
    /\ UNCHANGED <<memory, rows, key, now>>

(* What ORDER BY recorded_at LIMIT n may choose.                            *)
Oldest(set, n) ==
    CHOOSE chosen \in SUBSET set :
        /\ Cardinality(chosen) = n
        /\ \A r \in chosen, q \in set \ chosen : r.at <= q.at

(* PruneURLFeedback: age, then the cap.  Its three statements are one step: *)
(* between them rows may be added or labelled, but all they do is take rows *)
(* away, and what a label must stand against is a row that stays.           *)
Prune ==
    /\ LET young == {r \in rows : r.at >= now - Retention}
           excess == Cardinality(young) - MaxRows
       IN  rows' = IF excess > 0 THEN young \ Oldest(young, excess) ELSE young
    /\ rows' # rows
    /\ UNCHANGED <<memory, key, call, now>>

(* The service restarts with a new secret and keeps the one before; the     *)
(* memory backend starts empty.                                             *)
Rotate ==
    /\ key < MaxKey
    /\ key' = key + 1
    /\ call' = [c \in Caller |-> Waiting]
    /\ entries' = <<>> /\ index' = [e \in {} |-> 0] /\ nextSlot' = 1
    /\ UNCHANGED <<rows, now>>

Tick ==
    /\ now < MaxTime
    /\ now' = now + 1
    /\ UNCHANGED <<memory, rows, key, call>>

MemoryNext == \E e \in Event :
    \/ Record(e)
    \/ \E label \in Labels : Apply(e, label)

DurableNext ==
    \/ \E e \in Persisted : \/ RecordRow(e)
                            \/ \E c \in Caller, label \in Labels : ApplyRow(c, e, label)
    \/ \E c \in Caller : Update(c) \/ Select(c)
    \/ Prune \/ Rotate \/ Tick

Next == MemoryNext \/ DurableNext

Spec == Init /\ [][Next]_vars

-----------------------------------------------------------------------------
(* Properties.                                                              *)

(* After any number of evictions and repeats the index names, for each      *)
(* event kept, the one slot that holds it, and nothing else.                *)
RingExact ==
    /\ Len(entries) <= Capacity
    /\ DOMAIN index = {entries[i].event : i \in DOMAIN entries}
    /\ \A i \in DOMAIN entries : index[entries[i].event] = i

(* A label stands: of two calls for one event, in any order and also when   *)
(* the event is recorded again between them, the second never replaces the  *)
(* label of a row, and a row keeps the age it is pruned by.                 *)
KeepsLabels ==
    \A r \in rows : \A q \in rows' :
        (q.event = r.event /\ q.key = r.key) =>
            q.at = r.at /\ (r.label # "none" => q.label = r.label)

(* What sessions label is kept, in memory and in the store.                 *)
FeedbackKept == []RingExact /\ [][KeepsLabels]_vars
=============================================================================
