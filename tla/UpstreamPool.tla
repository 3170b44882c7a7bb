------------------------------ MODULE UpstreamPool ------------------------------
(***************************************************************************)
(* The pool of upstream DoH endpoints: callers of Forward try them in the  *)
(* order they saw at the start, a prober tries all of them again and       *)
(* again, and each attempt marks its endpoint.  A caller that goes away    *)
(* fails everywhere, and its marks are those of a real failure.            *)
(***************************************************************************)
EXTENDS Integers, Sequences, FiniteSets, SequencesExt

CONSTANTS
    Endpoints,      \* the configured endpoints, in order
    Caller,         \* concurrent calls of Forward
    Latency,        \* measured latencies, above zero
    MaxChanges      \* bound: changes of reachability, and callers that go away

VARIABLES
    pool,           \* per endpoint: healthy, latency (0: never measured)
    reachable,      \* endpoints that answer
    call,           \* per caller: endpoints left, tried, gone
    probe,          \* endpoints left in this round of probeAll
    changes

vars == <<pool, reachable, call, probe, changes>>

Endpoint == ToSet(Endpoints)
Idle == [status |-> "idle", left |-> <<>>, tried |-> {}, gone |-> FALSE]

Init ==
    /\ pool = [e \in Endpoint |-> [healthy |-> TRUE, latency |-> 0]]
    /\ reachable = Endpoint
    /\ call = [c \in Caller |-> Idle]
    /\ probe = <<>>
    /\ changes = 0

Index(e) == CHOOSE i \in DOMAIN Endpoints : Endpoints[i] = e

(* The comparison of orderedEndpoints, made total by the stable sort: the   *)
(* healthy first, then the measured, then the fast.                         *)
Before(e, f) ==
    LET rank(x) == <<IF pool[x].healthy THEN 0 ELSE 1,
                     IF pool[x].latency = 0 THEN 1 ELSE 0, pool[x].latency, Index(x)>>
    IN  \E i \in 1..4 : /\ rank(e)[i] < rank(f)[i]
                        /\ \A j \in 1..(i - 1) : rank(e)[j] = rank(f)[j]

OrderedEndpoints == SetToSortSeq(Endpoint, Before)

(* Mutant: a success leaves the mark of the failure before it.              *)
MarkSuccessLatencyOnly(e, l) == pool' = [pool EXCEPT ![e].latency = l]

MarkSuccess(e, l) == pool' = [pool EXCEPT ![e] = [healthy |-> TRUE, latency |-> l]]

MarkFailure(e) == pool' = [pool EXCEPT ![e].healthy = FALSE]

Forward(c) ==
    /\ call[c] = Idle
    /\ call' = [call EXCEPT ![c] = [Idle EXCEPT !.status = "trying", !.left = OrderedEndpoints]]
    /\ UNCHANGED <<pool, reachable, probe, changes>>

(* Exchange answers.                                                        *)
Answer(c) ==
    /\ call[c].status = "trying" /\ call[c].left # <<>> /\ ~call[c].gone
    /\ Head(call[c].left) \in reachable
    /\ \E l \in Latency : MarkSuccess(Head(call[c].left), l)
    /\ call' = [call EXCEPT ![c] = Idle]
    /\ UNCHANGED <<reachable, probe, changes>>

(* Exchange fails: the endpoint, or the caller's context.                   *)
Fail(c) ==
    /\ call[c].status = "trying" /\ call[c].left # <<>>
    /\ Head(call[c].left) \notin reachable \/ call[c].gone
    /\ MarkFailure(Head(call[c].left))
    /\ call' = [call EXCEPT ![c] = [@ EXCEPT !.left = Tail(@), !.tried = @ \cup {Head(call[c].left)}]]
    /\ UNCHANGED <<reachable, probe, changes>>

(* Every endpoint failed.                                                   *)
Return(c) ==
    /\ call[c].status = "trying" /\ call[c].left = <<>>
    /\ call' = [call EXCEPT ![c].status = "error"]
    /\ UNCHANGED <<pool, reachable, probe, changes>>

Again(c) ==
    /\ call[c].status = "error"
    /\ call' = [call EXCEPT ![c] = Idle]
    /\ UNCHANGED <<pool, reachable, probe, changes>>

GoAway(c) ==
    /\ call[c].status = "trying" /\ ~call[c].gone /\ changes < MaxChanges
    /\ call' = [call EXCEPT ![c].gone = TRUE]
    /\ changes' = changes + 1
    /\ UNCHANGED <<pool, reachable, probe>>

(* probeAll, at once and on every tick.                                     *)
StartProbe ==
    /\ probe = <<>>
    /\ probe' = OrderedEndpoints
    /\ UNCHANGED <<pool, reachable, call, changes>>

Probe ==
    /\ probe # <<>>
    /\ \/ Head(probe) \in reachable /\ \E l \in Latency : MarkSuccess(Head(probe), l)
       \/ Head(probe) \notin reachable /\ MarkFailure(Head(probe))
    /\ probe' = Tail(probe)
    /\ UNCHANGED <<reachable, call, changes>>

(* An endpoint goes down or comes back.                                     *)
Change(e) ==
    /\ changes < MaxChanges
    /\ reachable' = IF e \in reachable THEN reachable \ {e} ELSE reachable \cup {e}
    /\ changes' = changes + 1
    /\ UNCHANGED <<pool, call, probe>>

CallStep(c) == Answer(c) \/ Fail(c) \/ Return(c) \/ Again(c)

Next ==
    \/ \E c \in Caller : Forward(c) \/ CallStep(c) \/ GoAway(c)
    \/ StartProbe \/ Probe
    \/ \E e \in Endpoint : Change(e)

Spec == Init /\ [][Next]_vars

-----------------------------------------------------------------------------
(* Properties.                                                              *)

(* The marks heal: after the last outage and the last caller that went away *)
(* an endpoint is marked healthy exactly when it answers.                   *)
MarksHeal == <>[](\A e \in Endpoint : pool[e].healthy = (e \in reachable))
=============================================================================
