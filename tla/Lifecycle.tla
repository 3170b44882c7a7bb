------------------------------- MODULE Lifecycle -------------------------------
(***************************************************************************)
(* How a process ends: the HTTP server drains, the agent stops, and        *)
(* Service.Close waits for its goroutines and closes the store, while      *)
(* requests record an observation, hand a retention prune to a goroutine   *)
(* and enqueue telemetry for the store's writer.                           *)
(***************************************************************************)
EXTENDS Integers, FiniteSets

CONSTANTS
    Request,        \* requests, each of which may start one prune
    Buffer          \* capacity of DB.telemetryCh

LifecycleAssumption == IsFiniteSet(Request)

VARIABLES
    req,            \* where each request is
    prune,          \* the goroutine a request started in backgroundPrune
    inflight,       \* pruneInflight
    wg,             \* pruneWG
    due,            \* no prune was stamped in this interval
    queue,          \* len(telemetryCh)
    writer,         \* telemetryWriter runs
    workers,        \* the background goroutines that use the store
    phase,          \* how far the shutdown is
    late            \* the drain gave up on a request

vars == <<req, prune, inflight, wg, due, queue, writer, workers, phase, late>>

Phases == <<"serving", "draining", "agent", "close", "wait", "prune", "store", "writer", "down">>
Reached(p) == \E i, j \in DOMAIN Phases : Phases[i] = p /\ Phases[j] = phase /\ i <= j

(* lifecycleCtx is cancelled; DB.closed is set; the database is closed.     *)
Cancelled == Reached("wait")
StoreClosed == Reached("writer")
DatabaseClosed == phase = "down"

(* What Close waits for before the store: enrichment and the reload of the  *)
(* configuration are one, "enrichment"; the adblock configuration sync is   *)
(* told to stop and nothing waits for it; "cleanup" is the store's own loop.*)
Workers == {"agent", "enrichment", "adblock", "cleanup"}

Init ==
    /\ req = [r \in Request |-> "new"]
    /\ prune = [r \in Request |-> "none"]
    /\ inflight = FALSE /\ wg = 0 /\ due = TRUE
    /\ queue = 0 /\ writer = TRUE
    /\ workers = Workers
    /\ phase = "serving" /\ late = FALSE

-----------------------------------------------------------------------------
(* A request.                                                               *)

At(r, from, to) == req[r] = from /\ req' = [req EXCEPT ![r] = to]

(* The listener is closed first.                                            *)
Arrive(r) ==
    /\ phase = "serving" /\ At(r, "new", "record")
    /\ UNCHANGED <<prune, inflight, wg, due, queue, writer, workers, phase, late>>

(* record: a write that fails is counted and drops the prune.               *)
RecordFeedback(r) ==
    /\ \/ ~StoreClosed /\ At(r, "record", "maybe")
       \/ At(r, "record", "telemetry")
    /\ UNCHANGED <<prune, inflight, wg, due, queue, writer, workers, phase, late>>

(* maybePrune, and the lifecycle check of backgroundPrune.                  *)
MaybePrune(r) ==
    /\ At(r, "maybe", IF due /\ ~Cancelled THEN "claim" ELSE "telemetry")
    /\ UNCHANGED <<prune, inflight, wg, due, queue, writer, workers, phase, late>>

(* pruneInflight.CompareAndSwap.                                            *)
Claim(r) ==
    /\ At(r, "claim", IF inflight THEN "telemetry" ELSE "start")
    /\ inflight' = TRUE
    /\ UNCHANGED <<prune, wg, due, queue, writer, workers, phase, late>>

StartPrune(r) ==
    /\ At(r, "start", "telemetry")
    /\ prune' = [prune EXCEPT ![r] = "running"]
    /\ wg' = wg + 1 /\ due' = FALSE
    /\ UNCHANGED <<inflight, queue, writer, workers, phase, late>>

(* RecordAnalysis: the check, then the send, which never blocks.            *)
RecordAnalysis(r) ==
    /\ At(r, "telemetry", IF StoreClosed THEN "done" ELSE "send")
    /\ UNCHANGED <<prune, inflight, wg, due, queue, writer, workers, phase, late>>

Send(r) ==
    /\ At(r, "send", "done")
    /\ queue' = IF queue < Buffer THEN queue + 1 ELSE queue
    /\ UNCHANGED <<prune, inflight, wg, due, writer, workers, phase, late>>

-----------------------------------------------------------------------------
(* Goroutines.                                                              *)

(* The prune is over, or its context was cancelled.                         *)
EndPrune(r) ==
    /\ prune[r] = "running"
    /\ prune' = [prune EXCEPT ![r] = "ending"]
    /\ inflight' = FALSE
    /\ UNCHANGED <<req, wg, due, queue, writer, workers, phase, late>>

(* Mutant: the wait group is not told.                                      *)
DonePruneSilent(r) ==
    /\ prune[r] = "ending"
    /\ prune' = [prune EXCEPT ![r] = "none"]
    /\ UNCHANGED <<req, inflight, wg, due, queue, writer, workers, phase, late>>

DonePrune(r) ==
    /\ prune[r] = "ending"
    /\ prune' = [prune EXCEPT ![r] = "none"]
    /\ wg' = wg - 1
    /\ UNCHANGED <<req, inflight, due, queue, writer, workers, phase, late>>

(* urlFeedbackPruneInterval passes.                                         *)
PruneDue ==
    /\ ~due /\ due' = TRUE
    /\ UNCHANGED <<req, prune, inflight, wg, queue, writer, workers, phase, late>>

Write ==
    /\ writer /\ queue > 0
    /\ queue' = queue - 1
    /\ UNCHANGED <<req, prune, inflight, wg, due, writer, workers, phase, late>>

(* telemetryWriter after done: what is in the channel is written first.     *)
WriterEnds ==
    /\ writer /\ StoreClosed /\ queue = 0
    /\ writer' = FALSE
    /\ UNCHANGED <<req, prune, inflight, wg, due, queue, workers, phase, late>>

(* A cancelled loop returns, or the read it was in does.                    *)
WorkerEnds ==
    /\ \E w \in workers :
          /\ \/ w \in {"enrichment", "adblock"} /\ Cancelled
             \/ w = "cleanup" /\ StoreClosed
          /\ workers' = workers \ {w}
    /\ UNCHANGED <<req, prune, inflight, wg, due, queue, writer, phase, late>>

-----------------------------------------------------------------------------
(* The shutdown: the body of run, its deferred calls, Close and Close.      *)

Step(from, to) == phase = from /\ phase' = to

Signal ==
    /\ Step("serving", "draining")
    /\ UNCHANGED <<req, prune, inflight, wg, due, queue, writer, workers, late>>

(* http.Server.Shutdown returns with no handler left, or on its timeout.    *)
Drain ==
    /\ Step("draining", "agent")
    /\ late' = (\E r \in Request : req[r] \notin {"new", "done"})
    /\ UNCHANGED <<req, prune, inflight, wg, due, queue, writer, workers>>

(* Engine.Stop (AgentEngine).                                               *)
StopAgent ==
    /\ Step("agent", "close")
    /\ workers' = workers \ {"agent"}
    /\ UNCHANGED <<req, prune, inflight, wg, due, queue, writer, late>>

CancelLifecycle ==
    /\ Step("close", "wait")
    /\ UNCHANGED <<req, prune, inflight, wg, due, queue, writer, workers, late>>

(* enrichWG.Wait, configReloadWG.Wait.                                      *)
WaitWorkers ==
    /\ "enrichment" \notin workers /\ Step("wait", "prune")
    /\ UNCHANGED <<req, prune, inflight, wg, due, queue, writer, workers, late>>

(* Mutant: Close does not wait for the prune.                               *)
WaitForPruneNot ==
    /\ Step("prune", "store")
    /\ UNCHANGED <<req, prune, inflight, wg, due, queue, writer, workers, late>>

WaitForPrune ==
    /\ wg = 0 /\ Step("prune", "store")
    /\ UNCHANGED <<req, prune, inflight, wg, due, queue, writer, workers, late>>

(* DB.Close.                                                                *)
CloseStore ==
    /\ Step("store", "writer")
    /\ UNCHANGED <<req, prune, inflight, wg, due, queue, writer, workers, late>>

(* DB.Close waits for its two goroutines.                                   *)
CloseDatabase ==
    /\ ~writer /\ "cleanup" \notin workers /\ Step("writer", "down")
    /\ UNCHANGED <<req, prune, inflight, wg, due, queue, writer, workers, late>>

RequestStep(r) ==
    \/ RecordFeedback(r) \/ MaybePrune(r) \/ Claim(r) \/ StartPrune(r)
    \/ RecordAnalysis(r) \/ Send(r)

PruneStep(r) == EndPrune(r) \/ DonePrune(r)

CloseStep ==
    \/ Drain \/ StopAgent \/ CancelLifecycle \/ WaitWorkers \/ WaitForPrune
    \/ CloseStore \/ CloseDatabase

Next ==
    \/ \E r \in Request : Arrive(r) \/ RequestStep(r) \/ PruneStep(r)
    \/ PruneDue \/ Write \/ WriterEnds \/ WorkerEnds \/ Signal \/ CloseStep

Spec == Init /\ [][Next]_vars

-----------------------------------------------------------------------------
(* Properties.                                                              *)

(* The database is closed after its users: when the drain did not give up   *)
(* on a request, no request, prune, task or worker is left to find it       *)
(* closed, and every telemetry entry that was accepted has been written.    *)
(* The one user Close does not wait for is the adblock configuration sync.  *)
StoreOutlivesUsers ==
    (DatabaseClosed /\ ~late) =>
        /\ \A r \in Request : req[r] \in {"new", "done"} /\ prune[r] = "none"
        /\ workers \subseteq {"adblock"} /\ ~writer /\ queue = 0

(* What the comment of Close says: it stops background work and releases    *)
(* the store.  The adblock configuration sync, which reads the store with a *)
(* context of its own, may still run when the store is closed.              *)
CloseStopsWork == (DatabaseClosed /\ ~late) => workers = {}

(* A process told to stop does not hang: it goes down, whatever its         *)
(* goroutines were doing.                                                   *)
ShutdownEnds == []<>(phase \in {"serving", "down"})
=============================================================================
