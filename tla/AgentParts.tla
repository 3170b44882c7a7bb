------------------------------ MODULE AgentParts ------------------------------
(***************************************************************************)
(* The back office: the task engine, the alerts one of its tasks delivers, *)
(* and the end of the process it runs in.  The parts share no state.       *)
(***************************************************************************)
EXTENDS AgentEngine

CONSTANTS
    Request, Buffer,
    Channels, PageSize, MaxPages, MinEvents, MaxEvents, MaxSeconds, MaxFaults

VARIABLES
    req, prune, inflight, wg, due, queue, writer, workers, phase, late,
    log, cursor, saved, skipped, run, failed, sent, clock, faults

L == INSTANCE Lifecycle

A == INSTANCE AlertDelivery WITH now <- clock, MaxTime <- MaxSeconds

(* Lifecycle!StoreOutlivesUsers: the database is closed after its last      *)
(* user, with the telemetry written.                                        *)
StoreOutlivesUsers == L!StoreOutlivesUsers

(* AlertDelivery!AtLeastOnce: a row the cursor passed is known to its       *)
(* channels, or a restart without a readable cursor jumped over it.         *)
AtLeastOnce == A!AtLeastOnce

(* AlertDelivery!NothingSkipped: the contract alert.go states, that no      *)
(* restart skips an event.                                                  *)
NothingSkipped == A!NothingSkipped

(* Lifecycle!CloseStopsWork: what the comment of Close says, that it stops  *)
(* background work.                                                         *)
CloseStopsWork == L!CloseStopsWork
=============================================================================
