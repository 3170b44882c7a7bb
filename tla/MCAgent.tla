-------------------------------- MODULE MCAgent --------------------------------
(***************************************************************************)
(* The back office, for TLC.  Its parts share no state, so a behaviour     *)
(* exercises one of them.                                                  *)
(***************************************************************************)
EXTENDS AgentParts

CONSTANTS t1, t2

VARIABLE part

closeVars == <<req, prune, inflight, wg, due, queue, writer, workers, phase, late>>
alertVars == <<log, cursor, saved, skipped, run, failed, sent, clock, faults>>
suiteVars == <<part, vars, closeVars, alertVars>>

ASSUME PartAssumptions == L!LifecycleAssumption /\ A!DeliveryAssumption

MCOrder == <<t1, t2>>
MCInterval == [t \in Task |-> IF t = t1 THEN 1 ELSE 2]

SuiteInit ==
    /\ part \in {"engine", "close", "alert"}
    /\ Init /\ L!Init /\ A!Init

(* A step of one part leaves the others alone.                              *)
Engine(act) == part = "engine" /\ act /\ UNCHANGED <<part, closeVars, alertVars>>
Closing(act) == part = "close" /\ act /\ UNCHANGED <<part, vars, alertVars>>
Alert(act) == part = "alert" /\ act /\ UNCHANGED <<part, vars, closeVars>>

SuiteNext == Engine(Next) \/ Closing(L!Next) \/ Alert(A!Next)

(* Fairness of AgentEngine, AlertDelivery and Lifecycle: the engine runs    *)
(* the alert task again and again, each send ends within its timeout, and   *)
(* every goroutine and request that can move does.  A behaviour stays in    *)
(* its part, so the parts share the conjuncts: each is about the action of  *)
(* the part that runs.                                                      *)
SuiteFairness ==
    /\ WF_suiteVars(Engine(Launch) \/ Alert(A!TaskStep) \/ Closing(L!CloseStep))
    /\ WF_suiteVars(Engine(Cancel) \/ Closing(L!Write \/ L!WriterEnds))
    /\ WF_suiteVars(Engine(StopReturn) \/ Closing(L!WorkerEnds))
    /\ WF_suiteVars(Engine(LoopStep) \/ Closing(L!RequestStep("r1")))
    /\ WF_suiteVars(Engine(RunEnds(t1)) \/ Closing(L!RequestStep("r2")))
    /\ WF_suiteVars(Engine(RunEnds(t2)) \/ Closing(L!PruneStep("r1")))
    /\ WF_suiteVars(Engine(Recorded(t1)) \/ Closing(L!PruneStep("r2")))
    /\ WF_suiteVars(Engine(Recorded(t2)))
    /\ SF_suiteVars(Engine(TakeDone))
    /\ SF_suiteVars(Engine(TakeTick))
    /\ SF_suiteVars(Engine(TakeTrigger))

SuiteSpec == SuiteInit /\ [][SuiteNext]_suiteVars /\ SuiteFairness

(* AlertDelivery!BacklogDrains: a backlog over the threshold is worked off. *)
BacklogDrains == A!BacklogDrains

(* Lifecycle!ShutdownEnds: a process told to stop does stop.                *)
ShutdownEnds == L!ShutdownEnds
=============================================================================
