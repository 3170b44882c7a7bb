------------------------------ MODULE MCAnalysis ------------------------------
(***************************************************************************)
(* The analysis cache for TLC, in three parts of which a behaviour         *)
(* exercises one: a feed that changes while two requests for one domain    *)
(* and one worker run, two requests that compete for the queue and for two *)
(* workers, and one request while the configuration changes.               *)
(***************************************************************************)
EXTENDS AnalysisCache, TLC

VARIABLE part

(* Every configuration has its own content hash.                            *)
MCContent == [v \in 0..MaxConfig |-> v]

(* Requests and workers are interchangeable, and so are domains.            *)
Symmetry == Permutations(Req) \cup Permutations(Worker) \cup Permutations(Domain)

Epoch ==
    /\ config' = config
    /\ Cardinality({w \in Worker : worker'[w].at # "idle"}) <= 1

Queue == config' = config /\ feedData' = feedData

Config ==
    /\ feedData' = feedData
    /\ Cardinality({r \in Req : req'[r].at # "start"}) <= 1

SuiteInit ==
    /\ part \in {"epoch", "queue", "config"}
    /\ Init
    /\ part # "queue" => \A r, s \in Req : req[r].domain = req[s].domain

SuiteNext ==
    /\ UNCHANGED part
    /\ Next
    /\ \/ part = "epoch" /\ Epoch
       \/ part = "queue" /\ Queue
       \/ part = "config" /\ Config

SuiteSpec == SuiteInit /\ [][SuiteNext]_<<part, vars>>

(* The cache without the division, in an instance that is small enough.     *)
WholeSpec == part = "all" /\ Init /\ [][Next /\ UNCHANGED part]_<<part, vars>>
=============================================================================
