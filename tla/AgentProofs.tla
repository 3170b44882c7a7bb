----------------------------- MODULE AgentProofs -----------------------------
(***************************************************************************)
(* Proofs about the back office.  The agent engine, for any number of      *)
(* tasks, triggers and ticks: no task runs twice at once, and nothing runs *)
(* once Stop has returned.  What SelectSeq picks for the loop is not       *)
(* needed: executeTask checks again, under the mutex, whatever it is       *)
(* given.  Then the end of a process and the delivery of alerts.           *)
(***************************************************************************)
EXTENDS AgentParts, TLAPS, FiniteSetTheorems, NaturalsInduction, WellFoundedInduction

(* The types the argument needs.                                            *)
Types ==
    /\ stopped \in BOOLEAN
    /\ state \in [Task -> {"idle", "running", "failed"}]
    /\ running \in [Task -> Nat] /\ tail \in [Task -> Nat]

(* The state of a task and its goroutine agree; the flag is up from the     *)
(* first step of Stop on, and what Stop waited for does not come back.      *)
EngineInv ==
    /\ Types
    /\ \A t \in Task : running[t] \in {0, 1} /\ (state[t] = "running" <=> running[t] = 1)
    /\ stopper # "idle" => stopped
    /\ stopper = "returned" => \A t \in Task : running[t] = 0 /\ tail[t] = 0

LEMMA InitEngine == ASSUME Init PROVE EngineInv
<1>1. Types
  BY DEF Init, Types
<1>2. \A t \in Task : running[t] = 0 /\ state[t] = "idle"
  BY DEF Init
<1>3. stopper = "idle"
  BY DEF Init
<1> QED BY <1>1, <1>2, <1>3 DEF EngineInv

(* Start and Stop themselves.                                               *)
LEMMA CallersEngine ==
    ASSUME EngineInv, StartFlag \/ Launch \/ StopFlag \/ Cancel \/ StopReturn
    PROVE  EngineInv'
BY DEF EngineInv, Types, StartFlag, Launch, StopFlag, Cancel, StopReturn, AtRest

(* executeTask starts a goroutine only for a task that has none, and none   *)
(* at all once the flag is up.                                              *)
LEMMA ExecuteEngine == ASSUME EngineInv, NEW t \in Task \cup {Head(todo)}, Execute(t) PROVE EngineInv'
<1>1. stopper' = stopper /\ stopped' = stopped /\ UNCHANGED tail
  BY DEF Execute
<1>2. CASE MayExecute(t) /\ t \in Task
  <2>1. /\ state' = [state EXCEPT ![t] = "running"]
        /\ running' = [running EXCEPT ![t] = @ + 1]
    BY <1>2 DEF Execute
  <2>2. running[t] = 0 /\ ~stopped
    BY <1>2 DEF MayExecute, EngineInv
  <2>3. running' = [running EXCEPT ![t] = 1]
    BY <2>1, <2>2 DEF EngineInv, Types
  <2> QED BY <1>1, <1>2, <2>1, <2>2, <2>3 DEF EngineInv, Types
<1>3. CASE ~(MayExecute(t) /\ t \in Task)
  <2>1. state' = state /\ running' = running
    BY <1>3 DEF Execute, EngineInv, Types
  <2> QED BY <1>1, <2>1 DEF EngineInv, Types
<1> QED BY <1>2, <1>3

LEMMA LoopEngine == ASSUME EngineInv, LoopStep PROVE EngineInv'
<1>1. CASE Scan \/ EndDue \/ TakeDone \/ TakeTrigger \/ TakeTick
  BY <1>1 DEF EngineInv, Types, Scan, EndDue, TakeDone, TakeTrigger, TakeTick
<1>2. CASE ExecuteDue \/ ExecuteNamed
  BY <1>2, ExecuteEngine DEF ExecuteDue, ExecuteNamed
<1> QED BY <1>1, <1>2 DEF LoopStep

(* A task's goroutine ends in two steps; neither is possible after Stop has *)
(* returned.                                                                *)
LEMMA TaskEngine ==
    ASSUME EngineInv, NEW t \in Task, Trigger(t) \/ RunEnds(t) \/ Recorded(t)
    PROVE  EngineInv'
<1>1. CASE Trigger(t)
  BY <1>1 DEF EngineInv, Types, Trigger
<1>2. CASE RunEnds(t)
  <2>1. running[t] = 1 /\ stopper # "returned"
    BY <1>2 DEF RunEnds, EngineInv, Types
  <2>2. /\ running' = [running EXCEPT ![t] = 0]
        /\ tail' \in [Task -> Nat]
    BY <1>2, <2>1 DEF RunEnds, EngineInv, Types
  <2>3. /\ state' \in [Task -> {"idle", "running", "failed"}]
        /\ state'[t] # "running"
        /\ \A u \in Task : u # t => state'[u] = state[u]
    BY <1>2 DEF RunEnds, SetTaskResult, EngineInv, Types
  <2>4. UNCHANGED <<stopped, stopper>>
    BY <1>2 DEF RunEnds
  <2>5. \A u \in Task : running'[u] \in {0, 1} /\ (state'[u] = "running" <=> running'[u] = 1)
    BY <2>2, <2>3 DEF EngineInv, Types
  <2> QED BY <2>1, <2>2, <2>3, <2>4, <2>5 DEF EngineInv, Types
<1>3. CASE Recorded(t)
  <2>1. tail' \in [Task -> Nat] /\ stopper # "returned"
    BY <1>3 DEF Recorded, EngineInv, Types
  <2> QED BY <1>3, <2>1 DEF Recorded, EngineInv, Types
<1> QED BY <1>1, <1>2, <1>3

LEMMA NextEngine == ASSUME EngineInv, [Next]_vars PROVE EngineInv'
<1>1. CASE Tick
  BY <1>1 DEF EngineInv, Types, Tick
<1>2. CASE UNCHANGED vars
  BY <1>2 DEF vars, EngineInv, Types
<1> QED BY <1>1, <1>2, CallersEngine, LoopEngine, TaskEngine DEF Next

(* A task never runs twice at once, its state tells whether it runs, and    *)
(* after Stop has returned no goroutine of a task is left, also when Stop   *)
(* overtook the launch of the loop.                                         *)
THEOREM StoppingIsFinal == Spec => []StopIsFinal
<1>1. EngineInv => StopIsFinal
  BY DEF EngineInv, StopIsFinal
<1> QED BY <1>1, InitEngine, NextEngine, PTL DEF Spec
-----------------------------------------------------------------------------
(* The end of a process, for any number of requests and any buffer.         *)

RequestSteps == {"new", "record", "maybe", "claim", "start", "telemetry", "send", "done"}
PhaseNames ==
    {"serving", "draining", "agent", "close", "wait", "prune", "store", "writer", "down"}

CloseTypes ==
    /\ req \in [Request -> RequestSteps]
    /\ prune \in [Request -> {"none", "running", "ending"}]
    /\ wg \in Nat /\ queue \in Nat
    /\ writer \in BOOLEAN /\ late \in BOOLEAN
    /\ workers \in SUBSET L!Workers
    /\ phase \in PhaseNames

Pruning == {r \in Request : prune[r] # "none"}

(* The wait group counts the prunes, a request that may still start one has *)
(* none, and what each stage of the shutdown waited for does not come back: *)
(* requests after a drain that was not late, enrichment after "wait",       *)
(* prunes after "prune", the writer and the cleanup after "writer".         *)
CloseInv ==
    /\ CloseTypes
    /\ wg = Cardinality(Pruning)
    /\ \A r \in Request : req[r] \notin {"telemetry", "send", "done"} => prune[r] = "none"
    /\ phase \notin {"serving", "draining"} /\ ~late => \A r \in Request : req[r] \in {"new", "done"}
    /\ phase \notin {"serving", "draining", "agent"} => "agent" \notin workers
    /\ phase \in {"prune", "store", "writer", "down"} => "enrichment" \notin workers
    /\ phase \in {"store", "writer", "down"} /\ ~late => Pruning = {}
    /\ ~writer => phase \in {"writer", "down"} /\ (~late => queue = 0)
    /\ phase = "down" => ~writer /\ "cleanup" \notin workers

LEMMA ReachedStages ==
    ASSUME phase \in PhaseNames
    PROVE  /\ L!StoreClosed <=> phase \in {"writer", "down"}
           /\ L!Cancelled <=> phase \in {"wait", "prune", "store", "writer", "down"}
<1> DEFINE n(p) == CHOOSE i \in 1..9 : L!Phases[i] = p
<1>1. /\ DOMAIN L!Phases = 1..9
      /\ L!Phases[1] = "serving" /\ L!Phases[2] = "draining" /\ L!Phases[3] = "agent"
      /\ L!Phases[4] = "close" /\ L!Phases[5] = "wait" /\ L!Phases[6] = "prune"
      /\ L!Phases[7] = "store" /\ L!Phases[8] = "writer" /\ L!Phases[9] = "down"
  BY DEF L!Phases
<1>2. \A i \in 1..9 : i = 1 \/ i = 2 \/ i = 3 \/ i = 4 \/ i = 5 \/ i = 6 \/ i = 7 \/ i = 8 \/ i = 9
  OBVIOUS
<1>3. L!Reached("writer") <=> phase \in {"writer", "down"}
  BY <1>1, <1>2 DEF L!Reached, PhaseNames
<1>4. L!Reached("wait") <=> phase \in {"wait", "prune", "store", "writer", "down"}
  BY <1>1, <1>2 DEF L!Reached, PhaseNames
<1> QED BY <1>3, <1>4 DEF L!StoreClosed, L!Cancelled

LEMMA PruningFinite == ASSUME L!LifecycleAssumption PROVE IsFiniteSet(Pruning)
<1>1. Pruning \subseteq Request
  BY DEF Pruning
<1>2. IsFiniteSet(Request)
  BY DEF L!LifecycleAssumption, L!IsFiniteSet, IsFiniteSet
<1> QED BY <1>1, <1>2, FS_Subset

LEMMA InitClose == ASSUME L!Init PROVE CloseInv
<1>1. Pruning = {}
  BY DEF L!Init, Pruning
<1> QED BY <1>1, FS_EmptySet DEF L!Init, L!Workers, CloseInv, CloseTypes, RequestSteps, PhaseNames

(* What a step of a request leaves alone.                                   *)
LEMMA RequestClose ==
    ASSUME CloseInv, NEW r \in Request,
           \/ L!Arrive(r) \/ L!RecordFeedback(r) \/ L!MaybePrune(r)
           \/ L!Claim(r) \/ L!RecordAnalysis(r) \/ L!Send(r)
    PROVE  CloseInv'
<1>1. Pruning' = Pruning /\ UNCHANGED <<prune, wg, writer, workers, phase, late>>
  BY DEF L!Arrive, L!RecordFeedback, L!MaybePrune, L!Claim, L!RecordAnalysis, L!Send, Pruning
<1>2. /\ req' \in [Request -> RequestSteps]
      /\ \A q \in Request : q # r => req'[q] = req[q]
      /\ req[r] # "done"
      /\ req[r] \in {"telemetry", "send"} => req'[r] \in {"send", "done"}
      /\ req[r] = "new" => phase = "serving"
  BY DEF L!Arrive, L!RecordFeedback, L!MaybePrune, L!Claim, L!RecordAnalysis, L!Send, L!At,
         CloseInv, CloseTypes, RequestSteps
<1>3. queue' \in Nat /\ (req[r] = "new" => queue' = queue)
  BY DEF L!Arrive, L!RecordFeedback, L!MaybePrune, L!Claim, L!RecordAnalysis, L!Send, L!At,
         CloseInv, CloseTypes
<1>4. phase \notin {"serving", "draining"} => late
  BY <1>2 DEF CloseInv
<1>5. \A q \in Request : req'[q] \notin {"telemetry", "send", "done"} => prune[q] = "none"
  BY <1>2 DEF CloseInv, CloseTypes, RequestSteps
<1> QED BY <1>1, <1>2, <1>3, <1>4, <1>5 DEF CloseInv, CloseTypes

(* A prune starts: one more goroutine, one more in the wait group.          *)
LEMMA StartPruneClose ==
    ASSUME L!LifecycleAssumption, CloseInv, NEW r \in Request, L!StartPrune(r) PROVE CloseInv'
<1>1. prune[r] = "none" /\ req[r] = "start" /\ (phase \notin {"serving", "draining"} => late)
  BY DEF L!StartPrune, L!At, CloseInv
<1>2. Pruning' = Pruning \cup {r} /\ r \notin Pruning
  BY <1>1 DEF L!StartPrune, CloseInv, CloseTypes, Pruning
<1>3. IsFiniteSet(Pruning)
  BY PruningFinite
<1>4. Cardinality(Pruning') = Cardinality(Pruning) + 1
  BY <1>2, <1>3, FS_AddElement
<1>5. /\ req' = [req EXCEPT ![r] = "telemetry"] /\ prune' = [prune EXCEPT ![r] = "running"]
      /\ wg' = wg + 1 /\ UNCHANGED <<queue, writer, workers, phase, late>>
  BY DEF L!StartPrune, L!At
<1> QED BY <1>1, <1>4, <1>5 DEF CloseInv, CloseTypes, RequestSteps

LEMMA PruneClose ==
    ASSUME L!LifecycleAssumption, CloseInv, NEW r \in Request, L!PruneStep(r) PROVE CloseInv'
<1>1. CASE L!EndPrune(r)
  <2>1. Pruning' = Pruning
    BY <1>1 DEF L!EndPrune, CloseInv, CloseTypes, Pruning
  <2> QED BY <1>1, <2>1 DEF L!EndPrune, CloseInv, CloseTypes
<1>2. CASE L!DonePrune(r)
  <2>1. Pruning' = Pruning \ {r} /\ r \in Pruning
    BY <1>2 DEF L!DonePrune, CloseInv, CloseTypes, Pruning
  <2>2. IsFiniteSet(Pruning)
    BY PruningFinite
  <2>3. Cardinality(Pruning') = Cardinality(Pruning) - 1 /\ Cardinality(Pruning') \in Nat
    BY <2>1, <2>2, FS_RemoveElement, FS_CardinalityType
  <2> QED BY <1>2, <2>1, <2>3 DEF L!DonePrune, CloseInv, CloseTypes
<1> QED BY <1>1, <1>2 DEF L!PruneStep

LEMMA WorkersClose ==
    ASSUME CloseInv, L!Write \/ L!WriterEnds \/ L!WorkerEnds \/ L!PruneDue PROVE CloseInv'
<1>1. Pruning' = Pruning
  BY DEF L!Write, L!WriterEnds, L!WorkerEnds, L!PruneDue, Pruning
<1>2. CASE L!Write
  BY <1>1, <1>2 DEF L!Write, CloseInv, CloseTypes
<1>5. CASE L!PruneDue
  BY <1>1, <1>5 DEF L!PruneDue, CloseInv, CloseTypes
<1>3. CASE L!WriterEnds
  BY <1>1, <1>3, ReachedStages DEF L!WriterEnds, CloseInv, CloseTypes
<1>4. CASE L!WorkerEnds
  BY <1>1, <1>4, ReachedStages DEF L!WorkerEnds, CloseInv, CloseTypes
<1> QED BY <1>2, <1>3, <1>4, <1>5

(* Each stage establishes what the next ones rely on.                       *)
LEMMA StagesClose ==
    ASSUME L!LifecycleAssumption, CloseInv, L!Signal \/ L!CloseStep PROVE CloseInv'
<1>1. Pruning' = Pruning /\ UNCHANGED <<req, prune, wg, queue, writer>>
  BY DEF L!Signal, L!CloseStep, L!Drain, L!StopAgent, L!CancelLifecycle, L!WaitWorkers,
         L!WaitForPrune, L!CloseStore, L!CloseDatabase, Pruning
<1>2. wg = 0 => Pruning = {}
  BY PruningFinite, FS_EmptySet DEF CloseInv
<1>3. CASE L!Drain
  <2>1. ~late' => \A r \in Request : req[r] \in {"new", "done"}
    BY <1>3 DEF L!Drain
  <2> QED BY <1>1, <1>3, <2>1 DEF L!Drain, L!Step, CloseInv, CloseTypes, PhaseNames
<1>4. CASE L!Signal \/ L!StopAgent \/ L!CancelLifecycle \/ L!WaitWorkers
  BY <1>1, <1>4 DEF L!Signal, L!StopAgent, L!CancelLifecycle, L!WaitWorkers, L!Step,
                    CloseInv, CloseTypes, PhaseNames
<1>5. CASE L!WaitForPrune \/ L!CloseStore \/ L!CloseDatabase
  BY <1>1, <1>2, <1>5 DEF L!WaitForPrune, L!CloseStore, L!CloseDatabase, L!Step,
                          CloseInv, CloseTypes, PhaseNames
<1> QED BY <1>3, <1>4, <1>5 DEF L!CloseStep

LEMMA NextClose ==
    ASSUME L!LifecycleAssumption, CloseInv, [L!Next]_L!vars PROVE CloseInv'
<1>1. CASE UNCHANGED L!vars
  <2>1. Pruning' = Pruning
    BY <1>1 DEF L!vars, Pruning
  <2> QED BY <1>1, <2>1 DEF L!vars, CloseInv, CloseTypes
<1> QED BY <1>1, RequestClose, StartPruneClose, PruneClose, WorkersClose, StagesClose
        DEF L!Next, L!RequestStep

(* When the drain did not give up on a request, the database is closed with *)
(* no request, prune or writer left to find it closed, no worker but the    *)
(* adblock configuration sync, and with the telemetry it accepted written   *)
(* (Service.Close, DB.Close, RunHTTPServer).                                *)
THEOREM StoreIsClosedLast ==
    ASSUME L!LifecycleAssumption PROVE L!Spec => []StoreOutlivesUsers
<1>1. L!Init => CloseInv
  BY InitClose
<1>2. CloseInv /\ [L!Next]_L!vars => CloseInv'
  BY NextClose
<1>3. CloseInv => StoreOutlivesUsers
  BY DEF CloseInv, StoreOutlivesUsers, L!StoreOutlivesUsers, Pruning, L!DatabaseClosed,
         CloseTypes, L!Workers
<1> QED BY <1>1, <1>2, <1>3, PTL DEF L!Spec
-----------------------------------------------------------------------------
(* Alerts, for any channels, page sizes, thresholds and faults.             *)

(* A place in the log that was there when it was taken.                     *)
Behind(c) == c \in [at : Int, id : Int] /\ c.at <= clock /\ c.id <= Len(log)

AlertTypes ==
    /\ log \in Seq([at : Nat, kind : A!Kinds])
    /\ sent \in Seq(SUBSET Channels) /\ Len(sent) = Len(log)
    /\ clock \in Nat
    /\ run \in [step : {"idle", "query", "send", "down"}, page : SUBSET DOMAIN log,
                pages : Nat, left : SUBSET Channels]

(* The ids of the log grow with its times.                                  *)
Ordered ==
    /\ \A i, j \in DOMAIN log : i < j => log[i].at <= log[j].at
    /\ \A i \in DOMAIN log : log[i].at <= clock

(* A page being sent leaves out no row between the cursor and its last one, *)
(* and the channels that are through with it without a failure have told.   *)
PageInFlight ==
    run.step = "send" =>
        /\ run.page # {}
        /\ \A i \in run.page, j \in DOMAIN log : j < i /\ A!After(cursor, j) => j \in run.page
        /\ ~failed => \A i \in run.page, ch \in Channels \ run.left :
                         A!Concerns(ch, i) => ch \in sent[i]

AlertInv ==
    /\ AlertTypes /\ Ordered
    /\ Behind(cursor) /\ Behind(saved)
    /\ PageInFlight
    /\ A!AtLeastOnce

LEMMA RowType ==
    ASSUME AlertTypes, NEW i \in DOMAIN log
    PROVE  log[i] \in [at : Nat, kind : A!Kinds] /\ log[i].at \in Nat /\ i \in 1..Len(log)
<1> DEFINE Row == [at : Nat, kind : A!Kinds]
<1>1. log \in Seq(Row)
  BY DEF AlertTypes
<1> HIDE DEF Row
<1>2. i \in 1..Len(log) /\ log[i] \in Row
  BY <1>1
<1> QED BY <1>2 DEF Row

LEMMA InitAlert == ASSUME A!Init PROVE AlertInv
BY DEF A!Init, A!Idle, A!Unsaved, AlertInv, AlertTypes, Ordered, Behind, PageInFlight, A!AtLeastOnce

(* A new row is behind every cursor, and nothing else changes.              *)
LEMMA RecordAlert == ASSUME AlertInv, NEW kind \in A!Kinds, A!Record(kind) PROVE AlertInv'
<1> DEFINE n == Len(log) + 1
<1> DEFINE row == [at |-> clock, kind |-> kind]
<1>1. /\ log' = Append(log, row) /\ sent' = Append(sent, {})
      /\ UNCHANGED <<cursor, saved, skipped, run, failed, clock, faults>>
  BY DEF A!Record
<1>2. /\ row \in [at : Nat, kind : A!Kinds] /\ log \in Seq([at : Nat, kind : A!Kinds])
      /\ sent \in Seq(SUBSET Channels) /\ Len(sent) = Len(log) /\ clock \in Nat
  BY DEF AlertInv, AlertTypes
<1>3. /\ log' \in Seq([at : Nat, kind : A!Kinds]) /\ Len(log') = n /\ Len(log) \in Nat
      /\ DOMAIN log = 1..Len(log) /\ DOMAIN log' = 1..n
      /\ \A i \in 1..Len(log) : log'[i] = log[i]
      /\ log'[n] = row
  BY <1>1, <1>2
<1>4. /\ sent' \in Seq(SUBSET Channels) /\ Len(sent') = n
      /\ \A i \in 1..Len(log) : sent'[i] = sent[i]
  BY <1>1, <1>2
<1>5. AlertTypes'
  BY <1>1, <1>2, <1>3, <1>4 DEF AlertInv, AlertTypes
<1>6. Ordered'
  BY <1>1, <1>2, <1>3 DEF AlertInv, Ordered
<1>7. Behind(cursor)' /\ Behind(saved)'
  BY <1>1, <1>3 DEF AlertInv, Behind
<1>8. /\ \A i \in 1..Len(log) : A!After(cursor, i)' = A!After(cursor, i)
      /\ \A i \in 1..Len(log) : A!After(saved, i)' = A!After(saved, i)
      /\ \A i \in 1..Len(log), ch \in Channels : A!Concerns(ch, i)' = A!Concerns(ch, i)
  BY <1>1, <1>3 DEF A!After, A!Concerns
<1>9. \A i \in Nat : i = n => A!After(cursor, i)' /\ A!After(saved, i)'
  BY <1>1, <1>2, <1>3 DEF A!After, AlertInv, Behind
<1>10. PageInFlight'
  <2> SUFFICES ASSUME run.step = "send" PROVE PageInFlight'
    BY <1>1 DEF PageInFlight
  <2>1. run.page \subseteq 1..Len(log) /\ run.page # {} /\ run.page \subseteq Nat
    BY <1>3 DEF AlertInv, AlertTypes, PageInFlight
  <2>2. \A i \in run.page, j \in 1..n : j < i => j \in 1..Len(log)
    BY <1>3, <2>1
  <2>3. \A i \in run.page, j \in DOMAIN log' : j < i /\ A!After(cursor, j)' => j \in run.page
    BY <1>3, <1>8, <2>2 DEF AlertInv, PageInFlight
  <2>4. ~failed => \A i \in run.page, ch \in Channels \ run.left :
                      A!Concerns(ch, i)' => ch \in sent'[i]
    BY <1>3, <1>4, <1>8, <2>1 DEF AlertInv, PageInFlight
  <2> QED BY <1>1, <2>1, <2>3, <2>4 DEF PageInFlight
<1>11. A!AtLeastOnce'
  <2> SUFFICES ASSUME NEW i \in DOMAIN log', A!Passed(i)', i \notin skipped'
               PROVE  A!Told(i)'
    BY DEF A!AtLeastOnce
  <2>1. i \in 1..Len(log)
    BY <1>3, <1>9 DEF A!Passed
  <2>2. A!Passed(i)
    BY <2>1, <1>8 DEF A!Passed
  <2>3. A!Told(i)
    BY <1>1, <1>3, <2>1, <2>2 DEF AlertInv, A!AtLeastOnce
  <2> QED BY <2>1, <2>3, <1>4, <1>8 DEF A!Told
<1> QED BY <1>5, <1>6, <1>7, <1>10, <1>11 DEF AlertInv

(* Steps that only move the cycle.                                          *)
LEMMA CycleAlert ==
    ASSUME AlertInv,
           UNCHANGED <<log, cursor, saved, skipped, sent, clock>>,
           AlertTypes', PageInFlight'
    PROVE  AlertInv'
BY DEF AlertInv, Ordered, Behind, A!AtLeastOnce, A!Passed, A!After, A!Told, A!Concerns

LEMMA StartAlert ==
    ASSUME AlertInv, A!StartCycle \/ A!QueryFails \/ A!GiveUp \/ A!Crash PROVE AlertInv'
<1>1. AlertTypes'
  BY DEF A!StartCycle, A!QueryFails, A!GiveUp, A!Crash, A!Idle, A!Down, AlertInv, AlertTypes
<1>2. run'.step # "send"
  BY DEF A!StartCycle, A!QueryFails, A!GiveUp, A!Crash, A!Idle, A!Down
<1> QED BY <1>1, <1>2, CycleAlert
        DEF A!StartCycle, A!QueryFails, A!GiveUp, A!Crash, PageInFlight
(* A page holds, with a row, every row between the cursor and it.           *)
LEMMA PageAlert ==
    ASSUME A!DeliveryAssumption, AlertInv,
           NEW i \in A!Page, NEW j \in DOMAIN log, j < i, A!After(cursor, j)
    PROVE  j \in A!Page
<1> DEFINE Before(n) == {m \in A!Backlog : m < n}
<1>1. /\ Len(log) \in Nat /\ DOMAIN log = 1..Len(log)
      /\ A!Backlog \subseteq 1..Len(log) /\ i \in A!Backlog /\ j \in A!Backlog
  BY DEF AlertInv, AlertTypes, A!Page, A!Backlog
<1>2. IsFiniteSet(1..Len(log))
  BY <1>1, FS_Interval
<1>3. Before(j) \subseteq Before(i)
  BY <1>1
<1>4. Before(i) \subseteq 1..Len(log)
  BY <1>1
<1>5. IsFiniteSet(Before(i)) /\ IsFiniteSet(Before(j))
  BY <1>2, <1>3, <1>4, FS_Subset
<1>6. /\ Cardinality(Before(j)) <= Cardinality(Before(i))
      /\ Cardinality(Before(i)) \in Nat /\ Cardinality(Before(j)) \in Nat
  BY <1>3, <1>5, FS_Subset, FS_CardinalityType
<1>7. \A n \in A!Backlog : n \in A!Page <=> Cardinality(Before(n)) < PageSize
  BY Zenon DEF A!Page, A!Cardinality, Cardinality
<1> HIDE DEF Before
<1> QED BY <1>1, <1>6, <1>7 DEF A!DeliveryAssumption

LEMMA QueryAlert ==
    ASSUME A!DeliveryAssumption, AlertInv, A!QueryPage PROVE AlertInv'
<1>1. UNCHANGED <<log, cursor, saved, skipped, sent, clock>>
  BY DEF A!QueryPage
<1>2. A!Page \subseteq DOMAIN log /\ A!Addressed(A!Page) \subseteq Channels
  BY DEF A!Page, A!Backlog, A!Addressed
<1>3. CASE run' = A!Idle
  <2>1. AlertTypes' /\ PageInFlight'
    BY <1>1, <1>3 DEF A!Idle, AlertInv, AlertTypes, PageInFlight
  <2> QED BY <1>1, <2>1, CycleAlert
<1>4. CASE /\ A!Page # {}
           /\ run' = [run EXCEPT !.step = "send", !.page = A!Page, !.left = A!Addressed(A!Page)]
  <2>1. AlertTypes'
    BY <1>1, <1>2, <1>4 DEF AlertInv, AlertTypes
  <2>2. run'.step = "send" /\ run'.page = A!Page /\ run'.left = A!Addressed(A!Page)
    BY <1>4 DEF AlertInv, AlertTypes
  <2>3. \A i \in A!Page, j \in DOMAIN log : j < i /\ A!After(cursor, j) => j \in A!Page
    BY PageAlert
  <2>4. \A i \in A!Page, ch \in Channels \ A!Addressed(A!Page) : ~A!Concerns(ch, i)
    BY DEF A!Addressed
  <2>5. \A i : A!After(cursor, i)' = A!After(cursor, i)
    BY <1>1 DEF A!After
  <2>6. \A i, ch : A!Concerns(ch, i)' = A!Concerns(ch, i)
    BY <1>1 DEF A!Concerns
  <2>7. PageInFlight'
    BY <1>1, <1>4, <2>2, <2>3, <2>4, <2>5, <2>6 DEF PageInFlight
  <2> QED BY <1>1, <2>1, <2>7, CycleAlert
<1> QED BY <1>3, <1>4 DEF A!QueryPage

LEMMA FailedAlert ==
    ASSUME AlertInv, NEW ch \in Channels, A!DeliverFails(ch) PROVE AlertInv'
<1>1. /\ run' = [run EXCEPT !.left = @ \ {ch}] /\ failed'
      /\ UNCHANGED <<log, cursor, saved, skipped, sent, clock>>
  BY DEF A!DeliverFails
<1>2. AlertTypes'
  BY <1>1 DEF AlertInv, AlertTypes
<1>3. PageInFlight'
  BY <1>1 DEF AlertInv, AlertTypes, PageInFlight, A!After
<1> QED BY <1>1, <1>2, <1>3, CycleAlert

(* A channel that answered is known to have told every row of the page.     *)
LEMMA DeliverAlert ==
    ASSUME AlertInv, NEW ch \in Channels, A!Deliver(ch) PROVE AlertInv'
<1>1. /\ run' = [run EXCEPT !.left = @ \ {ch}]
      /\ sent' = [i \in DOMAIN sent |->
                    IF i \in run.page /\ A!Concerns(ch, i) THEN sent[i] \cup {ch} ELSE sent[i]]
      /\ UNCHANGED <<log, cursor, saved, skipped, failed, clock>>
  BY DEF A!Deliver
<1>2. DOMAIN sent = 1..Len(log) /\ DOMAIN log = 1..Len(log) /\ Len(log) \in Nat
  BY DEF AlertInv, AlertTypes
<1>3. /\ sent' \in Seq(SUBSET Channels) /\ Len(sent') = Len(log)
      /\ \A i \in DOMAIN log : sent[i] \subseteq sent'[i]
      /\ \A i \in run.page : A!Concerns(ch, i) => ch \in sent'[i]
  <2>1. sent' \in [1..Len(log) -> SUBSET Channels]
    BY <1>1, <1>2 DEF AlertInv, AlertTypes
  <2>2. sent' \in Seq(SUBSET Channels) /\ Len(sent') = Len(log)
    BY <1>2, <2>1
  <2>3. run.page \subseteq DOMAIN log
    BY DEF AlertInv, AlertTypes
  <2> QED BY <1>1, <1>2, <2>2, <2>3
<1>4. AlertTypes'
  BY <1>1, <1>3 DEF AlertInv, AlertTypes
<1>5. PageInFlight'
  <2>1. run'.step = run.step /\ run'.page = run.page /\ run'.left = run.left \ {ch}
    BY <1>1 DEF AlertInv, AlertTypes
  <2>2. run.page \subseteq DOMAIN log
    BY DEF AlertInv, AlertTypes
  <2>3. \A i, c : A!Concerns(c, i)' = A!Concerns(c, i)
    BY <1>1 DEF A!Concerns
  <2>4. \A i : A!After(cursor, i)' = A!After(cursor, i)
    BY <1>1 DEF A!After
  <2>5. run.step = "send" /\ ~failed =>
           \A i \in run.page, c \in Channels \ run'.left : A!Concerns(c, i) => c \in sent'[i]
    BY <1>3, <2>1, <2>2 DEF AlertInv, PageInFlight
  <2> QED BY <1>1, <2>1, <2>3, <2>4, <2>5 DEF AlertInv, PageInFlight
<1>6. A!AtLeastOnce'
  <2>1. \A i \in DOMAIN log : A!Told(i) => A!Told(i)'
    BY <1>1, <1>3 DEF A!Told, A!Concerns
  <2> QED BY <1>1, <2>1 DEF AlertInv, A!AtLeastOnce, A!Passed, A!After
<1> QED BY <1>1, <1>4, <1>5, <1>6 DEF AlertInv, Ordered, Behind
(* A set of row numbers that is not empty has a last one.                   *)
LEMMA LastOfPage ==
    ASSUME NEW n \in Nat, NEW S \in SUBSET (1..n), S # {}
    PROVE  \E i \in S : \A j \in S : j <= i
<1> DEFINE T == {k \in Nat : \E i \in S : k = n - i}
<1>1. T \subseteq Nat /\ T # {}
  <2>1. PICK i \in S : TRUE
    OBVIOUS
  <2>2. n - i \in Nat
    OBVIOUS
  <2> QED BY <2>1, <2>2
<1>2. PICK k \in T : \A l \in T : ~(<<l, k>> \in OpToRel(<, Nat))
  <2> HIDE DEF T
  <2> QED BY <1>1, WFMin, NatLessThanWellFounded
<1>3. PICK i \in S : k = n - i
  OBVIOUS
<1>4. ASSUME NEW j \in S PROVE j <= i
  <2>1. n - j \in Nat /\ n - j \in T
    OBVIOUS
  <2>2. ~(n - j < k)
    BY <1>2, <2>1 DEF OpToRel
  <2> QED BY <1>3, <2>2
<1> QED BY <1>4

(* The cursor passes the rows of a page that everyone was told of; those    *)
(* before the page it had passed already.                                   *)
LEMMA AdvanceAlert == ASSUME AlertInv, A!Advance PROVE AlertInv'
<1>1. PICK persisted \in BOOLEAN : A!AdvanceTo(persisted)
  BY DEF A!Advance
<1>2. /\ run.step = "send" /\ run.left = {} /\ ~failed
      /\ cursor' = [at |-> log[A!Last].at, id |-> A!Last]
      /\ saved' \in {saved, cursor'}
      /\ UNCHANGED <<log, skipped, failed, sent, clock>>
  BY <1>1 DEF A!AdvanceTo, A!AllSent
<1>3. Len(log) \in Nat /\ DOMAIN log = 1..Len(log) /\ run.page \in SUBSET (1..Len(log))
  BY DEF AlertInv, AlertTypes
<1>4. A!Last \in run.page /\ \A j \in run.page : j <= A!Last
  <2>1. run.page # {}
    BY <1>2 DEF AlertInv, PageInFlight
  <2>2. \E i \in run.page : \A j \in run.page : j <= i
    BY <1>3, <2>1, LastOfPage
  <2> QED BY <2>2 DEF A!Last
<1>5. AlertTypes' /\ PageInFlight'
  <2>1. run' \in [step : {"idle", "query"}, page : {{}}, pages : Nat, left : {{}}]
    <3>1. run.pages + 1 \in Nat
      BY DEF AlertInv, AlertTypes
    <3>2. \/ run' = A!Idle
          \/ run' = [A!Idle EXCEPT !.step = "query", !.pages = run.pages + 1]
      BY <1>1, Zenon DEF A!AdvanceTo
    <3> DEFINE p == run.pages + 1
    <3> HIDE DEF p
    <3>3. run' = [A!Idle EXCEPT !.step = "query", !.pages = p] =>
             run' = [step |-> "query", page |-> {}, pages |-> p, left |-> {}]
      BY DEF A!Idle
    <3>4. run' \in {[step |-> "idle", page |-> {}, pages |-> 0, left |-> {}],
                    [step |-> "query", page |-> {}, pages |-> p, left |-> {}]}
      BY <3>2, <3>3, Zenon DEF A!Idle, p
    <3>5. p \in Nat
      BY <3>1 DEF p
    <3> QED BY <3>4, <3>5
  <2> QED BY <1>2, <2>1 DEF AlertInv, AlertTypes, PageInFlight
<1>6. /\ log[A!Last] \in [at : Nat, kind : A!Kinds] /\ log[A!Last].at <= clock
      /\ A!Last \in 1..Len(log)
  BY <1>3, <1>4, RowType DEF AlertInv, Ordered
<1>7. Behind(cursor)' /\ Behind(saved)'
  <2>1. cursor'.at <= clock /\ cursor'.id <= Len(log) /\ cursor' \in [at : Int, id : Int]
    BY <1>2, <1>6
  <2> QED BY <1>2, <2>1 DEF AlertInv, Behind
<1>8. ASSUME NEW i \in DOMAIN log, i \notin skipped, ~A!After(cursor', i) PROVE A!Told(i)
  <2>1. CASE ~A!After(cursor, i)
    BY <2>1, <1>8 DEF AlertInv, A!AtLeastOnce, A!Passed
  <2>2. CASE A!After(cursor, i)
    <3>1. i <= A!Last
      <4> SUFFICES ASSUME A!Last < i PROVE A!After(cursor', i)
        BY <1>3, <1>6, <1>8
      <4>1. log[A!Last].at <= log[i].at /\ log[i].at \in Nat
        BY <1>3, <1>6, RowType DEF AlertInv, Ordered
      <4> QED BY <1>2, <1>6, <4>1 DEF A!After
    <3>2. i \in run.page
      BY <1>2, <1>3, <1>4, <2>2, <3>1 DEF AlertInv, PageInFlight
    <3>3. \A ch \in Channels : A!Concerns(ch, i) => ch \in sent[i]
      BY <1>2, <3>2 DEF AlertInv, PageInFlight
    <3> QED BY <3>3 DEF A!Told
  <2> QED BY <2>1, <2>2
<1>9. ASSUME NEW i \in DOMAIN log, i \notin skipped, ~A!After(saved', i) PROVE A!Told(i)
  <2>1. CASE saved' = saved
    BY <1>9, <2>1 DEF AlertInv, A!AtLeastOnce, A!Passed
  <2>2. CASE saved' = cursor'
    BY <1>8, <1>9, <2>2
  <2> QED BY <1>2, <2>1, <2>2
<1>10. A!AtLeastOnce'
  <2> SUFFICES ASSUME NEW i \in DOMAIN log, A!Passed(i)', i \notin skipped
               PROVE  A!Told(i)'
    BY <1>2 DEF A!AtLeastOnce
  <2>1. A!Told(i)
    BY <1>2, <1>8, <1>9 DEF A!Passed, A!After
  <2> QED BY <1>2, <2>1 DEF A!Told, A!Concerns
<1> QED BY <1>2, <1>5, <1>7, <1>10 DEF AlertInv, Ordered, Behind

(* A restart takes up the persisted cursor, or begins with the present and  *)
(* counts what it jumped over; a row of the present second is after it.     *)
LEMMA RestartAlert == ASSUME AlertInv, A!Restart PROVE AlertInv'
<1>1. run' = A!Idle /\ UNCHANGED <<log, saved, failed, sent, clock>>
  BY DEF A!Restart
<1>2. AlertTypes' /\ PageInFlight'
  BY <1>1 DEF A!Idle, AlertInv, AlertTypes, PageInFlight
<1>3. Behind(cursor)'
  <2>1. cursor' = saved \/ cursor' = [at |-> clock, id |-> 0]
    BY DEF A!Restart, A!Resume, A!StartBlind
  <2>2. Len(log) \in Nat /\ clock \in Nat
    BY DEF AlertInv, AlertTypes
  <2> QED BY <1>1, <2>1, <2>2 DEF AlertInv, Behind
<1>4. ASSUME NEW i \in DOMAIN log, ~A!After(cursor', i) \/ ~A!After(saved, i), i \notin skipped'
      PROVE  A!Told(i)
  <2>1. CASE ~A!After(saved, i)
    <3>1. i \notin skipped
      BY <1>4, <2>1 DEF A!Restart, A!Resume, A!StartBlind
    <3> QED BY <2>1, <3>1 DEF AlertInv, A!AtLeastOnce, A!Passed
  <2>2. CASE A!After(saved, i)
    <3>1. A!StartBlind /\ ~(log[i].at < clock) /\ ~A!After(cursor', i)
      BY <1>4, <2>2 DEF A!Restart, A!Resume, A!StartBlind, A!Jumped
    <3>2. log[i].at \in Nat /\ i \in Nat /\ i > 0 /\ clock \in Nat
      BY RowType DEF AlertInv, AlertTypes
    <3>3. A!After(cursor', i)
      BY <3>1, <3>2 DEF A!StartBlind, A!After
    <3> QED BY <3>1, <3>3
  <2> QED BY <2>1, <2>2
<1>5. A!AtLeastOnce'
  <2> SUFFICES ASSUME NEW i \in DOMAIN log, A!Passed(i)', i \notin skipped'
               PROVE  A!Told(i)'
    BY <1>1 DEF A!AtLeastOnce
  <2>1. A!Told(i)
    BY <1>1, <1>4 DEF A!Passed, A!After
  <2> QED BY <1>1, <2>1 DEF A!Told, A!Concerns
<1> QED BY <1>1, <1>2, <1>3, <1>5 DEF AlertInv, Ordered, Behind

LEMMA TickAlert == ASSUME AlertInv, A!Tick PROVE AlertInv'
<1>1. clock' = clock + 1 /\ UNCHANGED <<log, cursor, saved, skipped, run, failed, sent, faults>>
  BY DEF A!Tick
<1>2. AlertTypes'
  BY <1>1 DEF AlertInv, AlertTypes
<1>3. Ordered'
  <2>1. \A i \in DOMAIN log : log[i].at \in Nat
    BY RowType DEF AlertInv
  <2> QED BY <1>1, <2>1 DEF AlertInv, AlertTypes, Ordered
<1>4. Behind(cursor)' /\ Behind(saved)'
  BY <1>1 DEF AlertInv, AlertTypes, Behind
<1>5. PageInFlight' /\ A!AtLeastOnce'
  BY <1>1 DEF AlertInv, PageInFlight, A!AtLeastOnce, A!Passed, A!After, A!Told, A!Concerns
<1> QED BY <1>1, <1>2, <1>3, <1>4, <1>5 DEF AlertInv

LEMMA NextAlert ==
    ASSUME A!DeliveryAssumption, AlertInv, [A!Next]_A!vars PROVE AlertInv'
<1>1. CASE UNCHANGED A!vars
  <2>1. UNCHANGED <<log, cursor, saved, skipped, run, failed, sent, clock>>
    BY <1>1 DEF A!vars
  <2>2. AlertTypes' /\ PageInFlight'
    BY <2>1 DEF AlertInv, AlertTypes, PageInFlight, A!After, A!Concerns
  <2> QED BY <2>1, <2>2, CycleAlert
<1> QED BY <1>1, RecordAlert, StartAlert, QueryAlert, AdvanceAlert, DeliverAlert, FailedAlert,
           RestartAlert, TickAlert DEF A!Next

(* Whatever the order of sends, failures, lost writes, crashes and          *)
(* restarts, a row the cursor has passed, in memory or persisted, is known  *)
(* to each of its channels, unless a restart without a readable cursor      *)
(* jumped over it (AlertTask.Run, deliverPage, advanceCursor, loadCursor).  *)
THEOREM AlertsAreToldAtLeastOnce ==
    ASSUME A!DeliveryAssumption PROVE A!Spec => []AtLeastOnce
<1>1. A!Init => AlertInv
  BY InitAlert
<1>2. AlertInv /\ [A!Next]_A!vars => AlertInv'
  BY NextAlert
<1>3. AlertInv => AtLeastOnce
  BY DEF AlertInv, AtLeastOnce
<1> QED BY <1>1, <1>2, <1>3, PTL DEF A!Spec
=============================================================================
