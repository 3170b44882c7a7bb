----------------------------- MODULE AgentEngine -----------------------------
(***************************************************************************)
(* The agent's scheduler: one loop goroutine, one goroutine per running    *)
(* task, and the callers of Trigger and Stop.  Every method takes the      *)
(* engine's mutex for its own reads and writes only, so what one of them   *)
(* has read may be old when it acts on it.                                 *)
(***************************************************************************)
EXTENDS Integers, FiniteSets, Sequences

CONSTANTS
    Task,           \* registered tasks
    Order,          \* the order they were registered in
    Enabled,        \* the ones the configuration enables
    Interval,       \* interval of a task, in ticks of the loop
    QueueSize,      \* capacity of triggerCh
    MaxTime,        \* bound: ticks
    MaxTriggers     \* bound: manual triggers

ASSUME EngineAssumption ==
    /\ Order \in Seq(Task)
    /\ Enabled \subseteq Task
    /\ Interval \in [Task -> Nat]
    /\ QueueSize \in Nat
    /\ MaxTime \in Nat
    /\ MaxTriggers \in Nat

Never == -1

VARIABLES
    started, stopped,   \* flags of the engine
    starter, stopper,   \* next step of the callers of Start and Stop
    loop,               \* next step of the loop goroutine
    todo,               \* tasks the loop has picked and not yet executed
    triggerCh,          \* accepted triggers
    tick,               \* a tick waits in the ticker's channel
    state, lastRun,     \* of the registered tasks
    running,            \* goroutines of a task inside Run
    tail,               \* goroutines of a task that record how it ended
    done,               \* the done channel is closed and the context cancelled
    now, triggers       \* clock, counter of the bound

vars == <<started, stopped, starter, stopper, loop, todo, triggerCh, tick, state,
          lastRun, running, tail, done, now, triggers>>

Init ==
    /\ started = FALSE /\ stopped = FALSE
    /\ starter = "idle" /\ stopper = "idle"
    /\ loop = "none" /\ todo = <<>> /\ triggerCh = <<>> /\ tick = FALSE
    /\ state = [t \in Task |-> "idle"]
    /\ lastRun = [t \in Task |-> Never]
    /\ running = [t \in Task |-> 0]
    /\ tail = [t \in Task |-> 0]
    /\ done = FALSE
    /\ now = 0 /\ triggers = 0

(* Start sets the flag under the mutex and launches the loop after it.     *)
StartFlag ==
    /\ starter = "idle" /\ ~started
    /\ started' = TRUE /\ starter' = "launch"
    /\ UNCHANGED <<stopped, stopper, loop, todo, triggerCh, tick, state, lastRun,
                   running, tail, done, now, triggers>>

Launch ==
    /\ starter = "launch"
    /\ starter' = "returned" /\ loop' = "scan"
    /\ UNCHANGED <<started, stopped, stopper, todo, triggerCh, tick, state, lastRun,
                   running, tail, done, now, triggers>>

(* Stop: the flag, then the cancellation and the done channel, then wait.   *)
StopFlag ==
    /\ stopper = "idle" /\ started /\ ~stopped
    /\ stopped' = TRUE /\ stopper' = "cancel"
    /\ UNCHANGED <<started, starter, loop, todo, triggerCh, tick, state, lastRun,
                   running, tail, done, now, triggers>>

Cancel ==
    /\ stopper = "cancel"
    /\ done' = TRUE /\ stopper' = "wait"
    /\ UNCHANGED <<started, stopped, starter, loop, todo, triggerCh, tick, state,
                   lastRun, running, tail, now, triggers>>

(* The WaitGroup is at zero: the loop, once launched, has returned, and so  *)
(* has every goroutine of a task.                                           *)
AtRest ==
    /\ loop \in {"none", "returned"}
    /\ \A t \in Task : running[t] = 0 /\ tail[t] = 0

StopReturn ==
    /\ stopper = "wait" /\ AtRest
    /\ stopper' = "returned"
    /\ UNCHANGED <<started, stopped, starter, loop, todo, triggerCh, tick, state,
                   lastRun, running, tail, done, now, triggers>>

(* Trigger answers under the mutex; a disabled task or a full queue is      *)
(* refused and nothing changes.                                             *)
Trigger(t) ==
    /\ triggers < MaxTriggers
    /\ t \in Enabled /\ Len(triggerCh) < QueueSize
    /\ triggerCh' = Append(triggerCh, t)
    /\ triggers' = triggers + 1
    /\ UNCHANGED <<started, stopped, starter, stopper, loop, todo, tick, state,
                   lastRun, running, tail, done, now>>

(* Mutant: a task that failed is not scheduled again.                       *)
DueOnlyIdle(t) ==
    /\ t \in Enabled /\ state[t] = "idle"
    /\ lastRun[t] = Never \/ now - lastRun[t] >= Interval[t]

Due(t) ==
    /\ t \in Enabled /\ state[t] # "running"
    /\ lastRun[t] = Never \/ now - lastRun[t] >= Interval[t]

(* runDueTasks: the snapshot under the mutex, in registration order.        *)
Scan ==
    /\ loop = "scan"
    /\ todo' = SelectSeq(Order, Due)
    /\ loop' = "due"
    /\ UNCHANGED <<started, stopped, starter, stopper, triggerCh, tick, state, lastRun,
                   running, tail, done, now, triggers>>

(* Mutant: a stopped engine still starts what it picked before.             *)
MayExecuteStopped(t) == state[t] # "running"

(* executeTask checks again, under the mutex, before it starts the task.    *)
MayExecute(t) == ~stopped /\ state[t] # "running"

(* executeTask on the head of todo: start the goroutine, or drop the task.  *)
Execute(t) ==
    /\ todo' = Tail(todo)
    /\ IF MayExecute(t)
         THEN /\ state' = [state EXCEPT ![t] = "running"]
              /\ running' = [running EXCEPT ![t] = @ + 1]
         ELSE UNCHANGED <<state, running>>
    /\ UNCHANGED <<started, stopped, starter, stopper, triggerCh, tick, lastRun, tail,
                   done, now, triggers>>

ExecuteDue ==
    /\ loop = "due" /\ todo # <<>> /\ ~done
    /\ Execute(Head(todo))
    /\ UNCHANGED loop

(* The list is exhausted, or done is closed between two tasks.              *)
EndDue ==
    /\ loop = "due" /\ (todo = <<>> \/ done)
    /\ loop' = "select" /\ todo' = <<>>
    /\ UNCHANGED <<started, stopped, starter, stopper, triggerCh, tick, state, lastRun,
                   running, tail, done, now, triggers>>

(* The select of the loop; of the ready cases Go takes any.                 *)
TakeDone ==
    /\ loop = "select" /\ done
    /\ loop' = "returned"
    /\ UNCHANGED <<started, stopped, starter, stopper, todo, triggerCh, tick, state,
                   lastRun, running, tail, done, now, triggers>>

TakeTrigger ==
    /\ loop = "select" /\ triggerCh # <<>>
    /\ loop' = "named" /\ todo' = <<Head(triggerCh)>> /\ triggerCh' = Tail(triggerCh)
    /\ UNCHANGED <<started, stopped, starter, stopper, tick, state, lastRun, running,
                   tail, done, now, triggers>>

(* runTaskByName goes to executeTask without looking at done.               *)
ExecuteNamed ==
    /\ loop = "named"
    /\ Execute(Head(todo))
    /\ loop' = "select"

TakeTick ==
    /\ loop = "select" /\ tick
    /\ loop' = "scan" /\ tick' = FALSE
    /\ UNCHANGED <<started, stopped, starter, stopper, todo, triggerCh, state, lastRun,
                   running, tail, done, now, triggers>>

(* setTaskResult: the task may be started again from here on.               *)
SetTaskResult(t, result) ==
    /\ state' = [state EXCEPT ![t] = IF result = "idle" THEN "idle" ELSE "failed"]
    /\ lastRun' = [lastRun EXCEPT ![t] = now]

(* Run returns, fails or panics: an answer, an error, the timeout or the    *)
(* cancelled context, a recovered panic.                                    *)
RunEnds(t) ==
    /\ running[t] > 0
    /\ \E result \in {"idle", "failed", "panic"} : SetTaskResult(t, result)
    /\ running' = [running EXCEPT ![t] = @ - 1]
    /\ tail' = [tail EXCEPT ![t] = @ + 1]
    /\ UNCHANGED <<started, stopped, starter, stopper, loop, todo, triggerCh, tick,
                   done, now, triggers>>

(* recordTaskRuntimeEvent and wg.Done.                                      *)
Recorded(t) ==
    /\ tail[t] > 0
    /\ tail' = [tail EXCEPT ![t] = @ - 1]
    /\ UNCHANGED <<started, stopped, starter, stopper, loop, todo, triggerCh, tick,
                   state, lastRun, running, done, now, triggers>>

(* The ticker keeps at most one tick for a loop that is late.               *)
Tick ==
    /\ now < MaxTime
    /\ now' = now + 1 /\ tick' = (loop \notin {"none", "returned"})
    /\ UNCHANGED <<started, stopped, starter, stopper, loop, todo, triggerCh, state,
                   lastRun, running, tail, done, triggers>>

LoopStep == Scan \/ ExecuteDue \/ EndDue \/ TakeDone \/ TakeTrigger \/ ExecuteNamed \/ TakeTick

Next ==
    \/ StartFlag \/ Launch \/ StopFlag \/ Cancel \/ StopReturn
    \/ LoopStep \/ Tick
    \/ \E t \in Task : Trigger(t) \/ RunEnds(t) \/ Recorded(t)

Spec == Init /\ [][Next]_vars

(* Goroutines that can run do run, and a task ends: it runs under a timeout *)
(* and a context that Stop cancels.                                         *)
Fairness ==
    /\ WF_vars(Launch) /\ WF_vars(Cancel) /\ WF_vars(StopReturn) /\ WF_vars(LoopStep)
    /\ SF_vars(TakeDone) /\ SF_vars(TakeTick) /\ SF_vars(TakeTrigger)
    /\ \A t \in Task : WF_vars(RunEnds(t)) /\ WF_vars(Recorded(t))

FairSpec == Spec /\ Fairness

-----------------------------------------------------------------------------
(* Properties.                                                              *)

TypeOK ==
    /\ started \in BOOLEAN /\ stopped \in BOOLEAN /\ done \in BOOLEAN /\ tick \in BOOLEAN
    /\ starter \in {"idle", "launch", "returned"}
    /\ stopper \in {"idle", "cancel", "wait", "returned"}
    /\ loop \in {"none", "scan", "due", "select", "named", "returned"}
    /\ todo \in Seq(Task) /\ triggerCh \in Seq(Task)
    /\ state \in [Task -> {"idle", "running", "failed"}]
    /\ lastRun \in [Task -> Nat \cup {Never}]
    /\ running \in [Task -> Nat] /\ tail \in [Task -> Nat]
    /\ now \in Nat /\ triggers \in Nat

(* A task never runs twice at once, whatever mixture of ticks and triggers  *)
(* picked it, and its state says running exactly while it does.  Once Stop  *)
(* has returned nothing of a task runs any more, its last write to the      *)
(* store included, also when Stop overtook Start: the owner closes the      *)
(* store next.                                                              *)
StopIsFinal ==
    /\ \A t \in Task : /\ running[t] <= 1
                       /\ state[t] = "running" <=> running[t] = 1
    /\ stopper = "returned" => \A t \in Task : running[t] = 0 /\ tail[t] = 0

(* No enabled task stays due for ever: it is started, or the engine stops,  *)
(* also after it has failed or panicked; and no call of Stop hangs.         *)
EngineProgress ==
    /\ \A t \in Enabled :
         []<>(\/ state[t] = "running" \/ stopped \/ loop = "none"
              \/ lastRun[t] # Never /\ now - lastRun[t] < Interval[t])
    /\ []<>(stopper \in {"idle", "returned"})
=============================================================================
