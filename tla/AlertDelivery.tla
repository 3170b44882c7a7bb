----------------------------- MODULE AlertDelivery -----------------------------
(***************************************************************************)
(* The alert task: rows of agent_audit_log that an operator must hear of   *)
(* are sent, page by page, through every configured channel, behind a      *)
(* keyset cursor on (created_at, id) that is kept in memory and persisted. *)
(* Only the rows of type auto_block and feed_error are modelled: the       *)
(* queries select no other.                                                *)
(***************************************************************************)
EXTENDS Integers, Sequences, FiniteSets

CONSTANTS
    Channels,       \* the configured channels; the webhook, if there, hears all
    PageSize,       \* alertEventPageSize
    MaxPages,       \* alertMaxPagesPerCycle
    MinEvents,      \* AlertConfig.MinEvents
    MaxEvents,      \* bound: rows ever recorded
    MaxTime,        \* bound on the clock, in seconds
    MaxFaults       \* bound: failed sends, failed writes and crashes

DeliveryAssumption == PageSize \in Nat \ {0}

VARIABLES
    log,            \* agent_audit_log: time and kind; the id is the index
    cursor,         \* AlertTask.cursor
    saved,          \* system_config[agent_alert_cursor]
    skipped,        \* rows a restart jumped over, for the properties
    run,            \* the cycle: step, page, pages done, channels not finished
    failed,         \* some channel of the page failed
    sent,           \* per event, the channels that delivered it
    now,
    faults

vars == <<log, cursor, saved, skipped, run, failed, sent, now, faults>>

(* A blocked spoof of a Vietnamese brand (detectVietnamBrandSpoof) is       *)
(* critical; any other block and a feed error are not.                      *)
Kinds == {"critical", "ordinary"}
Unsaved == [at |-> -1, id |-> -1]
Idle == [step |-> "idle", page |-> {}, pages |-> 0, left |-> {}]
Down == [Idle EXCEPT !.step = "down"]

(* NewAlertTask with nothing persisted.                                     *)
Init ==
    /\ log = <<>> /\ sent = <<>>
    /\ cursor = [at |-> 0, id |-> 0] /\ skipped = {}
    /\ saved = Unsaved
    /\ run = Idle /\ failed = FALSE
    /\ now = 0 /\ faults = 0

After(c, i) == log[i].at > c.at \/ (log[i].at = c.at /\ i > c.id)

(* CountAgentEventsAfter.                                                   *)
Backlog == {i \in DOMAIN log : After(cursor, i)}

(* QueryAgentEventsPage: the first PageSize rows behind the cursor; ids grow*)
(* with the clock, so the order is the log's.                               *)
Page == {i \in Backlog : Cardinality({j \in Backlog : j < i}) < PageSize}

(* deliverPage: only brand spoofs go to the channels other than the webhook.*)
Concerns(ch, i) == ch = "webhook" \/ log[i].kind = "critical"
Addressed(page) == {ch \in Channels : \E i \in page : Concerns(ch, i)}

(* RecordAgentEvent, by any task.                                           *)
Record(kind) ==
    /\ Len(log) < MaxEvents
    /\ log' = Append(log, [at |-> now, kind |-> kind])
    /\ sent' = Append(sent, {})
    /\ UNCHANGED <<cursor, saved, skipped, run, failed, now, faults>>

(* Run: nothing happens below the threshold.                                *)
StartCycle ==
    /\ run = Idle
    /\ Channels # {} /\ Cardinality(Backlog) >= MinEvents
    /\ run' = [Idle EXCEPT !.step = "query"]
    /\ UNCHANGED <<log, cursor, saved, skipped, failed, sent, now, faults>>

QueryPage ==
    /\ run.step = "query"
    /\ run' = IF Page = {} \/ run.pages = MaxPages
                THEN Idle
                ELSE [run EXCEPT !.step = "send", !.page = Page, !.left = Addressed(Page)]
    /\ failed' = FALSE
    /\ UNCHANGED <<log, cursor, saved, skipped, sent, now, faults>>

(* A query that fails ends the cycle with the cursor where it was.          *)
QueryFails ==
    /\ run.step = "query" /\ faults < MaxFaults
    /\ run' = Idle /\ faults' = faults + 1
    /\ UNCHANGED <<log, cursor, saved, skipped, failed, sent, now>>

(* sendWebhook, sendTelegram, sendSlack, sendEmail, each on its goroutine.  *)
Deliver(ch) ==
    /\ run.step = "send" /\ ch \in run.left
    /\ run' = [run EXCEPT !.left = @ \ {ch}]
    /\ sent' = [i \in DOMAIN sent |->
                  IF i \in run.page /\ Concerns(ch, i)
                    THEN sent[i] \cup {ch} ELSE sent[i]]
    /\ UNCHANGED <<log, cursor, saved, skipped, failed, now, faults>>

DeliverFails(ch) ==
    /\ run.step = "send" /\ ch \in run.left /\ faults < MaxFaults
    /\ run' = [run EXCEPT !.left = @ \ {ch}]
    /\ failed' = TRUE /\ faults' = faults + 1
    /\ UNCHANGED <<log, cursor, saved, skipped, sent, now>>

Last == CHOOSE i \in run.page : \A j \in run.page : j <= i

(* Mutant: one channel that answered is enough.                             *)
AllSentAny == run.step = "send" /\ (run.left = {} \/ run.left # Addressed(run.page)) /\ ~failed

AllSent == run.step = "send" /\ run.left = {} /\ ~failed

(* advanceCursor, and the next page when this one was full.                 *)
AdvanceTo(persisted) ==
    /\ AllSent
    /\ cursor' = [at |-> log[Last].at, id |-> Last]
    /\ IF persisted THEN saved' = cursor' /\ UNCHANGED faults
                    ELSE faults < MaxFaults /\ faults' = faults + 1 /\ UNCHANGED saved
    /\ run' = IF Cardinality(run.page) < PageSize
                THEN Idle ELSE [Idle EXCEPT !.step = "query", !.pages = run.pages + 1]
    /\ UNCHANGED <<log, skipped, failed, sent, now>>

Advance == \E persisted \in BOOLEAN : AdvanceTo(persisted)

(* Mutant: the failed page is sent again at once, and the cycle never ends. *)
GiveUpNever == FALSE /\ UNCHANGED vars

(* A page that failed anywhere is sent again, to all, on the next cycle.    *)
GiveUp ==
    /\ run.step = "send" /\ run.left = {} /\ failed
    /\ run' = Idle
    /\ UNCHANGED <<log, cursor, saved, skipped, failed, sent, now, faults>>

Crash ==
    /\ run.step # "down" /\ faults < MaxFaults
    /\ run' = Down /\ faults' = faults + 1
    /\ UNCHANGED <<log, cursor, saved, skipped, failed, sent, now>>

(* What a start at the present leaves behind it unread.                     *)
Jumped == {i \in DOMAIN log : After(saved, i) /\ log[i].at < now}

(* NewAlertTask and loadCursor: the persisted cursor.                       *)
Resume ==
    /\ saved # Unsaved
    /\ cursor' = saved
    /\ skipped' = {i \in skipped : ~After(saved, i)}
    /\ UNCHANGED faults

(* The present: nothing was persisted yet, or it cannot be read.            *)
StartBlind ==
    /\ IF saved = Unsaved
         THEN UNCHANGED faults
         ELSE faults < MaxFaults /\ faults' = faults + 1
    /\ cursor' = [at |-> now, id |-> 0]
    /\ skipped' = {i \in skipped : ~After(saved, i)} \cup Jumped

Restart ==
    /\ run = Down
    /\ run' = Idle
    /\ Resume \/ StartBlind
    /\ UNCHANGED <<log, saved, failed, sent, now>>

Tick ==
    /\ now < MaxTime
    /\ now' = now + 1
    /\ UNCHANGED <<log, cursor, saved, skipped, run, failed, sent, faults>>

Next ==
    \/ \E kind \in Kinds : Record(kind)
    \/ StartCycle \/ QueryPage \/ QueryFails \/ Advance \/ GiveUp
    \/ \E ch \in Channels : Deliver(ch) \/ DeliverFails(ch)
    \/ Crash \/ Restart \/ Tick

(* The task's own steps: the engine runs it again and again, and a send     *)
(* ends within its timeout.                                                 *)
TaskStep ==
    \/ StartCycle \/ QueryPage \/ Advance \/ GiveUp \/ Restart
    \/ \E ch \in Channels : Deliver(ch)

Spec == Init /\ [][Next]_vars

-----------------------------------------------------------------------------
(* Properties.                                                              *)

Told(i) == {ch \in Channels : Concerns(ch, i)} \subseteq sent[i]

Passed(i) == ~After(cursor, i) \/ ~After(saved, i)

(* At least once: whatever the order of sends, failures, lost writes and    *)
(* restarts, a row the cursor has passed, in memory or persisted, is known  *)
(* to each of its channels.  The exemption is the one the code makes: rows  *)
(* recorded before a restart that found no readable cursor.                 *)
AtLeastOnce == \A i \in DOMAIN log : Passed(i) => Told(i) \/ i \in skipped

(* What alert.go says of itself: the cursor is persisted so that a restart  *)
(* skips no event, and a cursor that cannot be loaded never silently skips  *)
(* a backlog.  A crash before the first page was delivered refutes it.      *)
NothingSkipped == \A i \in DOMAIN log : Passed(i) => Told(i)

(* A backlog over the threshold is worked off once the channels answer, or  *)
(* jumped over by a restart, which drains it too.                           *)
BacklogDrains == []<>(Cardinality(Backlog) < MinEvents)
=============================================================================
