----------------------------- MODULE RecordParts -----------------------------
(***************************************************************************)
(* What the system keeps: the threat feed, with the parser that decides    *)
(* what of a feed is admitted, the decisions of operators and the agent    *)
(* about names, the walk of the audit over the telemetry, the labels of    *)
(* URLs and the sessions of those who decide.  The parts share no state.   *)
(***************************************************************************)
EXTENDS FeedSync

CONSTANTS
    Host, Address, Resource, Limits, MaxBad, MaxLines,
    NameCount, Lookback, MinOccurrences, MaxPerCycle,
    Reviewed, Walk, Registrable, ProposalTTL, Retention, Flagged, MaxProposals, MaxReports,
    Event, Persisted, Caller, Capacity, MaxRows, LabelRetention, MaxKey, LabelTime,
    Session, SessionTTL, KeepRows, SessionTime

VARIABLES
    mode, csv, limit, lines, seen, truncated, stats, queued, plan, overCapacity,
    hits, place, savedPlace, cycle, alive, audited, auditClock, auditFaults,
    auto, audit, proposals, reports, override, groups, ids, reviewClock,
    entries, index, nextSlot, labels, key, call, labelClock,
    sessionRows, cookie, guest, guestCookie, guestEdit, up, leaving, loggedOut, last, sessionClock

P == INSTANCE FeedParse

C == INSTANCE AuditCursor WITH
        cursor <- place, saved <- savedPlace, run <- cycle, up <- alive, now <- auditClock,
        faults <- auditFaults

M == INSTANCE Moderation WITH Domain <- Reviewed, Suspicious <- Flagged, now <- reviewClock

U == INSTANCE UrlFeedback WITH
        Retention <- LabelRetention, MaxTime <- LabelTime, rows <- labels, now <- labelClock

S == INSTANCE Sessions WITH
        TTL <- SessionTTL, MaxTime <- SessionTime, rows <- sessionRows, edit <- guestEdit,
        now <- sessionClock

(* FeedParse!PlanMatchesEvidence: the admission plan says what the lines    *)
(* say, in any order.                                                       *)
PlanMatchesEvidence == P!PlanMatchesEvidence

(* AuditCursor!PassedWasAudited: the cursor stands behind audited names.    *)
PassedWasAudited == C!PassedWasAudited

(* Moderation!DecisionsStand: reviews are final, the queue is kept, and the *)
(* agent overrides nothing an operator decided for a group.                 *)
DecisionsStand == M!DecisionsStand

(* UrlFeedback!FeedbackKept: what sessions label is kept, in the ring of   *)
(* the memory backend and in the rows of the store.                         *)
FeedbackKept == U!FeedbackKept

(* Sessions!LogoutIsFinal: a session that logged out is not admitted again, *)
(* and an administrators' route admits nobody else.                         *)
LogoutIsFinal == S!LogoutIsFinal

(* Sessions!GuestsChangeNothing: what the requirements say of guests, that  *)
(* every mutation is refused.                                               *)
GuestsChangeNothing == S!GuestsChangeNothing
=============================================================================
