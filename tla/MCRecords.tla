------------------------------ MODULE MCRecords ------------------------------
(***************************************************************************)
(* What the system keeps, for TLC.  Its parts share no state, so a         *)
(* behaviour exercises one of them.                                        *)
(***************************************************************************)
EXTENDS RecordParts

CONSTANTS daemon, cli, s1, s2, a, c, p

VARIABLE part

parseVars == <<mode, csv, limit, lines, seen, truncated, stats, queued, plan, overCapacity>>
auditVars == <<hits, place, savedPlace, cycle, alive, audited, auditClock, auditFaults>>
reviewVars == <<auto, audit, proposals, reports, override, groups, ids, reviewClock>>
labelVars == <<entries, index, nextSlot, labels, key, call, labelClock>>
sessionVars ==
    <<sessionRows, cookie, guest, guestCookie, guestEdit, up, leaving, loggedOut, last, sessionClock>>
suiteVars == <<part, vars, parseVars, auditVars, reviewVars, labelVars, sessionVars>>

ASSUME PartAssumptions ==
    /\ P!ParseAssumption /\ C!AuditAssumption /\ M!ModerationAssumption
    /\ U!FeedbackAssumption /\ S!SessionAssumption

MCCycle == [w \in Writer |-> IF w = daemon THEN <<s1, s2>> ELSE <<s1>>]
MCListings == {{}, {a, p}, {c}}

(* A registrable name and one below it, which the telemetry reports.        *)
MCWalk == [d \in Reviewed |-> IF d = "sub.d" THEN {"sub.d", "d"} ELSE {d}]

SuiteInit ==
    /\ part \in {"sync", "parse", "review", "audit", "ring", "labels", "sessions"}
    /\ Init /\ P!Init /\ C!Init /\ M!Init /\ U!Init /\ S!Init
    /\ part # "sync" => churnTTL = 0 /\ ~replacing
    /\ part # "parse" => mode = "legacy" /\ ~csv /\ limit = 0
    /\ part # "review" => ~auto
    /\ hits = [n \in C!Name |-> {-1}]

SuiteNext ==
    \/ /\ part = "sync" /\ Next
       /\ UNCHANGED <<part, parseVars, auditVars, reviewVars, labelVars, sessionVars>>
    \/ /\ part = "parse" /\ P!Next
       /\ UNCHANGED <<part, vars, auditVars, reviewVars, labelVars, sessionVars>>
    \/ /\ part = "audit" /\ C!Next
       /\ UNCHANGED <<part, vars, parseVars, reviewVars, labelVars, sessionVars>>
    \/ /\ part = "review" /\ M!Next
       /\ UNCHANGED <<part, vars, parseVars, auditVars, labelVars, sessionVars>>
    \/ /\ part = "ring" /\ U!MemoryNext
       /\ UNCHANGED <<part, vars, parseVars, auditVars, reviewVars, sessionVars>>
    \/ /\ part = "labels" /\ U!DurableNext
       /\ UNCHANGED <<part, vars, parseVars, auditVars, reviewVars, sessionVars>>
    \/ /\ part = "sessions" /\ S!Next
       /\ UNCHANGED <<part, vars, parseVars, auditVars, reviewVars, labelVars>>

SuiteSpec == SuiteInit /\ [][SuiteNext]_suiteVars
=============================================================================
