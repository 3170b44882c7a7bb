------------------------------ MODULE RecordProofs ------------------------------
(***************************************************************************)
(* What the system keeps, for any number of writers, sources, names and    *)
(* faults.  The threat feed: types, that no refused name becomes a member, *)
(* that no sync takes the last live member away, and that what a source    *)
(* lists is live until its next cycle and while the status says ok; the    *)
(* parser, whose admission plan says what the lines it kept say.  Then the *)
(* audit's cursor and what it queues for review, the labels of URLs and    *)
(* the end of sessions.                                                    *)
(***************************************************************************)
EXTENDS RecordParts, TLAPS, FiniteSetTheorems, NaturalsInduction, WellFoundedInduction

(* What a writer holds in the steps of its sync.  What it has written and   *)
(* what it has left are different names.                                    *)
Holds(w) ==
    /\ pc[w] # "idle" => w \in Active /\ reg[w].todo # <<>>
    /\ pc[w] \in {"idle", "open"} => reg[w].list = {} /\ reg[w].written = 0
    /\ pc[w] \in {"rename", "bump", "status"} => reg[w].rest = {}
    /\ pc[w] = "rename" => replacing
    /\ reg[w].rest \cap Refused = {}
    /\ reg[w].written + Cardinality(reg[w].rest) <= Cardinality(Domain)
    /\ Members(staging[w]) \cap Refused = {}

FeedInv ==
    /\ TypeOK
    /\ ValidChurnTTL(churnTTL)
    /\ \A w \in Writer : Holds(w)

(* Every window is at least a day.                                          *)
LEMMA Windows ==
    ASSUME TypeOK, ValidChurnTTL(churnTTL), NEW d \in Domain
    PROVE  MemberTTL(d) \in 0..TTL /\ MemberTTL(d) > 0
<1>1. churnTTL \in Nat /\ TTL \in Nat \ {0}
  BY FeedAssumption DEF TypeOK
<1> QED BY <1>1 DEF MemberTTL, ValidChurnTTL

(* And longer than an interval, or than the staleness window, when the      *)
(* settings fit.                                                            *)
LEMMA FittingWindows ==
    ASSUME TypeOK, ValidChurnTTL(churnTTL), NEW d \in Domain
    PROVE  /\ CheckCoversCycles => MemberTTL(d) > Interval
           /\ WarnsInTime => MemberTTL(d) > StaleAfter
<1>1. /\ churnTTL \in Nat /\ TTL \in Nat /\ Interval \in Nat /\ CheckedInterval \in Nat
      /\ StaleAfter \in Nat
  BY FeedAssumption DEF TypeOK
<1> QED BY <1>1 DEF MemberTTL, ValidChurnTTL, CheckCoversCycles, WarnsInTime

LEMMA ConstantTypes ==
    /\ Interval \in Nat /\ TTL \in Nat /\ StaleAfter \in Nat
    /\ MaxTime \in Nat /\ MaxRevision \in Nat /\ MaxFaults \in Nat
    /\ Cardinality(Domain) \in Nat
<1>1. Cardinality(Domain) \in Nat
  BY FeedAssumption, FS_CardinalityType
<1> QED BY <1>1, FeedAssumption

(* The sources still to sync are sources, the current one too.              *)
LEMMA CurrentType ==
    ASSUME FeedInv, NEW w \in Writer, pc[w] # "idle"
    PROVE  /\ Current(w) \in Source
           /\ Tail(reg[w].todo) \in Seq(Source)
<1>1. reg[w].todo \in Seq(Source) /\ reg[w].todo # <<>>
  BY DEF FeedInv, Holds, TypeOK, Register
<1> QED BY <1>1 DEF Current

(* Registers between two syncs.                                             *)
LEMMA FreshRegister ==
    ASSUME NEW left \in Seq(Source)
    PROVE  LET r == [NoRegister EXCEPT !.todo = left]
           IN  /\ r \in Register
               /\ r.todo = left /\ r.list = {} /\ r.rest = {} /\ r.written = 0
<1>1. 0 \in 0..Cardinality(Domain)
  BY ConstantTypes
<1>2. NoRegister \in Register
  BY <1>1 DEF NoRegister, Register
<1> QED BY <1>2 DEF NoRegister, Register

(* Adding and sweeping keep a sorted set one, and let no refused name in.   *)
LEMMA ZAddType ==
    ASSUME TypeOK, ValidChurnTTL(churnTTL), NEW set \in Scores, NEW names \in SUBSET Domain,
           Members(set) \cap Refused = {}, names \cap Refused = {}
    PROVE  ZAdd(set, names) \in Scores /\ Members(ZAdd(set, names)) \cap Refused = {}
<1>1. now \in 0..MaxTime /\ MaxTime \in Nat /\ TTL \in Nat
  BY ConstantTypes DEF TypeOK
<1>2. \A d \in Domain : now + MemberTTL(d) \in Absent..(MaxTime + TTL)
  BY <1>1, Windows DEF Absent
<1> QED BY <1>2 DEF ZAdd, Scores, Members

LEMMA ZSweepType ==
    ASSUME NEW set \in Scores, Members(set) \cap Refused = {}
    PROVE  ZSweep(set) \in Scores /\ Members(ZSweep(set)) \cap Refused = {}
<1>1. Absent \in Absent..(MaxTime + TTL)
  BY ConstantTypes DEF Absent
<1> QED BY <1>1 DEF ZSweep, Scores, Members

LEMMA EmptyType == Empty \in Scores /\ Members(Empty) = {}
<1>1. Absent \in Absent..(MaxTime + TTL)
  BY ConstantTypes DEF Absent
<1> QED BY <1>1 DEF Empty, Scores, Members

LEMMA NoneLeft == Cardinality({}) = 0
BY FS_EmptySet

LEMMA InitFeed == ASSUME Init PROVE FeedInv
<1>1. NoRegister \in Register
  BY ConstantTypes DEF NoRegister, Register
<1>2. status \in [Source -> Status]
  <2>1. Absent \in Absent..MaxTime
    BY ConstantTypes DEF Absent
  <2> QED BY <2>1 DEF Init, Status
<1>3. TypeOK
  <2>1. now \in 0..MaxTime /\ revision \in 0..MaxRevision /\ faults \in 0..MaxFaults
    BY ConstantTypes DEF Init
  <2>2. due \in [Writer -> 0..(MaxTime + Interval)]
    BY ConstantTypes DEF Init
  <2>3. live \in Scores /\ staging \in [Writer -> Scores] /\ Members(live) \cap Refused = {}
    BY EmptyType DEF Init
  <2>4. churnTTL \in ChurnTTLs /\ replacing \in BOOLEAN /\ promoted \subseteq Domain
    BY DEF Init
  <2>5. reg \in [Writer -> Register]
    BY <1>1 DEF Init
  <2>6. /\ listed \in [Source -> SUBSET Domain]
        /\ pc \in [Writer -> {"idle", "open", "write", "rename", "bump", "status"}]
    BY DEF Init
  <2> QED BY <1>2, <2>1, <2>2, <2>3, <2>4, <2>5, <2>6 DEF TypeOK
<1>4. ASSUME NEW w \in Writer PROVE Holds(w)
  <2>1. /\ reg[w].list = {} /\ reg[w].rest = {} /\ reg[w].written = 0
        /\ pc[w] = "idle" /\ staging[w] = Empty
    BY DEF Init, NoRegister
  <2> QED BY <2>1, EmptyType, NoneLeft, ConstantTypes DEF Holds
<1> QED BY <1>3, <1>4 DEF FeedInv, Init

-----------------------------------------------------------------------------
(* One writer's step leaves what the others hold alone.                     *)
LEMMA OthersHold ==
    ASSUME FeedInv, NEW w \in Writer, replacing' = replacing,
           \A v \in Writer : v # w => pc'[v] = pc[v] /\ reg'[v] = reg[v] /\ staging'[v] = staging[v],
           Holds(w)'
    PROVE  \A v \in Writer : Holds(v)'
<1> SUFFICES ASSUME NEW v \in Writer, v # w PROVE Holds(v)'
  OBVIOUS
<1>1. pc'[v] = pc[v] /\ reg'[v] = reg[v] /\ staging'[v] = staging[v]
  OBVIOUS
<1>2. Holds(v) /\ Active' = Active
  BY DEF FeedInv, Active
<1> QED BY <1>1, <1>2 DEF Holds, Members

(* A sync starts, fails or ends with a fresh register.                      *)
LEMMA FreshHolds ==
    ASSUME FeedInv, NEW w \in Writer, NEW left \in Seq(Source), replacing' = replacing,
           reg' = [reg EXCEPT ![w] = [NoRegister EXCEPT !.todo = left]],
           pc' = [pc EXCEPT ![w] = IF left = <<>> THEN "idle" ELSE "open"],
           w \in Active,
           staging' \in {staging, [staging EXCEPT ![w] = Empty]}
    PROVE  /\ reg' \in [Writer -> Register]
           /\ pc' \in [Writer -> {"idle", "open", "write", "rename", "bump", "status"}]
           /\ staging' \in [Writer -> Scores]
           /\ \A v \in Writer : Holds(v)'
<1>1. /\ reg \in [Writer -> Register] /\ staging \in [Writer -> Scores]
      /\ pc \in [Writer -> {"idle", "open", "write", "rename", "bump", "status"}]
  BY DEF FeedInv, TypeOK
<1>2. /\ reg'[w].list = {} /\ reg'[w].rest = {} /\ reg'[w].written = 0
      /\ reg'[w].todo = left /\ reg'[w] \in Register
  BY <1>1, FreshRegister
<1>3. Members(staging'[w]) \cap Refused = {} /\ staging' \in [Writer -> Scores]
  <2>1. CASE staging' = staging
    BY <1>1, <2>1 DEF FeedInv, Holds
  <2>2. CASE staging' = [staging EXCEPT ![w] = Empty]
    BY <1>1, <2>2, EmptyType
  <2> QED BY <2>1, <2>2
<1>4. w \in Active'
  BY DEF Active
<1>5. Holds(w)'
  <2>1. pc'[w] \in {"idle", "open"} /\ (pc'[w] = "idle" <=> left = <<>>)
    BY <1>1
  <2>2. reg'[w].written + Cardinality(reg'[w].rest) <= Cardinality(Domain)
    <3>1. reg'[w].written = 0 /\ Cardinality(reg'[w].rest) = 0
      BY <1>2, NoneLeft
    <3> QED BY <3>1, ConstantTypes
  <2>3. (Members(staging[w]) \cap Refused = {})'
    BY <1>3 DEF Members
  <2> QED BY <1>2, <1>4, <2>1, <2>2, <2>3 DEF Holds
<1>6. \A v \in Writer : v # w => pc'[v] = pc[v] /\ reg'[v] = reg[v] /\ staging'[v] = staging[v]
  BY <1>1
<1>7. \A v \in Writer : Holds(v)'
  BY <1>5, <1>6, OthersHold
<1> QED BY <1>1, <1>2, <1>3, <1>7

LEMMA StartFeed == ASSUME FeedInv, NEW w \in Writer, StartCycle(w) PROVE FeedInv'
<1>1. Cycle[w] \in Seq(Source) /\ Cycle[w] # <<>>
  BY FeedAssumption
<1>2. /\ reg' \in [Writer -> Register]
      /\ pc' \in [Writer -> {"idle", "open", "write", "rename", "bump", "status"}]
      /\ \A v \in Writer : Holds(v)'
  BY <1>1, FreshHolds DEF StartCycle, Goto, feedVars
<1>3. due' \in [Writer -> 0..(MaxTime + Interval)]
  <2>1. now + Interval \in 0..(MaxTime + Interval)
    BY ConstantTypes DEF FeedInv, TypeOK
  <2> QED BY <2>1 DEF StartCycle, FeedInv, TypeOK
<1> QED BY <1>2, <1>3 DEF StartCycle, FeedInv, TypeOK, feedVars, ValidChurnTTL, Members

(* The end of one source's sync, whatever it was.                           *)
LEMMA StatusType ==
    ASSUME FeedInv, NEW w \in Writer, pc[w] # "idle",
           \/ RecordFailure(w)
           \/ status' = [status EXCEPT ![Current(w)] =
                           [state |-> "ok", success |-> now, empty |-> reg[w].list = {}]]
    PROVE  status' \in [Source -> Status]
<1>1. Current(w) \in Source /\ status \in [Source -> Status]
  BY CurrentType DEF FeedInv, TypeOK
<1>2. CASE RecordFailure(w)
  <2>1. [status[Current(w)] EXCEPT !.state = "error"] \in Status
    BY <1>1 DEF Status
  <2> QED BY <1>1, <1>2, <2>1 DEF RecordFailure
<1>3. CASE status' = [status EXCEPT ![Current(w)] =
                        [state |-> "ok", success |-> now, empty |-> reg[w].list = {}]]
  <2>1. now \in Absent..MaxTime
    BY ConstantTypes DEF FeedInv, TypeOK, Absent
  <2>2. [state |-> "ok", success |-> now, empty |-> reg[w].list = {}] \in Status
    BY <2>1 DEF Status
  <2> QED BY <1>1, <1>3, <2>2
<1> QED BY <1>2, <1>3

LEMMA NextSourceHolds ==
    ASSUME FeedInv, NEW w \in Writer, pc[w] # "idle", NextSource(w), replacing' = replacing,
           staging' \in {staging, [staging EXCEPT ![w] = Empty]}
    PROVE  /\ reg' \in [Writer -> Register]
           /\ pc' \in [Writer -> {"idle", "open", "write", "rename", "bump", "status"}]
           /\ staging' \in [Writer -> Scores]
           /\ \A v \in Writer : Holds(v)'
<1>1. Tail(reg[w].todo) \in Seq(Source) /\ w \in Active
  BY CurrentType DEF FeedInv, Holds
<1> QED BY <1>1, FreshHolds DEF NextSource, Goto

LEMMA FaultType == ASSUME FeedInv, Fault PROVE faults' \in 0..MaxFaults
BY ConstantTypes DEF FeedInv, TypeOK, Fault

LEMMA EndFeed ==
    ASSUME FeedInv, NEW w \in Writer, RenameRefused(w) \/ RecordSuccess(w) \/ SyncFails(w)
    PROVE  FeedInv'
<1>1. pc[w] # "idle" /\ NextSource(w) /\ replacing' = replacing
      /\ staging' \in {staging, [staging EXCEPT ![w] = Empty]}
  BY DEF RenameRefused, RecordSuccess, SyncFails, feedVars
<1>2. /\ reg' \in [Writer -> Register]
      /\ pc' \in [Writer -> {"idle", "open", "write", "rename", "bump", "status"}]
      /\ staging' \in [Writer -> Scores]
      /\ \A v \in Writer : Holds(v)'
  BY <1>1, NextSourceHolds
<1>3. status' \in [Source -> Status]
  BY <1>1, StatusType DEF RenameRefused, RecordSuccess, SyncFails
<1>4. listed' \in [Source -> SUBSET Domain] /\ faults' \in 0..MaxFaults
  <2>1. CASE RecordSuccess(w)
    <3>1. {d \in reg[w].list : Admissible(d)} \in SUBSET Domain
      BY DEF FeedInv, TypeOK, Register
    <3> QED BY <2>1, <3>1 DEF RecordSuccess, FeedInv, TypeOK
  <2>2. CASE RenameRefused(w) \/ SyncFails(w)
    BY <2>2, FaultType DEF RenameRefused, SyncFails, FeedInv, TypeOK
  <2> QED BY <2>1, <2>2
<1>5. UNCHANGED <<now, churnTTL, replacing, live, revision, due, promoted>>
  BY DEF RenameRefused, RecordSuccess, SyncFails, feedVars
<1> QED BY <1>2, <1>3, <1>4, <1>5 DEF FeedInv, TypeOK, ValidChurnTTL, Members

LEMMA CancelFeed ==
    ASSUME FeedInv, NEW w \in Writer, Cancelled(w) \/ Crash(w) PROVE FeedInv'
<1>1. <<>> \in Seq(Source) /\ NoRegister = [NoRegister EXCEPT !.todo = <<>>]
  BY DEF NoRegister
<1>2. w \in Active
  BY DEF FeedInv, Holds, Cancelled, Crash
<1>3. /\ reg' \in [Writer -> Register]
      /\ pc' \in [Writer -> {"idle", "open", "write", "rename", "bump", "status"}]
      /\ \A v \in Writer : Holds(v)'
  BY <1>1, <1>2, FreshHolds DEF Cancelled, Crash, Goto, feedVars
<1>4. faults' \in 0..MaxFaults
  BY FaultType DEF Cancelled, Crash
<1>5. UNCHANGED <<now, churnTTL, replacing, feedVars, status, due, promoted, listed>>
  BY DEF Cancelled, Crash
<1> QED BY <1>3, <1>4, <1>5 DEF FeedInv, TypeOK, ValidChurnTTL, Members, feedVars

-----------------------------------------------------------------------------
LEMMA OpenFeed ==
    ASSUME FeedInv, NEW w \in Writer, NEW names \in Listings, Open(w, names) PROVE FeedInv'
<1> DEFINE left == {d \in names : Admissible(d)}
<1>1. names \in SUBSET Domain /\ left \in SUBSET Domain /\ left \cap Refused = {}
  BY FeedAssumption DEF Admissible
<1>2. Cardinality(left) <= Cardinality(Domain) /\ Cardinality(left) \in Nat
  BY <1>1, FeedAssumption, FS_Subset, FS_CardinalityType
<1>3. reg \in [Writer -> Register] /\ staging \in [Writer -> Scores]
      /\ pc \in [Writer -> {"idle", "open", "write", "rename", "bump", "status"}]
  BY DEF FeedInv, TypeOK
<1>4. /\ reg'[w] = [reg[w] EXCEPT !.list = names, !.rest = left]
      /\ reg' = [reg EXCEPT ![w] = reg'[w]]
  BY <1>3 DEF Open
<1>5. /\ reg'[w] \in Register /\ reg'[w].list = names /\ reg'[w].rest = left
      /\ reg'[w].written = reg[w].written /\ reg'[w].todo = reg[w].todo
  <2> HIDE DEF left
  <2>1. reg[w] \in Register
    BY <1>3
  <2>2. [reg[w] EXCEPT !.list = names, !.rest = left] \in Register
    BY <1>1, <2>1 DEF Register
  <2> QED BY <1>4, <2>1, <2>2 DEF Register
<1>6. /\ pc[w] = "open" /\ pc' = [pc EXCEPT ![w] = "write"]
      /\ staging' = [staging EXCEPT ![w] = Empty]
      /\ UNCHANGED <<now, churnTTL, replacing, live, revision, status, due, promoted, faults, listed>>
  BY DEF Open, Goto
<1>7. staging'[w] = Empty /\ staging' \in [Writer -> Scores]
  BY <1>3, <1>6, EmptyType
<1>8. Holds(w)'
  <2>1. w \in Active' /\ reg[w].todo # <<>> /\ reg[w].written = 0
    BY <1>6 DEF FeedInv, Holds, Active
  <2>2. (Members(staging[w]) \cap Refused = {})'
    BY <1>7, EmptyType DEF Members
  <2>3. reg'[w].written + Cardinality(reg'[w].rest) <= Cardinality(Domain)
    BY <1>2, <1>5, <2>1, ConstantTypes
  <2> QED BY <1>1, <1>3, <1>5, <1>6, <2>1, <2>2, <2>3 DEF Holds
<1>9. \A v \in Writer : Holds(v)'
  BY <1>3, <1>4, <1>6, <1>8, OthersHold
<1>10. reg' \in [Writer -> Register]
  BY <1>3, <1>4, <1>5
<1> QED BY <1>3, <1>6, <1>7, <1>9, <1>10 DEF FeedInv, TypeOK, ValidChurnTTL, Members

(* What a batch writes and what it leaves are together no more than before. *)
LEMMA BatchCount ==
    ASSUME NEW rest \in SUBSET Domain, NEW b \in SUBSET rest, NEW known
    PROVE  /\ Cardinality(rest \ b) \in Nat /\ Cardinality(b \ known) \in Nat
           /\ Cardinality(rest) \in Nat
           /\ Cardinality(b \ known) + Cardinality(rest \ b) <= Cardinality(rest)
<1>1. IsFiniteSet(rest)
  BY FeedAssumption, FS_Subset
<1>2. IsFiniteSet(b) /\ IsFiniteSet(rest \ b) /\ IsFiniteSet(b \ known)
  BY <1>1, FS_Subset
<1>3. Cardinality(b \ known) <= Cardinality(b)
  BY <1>2, FS_Subset
<1>4. Cardinality(rest \ b) = Cardinality(rest) - Cardinality(rest \cap b)
  BY <1>1, <1>2, FS_Difference
<1>5. rest \cap b = b
  OBVIOUS
<1>6. /\ Cardinality(rest) \in Nat /\ Cardinality(b) \in Nat
      /\ Cardinality(rest \ b) \in Nat /\ Cardinality(b \ known) \in Nat
  BY <1>1, <1>2, FS_CardinalityType
<1>7. Cardinality(rest \ b) = Cardinality(rest) - Cardinality(b)
  BY <1>4, <1>5
<1> QED BY <1>3, <1>6, <1>7

LEMMA WriteFeed == ASSUME FeedInv, NEW w \in Writer, WriteBatch(w) PROVE FeedInv'
<1> DEFINE target == IF replacing THEN staging[w] ELSE live
<1>1. PICK b \in Batches(reg[w].rest) :
        /\ reg' = [reg EXCEPT ![w].rest = @ \ b,
                              ![w].written = @ + Cardinality(b \ Members(target))]
        /\ IF replacing
             THEN staging' = [staging EXCEPT ![w] = ZAdd(@, b)] /\ UNCHANGED live
             ELSE live' = ZAdd(live, b) /\ UNCHANGED staging
  BY DEF WriteBatch
<1>2. reg \in [Writer -> Register] /\ staging \in [Writer -> Scores] /\ live \in Scores
  BY DEF FeedInv, TypeOK
<1>3. pc[w] = "write"
      /\ UNCHANGED <<now, churnTTL, replacing, revision, status, due, pc, promoted, faults, listed>>
  BY DEF WriteBatch
<1>4. /\ reg[w].rest \in SUBSET Domain /\ b \in SUBSET reg[w].rest
      /\ reg[w].rest \cap Refused = {}
  BY <1>2 DEF Batches, Register, FeedInv, Holds
<1> DEFINE more == Cardinality(b \ Members(target))
<1>5. /\ more \in Nat /\ Cardinality(reg[w].rest \ b) \in Nat
      /\ Cardinality(reg[w].rest) \in Nat
      /\ more + Cardinality(reg[w].rest \ b) <= Cardinality(reg[w].rest)
  BY <1>4, BatchCount
<1>6. reg[w].written \in Nat /\ reg[w].written + Cardinality(reg[w].rest) <= Cardinality(Domain)
  BY <1>2, ConstantTypes DEF Register, FeedInv, Holds
<1> HIDE DEF more
<1>7. /\ reg[w].written + more \in 0..Cardinality(Domain)
      /\ reg[w].written + more + Cardinality(reg[w].rest \ b) <= Cardinality(Domain)
  BY <1>5, <1>6, ConstantTypes
<1>8. /\ reg'[w] = [reg[w] EXCEPT !.rest = @ \ b, !.written = @ + more]
      /\ reg' = [reg EXCEPT ![w] = reg'[w]]
  BY <1>1, <1>2 DEF more
<1>9. /\ reg'[w] \in Register /\ reg'[w].list = reg[w].list /\ reg'[w].rest = reg[w].rest \ b
      /\ reg'[w].written = reg[w].written + more /\ reg'[w].todo = reg[w].todo
  <2>1. reg[w] \in Register /\ reg[w].rest \ b \in SUBSET Domain
    BY <1>2, <1>4
  <2>2. [reg[w] EXCEPT !.rest = @ \ b, !.written = @ + more] \in Register
    BY <1>7, <2>1 DEF Register
  <2> QED BY <1>8, <2>1, <2>2 DEF Register
<1>10. /\ ZAdd(target, b) \in Scores /\ Members(ZAdd(target, b)) \cap Refused = {}
       /\ \A v \in Writer : Members(staging[v]) \cap Refused = {}
  <2>1. Members(target) \cap Refused = {} /\ target \in Scores
    BY <1>2 DEF FeedInv, TypeOK, Holds
  <2> QED BY <1>4, <2>1, ZAddType DEF FeedInv, Holds
<1>11. /\ live' \in Scores /\ Members(live') \cap Refused = {}
       /\ staging' \in [Writer -> Scores] /\ Members(staging'[w]) \cap Refused = {}
       /\ \A v \in Writer : v # w => staging'[v] = staging[v]
  <2>1. CASE replacing
    BY <1>1, <1>2, <1>10, <2>1 DEF FeedInv, TypeOK
  <2>2. CASE ~replacing
    BY <1>1, <1>2, <1>10, <2>2 DEF FeedInv, TypeOK
  <2> QED BY <2>1, <2>2
<1>12. Holds(w)'
  <2>1. w \in Active' /\ reg[w].todo # <<>>
    BY <1>3 DEF FeedInv, Holds, Active
  <2>2. (Members(staging[w]) \cap Refused = {})'
    BY <1>11 DEF Members
  <2>3. reg'[w].written + Cardinality(reg'[w].rest) <= Cardinality(Domain)
    BY <1>7, <1>9
  <2> QED BY <1>3, <1>4, <1>9, <2>1, <2>2, <2>3 DEF Holds
<1>13. \A v \in Writer : Holds(v)'
  BY <1>2, <1>3, <1>8, <1>11, <1>12, OthersHold
<1>14. reg' \in [Writer -> Register]
  BY <1>2, <1>8, <1>9
<1> QED BY <1>3, <1>11, <1>13, <1>14 DEF FeedInv, TypeOK, ValidChurnTTL, Members

(* A step of w's sync that keeps its register and stays inside the sync.    *)
LEMMA AdvanceHolds ==
    ASSUME FeedInv, NEW w \in Writer, replacing' = replacing, reg' = reg, pc[w] # "idle",
           NEW step \in {"rename", "bump", "status"}, step = "rename" => replacing,
           pc' = [pc EXCEPT ![w] = step],
           reg[w].rest = {}, Members(staging'[w]) \cap Refused = {},
           \A v \in Writer : v # w => staging'[v] = staging[v]
    PROVE  /\ pc' \in [Writer -> {"idle", "open", "write", "rename", "bump", "status"}]
           /\ \A v \in Writer : Holds(v)'
<1>1. pc \in [Writer -> {"idle", "open", "write", "rename", "bump", "status"}]
  BY DEF FeedInv, TypeOK
<1>2. w \in Active' /\ Holds(w)
  BY DEF FeedInv, Holds, Active
<1>3. (Members(staging[w]) \cap Refused = {})'
  BY DEF Members
<1>4. Holds(w)'
  BY <1>1, <1>2, <1>3 DEF Holds
<1> QED BY <1>1, <1>4, OthersHold

LEMMA SweepFeed ==
    ASSUME FeedInv, NEW w \in Writer, Sweep(w) \/ Rename(w) \/ BumpRevision(w)
    PROVE  FeedInv'
<1>1. /\ staging \in [Writer -> Scores] /\ live \in Scores /\ Members(live) \cap Refused = {}
      /\ \A v \in Writer : Members(staging[v]) \cap Refused = {}
  BY DEF FeedInv, TypeOK, Holds
<1>2. /\ pc[w] # "idle" /\ reg[w].rest = {}
      /\ UNCHANGED <<now, churnTTL, replacing, status, due, reg, promoted, listed>>
      /\ \E step \in {"rename", "bump", "status"} :
           (step = "rename" => replacing) /\ pc' = [pc EXCEPT ![w] = step]
  BY DEF Sweep, Rename, BumpRevision, Goto, FeedInv, Holds
<1>3. /\ live' \in Scores /\ Members(live') \cap Refused = {}
      /\ staging' \in [Writer -> Scores] /\ Members(staging'[w]) \cap Refused = {}
      /\ \A v \in Writer : v # w => staging'[v] = staging[v]
  <2>1. CASE Sweep(w)
    <3>1. CASE staging' = [staging EXCEPT ![w] = ZSweep(@)] /\ live' = live
      BY <1>1, <3>1, ZSweepType
    <3>2. CASE live' = ZSweep(live) /\ staging' = staging
      BY <1>1, <3>2, ZSweepType
    <3>3. CASE live' = live /\ staging' = staging
      BY <1>1, <3>3
    <3> QED BY <2>1, <3>1, <3>2, <3>3 DEF Sweep
  <2>2. CASE Rename(w)
    BY <1>1, <2>2, EmptyType DEF Rename
  <2>3. CASE BumpRevision(w)
    BY <1>1, <2>3 DEF BumpRevision
  <2> QED BY <2>1, <2>2, <2>3
<1>4. revision' \in 0..MaxRevision /\ faults' \in 0..MaxFaults
  <2>1. revision \in 0..MaxRevision /\ faults \in 0..MaxFaults
    BY DEF FeedInv, TypeOK
  <2>2. CASE Sweep(w)
    BY <2>1, <2>2, FaultType DEF Sweep
  <2>3. CASE Rename(w)
    BY <2>1, <2>3 DEF Rename
  <2>4. CASE BumpRevision(w)
    BY <2>1, <2>4, ConstantTypes DEF BumpRevision, Bump
  <2> QED BY <2>2, <2>3, <2>4
<1>5. /\ pc' \in [Writer -> {"idle", "open", "write", "rename", "bump", "status"}]
      /\ \A v \in Writer : Holds(v)'
  BY <1>2, <1>3, AdvanceHolds
<1> QED BY <1>2, <1>3, <1>4, <1>5 DEF FeedInv, TypeOK, ValidChurnTTL, Members

LEMMA OtherFeed ==
    ASSUME FeedInv, (\E d \in Domain : Promote(d)) \/ EndPromotions \/ Tick \/ UNCHANGED vars
    PROVE  FeedInv'
<1>1. UNCHANGED <<churnTTL, replacing, staging, status, due, pc, reg, listed>>
  BY DEF Promote, EndPromotions, Tick, feedVars, vars
<1>2. ASSUME NEW w \in Writer PROVE Holds(w)'
  <2>1. Holds(w)
    BY DEF FeedInv
  <2> QED BY <1>1, <2>1 DEF Holds, Active, Members
<1>3. live' \in Scores /\ Members(live') \cap Refused = {}
  <2>1. live \in Scores /\ Members(live) \cap Refused = {}
    BY DEF FeedInv, TypeOK
  <2>2. ASSUME NEW d \in Domain, Promote(d) PROVE live' \in Scores /\ Members(live') \cap Refused = {}
    <3>1. {d} \in SUBSET Domain /\ {d} \cap Refused = {}
      BY <2>2 DEF Promote, Admissible
    <3> QED BY <2>1, <2>2, <3>1, ZAddType DEF Promote, FeedInv
  <2>3. CASE EndPromotions \/ Tick \/ UNCHANGED vars
    BY <2>1, <2>3 DEF EndPromotions, Tick, vars, feedVars
  <2> QED BY <2>2, <2>3
<1>4. now' \in 0..MaxTime /\ revision' \in 0..MaxRevision /\ faults' \in 0..MaxFaults
  <2>1. now \in 0..MaxTime /\ revision \in 0..MaxRevision /\ faults \in 0..MaxFaults
    BY DEF FeedInv, TypeOK
  <2>2. CASE \E d \in Domain : Promote(d)
    BY <2>1, <2>2, FaultType DEF Promote
  <2>3. CASE EndPromotions
    BY <2>1, <2>3, FaultType, ConstantTypes DEF EndPromotions, Bump
  <2>4. CASE Tick
    BY <2>1, <2>4, ConstantTypes DEF Tick, feedVars
  <2>5. CASE UNCHANGED vars
    BY <2>1, <2>5 DEF vars
  <2> QED BY <2>2, <2>3, <2>4, <2>5
<1>5. promoted' \subseteq Domain
  BY DEF Promote, EndPromotions, Tick, vars, FeedInv, TypeOK
<1> QED BY <1>1, <1>2, <1>3, <1>4, <1>5 DEF FeedInv, TypeOK, ValidChurnTTL, Members

LEMMA NextFeed == ASSUME FeedInv, [Next]_vars PROVE FeedInv'
BY StartFeed, OpenFeed, WriteFeed, SweepFeed, EndFeed, CancelFeed, OtherFeed DEF Next

(* Types, and no name the admission policy refuses is ever a member of the  *)
(* live or of a staged set, whoever writes it.                              *)
THEOREM FeedTypes == Spec => []FeedInv
BY InitFeed, NextFeed, PTL DEF Spec

-----------------------------------------------------------------------------
(* What is staged was staged today: the rename cannot put expired members   *)
(* in the place of live ones.                                               *)
StagedToday ==
    \A w \in Writer : pc[w] \in {"write", "rename"} =>
      \A d \in Domain : staging[w][d] # Absent => staging[w][d] > now

LEMMA ClockType == ASSUME FeedInv PROVE now \in Nat
BY ConstantTypes DEF FeedInv, TypeOK

LEMMA InitStaged == ASSUME Init PROVE StagedToday
BY DEF Init, StagedToday

LEMMA NextStaged == ASSUME FeedInv, StagedToday, [Next]_vars PROVE StagedToday'
<1>1. now \in Nat /\ staging \in [Writer -> Scores]
      /\ pc \in [Writer -> {"idle", "open", "write", "rename", "bump", "status"}]
  BY ClockType DEF FeedInv, TypeOK
<1>2. \A d \in Domain : MemberTTL(d) \in Nat /\ MemberTTL(d) > 0
  BY Windows, ConstantTypes DEF FeedInv
<1>3. ASSUME NEW w \in Writer, NEW names \in Listings, Open(w, names) PROVE StagedToday'
  BY <1>1, <1>3 DEF Open, Goto, StagedToday, Empty
<1>4. ASSUME NEW w \in Writer, WriteBatch(w) PROVE StagedToday'
  <2>1. /\ now' = now /\ pc' = pc
        /\ \/ staging' = staging
           \/ \E b \in SUBSET Domain : pc[w] = "write" /\ staging' = [staging EXCEPT ![w] = ZAdd(@, b)]
    <3>1. reg[w].rest \in SUBSET Domain
      BY DEF FeedInv, TypeOK, Register
    <3> QED BY <1>4, <3>1 DEF WriteBatch, Batches
  <2>2. CASE staging' = staging
    BY <2>1, <2>2 DEF StagedToday
  <2>3. ASSUME NEW b \in SUBSET Domain, pc[w] = "write", staging' = [staging EXCEPT ![w] = ZAdd(@, b)]
        PROVE  StagedToday'
    <3>1. \A d \in Domain : staging'[w][d] = staging[w][d] \/ staging'[w][d] = now + MemberTTL(d)
      BY <1>1, <2>3 DEF ZAdd
    <3>2. \A d \in Domain : now + MemberTTL(d) > now
      BY <1>1, <1>2
    <3> QED BY <1>1, <2>1, <2>3, <3>1, <3>2 DEF StagedToday
  <2> QED BY <2>1, <2>2, <2>3
<1>5. ASSUME NEW w \in Writer, Sweep(w) PROVE StagedToday'
  <2>1. /\ now' = now /\ pc[w] = "write"
        /\ \A v \in Writer : v # w => pc'[v] = pc[v] /\ staging'[v] = staging[v]
        /\ \A d \in Domain : staging'[w][d] \in {Absent, staging[w][d]}
    BY <1>1, <1>5 DEF Sweep, Goto, ZSweep
  <2> QED BY <2>1 DEF StagedToday
<1>6. ASSUME NEW w \in Writer,
             \/ StartCycle(w) \/ Rename(w) \/ RenameRefused(w) \/ BumpRevision(w)
             \/ RecordSuccess(w) \/ SyncFails(w) \/ Cancelled(w) \/ Crash(w)
      PROVE  StagedToday'
  <2>1. /\ now' = now /\ pc'[w] \notin {"write", "rename"}
        /\ \A v \in Writer : v # w => pc'[v] = pc[v] /\ staging'[v] = staging[v]
    BY <1>1, <1>6 DEF StartCycle, Rename, RenameRefused, BumpRevision, RecordSuccess, SyncFails,
                      Cancelled, Crash, NextSource, Goto, feedVars
  <2> QED BY <2>1 DEF StagedToday
<1>7. CASE (\E d \in Domain : Promote(d)) \/ EndPromotions \/ UNCHANGED vars
  BY <1>7 DEF Promote, EndPromotions, vars, StagedToday
<1>8. CASE Tick
  <2>1. \A w \in Writer : pc[w] = "idle"
    BY <1>8 DEF Tick, FeedInv, Holds
  <2> QED BY <1>8, <2>1 DEF Tick, StagedToday
<1> QED BY <1>3, <1>4, <1>5, <1>6, <1>7, <1>8 DEF Next

(* No step takes the last member that expires later away.                   *)
LEMMA Survives ==
    ASSUME FeedInv, StagedToday, [Next]_vars, now' = now,
           NEW d \in Domain, live[d] > now
    PROVE  \E e \in Domain : live'[e] > now
<1>1. now \in Nat /\ live \in Scores
  BY ClockType DEF FeedInv, TypeOK
<1>2. \A e \in Domain : now + MemberTTL(e) > now
  BY <1>1, Windows, ConstantTypes DEF FeedInv
<1>3. ASSUME NEW names \in SUBSET Domain, live' = ZAdd(live, names) PROVE live'[d] > now
  BY <1>2, <1>3 DEF ZAdd
<1>4. ASSUME NEW w \in Writer, WriteBatch(w) PROVE live'[d] > now
  <2>1. reg[w].rest \in SUBSET Domain
    BY DEF FeedInv, TypeOK, Register
  <2>2. live' = live \/ \E b \in SUBSET Domain : live' = ZAdd(live, b)
    BY <1>4, <2>1 DEF WriteBatch, Batches
  <2> QED BY <1>3, <2>2
<1>5. ASSUME NEW e \in Domain, Promote(e) PROVE live'[d] > now
  BY <1>3, <1>5 DEF Promote
<1>6. ASSUME NEW w \in Writer, Sweep(w) PROVE live'[d] > now
  <2>1. ~(live[d] <= now)
    BY <1>1 DEF Scores, Absent
  <2> QED BY <1>6, <2>1 DEF Sweep, ZSweep
<1>7. ASSUME NEW w \in Writer, Rename(w) PROVE \E e \in Domain : live'[e] > now
  <2>1. PICK e \in Domain : staging[w][e] # Absent
    BY <1>7 DEF Rename, CanRename, Members
  <2> QED BY <1>7, <2>1 DEF Rename, StagedToday
<1>8. ASSUME NEW w \in Writer,
             \/ StartCycle(w) \/ (\E names \in Listings : Open(w, names)) \/ RenameRefused(w)
             \/ BumpRevision(w) \/ RecordSuccess(w) \/ SyncFails(w) \/ Cancelled(w) \/ Crash(w)
      PROVE  live' = live
  BY <1>8 DEF StartCycle, Open, RenameRefused, BumpRevision, RecordSuccess, SyncFails, Cancelled,
              Crash, feedVars
<1>9. CASE EndPromotions \/ Tick \/ UNCHANGED vars
  BY <1>9 DEF EndPromotions, Tick, feedVars, vars
<1> QED BY <1>4, <1>5, <1>6, <1>7, <1>8, <1>9 DEF Next

(* While the clock stands still a feed with live members keeps some, at     *)
(* every step of every writer and wherever a replace sync fails or dies.    *)
THEOREM FeedSurvives == Spec => LiveFeedSurvives
<1>1. FeedInv /\ StagedToday /\ [Next]_vars =>
        [now' = now /\ (\E d \in Domain : live[d] > now) => \E d \in Domain : live'[d] > now]_vars
  BY Survives
<1> QED BY <1>1, FeedTypes, InitStaged, NextStaged, PTL DEF Spec, LiveFeedSurvives

-----------------------------------------------------------------------------
(* What a running sync has written today holds its full window.             *)
Written(w) ==
    \A d \in reg[w].list : Admissible(d) /\ d \notin reg[w].rest => live[d] >= now + MemberTTL(d)

(* What a source listed at its last success holds the window of that day,   *)
(* or the window is over.                                                   *)
Delivered(s) ==
    status[s].success # Absent =>
      /\ status[s].success <= now
      /\ \A d \in listed[s] : \/ live[d] >= status[s].success + MemberTTL(d)
                              \/ now >= status[s].success + MemberTTL(d)

ListedInv ==
    ~replacing => (\A w \in Writer : Written(w)) /\ (\A s \in Source : Delivered(s))

(* How a merging feed may change while the clock stands still.              *)
Rescored ==
    \A d \in Domain : \/ live'[d] = live[d]
                      \/ live'[d] = now + MemberTTL(d)
                      \/ live[d] <= now

LEMMA FeedTypesHere ==
    ASSUME FeedInv
    PROVE  /\ now \in Nat
           /\ \A d \in Domain : live[d] \in Int /\ MemberTTL(d) \in Nat /\ MemberTTL(d) > 0
           /\ \A s \in Source : status[s].success \in Int /\ listed[s] \subseteq Domain
           /\ \A w \in Writer : reg[w].list \subseteq Domain
<1>1. \A d \in Domain : live[d] \in Int
  BY ConstantTypes DEF FeedInv, TypeOK, Scores, Absent
<1>2. \A d \in Domain : MemberTTL(d) \in Nat /\ MemberTTL(d) > 0
  BY Windows, ConstantTypes DEF FeedInv
<1>3. \A s \in Source : status[s].success \in Int
  BY ConstantTypes DEF FeedInv, TypeOK, Status, Absent
<1>4. \A w \in Writer : reg[w].list \subseteq Domain
  BY DEF FeedInv, TypeOK, Register
<1> QED BY <1>1, <1>2, <1>3, <1>4, ClockType DEF FeedInv, TypeOK

LEMMA WrittenKept ==
    ASSUME FeedInv, FeedInv', NEW w \in Writer, Written(w), Rescored,
           now' = now, churnTTL' = churnTTL,
           \A d \in reg'[w].list : Admissible(d) /\ d \notin reg'[w].rest =>
             (d \in reg[w].list /\ d \notin reg[w].rest) \/ live'[d] = now + MemberTTL(d)
    PROVE  Written(w)'
<1> SUFFICES ASSUME NEW d \in reg'[w].list, Admissible(d), d \notin reg'[w].rest
             PROVE  live'[d] >= now + MemberTTL(d)
  BY DEF Written, MemberTTL, Admissible
<1>1. d \in Domain
  BY FeedTypesHere DEF FeedInv, TypeOK, Register
<1>2. now \in Nat /\ live[d] \in Int /\ live'[d] \in Int /\ MemberTTL(d) \in Nat /\ MemberTTL(d) > 0
  <2>1. live'[d] \in Int
    BY <1>1, ConstantTypes DEF FeedInv, TypeOK, Scores, Absent
  <2> QED BY <1>1, <2>1, FeedTypesHere
<1>3. CASE live'[d] = now + MemberTTL(d)
  BY <1>2, <1>3
<1>4. CASE d \in reg[w].list /\ d \notin reg[w].rest
  <2>1. live[d] >= now + MemberTTL(d)
    BY <1>4 DEF Written
  <2> QED BY <1>1, <1>2, <2>1 DEF Rescored
<1> QED BY <1>3, <1>4

LEMMA DeliveredKept ==
    ASSUME FeedInv, NEW s \in Source, Delivered(s), Rescored,
           now' = now, churnTTL' = churnTTL,
           status'[s].success = status[s].success, listed'[s] = listed[s]
    PROVE  Delivered(s)'
<1> SUFFICES ASSUME status[s].success # Absent, NEW d \in listed[s]
             PROVE  \/ live'[d] >= status[s].success + MemberTTL(d)
                    \/ now >= status[s].success + MemberTTL(d)
  BY DEF Delivered, MemberTTL
<1>1. /\ d \in Domain /\ now \in Nat /\ live[d] \in Int /\ status[s].success \in Int
      /\ MemberTTL(d) \in Nat
  BY FeedTypesHere
<1>2. /\ status[s].success <= now
      /\ live[d] >= status[s].success + MemberTTL(d) \/ now >= status[s].success + MemberTTL(d)
  BY DEF Delivered
<1> QED BY <1>1, <1>2 DEF Rescored

(* A step that writes nothing but today's windows and records no success.   *)
LEMMA ListedKept ==
    ASSUME FeedInv, FeedInv', ListedInv, ~replacing, UNCHANGED <<now, churnTTL, replacing>>, Rescored,
           \A w \in Writer : \A d \in reg'[w].list : Admissible(d) /\ d \notin reg'[w].rest =>
             (d \in reg[w].list /\ d \notin reg[w].rest) \/ live'[d] = now + MemberTTL(d),
           \A s \in Source : status'[s].success = status[s].success /\ listed'[s] = listed[s]
    PROVE  ListedInv'
<1>1. \A w \in Writer : Written(w)'
  BY WrittenKept DEF ListedInv
<1>2. \A s \in Source : Delivered(s)'
  BY DeliveredKept DEF ListedInv
<1> QED BY <1>1, <1>2 DEF ListedInv

(* A failed sync leaves every last success as it was.                       *)
LEMMA FailureKept ==
    ASSUME FeedInv, NEW w \in Writer, RecordFailure(w)
    PROVE  \A s \in Source : status'[s].success = status[s].success
<1>1. status \in [Source -> Status]
  BY DEF FeedInv, TypeOK
<1> QED BY <1>1 DEF RecordFailure, Status

LEMMA FreshEmpty == \A left \in Seq(Source) : [NoRegister EXCEPT !.todo = left].list = {}
BY FreshRegister

LEMMA QuietListed ==
    ASSUME FeedInv, FeedInv', ListedInv, ~replacing, NEW w \in Writer,
           \/ StartCycle(w) \/ (\E names \in Listings : Open(w, names)) \/ RenameRefused(w)
           \/ SyncFails(w) \/ Cancelled(w) \/ Crash(w) \/ BumpRevision(w)
    PROVE  ListedInv'
<1>1. UNCHANGED <<now, churnTTL, replacing, live, listed>>
  BY DEF StartCycle, Open, RenameRefused, SyncFails, Cancelled, Crash, BumpRevision, feedVars
<1>2. Rescored
  BY <1>1 DEF Rescored
<1>3. reg \in [Writer -> Register]
  BY DEF FeedInv, TypeOK
<1>4. \A v \in Writer : v # w => reg'[v] = reg[v]
  BY <1>3 DEF StartCycle, Open, RenameRefused, SyncFails, Cancelled, Crash, BumpRevision, NextSource
<1>5. \A d \in reg'[w].list : Admissible(d) /\ d \notin reg'[w].rest =>
        d \in reg[w].list /\ d \notin reg[w].rest
  <2>1. CASE BumpRevision(w)
    BY <2>1 DEF BumpRevision
  <2>2. ASSUME NEW names \in Listings, Open(w, names)
        PROVE  \A d \in reg'[w].list : Admissible(d) => d \in reg'[w].rest
    <3>1. reg'[w] = [reg[w] EXCEPT !.list = names, !.rest = {d \in names : Admissible(d)}]
      BY <1>3, <2>2 DEF Open
    <3>2. reg'[w].list = names /\ reg'[w].rest = {d \in names : Admissible(d)}
      BY <1>3, <3>1 DEF Register
    <3> QED BY <3>2
  <2>3. CASE Cancelled(w) \/ Crash(w)
    BY <1>3, <2>3 DEF Cancelled, Crash, NoRegister
  <2>4. CASE StartCycle(w)
    <3>1. reg'[w] = [NoRegister EXCEPT !.todo = Cycle[w]] /\ Cycle[w] \in Seq(Source)
      BY <1>3, <2>4, FeedAssumption DEF StartCycle
    <3> QED BY <3>1, FreshEmpty
  <2>5. CASE RenameRefused(w) \/ SyncFails(w)
    <3>1. pc[w] # "idle"
      BY <2>5 DEF RenameRefused, SyncFails
    <3>2. reg'[w] = [NoRegister EXCEPT !.todo = Tail(reg[w].todo)] /\ Tail(reg[w].todo) \in Seq(Source)
      BY <1>3, <2>5, <3>1, CurrentType DEF RenameRefused, SyncFails, NextSource
    <3> QED BY <3>2, FreshEmpty
  <2> QED BY <2>1, <2>2, <2>3, <2>4, <2>5
<1>6. \A s \in Source : status'[s].success = status[s].success
  BY FailureKept DEF StartCycle, Open, RenameRefused, SyncFails, Cancelled, Crash, BumpRevision
<1> QED BY <1>1, <1>2, <1>4, <1>5, <1>6, ListedKept

LEMMA WriteListed ==
    ASSUME FeedInv, FeedInv', ListedInv, ~replacing, NEW w \in Writer, WriteBatch(w) \/ Sweep(w)
    PROVE  ListedInv'
<1>1. UNCHANGED <<now, churnTTL, replacing, status, listed>>
  BY DEF WriteBatch, Sweep
<1>2. reg \in [Writer -> Register] /\ live \in Scores
  BY DEF FeedInv, TypeOK
<1>3. CASE Sweep(w)
  <2>1. reg' = reg /\ (live' = live \/ live' = ZSweep(live))
    BY <1>3 DEF Sweep
  <2>2. Rescored
    BY <2>1 DEF Rescored, ZSweep
  <2> QED BY <1>1, <2>1, <2>2, ListedKept
<1>4. CASE WriteBatch(w)
  <2>1. PICK b \in SUBSET Domain :
          /\ live' = ZAdd(live, b)
          /\ \E n : reg' = [reg EXCEPT ![w].rest = @ \ b, ![w].written = n]
    <3>1. reg[w].rest \in SUBSET Domain
      BY <1>2 DEF Register
    <3> QED BY <1>4, <3>1 DEF WriteBatch, Batches
  <2>2. \A d \in Domain : live'[d] = IF d \in b THEN now + MemberTTL(d) ELSE live[d]
    BY <2>1 DEF ZAdd
  <2>3. Rescored
    BY <2>2 DEF Rescored
  <2>4. /\ reg'[w].list = reg[w].list /\ reg'[w].rest = reg[w].rest \ b
        /\ \A v \in Writer : v # w => reg'[v] = reg[v]
    BY <1>2, <2>1 DEF Register
  <2>5. \A d \in reg'[w].list : d \notin reg'[w].rest => d \notin reg[w].rest \/ live'[d] = now + MemberTTL(d)
    BY <2>2, <2>4, FeedTypesHere
  <2> QED BY <1>1, <2>3, <2>4, <2>5, ListedKept
<1> QED BY <1>3, <1>4

(* The success of today starts the windows its sync has just written.       *)
LEMMA SuccessListed ==
    ASSUME FeedInv, FeedInv', ListedInv, ~replacing, NEW w \in Writer, RecordSuccess(w)
    PROVE  ListedInv'
<1>1. UNCHANGED <<now, churnTTL, replacing, live>> /\ pc[w] = "status"
  BY DEF RecordSuccess, feedVars
<1>2. /\ reg \in [Writer -> Register] /\ status \in [Source -> Status]
      /\ listed \in [Source -> SUBSET Domain]
  BY DEF FeedInv, TypeOK
<1>3. Rescored
  BY <1>1 DEF Rescored
<1>4. Tail(reg[w].todo) \in Seq(Source) /\ Current(w) \in Source /\ reg[w].rest = {}
  BY <1>1, CurrentType DEF FeedInv, Holds
<1>5. ASSUME NEW v \in Writer PROVE Written(v)'
  <2>1. reg'[v] = reg[v] \/ reg'[v].list = {}
    BY <1>2, <1>4, FreshEmpty DEF RecordSuccess, NextSource
  <2> QED BY <1>1, <1>3, <2>1, WrittenKept DEF ListedInv
<1>6. ASSUME NEW s \in Source, s # Current(w) PROVE Delivered(s)'
  <2>1. status'[s] = status[s] /\ listed'[s] = listed[s]
    BY <1>2, <1>6 DEF RecordSuccess
  <2> QED BY <1>1, <1>3, <2>1, DeliveredKept DEF ListedInv
<1>7. ASSUME NEW s \in Source, s = Current(w) PROVE Delivered(s)'
  <2>1. status'[s].success = now /\ listed'[s] = {d \in reg[w].list : Admissible(d)}
    BY <1>2, <1>7 DEF RecordSuccess
  <2>2. \A d \in listed'[s] : live'[d] >= now + MemberTTL(d)
    BY <1>1, <1>4, <2>1 DEF ListedInv, Written
  <2> QED BY <1>1, <2>1, <2>2, ClockType DEF Delivered, MemberTTL
<1> QED BY <1>5, <1>6, <1>7 DEF ListedInv

LEMMA OtherListed ==
    ASSUME FeedInv, FeedInv', ListedInv, ~replacing,
           (\E d \in Domain : Promote(d)) \/ EndPromotions \/ Tick \/ UNCHANGED vars
    PROVE  ListedInv'
<1>1. UNCHANGED <<churnTTL, replacing, status, listed, reg>>
  BY DEF Promote, EndPromotions, Tick, vars
<1>2. CASE \E d \in Domain : Promote(d)
  <2>1. now' = now /\ Rescored
    BY <1>2 DEF Promote, ZAdd, Rescored
  <2> QED BY <1>1, <2>1, ListedKept
<1>3. CASE EndPromotions \/ UNCHANGED vars
  <2>1. now' = now /\ Rescored
    BY <1>3 DEF EndPromotions, vars, Rescored
  <2> QED BY <1>1, <2>1, ListedKept
<1>4. CASE Tick
  <2>1. now' = now + 1 /\ live' = live
    BY <1>4 DEF Tick, feedVars
  <2>2. ASSUME NEW w \in Writer PROVE Written(w)'
    <3>1. reg[w].list = {}
      BY <1>4 DEF Tick, FeedInv, Holds
    <3> QED BY <1>1, <3>1 DEF Written
  <2>3. ASSUME NEW s \in Source PROVE Delivered(s)'
    <3>1. Delivered(s)
      BY DEF ListedInv
    <3>2. ASSUME NEW d \in listed[s]
          PROVE  MemberTTL(d)' = MemberTTL(d) /\ MemberTTL(d) \in Nat
      BY <1>1, FeedTypesHere DEF MemberTTL
    <3>3. now \in Nat /\ status[s].success \in Int
      BY FeedTypesHere
    <3> QED BY <1>1, <2>1, <3>1, <3>2, <3>3 DEF Delivered
  <2> QED BY <2>2, <2>3 DEF ListedInv
<1> QED BY <1>2, <1>3, <1>4

LEMMA NextListed == ASSUME FeedInv, FeedInv', ListedInv, [Next]_vars PROVE ListedInv'
<1>1. CASE ~replacing
  <2>1. ASSUME NEW w \in Writer PROVE ~Rename(w)
    BY <1>1 DEF Rename, FeedInv, Holds
  <2>2. CASE \E w \in Writer :
               \/ StartCycle(w) \/ (\E names \in Listings : Open(w, names)) \/ RenameRefused(w)
               \/ SyncFails(w) \/ Cancelled(w) \/ Crash(w) \/ BumpRevision(w)
    BY <1>1, <2>2, QuietListed
  <2>3. CASE \E w \in Writer : WriteBatch(w) \/ Sweep(w) \/ RecordSuccess(w)
    BY <1>1, <2>3, WriteListed, SuccessListed
  <2> QED BY <1>1, <2>1, <2>2, <2>3, OtherListed DEF Next
<1>2. CASE replacing
  <2>1. replacing' = replacing
    BY DEF Next, StartCycle, Open, WriteBatch, Sweep, Rename, RenameRefused, BumpRevision,
           RecordSuccess, SyncFails, Cancelled, Crash, Promote, EndPromotions, Tick, vars
  <2> QED BY <1>2, <2>1 DEF ListedInv
<1> QED BY <1>1, <1>2

LEMMA InitListed == ASSUME Init PROVE ListedInv
<1>1. \A w \in Writer : reg[w].list = {}
  BY DEF Init, NoRegister
<1>2. \A s \in Source : status[s].success = Absent
  BY DEF Init
<1> QED BY <1>1, <1>2 DEF ListedInv, Written, Delivered

(* When every window is longer than an interval, and than the staleness     *)
(* window, neither ends unseen.                                             *)
LEMMA ListedIsProtected == ASSUME FeedInv, ListedInv PROVE ListedProtected
<1>1. ASSUME ~replacing, NEW s \in Source, NEW d \in listed[s], status[s].success # Absent,
             now < status[s].success + MemberTTL(d)
      PROVE  d \in Unexpired(live)
  <2>1. /\ d \in Domain /\ now \in Nat /\ live[d] \in Int /\ status[s].success \in Int
        /\ MemberTTL(d) \in Nat
    BY FeedTypesHere
  <2>2. live[d] >= status[s].success + MemberTTL(d) \/ now >= status[s].success + MemberTTL(d)
    BY <1>1 DEF ListedInv, Delivered
  <2> QED BY <1>1, <2>1, <2>2 DEF Unexpired
<1>2. \A s \in Source : \A d \in listed[s] :
        /\ d \in Domain /\ now \in Nat /\ status[s].success \in Int /\ MemberTTL(d) \in Nat
        /\ CheckCoversCycles => MemberTTL(d) > Interval
        /\ WarnsInTime => MemberTTL(d) > StaleAfter
  BY FeedTypesHere, FittingWindows DEF FeedInv
<1>3. CheckCoversCycles => ListedStaysLive
  <2> SUFFICES ASSUME CheckCoversCycles, ~replacing, NEW s \in Source, status[s].success # Absent,
                      now <= status[s].success + Interval, NEW d \in listed[s]
               PROVE  d \in Unexpired(live)
    BY DEF ListedStaysLive
  <2>1. now < status[s].success + MemberTTL(d)
    BY <1>2, ConstantTypes
  <2> QED BY <1>1, <2>1
<1>4. Summary = "ok" => \A s \in Source : ~Stale(s)
  BY DEF Summary
<1>5. ASSUME WarnsInTime, ~replacing, Summary = "ok", NEW s \in Source PROVE listed[s] \subseteq Unexpired(live)
  <2> SUFFICES ASSUME NEW d \in listed[s] PROVE d \in Unexpired(live)
    OBVIOUS
  <2>1. status[s].success # Absent /\ ~(now - status[s].success > StaleAfter)
    BY <1>4, <1>5 DEF Stale
  <2>2. now < status[s].success + MemberTTL(d)
    BY <1>2, <1>5, <2>1, ConstantTypes
  <2> QED BY <1>1, <1>5, <2>1, <2>2
<1> QED BY <1>3, <1>5 DEF ListedProtected

(* What a source lists stays live until its next cycle when the interval    *)
(* the churn window was checked against covers the one the cycles run on,   *)
(* and as long as the status says ok when it warns before a window ends     *)
(* (Sync, MemberTTL, CheckChurnTTLAgainstInterval, ReadStatusSummary).      *)
THEOREM ListedAreProtected == Spec => []ListedProtected
<1>1. FeedInv /\ ListedInv => ListedProtected
  BY ListedIsProtected
<1>2. FeedInv /\ FeedInv' /\ ListedInv /\ [Next]_vars => ListedInv'
  BY NextListed
<1> QED BY <1>1, <1>2, FeedTypes, InitListed, PTL DEF Spec

-----------------------------------------------------------------------------
(* The admission plan.                                                      *)

PlanState == [held : BOOLEAN, authoritative : BOOLEAN, first : Resource \cup {P!NoPath}]

Paths(h) == {i.path : i \in P!Own(h)}

(* What makes a host authoritative: an indicator that is so by itself, or   *)
(* two resources.                                                           *)
Evident(h) ==
    \/ \E i \in P!Own(h) : P!Authoritative(i)
    \/ \E p, q \in Paths(h) : p # q

ParseTypes ==
    /\ limit \in Int
    /\ lines \in Seq(P!Line)
    /\ plan \in [Host -> PlanState]
    /\ IsFiniteSet(P!Hosts)
    /\ \A h \in Host : IsFiniteSet(Paths(h))

(* The plan holds the hosts that fit, and as long as there is room, all.    *)
HeldExact ==
    /\ P!Held \subseteq P!Hosts
    /\ P!Held = P!Retained
    /\ P!Full(P!Held) \/ P!Held = P!Hosts

(* What the state of a host remembers of its indicators.                    *)
Remembers(h) ==
    /\ plan[h].authoritative <=> Evident(h)
    /\ plan[h].first = P!NoPath => \A i \in P!Own(h) : P!Authoritative(i)
    /\ plan[h].first # P!NoPath => plan[h].first \in Paths(h)

(* A host that lost its place to the cap is the only one it says nothing of.*)
PlanExact ==
    /\ \A h \in Host : h \notin P!Held => plan[h] = P!NoState
    /\ \A h \in P!Held \cup (Host \ P!Hosts) : Remembers(h)

ParseInv == ParseTypes /\ HeldExact /\ PlanExact

LEMMA IndicatorTypes ==
    ASSUME NEW i \in P!Indicator
    PROVE  i.host \in Host /\ i.path \in Resource \cup {P!NoPath} /\ i # P!None
<1>1. i.host \in Host /\ i.path \in Resource \cup {P!NoPath}
  BY DEF P!Indicator
<1>2. "path" \in DOMAIN i
  BY DEF P!Indicator
<1>3. "path" \notin DOMAIN P!None
  BY DEF P!None
<1> QED BY <1>1, <1>2, <1>3

LEMMA IndicatorsTyped ==
    ASSUME lines \in Seq(P!Line)
    PROVE  /\ P!Indicators \subseteq P!Indicator
           /\ P!Hosts \subseteq Host
<1>1. \A k \in DOMAIN lines : lines[k].ind \in P!Indicator \cup {P!None}
  <2>1. \A k \in DOMAIN lines : lines[k] \in P!Line
    OBVIOUS
  <2> QED BY <2>1 DEF P!Line
<1>2. P!Indicators \subseteq P!Indicator
  BY <1>1 DEF P!Indicators
<1> QED BY <1>2, IndicatorTypes DEF P!Hosts

LEMMA InitParse ==
    ASSUME P!ParseAssumption, P!Init PROVE ParseInv
<1>1. P!Indicators = {} /\ P!Hosts = {} /\ P!Retained = {} /\ P!Held = {}
  BY DEF P!Init, P!Indicators, P!Hosts, P!Retained, P!Held, P!NoState
<1>2. \A h : P!Own(h) = {} /\ Paths(h) = {}
  BY <1>1 DEF P!Own, Paths
<1>3. ParseTypes
  <2>1. P!NoState \in PlanState
    BY DEF P!NoState, PlanState
  <2>2. limit \in Int /\ lines \in Seq(P!Line) /\ plan \in [Host -> PlanState]
    BY <2>1 DEF P!Init, P!ParseAssumption
  <2> QED BY <1>1, <1>2, <2>2, FS_EmptySet DEF ParseTypes
<1>4. HeldExact
  BY <1>1 DEF HeldExact
<1>5. \A h \in Host : plan[h] = P!NoState
  BY DEF P!Init
<1>6. ASSUME NEW h \in Host PROVE Remembers(h)
  <2>1. ~Evident(h)
    BY <1>2 DEF Evident
  <2>2. plan[h].authoritative = FALSE /\ plan[h].first = P!NoPath
    BY <1>5 DEF P!NoState
  <2> QED BY <1>2, <2>1, <2>2 DEF Remembers
<1>7. PlanExact
  BY <1>1, <1>5, <1>6 DEF PlanExact
<1> QED BY <1>3, <1>4, <1>7 DEF ParseInv

(* What one more line adds to the history.                                  *)
LEMMA LineAppended ==
    ASSUME lines \in Seq(P!Line), NEW line \in P!Line, lines' = Append(lines, line)
    PROVE  /\ lines' \in Seq(P!Line)
           /\ Len(lines') = Len(lines) + 1
           /\ \A k \in 1..Len(lines) : lines'[k] = lines[k]
           /\ lines'[Len(lines) + 1] = line
           /\ P!Indicators' = P!Indicators \cup ({line.ind} \ {P!None})
<1>1. /\ lines' \in Seq(P!Line)
      /\ Len(lines') = Len(lines) + 1
      /\ \A k \in 1..Len(lines) : lines'[k] = lines[k]
      /\ lines'[Len(lines) + 1] = line
  OBVIOUS
<1>2. /\ DOMAIN lines = 1..Len(lines) /\ DOMAIN lines' = 1..Len(lines) + 1
      /\ Len(lines) \in Nat
  BY <1>1
<1>3. {lines'[k].ind : k \in DOMAIN lines'} = {lines[k].ind : k \in DOMAIN lines} \cup {line.ind}
  <2>1. ASSUME NEW k \in DOMAIN lines'
        PROVE  lines'[k].ind \in {lines[j].ind : j \in DOMAIN lines} \cup {line.ind}
    <3>1. CASE k = Len(lines) + 1
      BY <1>1, <3>1
    <3>2. CASE k # Len(lines) + 1
      <4>1. k \in DOMAIN lines /\ lines'[k] = lines[k]
        BY <1>1, <1>2, <3>2
      <4> QED BY <4>1
    <3> QED BY <3>1, <3>2
  <2>2. ASSUME NEW k \in DOMAIN lines
        PROVE  lines[k].ind \in {lines'[j].ind : j \in DOMAIN lines'}
    <3>1. k \in DOMAIN lines' /\ lines'[k] = lines[k]
      BY <1>1, <1>2
    <3> QED BY <3>1
  <2>3. line.ind \in {lines'[j].ind : j \in DOMAIN lines'}
    <3>1. Len(lines) + 1 \in DOMAIN lines'
      BY <1>2
    <3> QED BY <1>1, <3>1
  <2> QED BY <2>1, <2>2, <2>3
<1> QED BY <1>1, <1>3 DEF P!Indicators

(* What an indicator adds: evidence for its host and for no other.          *)
LEMMA IndicatorAdded ==
    ASSUME lines \in Seq(P!Line), NEW line \in P!Line, P!ReadIndicator(line)
    PROVE  /\ line.ind \in P!Indicator
           /\ P!Indicators' = P!Indicators \cup {line.ind}
           /\ P!Hosts' = P!Hosts \cup {line.ind.host}
           /\ \A x : P!Own(x)' = IF x = line.ind.host THEN P!Own(x) \cup {line.ind} ELSE P!Own(x)
           /\ \A x : Paths(x)' = IF x = line.ind.host THEN Paths(x) \cup {line.ind.path} ELSE Paths(x)
<1>1. line.ind \in P!Indicator /\ line.ind # P!None
  BY DEF P!Line, P!ReadIndicator
<1>2. P!Indicators' = P!Indicators \cup {line.ind}
  BY <1>1, LineAppended DEF P!ReadIndicator
<1>3. P!Hosts' = P!Hosts \cup {line.ind.host}
  BY <1>2 DEF P!Hosts
<1>4. \A x : P!Own(x)' = IF x = line.ind.host THEN P!Own(x) \cup {line.ind} ELSE P!Own(x)
  BY <1>2 DEF P!Own
<1>5. \A x : Paths(x)' = IF x = line.ind.host THEN Paths(x) \cup {line.ind.path} ELSE Paths(x)
  BY <1>4 DEF Paths
<1> QED BY <1>1, <1>2, <1>3, <1>4, <1>5

(* The parser counts with the cardinality of the finite sets.               *)
LEMMA ParserCounts == \A set : P!Cardinality(set) = Cardinality(set)
BY Zenon DEF P!Cardinality, Cardinality

(* A host of the history is the host of one of its lines.                   *)
LEMMA HostOfLine ==
    ASSUME NEW history, NEW h
    PROVE  h \in {i.host : i \in {history[k].ind : k \in DOMAIN history} \ {P!None}} <=>
             \E k \in DOMAIN history : history[k].ind # P!None /\ history[k].ind.host = h
OBVIOUS

(* The host of the last line fits exactly if all the hosts so far do.       *)
LEMMA RetainedGrows ==
    ASSUME lines \in Seq(P!Line), NEW line \in P!Line, P!ReadIndicator(line)
    PROVE  P!Retained' = P!Retained \cup
               (IF limit <= 0 \/ Cardinality(P!Hosts \cup {line.ind.host}) <= limit
                  THEN {line.ind.host} ELSE {})
<1> PICK n \in Nat : n = Len(lines)
  OBVIOUS
<1> DEFINE h == line.ind.host
           Fits(k) == limit <= 0 \/ Cardinality(P!Named(k)) <= limit
<1>1. /\ n \in Nat /\ DOMAIN lines = 1..n /\ DOMAIN lines' = 1..n + 1
      /\ \A k \in 1..n : lines'[k] = lines[k]
      /\ lines'[n + 1] = line /\ line.ind # P!None /\ limit' = limit
  BY LineAppended DEF P!ReadIndicator
<1>2. \A k \in 1..n : P!Named(k)' = P!Named(k)
  <2> SUFFICES ASSUME NEW k \in 1..n PROVE P!Named(k)' = P!Named(k)
    OBVIOUS
  <2>1. \A j \in 1..k : lines'[j] = lines[j]
    BY <1>1
  <2> QED BY <2>1 DEF P!Named
<1>3. P!Named(n + 1)' = P!Hosts \cup {h}
  <2>1. P!Hosts' = P!Hosts \cup {h}
    BY IndicatorAdded
  <2>2. ASSUME NEW x PROVE x \in P!Named(n + 1)' <=> x \in P!Hosts'
    BY <1>1, HostOfLine DEF P!Named, P!Hosts, P!Indicators
  <2> QED BY <2>1, <2>2
<1>4. ASSUME NEW x
      PROVE  x \in P!Retained' <=>
               \E k \in 1..n + 1 : lines'[k].ind # P!None /\ lines'[k].ind.host = x /\ Fits(k)'
  <2>1. x \in P!Hosts' <=> \E k \in 1..n + 1 : lines'[k].ind # P!None /\ lines'[k].ind.host = x
    <3>1. x \in P!Hosts' <=>
             \E k \in DOMAIN lines' : lines'[k].ind # P!None /\ lines'[k].ind.host = x
      BY HostOfLine DEF P!Hosts, P!Indicators
    <3> QED BY <1>1, <3>1
  <2> QED BY <1>1, <2>1, ParserCounts DEF P!Retained
<1>5. ASSUME NEW x
      PROVE  x \in P!Retained <=>
               \E k \in 1..n : lines[k].ind # P!None /\ lines[k].ind.host = x /\ Fits(k)
  <2>1. x \in P!Hosts <=> \E k \in 1..n : lines[k].ind # P!None /\ lines[k].ind.host = x
    <3>1. x \in P!Hosts <=>
             \E k \in DOMAIN lines : lines[k].ind # P!None /\ lines[k].ind.host = x
      BY HostOfLine DEF P!Hosts, P!Indicators
    <3> QED BY <1>1, <3>1
  <2> QED BY <1>1, <2>1, ParserCounts DEF P!Retained
<1>6. \A k \in 1..n : Fits(k)' <=> Fits(k)
  BY <1>1, <1>2
<1>7. Fits(n + 1)' <=> limit <= 0 \/ Cardinality(P!Hosts \cup {h}) <= limit
  BY <1>1, <1>3
<1> HIDE DEF Fits
<1>8. ASSUME NEW x
      PROVE  x \in P!Retained' <=> x \in P!Retained \/ (x = h /\ Fits(n + 1)')
  <2>1. 1..n + 1 = (1..n) \cup {n + 1} /\ n + 1 \in 1..n + 1
    BY <1>1
  <2>2. lines'[n + 1].ind # P!None /\ lines'[n + 1].ind.host = h
    BY <1>1
  <2>3. ASSUME x \in P!Retained' PROVE x \in P!Retained \/ (x = h /\ Fits(n + 1)')
    <3>1. PICK k \in 1..n + 1 :
            lines'[k].ind # P!None /\ lines'[k].ind.host = x /\ Fits(k)'
      BY <1>4, <2>3
    <3>2. CASE k = n + 1
      BY <2>2, <3>1, <3>2
    <3>3. CASE k \in 1..n
      BY <1>1, <1>5, <1>6, <3>1, <3>3
    <3> QED BY <2>1, <3>2, <3>3
  <2>4. ASSUME x \in P!Retained PROVE x \in P!Retained'
    <3>1. PICK k \in 1..n :
            lines[k].ind # P!None /\ lines[k].ind.host = x /\ Fits(k)
      BY <1>5, <2>4
    <3>2. Fits(k)'
      BY <1>6, <3>1
    <3>3. k \in 1..n + 1 /\ lines'[k] = lines[k]
      BY <1>1, <2>1
    <3> QED BY <1>4, <3>1, <3>2, <3>3
  <2>5. ASSUME x = h, Fits(n + 1)' PROVE x \in P!Retained'
    BY <1>4, <2>1, <2>2, <2>5
  <2> QED BY <2>3, <2>4, <2>5
<1> QED BY <1>7, <1>8

(* What Classify does to the plan.                                          *)
LEMMA HostClassified ==
    ASSUME ParseTypes, NEW line \in P!Line, P!ReadIndicator(line)
    PROVE  /\ plan' \in [Host -> PlanState]
           /\ \A x \in Host : x # line.ind.host => plan'[x] = plan[x]
           /\ ~(line.ind.host \notin P!Held /\ P!Full(P!Held)) => plan'[line.ind.host].held
           /\ line.ind.host \notin P!Held /\ P!Full(P!Held) => plan' = plan
<1> DEFINE i == line.ind
           h == i.host
           s == [plan[h] EXCEPT !.held = TRUE]
           next == IF P!Authoritative(i) THEN [s EXCEPT !.authoritative = TRUE]
                   ELSE IF s.first = P!NoPath THEN [s EXCEPT !.first = i.path]
                   ELSE [s EXCEPT !.authoritative = s.authoritative \/ i.path # s.first]
<1>1. i \in P!Indicator /\ h \in Host /\ i.path \in Resource \cup {P!NoPath}
  BY IndicatorAdded, IndicatorTypes DEF ParseTypes
<1>2. plan[h] \in PlanState /\ plan \in [Host -> PlanState]
  BY <1>1 DEF ParseTypes
<1>3. s \in PlanState /\ s.held = TRUE
  BY <1>2 DEF PlanState
<1> HIDE DEF s
<1>4. next \in PlanState /\ next.held
  <2>1. (i.path # s.first) \in BOOLEAN /\ (s.authoritative \/ i.path # s.first) \in BOOLEAN
    OBVIOUS
  <2> QED BY <1>1, <1>3, <2>1 DEF PlanState
<1> USE DEF s
<1>5. IF h \notin P!Held /\ P!Full(P!Held) THEN plan' = plan
      ELSE plan' = [plan EXCEPT ![h] = next]
  BY DEF P!ReadIndicator, P!Classify
<1> HIDE DEF next, s
<1> QED BY <1>1, <1>2, <1>4, <1>5

LEMMA ReadParseTypes ==
    ASSUME ParseTypes, NEW line \in P!Line, P!ReadIndicator(line)
    PROVE  ParseTypes'
<1>1. limit' \in Int /\ lines' \in Seq(P!Line) /\ plan' \in [Host -> PlanState]
  BY LineAppended, HostClassified DEF ParseTypes, P!ReadIndicator
<1>2. IsFiniteSet(P!Hosts)'
  <2>1. P!Hosts' = P!Hosts \cup {line.ind.host} /\ IsFiniteSet(P!Hosts)
    BY IndicatorAdded DEF ParseTypes
  <2>2. IsFiniteSet(P!Hosts \cup {line.ind.host})
    BY <2>1, FS_AddElement
  <2> QED BY <2>1, <2>2
<1>3. ASSUME NEW x \in Host PROVE IsFiniteSet(Paths(x))'
  <2>1. Paths(x)' \in {Paths(x), Paths(x) \cup {line.ind.path}} /\ IsFiniteSet(Paths(x))
    BY IndicatorAdded DEF ParseTypes
  <2>2. IsFiniteSet(Paths(x) \cup {line.ind.path})
    BY <2>1, FS_AddElement
  <2> QED BY <2>1, <2>2
<1> QED BY <1>1, <1>2, <1>3 DEF ParseTypes

(* A host is held exactly when it was, or came while there was room.        *)
LEMMA HeldGrows ==
    ASSUME ParseTypes, NEW line \in P!Line, P!ReadIndicator(line)
    PROVE  P!Held' = P!Held \cup
               (IF line.ind.host \notin P!Held /\ P!Full(P!Held) THEN {} ELSE {line.ind.host})
<1>1. line.ind.host \in Host
  BY IndicatorAdded, IndicatorTypes DEF ParseTypes
<1> QED BY <1>1, HostClassified DEF P!Held

(* There is room exactly as long as every host so far and this one fit.     *)
LEMMA RoomIsForAll ==
    ASSUME ParseTypes, HeldExact, NEW h
    PROVE  LET fits == limit <= 0 \/ Cardinality(P!Hosts \cup {h}) <= limit
           IN  /\ fits => ~(h \notin P!Held /\ P!Full(P!Held))
               /\ ~fits => h \in P!Held \/ P!Full(P!Held)
<1>1. P!Held \subseteq P!Hosts /\ IsFiniteSet(P!Hosts) /\ limit \in Int
  BY DEF ParseTypes, HeldExact
<1>2. IsFiniteSet(P!Held) /\ IsFiniteSet(P!Hosts \cup {h}) /\ IsFiniteSet(P!Held \cup {h})
  BY <1>1, FS_Subset, FS_AddElement
<1>3. /\ Cardinality(P!Held) \in Nat /\ Cardinality(P!Hosts \cup {h}) \in Nat
      /\ Cardinality(P!Held \cup {h}) \in Nat
  BY <1>2, FS_CardinalityType
<1>4. h \notin P!Held => Cardinality(P!Held \cup {h}) = Cardinality(P!Held) + 1
  BY <1>2, FS_AddElement
<1>5. Cardinality(P!Held \cup {h}) <= Cardinality(P!Hosts \cup {h})
  <2>1. P!Held \cup {h} \in SUBSET (P!Hosts \cup {h})
    BY <1>1
  <2> QED BY <1>2, <2>1, FS_Subset
<1>6. P!Full(P!Held) <=> limit > 0 /\ Cardinality(P!Held) >= limit
  BY ParserCounts DEF P!Full
<1>7. ~P!Full(P!Held) => P!Held \cup {h} = P!Hosts \cup {h}
  BY DEF HeldExact
<1>8. P!Full(P!Held) => ~(limit <= 0) /\ Cardinality(P!Held) >= limit
  BY <1>1, <1>6
<1>9. ASSUME limit <= 0 \/ Cardinality(P!Hosts \cup {h}) <= limit,
             h \notin P!Held, P!Full(P!Held)
      PROVE  FALSE
  BY <1>1, <1>3, <1>4, <1>5, <1>8, <1>9
<1>10. ASSUME ~(limit <= 0), ~(Cardinality(P!Hosts \cup {h}) <= limit),
              h \notin P!Held, ~P!Full(P!Held)
       PROVE  FALSE
  <2>1. Cardinality(P!Hosts \cup {h}) = Cardinality(P!Held) + 1
    BY <1>4, <1>7, <1>10
  <2> QED BY <1>1, <1>3, <1>6, <1>10, <2>1
<1> QED BY <1>9, <1>10

LEMMA ReadHeldExact ==
    ASSUME ParseTypes, HeldExact, NEW line \in P!Line, P!ReadIndicator(line)
    PROVE  HeldExact'
<1> DEFINE h == line.ind.host
           fits == limit <= 0 \/ Cardinality(P!Hosts \cup {h}) <= limit
           lost == h \notin P!Held /\ P!Full(P!Held)
<1>1. /\ P!Held' = P!Held \cup (IF lost THEN {} ELSE {h})
      /\ P!Hosts' = P!Hosts \cup {h}
      /\ P!Retained' = P!Retained \cup (IF fits THEN {h} ELSE {})
  BY HeldGrows, IndicatorAdded, RetainedGrows DEF ParseTypes
<1>2. (fits => ~lost) /\ (~fits => h \in P!Held \/ P!Full(P!Held))
  BY RoomIsForAll
<1>3. /\ P!Held \subseteq P!Hosts /\ P!Held = P!Retained
      /\ P!Full(P!Held) \/ P!Held = P!Hosts
  BY DEF HeldExact
<1>4. ASSUME P!Full(P!Held) PROVE P!Full(P!Held')
  <2>1. IsFiniteSet(P!Hosts') /\ P!Held' \in SUBSET P!Hosts'
    BY <1>1, <1>3, ReadParseTypes DEF ParseTypes
  <2>2. IsFiniteSet(P!Held') /\ P!Held \in SUBSET P!Held'
    BY <1>1, <2>1, FS_Subset
  <2>3. Cardinality(P!Held) <= Cardinality(P!Held') /\ IsFiniteSet(P!Held)
    BY <2>2, FS_Subset
  <2>4. Cardinality(P!Held) \in Nat /\ Cardinality(P!Held') \in Nat /\ limit \in Int
    BY <2>2, <2>3, FS_CardinalityType DEF ParseTypes
  <2> QED BY <1>4, <2>3, <2>4, ParserCounts DEF P!Full
<1>5. P!Full(P!Held') => P!Full(P!Held)'
  BY DEF P!ReadIndicator, P!Full
<1> HIDE DEF fits
<1>6. P!Held' \subseteq P!Hosts'
  BY <1>1, <1>3
<1>7. P!Held' = P!Retained'
  BY <1>1, <1>2, <1>3
<1>8. P!Full(P!Held)' \/ P!Held' = P!Hosts'
  BY <1>1, <1>3, <1>4, <1>5
<1> QED BY <1>6, <1>7, <1>8 DEF HeldExact

(* The state of the host that a line names.                                 *)
LEMMA ReadRemembers ==
    ASSUME ParseInv, NEW line \in P!Line, P!ReadIndicator(line),
           ~(line.ind.host \notin P!Held /\ P!Full(P!Held))
    PROVE  Remembers(line.ind.host)'
<1> DEFINE i == line.ind
           h == i.host
           s == [plan[h] EXCEPT !.held = TRUE]
<1>1. i \in P!Indicator /\ h \in Host /\ i.path \in Resource \cup {P!NoPath}
  BY IndicatorAdded, IndicatorTypes DEF ParseInv, ParseTypes
<1>2. /\ P!Own(h)' = P!Own(h) \cup {i} /\ Paths(h)' = Paths(h) \cup {i.path}
      /\ mode' = mode
  BY IndicatorAdded DEF ParseInv, ParseTypes, P!ReadIndicator
<1>3. Remembers(h)
  <2>1. h \in P!Held \cup (Host \ P!Hosts)
    BY <1>1 DEF ParseInv, HeldExact
  <2> QED BY <2>1 DEF ParseInv, PlanExact
<1>4. plan[h] \in PlanState /\ plan \in [Host -> PlanState]
  BY <1>1 DEF ParseInv, ParseTypes
<1>5. \A j : P!Authoritative(j)' <=> P!Authoritative(j)
  BY <1>2 DEF P!Authoritative
<1>6. /\ s \in PlanState /\ s.authoritative = plan[h].authoritative /\ s.first = plan[h].first
      /\ plan'[h] = IF P!Authoritative(i) THEN [s EXCEPT !.authoritative = TRUE]
                    ELSE IF s.first = P!NoPath THEN [s EXCEPT !.first = i.path]
                    ELSE [s EXCEPT !.authoritative = s.authoritative \/ i.path # s.first]
  <2>1. s \in PlanState /\ s.authoritative = plan[h].authoritative /\ s.first = plan[h].first
    BY <1>4 DEF PlanState
  <2> QED BY <1>1, <1>4, <2>1 DEF P!ReadIndicator, P!Classify
<1> HIDE DEF s
<1>7. CASE P!Authoritative(i)
  <2>1. plan'[h].authoritative = TRUE /\ plan'[h].first = plan[h].first
    BY <1>6, <1>7 DEF PlanState
  <2>2. Evident(h)'
    BY <1>2, <1>5, <1>7 DEF Evident
  <2> QED BY <1>2, <1>3, <1>5, <1>7, <2>1, <2>2 DEF Remembers
<1>8. CASE ~P!Authoritative(i) /\ plan[h].first = P!NoPath
  <2>1. plan'[h].authoritative = plan[h].authoritative /\ plan'[h].first = i.path
    BY <1>6, <1>8 DEF PlanState
  <2>2. i.path # P!NoPath
    BY <1>8 DEF P!Authoritative
  <2>3. Evident(h)' <=> Evident(h)
    <3>1. CASE P!Own(h) = {}
      BY <1>2, <1>5, <1>8, <3>1 DEF Evident, Paths
    <3>2. CASE P!Own(h) # {}
      BY <1>2, <1>3, <1>5, <1>8, <3>2 DEF Evident, Remembers
    <3> QED BY <3>1, <3>2
  <2> QED BY <1>2, <1>3, <2>1, <2>2, <2>3 DEF Remembers
<1>9. CASE ~P!Authoritative(i) /\ plan[h].first # P!NoPath
  <2>1. /\ plan'[h].authoritative = (plan[h].authoritative \/ i.path # plan[h].first)
        /\ plan'[h].first = plan[h].first
    BY <1>6, <1>9 DEF PlanState
  <2>2. plan[h].first \in Paths(h)
    BY <1>3, <1>9 DEF Remembers
  <2>3. Evident(h)' <=> Evident(h) \/ i.path # plan[h].first
    <3>1. CASE i.path = plan[h].first
      BY <1>2, <1>5, <1>9, <2>2, <3>1 DEF Evident
    <3>2. CASE i.path # plan[h].first
      BY <1>2, <2>2, <3>2 DEF Evident
    <3> QED BY <3>1, <3>2
  <2> QED BY <1>2, <1>3, <1>9, <2>1, <2>2, <2>3 DEF Remembers
<1> QED BY <1>7, <1>8, <1>9

LEMMA ReadPlanExact ==
    ASSUME ParseInv, NEW line \in P!Line, P!ReadIndicator(line)
    PROVE  PlanExact'
<1> DEFINE h == line.ind.host
<1>1. /\ P!Hosts' = P!Hosts \cup {h} /\ mode' = mode /\ h \in Host
      /\ \A x : x # h => P!Own(x)' = P!Own(x) /\ Paths(x)' = Paths(x)
  BY IndicatorAdded, IndicatorTypes DEF ParseInv, ParseTypes, P!ReadIndicator
<1>2. P!Held' = P!Held \cup (IF h \notin P!Held /\ P!Full(P!Held) THEN {} ELSE {h})
  BY HeldGrows DEF ParseInv
<1>3. \A x \in Host : x # h => plan'[x] = plan[x]
  BY HostClassified DEF ParseInv
<1>4. h \notin P!Held' => plan' = plan
  BY <1>2, HostClassified DEF ParseInv
<1>5. ASSUME NEW x \in Host, x \notin P!Held' PROVE plan'[x] = P!NoState
  BY <1>2, <1>3, <1>4, <1>5 DEF ParseInv, PlanExact
<1>6. ASSUME NEW x \in P!Held' \cup (Host \ P!Hosts') PROVE Remembers(x)'
  <2>1. CASE x = h
    <3>1. ~(h \notin P!Held /\ P!Full(P!Held))
      BY <1>1, <1>2, <1>6, <2>1
    <3> QED BY <2>1, <3>1, ReadRemembers
  <2>2. CASE x # h
    <3>1. x \in Host /\ x \in P!Held \cup (Host \ P!Hosts)
      BY <1>1, <1>2, <1>6, <2>2 DEF P!Held
    <3>2. Remembers(x)
      BY <3>1 DEF ParseInv, PlanExact
    <3>3. \A j : P!Authoritative(j)' <=> P!Authoritative(j)
      BY <1>1 DEF P!Authoritative
    <3>4. P!Own(x)' = P!Own(x) /\ Paths(x)' = Paths(x) /\ plan'[x] = plan[x]
      BY <1>1, <1>3, <2>2, <3>1
    <3>5. Evident(x)' <=> Evident(x)
      BY <3>3, <3>4 DEF Evident
    <3> QED BY <3>2, <3>3, <3>4, <3>5 DEF Remembers
  <2> QED BY <2>1, <2>2
<1> QED BY <1>5, <1>6 DEF PlanExact

(* A line without an indicator changes none of it.                          *)
LEMMA OtherParse ==
    ASSUME ParseInv, NEW line \in P!Line, P!ReadOther(line)
    PROVE  ParseInv'
<1>1. /\ plan' = plan /\ mode' = mode /\ limit' = limit
      /\ lines' = Append(lines, line) /\ line.ind = P!None
      /\ lines \in Seq(P!Line)
  BY DEF P!ReadOther, ParseInv, ParseTypes
<1>2. /\ P!Indicators' = P!Indicators /\ lines' \in Seq(P!Line)
      /\ \A k \in 1..Len(lines) : lines'[k] = lines[k]
      /\ lines'[Len(lines) + 1] = line /\ Len(lines') = Len(lines) + 1
  BY <1>1, LineAppended
<1>3. /\ P!Hosts' = P!Hosts /\ P!Held' = P!Held
      /\ P!Full(P!Held)' <=> P!Full(P!Held)
      /\ \A x : P!Own(x)' = P!Own(x) /\ Paths(x)' = Paths(x)
  BY <1>1, <1>2 DEF P!Hosts, P!Held, P!Full, P!Own, Paths
<1>4. P!Retained' = P!Retained
  <2>1. PICK n \in Nat : n = Len(lines)
    BY <1>1
  <2>2. /\ DOMAIN lines = 1..n /\ DOMAIN lines' = 1..n + 1
        /\ \A k \in 1..n : lines'[k] = lines[k]
        /\ lines'[n + 1].ind = P!None
    BY <1>1, <1>2, <2>1
  <2>3. \A k \in 1..n : P!Named(k)' = P!Named(k)
    <3> SUFFICES ASSUME NEW k \in 1..n PROVE P!Named(k)' = P!Named(k)
      OBVIOUS
    <3>1. \A j \in 1..k : lines'[j] = lines[j]
      BY <2>2
    <3> QED BY <3>1 DEF P!Named
  <2> QED BY <1>1, <1>3, <2>2, <2>3 DEF P!Retained
<1>5. \A j : P!Authoritative(j)' <=> P!Authoritative(j)
  BY <1>1 DEF P!Authoritative
<1>6. \A x : Evident(x)' <=> Evident(x)
  BY <1>3, <1>5 DEF Evident
<1>7. \A x : Remembers(x)' <=> Remembers(x)
  BY <1>1, <1>3, <1>5, <1>6 DEF Remembers
<1>8. ParseTypes'
  BY <1>1, <1>2, <1>3 DEF ParseInv, ParseTypes
<1>9. HeldExact'
  BY <1>3, <1>4 DEF ParseInv, HeldExact
<1>10. PlanExact'
  BY <1>1, <1>3, <1>7 DEF ParseInv, PlanExact
<1> QED BY <1>8, <1>9, <1>10 DEF ParseInv

LEMMA StutterParse ==
    ASSUME ParseInv, UNCHANGED P!vars
    PROVE  ParseInv'
<1>1. plan' = plan /\ mode' = mode /\ limit' = limit /\ lines' = lines
  BY DEF P!vars
<1>2. /\ P!Indicators' = P!Indicators /\ P!Hosts' = P!Hosts /\ P!Held' = P!Held
      /\ P!Full(P!Held)' <=> P!Full(P!Held)
  BY <1>1 DEF P!Indicators, P!Hosts, P!Held, P!Full
<1>3. \A x : P!Own(x)' = P!Own(x) /\ Paths(x)' = Paths(x)
  BY <1>2 DEF P!Own, Paths
<1>4. \A k : P!Named(k)' = P!Named(k)
  BY <1>1 DEF P!Named
<1>5. P!Retained' = P!Retained
  BY <1>1, <1>2, <1>4 DEF P!Retained
<1>6. \A j : P!Authoritative(j)' <=> P!Authoritative(j)
  BY <1>1 DEF P!Authoritative
<1>7. \A x : Remembers(x)' <=> Remembers(x)
  BY <1>1, <1>3, <1>6 DEF Remembers, Evident
<1>8. ParseTypes' /\ HeldExact'
  BY <1>1, <1>2, <1>3, <1>5 DEF ParseInv, ParseTypes, HeldExact
<1>9. PlanExact'
  BY <1>1, <1>2, <1>7 DEF ParseInv, PlanExact
<1> QED BY <1>8, <1>9 DEF ParseInv

LEMMA NextParse ==
    ASSUME ParseInv, [P!Next]_(P!vars) PROVE ParseInv'
<1>1. ASSUME NEW line \in P!Line, P!ReadIndicator(line) PROVE ParseInv'
  BY <1>1, ReadParseTypes, ReadHeldExact, ReadPlanExact DEF ParseInv
<1> QED BY <1>1, OtherParse, StutterParse DEF P!Next

(* What the plan says of a held host is what the feed says of it.           *)
LEMMA PlanIsEvidence ==
    ASSUME ParseInv PROVE P!PlanMatchesEvidence
<1> SUFFICES ASSUME NEW h \in P!Held
             PROVE  plan[h].authoritative <=>
                      \/ mode = "legacy" \/ h \in Address
                      \/ \E i \in P!Own(h) : i.kind = "domain" \/ i.path = P!NoPath
                      \/ P!Cardinality({i.path : i \in P!Own(h)}) > 1
  BY DEF ParseInv, HeldExact, P!PlanMatchesEvidence
<1>1. plan[h].authoritative <=> Evident(h)
  BY DEF ParseInv, PlanExact, Remembers
<1>2. P!Own(h) # {} /\ h \in Host /\ \A i \in P!Own(h) : i.host = h
  BY DEF ParseInv, HeldExact, P!Hosts, P!Own, P!Held
<1>3. (\E p, q \in Paths(h) : p # q) <=> Cardinality(Paths(h)) > 1
  <2>1. IsFiniteSet(Paths(h)) /\ Paths(h) # {}
    BY <1>2 DEF ParseInv, ParseTypes, Paths
  <2>2. Cardinality(Paths(h)) \in Nat /\ Cardinality(Paths(h)) # 0
    BY <2>1, FS_CardinalityType, FS_EmptySet
  <2>3. Cardinality(Paths(h)) = 1 <=> \E x : Paths(h) = {x}
    BY <2>1, FS_Singleton
  <2>4. (\E x : Paths(h) = {x}) => ~(\E p, q \in Paths(h) : p # q)
    OBVIOUS
  <2>5. ASSUME ~(\E p, q \in Paths(h) : p # q) PROVE \E x : Paths(h) = {x}
    <3>1. PICK x : x \in Paths(h)
      BY <2>1
    <3>2. Paths(h) = {x}
      BY <2>5, <3>1
    <3> QED BY <3>2
  <2> QED BY <2>2, <2>3, <2>4, <2>5
<1>4. (\E i \in P!Own(h) : P!Authoritative(i)) <=>
        \/ mode = "legacy" \/ h \in Address
        \/ \E i \in P!Own(h) : i.kind = "domain" \/ i.path = P!NoPath
  BY <1>2 DEF P!Authoritative
<1> QED BY <1>1, <1>3, <1>4, ParserCounts DEF Evident, Paths

(* For any feed, cap and mode the plan holds the hosts that fit under the   *)
(* cap, and trusts exactly those that the feed names as a whole, by address *)
(* or with two resources, whatever the order of its lines (the parser's     *)
(* admission plan).                                                         *)
THEOREM PlansMatchFeeds == ASSUME P!ParseAssumption PROVE P!Spec => []PlanMatchesEvidence
<1>1. P!Init => ParseInv
  BY InitParse
<1>2. ParseInv /\ [P!Next]_(P!vars) => ParseInv'
  BY NextParse
<1>3. ParseInv => PlanMatchesEvidence
  BY PlanIsEvidence DEF PlanMatchesEvidence
<1> QED BY <1>1, <1>2, <1>3, PTL DEF P!Spec
-----------------------------------------------------------------------------
(* The walk of the audit, for any number of names, pages and faults.        *)

Place == [end : Int, last : Nat]

(* A window that was opened is not in the future; one that never was has no *)
(* name behind it.                                                          *)
Opened(c) == c \in Place /\ c.end <= auditClock /\ (c.end = C!Fresh.end => c.last = 0)

AuditTypes ==
    /\ auditClock \in Nat
    /\ hits \in [C!Name -> SUBSET (-1..auditClock)]
    /\ cycle \in [end : Int, page : SUBSET C!Name, done : SUBSET C!Name]
    /\ cycle.done \subseteq cycle.page
    /\ alive \in BOOLEAN

(* Every name of the window at or before a place was audited for it.        *)
PassedAt(c) == \A n \in C!Owed(c.end) : n <= c.last => <<n, c.end>> \in audited

(* A cycle under way: it is in the window of the cursor, or opens one; its  *)
(* page leaves out no name owed between the cursor and its last; what is    *)
(* done is audited and is the beginning of the page.                        *)
UnderWay ==
    cycle # C!Resting =>
        /\ alive /\ cycle.end <= auditClock /\ cycle.end # C!Fresh.end /\ cycle.page # {}
        /\ cycle.end = place.end \/ place.last = 0
        /\ \A i \in cycle.page, n \in C!Owed(cycle.end) :
             place.last < n /\ n <= i => n \in cycle.page
        /\ \A i \in cycle.done : <<i, cycle.end>> \in audited
        /\ \A i \in cycle.done, j \in cycle.page : j <= i => j \in cycle.done

AuditInv ==
    /\ AuditTypes
    /\ Opened(place) /\ Opened(savedPlace)
    /\ UnderWay
    /\ PassedAt(place) /\ PassedAt(savedPlace)

LEMMA InitAudit == ASSUME C!AuditAssumption, C!Init PROVE AuditInv
<1>1. AuditTypes /\ alive
  BY DEF C!Init, C!Resting, AuditTypes
<1>2. place = C!Fresh /\ savedPlace = C!Fresh /\ cycle = C!Resting /\ auditClock = 0
  BY DEF C!Init
<1>3. \A n \in C!Name : ~(n <= 0)
  BY DEF C!AuditAssumption, C!Name
<1>4. PassedAt(C!Fresh)
  BY <1>3 DEF PassedAt, C!Fresh, C!Owed
<1> QED BY <1>1, <1>2, <1>4 DEF AuditInv, Opened, Place, C!Fresh, UnderWay

(* What is seen later is not in a window that has ended.                    *)
LEMMA OwedSame ==
    ASSUME AuditInv, NEW n \in C!Name, C!See(n), NEW end \in Int, end <= auditClock
    PROVE  C!Owed(end)' = C!Owed(end)
<1>1. hits' = [hits EXCEPT ![n] = @ \cup {auditClock}] /\ auditClock \in Nat
      /\ hits \in [C!Name -> SUBSET (-1..auditClock)]
  BY DEF C!See, AuditInv, AuditTypes
<1>2. \A m \in C!Name : {t \in hits'[m] : t >= end - Lookback /\ t < end}
                          = {t \in hits[m] : t >= end - Lookback /\ t < end}
  BY <1>1
<1> QED BY <1>2, Zenon DEF C!Owed

LEMMA SeeAudit == ASSUME AuditInv, NEW n \in C!Name, C!See(n) PROVE AuditInv'
<1>1. /\ hits' = [hits EXCEPT ![n] = @ \cup {auditClock}]
      /\ UNCHANGED <<place, savedPlace, cycle, alive, audited, auditClock, auditFaults>>
  BY DEF C!See
<1>2. AuditTypes'
  BY <1>1 DEF AuditInv, AuditTypes
<1>3. /\ C!Owed(place.end)' = C!Owed(place.end)
      /\ C!Owed(savedPlace.end)' = C!Owed(savedPlace.end)
  BY <1>1, OwedSame DEF AuditInv, Opened, Place
<1>4. cycle # C!Resting => C!Owed(cycle.end)' = C!Owed(cycle.end)
  BY <1>1, OwedSame DEF AuditInv, AuditTypes, UnderWay
<1>5. PassedAt(place)' /\ PassedAt(savedPlace)'
  BY <1>1, <1>3 DEF AuditInv, PassedAt
<1>6. UnderWay'
  BY <1>1, <1>4 DEF AuditInv, UnderWay
<1> QED BY <1>1, <1>2, <1>5, <1>6 DEF AuditInv, Opened
(* A name owed is in the window's query, which counts its last second too.  *)
LEMMA OwedSuspicious ==
    ASSUME C!AuditAssumption, AuditInv, NEW end \in Int, NEW n \in C!Owed(end)
    PROVE  n \in C!Name /\ C!Suspicious(n, end)
<1> DEFINE Inside == {t \in hits[n] : t >= end - Lookback /\ t < end}
           Upto == {t \in hits[n] : t >= end - Lookback /\ t <= end}
<1>1. n \in C!Name /\ C!Cardinality(Inside) >= MinOccurrences
  BY DEF C!Owed
<1>2. hits[n] \subseteq -1..auditClock /\ auditClock \in Nat
  BY <1>1 DEF AuditInv, AuditTypes
<1>3. IsFiniteSet(-1..auditClock)
  BY <1>2, FS_Interval
<1>4. Upto \subseteq -1..auditClock /\ Inside \subseteq Upto
  BY <1>2
<1>5. IsFiniteSet(Upto) /\ IsFiniteSet(Inside)
  BY <1>3, <1>4, FS_Subset
<1>6. /\ Cardinality(Inside) <= Cardinality(Upto)
      /\ Cardinality(Inside) \in Nat /\ Cardinality(Upto) \in Nat
  BY <1>4, <1>5, FS_Subset, FS_CardinalityType
<1>7. Cardinality(Inside) = C!Cardinality(Inside) /\ Cardinality(Upto) = C!Cardinality(Upto)
  BY Zenon DEF Cardinality, C!Cardinality
<1>8. MinOccurrences \in Nat
  BY DEF C!AuditAssumption
<1> HIDE DEF Inside
<1>9. C!Cardinality(Upto) >= MinOccurrences
  BY <1>1, <1>6, <1>7, <1>8
<1> QED BY <1>1, <1>9, Zenon DEF C!Suspicious

(* A page holds, with a name, every owed name between the place and it.     *)
LEMMA PageAudit ==
    ASSUME C!AuditAssumption, AuditInv, NEW c \in Place, NEW i \in C!PageOf(c),
           NEW n \in C!Owed(c.end), c.last < n, n <= i
    PROVE  n \in C!PageOf(c)
<1> DEFINE Found == {m \in C!Name : m > c.last /\ C!Suspicious(m, c.end)}
           Before(j) == {m \in Found : m < j}
<1>1. i \in Found /\ C!Cardinality(Before(i)) < MaxPerCycle
  BY Zenon DEF C!PageOf
<1>2. n \in Found
  BY OwedSuspicious DEF Place, C!Name
<1>3. Found \subseteq 1..NameCount /\ NameCount \in Nat
  BY DEF C!Name, C!AuditAssumption
<1>4. IsFiniteSet(1..NameCount)
  BY <1>3, FS_Interval
<1>5. Before(n) \subseteq Before(i) /\ Before(i) \subseteq 1..NameCount
  BY <1>1, <1>2, <1>3
<1>6. IsFiniteSet(Before(i)) /\ IsFiniteSet(Before(n))
  BY <1>4, <1>5, FS_Subset
<1>7. /\ Cardinality(Before(n)) <= Cardinality(Before(i))
      /\ Cardinality(Before(i)) \in Nat /\ Cardinality(Before(n)) \in Nat
  BY <1>5, <1>6, FS_Subset, FS_CardinalityType
<1>8. /\ C!Cardinality(Before(i)) = Cardinality(Before(i))
      /\ C!Cardinality(Before(n)) = Cardinality(Before(n))
  BY Zenon DEF Cardinality, C!Cardinality
<1> HIDE DEF Before, Found
<1>9. C!Cardinality(Before(n)) < MaxPerCycle
  BY <1>1, <1>7, <1>8 DEF C!AuditAssumption
<1> QED BY <1>2, <1>9, Zenon DEF C!PageOf, Found, Before

(* The beginning of a window retires nothing: no name is behind it.         *)
LEMMA RetireAudit ==
    ASSUME C!AuditAssumption, AuditInv
    PROVE  /\ Opened([end |-> auditClock, last |-> 0])
           /\ PassedAt([end |-> auditClock, last |-> 0])
<1>1. auditClock \in Nat
  BY DEF AuditInv, AuditTypes
<1>2. \A n \in C!Name : ~(n <= 0)
  BY DEF C!AuditAssumption, C!Name
<1> QED BY <1>1, <1>2 DEF Opened, Place, PassedAt, C!Owed

(* The end of a cycle at a place that is opened and rightly passed.         *)
LEMMA CommitAudit ==
    ASSUME AuditInv, NEW c, Opened(c), PassedAt(c),
           place' = c, savedPlace' \in {savedPlace, c},
           cycle' = C!Resting, alive' \in BOOLEAN,
           UNCHANGED <<hits, audited, auditClock>>
    PROVE  AuditInv'
<1>1. AuditTypes' /\ UnderWay'
  BY DEF AuditInv, AuditTypes, UnderWay, C!Resting
<1>2. \A p : C!Owed(p)' = C!Owed(p)
  BY DEF C!Owed
<1>3. Opened(place)' /\ Opened(savedPlace)'
  BY DEF AuditInv, Opened
<1>4. PassedAt(place)' /\ PassedAt(savedPlace)'
  BY <1>2 DEF AuditInv, PassedAt
<1> QED BY <1>1, <1>3, <1>4 DEF AuditInv
(* A cycle that begins pages through the window of its cursor.              *)
LEMMA BeginAudit == ASSUME C!AuditAssumption, AuditInv, C!Begin PROVE AuditInv'
<1>1. alive /\ cycle = C!Resting /\ UNCHANGED <<hits, alive, audited, auditClock>>
  BY DEF C!Begin
<1>2. CASE C!Store([end |-> auditClock, last |-> 0]) /\ UNCHANGED cycle
  <2>1. /\ place' = [end |-> auditClock, last |-> 0]
        /\ savedPlace' \in {savedPlace, [end |-> auditClock, last |-> 0]}
    BY <1>2 DEF C!Store
  <2>2. alive' \in BOOLEAN /\ cycle' = C!Resting
    BY <1>1, <1>2
  <2> QED BY <1>1, <2>1, <2>2, RetireAudit, CommitAudit
<1>3. CASE /\ C!PageOf(C!Window) # {}
           /\ cycle' = [end |-> C!Window.end, page |-> C!PageOf(C!Window), done |-> {}]
           /\ UNCHANGED <<place, savedPlace, auditFaults>>
  <2>1. /\ C!Window \in Place /\ C!Window.end <= auditClock /\ C!Window.end # C!Fresh.end
        /\ C!Window.last = place.last /\ (C!Window.end = place.end \/ place.last = 0)
    BY DEF C!Window, C!Fresh, AuditInv, AuditTypes, Opened, Place
  <2>2. C!PageOf(C!Window) \subseteq C!Name
    BY DEF C!PageOf
  <2>3. AuditTypes'
    BY <1>1, <1>3, <2>1, <2>2 DEF AuditInv, AuditTypes, Place
  <2>4. \A i \in C!PageOf(C!Window), n \in C!Owed(C!Window.end) :
          place.last < n /\ n <= i => n \in C!PageOf(C!Window)
    BY <2>1, PageAudit
  <2>5. \A p : C!Owed(p)' = C!Owed(p)
    BY <1>1 DEF C!Owed
  <2>6. UnderWay'
    <3>1. /\ cycle'.end = C!Window.end /\ cycle'.page = C!PageOf(C!Window) /\ cycle'.done = {}
          /\ place' = place
      BY <1>3
    <3>2. C!Owed(cycle.end)' = C!Owed(C!Window.end)
      BY <2>5, <3>1
    <3> QED BY <1>1, <1>3, <2>1, <2>4, <3>1, <3>2 DEF UnderWay
  <2>7. PassedAt(place)' /\ PassedAt(savedPlace)' /\ Opened(place)' /\ Opened(savedPlace)'
    BY <1>1, <1>3, <2>5 DEF AuditInv, PassedAt, Opened
  <2> QED BY <2>3, <2>6, <2>7 DEF AuditInv
<1> QED BY <1>2, <1>3 DEF C!Begin

(* One more name of the page is audited; the audits the places rest on are  *)
(* remembered.                                                              *)
LEMMA StepAudit == ASSUME AuditInv, C!Audit PROVE AuditInv'
<1>1. PICK n \in cycle.page \ cycle.done :
        /\ \A m \in cycle.page : m < n => m \in cycle.done
        /\ cycle' = [cycle EXCEPT !.done = @ \cup {n}]
        /\ audited' = {a \in audited : a[2] \in {place.end, savedPlace.end, cycle.end}}
                        \cup {<<n, cycle.end>>}
  BY DEF C!Audit
<1>2. UNCHANGED <<hits, place, savedPlace, alive, auditClock>>
  BY DEF C!Audit
<1>3. /\ cycle'.end = cycle.end /\ cycle'.page = cycle.page
      /\ cycle'.done = cycle.done \cup {n} /\ cycle' # C!Resting /\ cycle # C!Resting
  BY <1>1 DEF AuditInv, AuditTypes, C!Resting
<1>4. AuditTypes'
  BY <1>1, <1>2 DEF AuditInv, AuditTypes
<1>5. /\ \A m : \A e \in {place.end, savedPlace.end, cycle.end} :
           <<m, e>> \in audited => <<m, e>> \in audited'
      /\ <<n, cycle.end>> \in audited'
  BY <1>1
<1>6. \A p : C!Owed(p)' = C!Owed(p)
  BY <1>2 DEF C!Owed
<1>7. PassedAt(place)' /\ PassedAt(savedPlace)'
  BY <1>2, <1>5, <1>6 DEF AuditInv, PassedAt
<1>8. UnderWay'
  <2>1. C!Owed(cycle.end)' = C!Owed(cycle.end)
    BY <1>3, <1>6
  <2>2. \A i \in cycle'.done : <<i, cycle.end>> \in audited'
    BY <1>3, <1>5 DEF AuditInv, UnderWay
  <2>3. \A i \in cycle'.done, j \in cycle.page : j <= i => j \in cycle'.done
    <3>1. cycle.page \subseteq C!Name
      BY DEF AuditInv, AuditTypes
    <3>2. \A j \in cycle.page : j <= n => j < n \/ j = n
      BY <3>1 DEF C!Name
    <3> QED BY <1>1, <1>3, <3>2 DEF AuditInv, UnderWay
  <2> QED BY <1>2, <1>3, <2>1, <2>2, <2>3 DEF AuditInv, UnderWay
<1> QED BY <1>2, <1>4, <1>7, <1>8 DEF AuditInv, Opened

(* A set of names that is not empty has a last one.                         *)
LEMMA LastOfPage ==
    ASSUME NEW n \in Nat, NEW page \in SUBSET (1..n), page # {}
    PROVE  \E i \in page : \A j \in page : j <= i
<1> DEFINE T == {k \in Nat : \E i \in page : k = n - i}
<1>1. T \subseteq Nat /\ T # {}
  <2>1. PICK i \in page : TRUE
    OBVIOUS
  <2>2. n - i \in Nat
    OBVIOUS
  <2> QED BY <2>1, <2>2
<1>2. PICK k \in T : \A l \in T : ~(<<l, k>> \in OpToRel(<, Nat))
  <2> HIDE DEF T
  <2> QED BY <1>1, WFMin, NatLessThanWellFounded
<1>3. PICK i \in page : k = n - i
  OBVIOUS
<1>4. ASSUME NEW j \in page PROVE j <= i
  <2>1. n - j \in Nat /\ n - j \in T
    OBVIOUS
  <2>2. ~(n - j < k)
    BY <1>2, <2>1 DEF OpToRel
  <2> QED BY <1>3, <2>2
<1> QED BY <1>4

(* The last name done is a place rightly passed.                            *)
LEMMA DoneAudit ==
    ASSUME C!AuditAssumption, AuditInv, cycle.done # {}
    PROVE  /\ Opened([end |-> cycle.end, last |-> C!Done])
           /\ PassedAt([end |-> cycle.end, last |-> C!Done])
<1>1. /\ NameCount \in Nat /\ cycle.page \subseteq 1..NameCount
      /\ cycle.done \in SUBSET (1..NameCount) /\ cycle.done \subseteq cycle.page
      /\ cycle.end \in Int
  BY DEF AuditInv, AuditTypes, C!Name, C!AuditAssumption
<1>2. C!Done \in cycle.done /\ \A m \in cycle.done : m <= C!Done
  <2>1. \E i \in cycle.done : \A j \in cycle.done : j <= i
    BY <1>1, LastOfPage
  <2> QED BY <2>1 DEF C!Done, C!Greatest
<1>3. cycle # C!Resting /\ cycle.end <= auditClock
  BY DEF C!Resting, AuditInv, UnderWay
<1> DEFINE c == [end |-> cycle.end, last |-> C!Done]
<1>4. ASSUME NEW n \in C!Owed(cycle.end), n <= C!Done PROVE <<n, cycle.end>> \in audited
  <2>1. n \in 1..NameCount
    BY <1>4 DEF C!Owed, C!Name
  <2>2. CASE n <= place.last
    <3>1. place.last # 0
      BY <2>1, <2>2
    <3>2. cycle.end = place.end
      BY <1>3, <3>1 DEF AuditInv, UnderWay
    <3> QED BY <2>2, <3>2, <1>4 DEF AuditInv, PassedAt
  <2>3. CASE place.last < n
    <3>1. n \in cycle.page
      BY <1>1, <1>2, <1>3, <1>4, <2>3 DEF AuditInv, UnderWay
    <3>2. n \in cycle.done
      BY <1>2, <1>3, <1>4, <3>1 DEF AuditInv, UnderWay
    <3> QED BY <1>3, <3>2 DEF AuditInv, UnderWay
  <2> QED BY <2>1, <2>2, <2>3 DEF AuditInv, Opened, Place
<1>5. cycle.end # C!Fresh.end
  BY <1>3 DEF AuditInv, UnderWay
<1> QED BY <1>1, <1>2, <1>3, <1>4, <1>5 DEF Opened, Place, PassedAt
(* What was done is left behind, or nothing; a page that was the last of    *)
(* its window retires it.                                                   *)
LEMMA EndAudit ==
    ASSUME C!AuditAssumption, AuditInv, C!Abort \/ C!Finish PROVE AuditInv'
<1>1. UNCHANGED <<hits, alive, audited, auditClock>> /\ cycle' = C!Resting /\ alive' \in BOOLEAN
  BY DEF C!Abort, C!Finish, AuditInv, AuditTypes
<1>2. CASE UNCHANGED <<place, savedPlace>>
  BY <1>1, <1>2, CommitAudit DEF AuditInv
<1>3. CASE /\ cycle.done # {} /\ place' = [end |-> cycle.end, last |-> C!Done]
           /\ savedPlace' \in {savedPlace, place'}
  BY <1>1, <1>3, DoneAudit, CommitAudit
<1>4. CASE /\ place' = [end |-> auditClock, last |-> 0]
           /\ savedPlace' \in {savedPlace, place'}
  BY <1>1, <1>4, RetireAudit, CommitAudit
<1>5. C!Abort => \/ UNCHANGED <<place, savedPlace>>
                 \/ /\ cycle.done # {} /\ place' = [end |-> cycle.end, last |-> C!Done]
                    /\ savedPlace' \in {savedPlace, place'}
  BY DEF C!Abort
<1>6. C!Finish => \/ /\ cycle.done # {} /\ place' = [end |-> cycle.end, last |-> C!Done]
                     /\ savedPlace' \in {savedPlace, place'}
                  \/ /\ place' = [end |-> auditClock, last |-> 0]
                     /\ savedPlace' \in {savedPlace, place'}
  <2> SUFFICES ASSUME C!Finish
               PROVE  \/ /\ cycle.done # {} /\ place' = [end |-> cycle.end, last |-> C!Done]
                         /\ savedPlace' \in {savedPlace, place'}
                      \/ /\ place' = [end |-> auditClock, last |-> 0]
                         /\ savedPlace' \in {savedPlace, place'}
    OBVIOUS
  <2>1. cycle.done # {}
    BY DEF C!Finish, AuditInv, UnderWay
  <2> QED BY <2>1 DEF C!Finish, C!Store
<1> QED BY <1>2, <1>3, <1>4, <1>5, <1>6

(* The process goes down in the middle of anything, and comes up with the   *)
(* cursor it can read.                                                      *)
LEMMA CrashAudit ==
    ASSUME C!AuditAssumption, AuditInv, C!Crash \/ C!Restart PROVE AuditInv'
<1>1. CASE C!Crash
  <2>1. /\ UNCHANGED <<hits, place, savedPlace, audited, auditClock>>
        /\ cycle' = C!Resting /\ alive' \in BOOLEAN
    BY <1>1 DEF C!Crash
  <2> QED BY <2>1, CommitAudit DEF AuditInv
<1>2. CASE C!Restart
  <2>1. /\ UNCHANGED <<hits, savedPlace, audited, auditClock>> /\ alive' \in BOOLEAN
        /\ place' \in {savedPlace, C!Fresh}
    BY <1>2 DEF C!Restart
  <2>2. cycle' = C!Resting
    BY <1>2 DEF C!Restart, AuditInv, UnderWay
  <2>3. Opened(C!Fresh) /\ PassedAt(C!Fresh)
    BY DEF Opened, Place, C!Fresh, PassedAt, C!Owed, C!Name, C!AuditAssumption, AuditInv, AuditTypes
  <2>4. CASE place' = savedPlace
    BY <2>1, <2>2, <2>4, CommitAudit DEF AuditInv
  <2>5. CASE place' = C!Fresh
    BY <2>1, <2>2, <2>3, <2>5, CommitAudit
  <2> QED BY <2>1, <2>4, <2>5
<1> QED BY <1>1, <1>2

LEMMA ClockAudit == ASSUME AuditInv, C!Tick \/ UNCHANGED C!vars PROVE AuditInv'
<1>1. /\ UNCHANGED <<hits, place, savedPlace, cycle, alive, audited>>
      /\ auditClock \in Nat /\ auditClock' \in Nat /\ auditClock <= auditClock'
  BY DEF C!Tick, C!vars, AuditInv, AuditTypes
<1>2. AuditTypes'
  <2>1. -1..auditClock \subseteq -1..auditClock'
    BY <1>1
  <2> QED BY <1>1, <2>1 DEF AuditInv, AuditTypes
<1>3. \A p : C!Owed(p)' = C!Owed(p)
  BY <1>1 DEF C!Owed
<1>4. C!Owed(cycle.end)' = C!Owed(cycle.end)
  BY <1>1, <1>3
<1>5. UnderWay'
  BY <1>1, <1>4 DEF AuditInv, AuditTypes, UnderWay
<1>6. PassedAt(place)' /\ PassedAt(savedPlace)' /\ Opened(place)' /\ Opened(savedPlace)'
  BY <1>1, <1>3 DEF AuditInv, PassedAt, Opened, Place
<1> QED BY <1>2, <1>5, <1>6 DEF AuditInv

LEMMA NextAudit == ASSUME C!AuditAssumption, AuditInv, [C!Next]_C!vars PROVE AuditInv'
BY SeeAudit, BeginAudit, StepAudit, EndAudit, CrashAudit, ClockAudit DEF C!Next

(* The audit's cursor, in memory and persisted, is only ever behind names   *)
(* that were audited for its window, whatever was cancelled, failed, lost   *)
(* or restarted (AuditTask.Run, storeCursor, loadCursor).                   *)
THEOREM CursorPassesAudited ==
    ASSUME C!AuditAssumption PROVE C!Spec => []PassedWasAudited
<1>1. C!Init => AuditInv
  BY InitAudit
<1>2. AuditInv /\ [C!Next]_C!vars => AuditInv'
  BY NextAudit
<1>3. AuditInv => PassedWasAudited
  BY DEF AuditInv, PassedAt, PassedWasAudited, C!PassedWasAudited
<1> QED BY <1>1, <1>2, <1>3, PTL DEF C!Spec
-----------------------------------------------------------------------------
(* Decisions about names, for any names, proposals, reports and operators.  *)

Proposal == [id : Nat, domain : Reviewed, status : {"pending", "approved", "rejected"},
             expires : Nat, updated : Nat]
BlockReport == [id : Nat, domain : Reviewed, status : {"pending", "resolved", "rejected"},
                created : Nat]

ModerationTypes ==
    /\ reviewClock \in Nat
    /\ audit \in [step : {"idle", "group", "act"}, domain : Reviewed \cup {"nothing"}]
    /\ audit.step # "idle" => audit.domain \in Reviewed
    /\ proposals \subseteq Proposal /\ reports \subseteq BlockReport
    /\ override \in [Reviewed -> [action : {"none", "allow", "block"},
                                by : {"nobody", "agent", "operator"}]]
    /\ ids \in [proposals : Nat, reports : Nat]

(* An id is given once: a row is known by it.                               *)
Numbered(rows, n) ==
    /\ \A p \in rows : p.id <= n
    /\ \A p, q \in rows : p.id = q.id => p = q

ModerationInv ==
    ModerationTypes /\ Numbered(proposals, ids.proposals) /\ Numbered(reports, ids.reports)

LEMMA InitModeration == ASSUME M!Init PROVE ModerationInv
BY DEF M!Init, M!NoAudit, M!NoOverride, ModerationInv, ModerationTypes, Numbered

(* Steps that touch neither table.                                          *)
LEMMA PolicyModeration ==
    ASSUME ModerationInv,
           \/ M!CheckGroup \/ M!EndAudit \/ M!Enforce \/ M!Tick \/ UNCHANGED M!vars
           \/ \E d \in Reviewed :
                \/ M!CheckOverride(d) \/ M!DeleteOverride(d)
                \/ M!PutGroupOverride(d) \/ M!DeleteGroupOverride(d)
                \/ M!PutOverride(d, "allow") \/ M!PutOverride(d, "block")
    PROVE  ModerationInv' /\ UNCHANGED <<proposals, reports>>
<1>1. UNCHANGED <<proposals, reports, ids>>
  BY DEF M!CheckOverride, M!CheckGroup, M!EndAudit, M!Enforce, M!DeleteOverride,
         M!PutGroupOverride, M!DeleteGroupOverride, M!PutOverride, M!Tick, M!vars
<1>2. ModerationTypes'
  <2>1. reviewClock' \in Nat
    BY DEF M!CheckOverride, M!CheckGroup, M!EndAudit, M!Enforce, M!DeleteOverride,
           M!PutGroupOverride, M!DeleteGroupOverride, M!PutOverride, M!Tick, M!vars,
           ModerationInv, ModerationTypes
  <2>2. /\ audit' \in [step : {"idle", "group", "act"}, domain : Reviewed \cup {"nothing"}]
        /\ audit'.step # "idle" => audit'.domain \in Reviewed
    BY DEF M!CheckOverride, M!CheckGroup, M!EndAudit, M!Enforce, M!DeleteOverride,
           M!PutGroupOverride, M!DeleteGroupOverride, M!PutOverride, M!Tick, M!vars,
           M!NoAudit, ModerationInv, ModerationTypes
  <2>3. override' \in [Reviewed -> [action : {"none", "allow", "block"},
                                  by : {"nobody", "agent", "operator"}]]
    BY DEF M!CheckOverride, M!CheckGroup, M!EndAudit, M!Enforce, M!DeleteOverride,
           M!PutGroupOverride, M!DeleteGroupOverride, M!PutOverride, M!Tick, M!vars,
           M!NoOverride, ModerationInv, ModerationTypes
  <2> QED BY <1>1, <2>1, <2>2, <2>3 DEF ModerationInv, ModerationTypes
<1> QED BY <1>1, <1>2 DEF ModerationInv, Numbered

LEMMA ProposeModeration ==
    ASSUME M!ModerationAssumption, ModerationInv, M!Propose
    PROVE  ModerationInv' /\ M!KeepsProposals /\ UNCHANGED <<reports, override>>
<1> DEFINE d == audit.domain
           deadline == reviewClock + ProposalTTL
<1>1. /\ d \in Reviewed /\ deadline \in Nat /\ reviewClock \in Nat
      /\ proposals \subseteq Proposal /\ Numbered(proposals, ids.proposals)
      /\ ids \in [proposals : Nat, reports : Nat]
  <2>1. audit.step = "act" BY DEF M!Propose
  <2>2. d \in Reviewed BY <2>1 DEF ModerationInv, ModerationTypes
  <2>3. ProposalTTL \in Nat /\ reviewClock \in Nat
    BY DEF M!ModerationAssumption, ModerationInv, ModerationTypes
  <2> QED BY <2>2, <2>3 DEF ModerationInv, ModerationTypes
<1>2. audit' = M!NoAudit /\ UNCHANGED <<auto, reports, override, groups, reviewClock>>
  BY DEF M!Propose
<1> HIDE DEF d, deadline
<1>3. CASE \E p \in M!Pending(d) :
             /\ proposals' = (proposals \ {p}) \cup {[p EXCEPT !.expires = deadline, !.updated = reviewClock]}
             /\ UNCHANGED ids
  <2>1. PICK p \in proposals :
          /\ p.status = "pending"
          /\ proposals' = (proposals \ {p}) \cup {[p EXCEPT !.expires = deadline, !.updated = reviewClock]}
    BY <1>3 DEF M!Pending
  <2>2. PICK q \in Proposal : q = [p EXCEPT !.expires = deadline, !.updated = reviewClock]
    BY <1>1 DEF Proposal
  <2>3. q.id = p.id /\ proposals' = (proposals \ {p}) \cup {q}
    BY <1>1, <2>1, <2>2 DEF Proposal
  <2>4. proposals' \subseteq Proposal /\ Numbered(proposals', ids.proposals)
    BY <1>1, <2>1, <2>2, <2>3 DEF Numbered
  <2>5. M!KeepsProposals
    BY <1>1, <2>1, <2>3 DEF M!KeepsProposals, Numbered
  <2> QED BY <1>2, <1>3, <2>4, <2>5 DEF M!NoAudit, ModerationInv, ModerationTypes
<1>4. CASE /\ ids' = [ids EXCEPT !.proposals = @ + 1]
           /\ proposals' = proposals \cup
                {[id |-> ids.proposals + 1, domain |-> d, status |-> "pending",
                  expires |-> deadline, updated |-> reviewClock]}
  <2>0. ids.proposals + 1 \in Nat /\ d \in Reviewed /\ deadline \in Nat /\ reviewClock \in Nat
    BY <1>1
  <2>1. PICK q \in Proposal : q = [id |-> ids.proposals + 1, domain |-> d, status |-> "pending",
                                   expires |-> deadline, updated |-> reviewClock]
    BY <2>0 DEF Proposal
  <2>2. proposals' = proposals \cup {q} /\ q.id = ids.proposals + 1
    BY <1>4, <2>1
  <2>3. ids' \in [proposals : Nat, reports : Nat] /\ ids'.proposals = ids.proposals + 1
        /\ ids'.reports = ids.reports
    BY <1>1, <1>4
  <2>4. proposals' \subseteq Proposal /\ Numbered(proposals', ids'.proposals)
    BY <1>1, <2>1, <2>2, <2>3 DEF Numbered, Proposal
  <2>5. M!KeepsProposals
    BY <2>2 DEF M!KeepsProposals
  <2> QED BY <1>2, <2>3, <2>4, <2>5 DEF M!NoAudit, ModerationInv, ModerationTypes, Numbered
<1> QED BY <1>2, <1>3, <1>4 DEF M!Propose, d, deadline

LEMMA DecideModeration ==
    ASSUME ModerationInv, NEW p \in proposals, M!Approve(p) \/ M!Reject(p)
    PROVE  ModerationInv' /\ M!KeepsProposals /\ UNCHANGED reports
<1>1. /\ p \in proposals /\ p \in Proposal /\ p.status = "pending" /\ reviewClock \in Nat
      /\ proposals \subseteq Proposal /\ Numbered(proposals, ids.proposals)
  BY DEF M!Approve, M!Approvable, M!Reject, M!Reviewable, ModerationInv, ModerationTypes
<1>2. PICK decision \in {"approved", "rejected"} :
        proposals' = (proposals \ {p}) \cup {[p EXCEPT !.status = decision, !.updated = reviewClock]}
  BY DEF M!Approve, M!Reject, M!Decide
<1>3. PICK q \in Proposal : q = [p EXCEPT !.status = decision, !.updated = reviewClock]
  BY <1>1, <1>2 DEF Proposal
<1>4. q.id = p.id /\ proposals' = (proposals \ {p}) \cup {q}
  BY <1>1, <1>2, <1>3 DEF Proposal
<1>5. proposals' \subseteq Proposal /\ Numbered(proposals', ids.proposals)
  <2>1. proposals' \subseteq Proposal
    BY <1>1, <1>3, <1>4
  <2>2. \A o \in proposals' : o.id <= ids.proposals
    BY <1>1, <1>4 DEF Numbered
  <2>3. \A o \in proposals \ {p} : o.id # q.id
    BY <1>1, <1>4 DEF Numbered
  <2>4. \A o, u \in proposals' : o.id = u.id => o = u
    BY <1>1, <1>4, <2>3 DEF Numbered
  <2> QED BY <2>1, <2>2, <2>4 DEF Numbered
<1>6. M!KeepsProposals
  BY <1>1, <1>4 DEF M!KeepsProposals, Numbered
<1>7. override' \in [Reviewed -> [action : {"none", "allow", "block"},
                                by : {"nobody", "agent", "operator"}]]
  BY DEF M!Approve, M!Reject, ModerationInv, ModerationTypes
<1>8. UNCHANGED <<auto, audit, reports, groups, ids, reviewClock>>
  BY DEF M!Approve, M!Reject
<1> QED BY <1>5, <1>6, <1>7, <1>8 DEF ModerationInv, ModerationTypes

LEMMA ReportModeration ==
    ASSUME ModerationInv, NEW d \in Reviewed, M!Report(d)
    PROVE  ModerationInv' /\ M!KeepsReports /\ UNCHANGED <<proposals, override>>
<1>1. /\ reviewClock \in Nat /\ ids \in [proposals : Nat, reports : Nat]
      /\ ids.reports + 1 \in Nat
      /\ reports \subseteq BlockReport /\ Numbered(reports, ids.reports)
  BY DEF ModerationInv, ModerationTypes
<1>2. PICK q \in BlockReport : q = [id |-> ids.reports + 1, domain |-> d, status |-> "pending",
                                   created |-> reviewClock]
  BY <1>1 DEF BlockReport
<1>3. reports' = reports \cup {q} /\ q.id = ids.reports + 1 /\ q.status = "pending"
  BY <1>2 DEF M!Report
<1>4. ids' \in [proposals : Nat, reports : Nat] /\ ids'.reports = ids.reports + 1
      /\ ids'.proposals = ids.proposals
  BY <1>1 DEF M!Report
<1>5. reports' \subseteq BlockReport /\ Numbered(reports', ids'.reports)
  BY <1>1, <1>2, <1>3, <1>4 DEF Numbered, BlockReport
<1>6. M!KeepsReports
  BY <1>1, <1>3 DEF M!KeepsReports, Numbered
<1>7. UNCHANGED <<auto, audit, proposals, override, groups, reviewClock>>
  BY DEF M!Report
<1> QED BY <1>4, <1>5, <1>6, <1>7 DEF ModerationInv, ModerationTypes, Numbered

LEMMA FalsePositiveModeration ==
    ASSUME ModerationInv, NEW d \in Reviewed, NEW id, M!ApproveFalsePositive(d, id)
    PROVE  ModerationInv' /\ M!KeepsReports /\ UNCHANGED proposals
<1> DEFINE Read(r) == IF r.domain = d /\ (r.status = "pending" \/ r.id = id)
                        THEN [r EXCEPT !.status = "resolved"] ELSE r
<1>1. reports \subseteq BlockReport /\ Numbered(reports, ids.reports)
  BY DEF ModerationInv, ModerationTypes
<1>2. reports' = {Read(r) : r \in reports}
  BY DEF M!ApproveFalsePositive
<1>3. \A r \in reports :
        /\ Read(r) \in BlockReport /\ Read(r).id = r.id
        /\ Read(r).status = "resolved" /\ r.status # "resolved" => r.domain = d
  BY <1>1 DEF BlockReport
<1> HIDE DEF Read
<1>4. reports' \subseteq BlockReport /\ Numbered(reports', ids.reports)
  BY <1>1, <1>2, <1>3 DEF Numbered
<1>5. /\ override' \in [Reviewed -> [action : {"none", "allow", "block"},
                                  by : {"nobody", "agent", "operator"}]]
      /\ override'[d].action = "allow"
  BY DEF M!ApproveFalsePositive, M!AllowReported, ModerationInv, ModerationTypes
<1>6. M!KeepsReports
  BY <1>1, <1>2, <1>3, <1>5 DEF M!KeepsReports, Numbered
<1>7. UNCHANGED <<auto, audit, proposals, groups, ids, reviewClock>>
  BY DEF M!ApproveFalsePositive
<1> QED BY <1>4, <1>5, <1>6, <1>7 DEF ModerationInv, ModerationTypes

LEMMA RejectReportModeration ==
    ASSUME ModerationInv, NEW r \in reports, M!RejectReport(r)
    PROVE  ModerationInv' /\ M!KeepsReports /\ UNCHANGED <<proposals, override>>
<1>1. r \in reports /\ r \in BlockReport /\ reports \subseteq BlockReport /\ Numbered(reports, ids.reports)
  BY DEF ModerationInv, ModerationTypes
<1>2. PICK q \in BlockReport : q = [r EXCEPT !.status = "rejected"]
  BY <1>1 DEF BlockReport
<1>3. q.id = r.id /\ q.status = "rejected" /\ reports' = (reports \ {r}) \cup {q}
  BY <1>1, <1>2 DEF BlockReport, M!RejectReport
<1>4. reports' \subseteq BlockReport /\ Numbered(reports', ids.reports)
  <2>1. reports' \subseteq BlockReport
    BY <1>1, <1>2, <1>3
  <2>2. \A o \in reports' : o.id <= ids.reports
    BY <1>1, <1>3 DEF Numbered
  <2>3. \A o \in reports \ {r} : o.id # q.id
    BY <1>1, <1>3 DEF Numbered
  <2>4. \A o, u \in reports' : o.id = u.id => o = u
    BY <1>1, <1>3, <2>3 DEF Numbered
  <2> QED BY <2>1, <2>2, <2>4 DEF Numbered
<1>5. M!KeepsReports
  BY <1>1, <1>3 DEF M!KeepsReports, Numbered
<1>6. UNCHANGED <<auto, audit, proposals, override, groups, ids, reviewClock>>
  BY DEF M!RejectReport
<1> QED BY <1>4, <1>5, <1>6 DEF ModerationInv, ModerationTypes

(* The sweep: a pending proposal outlives its expiry by the retention.      *)
LEMMA CleanupModeration ==
    ASSUME M!ModerationAssumption, ModerationInv, M!Cleanup
    PROVE  ModerationInv' /\ M!KeepsProposals /\ M!KeepsReports /\ UNCHANGED override
<1>1. /\ Retention \in Nat /\ reviewClock \in Nat
      /\ proposals \subseteq Proposal /\ Numbered(proposals, ids.proposals)
      /\ reports \subseteq BlockReport /\ Numbered(reports, ids.reports)
  BY DEF M!ModerationAssumption, ModerationInv, ModerationTypes
<1>2. /\ proposals' \subseteq proposals
      /\ \A p \in proposals : p.status = "pending" /\ reviewClock < p.expires => p \in proposals'
  BY <1>1 DEF M!Cleanup, M!Kept, Proposal
<1>3. /\ reports' \subseteq reports
      /\ \A r \in reports : r.status = "pending" => r \in reports'
  BY DEF M!Cleanup, M!KeptReport
<1>4. M!KeepsProposals
  BY <1>1, <1>2 DEF M!KeepsProposals, Numbered
<1>5. M!KeepsReports
  BY <1>1, <1>3 DEF M!KeepsReports, Numbered
<1>6. UNCHANGED <<auto, audit, override, groups, ids, reviewClock>>
  BY DEF M!Cleanup
<1> QED BY <1>1, <1>2, <1>3, <1>4, <1>5, <1>6 DEF ModerationInv, ModerationTypes, Numbered

(* While the agent only proposes, the one step that writes a block of its   *)
(* is an approval, which looks for group overrides in its own transaction.  *)
LEMMA GroupPolicyKept ==
    ASSUME ModerationInv, [M!Next]_M!vars
    PROVE  M!KeepsGroupPolicy
<1>1. override \in [Reviewed -> [action : {"none", "allow", "block"},
                              by : {"nobody", "agent", "operator"}]]
  BY DEF ModerationInv, ModerationTypes
<1> SUFFICES ASSUME NEW e \in Reviewed, ~auto, override'[e] # override[e], override'[e].by = "agent"
             PROVE  ~M!Grouped(e)
  BY DEF M!KeepsGroupPolicy
<1>2. CASE \E p \in proposals : M!Approve(p)
  <2>1. PICK p \in proposals : M!Approve(p) BY <1>2
  <2>2. p.domain = e BY <1>1, <2>1 DEF M!Approve
  <2> QED BY <2>1, <2>2 DEF M!Approve, M!Approvable
<1>3. CASE \E d \in Reviewed :
             \/ M!CheckOverride(d) \/ M!DeleteOverride(d) \/ M!Report(d)
             \/ M!PutGroupOverride(d) \/ M!DeleteGroupOverride(d)
             \/ M!PutOverride(d, "allow") \/ M!PutOverride(d, "block")
             \/ \E id \in 0..MaxReports : M!ApproveFalsePositive(d, id)
  BY <1>1, <1>3 DEF M!CheckOverride, M!DeleteOverride, M!Report, M!PutGroupOverride,
     M!DeleteGroupOverride, M!PutOverride, M!ApproveFalsePositive, M!AllowReported, M!NoOverride
<1>4. CASE \/ M!CheckGroup \/ M!EndAudit \/ M!Propose \/ M!Enforce \/ M!Cleanup \/ M!Tick
           \/ UNCHANGED M!vars
           \/ \E p \in proposals : M!Reject(p)
           \/ \E r \in reports : M!RejectReport(r)
  BY <1>4 DEF M!CheckGroup, M!EndAudit, M!Propose, M!Enforce, M!Cleanup, M!Tick, M!vars,
     M!Reject, M!RejectReport
<1> QED BY <1>2, <1>3, <1>4 DEF M!Next

(* Properties read the tables only: a step that leaves one alone keeps it.  *)
LEMMA KeptProposals ==
    ASSUME UNCHANGED proposals
    PROVE  M!KeepsProposals
BY DEF M!KeepsProposals

LEMMA KeptReports ==
    ASSUME ModerationInv, UNCHANGED reports
    PROVE  M!KeepsReports
BY DEF M!KeepsReports, ModerationInv, Numbered

LEMMA ModerationStep ==
    ASSUME M!ModerationAssumption, ModerationInv, [M!Next]_M!vars
    PROVE  ModerationInv' /\ M!KeepsGroupPolicy /\ M!KeepsProposals /\ M!KeepsReports
<1>1. M!KeepsGroupPolicy
  BY GroupPolicyKept
<1>2. CASE \/ M!CheckGroup \/ M!EndAudit \/ M!Enforce \/ M!Tick \/ UNCHANGED M!vars
           \/ \E d \in Reviewed :
                \/ M!CheckOverride(d) \/ M!DeleteOverride(d)
                \/ M!PutGroupOverride(d) \/ M!DeleteGroupOverride(d)
                \/ M!PutOverride(d, "allow") \/ M!PutOverride(d, "block")
  <2>1. ModerationInv' /\ UNCHANGED <<proposals, reports>>
    BY <1>2, PolicyModeration
  <2> QED BY <1>1, <2>1, KeptProposals, KeptReports
<1>3. CASE M!Propose
  BY <1>1, <1>3, ProposeModeration, KeptReports
<1>4. CASE \E p \in proposals : M!Approve(p) \/ M!Reject(p)
  BY <1>1, <1>4, DecideModeration, KeptReports
<1>5. CASE \E d \in Reviewed : M!Report(d)
  BY <1>1, <1>5, ReportModeration, KeptProposals
<1>6. CASE \E d \in Reviewed : \E id \in 0..MaxReports : M!ApproveFalsePositive(d, id)
  BY <1>1, <1>6, FalsePositiveModeration, KeptProposals
<1>7. CASE \E r \in reports : M!RejectReport(r)
  BY <1>1, <1>7, RejectReportModeration, KeptProposals
<1>8. CASE M!Cleanup
  BY <1>1, <1>8, CleanupModeration
<1> QED BY <1>2, <1>3, <1>4, <1>5, <1>6, <1>7, <1>8 DEF M!Next

(* Reviews are final, the queues lose nothing undecided, and the agent      *)
(* overrides nothing an operator decided for a group, for any names, any    *)
(* lifetimes, and whatever steps of audit, review and retention interleave  *)
(* (auditDomain, ReviewAgentProposal, ApproveFalsePositive, cleanup).       *)
THEOREM DecisionsAreKept ==
    ASSUME M!ModerationAssumption PROVE M!Spec => DecisionsStand
<1>1. M!Init => ModerationInv BY InitModeration
<1>2. ModerationInv /\ [M!Next]_M!vars => ModerationInv' BY ModerationStep
<1>3. ModerationInv /\ [M!Next]_M!vars
        => [M!KeepsGroupPolicy /\ M!KeepsProposals /\ M!KeepsReports]_M!vars
  BY ModerationStep
<1> QED BY <1>1, <1>2, <1>3, PTL DEF M!Spec, DecisionsStand, M!DecisionsStand
-----------------------------------------------------------------------------
(* Feedback.  The ring is filled slot by slot and then replaced in the same *)
(* order, each event in it has one slot; the table has one row of an event  *)
(* under a key, which is what lets an UPDATE speak of the row.              *)

Slot == [event : Event, label : U!Labels \cup {"none"}]
Labelled == [event : Persisted, key : Int, label : U!Labels \cup {"none"}, at : Int]
Call == [step : {"none", "update", "select"}, event : Persisted \cup {""},
         label : U!Labels \cup {""}, key : Int]

RingInv ==
    /\ entries \in Seq(Slot)
    /\ nextSlot \in 1..Capacity
    /\ Len(entries) < Capacity => nextSlot = Len(entries) + 1
    /\ index = [e \in DOMAIN index |-> index[e]]
    /\ U!RingExact

RowsInv ==
    /\ labels \subseteq Labelled
    /\ key \in Int /\ labelClock \in Int
    /\ call \in [Caller -> Call]
    /\ \A c \in Caller : call[c].step # "none" => call[c].label \in U!Labels
    /\ \A r, q \in labels : r.event = q.event /\ r.key = q.key => r = q

LEMMA InitFeedback == ASSUME U!FeedbackAssumption, U!Init PROVE RingInv /\ RowsInv
<1>1. entries \in Seq(Slot) /\ entries = <<>> /\ 1 \in 1..Capacity
  BY DEF U!Init, U!FeedbackAssumption
<1>2. RingInv
  <2>1. /\ DOMAIN index = {} /\ DOMAIN entries = {} /\ Len(entries) = 0 /\ nextSlot = 1
        /\ index = [e \in DOMAIN index |-> index[e]]
    BY <1>1 DEF U!Init
  <2> QED BY <1>1, <2>1 DEF RingInv, U!RingExact, U!FeedbackAssumption
<1>3. RowsInv
  <2>1. labels = {} /\ key = 1 /\ labelClock = 0 /\ call = [c \in Caller |-> U!Waiting]
    BY DEF U!Init
  <2>2. U!Waiting \in Call /\ U!Waiting.step = "none"
    BY DEF U!Waiting, Call
  <2>3. call \in [Caller -> Call] /\ \A c \in Caller : call[c].step = "none"
    BY <2>1, <2>2
  <2>4. labels \subseteq Labelled /\ key \in Int /\ labelClock \in Int
        /\ \A r, q \in labels : r.event = q.event /\ r.key = q.key => r = q
    BY <2>1
  <2> QED BY <2>3, <2>4 DEF RowsInv
<1> QED BY <1>2, <1>3

(* The slot after the last is the first.                                    *)
LEMMA NextSlot ==
    ASSUME U!FeedbackAssumption, NEW n \in 1..Capacity
    PROVE  (n % Capacity) + 1 = IF n = Capacity THEN 1 ELSE n + 1
<1>1. CASE n = Capacity
  <2>1. Capacity % Capacity = 0 BY DEF U!FeedbackAssumption
  <2> QED BY <1>1, <2>1
<1>2. CASE n < Capacity
  <2>1. n % Capacity = n BY <1>2 DEF U!FeedbackAssumption
  <2> QED BY <1>2, <2>1 DEF U!FeedbackAssumption
<1> QED BY <1>1, <1>2 DEF U!FeedbackAssumption

LEMMA RecordRing ==
    ASSUME U!FeedbackAssumption, RingInv, NEW e \in Event, U!Record(e)
    PROVE  RingInv'
<1> DEFINE entry == [event |-> e, label |-> "none"]
<1>1. /\ Capacity \in Nat \ {0} /\ nextSlot \in 1..Capacity
      /\ entries \in Seq(Slot) /\ Len(entries) \in Nat /\ Len(entries) <= Capacity
      /\ DOMAIN entries = 1..Len(entries)
      /\ entry \in Slot /\ e \notin DOMAIN index
      /\ DOMAIN index = {entries[i].event : i \in DOMAIN entries}
      /\ \A i \in DOMAIN entries : index[entries[i].event] = i
  BY DEF RingInv, U!RingExact, U!FeedbackAssumption, U!Record, Slot
<1> HIDE DEF entry
<1>2. /\ nextSlot' \in 1..Capacity
      /\ nextSlot' = IF nextSlot = Capacity THEN 1 ELSE nextSlot + 1
  BY <1>1, NextSlot DEF U!Record
<1>3. index' = U!Put(U!Evicted, e, nextSlot)
  BY DEF U!Record
<1>4. index' = [x \in DOMAIN index' |-> index'[x]]
  BY <1>3 DEF U!Put
<1>5. CASE Len(entries) < Capacity
  <2>1. entries' = Append(entries, entry) /\ nextSlot = Len(entries) + 1
    BY <1>5 DEF U!Record, RingInv, entry
  <2>2. /\ entries' \in Seq(Slot) /\ Len(entries') = nextSlot
        /\ DOMAIN entries' = DOMAIN entries \cup {nextSlot}
        /\ entries'[nextSlot] = entry /\ \A i \in DOMAIN entries : entries'[i] = entries[i]
    BY <1>1, <2>1
  <2>3. /\ DOMAIN index' = DOMAIN index \cup {e}
        /\ \A x \in DOMAIN index' : index'[x] = IF x = e THEN nextSlot ELSE index[x]
    BY <1>3, <1>5 DEF U!Put, U!Evicted
  <2>4. entry.event = e BY DEF entry
  <2>5. DOMAIN index' = {entries'[i].event : i \in DOMAIN entries'}
    BY <1>1, <2>2, <2>3, <2>4
  <2>6. \A i \in DOMAIN entries' : index'[entries'[i].event] = i
    BY <1>1, <2>2, <2>3, <2>4
  <2> QED BY <1>1, <1>2, <1>4, <2>1, <2>2, <2>5, <2>6 DEF RingInv, U!RingExact
<1>6. CASE Len(entries) = Capacity
  <2> DEFINE old == entries[nextSlot].event
  <2>1. entries' = [entries EXCEPT ![nextSlot] = entry]
    BY <1>1, <1>6 DEF U!Record, entry
  <2>2. /\ entries' \in Seq(Slot) /\ Len(entries') = Len(entries)
        /\ DOMAIN entries' = DOMAIN entries /\ nextSlot \in DOMAIN entries
        /\ entries'[nextSlot] = entry
        /\ \A i \in DOMAIN entries : i # nextSlot => entries'[i] = entries[i]
    BY <1>1, <1>6, <2>1
  <2>3. /\ DOMAIN index' = (DOMAIN index \ {old}) \cup {e}
        /\ \A x \in DOMAIN index' : index'[x] = IF x = e THEN nextSlot ELSE index[x]
    BY <1>1, <1>3, <1>6 DEF U!Put, U!Evicted, U!Drop
  <2>4. entry.event = e BY DEF entry
  <2>5. \A i \in DOMAIN entries : i # nextSlot => entries[i].event # old
    BY <1>1, <2>2
  <2>6. DOMAIN index' = {entries'[i].event : i \in DOMAIN entries'}
    <3> DEFINE K == DOMAIN entries
    <3>1. DOMAIN index = {entries[i].event : i \in K} /\ nextSlot \in K /\ DOMAIN entries' = K
      BY <1>1, <2>2
    <3> HIDE DEF K
    <3>2. \A i \in K : entries'[i].event = IF i = nextSlot THEN e ELSE entries[i].event
      BY <2>2, <2>4 DEF K
    <3>3. \A i \in K : entries'[i].event \in DOMAIN index'
      BY <2>3, <2>5, <3>1, <3>2 DEF K
    <3>4. \A x \in DOMAIN index' : \E i \in K : x = entries'[i].event
      <4> TAKE x \in DOMAIN index'
      <4>1. CASE x = e BY <3>1, <3>2, <4>1
      <4>2. CASE x # e
        <5>1. PICK i \in K : x = entries[i].event BY <2>3, <3>1, <4>2
        <5>2. i # nextSlot BY <2>3, <4>2, <5>1
        <5> QED BY <3>2, <5>1, <5>2
      <4> QED BY <4>1, <4>2
    <3> QED BY <3>1, <3>3, <3>4
  <2>7. \A i \in DOMAIN entries' : index'[entries'[i].event] = i
    <3> TAKE i \in DOMAIN entries'
    <3>1. CASE i = nextSlot BY <2>2, <2>3, <2>4, <3>1
    <3>2. CASE i # nextSlot
      <4>1. i \in DOMAIN entries /\ entries'[i] = entries[i] BY <2>2, <3>2
      <4>2. entries[i].event \in DOMAIN index /\ index[entries[i].event] = i BY <1>1, <4>1
      <4>3. entries[i].event # old /\ entries[i].event # e BY <1>1, <2>5, <3>2, <4>1, <4>2
      <4> QED BY <2>3, <4>1, <4>2, <4>3
    <3> QED BY <3>1, <3>2
  <2>8. RingInv'
    BY <1>1, <1>2, <1>4, <1>6, <2>2, <2>6, <2>7 DEF RingInv, U!RingExact
  <2> QED BY <2>8
<1>7. Len(entries) < Capacity \/ Len(entries) = Capacity
  <2>1. Len(entries) \in Nat /\ Len(entries) <= Capacity /\ Capacity \in Nat
    BY <1>1
  <2> QED BY <2>1
<1> QED BY <1>5, <1>6, <1>7

LEMMA ApplyRing ==
    ASSUME RingInv, NEW e \in Event, NEW label \in U!Labels, U!Apply(e, label)
    PROVE  RingInv'
<1> DEFINE i == index[e]
<1>1. i \in DOMAIN entries /\ entries \in Seq(Slot) /\ UNCHANGED <<index, nextSlot>>
      /\ entries' = [entries EXCEPT ![i].label = label]
  BY DEF U!Apply, RingInv, U!RingExact
<1> HIDE DEF i
<1>2. /\ entries' \in Seq(Slot) /\ Len(entries') = Len(entries)
      /\ DOMAIN entries' = DOMAIN entries
      /\ \A j \in DOMAIN entries : entries'[j].event = entries[j].event
  <2>1. entries[i] \in Slot
    BY <1>1
  <2>2. PICK slot \in Slot : slot = [entries[i] EXCEPT !.label = label] /\ slot.event = entries[i].event
    <3>1. \A x \in Slot : [x EXCEPT !.label = label] \in Slot /\ [x EXCEPT !.label = label].event = x.event
      BY DEF Slot
    <3> QED BY <2>1, <3>1
  <2>3. entries' = [entries EXCEPT ![i] = slot]
    BY <1>1, <2>2
  <2> QED BY <1>1, <2>2, <2>3
<1> QED BY <1>1, <1>2 DEF RingInv, U!RingExact

LEMMA KeptRing ==
    ASSUME RingInv, UNCHANGED <<entries, index, nextSlot>> PROVE RingInv'
BY DEF RingInv, U!RingExact

LEMMA RecordRows ==
    ASSUME RowsInv, NEW e \in Persisted, U!RecordRow(e)
    PROVE  RowsInv' /\ U!KeepsLabels
<1>1. PICK n \in Labelled :
        /\ n.event = e /\ n.key = key /\ labels' = labels \cup {n}
        /\ UNCHANGED <<key, call, labelClock>>
  <2>1. [event |-> e, key |-> key, label |-> "none", at |-> labelClock] \in Labelled
    BY DEF RowsInv, Labelled
  <2> QED BY <2>1 DEF U!RecordRow
<1>2. \A r \in labels : ~(r.event = e /\ r.key = key)
  BY DEF U!RecordRow, U!RowOf
<1> QED BY <1>1, <1>2 DEF RowsInv, U!KeepsLabels

(* The UPDATE asks for a row without a label: there is at most one row, and *)
(* one that has a label is not it.                                          *)
LEMMA UpdateRows ==
    ASSUME RowsInv, NEW c \in Caller, U!Update(c)
    PROVE  RowsInv' /\ U!KeepsLabels
<1> DEFINE open == U!Open(call[c].event, call[c].key)
           Set(r) == IF r \in open THEN [r EXCEPT !.label = call[c].label] ELSE r
<1>1. /\ labels' = {Set(r) : r \in labels} /\ UNCHANGED <<key, labelClock>>
      /\ \A r \in open : r.label = "none"
  BY DEF U!Update, U!Open
<1>2. labels \subseteq Labelled /\ call[c] \in Call /\ call[c].label \in U!Labels
  BY DEF RowsInv, U!Update
<1>3. \A r \in labels : /\ Set(r) \in Labelled /\ Set(r).event = r.event /\ Set(r).key = r.key
                        /\ Set(r).at = r.at /\ (r.label # "none" => Set(r) = r)
  BY <1>1, <1>2 DEF Labelled
<1> HIDE DEF Set, open
<1>4. /\ labels' \subseteq Labelled
      /\ \A r, q \in labels' : r.event = q.event /\ r.key = q.key => r = q
  BY <1>1, <1>3 DEF RowsInv
<1>5. U!KeepsLabels
  BY <1>1, <1>3 DEF RowsInv, U!KeepsLabels
<1>6. /\ call' \in [Caller -> Call]
      /\ \A d \in Caller : call'[d].step # "none" => call'[d].label \in U!Labels
  <2>1. PICK n \in Call : call' = [call EXCEPT ![c] = n] /\ (n.step # "none" => n.label \in U!Labels)
    <3>1. U!Waiting \in Call /\ U!Waiting.step = "none"
      BY DEF U!Waiting, Call
    <3>2. [call[c] EXCEPT !.step = "select"] \in Call /\ [call[c] EXCEPT !.step = "select"].label \in U!Labels
      BY <1>2 DEF Call
    <3> QED BY <3>1, <3>2 DEF U!Update
  <2> QED BY <2>1 DEF RowsInv
<1> QED BY <1>1, <1>4, <1>5, <1>6 DEF RowsInv

LEMMA CallRows ==
    ASSUME RowsInv, NEW c \in Caller,
           \/ U!Select(c)
           \/ \E e \in Persisted, label \in U!Labels : U!ApplyRow(c, e, label)
    PROVE  RowsInv' /\ U!KeepsLabels
<1>1. UNCHANGED <<labels, key, labelClock>> /\ key \in Int /\ call[c] \in Call
  BY DEF U!Select, U!ApplyRow, RowsInv
<1>2. PICK n \in Call : call' = [call EXCEPT ![c] = n] /\ (n.step # "none" => n.label \in U!Labels)
  <2>1. CASE U!Select(c)
    <3>1. U!Waiting \in Call /\ U!Waiting.step = "none"
      BY DEF U!Waiting, Call
    <3>2. \A x \in Call : /\ [x EXCEPT !.step = "update", !.key = x.key - 1] \in Call
                          /\ [x EXCEPT !.step = "update", !.key = x.key - 1].label = x.label
      <4>1. \A x \in Call : x.key \in Int BY DEF Call
      <4>2. \A i \in Int : i - 1 \in Int OBVIOUS
      <4>3. \A x \in Call : x.key - 1 \in Int BY <4>1, <4>2
      <4>4. \A x \in Call, k \in Int :
              /\ [x EXCEPT !.step = "update", !.key = k] \in Call
              /\ [x EXCEPT !.step = "update", !.key = k].label = x.label
        BY DEF Call
      <4> QED BY <4>3, <4>4
    <3>3. call[c].label \in U!Labels
      BY <2>1 DEF RowsInv, U!Select
    <3>4. \/ call' = [call EXCEPT ![c] = U!Waiting]
          \/ call' = [call EXCEPT ![c] = [call[c] EXCEPT !.step = "update", !.key = call[c].key - 1]]
      BY <2>1 DEF U!Select
    <3> QED BY <1>1, <3>1, <3>2, <3>3, <3>4
  <2>2. CASE \E e \in Persisted, label \in U!Labels : U!ApplyRow(c, e, label)
    <3>1. PICK e \in Persisted, label \in U!Labels :
            call' = [call EXCEPT ![c] = [step |-> "update", event |-> e, label |-> label, key |-> key]]
      BY <2>2 DEF U!ApplyRow
    <3>2. [step |-> "update", event |-> e, label |-> label, key |-> key] \in Call
      BY <1>1 DEF Call
    <3> QED BY <3>1, <3>2
  <2> QED BY <2>1, <2>2
<1> QED BY <1>1, <1>2 DEF RowsInv, U!KeepsLabels

LEMMA OtherRows ==
    ASSUME RowsInv, U!Prune \/ U!Rotate \/ U!Tick \/ UNCHANGED <<labels, key, call, labelClock>>
    PROVE  RowsInv' /\ U!KeepsLabels
<1>1. labels' \subseteq labels
  BY DEF U!Prune, U!Rotate, U!Tick
<1>2. key' \in Int /\ labelClock' \in Int
  BY DEF U!Prune, U!Rotate, U!Tick, RowsInv
<1>3. /\ call' \in [Caller -> Call]
      /\ \A c \in Caller : call'[c].step # "none" => call'[c].label \in U!Labels
  <2>1. U!Waiting \in Call /\ U!Waiting.step = "none"
    BY DEF U!Waiting, Call
  <2>2. call' = call \/ call' = [c \in Caller |-> U!Waiting]
    BY DEF U!Prune, U!Rotate, U!Tick
  <2> QED BY <2>1, <2>2 DEF RowsInv
<1> QED BY <1>1, <1>2, <1>3 DEF RowsInv, U!KeepsLabels

LEMMA FeedbackStep ==
    ASSUME U!FeedbackAssumption, RingInv, RowsInv, [U!Next]_U!vars
    PROVE  RingInv' /\ RowsInv' /\ U!KeepsLabels
<1>1. CASE U!MemoryNext
  <2>1. UNCHANGED <<labels, key, call, labelClock>>
    BY <1>1 DEF U!MemoryNext, U!Record, U!Apply, U!durable
  <2>2. RingInv'
    BY <1>1, RecordRing, ApplyRing DEF U!MemoryNext
  <2> QED BY <2>1, <2>2, OtherRows
<1>2. CASE U!DurableNext \/ UNCHANGED U!vars
  <2>1. RowsInv' /\ U!KeepsLabels
    BY <1>2, RecordRows, UpdateRows, CallRows, OtherRows DEF U!DurableNext, U!vars
  <2>2. CASE U!Rotate
    <3>1. /\ entries' = <<>> /\ DOMAIN index' = {} /\ nextSlot' = 1
          /\ index' = [e \in DOMAIN index' |-> index'[e]]
      BY <2>2 DEF U!Rotate
    <3>2. /\ entries' \in Seq(Slot) /\ Len(entries') = 0 /\ DOMAIN entries' = {}
          /\ {entries'[i].event : i \in {}} = {}
      BY <3>1
    <3>3. RingInv'
      BY <3>1, <3>2 DEF RingInv, U!RingExact, U!FeedbackAssumption
    <3> QED BY <2>1, <3>3
  <2>3. CASE ~U!Rotate
    <3>1. UNCHANGED <<entries, index, nextSlot>>
      BY <1>2, <2>3 DEF U!DurableNext, U!vars, U!memory, U!RecordRow, U!ApplyRow, U!Update,
         U!Select, U!Prune, U!Tick
    <3> QED BY <2>1, <3>1, KeptRing
  <2> QED BY <2>2, <2>3
<1> QED BY <1>1, <1>2 DEF U!Next

(* What sessions label is kept: the index  names the one slot of each event *)
(* in the ring, and a label of a row stands, for any capacity, events,      *)
(* callers and rotations of the key (urlFeedbackStore.record and apply,     *)
(* ApplyURLFeedbackLabel, PruneURLFeedback).                                *)
THEOREM LabelsAreKept == ASSUME U!FeedbackAssumption PROVE U!Spec => FeedbackKept
<1>1. U!Init => RingInv /\ RowsInv BY InitFeedback
<1>2. RingInv /\ RowsInv /\ [U!Next]_U!vars => RingInv' /\ RowsInv' BY FeedbackStep
<1>3. RingInv /\ RowsInv /\ [U!Next]_U!vars => [U!KeepsLabels]_U!vars BY FeedbackStep
<1>4. RingInv => U!RingExact BY DEF RingInv
<1> QED BY <1>1, <1>2, <1>3, <1>4, PTL DEF U!Spec, FeedbackKept, U!FeedbackKept
-----------------------------------------------------------------------------
(* Sessions.  The row revokes: a session whose logout was answered has a    *)
(* row that is revoked or none, or its claims have expired, and it is never *)
(* logged in again.                                                         *)

Revoked(s) == sessionRows[s] = S!NoRow \/ sessionRows[s].revoked # S!Never

SessionInv ==
    /\ sessionClock \in Nat
    /\ sessionRows \in [Session -> [expires : Int, revoked : Int]]
    /\ cookie \in [Session -> Int]
    /\ \A s \in leaving : s \in Session /\ cookie[s] # S!Never
    /\ \A s \in loggedOut :
         s \in Session /\ cookie[s] # S!Never /\ (Revoked(s) \/ cookie[s] < sessionClock)

LEMMA InitSessions == ASSUME S!Init PROVE SessionInv
BY DEF S!Init, S!NoRow, S!Never, SessionInv

LEMMA LoginSessions ==
    ASSUME S!SessionAssumption, SessionInv, NEW s \in Session, S!Login(s)
    PROVE  SessionInv' /\ S!AdmitsOnlyLive
<1>1. SessionTTL \in Nat /\ sessionClock \in Nat
  BY DEF S!SessionAssumption, SessionInv
<1>2. /\ sessionRows' \in [Session -> [expires : Int, revoked : Int]]
      /\ \A x \in Session : x # s => sessionRows'[x] \in {sessionRows[x], S!NoRow}
  BY <1>1 DEF S!Login, SessionInv, S!NoRow, S!Never
<1>3. /\ cookie' = [cookie EXCEPT ![s] = sessionClock + SessionTTL]
      /\ cookie[s] = S!Never /\ UNCHANGED <<leaving, loggedOut, last, sessionClock>>
  BY DEF S!Login
<1>4. cookie' \in [Session -> Int]
  BY <1>1, <1>3 DEF SessionInv
<1>5. \A x \in leaving \cup loggedOut : x # s /\ cookie'[x] = cookie[x]
  BY <1>3 DEF SessionInv
<1> QED BY <1>2, <1>3, <1>4, <1>5 DEF SessionInv, Revoked, S!AdmitsOnlyLive

(* A row that is cleaned up is as good as revoked.                          *)
LEMMA CleanupSessions == ASSUME SessionInv, S!Cleanup PROVE SessionInv' /\ S!AdmitsOnlyLive
<1>1. /\ sessionRows' \in [Session -> [expires : Int, revoked : Int]]
      /\ \A x \in Session : sessionRows'[x] \in {sessionRows[x], S!NoRow}
  BY DEF S!Cleanup, SessionInv, S!NoRow, S!Never
<1>2. UNCHANGED <<cookie, leaving, loggedOut, last, sessionClock>>
  BY DEF S!Cleanup
<1> QED BY <1>1, <1>2 DEF SessionInv, Revoked, S!AdmitsOnlyLive

LEMMA RevokeSessions ==
    ASSUME SessionInv, NEW s \in Session, S!Revoke(s)
    PROVE  SessionInv' /\ S!AdmitsOnlyLive
<1>1. sessionClock \in Nat /\ sessionRows \in [Session -> [expires : Int, revoked : Int]]
  BY DEF SessionInv
<1>2. /\ cookie[s] # S!Never /\ loggedOut' = loggedOut \cup {s} /\ leaving' = leaving \ {s}
      /\ UNCHANGED <<cookie, last, sessionClock>>
      /\ sessionRows' = IF sessionRows[s] # S!NoRow /\ sessionRows[s].revoked = S!Never
                        THEN [sessionRows EXCEPT ![s].revoked = sessionClock] ELSE sessionRows
  BY DEF S!Revoke, S!CanLogout, SessionInv
<1>3. CASE sessionRows[s] # S!NoRow /\ sessionRows[s].revoked = S!Never
  <2>1. sessionRows' = [sessionRows EXCEPT ![s].revoked = sessionClock]
    BY <1>2, <1>3
  <2>2. /\ sessionRows' \in [Session -> [expires : Int, revoked : Int]]
        /\ sessionRows'[s].revoked = sessionClock
        /\ \A x \in Session : x # s => sessionRows'[x] = sessionRows[x]
    BY <1>1, <2>1
  <2> QED BY <1>1, <1>2, <2>2 DEF SessionInv, Revoked, S!AdmitsOnlyLive, S!Never
<1>4. CASE ~(sessionRows[s] # S!NoRow /\ sessionRows[s].revoked = S!Never)
  BY <1>2, <1>4 DEF SessionInv, Revoked, S!AdmitsOnlyLive
<1> QED BY <1>3, <1>4

(* Claims that expired count as revoked; a logout that failed counts not.   *)
LEMMA LeaveSessions ==
    ASSUME SessionInv, NEW s \in Session, S!LogoutExpired(s) \/ S!LogoutFails(s)
    PROVE  SessionInv' /\ S!AdmitsOnlyLive
<1>1. /\ UNCHANGED <<sessionRows, cookie, last, sessionClock>>
      /\ s \in leaving /\ leaving' = leaving \ {s}
      /\ loggedOut' = loggedOut \/ (loggedOut' = loggedOut \cup {s} /\ sessionClock > cookie[s])
  BY DEF S!LogoutExpired, S!LogoutFails
<1>2. cookie[s] \in Int /\ sessionClock \in Nat /\ cookie[s] # S!Never
  BY <1>1 DEF SessionInv
<1> QED BY <1>1, <1>2 DEF SessionInv, Revoked, S!AdmitsOnlyLive

(* A session that was answered has no active row, or has expired.           *)
LEMMA AdmitSessions ==
    ASSUME SessionInv,
           \/ \E s \in Session : S!BeginLogout(s)
           \/ \E route \in S!Routes, m \in BOOLEAN :
                S!AdmitGuest(route, m) \/ \E s \in Session : S!AdmitAdmin(s, route, m)
    PROVE  SessionInv' /\ S!AdmitsOnlyLive
<1>1. CASE \E route \in S!Routes, m \in BOOLEAN : S!AdmitGuest(route, m)
  <2>1. UNCHANGED <<sessionRows, cookie, leaving, loggedOut, sessionClock>>
    BY <1>1 DEF S!AdmitGuest
  <2>2. S!AdmitsOnlyLive
    BY <1>1 DEF S!AdmitGuest, S!Admitted, S!GuestMay, S!AdmitsOnlyLive
  <2> QED BY <2>1, <2>2 DEF SessionInv, Revoked
<1>2. ASSUME NEW s \in Session,
             \/ S!BeginLogout(s)
             \/ \E route \in S!Routes, m \in BOOLEAN : S!AdmitAdmin(s, route, m)
      PROVE  SessionInv' /\ S!AdmitsOnlyLive
  <2>1. /\ UNCHANGED <<sessionRows, cookie, loggedOut, sessionClock>>
        /\ leaving' = leaving \/ leaving' = leaving \cup {s}
        /\ cookie[s] # S!Never /\ sessionClock <= cookie[s] /\ S!AdminSessionActive(s)
        /\ last'.role = "admin" /\ last'.session = s
    BY <1>2 DEF S!BeginLogout, S!AdmitAdmin, S!Admitted
  <2>2. cookie[s] \in Int /\ sessionClock \in Nat
    BY DEF SessionInv
  <2>3. s \notin loggedOut
    BY <2>1, <2>2 DEF SessionInv, Revoked, S!AdminSessionActive
  <2>4. S!AdmitsOnlyLive
    BY <2>1, <2>3 DEF S!AdmitsOnlyLive
  <2> QED BY <2>1, <2>4 DEF SessionInv, Revoked
<1> QED BY <1>1, <1>2

LEMMA OtherSessions ==
    ASSUME SessionInv,
           \/ S!LoginGuest \/ S!LoadGuest \/ S!Toggle \/ S!Tick \/ UNCHANGED S!vars
           \/ \E kept \in {"none", "disabled", "enabled"} :
                S!SaveGuest(kept) \/ S!PutGuest(kept)
    PROVE  SessionInv' /\ S!AdmitsOnlyLive
<1>1. /\ UNCHANGED <<sessionRows, cookie, leaving, loggedOut, last>>
      /\ sessionClock' \in {sessionClock, sessionClock + 1}
  BY DEF S!LoginGuest, S!LoadGuest, S!Toggle, S!Tick, S!SaveGuest, S!PutGuest, S!vars, SessionInv
<1>2. \A s \in Session : cookie[s] \in Int
  BY DEF SessionInv
<1> QED BY <1>1, <1>2 DEF SessionInv, Revoked, S!AdmitsOnlyLive

(* After a logout was answered with success no request of the session is    *)
(* admitted, none is after it expired, and an administrators' route admits  *)
(* nobody else for a change, for any sessions and lifetimes, across outages *)
(* of the store and the cleanup of rows (AuthLogoutHandler,                 *)
(* RequireAuthFunc, RequireAdminFunc, RequireAdminForMutationFunc).         *)
THEOREM LogoutStands == ASSUME S!SessionAssumption PROVE S!Spec => LogoutIsFinal
<1>1. S!Init => SessionInv BY InitSessions
<1>2. SessionInv /\ [S!Next]_S!vars => SessionInv' /\ S!AdmitsOnlyLive
  BY LoginSessions, CleanupSessions, RevokeSessions, LeaveSessions, AdmitSessions, OtherSessions
     DEF S!Next
<1>3. SessionInv /\ [S!Next]_S!vars => [S!AdmitsOnlyLive]_S!vars BY <1>2
<1> QED BY <1>1, <1>2, <1>3, PTL DEF S!Spec, LogoutIsFinal, S!LogoutIsFinal
=============================================================================
