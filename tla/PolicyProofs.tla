----------------------------- MODULE PolicyProofs -----------------------------
(***************************************************************************)
(* The order of precedence for any names, public suffixes, groups and      *)
(* rows: a request that nothing disturbs is decided as documented, one     *)
(* that is overtaken by edits still obeys every row that stood throughout, *)
(* and a group that was gone decides nothing.                              *)
(***************************************************************************)
EXTENDS Policy, TLAPS, SequenceTheorems, NaturalsInduction, WellFoundedInduction

LEMMA NameType ==
    ASSUME NEW q \in Name
    PROVE  q \in Seq(Label) /\ Len(q) \in Nat /\ Len(q) > 0 /\ SubSeq(q, 1, Len(q)) = q
<1>1. q \in Seq(Label) /\ q # <<>>
  BY PolicyAssumption
<1>2. Len(q) \in Nat /\ Len(q) > 0
  BY <1>1
<1>3. SubSeq(q, 1, Len(q)) = q
  BY <1>1
<1> QED BY <1>1, <1>2, <1>3

(* A set of numbers up to a bound that is not empty has a largest one.      *)
LEMMA LargestExists ==
    ASSUME NEW n \in Nat, NEW S \in SUBSET (1..n), S # {}
    PROVE  \E i \in S : \A j \in S : j <= i
<1> DEFINE T == {k \in Nat : \E i \in S : k = n - i}
<1>1. T \subseteq Nat /\ T # {}
  <2>1. PICK i \in S : TRUE
    OBVIOUS
  <2>2. n - i \in T
    <3>1. n - i \in Nat
      OBVIOUS
    <3> QED BY <3>1
  <2> QED BY <2>2
<1>2. PICK k \in T : \A l \in T : ~(<<l, k>> \in OpToRel(<, Nat))
  <2> HIDE DEF T
  <2> QED BY <1>1, WFMin, NatLessThanWellFounded
<1>3. PICK i \in S : k = n - i
  OBVIOUS
<1>4. ASSUME NEW j \in S PROVE j <= i
  <2>1. n - j \in Nat /\ n - j \in T
    OBVIOUS
  <2>2. ~(n - j < k)
    BY <1>2, <2>1 DEF OpToRel
  <2> QED BY <1>3, <2>2
<1> QED BY <1>4

(* A prefix of a name is what SubSeq cuts off it.                           *)
LEMMA PrefixIff ==
    ASSUME NEW n \in Name, NEW q \in Name
    PROVE  IsPrefix(n, q) <=> Len(n) <= Len(q) /\ n = SubSeq(q, 1, Len(n))
BY NameType DEF IsPrefix

LEMMA PrefixLength ==
    ASSUME NEW q \in Name, NEW i \in 0..Len(q)
    PROVE  SubSeq(q, 1, i) \in Seq(Label) /\ Len(SubSeq(q, 1, i)) = i
BY NameType

(* One above the largest number of a set, or the bound when that is in it.   *)
LEMMA AboveLargest ==
    ASSUME NEW N \in Nat, N > 0, NEW S \in SUBSET (1..N), S # {}, NEW f,
           f = IF N \in S THEN N ELSE 1 + CHOOSE i \in S : \A j \in S : j <= i
    PROVE  /\ f \in 1..N
           /\ \A i \in 1..N : i >= f <=> i = N \/ \A j \in S : j < i
<1>1. CASE N \in S
  BY <1>1
<1>2. CASE N \notin S
  <2> DEFINE m == CHOOSE i \in S : \A j \in S : j <= i
  <2>1. m \in S /\ \A j \in S : j <= m
    <3>1. \E i \in S : \A j \in S : j <= i
      BY LargestExists
    <3> QED BY <3>1
  <2>2. f = 1 + m
    BY <1>2
  <2> HIDE DEF m
  <2>3. m \in 1..N /\ m # N
    BY <1>2, <2>1
  <2>4. \A i \in 1..N : i > m <=> \A j \in S : j < i
    BY <2>1, <2>3
  <2>5. f \in 1..N
    BY <2>2, <2>3
  <2>6. ASSUME NEW i \in 1..N PROVE i >= f <=> i = N \/ \A j \in S : j < i
    <3>1. i >= f <=> i > m
      BY <2>2, <2>3
    <3>2. i = N => i > m
      BY <2>3
    <3> QED BY <2>4, <3>1, <3>2
  <2> QED BY <2>5, <2>6
<1> QED BY <1>1, <1>2

(* The floor of a walk lies just below the longest public suffix.           *)
LEMMA FloorIs ==
    ASSUME NEW q \in Name
    PROVE  /\ FloorLen(q) \in 1..Len(q)
           /\ \A i \in 1..Len(q) :
                i >= FloorLen(q) <=>
                  i = Len(q) \/ \A j \in 1..Len(q) : SubSeq(q, 1, j) \in PublicSuffix => j < i
<1> DEFINE S == {i \in 1..Len(q) : SubSeq(q, 1, i) \in PublicSuffix}
<1>1. Len(q) \in Nat /\ Len(q) > 0 /\ SubSeq(q, 1, Len(q)) = q
  BY NameType
<1>2. S # {} /\ S \in SUBSET (1..Len(q))
  BY <1>1, PolicyAssumption
<1>3. Len(q) \in S <=> q \in PublicSuffix
  <2>1. Len(q) \in 1..Len(q)
    BY <1>1
  <2> QED BY <1>1, <2>1, Zenon
<1>4. FloorLen(q) = IF Len(q) \in S THEN Len(q) ELSE 1 + CHOOSE i \in S : \A j \in S : j <= i
  <2>1. CASE q \in PublicSuffix
    BY <1>3, <2>1, Zenon DEF FloorLen
  <2>2. CASE q \notin PublicSuffix
    <3>1. FloorLen(q) = 1 + CHOOSE i \in S : \A j \in S : j <= i
      BY <1>2, <2>2 DEF FloorLen
    <3> QED BY <1>3, <2>2, <3>1, Zenon
  <2> QED BY <2>1, <2>2
<1>5. /\ FloorLen(q) \in 1..Len(q)
      /\ \A i \in 1..Len(q) : i >= FloorLen(q) <=> i = Len(q) \/ \A j \in S : j < i
  <2> DEFINE N == Len(q)
             f == FloorLen(q)
  <2>1. N \in Nat /\ N > 0 /\ S # {} /\ S \in SUBSET (1..N)
    BY <1>1, <1>2
  <2>2. f = IF N \in S THEN N ELSE 1 + CHOOSE i \in S : \A j \in S : j <= i
    BY <1>4
  <2> HIDE DEF N, f, S
  <2>3. /\ f \in 1..N
        /\ \A i \in 1..N : i >= f <=> i = N \/ \A j \in S : j < i
    BY <2>1, <2>2, AboveLargest
  <2> QED BY <2>3 DEF N, f
<1> QED BY <1>5

(* The walk visits exactly the names that cover the one asked for.          *)
LEMMA CoversIff ==
    ASSUME NEW n \in Name, NEW q \in Name
    PROVE  Covers(n, q) <=> Len(n) \in FloorLen(q)..Len(q) /\ n = SubSeq(q, 1, Len(n))
<1> SUFFICES ASSUME Len(n) <= Len(q), n = SubSeq(q, 1, Len(n))
             PROVE  Covers(n, q) <=> Len(n) >= FloorLen(q)
  <2>1. FloorLen(q) \in Nat /\ Len(n) \in Nat /\ Len(q) \in Nat
    BY FloorIs, NameType
  <2> QED BY <2>1, PrefixIff DEF Covers
<1>1. /\ Len(n) \in 1..Len(q) /\ Len(q) \in Nat /\ Len(n) \in Nat
      /\ FloorLen(q) \in 1..Len(q)
  BY NameType, FloorIs
<1>2. n = q <=> Len(n) = Len(q)
  BY NameType
<1>3. IsPrefix(n, q)
  BY PrefixIff
<1>4. (\A s \in PublicSuffix : IsPrefix(s, q) => ~IsPrefix(n, s)) <=>
      (\A j \in 1..Len(q) : SubSeq(q, 1, j) \in PublicSuffix => j < Len(n))
  <2>1. ASSUME NEW j \in 1..Len(q), SubSeq(q, 1, j) \in PublicSuffix
        PROVE  /\ IsPrefix(SubSeq(q, 1, j), q)
               /\ IsPrefix(n, SubSeq(q, 1, j)) <=> Len(n) <= j
    <3>1. SubSeq(q, 1, j) \in Name /\ Len(SubSeq(q, 1, j)) = j
      BY <2>1, PolicyAssumption, PrefixLength
    <3>2. q \in Seq(Label) /\ Len(q) \in Nat
      BY NameType
    <3>3. Len(n) <= j => SubSeq(SubSeq(q, 1, j), 1, Len(n)) = SubSeq(q, 1, Len(n))
      BY <1>1, <3>2
    <3>4. IsPrefix(SubSeq(q, 1, j), q)
      <4> DEFINE t == SubSeq(q, 1, j)
      <4>1. t \in Name /\ Len(t) = j /\ j <= Len(q) /\ t = SubSeq(q, 1, Len(t))
        BY <3>1
      <4> HIDE DEF t
      <4>2. IsPrefix(t, q)
        BY <4>1, PrefixIff
      <4> QED BY <4>2 DEF t
    <3>5. IsPrefix(n, SubSeq(q, 1, j)) <=> Len(n) <= j /\ n = SubSeq(SubSeq(q, 1, j), 1, Len(n))
      BY <3>1, PrefixIff
    <3> QED BY <3>3, <3>4, <3>5
  <2>2. ASSUME NEW s \in PublicSuffix, IsPrefix(s, q)
        PROVE  Len(s) \in 1..Len(q) /\ s = SubSeq(q, 1, Len(s))
    <3>1. s \in Name /\ Len(s) \in Nat /\ Len(s) > 0
      BY PolicyAssumption, NameType
    <3> QED BY <1>1, <2>2, <3>1, PrefixIff
  <2>3. ASSUME \A s \in PublicSuffix : IsPrefix(s, q) => ~IsPrefix(n, s),
               NEW j \in 1..Len(q), SubSeq(q, 1, j) \in PublicSuffix
        PROVE  j < Len(n)
    <3>1. ~(Len(n) <= j)
      BY <2>1, <2>3
    <3> QED BY <1>1, <3>1
  <2>4. ASSUME \A j \in 1..Len(q) : SubSeq(q, 1, j) \in PublicSuffix => j < Len(n),
               NEW s \in PublicSuffix, IsPrefix(s, q)
        PROVE  ~IsPrefix(n, s)
    <3>1. Len(s) \in 1..Len(q) /\ s = SubSeq(q, 1, Len(s))
      BY <2>2, <2>4
    <3>2. Len(s) < Len(n)
      BY <2>4, <3>1
    <3>3. IsPrefix(n, s) => Len(n) <= Len(s)
      BY DEF IsPrefix
    <3> QED BY <1>1, <3>1, <3>2, <3>3
  <2> QED BY <2>3, <2>4
<1> QED BY <1>1, <1>2, <1>3, <1>4, FloorIs DEF Covers

LEMMA VisitedIff ==
    ASSUME NEW n \in Name, NEW q \in Name
    PROVE  n \in Visited(q) <=> Covers(n, q)
<1>1. FloorLen(q) \in 1..Len(q) /\ Len(q) \in Nat
  BY FloorIs, NameType
<1>2. ASSUME NEW i \in FloorLen(q)..Len(q), n = SubSeq(q, 1, i)
      PROVE  Len(n) = i
  <2>1. i \in 0..Len(q)
    BY <1>1
  <2> QED BY <1>2, <2>1, PrefixLength
<1>3. n \in Visited(q) <=> \E i \in FloorLen(q)..Len(q) : n = SubSeq(q, 1, i)
  BY Zenon DEF Visited
<1> QED BY <1>2, <1>3, CoversIff, Zenon

-----------------------------------------------------------------------------
(* Types.  While a request is walked its record holds where the walk is;    *)
(* a decided one what was decided.                                          *)
Stages == {"mapping", "group", "own", "global", "whitelist", "adblock", "assess"}
Walking == [pc : Stages, q : Name, kind : {"policy", "analyze"}, result : {Unassessed},
            at : Nat, group : Group \cup {"default"}, settings : Setting \cup {BuiltIn}]
Decision == [pc : {"done"}, q : Name, kind : {"policy", "analyze"}, group : Group \cup {"default"},
             result : Result \cup {Unassessed}, layer : {"override", "whitelist", "content", "assessment"},
             policy : {"allow", "block"}, row : Row \cup {NoRow}]

RequestTyped ==
    /\ req \in {Idle} \cup Walking \cup Decision
    /\ req.pc \in {"mapping", "group", "own", "global"} => stored

(* The foreign keys of the store: a mapping names a group there is.         *)
TablesTyped ==
    /\ groups \in [DOMAIN groups -> Setting] /\ DOMAIN groups \subseteq Group
    /\ ipRow \in DOMAIN groups \cup {"none"} /\ cidrRow \in DOMAIN groups \cup {"none"}
    /\ cidrIndex \in Group \cup {"none"}
    /\ whitelist \subseteq Name
    /\ stored \in BOOLEAN /\ quiet \in BOOLEAN /\ faults \in Nat

(* A table holds one row of an owner for a name.                            *)
OneRowEach == \A r, s \in overrides : r.owner = s.owner /\ r.domain = s.domain => r = s

RowsTyped ==
    /\ overrides \subseteq Row /\ OneRowEach
    /\ standing \subseteq overrides
    /\ req.pc # "idle" => overrides \subseteq ever

Typed == RequestTyped /\ TablesTyped /\ RowsTyped

LEMMA RequestCases ==
    ASSUME RequestTyped
    PROVE  /\ req.pc = "idle" <=> req = Idle
           /\ req.pc \in Stages <=> req \in Walking
           /\ req.pc = "done" <=> req \in Decision
           /\ req.pc \in Stages \cup {"idle", "done"}
<1>1. CASE req = Idle
  BY <1>1 DEF Idle, Stages, Walking, Decision
<1>2. CASE req \in Walking
  BY <1>2 DEF Idle, Stages, Walking, Decision
<1>3. CASE req \in Decision
  BY <1>3 DEF Idle, Stages, Walking, Decision
<1> QED BY <1>1, <1>2, <1>3 DEF RequestTyped

LEMMA TypedInit == Init => Typed
<1> SUFFICES ASSUME Init PROVE Typed
  OBVIOUS
<1>1. RequestTyped
  BY DEF Init, RequestTyped, Idle
<1>2. TablesTyped
  BY DEF Init, TablesTyped
<1>3. RowsTyped
  BY DEF Init, RowsTyped, OneRowEach, Idle
<1> QED BY <1>1, <1>2, <1>3 DEF Typed

(* A step of the walk changes neither the tables nor what is in memory.     *)
LEMMA RequestStep ==
    ASSUME Typed, Next
    PROVE  RequestTyped'
<1> USE DEF Typed
<1>0. RequestTyped /\ TablesTyped /\ RowsTyped
  OBVIOUS
<1>1. ASSUME NEW q \in Name, NEW kind \in {"policy", "analyze"}, Begin(q, kind)
      PROVE  RequestTyped'
  <2>1. Len(q) \in Nat
    BY NameType
  <2>2. req' \in Walking
    BY <1>1, <2>1 DEF Begin, Walking, Stages
  <2>3. req'.pc \in {"mapping", "group", "own", "global"} => stored'
    BY <1>1 DEF Begin, memory
  <2> QED BY <2>2, <2>3 DEF RequestTyped
<1>2. CASE QueryMapping
  <2>1. req \in Walking /\ stored
    BY <1>0, <1>2, RequestCases DEF QueryMapping, RequestTyped, Stages
  <2>2. ipRow # "none" => ipRow \in Group
    BY <1>0 DEF TablesTyped
  <2>3. cidrIndex # "none" => cidrIndex \in Group
    BY <1>0 DEF TablesTyped
  <2>4. req' \in Walking
    BY <1>2, <2>1, <2>2, <2>3 DEF QueryMapping, Walking, Stages
  <2> QED BY <1>2, <2>1, <2>4 DEF RequestTyped, QueryMapping, memory
<1>3. CASE QueryGroup
  <2>1. req \in Walking /\ stored
    BY <1>0, <1>3, RequestCases DEF QueryGroup, RequestTyped, Stages
  <2>2. req.group \in DOMAIN groups \cup {"default"} => GroupOf(req.group) \in Setting \cup {BuiltIn}
    BY <1>0 DEF TablesTyped, GroupOf
  <2>3. req' \in Walking
    BY <1>3, <2>1, <2>2 DEF QueryGroup, Walking, Stages
  <2> QED BY <1>3, <2>1, <2>3 DEF RequestTyped, QueryGroup, memory
<1>4. CASE QueryOwn \/ QueryGlobal
  <2>1. req \in Walking /\ stored /\ stored' = stored
    BY <1>0, <1>4, RequestCases DEF QueryOwn, QueryGlobal, RequestTyped, Stages, memory
  <2>2. CASE \E r \in overrides : Outcome("override", r.action, r)
    <3>1. PICK r \in overrides : Outcome("override", r.action, r)
      BY <2>2
    <3>2. r \in Row /\ r.action \in {"allow", "block"}
      BY <1>0 DEF RowsTyped, Row
    <3>3. req' \in Decision
      BY <2>1, <3>1, <3>2 DEF Outcome, Decided, Walking, Decision
    <3> QED BY <2>1, <3>3 DEF RequestTyped
  <2>3. CASE Goto("global") \/ Goto("whitelist")
    <3>1. req' \in Walking
      BY <2>1, <2>3 DEF Goto, Walking, Stages
    <3> QED BY <2>1, <3>1 DEF RequestTyped
  <2>4. CASE req.at > FloorLen(req.q) /\ req' = [req EXCEPT !.pc = "own", !.at = req.at - 1]
    <3>1. req.at \in Nat /\ FloorLen(req.q) \in Nat
      BY <2>1, FloorIs DEF Walking
    <3>2. req.at - 1 \in Nat
      BY <2>4, <3>1
    <3>3. req' \in Walking
      BY <2>1, <2>4, <3>2 DEF Walking, Stages
    <3> QED BY <2>1, <3>3 DEF RequestTyped
  <2> QED BY <1>4, <2>2, <2>3, <2>4 DEF QueryOwn, QueryGlobal, Found
<1>5. CASE Fail
  <2>1. req \in Walking /\ stored /\ stored' = stored
    BY <1>0, <1>5, RequestCases DEF Fail, RequestTyped, Stages, memory
  <2>2. req' \in Walking
    BY <1>5, <2>1 DEF Fail, Walking, Stages
  <2> QED BY <2>1, <2>2 DEF RequestTyped
<1>6. ASSUME NEW cancelled \in BOOLEAN, AskWhitelist(cancelled)
      PROVE  RequestTyped'
  <2>1. req \in Walking
    BY <1>0, <1>6, RequestCases DEF AskWhitelist, Stages
  <2>2. Outcome("whitelist", "allow", NoRow) => req' \in Decision /\ req'.pc = "done"
    BY <2>1 DEF Outcome, Decided, Walking, Decision
  <2>3. Goto("adblock") => req' \in Walking /\ req'.pc = "adblock"
    BY <2>1 DEF Goto, Walking, Stages
  <2> QED BY <1>6, <2>2, <2>3 DEF RequestTyped, AskWhitelist
<1>7. CASE MatchAdblock
  <2>1. req \in Walking
    BY <1>0, <1>7, RequestCases DEF MatchAdblock, Stages
  <2>2. Outcome("content", "block", NoRow) => req' \in Decision /\ req'.pc = "done"
    BY <2>1 DEF Outcome, Decided, Walking, Decision
  <2>3. Goto("assess") => req' \in Walking /\ req'.pc = "assess"
    BY <2>1 DEF Goto, Walking, Stages
  <2> QED BY <1>7, <2>2, <2>3 DEF RequestTyped, MatchAdblock
<1>8. ASSUME NEW r \in Result, Assess(r)
      PROVE  RequestTyped'
  <2>1. req \in Walking
    BY <1>0, <1>8, RequestCases DEF Assess, Stages
  <2>2. req' \in Decision /\ req'.pc = "done"
    BY <1>8, <2>1 DEF Assess, Decided, Enforced, Walking, Decision
  <2> QED BY <2>2 DEF RequestTyped
<1>9. CASE Reply
  BY <1>9 DEF Reply, RequestTyped, Idle
<1>10. ASSUME req' = req, stored' = stored
       PROVE  RequestTyped'
  BY <1>0, <1>10 DEF RequestTyped
<1> QED
  BY <1>1, <1>2, <1>3, <1>4, <1>5, <1>6, <1>7, <1>8, <1>9, <1>10
     DEF Next, Upsert, Delete, DeleteGroup, UpdateGroup, Reconcile, Change, memory

(* The steps of a request, and those of the operators and of the clock.     *)
RequestMoves ==
    \/ QueryMapping \/ QueryGroup \/ QueryOwn \/ QueryGlobal \/ MatchAdblock
    \/ \E r \in Result : Assess(r)
    \/ \E cancelled \in BOOLEAN : AskWhitelist(cancelled)
    \/ Fail

RowEdits ==
    \/ \E owner \in Owner, n \in Name, a \in {"allow", "block"} : Upsert(owner, n, a)
    \/ \E r \in overrides : Delete(r)
    \/ \E g \in Group : DeleteGroup(g)

OtherEdits == (\E g \in Group, s \in Setting : UpdateGroup(g, s)) \/ Reconcile

LEMMA NextIs ==
    Next <=> \/ \E q \in Name, kind \in {"policy", "analyze"} : Begin(q, kind)
             \/ RequestMoves \/ Reply \/ RowEdits \/ OtherEdits
BY Zenon DEF Next, RequestMoves, RowEdits, OtherEdits

LEMMA MovesKeep ==
    ASSUME Typed, RequestMoves
    PROVE  /\ UNCHANGED <<tables, memory, changes, standing, ever, buried>>
           /\ quiet' => quiet
           /\ quiet' \in BOOLEAN
           /\ faults' \in Nat /\ faults' >= faults
<1>0. faults \in Nat /\ quiet \in BOOLEAN
  BY DEF Typed, TablesTyped
<1>1. CASE QueryMapping \/ QueryGroup \/ QueryOwn \/ QueryGlobal \/ MatchAdblock
  BY <1>0, <1>1 DEF QueryMapping, QueryGroup, QueryOwn, QueryGlobal, MatchAdblock, history
<1>2. CASE \E r \in Result : Assess(r)
  BY <1>0, <1>2 DEF Assess, history
<1>3. CASE \E cancelled \in BOOLEAN : AskWhitelist(cancelled)
  BY <1>0, <1>3 DEF AskWhitelist
<1>4. CASE Fail
  <2>1. /\ UNCHANGED <<tables, memory, changes, standing, ever, buried>>
        /\ quiet' = FALSE /\ faults' = faults + 1
    BY <1>4 DEF Fail
  <2>2. faults' \in Nat /\ faults' >= faults
    BY <1>0, <2>1
  <2>3. (quiet' => quiet) /\ quiet' \in BOOLEAN
    BY <2>1, Zenon
  <2> QED BY <2>1, <2>2, <2>3, Zenon
<1> QED BY <1>1, <1>2, <1>3, <1>4 DEF RequestMoves

LEMMA RowEditsKeep ==
    ASSUME RowEdits
    PROVE  /\ Change /\ Tracked /\ stored
           /\ UNCHANGED <<memory, req, faults, buried>>
           /\ quiet' = (req = Idle)
BY DEF RowEdits, Upsert, Delete, DeleteGroup, Change

LEMMA OtherEditsKeep ==
    ASSUME OtherEdits
    PROVE  /\ UNCHANGED <<ipRow, cidrRow, overrides, whitelist, adblock, semantics, stored, req, faults, standing, ever, buried>>
           /\ DOMAIN groups' = DOMAIN groups
           /\ quiet' = (req = Idle)
BY DEF OtherEdits, UpdateGroup, Reconcile, Change, tables, memory

LEMMA TablesStep ==
    ASSUME Typed, Next
    PROVE  TablesTyped'
<1>0. TablesTyped /\ RequestTyped
  BY DEF Typed
<1>1. ASSUME NEW q \in Name, NEW kind \in {"policy", "analyze"}, Begin(q, kind)
      PROVE  TablesTyped'
  BY <1>0, <1>1 DEF Begin, TablesTyped, tables, memory
<1>2. CASE RequestMoves
  BY <1>0, <1>2, MovesKeep DEF TablesTyped, tables, memory
<1>3. CASE Reply
  BY <1>0, <1>3 DEF Reply, TablesTyped, tables, memory
<1>4. ASSUME NEW owner \in Owner, NEW n \in Name, NEW a \in {"allow", "block"}, Upsert(owner, n, a)
      PROVE  TablesTyped'
  BY <1>0, <1>4 DEF Upsert, Change, TablesTyped, memory
<1>5. ASSUME NEW r \in overrides, Delete(r)
      PROVE  TablesTyped'
  BY <1>0, <1>5 DEF Delete, Change, TablesTyped, memory
<1>6. ASSUME NEW g \in Group, DeleteGroup(g)
      PROVE  TablesTyped'
  BY <1>0, <1>6 DEF DeleteGroup, Change, TablesTyped, memory
<1>7. ASSUME NEW g \in Group, NEW s \in Setting, UpdateGroup(g, s)
      PROVE  TablesTyped'
  BY <1>0, <1>7 DEF UpdateGroup, Change, TablesTyped, memory
<1>8. CASE Reconcile
  BY <1>0, <1>8 DEF Reconcile, TablesTyped, tables
<1> QED BY <1>1, <1>2, <1>3, <1>4, <1>5, <1>6, <1>7, <1>8, NextIs DEF RowEdits, OtherEdits

LEMMA RowsStep ==
    ASSUME Typed, Next
    PROVE  RowsTyped'
<1>0. RowsTyped /\ RequestTyped
  BY DEF Typed
<1>1. ASSUME NEW q \in Name, NEW kind \in {"policy", "analyze"}, Begin(q, kind)
      PROVE  RowsTyped'
  BY <1>0, <1>1 DEF Begin, RowsTyped, OneRowEach, tables
<1>2. CASE RequestMoves
  <2>1. req.pc # "idle"
    BY <1>2 DEF RequestMoves, QueryMapping, QueryGroup, QueryOwn, QueryGlobal, MatchAdblock, Assess, AskWhitelist, Fail
  <2> QED BY <1>0, <1>2, <2>1, MovesKeep DEF RowsTyped, OneRowEach, tables
<1>3. CASE Reply
  BY <1>0, <1>3 DEF Reply, RowsTyped, OneRowEach, Idle, tables
<1>4. CASE RowEdits
  <2>1. overrides' \subseteq Row /\ OneRowEach'
    <3>1. ASSUME NEW owner \in Owner, NEW n \in Name, NEW a \in {"allow", "block"}, Upsert(owner, n, a)
          PROVE  overrides' \subseteq Row /\ OneRowEach'
      BY <1>0, <3>1 DEF Upsert, RowsTyped, OneRowEach, Row
    <3>2. ASSUME NEW r \in overrides, Delete(r)
          PROVE  overrides' \subseteq Row /\ OneRowEach'
      BY <1>0, <3>2 DEF Delete, RowsTyped, OneRowEach
    <3>3. ASSUME NEW g \in Group, DeleteGroup(g)
          PROVE  overrides' \subseteq Row /\ OneRowEach'
      BY <1>0, <3>3 DEF DeleteGroup, RowsTyped, OneRowEach
    <3> QED BY <1>4, <3>1, <3>2, <3>3 DEF RowEdits
  <2>2. standing' \subseteq overrides'
    BY <1>4, RowEditsKeep DEF Tracked
  <2>3. req'.pc # "idle" => overrides' \subseteq ever'
    BY <1>0, <1>4, RowEditsKeep, RequestCases DEF Tracked
  <2> QED BY <2>1, <2>2, <2>3 DEF RowsTyped
<1>5. CASE OtherEdits
  BY <1>0, <1>5, OtherEditsKeep DEF RowsTyped, OneRowEach
<1> QED BY <1>1, <1>2, <1>3, <1>4, <1>5, NextIs

(* The store's keys, the rows and the request keep their types: in          *)
(* particular a mapping names a group there is, and an override table       *)
(* holds one row of an owner for a name.                                    *)
THEOREM PolicyTypes == Spec => []Typed
<1>1. Typed /\ [Next]_vars => Typed'
  <2>1. CASE Typed /\ Next
    BY <2>1, RequestStep, TablesStep, RowsStep DEF Typed
  <2>2. CASE Typed /\ UNCHANGED vars
    BY <2>2 DEF Typed, RequestTyped, TablesTyped, RowsTyped, OneRowEach, vars, tables, memory, history
  <2> QED BY <2>1, <2>2
<1> QED BY <1>1, TypedInit, PTL DEF Spec

-----------------------------------------------------------------------------
(* The groups that were gone when a request came do not return while it     *)
(* runs, and from the lookup of the group on it is under none of them.      *)
Burial ==
    req.pc # "idle" =>
        /\ buried \subseteq Group \ DOMAIN groups
        /\ req.pc \notin {"mapping", "group"} => req.group \notin buried

(* While nothing changed or failed, a request sees the tables it met, and   *)
(* it is under the group the client is mapped to, with its settings.        *)
Calm ==
    quiet /\ req.pc # "idle" =>
        /\ cidrIndex = cidrRow
        /\ standing = overrides /\ ever = overrides
        /\ req.pc # "mapping" => req.group = Mapped
        /\ req.pc \notin {"mapping", "group", "done"} => req.settings = GroupOf(Mapped)

(* A row that wins over another one at the same request.                    *)
Beats(r, s) ==
    \/ Len(r.domain) > Len(s.domain)
    \/ Len(r.domain) = Len(s.domain) /\ r.owner # "global" /\ s.owner = "global"

Heard == stored /\ (faults = 0 \/ quiet)

(* GetEffectiveOverride: no row that stands lies below where the walk is;   *)
(* past it none applies, and the row it returned wins over all that stand.  *)
Walk ==
    Heard =>
        /\ req.pc \in {"mapping", "group"} => req.at = Len(req.q)
        /\ req.pc \in {"own", "global"} =>
             /\ req.at \in FloorLen(req.q)..Len(req.q)
             /\ \A s \in standing : Applies(s, req.group) =>
                  /\ Len(s.domain) <= req.at
                  /\ req.pc = "global" /\ Len(s.domain) = req.at => s.owner # req.group
        /\ (req.pc \in {"whitelist", "adblock", "assess"} \/ (req.pc = "done" /\ req.layer # "override")) =>
             \A s \in standing : ~Applies(s, req.group)
        /\ req.pc = "done" /\ req.layer = "override" =>
             \A s \in standing : Applies(s, req.group) => s = req.row \/ Beats(req.row, s)

(* What a decision rests on when nothing moved: the row it names, the       *)
(* whitelist, a content rule, or the assessment.                            *)
Grounds ==
    /\ req.pc = "done" /\ req.layer = "override" =>
         /\ stored
         /\ req.row \in ever
         /\ Heard => Applies(req.row, req.group)
         /\ req.policy = req.row.action
    /\ quiet =>
         /\ req.pc \in {"adblock", "assess"} => ~Vouched
         /\ req.pc = "assess" => ~Covered
         /\ req.pc = "done" =>
              CASE req.layer = "override" -> TRUE
                [] req.layer = "whitelist" -> Vouched /\ req.policy = "allow"
                [] req.layer = "content" -> ~Vouched /\ Covered /\ req.policy = "block"
                [] OTHER -> ~Vouched /\ ~Covered /\ req.policy = IF Verdict THEN "block" ELSE "allow"

PolicyInv == Typed /\ Burial /\ Calm /\ Walk /\ Grounds

-----------------------------------------------------------------------------
(* What each step makes of the record of a request.                         *)
LEMMA WalkRecord ==
    ASSUME Typed, req.pc \in Stages
    PROVE  /\ req \in Walking /\ req.q \in Name /\ req.at \in Nat
           /\ req.kind \in {"policy", "analyze"} /\ req.group \in Group \cup {"default"}
           /\ req.pc # "idle" /\ req.pc # "done"
BY RequestCases DEF Typed, Walking, Stages

LEMMA OutcomeRecord ==
    ASSUME NEW layer, NEW policy, NEW row, Outcome(layer, policy, row)
    PROVE  /\ req'.pc = "done" /\ req'.q = req.q /\ req'.kind = req.kind /\ req'.group = req.group
           /\ req'.layer = layer /\ req'.policy = policy /\ req'.row = row
BY DEF Outcome, Decided

LEMMA GotoRecord ==
    ASSUME Typed, req.pc \in Stages, NEW pc \in Stages, Goto(pc)
    PROVE  /\ req'.pc = pc /\ req'.q = req.q /\ req'.kind = req.kind /\ req'.group = req.group
           /\ req'.at = req.at /\ req'.settings = req.settings
BY WalkRecord DEF Goto, Walking

LEMMA MovesFrom ==
    ASSUME Typed, RequestMoves
    PROVE  req.pc \in Stages
BY DEF RequestMoves, QueryMapping, QueryGroup, QueryOwn, QueryGlobal, MatchAdblock, Assess, AskWhitelist, Fail, Stages

(* The lookups of overrides end in a row found or go on.                    *)
LEMMA LookupSteps ==
    ASSUME Typed, QueryOwn \/ QueryGlobal
    PROVE  /\ req.pc \in {"own", "global"}
           /\ \/ /\ QueryOwn /\ Found(req.group) = {} /\ Goto("global")
              \/ /\ QueryGlobal /\ Found("global") = {} /\ req.at > FloorLen(req.q)
                 /\ req'.pc = "own" /\ req'.q = req.q /\ req'.kind = req.kind /\ req'.group = req.group
                 /\ req'.at = req.at - 1 /\ req'.settings = req.settings
              \/ /\ QueryGlobal /\ Found("global") = {} /\ ~(req.at > FloorLen(req.q)) /\ Goto("whitelist")
              \/ /\ \E r \in Found(req.group) : Outcome("override", r.action, r)
                 /\ QueryOwn
              \/ /\ \E r \in Found("global") : Outcome("override", r.action, r)
                 /\ QueryGlobal
<1>1. req.pc \in {"own", "global"} /\ req.pc \in Stages
  BY DEF QueryOwn, QueryGlobal, Stages
<1>2. CASE QueryOwn
  BY <1>1, <1>2 DEF QueryOwn
<1>3. CASE QueryGlobal
  <2>1. req' = [req EXCEPT !.pc = "own", !.at = req.at - 1] =>
          /\ req'.pc = "own" /\ req'.q = req.q /\ req'.kind = req.kind /\ req'.group = req.group
          /\ req'.at = req.at - 1 /\ req'.settings = req.settings
    BY <1>1, WalkRecord DEF Walking
  <2> QED BY <1>1, <1>3, <2>1, Zenon DEF QueryGlobal
<1> QED BY <1>2, <1>3

(* Past the lookup of its group a request stays under it, unless a lookup   *)
(* of the group fails.                                                      *)
LEMMA MovesRecord ==
    ASSUME Typed, RequestMoves
    PROVE  /\ req'.q = req.q /\ req'.kind = req.kind /\ req'.pc \notin {"idle", "mapping"}
           /\ req'.pc = "group" => QueryMapping
           /\ req.pc \notin {"mapping", "group"} => req'.group = req.group
           /\ req.pc \notin {"mapping", "group"} /\ req'.pc # "done" => req'.settings = req.settings
<1>0. req.pc \in Stages /\ req \in Walking
  BY MovesFrom, WalkRecord
<1>1. CASE QueryMapping
  BY <1>0, <1>1 DEF QueryMapping, Walking
<1>2. CASE QueryGroup
  BY <1>0, <1>2 DEF QueryGroup, Walking
<1>3. CASE QueryOwn \/ QueryGlobal
  <2>1. \A r : Outcome("override", r.action, r) =>
          req'.pc = "done" /\ req'.q = req.q /\ req'.kind = req.kind /\ req'.group = req.group
    BY OutcomeRecord
  <2>2. \A pc \in {"global", "whitelist"} : Goto(pc) =>
          /\ req'.pc = pc /\ req'.q = req.q /\ req'.kind = req.kind /\ req'.group = req.group
          /\ req'.settings = req.settings
    BY <1>0, GotoRecord DEF Stages
  <2> QED BY <1>3, <2>1, <2>2, LookupSteps
<1>4. CASE Fail
  BY <1>0, <1>4 DEF Fail, Walking
<1>5. ASSUME NEW cancelled \in BOOLEAN, AskWhitelist(cancelled)
      PROVE  /\ req'.q = req.q /\ req'.kind = req.kind /\ req'.pc \in {"adblock", "done"}
             /\ req'.group = req.group
             /\ req'.pc # "done" => req'.settings = req.settings
  BY <1>0, <1>5 DEF AskWhitelist, Goto, Outcome, Decided, Walking
<1>6. CASE MatchAdblock
  BY <1>0, <1>6 DEF MatchAdblock, Goto, Outcome, Decided, Walking
<1>7. ASSUME NEW r \in Result, Assess(r)
      PROVE  /\ req'.q = req.q /\ req'.kind = req.kind /\ req'.pc = "done" /\ req'.group = req.group
  BY <1>0, <1>7 DEF Assess, Decided, Walking
<1> QED BY <1>1, <1>2, <1>3, <1>4, <1>5, <1>6, <1>7 DEF RequestMoves

-----------------------------------------------------------------------------
LEMMA BurialStep ==
    ASSUME Typed, Burial, Next
    PROVE  Burial'
<1>0. {"default"} \cap Group = {}
  BY PolicyAssumption
<1>1. ASSUME NEW q \in Name, NEW kind \in {"policy", "analyze"}, Begin(q, kind)
      PROVE  Burial'
  <2>1. req'.group = "default"
    BY <1>1 DEF Begin
  <2> QED BY <1>0, <1>1, <2>1 DEF Begin, Burial, tables
<1>2. CASE RequestMoves
  <2>1. req.pc # "idle" /\ buried \subseteq Group \ DOMAIN groups /\ buried' = buried /\ groups' = groups
    BY <1>2, MovesFrom, WalkRecord, MovesKeep DEF Burial, tables
  <2>2. CASE QueryMapping
    BY <2>1, <2>2, MovesFrom, WalkRecord DEF Burial, QueryMapping, Walking
  <2>3. CASE QueryGroup
    <3>1. req \in Walking
      BY <1>2, MovesFrom, WalkRecord
    <3>2. req'.group \in DOMAIN groups \cup {"default"}
      BY <2>3, <3>1 DEF QueryGroup, Walking
    <3> QED BY <1>0, <2>1, <3>2 DEF Burial
  <2>4. CASE Fail /\ req.pc \in {"mapping", "group"}
    <3>1. req \in Walking
      BY <1>2, MovesFrom, WalkRecord
    <3>2. req'.group = "default"
      BY <2>4, <3>1 DEF Fail, Walking
    <3> QED BY <1>0, <2>1, <3>2 DEF Burial
  <2>5. CASE req.pc \notin {"mapping", "group"}
    BY <1>2, <2>1, <2>5, MovesRecord DEF Burial
  <2> QED
    BY <1>2, <2>2, <2>3, <2>4, <2>5
       DEF RequestMoves, QueryOwn, QueryGlobal, MatchAdblock, Assess, AskWhitelist
<1>3. CASE Reply
  BY <1>3 DEF Reply, Burial, Idle
<1>4. CASE RowEdits
  <2>1. DOMAIN groups' \subseteq DOMAIN groups
    BY <1>4 DEF RowEdits, Upsert, Delete, DeleteGroup
  <2> QED BY <1>4, <2>1, RowEditsKeep DEF Burial
<1>5. CASE OtherEdits
  BY <1>5, OtherEditsKeep DEF Burial
<1> QED BY <1>1, <1>2, <1>3, <1>4, <1>5, NextIs

LEMMA CalmStep ==
    ASSUME Typed, Calm, Next
    PROVE  Calm'
<1>0. RequestTyped /\ TablesTyped /\ RowsTyped
  BY DEF Typed
<1>1. ASSUME NEW q \in Name, NEW kind \in {"policy", "analyze"}, Begin(q, kind), quiet'
      PROVE  Calm'
  <2>1. cidrIndex' = cidrRow' /\ standing' = overrides' /\ ever' = overrides' /\ stored' = stored
    BY <1>1, <1>0 DEF Begin, tables, memory, TablesTyped
  <2>2. req'.group = "default" /\ req'.settings = BuiltIn
    BY <1>1 DEF Begin
  <2>3. req'.pc # "mapping" => req'.pc = "whitelist" /\ ~stored
    BY <1>1 DEF Begin
  <2> QED BY <2>1, <2>2, <2>3 DEF Calm, Mapped, GroupOf
<1>2. CASE RequestMoves /\ quiet'
  <2>1. /\ quiet /\ cidrIndex = cidrRow /\ standing = overrides /\ ever = overrides
        /\ cidrIndex' = cidrRow' /\ standing' = overrides' /\ ever' = overrides'
        /\ Mapped' = Mapped /\ GroupOf(Mapped)' = GroupOf(Mapped)
    BY <1>2, MovesFrom, WalkRecord, MovesKeep DEF Calm, tables, memory, Mapped, GroupOf
  <2>2. req \in Walking /\ req.pc # "idle" /\ req.pc # "done"
    BY <1>2, MovesFrom, WalkRecord
  <2>3. CASE QueryMapping
    <3>1. stored
      BY <1>0, <2>3 DEF QueryMapping, RequestTyped
    <3>2. req'.pc = "group" /\ req'.group = Mapped
      BY <2>1, <2>2, <2>3, <3>1 DEF QueryMapping, Walking, Mapped
    <3> QED BY <2>1, <3>2 DEF Calm
  <2>4. CASE QueryGroup
    <3>1. req.group = Mapped
      BY <2>1, <2>2, <2>4 DEF Calm, QueryGroup
    <3>2. Mapped \in DOMAIN groups \cup {"default"}
      BY <1>0 DEF TablesTyped, Mapped
    <3>3. req'.group = Mapped /\ req'.settings = GroupOf(Mapped)
      BY <2>2, <2>4, <3>1, <3>2 DEF QueryGroup, Walking
    <3> QED BY <2>1, <3>3 DEF Calm
  <2>5. CASE Fail
    BY <1>2, <2>5 DEF Fail
  <2>6. CASE req.pc \notin {"mapping", "group"}
    BY <1>2, <2>1, <2>2, <2>6, MovesRecord DEF Calm
  <2> QED
    BY <1>2, <2>3, <2>4, <2>5, <2>6
       DEF RequestMoves, QueryOwn, QueryGlobal, MatchAdblock, Assess, AskWhitelist
<1>3. CASE Reply
  BY <1>3 DEF Reply, Calm, Idle
<1>4. CASE RowEdits \/ OtherEdits
  <2>1. quiet' = (req = Idle) /\ req' = req
    BY <1>4, RowEditsKeep, OtherEditsKeep
  <2> QED BY <1>0, <2>1, RequestCases DEF Calm
<1>5. CASE ~quiet'
  BY <1>5 DEF Calm
<1> QED BY <1>1, <1>2, <1>3, <1>4, <1>5, NextIs

LEMMA AppliesAt ==
    ASSUME NEW r \in Row, NEW q \in Name, Covers(r.domain, q)
    PROVE  /\ Len(r.domain) \in FloorLen(q)..Len(q) /\ Len(r.domain) \in Nat
           /\ r.domain = SubSeq(q, 1, Len(r.domain))
<1>1. r.domain \in Name
  BY DEF Row
<1>2. Len(r.domain) \in Nat
  BY <1>1, NameType
<1> QED BY <1>1, <1>2, CoversIff

LEMMA WalkStepLookups ==
    ASSUME Typed, Walk, QueryOwn \/ QueryGlobal
    PROVE  Walk'
<1>0. RequestMoves
  BY DEF RequestMoves
<1> SUFFICES ASSUME Heard' PROVE Walk'
  BY DEF Walk
<1> DEFINE g == req.group
           q == req.q
           at == req.at
           applies(s) == s.owner \in {g, "global"} /\ Covers(s.domain, q)
<1>1. /\ req.pc \in {"own", "global"} /\ q \in Name /\ at \in Nat /\ g \in Group \cup {"default"}
      /\ req.pc \in Stages /\ g # "global"
  BY LookupSteps, WalkRecord, PolicyAssumption DEF Stages
<1>2. standing' = standing /\ overrides' = overrides /\ stored' = stored /\ (quiet' => quiet)
      /\ (faults' = 0 => faults = 0)
  BY <1>0, MovesKeep DEF tables, memory, Typed, TablesTyped
<1>3. Heard
  BY <1>2 DEF Heard
<1>4. at \in FloorLen(q)..Len(q)
  BY <1>1, <1>3 DEF Walk
<1>5. ASSUME NEW s \in standing, applies(s)
      PROVE  /\ Len(s.domain) <= at
             /\ req.pc = "global" /\ Len(s.domain) = at => s.owner # g
  BY <1>1, <1>3, <1>5 DEF Walk, Applies
<1>6. ASSUME NEW s \in standing, applies(s)
      PROVE  /\ s \in overrides /\ s \in Row
             /\ Len(s.domain) \in Nat /\ Len(s.domain) >= FloorLen(q)
             /\ s.domain = SubSeq(q, 1, Len(s.domain))
  <2>1. s \in overrides /\ s \in Row
    BY DEF Typed, RowsTyped
  <2>2. FloorLen(q) \in Nat /\ Len(q) \in Nat
    BY <1>1, FloorIs, NameType
  <2> QED BY <1>1, <1>6, <2>1, <2>2, AppliesAt
<1>7. ASSUME NEW s \in standing, applies(s), NEW o \in {g, "global"}, Found(o) = {}, s.owner = o
      PROVE  Len(s.domain) # at
  BY <1>6, <1>7 DEF Found, Candidate
<1>8. /\ req'.q = q /\ req'.group = g
      /\ \A s : Applies(s, req.group)' <=> applies(s)
  BY <1>0, <1>1, MovesRecord DEF Applies
<1>9. FloorLen(q) \in Nat /\ Len(q) \in Nat /\ FloorLen(q) >= 1
  BY <1>1, FloorIs, NameType
<1>10. CASE QueryOwn /\ Found(g) = {} /\ Goto("global")
  <2>1. req'.pc = "global" /\ req'.at = at
    BY <1>1, <1>10, GotoRecord DEF Stages
  <2>2. ASSUME NEW s \in standing, applies(s)
        PROVE  Len(s.domain) <= at /\ (Len(s.domain) = at => s.owner # g)
    BY <1>5, <1>7, <1>10, <2>2
  <2> HIDE DEF g, q, at, applies
  <2> QED BY <1>2, <1>4, <1>8, <2>1, <2>2 DEF Walk
<1>11. CASE QueryGlobal /\ Found("global") = {}
  <2>0. req.pc = "global"
    BY <1>11 DEF QueryGlobal
  <2>1. ASSUME NEW s \in standing, applies(s)
        PROVE  Len(s.domain) <= at /\ Len(s.domain) # at
    <3>1. s.owner = "global" => Len(s.domain) # at
      BY <1>7, <1>11, <2>1
    <3>2. s.owner = g => Len(s.domain) # at
      BY <1>5, <2>0, <2>1
    <3> QED BY <1>5, <2>1, <3>1, <3>2
  <2>2. CASE at > FloorLen(q) /\ req'.pc = "own" /\ req'.at = at - 1
    <3>1. req'.at \in FloorLen(q)..Len(q)
      BY <1>1, <1>4, <1>9, <2>2
    <3>2. ASSUME NEW s \in standing, applies(s)
          PROVE  Len(s.domain) <= req'.at
      BY <1>1, <1>6, <2>1, <2>2, <3>2
    <3> HIDE DEF g, q, at, applies
    <3> QED BY <1>2, <1>8, <2>2, <3>1, <3>2 DEF Walk
  <2>3. CASE ~(at > FloorLen(q)) /\ Goto("whitelist")
    <3>1. req'.pc = "whitelist"
      BY <1>1, <2>3, GotoRecord DEF Stages
    <3>2. ASSUME NEW s \in standing, applies(s)
          PROVE  FALSE
      BY <1>1, <1>6, <1>9, <2>1, <2>3, <3>2
    <3> HIDE DEF g, q, at, applies
    <3> QED BY <1>2, <1>8, <3>1, <3>2 DEF Walk
  <2>4. req' = [req EXCEPT !.pc = "own", !.at = req.at - 1] => req'.pc = "own" /\ req'.at = at - 1
    BY <1>1, WalkRecord DEF Walking
  <2> QED BY <1>11, <2>2, <2>3, <2>4, Zenon DEF QueryGlobal
<1>12. ASSUME NEW o \in {g, "global"}, NEW r \in Found(o), Outcome("override", r.action, r),
              (o = g /\ QueryOwn) \/ (o = "global" /\ QueryGlobal)
       PROVE  Walk'
  <2>1. req'.pc = "done" /\ req'.layer = "override" /\ req'.row = r
    BY <1>12, OutcomeRecord
  <2>2. r \in overrides /\ r.owner = o /\ r.domain = SubSeq(q, 1, at)
    BY DEF Found, Candidate
  <2>3. Len(r.domain) = at
    <3>1. at \in 0..Len(q)
      BY <1>1, <1>4, <1>9
    <3> QED BY <1>1, <2>2, <3>1, PrefixLength
  <2>4. ASSUME NEW s \in standing, applies(s), Len(s.domain) = at, s.owner = o
        PROVE  s = r
    <3>1. s \in overrides /\ s.domain = r.domain
      BY <1>6, <2>2, <2>4
    <3> QED BY <2>2, <2>4, <3>1 DEF Typed, RowsTyped, OneRowEach
  <2>5. ASSUME NEW s \in standing, applies(s)
        PROVE  s = r \/ Beats(r, s)
    <3>1. CASE Len(s.domain) < at
      BY <2>3, <3>1 DEF Beats
    <3>2. CASE Len(s.domain) = at /\ s.owner = o
      BY <2>4, <2>5, <3>2
    <3>3. CASE Len(s.domain) = at /\ s.owner # o
      <4>1. o = g /\ s.owner = "global"
        <5>1. QueryGlobal => req.pc = "global"
          BY DEF QueryGlobal
        <5>2. ~QueryGlobal \/ s.owner # g
          BY <1>5, <2>5, <3>3, <5>1
        <5> QED BY <1>12, <2>5, <3>3, <5>2
      <4> QED BY <1>1, <2>2, <2>3, <3>3, <4>1 DEF Beats
    <3> QED BY <1>1, <1>5, <1>6, <2>5, <3>1, <3>2, <3>3
  <2> HIDE DEF g, q, at, applies
  <2> QED BY <1>2, <1>8, <2>1, <2>5 DEF Walk
<1> QED BY <1>10, <1>11, <1>12, LookupSteps

LEMMA WalkStep ==
    ASSUME Typed, Walk, Next
    PROVE  Walk'
<1>0. RequestTyped /\ TablesTyped /\ RowsTyped
  BY DEF Typed
<1>1. ASSUME NEW q \in Name, NEW kind \in {"policy", "analyze"}, Begin(q, kind)
      PROVE  Walk'
  <2>1. stored' = stored /\ req'.q = q /\ req'.at = Len(q) /\ req'.pc \in {"mapping", "whitelist"}
        /\ (stored => req'.pc = "mapping")
    BY <1>1 DEF Begin, memory
  <2> QED BY <2>1 DEF Walk, Heard
<1>2. CASE QueryOwn \/ QueryGlobal
  BY <1>2, WalkStepLookups
<1>3. CASE RequestMoves /\ ~(QueryOwn \/ QueryGlobal) /\ Heard'
  <2>1. standing' = standing /\ Heard /\ ~Fail
    <3>1. ~Fail
      <4>1. Fail => faults' = faults + 1 /\ quiet' = FALSE
        BY DEF Fail
      <4>2. Fail => faults' # 0 /\ ~quiet'
        BY <1>0, <4>1 DEF TablesTyped
      <4> QED BY <1>3, <4>2 DEF Heard
    <3>2. standing' = standing /\ stored' = stored /\ (quiet' => quiet)
      BY <1>3, MovesKeep DEF memory
    <3>3. faults' = 0 => faults = 0
      BY <1>0, <1>3, MovesKeep DEF TablesTyped
    <3> QED BY <1>3, <3>1, <3>2, <3>3 DEF Heard
  <2>2. req \in Walking /\ req.pc \in Stages
    BY <1>3, MovesFrom, WalkRecord
  <2>3. CASE QueryMapping
    <3>1. req'.pc = "group" /\ req'.at = req.at /\ req'.q = req.q /\ req.at = Len(req.q)
      BY <2>1, <2>2, <2>3 DEF QueryMapping, Walking, Walk
    <3> QED BY <3>1 DEF Walk
  <2>4. CASE QueryGroup
    <3>1. req'.pc = "own" /\ req'.at = req.at /\ req'.q = req.q /\ req.at = Len(req.q) /\ req.q \in Name
      BY <2>1, <2>2, <2>4 DEF QueryGroup, Walking, Walk
    <3>2. req'.at \in FloorLen(req'.q)..Len(req'.q)
      <4>1. FloorLen(req.q) \in Nat /\ Len(req.q) \in Nat /\ FloorLen(req.q) <= Len(req.q)
        BY <3>1, FloorIs, NameType
      <4> QED BY <3>1, <4>1
    <3>3. ASSUME NEW s \in standing, Applies(s, req.group)'
          PROVE  Len(s.domain) <= req'.at
      <4>1. s \in Row /\ Covers(s.domain, req.q)
        BY <1>0, <3>1, <3>3 DEF RowsTyped, Applies
      <4>2. Len(s.domain) \in FloorLen(req.q)..Len(req.q) /\ FloorLen(req.q) \in Nat /\ Len(req.q) \in Nat
        BY <3>1, <4>1, AppliesAt, FloorIs, NameType
      <4> QED BY <3>1, <4>2
    <3> QED BY <2>1, <3>1, <3>2, <3>3 DEF Walk
  <2>5. CASE req.pc \in {"whitelist", "adblock", "assess"} /\ req'.pc \in {"adblock", "assess", "done"}
             /\ (req'.pc = "done" => req'.layer # "override")
    <3>1. req'.q = req.q /\ req'.group = req.group
      BY <1>3, <2>5, MovesRecord
    <3>2. \A s \in standing : ~Applies(s, req.group)
      BY <2>1, <2>5 DEF Walk
    <3> QED BY <2>1, <2>5, <3>1, <3>2 DEF Walk, Applies
  <2>6. ASSUME NEW cancelled \in BOOLEAN, AskWhitelist(cancelled)
        PROVE  req.pc = "whitelist" /\ req'.pc \in {"adblock", "done"} /\ (req'.pc = "done" => req'.layer = "whitelist")
    BY <2>2, <2>6 DEF AskWhitelist, Goto, Outcome, Decided, Walking
  <2>7. MatchAdblock => req.pc = "adblock" /\ req'.pc \in {"assess", "done"} /\ (req'.pc = "done" => req'.layer = "content")
    BY <2>2 DEF MatchAdblock, Goto, Outcome, Decided, Walking
  <2>8. ASSUME NEW r \in Result, Assess(r)
        PROVE  req.pc = "assess" /\ req'.pc = "done" /\ req'.layer = "assessment"
    BY <2>2, <2>8 DEF Assess, Decided, Walking
  <2> QED BY <1>3, <2>1, <2>3, <2>4, <2>5, <2>6, <2>7, <2>8 DEF RequestMoves
<1>4. CASE Reply
  BY <1>4 DEF Reply, Walk, Idle
<1>5. CASE (RowEdits \/ OtherEdits) /\ Heard'
  <2>1. req' = req /\ standing' \subseteq standing /\ quiet' = (req = Idle) /\ faults' = faults /\ stored' = stored
    BY <1>5, RowEditsKeep, OtherEditsKeep DEF Tracked, memory
  <2>2. CASE req = Idle
    BY <2>1, <2>2 DEF Walk, Idle
  <2>3. CASE req # Idle
    <3>1. Heard
      BY <1>5, <2>1, <2>3 DEF Heard
    <3> QED BY <2>1, <3>1 DEF Walk, Applies
  <2> QED BY <2>2, <2>3
<1>6. CASE ~Heard'
  BY <1>6 DEF Walk
<1> QED BY <1>1, <1>2, <1>3, <1>4, <1>5, <1>6, NextIs

(* What was found at the candidate applies to the request.                  *)
LEMMA FoundApplies ==
    ASSUME Typed, Walk, Heard, req.pc \in {"own", "global"},
           NEW o \in {req.group, "global"}, NEW r \in Found(o)
    PROVE  Applies(r, req.group)
<1>1. req.q \in Name /\ req.at \in FloorLen(req.q)..Len(req.q)
  BY WalkRecord DEF Walk, Stages
<1>2. r \in Row /\ r.domain \in Name /\ r.owner = o /\ r.domain = SubSeq(req.q, 1, req.at)
  BY DEF Found, Candidate, Typed, RowsTyped, Row
<1>3. FloorLen(req.q) \in Nat /\ Len(req.q) \in Nat
  BY <1>1, FloorIs, NameType
<1>4. Len(r.domain) = req.at
  <2>1. req.at \in 0..Len(req.q)
    BY <1>1, <1>3
  <2> QED BY <1>1, <1>2, <2>1, PrefixLength
<1>5. Covers(r.domain, req.q)
  BY <1>1, <1>2, <1>4, CoversIff
<1> QED BY <1>2, <1>5 DEF Applies

LEMMA AllowedIsVouched ==
    ASSUME Typed, req.q \in Name
    PROVE  IsAllowed(req.q) <=> Vouched
<1>1. whitelist \subseteq Name
  BY DEF Typed, TablesTyped
<1> QED BY <1>1, VisitedIff DEF IsAllowed, Vouched

(* Enforcement is the verdict under the settings of the client's group.     *)
LEMMA EnforcedIsVerdict ==
    ASSUME NEW k \in {"policy", "analyze"}, NEW g, NEW r
    PROVE  (IF k = "policy" THEN Enforced(g, r) ELSE IF r.verdict = "malicious" THEN "block" ELSE "allow")
           = (IF \/ r.verdict = "malicious" /\ (k = "analyze" \/ g.malware)
                 \/ /\ k = "policy"
                    /\ \/ g.phishing /\ r.score >= 40 /\ (r.phishing \/ r.category = "phishing")
                       \/ r.category \in g.categories
              THEN "block" ELSE "allow")
<1>1. CASE k = "policy"
  BY <1>1, Zenon DEF Enforced
<1>2. CASE k = "analyze"
  BY <1>2, Zenon
<1> QED BY <1>1, <1>2

LEMMA GroundsStepMoves ==
    ASSUME Typed, Calm, Walk, Grounds, RequestMoves
    PROVE  Grounds'
<1>0. /\ req \in Walking /\ req.pc \in Stages /\ req.pc # "idle" /\ req.pc # "done" /\ req.q \in Name
      /\ req.kind \in {"policy", "analyze"}
  BY MovesFrom, WalkRecord
<1>1. /\ req'.q = req.q /\ req'.kind = req.kind
      /\ Vouched' = Vouched /\ Covered' = Covered /\ GroupOf(Mapped)' = GroupOf(Mapped)
      /\ ever' = ever /\ stored' = stored /\ (quiet' => quiet)
  <2>1. req'.q = req.q /\ req'.kind = req.kind
    BY MovesRecord
  <2>2. UNCHANGED <<whitelist, adblock, semantics, stored, groups, ipRow, cidrRow, ever>> /\ (quiet' => quiet)
    BY MovesKeep DEF tables, memory
  <2> QED BY <2>1, <2>2 DEF Vouched, Covered, GroupOf, Mapped
<1>2. CASE QueryMapping \/ QueryGroup \/ Fail
  <2>1. req'.pc \in {"group", "own", "whitelist"}
    BY <1>0, <1>2 DEF QueryMapping, QueryGroup, Fail, Walking
  <2> QED BY <2>1 DEF Grounds
<1>3. CASE QueryOwn \/ QueryGlobal
  <2>1. req'.pc \in {"own", "global", "whitelist"} => Grounds'
    BY DEF Grounds
  <2>2. Goto("global") \/ Goto("whitelist") => req'.pc \in {"own", "global", "whitelist"}
    BY <1>0, GotoRecord DEF Stages
  <2>3. ASSUME NEW o \in {req.group, "global"}, NEW r \in Found(o), Outcome("override", r.action, r)
        PROVE  Grounds'
    <3>1. /\ req'.pc = "done" /\ req'.group = req.group /\ req'.layer = "override"
          /\ req'.policy = r.action /\ req'.row = r
      BY <2>3, OutcomeRecord
    <3>2. stored
      BY <1>3 DEF QueryOwn, QueryGlobal, Typed, RequestTyped
    <3>3. r \in ever
      BY <1>0 DEF Found, Typed, RowsTyped
    <3>4. Heard' => Applies(req.row, req.group)'
      <4>1. Heard' => Heard
        BY <1>1, MovesKeep DEF Heard, Typed, TablesTyped
      <4>2. Heard => Applies(r, req.group)
        BY <1>3, FoundApplies DEF QueryOwn, QueryGlobal
      <4> QED BY <1>1, <3>1, <4>1, <4>2 DEF Applies
    <3> QED BY <1>1, <3>1, <3>2, <3>3, <3>4 DEF Grounds
  <2> QED BY <1>3, <2>1, <2>2, <2>3, LookupSteps
<1>4. ASSUME NEW cancelled \in BOOLEAN, AskWhitelist(cancelled)
      PROVE  Grounds'
  <2>1. quiet' => ~cancelled
    BY <1>4 DEF AskWhitelist
  <2>2. CASE IsAllowed(req.q) /\ ~cancelled
    <3>1. req'.pc = "done" /\ req'.layer = "whitelist" /\ req'.policy = "allow"
      BY <1>4, <2>2, OutcomeRecord DEF AskWhitelist
    <3>2. Vouched'
      BY <1>0, <1>1, <2>2, AllowedIsVouched
    <3> QED BY <3>1, <3>2 DEF Grounds
  <2>3. CASE ~(IsAllowed(req.q) /\ ~cancelled)
    <3>1. req'.pc = "adblock"
      BY <1>0, <1>4, <2>3, GotoRecord DEF AskWhitelist, Stages
    <3>2. quiet' => ~Vouched'
      BY <1>0, <1>1, <2>1, <2>3, AllowedIsVouched
    <3> QED BY <3>1, <3>2 DEF Grounds
  <2> QED BY <2>2, <2>3
<1>5. CASE MatchAdblock
  <2>0. quiet' => ~Vouched'
    BY <1>1, <1>5 DEF Grounds, MatchAdblock
  <2>1. CASE Covered
    <3>1. Outcome("content", "block", NoRow)
      BY <1>5, <2>1 DEF MatchAdblock, Covered
    <3>2. req'.pc = "done" /\ req'.layer = "content" /\ req'.policy = "block"
      BY <3>1, OutcomeRecord
    <3> QED BY <1>1, <2>0, <2>1, <3>2 DEF Grounds
  <2>2. CASE ~Covered
    <3>1. Goto("assess")
      BY <1>5, <2>2 DEF MatchAdblock, Covered
    <3>2. req'.pc = "assess"
      BY <1>0, <3>1, GotoRecord DEF Stages
    <3> QED BY <1>1, <2>0, <2>2, <3>2 DEF Grounds
  <2> QED BY <2>1, <2>2
<1>6. ASSUME NEW r \in Result, Assess(r)
      PROVE  Grounds'
  <2>1. quiet' => ~Vouched' /\ ~Covered'
    BY <1>1, <1>6 DEF Grounds, Assess
  <2>2. /\ req'.pc = "done" /\ req'.layer = "assessment" /\ req'.result = r
        /\ req'.policy = IF req.kind = "policy" THEN Enforced(req.settings, r)
                         ELSE IF r.verdict = "malicious" THEN "block" ELSE "allow"
    BY <1>6, Zenon DEF Assess, Decided
  <2>3. quiet' => req.settings = GroupOf(Mapped)'
    BY <1>1, <1>6 DEF Calm, Assess
  <2>4. quiet' => req'.policy = IF Verdict' THEN "block" ELSE "allow"
    <3>1. req'.policy = (IF \/ r.verdict = "malicious" /\ (req.kind = "analyze" \/ req.settings.malware)
                            \/ /\ req.kind = "policy"
                               /\ \/ req.settings.phishing /\ r.score >= 40 /\ (r.phishing \/ r.category = "phishing")
                                  \/ r.category \in req.settings.categories
                         THEN "block" ELSE "allow")
      BY <1>0, <2>2, EnforcedIsVerdict
    <3> QED BY <1>1, <2>2, <2>3, <3>1, Zenon DEF Verdict
  <2> QED BY <2>1, <2>2, <2>4 DEF Grounds
<1> QED BY <1>2, <1>3, <1>4, <1>5, <1>6 DEF RequestMoves

LEMMA GroundsStep ==
    ASSUME Typed, Calm, Walk, Grounds, Next
    PROVE  Grounds'
<1>1. ASSUME NEW q \in Name, NEW kind \in {"policy", "analyze"}, Begin(q, kind)
      PROVE  Grounds'
  <2>1. req'.pc \in {"mapping", "whitelist"}
    BY <1>1 DEF Begin
  <2> QED BY <2>1 DEF Grounds
<1>2. CASE RequestMoves
  BY <1>2, GroundsStepMoves
<1>3. CASE Reply
  BY <1>3 DEF Reply, Grounds, Idle
<1>4. CASE RowEdits \/ OtherEdits
  <2>1. /\ req' = req /\ quiet' = (req = Idle) /\ faults' = faults /\ stored' = stored
        /\ req # Idle => ever \subseteq ever'
    BY <1>4, RowEditsKeep, OtherEditsKeep DEF Tracked, memory
  <2>2. CASE req = Idle
    BY <2>1, <2>2 DEF Grounds, Idle
  <2>3. CASE req # Idle
    <3>1. ~quiet' /\ (Heard' => Heard)
      BY <2>1, <2>3 DEF Heard
    <3> QED BY <2>1, <2>3, <3>1 DEF Grounds, Applies
  <2> QED BY <2>2, <2>3
<1> QED BY <1>1, <1>2, <1>3, <1>4, NextIs

-----------------------------------------------------------------------------
LEMMA PolicyInvInit == Init => PolicyInv
<1> SUFFICES ASSUME Init PROVE PolicyInv
  OBVIOUS
<1>1. req.pc = "idle"
  BY DEF Init, Idle
<1> QED BY <1>1, TypedInit DEF PolicyInv, Burial, Calm, Walk, Grounds

LEMMA PolicyInvStep == PolicyInv /\ [Next]_vars => PolicyInv'
<1>1. CASE PolicyInv /\ Next
  BY <1>1, RequestStep, TablesStep, RowsStep, BurialStep, CalmStep, WalkStep, GroundsStep DEF PolicyInv, Typed
<1>2. CASE PolicyInv /\ UNCHANGED vars
  <2>1. /\ Typed' = Typed /\ Burial' = Burial /\ Calm' = Calm /\ Walk' = Walk
    BY <1>2 DEF Typed, RequestTyped, TablesTyped, RowsTyped, OneRowEach, Burial, Calm, Walk, Heard,
                Applies, Mapped, GroupOf, vars, tables, memory, history
  <2>2. Grounds' = Grounds
    BY <1>2 DEF Grounds, Heard, Applies, Vouched, Covered, Verdict, Mapped, GroupOf, vars, tables, memory, history
  <2> QED BY <1>2, <2>1, <2>2 DEF PolicyInv
<1> QED BY <1>1, <1>2

(* Of two rows that apply to a request not both can win.                    *)
LEMMA BeatsIsStrict ==
    ASSUME NEW r \in Row, NEW s \in Row, Beats(r, s)
    PROVE  Closer(r, s) /\ ~Closer(s, r)
<1>1. Len(r.domain) \in Nat /\ Len(s.domain) \in Nat
  BY NameType DEF Row
<1> QED BY <1>1 DEF Beats, Closer

(* The row a calm walk returned is the one the reference picks.             *)
LEMMA EffectiveIs ==
    ASSUME PolicyInv, quiet, stored, req.pc = "done"
    PROVE  IF req.layer = "override" THEN Effective = {req.row} ELSE Effective = {}
<1>1. Heard /\ req.group = Mapped /\ standing = overrides /\ ever = overrides
  BY DEF PolicyInv, Calm, Heard
<1>2. overrides \subseteq Row
  BY DEF PolicyInv, Typed, RowsTyped
<1>3. CASE req.layer = "override"
  <2>1. req.row \in overrides /\ Applies(req.row, Mapped) /\ req.row \in Row
    BY <1>1, <1>2, <1>3 DEF PolicyInv, Grounds
  <2>2. \A s \in overrides : Applies(s, Mapped) => s = req.row \/ Beats(req.row, s)
    BY <1>1, <1>3 DEF PolicyInv, Walk
  <2>3. req.row \in Effective
    BY <1>2, <2>1, <2>2, BeatsIsStrict DEF Effective
  <2>4. ASSUME NEW r \in Effective PROVE r = req.row
    BY <1>2, <2>1, <2>2, BeatsIsStrict DEF Effective
  <2> QED BY <1>3, <2>3, <2>4
<1>4. CASE req.layer # "override"
  <2>1. \A s \in overrides : ~Applies(s, Mapped)
    BY <1>1, <1>4 DEF PolicyInv, Walk
  <2> QED BY <1>4, <2>1 DEF Effective
<1> QED BY <1>3, <1>4

LEMMA CalmIsDocumented ==
    ASSUME PolicyInv, quiet, req.pc = "done"
    PROVE  req.policy = Documented
<1>1. CASE req.layer = "override"
  <2>1. stored /\ req.policy = req.row.action
    BY <1>1 DEF PolicyInv, Grounds
  <2>2. Effective = {req.row}
    BY <1>1, <2>1, EffectiveIs
  <2>3. (CHOOSE r \in Effective : TRUE) = req.row
    BY <2>2
  <2> QED BY <2>1, <2>2, <2>3 DEF Documented
<1>2. CASE req.layer # "override"
  <2>1. ~stored \/ Effective = {}
    BY <1>2, EffectiveIs
  <2>2. req.layer \in {"whitelist", "content", "assessment"}
    BY <1>2, RequestCases DEF PolicyInv, Typed, Decision
  <2>3. \/ Vouched /\ req.policy = "allow"
        \/ ~Vouched /\ req.policy = IF Covered \/ Verdict THEN "block" ELSE "allow"
    BY <2>2 DEF PolicyInv, Grounds
  <2>4. Documented = IF Vouched THEN "allow" ELSE IF Covered \/ Verdict THEN "block" ELSE "allow"
    <3>1. CASE Vouched
      BY <2>1, <3>1 DEF Documented
    <3>2. CASE ~Vouched
      BY <2>1, <3>2 DEF Documented
    <3> QED BY <3>1, <3>2
  <2> QED BY <2>3, <2>4
<1> QED BY <1>1, <1>2

LEMMA StandingDecides ==
    ASSUME PolicyInv
    PROVE  StandingRowDecides
<1> SUFFICES ASSUME req.pc = "done", stored, faults = 0, NEW r \in standing, Applies(r, req.group),
                    \A s \in ever : Applies(s, req.group) => s = r \/ Closer(r, s)
             PROVE  req.layer = "override" /\ req.row = r
  BY DEF StandingRowDecides
<1>1. Heard /\ r \in Row
  BY DEF Heard, PolicyInv, Typed, RowsTyped
<1>2. req.layer = "override"
  BY <1>1 DEF PolicyInv, Walk
<1>3. r = req.row \/ Beats(req.row, r)
  BY <1>1, <1>2 DEF PolicyInv, Walk
<1>4. req.row \in ever /\ Applies(req.row, req.group) /\ req.row \in Row \cup {NoRow}
  BY <1>1, <1>2, RequestCases DEF PolicyInv, Grounds, Typed, Decision
<1>5. req.row # NoRow
  <2>1. req.row.owner \in Group \cup {"default", "global"}
    BY <1>1, <1>4, RequestCases DEF PolicyInv, Typed, Decision, Applies
  <2> QED BY <2>1, PolicyAssumption DEF NoRow
<1> QED BY <1>1, <1>2, <1>3, <1>4, <1>5, BeatsIsStrict

(* Policy, AnalyzeWithOptions and GetEffectiveOverride, for any names,      *)
(* public suffixes, groups, settings and assessments, and any number of     *)
(* edits and failed lookups: a request that nothing disturbs is decided as  *)
(* the documented order says; under edits the closest row that stood        *)
(* throughout decides; a group that was gone when the request came decides  *)
(* nothing.                                                                 *)
THEOREM PrecedenceIsSound == Spec => []PolicySound
<1>1. PolicyInv => PolicySound
  <2>1. PolicyInv => PrecedenceHonoured
    BY CalmIsDocumented DEF PrecedenceHonoured
  <2>2. PolicyInv => StandingRowDecides
    BY StandingDecides
  <2>3. PolicyInv => BuriedGroupsRest
    BY DEF PolicyInv, Burial, BuriedGroupsRest
  <2> QED BY <2>1, <2>2, <2>3 DEF PolicySound
<1> QED BY <1>1, PolicyInvInit, PolicyInvStep, PTL DEF Spec
=============================================================================
