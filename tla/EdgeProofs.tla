------------------------------ MODULE EdgeProofs ------------------------------
(***************************************************************************)
(* What stands between a process and the world, for any number of clients, *)
(* names and processes: the age of the brand list evaluations go by, where *)
(* outbound requests go, the table of the rate limiter, who a client is,   *)
(* and what public warnings block.                                         *)
(***************************************************************************)
EXTENDS EdgeParts, Integers, Sequences, SequencesExt, Lists, TLAPS, NaturalsInduction,
        WellFoundedInduction, FiniteSetTheorems, SequenceTheorems

-----------------------------------------------------------------------------
(* The brand list.  Copies carry their age in their expiry: a copy in Redis *)
(* expires one lifetime after the list was what the rows say, one in memory *)
(* two, a cached result its own lifetime later.  No time passes during an   *)
(* evaluation, which carries what it read to where it stores it.  One that  *)
(* could not read the rows has the shipped list, of any age, and carries it *)
(* to the cached result only.                                               *)

List == [Brand -> Nat]
Copy == [list : List, until : Int]
Result == [list : List, blind : BOOLEAN, until : Int, revision : Int]
Task ==
    {B!Idle} \cup [at : {"entry", "list", "redis", "db"}, revision : Int]
           \cup [at : {"fill", "share", "store"}, revision : Int, list : List, blind : BOOLEAN]

BrandTypes ==
    /\ rows \in List /\ edits \in Nat /\ brandClock \in Nat /\ revision \in Nat
    /\ snapshot \in [Process -> SUBSET Copy]
    /\ shared \subseteq Copy /\ entry \subseteq Result
    /\ task \in [Process -> Task]

(* History: the rows have the list they have now, every other list had its  *)
(* day before.                                                              *)
Dated ==
    /\ asOf \in [DOMAIN asOf -> Nat] /\ DOMAIN asOf \subseteq List
    /\ \A l \in DOMAIN asOf : asOf[l] <= brandClock
    /\ B!Listed(rows) \in DOMAIN asOf /\ asOf[B!Listed(rows)] = brandClock
    /\ B!Defaults \in DOMAIN asOf

(* A copy that is still there is of a list replaced at most span before.    *)
Fresh(c, span) ==
    /\ c.list \in DOMAIN asOf
    /\ brandClock <= c.until /\ c.until <= asOf[c.list] + span

Copies ==
    /\ \A c \in shared : Fresh(c, TTL)
    /\ \A p \in Process : \A c \in snapshot[p] : Fresh(c, 2 * TTL)
    /\ \A e \in entry :
          /\ brandClock <= e.until /\ e.until <= brandClock + EntryTTL
          /\ ~e.blind => Fresh(e, 2 * TTL + EntryTTL)

(* An evaluation that fills the copies read the rows since the clock moved. *)
Carried(t) ==
    /\ t.at \in {"fill", "share"} => ~t.blind /\ t.list \in DOMAIN asOf /\ asOf[t.list] = brandClock
    /\ t.at = "store" /\ ~t.blind => t.list \in DOMAIN asOf /\ brandClock <= asOf[t.list] + 2 * TTL

BrandInv ==
    /\ BrandTypes /\ Dated /\ Copies
    /\ \A p \in Process : Carried(task[p])
    /\ B!ListBounded

-----------------------------------------------------------------------------
LEMMA DefaultsList == B!Defaults \in List /\ \A r \in List : B!Listed(r) \in List
BY DEF B!Defaults, B!Listed, List, B!Shipped, B!Absent

LEMMA InitBrands == ASSUME B!LifetimeAssumption, B!Init PROVE BrandInv
<1>1. B!Defaults \in List /\ B!Listed(B!Defaults) = B!Defaults
  BY DefaultsList DEF B!Listed
<1>2. \A p \in Process : task[p] = B!Idle
  BY DEF B!Init
<1>3. BrandTypes
  BY <1>1 DEF B!Init, BrandTypes, Task
<1>4. Dated
  BY <1>1 DEF B!Init, Dated
<1>5. Copies
  BY DEF B!Init, Copies
<1> QED BY <1>2, <1>3, <1>4, <1>5 DEF B!Init, BrandInv, Carried, B!Idle, B!Undecided, B!ListBounded,
                                       B!LifetimeAssumption

(* A list is touched: dates only move towards now.                          *)
LEMMA Touched ==
    ASSUME brandClock \in Nat, NEW f, f \in [DOMAIN f -> Nat], DOMAIN f \subseteq List,
           \A l \in DOMAIN f : f[l] <= brandClock, NEW t \in List
    PROVE  /\ B!Touch(f, t) \in [DOMAIN B!Touch(f, t) -> Nat]
           /\ DOMAIN B!Touch(f, t) = DOMAIN f \cup {t}
           /\ \A l \in DOMAIN B!Touch(f, t) : B!Touch(f, t)[l] <= brandClock
           /\ B!Touch(f, t)[t] = brandClock
           /\ \A l \in DOMAIN f : f[l] <= B!Touch(f, t)[l]
           /\ \A l \in DOMAIN f : f[l] = brandClock => B!Touch(f, t)[l] = brandClock
<1> DEFINE g == B!Touch(f, t)
<1>1. DOMAIN g = DOMAIN f \cup {t} /\ \A l \in DOMAIN f \cup {t} : g[l] = IF l = t THEN brandClock ELSE f[l]
  BY DEF B!Touch
<1>2. g = [l \in DOMAIN g |-> g[l]]
  BY DEF B!Touch
<1> HIDE DEF g
<1>3. \A l \in DOMAIN g : g[l] \in Nat
  BY <1>1
<1>4. g \in [DOMAIN g -> Nat]
  BY <1>2, <1>3
<1>5. /\ \A l \in DOMAIN g : g[l] <= brandClock
      /\ g[t] = brandClock
      /\ \A l \in DOMAIN f : f[l] <= g[l]
      /\ \A l \in DOMAIN f : f[l] = brandClock => g[l] = brandClock
  BY <1>1
<1> QED BY <1>1, <1>4, <1>5 DEF g

(* What is fresh stays so while the clock stands and dates move forward.    *)
Onward ==
    /\ brandClock' = brandClock
    /\ asOf' \in [DOMAIN asOf' -> Nat]
    /\ DOMAIN asOf \subseteq DOMAIN asOf'
    /\ \A l \in DOMAIN asOf : asOf[l] <= asOf'[l] /\ (asOf[l] = brandClock => asOf'[l] = brandClock)

LEMMA FreshOnward ==
    ASSUME Dated, Onward, brandClock \in Nat,
           NEW c, c.until \in Int, NEW span \in Nat, Fresh(c, span)
    PROVE  /\ c.list \in DOMAIN asOf'
           /\ brandClock' <= c.until /\ c.until <= asOf'[c.list] + span
BY DEF Dated, Onward, Fresh

LEMMA CarriedOnward ==
    ASSUME B!LifetimeAssumption, Dated, Onward, brandClock \in Nat, NEW t, Carried(t)
    PROVE  /\ t.at \in {"fill", "share"} => ~t.blind /\ t.list \in DOMAIN asOf' /\ asOf'[t.list] = brandClock'
           /\ t.at = "store" /\ ~t.blind => t.list \in DOMAIN asOf' /\ brandClock' <= asOf'[t.list] + 2 * TTL
BY DEF Dated, Onward, Carried, B!LifetimeAssumption

(* Steps of an evaluation and of an edit that leave the rows, the clock and *)
(* the dates: what each copies is as fresh as what it copies from.          *)
LEMMA ReadBrands ==
    ASSUME B!LifetimeAssumption, BrandInv, NEW p \in Process,
           B!ReadRevision(p) \/ B!FromMemory(p) \/ B!FromRows(p) \/ B!RowsFail(p)
    PROVE  BrandInv'
<1>1. UNCHANGED <<rows, snapshot, shared, revision, entry, served, asOf, brandClock, edits>>
  BY DEF B!ReadRevision, B!FromMemory, B!FromRows, B!RowsFail
<1>2. task[p] \in Task /\ \A q \in Process : q # p => task'[q] = task[q]
  BY DEF B!ReadRevision, B!FromMemory, B!FromRows, B!RowsFail, B!Listing, B!Holding, BrandInv, BrandTypes
<1>3. task'[p] \in Task /\ Carried(task'[p])
  <2>1. CASE B!ReadRevision(p)
    BY <2>1 DEF B!ReadRevision, BrandInv, BrandTypes, Task, Carried
  <2>2. CASE B!FromMemory(p)
    <3>1. task[p] \in [at : {"entry", "list", "redis", "db"}, revision : Int]
      BY <1>2, <2>2 DEF B!FromMemory, Task, B!Idle
    <3>2. CASE \E c \in snapshot[p] : B!Listing(p, c.list)
      <4>1. PICK c \in snapshot[p] : B!Listing(p, c.list) BY <3>2
      <4>2. c.list \in List /\ Fresh(c, 2 * TTL)
        BY DEF BrandInv, BrandTypes, Copies, Copy
      <4>3. task'[p] = [at |-> "store", revision |-> task[p].revision, list |-> c.list, blind |-> FALSE]
        BY <4>1 DEF B!Listing, B!Holding, BrandInv, BrandTypes
      <4>4. brandClock <= asOf[c.list] + 2 * TTL
        BY <4>2 DEF Fresh, BrandInv, BrandTypes, Dated, Copy, B!LifetimeAssumption
      <4> QED BY <3>1, <4>2, <4>3, <4>4 DEF Task, Carried, Fresh
    <3>3. CASE task' = [task EXCEPT ![p].at = "redis"]
      BY <3>1, <3>3 DEF Task, Carried, BrandInv, BrandTypes
    <3> QED BY <2>2, <3>2, <3>3 DEF B!FromMemory
  <2>3. CASE B!FromRows(p)
    <3>1. task[p] \in [at : {"entry", "list", "redis", "db"}, revision : Int]
      BY <1>2, <2>3 DEF B!FromRows, Task, B!Idle
    <3>2. B!Listed(rows) \in List
      BY DefaultsList DEF BrandInv, BrandTypes
    <3>3. task'[p] = [at |-> "fill", revision |-> task[p].revision, list |-> B!Listed(rows), blind |-> FALSE]
      BY <2>3 DEF B!FromRows, B!Holding, BrandInv, BrandTypes
    <3> QED BY <3>1, <3>2, <3>3 DEF Task, Carried, BrandInv, Dated
  <2>4. CASE B!RowsFail(p)
    <3>1. task[p] \in [at : {"entry", "list", "redis", "db"}, revision : Int]
      BY <1>2, <2>4 DEF B!RowsFail, Task, B!Idle
    <3>2. task'[p] = [at |-> "store", revision |-> task[p].revision, list |-> B!Defaults, blind |-> TRUE]
      BY <2>4 DEF B!RowsFail, B!Holding, BrandInv, BrandTypes
    <3> QED BY <3>1, <3>2, DefaultsList DEF Task, Carried
  <2> QED BY <2>1, <2>2, <2>3, <2>4
<1>4. task' \in [Process -> Task] /\ \A q \in Process : Carried(task'[q])
  <2>1. task' = [q \in Process |-> task'[q]]
    BY DEF B!ReadRevision, B!FromMemory, B!FromRows, B!RowsFail, B!Listing, B!Holding, BrandInv, BrandTypes
  <2> QED BY <1>2, <1>3, <2>1 DEF BrandInv, BrandTypes
<1> QED BY <1>1, <1>4 DEF BrandInv, BrandTypes, Dated, Copies, Fresh, Carried, B!ListBounded

LEMMA RedisBrands ==
    ASSUME B!LifetimeAssumption, BrandInv, NEW p \in Process, B!FromRedis(p)
    PROVE  BrandInv'
<1>1. UNCHANGED <<rows, shared, revision, entry, edit, served, asOf, brandClock, edits>>
  BY DEF B!FromRedis
<1>2. task[p] \in [at : {"entry", "list", "redis", "db"}, revision : Int]
  BY DEF B!FromRedis, BrandInv, BrandTypes, Task, B!Idle
<1>3. CASE \E c \in shared : /\ snapshot' = [snapshot EXCEPT ![p] = B!Renewed(c)]
                             /\ B!Listing(p, c.list)
  <2>1. PICK c \in shared : snapshot' = [snapshot EXCEPT ![p] = B!Renewed(c)] /\ B!Listing(p, c.list)
    BY <1>3
  <2>2. c.list \in List /\ c.until \in Int /\ Fresh(c, TTL)
    BY DEF BrandInv, BrandTypes, Copies, Copy
  <2>3. /\ brandClock \in Nat /\ TTL \in Nat /\ EntryTTL \in Nat
        /\ c.list \in DOMAIN asOf /\ asOf[c.list] \in Nat /\ brandClock <= asOf[c.list] + TTL
    BY <2>2 DEF Fresh, BrandInv, BrandTypes, Dated, B!LifetimeAssumption
  <2>4. B!Renewed(c) \subseteq Copy /\ \A x \in B!Renewed(c) : Fresh(x, 2 * TTL)
    BY <2>2, <2>3 DEF B!Renewed, Copy, Fresh
  <2> DEFINE t == [at |-> "store", revision |-> task[p].revision, list |-> c.list, blind |-> FALSE]
  <2>5. task' = [task EXCEPT ![p] = t]
    BY <2>1 DEF B!Listing, B!Holding
  <2>6. t \in Task /\ Carried(t)
    BY <1>2, <2>2, <2>3 DEF Task, Carried
  <2>7. /\ snapshot' \in [Process -> SUBSET Copy]
        /\ \A q \in Process : \A x \in snapshot'[q] : Fresh(x, 2 * TTL)
    BY <2>1, <2>4 DEF BrandInv, BrandTypes, Copies
  <2>8. task' \in [Process -> Task] /\ \A q \in Process : Carried(task'[q])
    BY <2>5, <2>6 DEF BrandInv, BrandTypes
  <2> QED BY <1>1, <2>7, <2>8 DEF BrandInv, BrandTypes, Dated, Copies, Fresh, Carried, B!ListBounded
<1>4. CASE task' = [task EXCEPT ![p].at = "db"] /\ UNCHANGED snapshot
  <2>1. task' \in [Process -> Task] /\ \A q \in Process : Carried(task'[q])
    BY <1>2, <1>4 DEF BrandInv, BrandTypes, Task, Carried
  <2> QED BY <1>1, <1>4, <2>1 DEF BrandInv, BrandTypes, Dated, Copies, Fresh, Carried, B!ListBounded
<1> QED BY <1>3, <1>4 DEF B!FromRedis

LEMMA FillBrands ==
    ASSUME B!LifetimeAssumption, BrandInv, NEW p \in Process, B!FillMemory(p) \/ B!FillRedis(p)
    PROVE  BrandInv'
<1> DEFINE t == task[p]
<1>1. /\ t \in [at : {"fill", "share", "store"}, revision : Int, list : List, blind : BOOLEAN]
      /\ ~t.blind /\ t.list \in DOMAIN asOf /\ asOf[t.list] = brandClock
      /\ brandClock \in Nat /\ TTL \in Nat /\ EntryTTL \in Nat
  BY DEF B!FillMemory, B!FillRedis, BrandInv, BrandTypes, Task, B!Idle, Carried, B!LifetimeAssumption
<1>2. UNCHANGED <<rows, revision, entry, served, asOf, brandClock, edits>>
  BY DEF B!FillMemory, B!FillRedis
<1>3. B!Renewed(t) \subseteq Copy /\ \A x \in B!Renewed(t) : Fresh(x, TTL) /\ Fresh(x, 2 * TTL)
  BY <1>1 DEF B!Renewed, Copy, Fresh
<1>4. task' \in [Process -> Task] /\ \A q \in Process : Carried(task'[q])
  <2>1. PICK at \in {"share", "store"} : task' = [task EXCEPT ![p] = [t EXCEPT !.at = at]]
    BY DEF B!FillMemory, B!FillRedis
  <2>2. [t EXCEPT !.at = at] \in Task /\ Carried([t EXCEPT !.at = at])
    BY <1>1 DEF Task, Carried
  <2> QED BY <2>1, <2>2 DEF BrandInv, BrandTypes
<1> HIDE DEF t
<1>5. /\ snapshot' = snapshot \/ snapshot' = [snapshot EXCEPT ![p] = B!Renewed(t)]
      /\ shared' = shared \/ shared' = B!Renewed(t)
  BY DEF B!FillMemory, B!FillRedis, t
<1>6. /\ snapshot' \in [Process -> SUBSET Copy] /\ shared' \subseteq Copy
      /\ \A q \in Process : \A x \in snapshot'[q] : Fresh(x, 2 * TTL)
      /\ \A x \in shared' : Fresh(x, TTL)
  BY <1>3, <1>5 DEF BrandInv, BrandTypes, Copies
<1> QED BY <1>2, <1>4, <1>6 DEF BrandInv, BrandTypes, Dated, Copies, Fresh, Carried, B!ListBounded

(* The decisions: what an evaluation rests on is as old as the copy it has. *)
LEMMA DecideBrands ==
    ASSUME B!LifetimeAssumption, BrandInv, NEW p \in Process, B!ReadEntry(p) \/ B!Store(p)
    PROVE  BrandInv'
<1>1. UNCHANGED <<rows, snapshot, shared, revision, asOf, brandClock, edits>>
  BY DEF B!ReadEntry, B!Store
<1>2. brandClock \in Nat /\ TTL \in Nat /\ EntryTTL \in Nat /\ \A l \in DOMAIN asOf : asOf[l] \in Nat
  BY DEF BrandInv, BrandTypes, Dated, B!LifetimeAssumption
<1>3. CASE B!ReadEntry(p)
  <2>1. task[p] \in [at : {"entry", "list", "redis", "db"}, revision : Int]
    BY <1>3 DEF B!ReadEntry, BrandInv, BrandTypes, Task, B!Idle
  <2>2. CASE task' = [task EXCEPT ![p].at = "list"] /\ UNCHANGED served
    <3>1. task' \in [Process -> Task] /\ \A q \in Process : Carried(task'[q])
      BY <2>1, <2>2 DEF BrandInv, BrandTypes, Task, Carried
    <3>2. UNCHANGED entry
      BY <1>3 DEF B!ReadEntry
    <3> QED BY <1>1, <2>2, <3>1, <3>2
            DEF BrandInv, BrandTypes, Dated, Copies, Fresh, Carried, B!ListBounded
  <2>3. CASE /\ \E e \in entry : B!Decide("hit", e, brandClock - (e.until - EntryTTL))
             /\ task' = [task EXCEPT ![p] = B!Idle]
    <3>1. PICK e \in entry : B!Decide("hit", e, brandClock - (e.until - EntryTTL))
      BY <2>3
    <3>2. /\ e.until \in Int /\ e.blind \in BOOLEAN /\ brandClock <= e.until
          /\ ~e.blind => Fresh(e, 2 * TTL + EntryTTL)
      BY DEF BrandInv, BrandTypes, Copies, Result
    <3>3. /\ brandClock - (e.until - EntryTTL) <= EntryTTL
          /\ ~e.blind => brandClock - asOf[e.list] <= 2 * TTL + EntryTTL
      BY <1>2, <3>2 DEF Fresh
    <3>4. B!ListBounded'
      BY <1>2, <3>1, <3>3 DEF B!Decide, B!ListBounded
    <3>5. task' \in [Process -> Task] /\ \A q \in Process : Carried(task'[q])
      BY <2>3 DEF BrandInv, BrandTypes, Task, Carried, B!Idle
    <3>6. UNCHANGED entry
      BY <1>3 DEF B!ReadEntry
    <3> QED BY <1>1, <3>4, <3>5, <3>6 DEF BrandInv, BrandTypes, Dated, Copies, Fresh, Carried
  <2> QED BY <1>3, <2>2, <2>3 DEF B!ReadEntry
<1>4. CASE B!Store(p)
  <2> DEFINE t == task[p]
  <2>1. /\ t \in [at : {"fill", "share", "store"}, revision : Int, list : List, blind : BOOLEAN]
        /\ ~t.blind => t.list \in DOMAIN asOf /\ brandClock <= asOf[t.list] + 2 * TTL
    BY <1>4 DEF B!Store, BrandInv, BrandTypes, Task, B!Idle, Carried
  <2>2. B!Decide("fresh", t, 0) /\ task' = [task EXCEPT ![p] = B!Idle]
    BY <1>4 DEF B!Store
  <2>3. B!ListBounded'
    BY <1>2, <2>1, <2>2 DEF B!Decide, B!ListBounded
  <2>4. task' \in [Process -> Task] /\ \A q \in Process : Carried(task'[q])
    BY <2>2 DEF BrandInv, BrandTypes, Task, Carried, B!Idle
  <2> DEFINE stored == [list |-> t.list, blind |-> t.blind, until |-> brandClock + EntryTTL,
                        revision |-> IF t.revision = -1 THEN 0 ELSE t.revision]
  <2>5. /\ stored \in Result /\ brandClock <= stored.until /\ stored.until <= brandClock + EntryTTL
        /\ ~stored.blind => Fresh(stored, 2 * TTL + EntryTTL)
    BY <1>2, <2>1 DEF Result, Fresh
  <2>6. entry' = entry \/ entry' = {stored}
    BY <1>4 DEF B!Store
  <2> HIDE DEF t, stored
  <2>7. /\ entry' \subseteq Result
        /\ \A e \in entry' : /\ brandClock <= e.until /\ e.until <= brandClock + EntryTTL
                             /\ ~e.blind => Fresh(e, 2 * TTL + EntryTTL)
    BY <2>5, <2>6 DEF BrandInv, BrandTypes, Copies
  <2> QED BY <1>1, <2>3, <2>4, <2>7 DEF BrandInv, BrandTypes, Dated, Copies, Fresh, Carried
<1> QED BY <1>3, <1>4

LEMMA DropBrands ==
    ASSUME BrandInv, B!DropMemory \/ B!DropRedis \/ B!Bump \/ UNCHANGED B!vars
    PROVE  BrandInv'
<1>1. UNCHANGED <<rows, entry, served, asOf, brandClock, edits, task>>
  BY DEF B!DropMemory, B!DropRedis, B!Bump, B!vars
<1>2. /\ revision' \in Nat
      /\ snapshot' \in [Process -> SUBSET Copy] /\ shared' \subseteq Copy
      /\ shared' \subseteq shared /\ \A q \in Process : snapshot'[q] \subseteq snapshot[q]
  BY DEF B!DropMemory, B!DropRedis, B!Bump, B!vars, BrandInv, BrandTypes
<1> QED BY <1>1, <1>2 DEF BrandInv, BrandTypes, Dated, Copies, Fresh, Carried, B!ListBounded

(* Steps that date a list leave every copy as fresh as it was.              *)
LEMMA CopiesOnward ==
    ASSUME B!LifetimeAssumption, BrandInv, Onward,
           UNCHANGED <<shared, entry, served>>,
           \A p \in Process : snapshot'[p] \subseteq snapshot[p]
    PROVE  Copies' /\ B!ListBounded'
<1>1. brandClock \in Nat /\ TTL \in Nat /\ 2 * TTL \in Nat /\ 2 * TTL + EntryTTL \in Nat /\ Dated
  BY DEF BrandInv, BrandTypes, B!LifetimeAssumption
<1>2. \A c \in shared : Fresh(c, TTL)'
  <2> TAKE c \in shared
  <2>1. c.until \in Int /\ Fresh(c, TTL) BY DEF BrandInv, BrandTypes, Copies, Copy
  <2> QED BY <1>1, <2>1, FreshOnward DEF Fresh
<1>3. \A p \in Process : \A c \in snapshot[p] : Fresh(c, 2 * TTL)'
  <2> TAKE p \in Process
  <2> TAKE c \in snapshot[p]
  <2>1. c.until \in Int /\ Fresh(c, 2 * TTL) BY DEF BrandInv, BrandTypes, Copies, Copy
  <2> QED BY <1>1, <2>1, FreshOnward DEF Fresh
<1>4. \A e \in entry : ~e.blind => Fresh(e, 2 * TTL + EntryTTL)'
  <2> SUFFICES ASSUME NEW e \in entry, ~e.blind PROVE Fresh(e, 2 * TTL + EntryTTL)'
    OBVIOUS
  <2>1. e.until \in Int /\ Fresh(e, 2 * TTL + EntryTTL) BY DEF BrandInv, BrandTypes, Copies, Result
  <2> QED BY <1>1, <2>1, FreshOnward DEF Fresh
<1> QED BY <1>2, <1>3, <1>4 DEF Copies, BrandInv, B!ListBounded, Onward

(* Edits and restarts: the list replaced and the one that replaces it are   *)
(* both of this moment.                                                     *)
LEMMA ListedBrands ==
    ASSUME B!LifetimeAssumption, BrandInv, rows' \in List, edits' \in Nat,
           asOf' = B!Touch(B!Touch(asOf, B!Listed(rows)), B!Listed(rows')),
           snapshot' \in [Process -> SUBSET Copy],
           \A p \in Process : snapshot'[p] \subseteq snapshot[p],
           UNCHANGED <<shared, revision, entry, task, served, brandClock>>
    PROVE  BrandInv'
<1> DEFINE old == B!Listed(rows)
           new == B!Listed(rows')
           touched == B!Touch(asOf, old)
<1>1. Dated /\ brandClock \in Nat /\ old \in List /\ new \in List
  BY DefaultsList DEF BrandInv, BrandTypes
<1> HIDE DEF old, new
<1>2. /\ touched \in [DOMAIN touched -> Nat] /\ DOMAIN touched = DOMAIN asOf \cup {old}
      /\ \A l \in DOMAIN touched : touched[l] <= brandClock
      /\ \A l \in DOMAIN asOf : asOf[l] <= touched[l] /\ (asOf[l] = brandClock => touched[l] = brandClock)
  BY <1>1, Touched DEF Dated
<1> HIDE DEF touched
<1>3. asOf' = B!Touch(touched, new)
  BY DEF touched, old, new
<1>4. /\ asOf' \in [DOMAIN asOf' -> Nat] /\ DOMAIN asOf' = DOMAIN touched \cup {new}
      /\ \A l \in DOMAIN asOf' : asOf'[l] <= brandClock
      /\ asOf'[new] = brandClock
      /\ \A l \in DOMAIN touched : touched[l] <= asOf'[l] /\ (touched[l] = brandClock => asOf'[l] = brandClock)
  <2>1. DOMAIN touched \subseteq List
    BY <1>1, <1>2 DEF Dated
  <2>2. touched \in [DOMAIN touched -> Nat] /\ \A l \in DOMAIN touched : touched[l] <= brandClock
    BY <1>2
  <2>3. brandClock \in Nat /\ new \in List
    BY <1>1
  <2>4. /\ B!Touch(touched, new) \in [DOMAIN B!Touch(touched, new) -> Nat]
        /\ DOMAIN B!Touch(touched, new) = DOMAIN touched \cup {new}
        /\ \A l \in DOMAIN B!Touch(touched, new) : B!Touch(touched, new)[l] <= brandClock
        /\ B!Touch(touched, new)[new] = brandClock
        /\ \A l \in DOMAIN touched : touched[l] <= B!Touch(touched, new)[l]
        /\ \A l \in DOMAIN touched : touched[l] = brandClock => B!Touch(touched, new)[l] = brandClock
    BY <2>1, <2>2, <2>3, Touched
  <2> QED BY <1>3, <2>4
<1>5. Onward
  <2>1. \A l \in DOMAIN asOf : asOf[l] \in Nat /\ touched[l] \in Nat /\ asOf'[l] \in Nat
    BY <1>1, <1>2, <1>4 DEF Dated
  <2> QED BY <1>2, <1>4, <2>1 DEF Onward
<1>6. Dated'
  BY <1>1, <1>2, <1>4 DEF Dated, new
<1>7. Copies' /\ B!ListBounded'
  BY <1>5, CopiesOnward
<1>8. \A q \in Process : Carried(task[q])'
  <2> TAKE q \in Process
  <2>1. Carried(task[q]) BY DEF BrandInv
  <2> QED BY <1>1, <1>5, <2>1, CarriedOnward DEF Carried
<1> QED BY <1>6, <1>7, <1>8 DEF BrandInv, BrandTypes

LEMMA EditBrands == ASSUME B!LifetimeAssumption, BrandInv, B!Edit PROVE BrandInv'
<1>1. rows' \in List /\ edits' \in Nat
  BY DEF B!Edit, B!Create, B!Update, B!Delete, BrandInv, BrandTypes, List, B!Shipped, B!Absent
<1>2. snapshot' \in [Process -> SUBSET Copy] /\ \A p \in Process : snapshot'[p] \subseteq snapshot[p]
  BY DEF B!Edit, BrandInv, BrandTypes
<1> QED BY <1>1, <1>2, ListedBrands DEF B!Edit

LEMMA RestartBrands ==
    ASSUME B!LifetimeAssumption, BrandInv, NEW p \in Process, B!Restart(p)
    PROVE  BrandInv'
<1>1. rows' \in List /\ edits' \in Nat
  BY DEF B!Restart, B!Seeded, BrandInv, BrandTypes, List, B!Shipped
<1>2. snapshot' \in [Process -> SUBSET Copy] /\ \A q \in Process : snapshot'[q] \subseteq snapshot[q]
  BY DEF B!Restart, BrandInv, BrandTypes
<1> QED BY <1>1, <1>2, ListedBrands DEF B!Restart

(* The clock: the rows stay current, a copy that is not read again goes.    *)
LEMMA TickBrands == ASSUME B!LifetimeAssumption, BrandInv, B!Tick PROVE BrandInv'
<1>1. /\ brandClock' = brandClock + 1 /\ brandClock \in Nat /\ TTL \in Nat /\ EntryTTL \in Nat
      /\ UNCHANGED <<rows, revision, task, edit, edits>>
  BY DEF B!Tick, BrandInv, BrandTypes, B!LifetimeAssumption
<1>2. /\ Dated /\ DOMAIN asOf' = DOMAIN asOf
      /\ \A l \in DOMAIN asOf : asOf'[l] = IF l = B!Listed(rows) THEN brandClock + 1 ELSE asOf[l]
      /\ asOf' = [l \in DOMAIN asOf' |-> asOf'[l]]
  BY DEF B!Tick, BrandInv
<1>3. Dated'
  <2>1. \A l \in DOMAIN asOf : asOf[l] \in Nat /\ asOf'[l] \in Nat /\ asOf'[l] <= brandClock + 1
    BY <1>1, <1>2 DEF Dated
  <2>2. asOf' \in [DOMAIN asOf' -> Nat]
    BY <1>2, <2>1
  <2> QED BY <1>1, <1>2, <2>1, <2>2 DEF Dated
<1>4. \A c, span : c.until \in Int /\ span \in Nat /\ Fresh(c, span) /\ brandClock < c.until
        => Fresh(c, span)'
  <2> SUFFICES ASSUME NEW c, NEW span, c.until \in Int, span \in Nat, Fresh(c, span), brandClock < c.until
               PROVE  Fresh(c, span)'
    OBVIOUS
  <2>1. c.list \in DOMAIN asOf /\ asOf[c.list] \in Nat /\ asOf[c.list] <= brandClock
    BY <1>2 DEF Dated, Fresh
  <2> QED BY <1>1, <1>2, <2>1 DEF Fresh
<1>5. /\ snapshot' \in [Process -> SUBSET Copy] /\ shared' \subseteq Copy /\ entry' \subseteq Result
      /\ \A p \in Process : \A c \in snapshot'[p] : c \in snapshot[p] /\ brandClock < c.until
      /\ \A c \in shared' : c \in shared /\ brandClock < c.until
      /\ \A e \in entry' : e \in entry /\ brandClock < e.until /\ e.until \in Int
  BY DEF B!Tick, B!Left, BrandInv, BrandTypes, Result
<1>6. Copies'
  <2>1. \A c \in shared : c.until \in Int /\ Fresh(c, TTL)
    BY DEF BrandInv, BrandTypes, Copies, Copy
  <2>2. \A p \in Process : \A c \in snapshot[p] : c.until \in Int /\ Fresh(c, 2 * TTL)
    BY DEF BrandInv, BrandTypes, Copies, Copy
  <2>3. \A e \in entry : /\ e.until \in Int /\ e.until <= brandClock + EntryTTL
                         /\ ~e.blind => Fresh(e, 2 * TTL + EntryTTL)
    BY DEF BrandInv, BrandTypes, Copies, Result
  <2>4. TTL \in Nat /\ 2 * TTL \in Nat /\ 2 * TTL + EntryTTL \in Nat
    BY <1>1
  <2>5. \A e \in entry' : /\ brandClock' <= e.until /\ e.until <= brandClock' + EntryTTL
                          /\ ~e.blind => Fresh(e, 2 * TTL + EntryTTL)'
    BY <1>1, <1>4, <1>5, <2>3, <2>4
  <2> QED BY <1>4, <1>5, <2>1, <2>2, <2>4, <2>5 DEF Copies
<1>7. \A p \in Process : task'[p] = B!Idle
  BY DEF B!Tick
<1>8. B!ListBounded'
  BY <1>1 DEF B!Tick, B!Undecided, B!ListBounded
<1> QED BY <1>1, <1>3, <1>5, <1>6, <1>7, <1>8 DEF BrandInv, BrandTypes, Carried, B!Idle

LEMMA BrandStep == ASSUME B!LifetimeAssumption, BrandInv, [B!Next]_B!vars PROVE BrandInv'
BY ReadBrands, RedisBrands, FillBrands, DecideBrands, DropBrands, EditBrands,
   RestartBrands, TickBrands DEF B!Next, B!Evaluate

(* A list that was read is one the rows had at most two lifetimes ago, and  *)
(* a cached result adds its own; the shipped list that stands in for rows   *)
(* that could not be read never passes for one of them, and is kept no      *)
(* longer than the result it is cached with: for any processes, brands and  *)
(* lifetimes, whatever edits, restarts and failed calls come between        *)
(* (trustedBrands, ListBrands, invalidate, SeedDefaultBrands).              *)
THEOREM ListsAreBounded == ASSUME B!LifetimeAssumption PROVE B!Spec => []ListBounded
<1>1. B!Init => BrandInv BY InitBrands
<1>2. BrandInv /\ [B!Next]_B!vars => BrandInv' BY BrandStep
<1>3. BrandInv => ListBounded BY DEF BrandInv, ListBounded
<1> QED BY <1>1, <1>2, <1>3, PTL DEF B!Spec

-----------------------------------------------------------------------------
(* Requests to the outside.  What was checked is carried in the request: a  *)
(* hop to be dialled has addresses that were public when it was resolved,   *)
(* and its URL is one its kind of request may visit.                        *)

Hop == [at : {"resolve"}, kind : O!Kind, first : O!Url, url : O!Url, via : Nat]
Checked ==
    [at : {"dial", "answer"}, kind : O!Kind, first : O!Url, url : O!Url, via : Nat,
     ips : Seq(Addr)]

(* The URL of a hop that was resolved, and those dialled before.            *)
MayVisit(f, u) ==
    /\ f.kind = "osint" => u.host \in Official
    /\ f.kind = "feed" /\ f.first.scheme = "https" /\ ~InsecureHTTP => u.scheme = "https"

OutboundInv ==
    /\ dns \in [HostName -> Seq(Addr)]
    /\ fetch \in {O!Idle} \cup Hop \cup Checked
    /\ fetch.at \in {"resolve", "dial", "answer"} =>
         /\ \A d \in dialled : MayVisit(fetch, d.url)
         /\ fetch.kind = "feed" /\ fetch.first.scheme = "https" /\ ~InsecureHTTP
              => fetch.url.scheme = "https"
    /\ fetch.at = "dial" =>
         /\ MayVisit(fetch, fetch.url)
         /\ fetch.ips # <<>> /\ \A i \in DOMAIN fetch.ips : fetch.ips[i] \notin NonRoutable
    /\ O!PublicOnly

(* A set of numbers that is not empty has a least one.                      *)
LEMMA LeastExists ==
    ASSUME NEW T \in SUBSET Nat, T # {}
    PROVE  \E i \in T : \A j \in T : i <= j
<1>1. PICK k \in T : \A l \in T : ~(<<l, k>> \in OpToRel(<, Nat))
  BY WFMin, NatLessThanWellFounded
<1>2. ASSUME NEW j \in T PROVE k <= j
  <2>1. ~(j < k) BY <1>1 DEF OpToRel
  <2> QED BY <2>1
<1> QED BY <1>2

LEMMA RecordsAreSequences == O!Records \subseteq Seq(Addr)
<1> SUFFICES ASSUME NEW s \in O!Records PROVE s \in Seq(Addr)
  OBVIOUS
<1>1. PICK n \in 0..2 : s \in [1..n -> Addr]
  BY DEF O!Records
<1> QED BY <1>1

LEMMA FirstPublicIsPublic ==
    ASSUME NEW looked \in Seq(Addr)
    PROVE  /\ O!FirstPublic(looked) \in Seq(Addr)
           /\ \A i \in DOMAIN O!FirstPublic(looked) : O!FirstPublic(looked)[i] \notin NonRoutable
<1> DEFINE public == {i \in DOMAIN looked : ~O!IsBlockedIP(looked[i])}
<1>1. CASE public = {}
  BY <1>1 DEF O!FirstPublic
<1>2. CASE public # {}
  <2>1. PICK k \in public : \A j \in public : k <= j
    <3>1. public \in SUBSET Nat
      OBVIOUS
    <3> QED BY <1>2, <3>1, LeastExists
  <2> DEFINE c == CHOOSE i \in public : \A j \in public : i <= j
  <2>2. c \in public
    BY <2>1
  <2>3. O!FirstPublic(looked) = <<looked[c]>>
    BY <1>2 DEF O!FirstPublic
  <2> HIDE DEF c
  <2>4. looked[c] \in Addr /\ looked[c] \notin NonRoutable
    BY <2>2 DEF O!IsBlockedIP
  <2> QED BY <2>3, <2>4
<1> QED BY <1>1, <1>2

(* Every way to an address checks it, whatever the records say.             *)
LEMMA AllowedIsPublic ==
    ASSUME dns \in [HostName -> Seq(Addr)], NEW kind \in O!Kind, NEW u \in O!Url
    PROVE  /\ O!Allowed(kind, u) \in Seq(Addr)
           /\ \A i \in DOMAIN O!Allowed(kind, u) : O!Allowed(kind, u)[i] \notin NonRoutable
           /\ kind = "osint" /\ O!Allowed(kind, u) # <<>> => u.host \in Official
<1>1. O!Lookup(u.host) \in Seq(Addr)
  BY DEF O!Lookup, O!Url
<1>2. CASE kind = "osint"
  BY <1>1, <1>2 DEF O!Allowed, O!Range, O!IsBlockedIP
<1>3. CASE kind = "tls"
  BY <1>1, <1>3, FirstPublicIsPublic DEF O!Allowed
<1>4. CASE kind \notin {"osint", "tls"}
  BY <1>1, <1>4 DEF O!Allowed, O!ResolveAllowedIPs, O!Range, O!IsBlockedIP
<1> QED BY <1>2, <1>3, <1>4

LEMMA InitOutbound == ASSUME O!Init PROVE OutboundInv
<1>1. dns \in [HostName -> Seq(Addr)]
  BY RecordsAreSequences DEF O!Init
<1> QED BY <1>1 DEF O!Init, OutboundInv, O!Idle, O!PublicOnly

LEMMA StartOutbound == ASSUME OutboundInv, O!Start PROVE OutboundInv'
<1>1. UNCHANGED dns /\ dialled' = {}
  BY DEF O!Start
<1>2. CASE fetch' = O!Idle
  BY <1>1, <1>2 DEF OutboundInv, O!Idle, O!PublicOnly
<1>3. CASE \E kind \in O!Kind, u \in O!Url :
             fetch' = [at |-> "resolve", kind |-> kind, first |-> u, url |-> u, via |-> 0]
  <2>1. PICK kind \in O!Kind, u \in O!Url :
          fetch' = [at |-> "resolve", kind |-> kind, first |-> u, url |-> u, via |-> 0]
    BY <1>3
  <2>2. fetch' \in Hop
    BY <2>1 DEF Hop
  <2> QED BY <1>1, <2>1, <2>2 DEF OutboundInv, O!PublicOnly
<1> QED BY <1>2, <1>3 DEF O!Start

LEMMA ResolveOutbound == ASSUME OutboundInv, O!Resolve PROVE OutboundInv'
<1> DEFINE looked == O!Allowed(fetch.kind, fetch.url)
<1>1. UNCHANGED <<dns, dialled>> /\ fetch.at = "resolve" /\ fetch \in Hop
  BY DEF O!Resolve, OutboundInv, O!Idle, Checked
<1>2. /\ looked \in Seq(Addr)
      /\ \A i \in DOMAIN looked : looked[i] \notin NonRoutable
      /\ fetch.kind = "osint" /\ looked # <<>> => fetch.url.host \in Official
  BY <1>1, AllowedIsPublic DEF OutboundInv, Hop
<1>3. CASE fetch' = O!Idle
  BY <1>1, <1>3 DEF OutboundInv, O!Idle, O!PublicOnly
<1>4. CASE looked # <<>> /\ fetch' =
             [at |-> "dial", kind |-> fetch.kind, first |-> fetch.first,
              url |-> fetch.url, via |-> fetch.via,
              ips |-> IF fetch.kind = "osint" THEN looked ELSE <<Head(looked)>>]
  <2> HIDE DEF looked
  <2>1. PICK to \in Seq(Addr) :
          /\ to # <<>> /\ \A i \in DOMAIN to : to[i] \notin NonRoutable
          /\ fetch' = [at |-> "dial", kind |-> fetch.kind, first |-> fetch.first,
                       url |-> fetch.url, via |-> fetch.via, ips |-> to]
    <3>1. CASE fetch.kind = "osint"
      BY <1>2, <1>4, <3>1
    <3>2. CASE fetch.kind # "osint"
      <4>1. Head(looked) \in Addr /\ Head(looked) \notin NonRoutable
        BY <1>2, <1>4
      <4>2. /\ <<Head(looked)>> \in Seq(Addr) /\ <<Head(looked)>> # <<>>
            /\ \A i \in DOMAIN <<Head(looked)>> : <<Head(looked)>>[i] \notin NonRoutable
        BY <4>1
      <4> QED BY <1>4, <3>2, <4>2
    <3> QED BY <3>1, <3>2
  <2>2. fetch' \in Checked
    BY <1>1, <2>1 DEF Hop, Checked
  <2>3. /\ \A d \in dialled : MayVisit(fetch', d.url)
        /\ MayVisit(fetch', fetch'.url)
    BY <1>1, <1>2, <1>4, <2>1 DEF OutboundInv, MayVisit, Hop
  <2> QED BY <1>1, <2>1, <2>2, <2>3 DEF OutboundInv, O!PublicOnly, MayVisit
<1> QED BY <1>3, <1>4 DEF O!Resolve

(* A connection that fails leaves the other addresses of the hop.           *)
LEMMA DialOutbound == ASSUME OutboundInv, O!Dial PROVE OutboundInv'
<1>1. UNCHANGED dns /\ fetch.at = "dial" /\ fetch \in Checked
  BY DEF O!Dial, OutboundInv, O!Idle, Hop
<1>2. /\ fetch.ips \in Seq(Addr) /\ fetch.ips # <<>>
      /\ \A i \in DOMAIN fetch.ips : fetch.ips[i] \notin NonRoutable
      /\ MayVisit(fetch, fetch.url)
  BY <1>1 DEF OutboundInv, Checked
<1>3. PICK d : /\ d.url = fetch.url /\ d.addr = Head(fetch.ips)
               /\ dialled' = dialled \cup {d}
  BY DEF O!Dial, O!Destination
<1>4. O!PublicOnly'
  BY <1>2, <1>3 DEF OutboundInv, O!PublicOnly, O!IsBlockedIP
<1>5. \A e \in dialled' : MayVisit(fetch, e.url)
  BY <1>1, <1>2, <1>3 DEF OutboundInv
<1>6. CASE fetch' = O!Idle
  BY <1>1, <1>4, <1>6 DEF OutboundInv, O!Idle
<1>7. CASE fetch' = [fetch EXCEPT !.at = "answer"]
  <2>1. fetch' \in Checked /\ fetch'.at = "answer" /\ fetch'.kind = fetch.kind
        /\ fetch'.first = fetch.first /\ fetch'.url = fetch.url
    BY <1>1, <1>7 DEF Checked
  <2> QED BY <1>1, <1>4, <1>5, <2>1 DEF OutboundInv, MayVisit
<1>8. CASE Len(fetch.ips) > 1 /\ fetch' = [fetch EXCEPT !.ips = Tail(@)]
  <2>1. /\ Tail(fetch.ips) \in Seq(Addr) /\ Tail(fetch.ips) # <<>>
        /\ \A i \in DOMAIN Tail(fetch.ips) : Tail(fetch.ips)[i] \notin NonRoutable
    <3> DEFINE looked == fetch.ips
    <3>1. looked \in Seq(Addr) /\ Len(looked) > 1 /\ \A i \in DOMAIN looked : looked[i] \notin NonRoutable
      BY <1>2, <1>8
    <3> HIDE DEF looked
    <3>2. /\ Tail(looked) \in Seq(Addr) /\ Len(Tail(looked)) = Len(looked) - 1
          /\ \A i \in 1..Len(Tail(looked)) : Tail(looked)[i] = looked[i + 1]
      BY <3>1
    <3>3. Tail(looked) # <<>> /\ DOMAIN Tail(looked) = 1..Len(Tail(looked))
      <4> DEFINE rest == Tail(looked)
      <4>1. rest \in Seq(Addr) /\ Len(rest) = Len(looked) - 1
        BY <3>2
      <4> HIDE DEF rest
      <4>2. rest # <<>> /\ DOMAIN rest = 1..Len(rest)
        BY <3>1, <4>1
      <4> QED BY <4>2 DEF rest
    <3>4. \A i \in DOMAIN Tail(looked) : Tail(looked)[i] \notin NonRoutable
      BY <3>1, <3>2, <3>3
    <3> QED BY <3>2, <3>3, <3>4 DEF looked
  <2>2. fetch' \in Checked /\ fetch'.at = "dial" /\ fetch'.kind = fetch.kind
        /\ fetch'.first = fetch.first /\ fetch'.url = fetch.url /\ fetch'.ips = Tail(fetch.ips)
    BY <1>1, <1>8, <2>1 DEF Checked
  <2> QED BY <1>1, <1>2, <1>4, <1>5, <2>1, <2>2 DEF OutboundInv, MayVisit
<1> QED BY <1>6, <1>7, <1>8 DEF O!Dial

LEMMA AnswerOutbound == ASSUME OutboundInv, O!Answered \/ O!Redirected PROVE OutboundInv'
<1>1. UNCHANGED <<dns, dialled>> /\ fetch.at = "answer" /\ fetch \in Checked
  BY DEF O!Answered, O!Redirected, OutboundInv, O!Idle, Hop
<1>2. CASE fetch' = O!Idle
  BY <1>1, <1>2 DEF OutboundInv, O!Idle, O!PublicOnly
<1>3. CASE \E u \in O!Url :
             /\ O!RedirectPolicy(fetch.kind, fetch.first, u)
             /\ fetch' = [at |-> "resolve", kind |-> fetch.kind, first |-> fetch.first,
                          url |-> u, via |-> fetch.via + 1]
  <2>1. PICK u \in O!Url :
          /\ O!RedirectPolicy(fetch.kind, fetch.first, u)
          /\ fetch' = [at |-> "resolve", kind |-> fetch.kind, first |-> fetch.first,
                       url |-> u, via |-> fetch.via + 1]
    BY <1>3
  <2>2. fetch' \in Hop
    BY <1>1, <2>1 DEF Checked, Hop
  <2>3. fetch.kind = "feed" /\ fetch.first.scheme = "https" /\ ~InsecureHTTP => u.scheme = "https"
    BY <2>1 DEF O!RedirectPolicy
  <2> QED BY <1>1, <2>1, <2>2, <2>3 DEF OutboundInv, O!PublicOnly, MayVisit
<1> QED BY <1>2, <1>3 DEF O!Answered, O!Redirected

LEMMA OutboundStep == ASSUME OutboundInv, [O!Next]_O!vars PROVE OutboundInv'
<1>1. CASE O!Flip \/ UNCHANGED O!vars
  <2>1. UNCHANGED <<fetch, dialled>> /\ dns' \in [HostName -> Seq(Addr)]
    BY <1>1, RecordsAreSequences DEF O!Flip, O!vars, OutboundInv
  <2> QED BY <2>1 DEF OutboundInv, MayVisit, O!PublicOnly
<1> QED BY <1>1, StartOutbound, ResolveOutbound, DialOutbound, AnswerOutbound DEF O!Next

(* Requests stay where they may go (public addresses, trusted hosts for     *)
(* warnings, https for feeds), for any names, records and redirects, and    *)
(* however the records change between a check and its connection            *)
(* (GuardedTransport, RedirectPolicyHTTPS, validatedSourceTransport).       *)
THEOREM RequestsAreConfined == O!Spec => []OutboundConfined
<1>1. O!Init => OutboundInv BY InitOutbound
<1>2. OutboundInv /\ [O!Next]_O!vars => OutboundInv' BY OutboundStep
<1>3. OutboundInv => OutboundConfined
  BY DEF OutboundInv, OutboundConfined, O!OutboundConfined, O!TrustedOnly, O!HttpsKept, MayVisit,
         Hop, Checked, O!Idle
<1> QED BY <1>1, <1>2, <1>3, PTL DEF O!Spec
-----------------------------------------------------------------------------
(* The limiter.  First its recency lists: what stays of a list when keys    *)
(* leave it, and which keys an eviction takes.                              *)

Distinct(s) == \A i, j \in DOMAIN s : s[i] = s[j] => i = j

LEMMA LimiterCounts == \A S : L!Cardinality(S) = Cardinality(S)
BY Zenon DEF L!Cardinality, Cardinality

LEMMA LimiterKeeps == \A s, kept : L!Keep(s, kept) = Keep(s, kept)
BY Zenon DEF L!Keep, Keep, L!Rank, Rank, L!Cardinality, Cardinality

(* The ranks of a finite set of numbers are the numbers up to its size.     *)
LEMMA Ranks ==
    ASSUME NEW kept \in SUBSET Nat, IsFiniteSet(kept)
    PROVE  /\ \A i, j \in kept : i < j => Rank(kept, i) < Rank(kept, j)
           /\ \A i \in kept : Rank(kept, i) \in 1..Cardinality(kept)
           /\ \A n \in 1..Cardinality(kept) : \E i \in kept : Rank(kept, i) = n
<1> DEFINE Upto(i) == {j \in kept : j <= i}
           At(i) == Cardinality(Upto(i))
           ranks == [i \in kept |-> At(i)]
           size == Cardinality(kept)
<1>1. ASSUME NEW i \in kept
      PROVE  /\ IsFiniteSet(Upto(i)) /\ At(i) \in 1..size
  <2>1. Upto(i) \in SUBSET kept /\ i \in Upto(i)
    OBVIOUS
  <2>2. IsFiniteSet(Upto(i)) /\ At(i) <= size
    BY <2>1, FS_Subset
  <2>3. At(i) \in Nat /\ size \in Nat /\ At(i) # 0
    BY <2>1, <2>2, FS_CardinalityType, FS_EmptySet
  <2> QED BY <2>2, <2>3
<1>2. ASSUME NEW i \in kept, NEW j \in kept, i < j
      PROVE  At(i) < At(j)
  <2>1. Upto(i) \in SUBSET Upto(j) /\ j \in Upto(j) /\ j \notin Upto(i)
    <3>1. i \in Nat /\ j \in Nat
      OBVIOUS
    <3>2. \A l \in kept : l <= i => l <= j
      <4> SUFFICES ASSUME NEW l \in kept, l <= i PROVE l <= j
        OBVIOUS
      <4>1. l \in Nat
        OBVIOUS
      <4> QED BY <1>2, <3>1, <4>1
    <3>3. j <= j /\ ~(j <= i)
      BY <1>2, <3>1
    <3> QED BY <3>2, <3>3
  <2>2. At(i) <= At(j) /\ At(i) # At(j)
    BY <1>1, <2>1, FS_Subset
  <2> QED BY <1>1, <2>2
<1>3. size \in Nat /\ IsFiniteSet(1..size) /\ Cardinality(1..size) = size
  BY FS_CardinalityType, FS_Interval
<1> HIDE DEF Upto, At, size
<1>4. ranks \in Injection(kept, 1..size)
  <2>1. ranks \in [kept -> 1..size]
    BY <1>1
  <2>2. ASSUME NEW i \in kept, NEW j \in kept, ranks[i] = ranks[j] PROVE i = j
    <3>1. At(i) \in Nat /\ At(j) \in Nat /\ i \in Nat /\ j \in Nat /\ At(i) = At(j)
      BY <1>1, <2>2
    <3> QED BY <1>2, <3>1
  <2> HIDE DEF ranks
  <2> QED BY <2>1, <2>2 DEF Injection, IsInjective
<1>5. ranks \in Surjection(kept, 1..size)
  <2> HIDE DEF ranks
  <2>1. Cardinality(kept) = Cardinality(1..size)
    BY <1>3 DEF size
  <2>2. Cardinality(kept) = Cardinality(1..size) <=> ranks \in Surjection(kept, 1..size)
    BY <1>3, <1>4, FS_Injection
  <2> QED BY <2>1, <2>2
<1>6. ASSUME NEW n \in 1..size PROVE \E i \in kept : At(i) = n
  <2>1. \E i \in kept : ranks[i] = n
    BY <1>5 DEF Surjection
  <2> QED BY <2>1
<1>7. \A i : Rank(kept, i) = At(i)
  BY DEF Rank, At, Upto
<1> QED BY <1>1, <1>2, <1>6, <1>7 DEF size

(* A list of which some positions are kept has their entries, in their      *)
(* order.                                                                   *)
LEMMA KeepKeeps ==
    ASSUME NEW S, NEW s \in Seq(S), NEW kept, kept \subseteq DOMAIN s
    PROVE  LET t == Keep(s, kept)
           IN  /\ t \in Seq(S) /\ Len(t) <= Len(s)
               /\ \A i \in kept : \E n \in DOMAIN t : t[n] = s[i]
               /\ \A n \in DOMAIN t : \E i \in kept : t[n] = s[i]
               /\ \A m, n \in DOMAIN t : m < n =>
                    \E i, j \in kept : i < j /\ t[m] = s[i] /\ t[n] = s[j]
<1> DEFINE size == Cardinality(kept)
           At(n) == CHOOSE i \in kept : Rank(kept, i) = n
           t == [n \in 1..size |-> s[At(n)]]
<1>1. t = Keep(s, kept)
  BY Zenon DEF Keep
<1>2. kept \in SUBSET Nat /\ IsFiniteSet(kept) /\ size \in Nat /\ size <= Len(s)
  <2>1. DOMAIN s = 1..Len(s) /\ Len(s) \in Nat
    OBVIOUS
  <2>2. kept \in SUBSET (1..Len(s)) /\ kept \in SUBSET Nat
    BY <2>1
  <2>3. \A m \in Nat : IsFiniteSet(1..m) /\ Cardinality(1..m) = m
    BY FS_Interval
  <2>4. IsFiniteSet(1..Len(s)) /\ Cardinality(1..Len(s)) = Len(s)
    BY <2>1, <2>3
  <2> QED BY <2>1, <2>2, <2>4, FS_Subset, FS_CardinalityType
<1>3. /\ \A i, j \in kept : i < j => Rank(kept, i) < Rank(kept, j)
      /\ \A i \in kept : Rank(kept, i) \in 1..size
      /\ \A n \in 1..size : \E i \in kept : Rank(kept, i) = n
  BY <1>2, Ranks
<1> HIDE DEF size
<1>4. ASSUME NEW n \in 1..size PROVE At(n) \in kept /\ Rank(kept, At(n)) = n
  BY <1>3
<1>5. ASSUME NEW i \in kept PROVE At(Rank(kept, i)) = i
  <2>1. At(Rank(kept, i)) \in kept /\ Rank(kept, At(Rank(kept, i))) = Rank(kept, i)
    BY <1>3, <1>4
  <2>2. i \in Nat /\ At(Rank(kept, i)) \in Nat /\ Rank(kept, i) \in Int
    BY <1>2, <1>3, <2>1
  <2> QED BY <1>3, <2>1, <2>2
<1> HIDE DEF At
<1>6. DOMAIN t = 1..size /\ \A n \in 1..size : t[n] = s[At(n)]
  OBVIOUS
<1>7. t \in Seq(S) /\ Len(t) = size
  BY <1>2, <1>4
<1>8. ASSUME NEW i \in kept PROVE \E n \in DOMAIN t : t[n] = s[i]
  BY <1>3, <1>5, <1>6
<1>9. ASSUME NEW n \in DOMAIN t PROVE \E i \in kept : t[n] = s[i]
  BY <1>4, <1>6
<1>10. ASSUME NEW m \in DOMAIN t, NEW n \in DOMAIN t, m < n
       PROVE  \E i, j \in kept : i < j /\ t[m] = s[i] /\ t[n] = s[j]
  <2>1. /\ At(m) \in kept /\ At(n) \in kept
        /\ Rank(kept, At(m)) = m /\ Rank(kept, At(n)) = n
        /\ At(m) \in Nat /\ At(n) \in Nat /\ m \in Nat /\ n \in Nat
    BY <1>2, <1>4
  <2>2. At(m) < At(n)
    BY <1>3, <1>10, <2>1
  <2> QED BY <1>6, <2>1, <2>2
<1> HIDE DEF t
<1> QED BY <1>1, <1>2, <1>7, <1>8, <1>9, <1>10

(* A list without some keys is the list of the others, in the same order.   *)
LEMMA WithoutKeeps ==
    ASSUME NEW S, NEW s \in Seq(S), NEW gone
    PROVE  LET t == L!Without(s, gone)
           IN  /\ t \in Seq(S)
               /\ L!ToSet(t) = L!ToSet(s) \ gone
               /\ \A m, n \in DOMAIN t : m < n =>
                    \E i, j \in DOMAIN s : i < j /\ t[m] = s[i] /\ t[n] = s[j]
<1> DEFINE kept == {i \in DOMAIN s : s[i] \notin gone}
           t == Keep(s, kept)
<1>1. L!Without(s, gone) = t
  BY LimiterKeeps DEF L!Without
<1>2. kept \subseteq DOMAIN s
  OBVIOUS
<1> HIDE DEF kept
<1>3. /\ t \in Seq(S)
      /\ \A i \in kept : \E n \in DOMAIN t : t[n] = s[i]
      /\ \A n \in DOMAIN t : \E i \in kept : t[n] = s[i]
      /\ \A m, n \in DOMAIN t : m < n =>
           \E i, j \in kept : i < j /\ t[m] = s[i] /\ t[n] = s[j]
  BY <1>2, KeepKeeps
<1> HIDE DEF t
<1>4. L!ToSet(t) = L!ToSet(s) \ gone
  BY <1>3 DEF L!ToSet, kept
<1> QED BY <1>1, <1>2, <1>3, <1>4

LEMMA DistinctCount ==
    ASSUME NEW S, NEW s \in Seq(S), Distinct(s)
    PROVE  IsFiniteSet(L!ToSet(s)) /\ Cardinality(L!ToSet(s)) = Len(s)
<1>1. Len(s) \in Nat /\ DOMAIN s = 1..Len(s)
  OBVIOUS
<1>2. s \in Injection(1..Len(s), L!ToSet(s))
  BY <1>1 DEF Distinct, L!ToSet, Injection, IsInjective
<1>3. s \in Surjection(1..Len(s), L!ToSet(s))
  BY <1>1 DEF L!ToSet, Surjection
<1>4. IsFiniteSet(1..Len(s)) /\ Cardinality(1..Len(s)) = Len(s)
  BY <1>1, FS_Interval
<1> QED BY <1>2, <1>3, <1>4, FS_Surjection

LEMMA ReverseKeeps ==
    ASSUME NEW S, NEW s \in Seq(S)
    PROVE  L!Reverse(s) \in Seq(S) /\ L!ToSet(L!Reverse(s)) = L!ToSet(s)
<1> DEFINE r == L!Reverse(s)
<1>1. Len(s) \in Nat /\ DOMAIN s = 1..Len(s)
  OBVIOUS
<1>2. /\ r \in Seq(S) /\ DOMAIN r = 1..Len(s)
      /\ \A i \in 1..Len(s) : r[i] = s[(Len(s) - i) + 1]
  BY <1>1 DEF L!Reverse
<1> HIDE DEF r
<1>3. ASSUME NEW i \in 1..Len(s) PROVE r[i] \in L!ToSet(s) /\ s[i] \in L!ToSet(r)
  <2>1. (Len(s) - i) + 1 \in 1..Len(s) /\ (Len(s) - ((Len(s) - i) + 1)) + 1 = i
    BY <1>1
  <2>2. r[(Len(s) - i) + 1] = s[i]
    BY <1>2, <2>1
  <2> QED BY <1>1, <1>2, <2>1, <2>2 DEF L!ToSet
<1> QED BY <1>1, <1>2, <1>3 DEF L!ToSet, r

LEMMA ConcatKeeps ==
    ASSUME NEW S, NEW s \in Seq(S), NEW t \in Seq(S)
    PROVE  s \o t \in Seq(S) /\ L!ToSet(s \o t) = L!ToSet(s) \cup L!ToSet(t)
<1>1. /\ s \o t \in Seq(S) /\ Len(s \o t) = Len(s) + Len(t)
      /\ \A i \in 1..Len(s) + Len(t) : (s \o t)[i] = IF i <= Len(s) THEN s[i] ELSE t[i - Len(s)]
  BY ConcatProperties
<1>2. /\ Len(s) \in Nat /\ Len(t) \in Nat /\ DOMAIN s = 1..Len(s) /\ DOMAIN t = 1..Len(t)
      /\ DOMAIN (s \o t) = 1..Len(s) + Len(t)
  BY <1>1
<1>3. ASSUME NEW i \in 1..Len(s) + Len(t)
      PROVE  (s \o t)[i] \in L!ToSet(s) \cup L!ToSet(t)
  <2>1. CASE i <= Len(s)
    <3>1. i \in 1..Len(s)
      BY <1>2, <2>1
    <3> QED BY <1>1, <1>2, <2>1, <3>1 DEF L!ToSet
  <2>2. CASE ~(i <= Len(s))
    <3>1. i - Len(s) \in 1..Len(t)
      BY <1>2, <2>2
    <3> QED BY <1>1, <1>2, <2>2, <3>1 DEF L!ToSet
  <2> QED BY <2>1, <2>2
<1>4. ASSUME NEW i \in 1..Len(s) PROVE s[i] \in L!ToSet(s \o t)
  <2>1. i \in 1..Len(s) + Len(t) /\ i <= Len(s)
    BY <1>2
  <2> QED BY <1>1, <1>2, <2>1 DEF L!ToSet
<1>5. ASSUME NEW i \in 1..Len(t) PROVE t[i] \in L!ToSet(s \o t)
  <2>1. i + Len(s) \in 1..Len(s) + Len(t) /\ ~(i + Len(s) <= Len(s)) /\ (i + Len(s)) - Len(s) = i
    BY <1>2
  <2>2. (s \o t)[i + Len(s)] = t[i]
    BY <1>1, <2>1
  <2> QED BY <1>2, <2>1, <2>2 DEF L!ToSet
<1> QED BY <1>1, <1>2, <1>3, <1>4, <1>5 DEF L!ToSet

(* The buckets, the lists that file them and what they say of each other.   *)
Bucket == [tokens : 0..Burst * Unit, lastCheck : Nat, hits : Nat \ {0}]
Grant == [count : Nat, since : Nat]

LimiterTypes ==
    /\ limiterClock \in Nat
    /\ DOMAIN buckets \subseteq ClientKey
    /\ buckets \in [DOMAIN buckets -> Bucket]
    /\ granted \in [DOMAIN buckets -> Grant]
    /\ active \in Seq(ClientKey) /\ blocked \in Seq(ClientKey)

ListsExact ==
    /\ Distinct(active) /\ Distinct(blocked)
    /\ L!ToSet(active) \cap L!ToSet(blocked) = {}
    /\ L!ToSet(active) \cup L!ToSet(blocked) = DOMAIN buckets

SeenOnce == {k \in DOMAIN buckets : buckets[k].hits = 1}

Capped == MaxKeys > 0 => Cardinality(DOMAIN buckets) <= MaxKeys

Filed ==
    /\ \A k \in L!ToSet(active) : buckets[k].tokens >= Unit
    /\ \A k \in L!ToSet(blocked) : buckets[k].tokens < Unit

(* What a bucket has let through and what it holds came from the burst and  *)
(* from the time up to its last request.                                    *)
Allowed(b, g) ==
    /\ g.since <= b.lastCheck /\ b.lastCheck <= limiterClock
    /\ g.count * Unit + b.tokens <= Burst * Unit + (b.lastCheck - g.since) * Rate

(* A list is in the order of the last requests, the most recent first.      *)
Recent(table, s) ==
    \A i, j \in DOMAIN s : i < j => table[s[j]].lastCheck <= table[s[i]].lastCheck

LimiterInv ==
    /\ LimiterTypes /\ ListsExact /\ Capped /\ Filed
    /\ oneShot = Cardinality(SeenOnce)
    /\ \A k \in DOMAIN buckets : Allowed(buckets[k], granted[k])
    /\ Recent(buckets, active) /\ Recent(buckets, blocked)

LEMMA TableFinite ==
    ASSUME LimiterTypes, ListsExact
    PROVE  /\ IsFiniteSet(DOMAIN buckets)
           /\ Len(active) + Len(blocked) = Cardinality(DOMAIN buckets)
<1>1. /\ IsFiniteSet(L!ToSet(active)) /\ Cardinality(L!ToSet(active)) = Len(active)
      /\ IsFiniteSet(L!ToSet(blocked)) /\ Cardinality(L!ToSet(blocked)) = Len(blocked)
  BY DistinctCount DEF LimiterTypes, ListsExact
<1>2. Cardinality(L!ToSet(active) \cap L!ToSet(blocked)) = 0
  BY FS_EmptySet DEF ListsExact
<1>3. Cardinality(DOMAIN buckets) = Len(active) + Len(blocked) - 0 /\ IsFiniteSet(DOMAIN buckets)
  BY <1>1, <1>2, FS_Union DEF ListsExact
<1>4. Len(active) \in Nat /\ Len(blocked) \in Nat
  BY DEF LimiterTypes
<1> QED BY <1>3, <1>4

(* An eviction takes keys of the table, at least one of them, and none of   *)
(* the blocked ones as long as there are others.                            *)
LEMMA Eviction ==
    ASSUME L!LimiterAssumption, LimiterTypes, ListsExact, MaxKeys > 0, DOMAIN buckets # {}
    PROVE  LET gone == L!ToSet(L!EvictLocked)
           IN  /\ gone \subseteq DOMAIN buckets /\ gone # {}
               /\ gone \cap L!ToSet(blocked) # {} => L!ToSet(active) \subseteq gone
<1> DEFINE all == L!ActiveFirst \o L!Reverse(blocked)
           m == IF Len(all) < L!TrimCount THEN Len(all) ELSE L!TrimCount
           gone == L!ToSet(L!EvictLocked)
<1>1. L!ActiveFirst \in Seq(ClientKey) /\ L!ToSet(L!ActiveFirst) = L!ToSet(active)
  <2>1. L!Reverse(active) \in Seq(ClientKey) /\ L!ToSet(L!Reverse(active)) = L!ToSet(active)
    BY ReverseKeeps DEF LimiterTypes
  <2>2. L!Once \subseteq L!ToSet(active)
    BY DEF L!Once
  <2>3. /\ L!Sparing(L!Once) \in Seq(ClientKey)
        /\ L!ToSet(L!Sparing(L!Once)) = L!ToSet(active) \ L!Once
    BY <2>1, WithoutKeeps DEF L!Sparing
  <2>4. /\ L!Sparing(L!ToSet(active) \ L!Once) \in Seq(ClientKey)
        /\ L!ToSet(L!Sparing(L!ToSet(active) \ L!Once)) = L!ToSet(active) \ (L!ToSet(active) \ L!Once)
    BY <2>1, WithoutKeeps DEF L!Sparing
  <2> DEFINE first == L!Sparing(L!ToSet(active) \ L!Once)
             second == L!Sparing(L!Once)
  <2> HIDE DEF first, second
  <2>5. first \in Seq(ClientKey) /\ second \in Seq(ClientKey)
    BY <2>3, <2>4 DEF first, second
  <2>6. first \o second \in Seq(ClientKey) /\ L!ToSet(first \o second) = L!ToSet(first) \cup L!ToSet(second)
    BY <2>5, ConcatKeeps
  <2>7. L!ToSet(first) \cup L!ToSet(second) = L!ToSet(active)
    BY <2>2, <2>3, <2>4 DEF first, second
  <2> QED BY <2>6, <2>7 DEF L!ActiveFirst, first, second
<1>2. L!Reverse(blocked) \in Seq(ClientKey) /\ L!ToSet(L!Reverse(blocked)) = L!ToSet(blocked)
  BY ReverseKeeps DEF LimiterTypes
<1>3. all \in Seq(ClientKey) /\ L!ToSet(all) = DOMAIN buckets
  <2>1. /\ all \in Seq(ClientKey)
        /\ L!ToSet(all) = L!ToSet(L!ActiveFirst) \cup L!ToSet(L!Reverse(blocked))
    BY <1>1, <1>2, ConcatKeeps
  <2> QED BY <1>1, <1>2, <2>1 DEF ListsExact
<1>4. /\ Len(all) = Len(L!ActiveFirst) + Len(L!Reverse(blocked))
      /\ \A i \in 1..Len(all) :
           all[i] = IF i <= Len(L!ActiveFirst) THEN L!ActiveFirst[i]
                    ELSE L!Reverse(blocked)[i - Len(L!ActiveFirst)]
  BY <1>1, <1>2, ConcatProperties
<1>5. /\ Len(all) \in Nat \ {0} /\ Len(L!ActiveFirst) \in Nat
      /\ DOMAIN all = 1..Len(all) /\ DOMAIN L!ActiveFirst = 1..Len(L!ActiveFirst)
  BY <1>1, <1>3 DEF L!ToSet
<1>6. L!TrimCount \in Nat \ {0}
  <2>1. MaxKeys \in Nat /\ (MaxKeys * 9) \div 10 \in Int
    BY DEF L!LimiterAssumption
  <2> QED BY <2>1 DEF L!TrimCount
<1> HIDE DEF all
<1>7. m \in 1..Len(all)
  BY <1>5, <1>6
<1>8. L!EvictLocked = SubSeq(all, 1, m)
  BY DEF L!EvictLocked, L!First, all
<1> HIDE DEF m
<1>9. gone = {all[i] : i \in 1..m}
  <2>1. /\ SubSeq(all, 1, m) \in Seq(ClientKey) /\ Len(SubSeq(all, 1, m)) = m
        /\ \A i \in 1..m : SubSeq(all, 1, m)[i] = all[i]
    BY <1>3, <1>5, <1>7
  <2>2. DOMAIN SubSeq(all, 1, m) = 1..m
    BY <2>1
  <2> QED BY <1>8, <2>1, <2>2 DEF L!ToSet
<1>10. gone \subseteq DOMAIN buckets /\ gone # {}
  <2>1. 1..m \subseteq 1..Len(all) /\ 1 \in 1..m
    BY <1>5, <1>7
  <2>2. L!ToSet(all) = {all[i] : i \in 1..Len(all)}
    BY <1>5 DEF L!ToSet
  <2> QED BY <1>3, <1>9, <2>1, <2>2
<1>11. ASSUME NEW x \in gone, x \in L!ToSet(blocked) PROVE L!ToSet(active) \subseteq gone
  <2>1. PICK i \in 1..m : x = all[i]
    BY <1>9
  <2>2. ~(i <= Len(L!ActiveFirst))
    <3> SUFFICES ASSUME i <= Len(L!ActiveFirst) PROVE FALSE
      OBVIOUS
    <3>1. i \in 1..Len(all) /\ i \in DOMAIN L!ActiveFirst
      BY <1>5, <1>7
    <3>2. x \in L!ToSet(active)
      BY <1>1, <1>4, <2>1, <3>1 DEF L!ToSet
    <3> QED BY <1>11, <3>2 DEF ListsExact
  <2>3. ASSUME NEW y \in L!ToSet(active) PROVE y \in gone
    <3>1. PICK j \in DOMAIN L!ActiveFirst : y = L!ActiveFirst[j]
      BY <1>1 DEF L!ToSet
    <3>2. j \in 1..m /\ j \in 1..Len(all) /\ j <= Len(L!ActiveFirst)
      BY <1>5, <1>7, <2>2
    <3> QED BY <1>4, <1>9, <3>1, <3>2
  <2> QED BY <2>3
<1> QED BY <1>10, <1>11

LEMMA WithoutFiled ==
    ASSUME NEW S, NEW s \in Seq(S), Distinct(s), NEW gone, NEW table, Recent(table, s),
           NEW next, \A x \in L!ToSet(s) \ gone : next[x] = table[x]
    PROVE  LET t == L!Without(s, gone)
           IN  /\ t \in Seq(S) /\ L!ToSet(t) = L!ToSet(s) \ gone
               /\ Distinct(t) /\ Recent(next, t)
<1> DEFINE t == L!Without(s, gone)
<1> HIDE DEF t
<1>1. /\ t \in Seq(S) /\ L!ToSet(t) = L!ToSet(s) \ gone
      /\ \A m, n \in DOMAIN t : m < n =>
           \E i, j \in DOMAIN s : i < j /\ t[m] = s[i] /\ t[n] = s[j]
  BY WithoutKeeps DEF t
<1>2. DOMAIN s = 1..Len(s) /\ DOMAIN t = 1..Len(t)
  BY <1>1
<1>3. ASSUME NEW m \in DOMAIN t, NEW n \in DOMAIN t, m < n
      PROVE  t[m] # t[n] /\ next[t[n]].lastCheck <= next[t[m]].lastCheck
  <2>1. PICK i, j \in DOMAIN s : i < j /\ t[m] = s[i] /\ t[n] = s[j]
    BY <1>1, <1>3
  <2>2. t[m] \in L!ToSet(s) \ gone /\ t[n] \in L!ToSet(s) \ gone
    BY <1>1 DEF L!ToSet
  <2>3. i # j
    BY <1>2, <2>1
  <2> QED BY <2>1, <2>2, <2>3 DEF Distinct, Recent
<1>4. Distinct(t)
  <2> SUFFICES ASSUME NEW m \in DOMAIN t, NEW n \in DOMAIN t, t[m] = t[n], m # n
               PROVE  FALSE
    BY DEF Distinct
  <2>1. m < n \/ n < m
    BY <1>2
  <2> QED BY <1>3, <2>1
<1>5. Recent(next, t)
  BY <1>3 DEF Recent
<1> QED BY <1>1, <1>4, <1>5 DEF t

LEMMA FrontFiled ==
    ASSUME NEW S, NEW t \in Seq(S), Distinct(t), NEW k \in S, k \notin L!ToSet(t),
           NEW table, Recent(table, t),
           \A x \in L!ToSet(t) : table[x].lastCheck <= table[k].lastCheck
    PROVE  LET u == <<k>> \o t
           IN  /\ u \in Seq(S) /\ L!ToSet(u) = L!ToSet(t) \cup {k}
               /\ Distinct(u) /\ Recent(table, u)
<1> DEFINE u == <<k>> \o t
<1>1. /\ u \in Seq(S) /\ Len(u) = 1 + Len(t) /\ Len(t) \in Nat
      /\ \A i \in 1..1 + Len(t) : u[i] = IF i = 1 THEN k ELSE t[i - 1]
  OBVIOUS
<1> HIDE DEF u
<1>2. DOMAIN u = 1..1 + Len(t) /\ DOMAIN t = 1..Len(t)
  BY <1>1
<1>3. L!ToSet(u) = L!ToSet(t) \cup {k}
  <2>1. ASSUME NEW i \in DOMAIN u PROVE u[i] \in L!ToSet(t) \cup {k}
    <3>1. i # 1 => i - 1 \in DOMAIN t
      BY <1>2, <1>1
    <3> QED BY <1>1, <1>2, <3>1 DEF L!ToSet
  <2>2. ASSUME NEW i \in DOMAIN t PROVE t[i] \in L!ToSet(u)
    <3>1. i + 1 \in DOMAIN u /\ i + 1 # 1 /\ (i + 1) - 1 = i
      BY <1>1, <1>2
    <3>2. u[i + 1] = t[i]
      BY <1>1, <1>2, <3>1
    <3> QED BY <3>1, <3>2 DEF L!ToSet
  <2>3. k \in L!ToSet(u)
    <3>1. 1 \in DOMAIN u /\ u[1] = k
      BY <1>1, <1>2
    <3> QED BY <3>1 DEF L!ToSet
  <2> QED BY <2>1, <2>2, <2>3 DEF L!ToSet
<1>4. ASSUME NEW m \in DOMAIN u, NEW n \in DOMAIN u, m < n
      PROVE  u[m] # u[n] /\ table[u[n]].lastCheck <= table[u[m]].lastCheck
  <2>1. n - 1 \in DOMAIN t /\ u[n] = t[n - 1] /\ u[n] \in L!ToSet(t)
    <3>1. n - 1 \in DOMAIN t /\ n # 1
      BY <1>1, <1>2, <1>4
    <3>2. u[n] = t[n - 1]
      BY <1>1, <1>2, <3>1
    <3> QED BY <3>1, <3>2 DEF L!ToSet
  <2>2. CASE m = 1
    BY <1>1, <1>2, <2>1, <2>2
  <2>3. CASE m # 1
    <3>1. m - 1 \in DOMAIN t /\ u[m] = t[m - 1] /\ m - 1 < n - 1 /\ m - 1 # n - 1
      BY <1>1, <1>2, <1>4, <2>3
    <3> QED BY <2>1, <3>1 DEF Distinct, Recent
  <2> QED BY <2>2, <2>3
<1>5. Distinct(u)
  <2> SUFFICES ASSUME NEW m \in DOMAIN u, NEW n \in DOMAIN u, u[m] = u[n], m # n
               PROVE  FALSE
    BY DEF Distinct
  <2>1. m < n \/ n < m
    BY <1>2
  <2> QED BY <1>4, <2>1
<1>6. Recent(table, u)
  BY <1>4 DEF Recent
<1> QED BY <1>1, <1>3, <1>5, <1>6 DEF u

(* The count of the keys seen once when keys leave the table.               *)
LEMMA OneShotCounts ==
    ASSUME LimiterInv, NEW gone \in SUBSET DOMAIN buckets
    PROVE  /\ L!OneShotWithout(gone) = Cardinality(SeenOnce \ gone)
           /\ IsFiniteSet(SeenOnce \ gone)
<1>1. SeenOnce \in SUBSET DOMAIN buckets /\ IsFiniteSet(DOMAIN buckets)
  BY TableFinite DEF LimiterInv, SeenOnce
<1>2. IsFiniteSet(SeenOnce) /\ IsFiniteSet(gone)
  BY <1>1, FS_Subset
<1>3. /\ IsFiniteSet(SeenOnce \ gone)
      /\ Cardinality(SeenOnce \ gone) = Cardinality(SeenOnce) - Cardinality(SeenOnce \cap gone)
  BY <1>2, FS_Difference
<1>4. {k \in gone : buckets[k].hits = 1} = SeenOnce \cap gone
  BY DEF SeenOnce
<1> QED BY <1>3, <1>4, LimiterCounts DEF LimiterInv, L!OneShotWithout

LEMMA InitLimiter ==
    ASSUME L!LimiterAssumption, L!Init PROVE LimiterInv
<1>1. /\ DOMAIN buckets = {} /\ DOMAIN granted = {} /\ limiterClock = 0 /\ oneShot = 0
      /\ active = <<>> /\ blocked = <<>>
  BY DEF L!Init
<1>2. buckets \in [{} -> Bucket] /\ granted \in [{} -> Grant]
  BY DEF L!Init
<1>3. L!ToSet(active) = {} /\ L!ToSet(blocked) = {} /\ SeenOnce = {}
  BY <1>1 DEF L!ToSet, SeenOnce
<1>4. Cardinality({}) = 0
  BY FS_EmptySet
<1>5. LimiterTypes /\ ListsExact
  BY <1>1, <1>2, <1>3 DEF LimiterTypes, ListsExact, Distinct
<1>6. Capped /\ Filed /\ oneShot = Cardinality(SeenOnce)
  BY <1>1, <1>3, <1>4 DEF Capped, Filed, L!LimiterAssumption
<1>7. Recent(buckets, active) /\ Recent(buckets, blocked)
  BY <1>1 DEF Recent
<1> QED BY <1>1, <1>5, <1>6, <1>7 DEF LimiterInv

LEMMA TickLimiter ==
    ASSUME LimiterInv, L!Tick PROVE LimiterInv'
<1>1. /\ limiterClock' = limiterClock + 1 /\ buckets' = buckets /\ active' = active /\ blocked' = blocked
      /\ oneShot' = oneShot /\ granted' = granted
  BY DEF L!Tick
<1>2. ASSUME NEW k \in DOMAIN buckets PROVE Allowed(buckets[k], granted[k])'
  <2>1. buckets[k] \in Bucket /\ granted[k] \in Grant /\ Allowed(buckets[k], granted[k])
    BY DEF LimiterInv, LimiterTypes
  <2> QED BY <1>1, <2>1 DEF Allowed, Bucket, Grant, LimiterInv, LimiterTypes
<1>3. LimiterTypes' /\ ListsExact' /\ Capped' /\ Filed' /\ SeenOnce' = SeenOnce
  BY <1>1 DEF LimiterInv, LimiterTypes, ListsExact, Capped, Filed, SeenOnce
<1> QED BY <1>1, <1>2, <1>3 DEF LimiterInv

(* A sweep takes keys of the table and leaves the rest as it is.            *)
LEMMA SweptAreTracked ==
    ASSUME LimiterTypes, ListsExact
    PROVE  /\ L!Cleaned \subseteq DOMAIN buckets
           /\ \A k \in L!Cleaned : L!Idle(k)
<1>1. /\ \A i \in DOMAIN active : i \in i..Len(active)
      /\ \A i \in DOMAIN blocked : i \in i..Len(blocked)
  BY DEF LimiterTypes
<1>2. ASSUME NEW k \in L!Swept(active) PROVE k \in L!ToSet(active) /\ L!Idle(k)
  BY <1>1 DEF L!Swept, L!ToSet
<1>3. ASSUME NEW k \in L!Swept(blocked) PROVE k \in L!ToSet(blocked) /\ L!Idle(k)
  BY <1>1 DEF L!Swept, L!ToSet
<1> QED BY <1>2, <1>3 DEF L!Cleaned, ListsExact

LEMMA CleanupLimiter ==
    ASSUME L!LimiterAssumption, LimiterInv, L!Cleanup PROVE LimiterInv'
<1> DEFINE gone == L!Cleaned
           stay == DOMAIN buckets \ gone
<1>1. gone \in SUBSET DOMAIN buckets
  BY SweptAreTracked DEF LimiterInv
<1>2. /\ buckets' = [k \in stay |-> buckets[k]] /\ granted' = [k \in stay |-> granted[k]]
      /\ oneShot' = L!OneShotWithout(gone) /\ limiterClock' = limiterClock
      /\ active' = L!Without(active, gone) /\ blocked' = L!Without(blocked, gone)
  BY DEF L!Cleanup, L!Only, LimiterInv, LimiterTypes
<1> HIDE DEF gone
<1>3. /\ DOMAIN buckets' = stay /\ \A k \in stay : buckets'[k] = buckets[k] /\ granted'[k] = granted[k]
  BY <1>2
<1>4. /\ active' \in Seq(ClientKey) /\ L!ToSet(active') = L!ToSet(active) \ gone
      /\ Distinct(active') /\ Recent(buckets', active')
      /\ blocked' \in Seq(ClientKey) /\ L!ToSet(blocked') = L!ToSet(blocked) \ gone
      /\ Distinct(blocked') /\ Recent(buckets', blocked')
  <2>1. /\ \A x \in L!ToSet(active) \ gone : buckets'[x] = buckets[x]
        /\ \A x \in L!ToSet(blocked) \ gone : buckets'[x] = buckets[x]
    BY <1>3 DEF LimiterInv, ListsExact
  <2> QED BY <1>2, <2>1, WithoutFiled DEF LimiterInv, LimiterTypes, ListsExact
<1>5. LimiterTypes'
  BY <1>2, <1>3, <1>4 DEF LimiterInv, LimiterTypes
<1>6. ListsExact'
  BY <1>3, <1>4 DEF LimiterInv, ListsExact
<1>7. Capped'
  <2>1. IsFiniteSet(DOMAIN buckets) /\ stay \in SUBSET DOMAIN buckets
    BY TableFinite DEF LimiterInv
  <2>2. /\ Cardinality(stay) <= Cardinality(DOMAIN buckets)
        /\ Cardinality(stay) \in Nat /\ Cardinality(DOMAIN buckets) \in Nat
    BY <2>1, FS_Subset, FS_CardinalityType
  <2>3. CASE MaxKeys > 0
    <3>1. Cardinality(DOMAIN buckets) <= MaxKeys /\ MaxKeys \in Int
      BY <2>3 DEF LimiterInv, Capped, L!LimiterAssumption
    <3> QED BY <1>3, <2>2, <3>1 DEF Capped
  <2> QED BY <2>3 DEF Capped
<1>8. Filed'
  BY <1>1, <1>3, <1>4 DEF LimiterInv, ListsExact, Filed
<1>9. oneShot' = Cardinality(SeenOnce')
  <2>1. SeenOnce' = SeenOnce \ gone
    BY <1>3 DEF SeenOnce
  <2> QED BY <1>1, <1>2, <2>1, OneShotCounts
<1>10. ASSUME NEW k \in DOMAIN buckets' PROVE Allowed(buckets[k], granted[k])'
  BY <1>2, <1>3 DEF LimiterInv, Allowed
<1> QED BY <1>4, <1>5, <1>6, <1>7, <1>8, <1>9, <1>10 DEF LimiterInv

(* A request: the keys that make room, the bucket it finds or gets, what is *)
(* left of the tokens and what was let through.                             *)
Known(k) == k \in DOMAIN buckets
Gone(k) ==
    IF ~Known(k) /\ MaxKeys > 0 /\ L!Cardinality(DOMAIN buckets) >= MaxKeys
      THEN L!ToSet(L!EvictLocked) ELSE {}
Found(k) == IF Known(k) THEN buckets[k]
            ELSE [tokens |-> Burst * Unit, lastCheck |-> limiterClock, hits |-> 0]
Tokens(k) == L!Refill(Found(k))
Ok(k) == Tokens(k) >= Unit
Spent(k) == IF Ok(k) THEN Tokens(k) - Unit ELSE Tokens(k)
Hits(k) == IF Found(k).hits < MaxHits THEN Found(k).hits + 1 ELSE Found(k).hits
Others(k) == (DOMAIN buckets \ Gone(k)) \ {k}
Left(k) == [tokens |-> Spent(k), lastCheck |-> limiterClock, hits |-> Hits(k)]
Earlier(k) == IF Known(k) THEN granted[k] ELSE [count |-> 0, since |-> limiterClock]
Granted(k) == [Earlier(k) EXCEPT !.count = Earlier(k).count + (IF Ok(k) THEN 1 ELSE 0)]

LEMMA AllowDoes ==
    ASSUME NEW k \in ClientKey, L!Allow(k)
    PROVE  /\ buckets' = [x \in Others(k) \cup {k} |-> IF x = k THEN Left(k) ELSE buckets[x]]
           /\ granted' = [x \in Others(k) \cup {k} |-> IF x = k THEN Granted(k) ELSE granted[x]]
           /\ oneShot' = L!OneShotWithout(Gone(k))
                           + (IF ~Known(k) THEN 1 ELSE IF Found(k).hits = 1 THEN -1 ELSE 0)
           /\ IF Spent(k) < Unit
                THEN /\ active' = L!Without(active, Gone(k) \cup {k})
                     /\ blocked' = <<k>> \o L!Without(blocked, Gone(k) \cup {k})
                ELSE /\ active' = <<k>> \o L!Without(active, Gone(k) \cup {k})
                     /\ blocked' = L!Without(blocked, Gone(k) \cup {k})
           /\ limiterClock' = limiterClock
BY Zenon DEF L!Allow, Known, Gone, Found, Tokens, Ok, Spent, Hits, Others, Left, Earlier, Granted,
             L!BlockedNext, L!Checked

LEMMA GoneIs ==
    ASSUME L!LimiterAssumption, LimiterInv, NEW k \in ClientKey
    PROVE  /\ Gone(k) \subseteq DOMAIN buckets
           /\ Known(k) => Gone(k) = {}
           /\ ~Known(k) /\ MaxKeys > 0 /\ Cardinality(DOMAIN buckets) >= MaxKeys => Gone(k) # {}
           /\ Gone(k) \cap L!ToSet(blocked) # {} => L!ToSet(active) \subseteq Gone(k)
<1>1. CASE ~Known(k) /\ MaxKeys > 0 /\ Cardinality(DOMAIN buckets) >= MaxKeys
  <2>1. DOMAIN buckets # {}
    <3> SUFFICES ASSUME DOMAIN buckets = {} PROVE FALSE
      OBVIOUS
    <3>1. Cardinality(DOMAIN buckets) = 0
      BY FS_EmptySet
    <3>2. MaxKeys \in Int /\ MaxKeys > 0 /\ Cardinality(DOMAIN buckets) >= MaxKeys
      BY <1>1 DEF L!LimiterAssumption
    <3> QED BY <3>1, <3>2
  <2>2. Gone(k) = L!ToSet(L!EvictLocked)
    BY <1>1, LimiterCounts DEF Gone
  <2> QED BY <1>1, <2>1, <2>2, Eviction DEF LimiterInv
<1>2. CASE ~(~Known(k) /\ MaxKeys > 0 /\ Cardinality(DOMAIN buckets) >= MaxKeys)
  <2>1. Gone(k) = {}
    BY <1>2, LimiterCounts DEF Gone
  <2> QED BY <1>2, <2>1
<1> QED BY <1>1, <1>2

LEMMA BucketFound ==
    ASSUME L!LimiterAssumption, LimiterInv, NEW k \in ClientKey
    PROVE  /\ Found(k).tokens \in 0..Burst * Unit /\ Found(k).lastCheck \in Nat
           /\ Found(k).hits \in Nat /\ (Known(k) => Found(k).hits # 0)
           /\ ~Known(k) => Found(k).hits = 0
           /\ Earlier(k) \in Grant
           /\ Allowed(Found(k), Earlier(k))
<1>1. Burst * Unit \in Nat /\ Rate \in Nat /\ limiterClock \in Nat
  BY DEF L!LimiterAssumption, LimiterInv, LimiterTypes
<1>2. CASE Known(k)
  <2>1. /\ Found(k) = buckets[k] /\ Earlier(k) = granted[k]
        /\ buckets[k] \in Bucket /\ granted[k] \in Grant
    BY <1>2 DEF Known, Found, Earlier, LimiterInv, LimiterTypes
  <2> QED BY <1>2, <2>1 DEF LimiterInv, Bucket, Known
<1>3. CASE ~Known(k)
  <2>1. /\ Found(k) = [tokens |-> Burst * Unit, lastCheck |-> limiterClock, hits |-> 0]
        /\ Earlier(k) = [count |-> 0, since |-> limiterClock]
    BY <1>3 DEF Found, Earlier
  <2>2. 0 * Unit = 0 /\ (limiterClock - limiterClock) * Rate = 0
    BY <1>1 DEF L!LimiterAssumption
  <2> QED BY <1>1, <1>3, <2>1, <2>2 DEF Grant, Allowed
<1> QED BY <1>2, <1>3

(* The refill pays for what is let through.                                 *)
LEMMA BucketLeft ==
    ASSUME L!LimiterAssumption, LimiterInv, NEW k \in ClientKey
    PROVE  /\ Left(k) \in Bucket /\ Granted(k) \in Grant
           /\ Allowed(Left(k), Granted(k))
           /\ Left(k).tokens = Spent(k) /\ Left(k).lastCheck = limiterClock /\ Left(k).hits = Hits(k)
<1> DEFINE b == Found(k)
           g == Earlier(k)
           e == (limiterClock - b.lastCheck) * Rate
           r == (b.lastCheck - g.since) * Rate
           full == Burst * Unit
<1>1. /\ b.tokens \in 0..full /\ b.lastCheck \in Nat /\ b.hits \in Nat
      /\ g.count \in Nat /\ g.since \in Nat /\ g \in Grant
      /\ g.since <= b.lastCheck /\ b.lastCheck <= limiterClock
      /\ g.count * Unit + b.tokens <= full + r
  BY BucketFound DEF Allowed, Grant
<1>2. /\ full \in Nat /\ Rate \in Nat /\ Unit \in Nat /\ limiterClock \in Nat
      /\ MaxHits \in Nat /\ MaxHits > 1
  BY DEF L!LimiterAssumption, LimiterInv, LimiterTypes
<1>3. e \in Nat /\ r \in Int
  <2>1. limiterClock - b.lastCheck \in Nat /\ b.lastCheck - g.since \in Int
    BY <1>1, <1>2
  <2> QED BY <1>2, <2>1
<1>4. e + r = (limiterClock - g.since) * Rate
  BY <1>1, <1>2
<1>5. Tokens(k) = (IF b.tokens + e > full THEN full ELSE b.tokens + e)
  BY DEF Tokens, L!Refill
<1> HIDE DEF b, g, e, r, full
<1>6. Tokens(k) \in 0..full /\ Tokens(k) <= b.tokens + e
  BY <1>1, <1>2, <1>3, <1>5
<1>7. Spent(k) \in 0..full
  BY <1>2, <1>6 DEF Spent, Ok
<1>8. Hits(k) \in Nat \ {0}
  BY <1>1, <1>2 DEF Hits, b
<1>9. Left(k) \in Bucket
  BY <1>2, <1>7, <1>8 DEF Left, Bucket, full
<1>10. /\ Granted(k) \in Grant /\ Granted(k).since = g.since
       /\ Granted(k).count = g.count + (IF Ok(k) THEN 1 ELSE 0)
  BY <1>1 DEF Granted, Grant, g
<1>11. Granted(k).count * Unit + Spent(k) = g.count * Unit + Tokens(k)
  <2>1. CASE Ok(k)
    <3>1. (g.count + 1) * Unit = g.count * Unit + Unit
      BY <1>1, <1>2
    <3>2. g.count * Unit \in Int
      BY <1>1, <1>2
    <3> QED BY <1>2, <1>6, <1>10, <2>1, <3>1, <3>2 DEF Spent
  <2>2. CASE ~Ok(k)
    BY <1>1, <1>10, <2>2 DEF Spent
  <2> QED BY <2>1, <2>2
<1>12. Granted(k).count * Unit + Spent(k) <= full + (limiterClock - g.since) * Rate
  <2>1. g.count * Unit \in Int
    BY <1>1, <1>2
  <2> QED BY <1>1, <1>2, <1>3, <1>4, <1>6, <1>11, <2>1
<1>13. g.since <= limiterClock
  BY <1>1, <1>2
<1> QED BY <1>2, <1>9, <1>10, <1>12, <1>13 DEF Left, Allowed, full

(* A request leaves the table with the keys that stay and its own.          *)
LEMMA AllowTable ==
    ASSUME L!LimiterAssumption, LimiterInv, NEW k \in ClientKey, L!Allow(k)
    PROVE  /\ DOMAIN buckets' = (DOMAIN buckets \ Gone(k)) \cup {k}
           /\ buckets' \in [DOMAIN buckets' -> Bucket] /\ granted' \in [DOMAIN buckets' -> Grant]
           /\ buckets'[k] = Left(k) /\ granted'[k] = Granted(k)
           /\ \A x \in DOMAIN buckets' \ {k} :
                x \in DOMAIN buckets \ Gone(k) /\ buckets'[x] = buckets[x] /\ granted'[x] = granted[x]
<1>1. /\ buckets' = [x \in Others(k) \cup {k} |-> IF x = k THEN Left(k) ELSE buckets[x]]
      /\ granted' = [x \in Others(k) \cup {k} |-> IF x = k THEN Granted(k) ELSE granted[x]]
  BY AllowDoes
<1>2. Left(k) \in Bucket /\ Granted(k) \in Grant
  BY BucketLeft
<1>3. Others(k) \cup {k} = (DOMAIN buckets \ Gone(k)) \cup {k}
  BY DEF Others
<1>4. \A x \in Others(k) : x \in DOMAIN buckets /\ buckets[x] \in Bucket /\ granted[x] \in Grant
  BY DEF Others, LimiterInv, LimiterTypes
<1> HIDE DEF Others
<1> QED BY <1>1, <1>2, <1>3, <1>4

(* The key moves to the front of the list of its state; nothing else moves. *)
LEMMA AllowLists ==
    ASSUME L!LimiterAssumption, LimiterInv, NEW k \in ClientKey, L!Allow(k)
    PROVE  /\ active' \in Seq(ClientKey) /\ Distinct(active') /\ Recent(buckets', active')
           /\ blocked' \in Seq(ClientKey) /\ Distinct(blocked') /\ Recent(buckets', blocked')
           /\ L!ToSet(active') = (L!ToSet(active) \ (Gone(k) \cup {k}))
                                   \cup (IF Spent(k) < Unit THEN {} ELSE {k})
           /\ L!ToSet(blocked') = (L!ToSet(blocked) \ (Gone(k) \cup {k}))
                                   \cup (IF Spent(k) < Unit THEN {k} ELSE {})
<1> DEFINE gone == Gone(k) \cup {k}
           a == L!Without(active, gone)
           d == L!Without(blocked, gone)
<1> HIDE DEF gone
<1>1. /\ DOMAIN buckets' = (DOMAIN buckets \ Gone(k)) \cup {k}
      /\ buckets'[k] = Left(k)
      /\ \A x \in DOMAIN buckets' \ {k} : x \in DOMAIN buckets \ Gone(k) /\ buckets'[x] = buckets[x]
  BY AllowTable
<1>2. ASSUME NEW x \in (L!ToSet(active) \cup L!ToSet(blocked)) \ gone
      PROVE  buckets'[x] = buckets[x] /\ buckets[x].lastCheck <= buckets'[k].lastCheck
  <2>1. x \in DOMAIN buckets' \ {k} /\ x \in DOMAIN buckets
    BY <1>1 DEF gone, LimiterInv, ListsExact
  <2>2. buckets[x].lastCheck <= limiterClock
    BY <2>1 DEF LimiterInv, Allowed
  <2> QED BY <1>1, <2>1, <2>2, BucketLeft
<1>3. a \in Seq(ClientKey) /\ L!ToSet(a) = L!ToSet(active) \ gone /\ Distinct(a) /\ Recent(buckets', a)
  <2>1. \A x \in L!ToSet(active) \ gone : buckets'[x] = buckets[x]
    BY <1>2
  <2> QED BY <2>1, WithoutFiled DEF LimiterInv, LimiterTypes, ListsExact
<1>4. d \in Seq(ClientKey) /\ L!ToSet(d) = L!ToSet(blocked) \ gone /\ Distinct(d) /\ Recent(buckets', d)
  <2>1. \A x \in L!ToSet(blocked) \ gone : buckets'[x] = buckets[x]
    BY <1>2
  <2> QED BY <2>1, WithoutFiled DEF LimiterInv, LimiterTypes, ListsExact
<1> HIDE DEF a, d
<1>5. k \notin L!ToSet(a) /\ k \notin L!ToSet(d)
  BY <1>3, <1>4 DEF gone
<1>6. /\ \A x \in L!ToSet(a) : buckets'[x].lastCheck <= buckets'[k].lastCheck
      /\ \A x \in L!ToSet(d) : buckets'[x].lastCheck <= buckets'[k].lastCheck
  BY <1>2, <1>3, <1>4
<1>7. CASE Spent(k) < Unit
  <2>1. active' = a /\ blocked' = <<k>> \o d
    BY <1>7, AllowDoes DEF a, d, gone
  <2>2. /\ <<k>> \o d \in Seq(ClientKey) /\ L!ToSet(<<k>> \o d) = L!ToSet(d) \cup {k}
        /\ Distinct(<<k>> \o d) /\ Recent(buckets', <<k>> \o d)
    BY <1>4, <1>5, <1>6, FrontFiled
  <2> QED BY <1>3, <1>4, <1>7, <2>1, <2>2 DEF gone
<1>8. CASE ~(Spent(k) < Unit)
  <2>1. active' = <<k>> \o a /\ blocked' = d
    BY <1>8, AllowDoes DEF a, d, gone
  <2>2. /\ <<k>> \o a \in Seq(ClientKey) /\ L!ToSet(<<k>> \o a) = L!ToSet(a) \cup {k}
        /\ Distinct(<<k>> \o a) /\ Recent(buckets', <<k>> \o a)
    BY <1>3, <1>5, <1>6, FrontFiled
  <2> QED BY <1>3, <1>4, <1>8, <2>1, <2>2 DEF gone
<1> QED BY <1>7, <1>8

LEMMA AllowOneShot ==
    ASSUME L!LimiterAssumption, LimiterInv, NEW k \in ClientKey, L!Allow(k)
    PROVE  oneShot' = Cardinality(SeenOnce')
<1>1. /\ DOMAIN buckets' = (DOMAIN buckets \ Gone(k)) \cup {k}
      /\ buckets'[k].hits = Hits(k)
      /\ \A x \in DOMAIN buckets' \ {k} : x \in DOMAIN buckets \ Gone(k) /\ buckets'[x] = buckets[x]
  BY AllowTable, BucketLeft
<1>2. /\ Gone(k) \in SUBSET DOMAIN buckets /\ (Known(k) => Gone(k) = {})
      /\ Found(k).hits \in Nat /\ (Known(k) => Found(k).hits # 0) /\ (~Known(k) => Found(k).hits = 0)
      /\ MaxHits \in Nat /\ MaxHits > 1
  BY GoneIs, BucketFound DEF L!LimiterAssumption
<1>3. /\ oneShot' = Cardinality(SeenOnce \ Gone(k))
                      + (IF ~Known(k) THEN 1 ELSE IF Found(k).hits = 1 THEN -1 ELSE 0)
      /\ IsFiniteSet(SeenOnce \ Gone(k))
  BY <1>2, AllowDoes, OneShotCounts
<1>4. Cardinality(SeenOnce \ Gone(k)) \in Nat
  BY <1>3, FS_CardinalityType
<1>5. Hits(k) = 1 <=> ~Known(k)
  BY <1>2 DEF Hits
<1>6. SeenOnce' = ((SeenOnce \ Gone(k)) \ {k}) \cup (IF Known(k) THEN {} ELSE {k})
  BY <1>1, <1>5 DEF SeenOnce
<1>7. CASE ~Known(k)
  <2>1. k \notin SeenOnce \ Gone(k)
    BY <1>7 DEF SeenOnce, Known
  <2>2. SeenOnce' = (SeenOnce \ Gone(k)) \cup {k}
    BY <1>6, <1>7, <2>1
  <2> QED BY <1>3, <1>7, <2>1, <2>2, FS_AddElement
<1>8. CASE Known(k)
  <2>1. k \in SeenOnce \ Gone(k) <=> Found(k).hits = 1
    BY <1>2, <1>8 DEF SeenOnce, Known, Found
  <2>2. SeenOnce' = (SeenOnce \ Gone(k)) \ {k}
    BY <1>6, <1>8
  <2>3. Cardinality(SeenOnce') = IF Found(k).hits = 1 THEN Cardinality(SeenOnce \ Gone(k)) - 1
                                 ELSE Cardinality(SeenOnce \ Gone(k))
    BY <1>3, <2>1, <2>2, FS_RemoveElement
  <2> QED BY <1>3, <1>4, <1>8, <2>3
<1> QED BY <1>7, <1>8

LEMMA AllowCapped ==
    ASSUME L!LimiterAssumption, LimiterInv, NEW k \in ClientKey, L!Allow(k)
    PROVE  Capped'
<1> DEFINE D == DOMAIN buckets
           stay == D \ Gone(k)
<1>1. DOMAIN buckets' = stay \cup {k}
  BY AllowTable
<1>2. /\ Gone(k) \subseteq D /\ (Known(k) => Gone(k) = {})
      /\ ~Known(k) /\ MaxKeys > 0 /\ Cardinality(D) >= MaxKeys => Gone(k) # {}
  BY GoneIs
<1>3. IsFiniteSet(D) /\ Cardinality(D) \in Nat /\ MaxKeys \in Int
  BY TableFinite, FS_CardinalityType DEF LimiterInv, L!LimiterAssumption
<1>4. IsFiniteSet(stay) /\ Cardinality(stay) \in Nat /\ Cardinality(stay) <= Cardinality(D)
  BY <1>3, FS_Subset, FS_CardinalityType
<1>5. Cardinality(stay \cup {k}) \in {Cardinality(stay), Cardinality(stay) + 1}
  BY <1>4, FS_AddElement
<1> SUFFICES ASSUME MaxKeys > 0 PROVE Cardinality(stay \cup {k}) <= MaxKeys
  BY <1>1 DEF Capped
<1>6. Cardinality(D) <= MaxKeys
  BY DEF LimiterInv, Capped
<1>7. CASE Known(k)
  <2>1. stay \cup {k} = D
    BY <1>2, <1>7 DEF Known
  <2> QED BY <1>6, <2>1
<1>8. CASE ~Known(k) /\ Cardinality(D) >= MaxKeys
  <2>1. PICK e \in D : e \in Gone(k)
    BY <1>2, <1>8
  <2>2. IsFiniteSet(D \ {e}) /\ Cardinality(D \ {e}) = Cardinality(D) - 1
    BY <1>3, <2>1, FS_RemoveElement
  <2>3. stay \in SUBSET (D \ {e})
    BY <2>1
  <2>4. Cardinality(stay) <= Cardinality(D) - 1
    BY <2>2, <2>3, FS_Subset
  <2> QED BY <1>3, <1>4, <1>5, <1>6, <2>4
<1>9. CASE ~(Cardinality(D) >= MaxKeys)
  BY <1>3, <1>4, <1>5, <1>9
<1> QED BY <1>7, <1>8, <1>9

LEMMA AllowLimiter ==
    ASSUME L!LimiterAssumption, LimiterInv, NEW k \in ClientKey, L!Allow(k)
    PROVE  LimiterInv'
<1>1. /\ DOMAIN buckets' = (DOMAIN buckets \ Gone(k)) \cup {k}
      /\ buckets' \in [DOMAIN buckets' -> Bucket] /\ granted' \in [DOMAIN buckets' -> Grant]
      /\ buckets'[k] = Left(k) /\ granted'[k] = Granted(k)
      /\ \A x \in DOMAIN buckets' \ {k} :
           x \in DOMAIN buckets \ Gone(k) /\ buckets'[x] = buckets[x] /\ granted'[x] = granted[x]
  BY AllowTable
<1>2. /\ active' \in Seq(ClientKey) /\ Distinct(active') /\ Recent(buckets', active')
      /\ blocked' \in Seq(ClientKey) /\ Distinct(blocked') /\ Recent(buckets', blocked')
      /\ L!ToSet(active') = (L!ToSet(active) \ (Gone(k) \cup {k}))
                              \cup (IF Spent(k) < Unit THEN {} ELSE {k})
      /\ L!ToSet(blocked') = (L!ToSet(blocked) \ (Gone(k) \cup {k}))
                              \cup (IF Spent(k) < Unit THEN {k} ELSE {})
  BY AllowLists
<1>3. limiterClock' = limiterClock /\ DOMAIN buckets \subseteq ClientKey
  BY AllowDoes DEF LimiterInv, LimiterTypes
<1>4. LimiterTypes'
  BY <1>1, <1>2, <1>3 DEF LimiterInv, LimiterTypes
<1>5. ListsExact'
  <2>1. /\ L!ToSet(active) \cap L!ToSet(blocked) = {}
        /\ L!ToSet(active) \cup L!ToSet(blocked) = DOMAIN buckets
    BY DEF LimiterInv, ListsExact
  <2>2. L!ToSet(active') \cap L!ToSet(blocked') = {}
    BY <1>2, <2>1
  <2>3. L!ToSet(active') \cup L!ToSet(blocked') = DOMAIN buckets'
    BY <1>1, <1>2, <2>1
  <2> QED BY <1>2, <2>2, <2>3 DEF ListsExact
<1>6. Filed'
  <2>1. Spent(k) \in Int /\ Unit \in Int /\ buckets'[k].tokens = Spent(k)
    BY <1>1, BucketLeft DEF Bucket, L!LimiterAssumption
  <2>2. ASSUME NEW x \in L!ToSet(active') PROVE buckets'[x].tokens >= Unit
    <3>1. CASE x = k
      <4>1. ~(Spent(k) < Unit)
        BY <1>2, <2>2, <3>1
      <4> QED BY <2>1, <3>1, <4>1
    <3>2. CASE x # k
      <4>1. x \in L!ToSet(active) /\ x \in DOMAIN buckets' \ {k}
        BY <1>2, <1>5, <2>2, <3>2 DEF ListsExact
      <4> QED BY <1>1, <4>1 DEF LimiterInv, Filed
    <3> QED BY <3>1, <3>2
  <2>3. ASSUME NEW x \in L!ToSet(blocked') PROVE buckets'[x].tokens < Unit
    <3>1. CASE x = k
      <4>1. Spent(k) < Unit
        BY <1>2, <2>3, <3>1
      <4> QED BY <2>1, <3>1, <4>1
    <3>2. CASE x # k
      <4>1. x \in L!ToSet(blocked) /\ x \in DOMAIN buckets' \ {k}
        BY <1>2, <1>5, <2>3, <3>2 DEF ListsExact
      <4> QED BY <1>1, <4>1 DEF LimiterInv, Filed
    <3> QED BY <3>1, <3>2
  <2> QED BY <2>2, <2>3 DEF Filed
<1>7. ASSUME NEW x \in DOMAIN buckets' PROVE Allowed(buckets[x], granted[x])'
  <2>1. CASE x = k
    <3>1. Allowed(Left(k), Granted(k))
      BY BucketLeft
    <3> QED BY <1>1, <1>3, <2>1, <3>1 DEF Allowed
  <2>2. CASE x # k
    <3>1. Allowed(buckets[x], granted[x])
      BY <1>1, <2>2 DEF LimiterInv
    <3> QED BY <1>1, <1>3, <2>2, <3>1 DEF Allowed
  <2> QED BY <2>1, <2>2
<1> QED BY <1>2, <1>4, <1>5, <1>6, <1>7, AllowCapped, AllowOneShot DEF LimiterInv

LEMMA NextLimiter ==
    ASSUME L!LimiterAssumption, LimiterInv, [L!Next]_(L!vars) PROVE LimiterInv'
<1>1. ASSUME UNCHANGED L!vars PROVE LimiterInv'
  BY <1>1 DEF L!vars, LimiterInv, LimiterTypes, ListsExact, Capped, Filed, SeenOnce, Allowed
<1> QED BY <1>1, AllowLimiter, TickLimiter, CleanupLimiter DEF L!Next

LEMMA LimiterIsSound == ASSUME L!LimiterAssumption, LimiterInv PROVE L!TableSound
<1>1. L!TableExact
  <2>1. Cardinality({k \in DOMAIN buckets : buckets[k].hits = 1}) = oneShot
    BY DEF LimiterInv, SeenOnce
  <2> QED BY <2>1, TableFinite, LimiterCounts DEF LimiterInv, Capped, ListsExact, L!TableExact
<1>2. L!BlockedIsDenied
  <2> SUFFICES ASSUME NEW k \in DOMAIN buckets
               PROVE  L!Contains(blocked, k) <=> buckets[k].tokens < Unit
    BY DEF L!BlockedIsDenied
  <2>1. L!Contains(blocked, k) <=> k \in L!ToSet(blocked)
    <3>1. DOMAIN blocked = 1..Len(blocked)
      BY DEF LimiterInv, LimiterTypes
    <3> QED BY <3>1 DEF L!Contains, L!ToSet
  <2>2. k \in L!ToSet(active) \/ k \in L!ToSet(blocked)
    BY DEF LimiterInv, ListsExact
  <2>3. buckets[k].tokens \in Int /\ Unit \in Int
    BY DEF LimiterInv, LimiterTypes, Bucket, L!LimiterAssumption
  <2> QED BY <2>1, <2>2, <2>3 DEF LimiterInv, Filed
<1>3. L!AllowanceBound
  <2> SUFFICES ASSUME NEW k \in DOMAIN buckets
               PROVE  granted[k].count * Unit <= Burst * Unit + (limiterClock - granted[k].since) * Rate
    BY DEF L!AllowanceBound, LimiterInv, LimiterTypes
  <2> DEFINE b == buckets[k]
             g == granted[k]
             late == (limiterClock - b.lastCheck) * Rate
             before == (b.lastCheck - g.since) * Rate
  <2>1. /\ b.tokens \in Nat /\ b.lastCheck \in Nat /\ g.count \in Nat /\ g.since \in Nat
        /\ g.since <= b.lastCheck /\ b.lastCheck <= limiterClock
        /\ g.count * Unit + b.tokens <= Burst * Unit + before
    <3>1. b \in Bucket /\ g \in Grant /\ Allowed(b, g)
      BY DEF LimiterInv, LimiterTypes
    <3> QED BY <3>1 DEF Bucket, Grant, Allowed
  <2>2. Rate \in Nat /\ Unit \in Nat /\ Burst * Unit \in Nat /\ limiterClock \in Nat
    BY DEF LimiterInv, LimiterTypes, L!LimiterAssumption
  <2>3. late \in Nat /\ before \in Int /\ g.count * Unit \in Int
    <3>1. limiterClock - b.lastCheck \in Nat
      BY <2>1, <2>2
    <3> QED BY <2>1, <2>2, <3>1
  <2>4. late + before = (limiterClock - g.since) * Rate
    BY <2>1, <2>2
  <2> HIDE DEF late, before
  <2> QED BY <2>1, <2>2, <2>3, <2>4
<1> QED BY <1>1, <1>2, <1>3 DEF L!TableSound

(* For any number of clients, cap, rate and burst: the table keeps the cap, *)
(* the two lists file every key once and where it belongs, the counter is   *)
(* exact, and no client in the table gets more than burst and refill        *)
(* (Limiter.Allow, place, evictLocked, removeKey, cleanup).                 *)
THEOREM TableIsSound == ASSUME L!LimiterAssumption PROVE L!Spec => []TableSound
<1>1. L!Init => LimiterInv
  BY InitLimiter
<1>2. LimiterInv /\ [L!Next]_(L!vars) => LimiterInv'
  BY NextLimiter
<1>3. LimiterInv => TableSound
  BY LimiterIsSound DEF TableSound
<1> QED BY <1>1, <1>2, <1>3, PTL DEF L!Spec

LEMMA CleanupTakesIdle ==
    ASSUME L!LimiterAssumption, LimiterInv, L!Cleanup PROVE L!SweepsAll /\ L!SparesThrottled
<1>1. DOMAIN buckets' = DOMAIN buckets \ L!Cleaned
  BY DEF L!Cleanup, L!Only
<1>2. ASSUME NEW s \in {active, blocked}, NEW k \in L!ToSet(s), L!Idle(k) PROVE k \in L!Cleaned
  <2>1. s \in Seq(ClientKey) /\ Recent(buckets, s) /\ L!ToSet(s) \subseteq DOMAIN buckets
    BY DEF LimiterInv, LimiterTypes, ListsExact
  <2>2. PICK i \in DOMAIN s : k = s[i]
    BY DEF L!ToSet
  <2>3. DOMAIN s = 1..Len(s) /\ Len(s) \in Nat
    BY <2>1
  <2>4. ASSUME NEW j \in i..Len(s) PROVE L!Idle(s[j])
    <3>1. j \in DOMAIN s /\ (j = i \/ i < j)
      BY <2>3
    <3>2. s[j] \in DOMAIN buckets /\ s[i] \in DOMAIN buckets
      BY <2>1, <3>1 DEF L!ToSet
    <3>3. buckets[s[j]].lastCheck \in Nat /\ buckets[s[i]].lastCheck \in Nat /\ limiterClock \in Nat
      BY <3>2 DEF LimiterInv, LimiterTypes, Bucket
    <3>5. IdleThreshold \in Nat
      BY DEF L!LimiterAssumption
    <3>4. j = i \/ buckets[s[j]].lastCheck <= buckets[s[i]].lastCheck
      BY <2>1, <3>1 DEF Recent
    <3> QED BY <1>2, <2>2, <3>3, <3>4, <3>5 DEF L!Idle
  <2>5. k \in L!Swept(s)
    BY <2>2, <2>4 DEF L!Swept
  <2> QED BY <2>5 DEF L!Cleaned
<1>3. L!SweepsAll
  <2>1. ASSUME NEW k \in DOMAIN buckets' PROVE ~L!Idle(k)
    <3>1. k \in L!ToSet(active) \/ k \in L!ToSet(blocked)
      BY <1>1 DEF LimiterInv, ListsExact
    <3> QED BY <1>1, <1>2, <3>1
  <2> QED BY <2>1 DEF L!SweepsAll
<1>4. L!SparesThrottled
  BY <1>1, SweptAreTracked DEF L!SparesThrottled, LimiterInv, ListsExact
<1> QED BY <1>3, <1>4

LEMMA AllowSpares ==
    ASSUME L!LimiterAssumption, LimiterInv, NEW k \in ClientKey, L!Allow(k)
    PROVE  L!SweepsAll /\ L!SparesThrottled
<1>1. /\ DOMAIN buckets' = (DOMAIN buckets \ Gone(k)) \cup {k}
      /\ buckets' \in [DOMAIN buckets' -> Bucket]
  BY AllowTable
<1>2. /\ Gone(k) \subseteq DOMAIN buckets /\ (Known(k) => Gone(k) = {})
      /\ Gone(k) \cap L!ToSet(blocked) # {} => L!ToSet(active) \subseteq Gone(k)
  BY GoneIs
<1>3. buckets \in [DOMAIN buckets -> Bucket] /\ L!ToSet(active) \subseteq DOMAIN buckets
      /\ L!ToSet(blocked) \subseteq DOMAIN buckets
  BY DEF LimiterInv, LimiterTypes, ListsExact
<1>4. L!SweepsAll
  <2> SUFFICES ASSUME DOMAIN buckets' \subseteq DOMAIN buckets, buckets' # buckets,
                      \A x \in DOMAIN buckets' : buckets'[x] = buckets[x]
               PROVE  FALSE
    BY DEF L!SweepsAll
  <2>1. Known(k)
    BY <1>1 DEF Known
  <2>2. DOMAIN buckets' = DOMAIN buckets
    BY <1>1, <1>2, <2>1 DEF Known
  <2> QED BY <1>1, <1>3, <2>2
<1>5. L!SparesThrottled
  <2> SUFFICES ASSUME NEW x \in L!ToSet(blocked), x \notin DOMAIN buckets'
               PROVE  L!ToSet(active) \cap DOMAIN buckets' = {}
    BY DEF L!SparesThrottled
  <2>1. x \in Gone(k)
    BY <1>1, <1>3
  <2>2. L!ToSet(active) \subseteq Gone(k) /\ k \notin DOMAIN buckets
    BY <1>2, <2>1 DEF Known
  <2> QED BY <1>1, <1>3, <2>2
<1> QED BY <1>4, <1>5

(* An eviction gives up a throttled key only with every other one, and a    *)
(* sweep that stops at the first key in use leaves no idle one              *)
(* (evictLocked, cleanup).                                                  *)
THEOREM EvictionIsFair == ASSUME L!LimiterAssumption PROVE L!Spec => RightKeysGo
<1>1. L!Init => LimiterInv
  BY InitLimiter
<1>2. LimiterInv /\ [L!Next]_(L!vars) => LimiterInv'
  BY NextLimiter
<1>3. LimiterInv /\ [L!Next]_(L!vars) => [L!SweepsAll /\ L!SparesThrottled]_(L!vars)
  <2>1. ASSUME LimiterInv, L!Tick PROVE L!SweepsAll /\ L!SparesThrottled
    BY <2>1 DEF L!Tick, L!SweepsAll, L!SparesThrottled, LimiterInv, ListsExact
  <2> QED BY <2>1, CleanupTakesIdle, AllowSpares DEF L!Next
<1> QED BY <1>1, <1>2, <1>3, PTL DEF L!Spec, RightKeysGo, L!RightKeysGo
-----------------------------------------------------------------------------
(* Who a request is from.  Until it is identified the chain of hops ends    *)
(* with the client and the proxies after it, whatever was forged before;    *)
(* the index has every stored network once, each as what it matches, the    *)
(* narrow ones ahead.                                                       *)

Net == [family : {4, 6}, prefix : Seq({0, 1})]

(* The last of the hops that is no proxy is the client, or nothing passed   *)
(* the request on.                                                          *)
Chained(m) ==
    /\ m.client \in Client
    /\ \/ m.peer = m.client
       \/ /\ m.peer \in Proxy
          /\ m.hops \in Seq(I!Address)
          /\ \E i \in DOMAIN m.hops : /\ m.hops[i] = m.client
                                      /\ \A j \in DOMAIN m.hops : j > i => m.hops[j] \in Proxy

Message ==
    [client : Client, peer : Client \cup Proxy, hops : Seq(I!Address),
     real : Client \cup {I!Junk}, sent : Nat]

IndexExact ==
    /\ IsFiniteSet(DOMAIN cidrs)
    /\ DOMAIN cidrs \subseteq {n \in Net : I!AsIPv4(n) = n}
    /\ cidrCache \in I!SortedCache(cidrs)

IdentityInv ==
    /\ trusted \in {Loopback, Proxy \cup Loopback}
    /\ IndexExact
    /\ msg = I!Nowhere \/ (msg \in Message /\ Chained(msg))
    /\ ip # I!Junk => msg # I!Nowhere
    /\ I!ClientIdentified

LEMMA IdentityCounts == \A T : I!Cardinality(T) = Cardinality(T) /\ I!IsFiniteSet(T) = IsFiniteSet(T)
BY Zenon DEF I!Cardinality, Cardinality, I!IsFiniteSet, IsFiniteSet

(* The first and the last of some positions.                                *)
LEMMA ExtremesExist ==
    ASSUME NEW n \in Nat, NEW T \in SUBSET (1..n), T # {}
    PROVE  /\ I!Min(T) \in T /\ \A x \in T : I!Min(T) <= x
           /\ I!Max(T) \in T /\ \A x \in T : x <= I!Max(T)
<1>1. \E i \in T : \A j \in T : i <= j
  BY LeastExists
<1>2. \E i \in T : \A j \in T : i >= j
  <2> DEFINE U0 == {n - x : x \in T}
  <2>1. U0 \in SUBSET Nat /\ U0 # {}
    <3>1. \A x \in T : n - x \in Nat
      OBVIOUS
    <3>2. PICK x \in T : TRUE
      OBVIOUS
    <3>3. n - x \in U0
      OBVIOUS
    <3> QED BY <3>1, <3>3
  <2>2. PICK u \in U0 : \A v \in U0 : u <= v
    BY <2>1, LeastExists
  <2>3. PICK i \in T : u = n - i
    BY <2>2
  <2>4. ASSUME NEW j \in T PROVE i >= j
    <3>1. n - i <= n - j
      BY <2>2, <2>3
    <3> QED BY <3>1
  <2> QED BY <2>4
<1>3. I!Min(T) \in T /\ \A x \in T : I!Min(T) <= x
  BY <1>1 DEF I!Min
<1>4. I!Max(T) \in T /\ \A x \in T : I!Max(T) >= x
  BY <1>2 DEF I!Max
<1> QED BY <1>3, <1>4

(* The index has the stored networks and no other, in its order.            *)
LEMMA IndexCovers ==
    ASSUME IndexExact
    PROVE  /\ cidrCache \in [1..Cardinality(DOMAIN cidrs) -> DOMAIN cidrs]
           /\ Cardinality(DOMAIN cidrs) \in Nat
           /\ \A n \in DOMAIN cidrs : \E i \in DOMAIN cidrCache : cidrCache[i] = n
           /\ \A i, j \in DOMAIN cidrCache : i < j => ~I!Ahead(cidrCache[j], cidrCache[i])
<1> DEFINE D == DOMAIN cidrs
           c == Cardinality(DOMAIN cidrs)
<1>1. c \in Nat /\ IsFiniteSet(D)
  BY FS_CardinalityType DEF IndexExact
<1>2. /\ cidrCache \in I!SetToSeqs(D)
      /\ \A i, j \in 1..Len(cidrCache) : i < j => ~I!Ahead(cidrCache[j], cidrCache[i])
  BY DEF IndexExact, I!SortedCache
<1>3. /\ cidrCache \in [1..c -> D]
      /\ \A i, j \in 1..c : i # j => cidrCache[i] # cidrCache[j]
  BY <1>2, IdentityCounts DEF I!SetToSeqs
<1>4. Len(cidrCache) = c
  BY <1>1, <1>3
<1>5. cidrCache \in Injection(1..c, D)
  BY <1>3 DEF Injection, IsInjective
<1>6. IsFiniteSet(1..c) /\ Cardinality(1..c) = c
  BY <1>1, FS_Interval
<1>7. cidrCache \in Surjection(1..c, D)
  BY <1>1, <1>5, <1>6, FS_Injection
<1>8. \A n \in D : \E i \in 1..c : cidrCache[i] = n
  BY <1>7 DEF Surjection
<1> QED BY <1>1, <1>2, <1>3, <1>4, <1>8

LEMMA NormalIsFixed ==
    ASSUME I!IdentityAssumption, NEW n \in Net
    PROVE  I!AsIPv4(n) \in Net /\ I!AsIPv4(I!AsIPv4(n)) = I!AsIPv4(n)
<1>1. CASE n.family = 6 /\ I!IsPrefix(MappedPrefix, n.prefix)
  <2>1. Len(MappedPrefix) + 1 \in Nat \ {0} /\ n.prefix \in Seq({0, 1})
    BY DEF I!IdentityAssumption, Net
  <2>2. SubSeq(n.prefix, Len(MappedPrefix) + 1, Len(n.prefix)) \in Seq({0, 1})
    BY <2>1, SubSeqProperties
  <2>3. I!AsIPv4(n) = [family |-> 4,
                       prefix |-> SubSeq(n.prefix, Len(MappedPrefix) + 1, Len(n.prefix))]
    BY <1>1 DEF I!AsIPv4
  <2> QED BY <2>2, <2>3 DEF I!AsIPv4, Net
<1>2. CASE ~(n.family = 6 /\ I!IsPrefix(MappedPrefix, n.prefix))
  BY <1>2 DEF I!AsIPv4
<1> QED BY <1>1, <1>2

LEMMA InitIdentity == ASSUME I!IdentityAssumption, I!Init PROVE IdentityInv
<1>1. PICK n \in SUBSET Legacy : cidrs = [m \in n |-> "legacy"]
  BY DEF I!Init
<1>2. DOMAIN cidrs \subseteq Legacy /\ IsFiniteSet(Legacy)
  BY <1>1, IdentityCounts DEF I!IdentityAssumption
<1>3. \A m \in Legacy : m \in Net /\ I!AsIPv4(m) = m
  BY DEF I!IdentityAssumption, I!AsIPv4, Net
<1>4. IndexExact
  BY <1>2, <1>3, FS_Subset DEF I!Init, IndexExact
<1>5. trusted \in {Loopback, Proxy \cup Loopback}
  BY DEF I!Init, I!Configured
<1> QED BY <1>4, <1>5
        DEF I!Init, IdentityInv, I!ClientIdentified, I!SenderIdentified, I!MostSpecificWins

(* Mappings: while one is added nothing was identified yet.                 *)
LEMMA MapIdentity ==
    ASSUME I!IdentityAssumption, IdentityInv,
           \/ \E a \in Client, g \in ClientGroup : I!AddIP(a, g)
           \/ \E n \in Network, g \in ClientGroup : I!AddCIDR(n, g)
    PROVE  IdentityInv'
<1>1. CASE \E a \in Client, g \in ClientGroup : I!AddIP(a, g)
  BY <1>1 DEF I!AddIP, IdentityInv, IndexExact, I!SortedCache, I!ClientIdentified,
              I!SenderIdentified, I!MostSpecificWins, I!Nowhere
<1>2. CASE \E n \in Network, g \in ClientGroup : I!AddCIDR(n, g)
  <2>1. PICK n \in Network, g \in ClientGroup : I!AddCIDR(n, g)
    BY <1>2
  <2> DEFINE net == I!AsIPv4(n)
  <2>2. /\ msg = I!Nowhere /\ UNCHANGED <<trusted, ips, msg, ip, group>>
        /\ cidrs' = [m \in DOMAIN cidrs \cup {net} |-> IF m = net THEN g ELSE cidrs[m]]
        /\ cidrCache' \in I!SortedCache(cidrs')
    BY <2>1 DEF I!AddCIDR, I!NormalizeCIDR
  <2>3. net \in Net /\ I!AsIPv4(net) = net
    BY NormalIsFixed DEF I!IdentityAssumption, Net
  <2> HIDE DEF net
  <2>4. DOMAIN cidrs' = DOMAIN cidrs \cup {net}
    BY <2>2
  <2>5. IsFiniteSet(DOMAIN cidrs')
    BY <2>4, FS_AddElement DEF IdentityInv, IndexExact
  <2>6. IndexExact'
    BY <2>2, <2>3, <2>4, <2>5 DEF IdentityInv, IndexExact, I!SortedCache
  <2> QED BY <2>2, <2>6 DEF IdentityInv, I!ClientIdentified, I!SenderIdentified,
                            I!MostSpecificWins
<1> QED BY <1>1, <1>2

LEMMA SendIdentity ==
    ASSUME I!IdentityAssumption, IdentityInv,
           NEW c \in Client, NEW forged \in I!Header, NEW real \in Client \cup {I!Junk},
           I!Send(c, forged, real)
    PROVE  IdentityInv'
<1>1. forged \in Seq(I!Address)
  <2>1. PICK n \in 0..MaxForged : forged \in [1..n -> I!Address]
    BY DEF I!Header
  <2> QED BY <2>1
<1>2. /\ msg = I!Nowhere /\ UNCHANGED <<trusted, ips, cidrs, cidrCache, ip, group>>
      /\ msg' = [client |-> c, peer |-> c, hops |-> forged, real |-> real, sent |-> 0]
  BY DEF I!Send
<1>3. msg' \in Message /\ Chained(msg')
  BY <1>1, <1>2 DEF Message, Chained
<1>4. ip = I!Junk
  BY <1>2 DEF IdentityInv
<1> QED BY <1>2, <1>3, <1>4 DEF IdentityInv, IndexExact, I!SortedCache, I!ClientIdentified,
                                I!SenderIdentified, I!MostSpecificWins

LEMMA ForwardIdentity ==
    ASSUME I!IdentityAssumption, IdentityInv, NEW p \in Proxy, I!Forward(p)
    PROVE  IdentityInv'
<1>1. /\ msg # I!Nowhere /\ ip = I!Junk
      /\ msg' = [msg EXCEPT !.peer = p, !.hops = Append(msg.hops, msg.peer),
                            !.sent = msg.sent + 1]
      /\ UNCHANGED <<trusted, ips, cidrs, cidrCache, ip, group>>
  BY DEF I!Forward
<1>2. msg \in Message /\ Chained(msg)
  BY <1>1 DEF IdentityInv
<1>3. msg.peer \in I!Address /\ msg.hops \in Seq(I!Address)
  BY <1>2 DEF Message, I!Address
<1> DEFINE h == msg.hops
           k == Append(h, msg.peer)
<1>4. /\ k \in Seq(I!Address) /\ DOMAIN k = 1..(Len(h) + 1) /\ DOMAIN h = 1..Len(h)
      /\ Len(h) \in Nat
      /\ k[Len(h) + 1] = msg.peer /\ \A i \in DOMAIN h : k[i] = h[i]
  BY <1>3
<1> HIDE DEF k
<1>5. /\ msg' \in Message /\ msg'.client = msg.client
      /\ msg'.peer = p /\ msg'.hops = k
  <2>1. msg' = [msg EXCEPT !.peer = p, !.hops = k, !.sent = msg.sent + 1]
    BY <1>1 DEF k
  <2>2. k \in Seq(I!Address)
    BY <1>4
  <2>3. msg' = [client |-> msg.client, peer |-> p, hops |-> k, real |-> msg.real,
                sent |-> msg.sent + 1]
    BY <1>2, <2>1 DEF Message
  <2> QED BY <1>2, <2>2, <2>3 DEF Message
<1> HIDE DEF h
<1>6. \E i \in DOMAIN k : k[i] = msg.client /\ \A j \in DOMAIN k : j > i => k[j] \in Proxy
  <2>1. CASE msg.peer = msg.client
    <3>1. Len(h) + 1 \in DOMAIN k /\ \A j \in DOMAIN k : ~(j > Len(h) + 1)
      BY <1>4
    <3> QED BY <1>4, <2>1, <3>1
  <2>2. CASE msg.peer \in Proxy /\ msg.peer # msg.client
    <3>1. PICK i \in DOMAIN h : /\ h[i] = msg.client
                                /\ \A j \in DOMAIN h : j > i => h[j] \in Proxy
      BY <1>2, <2>2 DEF Chained, h
    <3>2. ASSUME NEW j \in DOMAIN k, j > i PROVE k[j] \in Proxy
      <4>1. CASE j \in DOMAIN h
        BY <1>4, <3>1, <3>2, <4>1
      <4>2. CASE j = Len(h) + 1
        BY <1>4, <2>2, <4>2
      <4> QED BY <1>4, <4>1, <4>2
    <3>3. i \in DOMAIN k /\ k[i] = msg.client
      BY <1>4, <3>1
    <3> QED BY <3>2, <3>3
  <2> QED BY <1>2, <2>1, <2>2 DEF Chained
<1>7. Chained(msg')
  BY <1>2, <1>4, <1>5, <1>6 DEF Chained
<1> QED BY <1>1, <1>5, <1>7 DEF IdentityInv, IndexExact, I!SortedCache, I!ClientIdentified,
                                I!SenderIdentified, I!MostSpecificWins

(* What identifies a request is the hop before the proxies.                 *)
LEMMA ClientFound ==
    ASSUME I!IdentityAssumption, IdentityInv, msg # I!Nowhere
    PROVE  I!ClientIP(msg) = IF msg.peer \in trusted THEN msg.client ELSE msg.peer
<1>1. msg \in Message /\ Chained(msg) /\ trusted \in {Loopback, Proxy \cup Loopback}
  BY DEF IdentityInv
<1>2. ASSUME msg.peer \in trusted PROVE I!ClientIP(msg) = msg.client
  <2>1. msg.client \in Client /\ msg.peer \notin Client /\ msg.peer \in Proxy
        /\ trusted = Proxy \cup Loopback
    BY <1>1, <1>2 DEF I!IdentityAssumption, Message, Chained
  <2> DEFINE h == msg.hops
  <2>2. PICK i \in DOMAIN h : h[i] = msg.client /\ \A j \in DOMAIN h : j > i => h[j] \in Proxy
    BY <1>1, <2>1 DEF Chained
  <2>3. DOMAIN h = 1..Len(h) /\ Len(h) \in Nat
    BY <1>1 DEF Message
  <2>4. I!Foreign(h) \in SUBSET (1..Len(h)) /\ i \in I!Foreign(h)
    BY <2>1, <2>2, <2>3 DEF I!Foreign, I!IdentityAssumption
  <2>5. I!Max(I!Foreign(h)) \in I!Foreign(h) /\ i <= I!Max(I!Foreign(h))
    BY <2>3, <2>4, ExtremesExist
  <2>6. \A j \in I!Foreign(h) : ~(j > i)
    BY <2>1, <2>2 DEF I!Foreign
  <2>7. I!Max(I!Foreign(h)) = i
    BY <2>3, <2>4, <2>5, <2>6
  <2>8. I!ForwardedFor(h) = msg.client
    BY <2>2, <2>4, <2>7 DEF I!ForwardedFor
  <2>9. I!ForwardedFor(msg.hops) = msg.client /\ msg.client # I!Junk
    BY <2>1, <2>8 DEF I!IdentityAssumption
  <2> QED BY <1>2, <2>9 DEF I!ClientIP
<1>3. ASSUME msg.peer \notin trusted PROVE I!ClientIP(msg) = msg.peer
  BY <1>3 DEF I!ClientIP
<1> QED BY <1>2, <1>3

(* The first network of the index an address lies in is a narrowest one.    *)
LEMMA GroupFound ==
    ASSUME IdentityInv, NEW a, a \notin DOMAIN ips
    PROVE  I!GroupForClient(a) \in IF I!Holding(a) = {} THEN {"default"}
                                   ELSE {cidrs[n] : n \in I!Narrowest(a)}
<1> DEFINE hits == {i \in DOMAIN cidrCache : I!Covers(cidrCache[i], a)}
           c == Cardinality(DOMAIN cidrs)
           k == I!Min(hits)
<1>1. /\ cidrCache \in [1..c -> DOMAIN cidrs] /\ c \in Nat
      /\ \A n \in DOMAIN cidrs : \E i \in DOMAIN cidrCache : cidrCache[i] = n
      /\ \A i, j \in DOMAIN cidrCache : i < j => ~I!Ahead(cidrCache[j], cidrCache[i])
  BY IndexCovers DEF IdentityInv
<1>2. \A n \in DOMAIN cidrs : n \in Net /\ I!AsIPv4(n) = n /\ Len(n.prefix) \in Nat
  BY DEF IdentityInv, IndexExact, Net
<1>3. I!GroupForClient(a) = IF hits # {} THEN cidrs[cidrCache[k]] ELSE "default"
  BY DEF I!GroupForClient
<1>4. CASE hits = {}
  <2>1. I!Holding(a) = {}
    BY <1>1, <1>4 DEF I!Holding
  <2> QED BY <1>3, <1>4, <2>1
<1>5. CASE hits # {}
  <2>1. hits \in SUBSET (1..c)
    BY <1>1
  <2>2. k \in hits /\ \A i \in hits : k <= i
    BY <1>1, <1>5, <2>1, ExtremesExist
  <2> HIDE DEF k
  <2>3. cidrCache[k] \in I!Holding(a)
    BY <1>1, <2>2 DEF I!Holding
  <2>4. ASSUME NEW m \in I!Holding(a)
        PROVE  Len(I!AsIPv4(m).prefix) <= Len(I!AsIPv4(cidrCache[k]).prefix)
    <3>1. m \in DOMAIN cidrs /\ I!Covers(m, a)
      BY DEF I!Holding
    <3>2. PICK i \in DOMAIN cidrCache : cidrCache[i] = m
      BY <1>1, <3>1
    <3>3. i \in hits /\ k <= i /\ k \in DOMAIN cidrCache
      BY <2>2, <3>1, <3>2
    <3>4. cidrCache[k] \in DOMAIN cidrs
      BY <1>1, <3>3
    <3>5. CASE i = k
      BY <1>2, <3>1, <3>2, <3>5
    <3>6. CASE k < i
      <4>1. ~I!Ahead(m, cidrCache[k])
        BY <1>1, <3>2, <3>3, <3>6
      <4>2. ~(Len(m.prefix) > Len(cidrCache[k].prefix))
        BY <4>1 DEF I!Ahead, I!Ones
      <4> QED BY <1>2, <3>1, <3>4, <4>2
    <3> QED BY <1>1, <3>2, <3>3, <3>5, <3>6
  <2>5. cidrCache[k] \in I!Narrowest(a)
    BY <2>3, <2>4 DEF I!Narrowest
  <2> QED BY <1>3, <1>5, <2>3, <2>5 DEF k
<1> QED BY <1>4, <1>5

LEMMA IdentifyIdentity ==
    ASSUME I!IdentityAssumption, IdentityInv, I!Identify PROVE IdentityInv'
<1>1. /\ msg # I!Nowhere /\ UNCHANGED <<trusted, ips, cidrs, cidrCache, msg>>
      /\ ip' = I!ClientIP(msg) /\ group' = I!GroupForClient(ip')
  BY DEF I!Identify
<1>2. I!SenderIdentified'
  BY <1>1, ClientFound DEF I!SenderIdentified
<1>3. I!MostSpecificWins'
  <2>1. PICK a : a = ip'
    OBVIOUS
  <2>2. ASSUME a \notin DOMAIN ips
        PROVE  group' \in IF I!Holding(a) = {} THEN {"default"}
                          ELSE {cidrs[n] : n \in I!Narrowest(a)}
    BY <1>1, <2>1, <2>2, GroupFound
  <2> QED BY <1>1, <2>1, <2>2 DEF I!MostSpecificWins, I!Holding, I!Narrowest
<1> QED BY <1>1, <1>2, <1>3 DEF IdentityInv, IndexExact, I!SortedCache, I!ClientIdentified

LEMMA IdentityStep ==
    ASSUME I!IdentityAssumption, IdentityInv, [I!Next]_(I!vars) PROVE IdentityInv'
<1>1. CASE UNCHANGED I!vars
  BY <1>1 DEF I!vars, IdentityInv, IndexExact, I!SortedCache, I!ClientIdentified,
              I!SenderIdentified, I!MostSpecificWins, I!Holding, I!Narrowest
<1> QED BY <1>1, MapIdentity, SendIdentity, ForwardIdentity, IdentifyIdentity DEF I!Next

(* For any clients, proxies, forged headers and mappings: a request is      *)
(* identified by the address it came from behind the trusted proxies, and   *)
(* belongs to the group of the narrowest network its address lies in        *)
(* (ClientIP, clientIPFromXForwardedFor, loadCIDRCache, GetGroupForClient). *)
THEOREM ClientsAreIdentified ==
    ASSUME I!IdentityAssumption PROVE I!Spec => []ClientIdentified
<1>1. I!Init => IdentityInv BY InitIdentity
<1>2. IdentityInv /\ [I!Next]_(I!vars) => IdentityInv' BY IdentityStep
<1>3. IdentityInv => ClientIdentified BY DEF IdentityInv, ClientIdentified
<1> QED BY <1>1, <1>2, <1>3, PTL DEF I!Spec
-----------------------------------------------------------------------------
(* Public warnings.  Whatever a report was found under, evidence that       *)
(* blocks is in it, and its source is one the settings in its key read and  *)
(* trust; reports in memory and on their way were found under the settings  *)
(* of the running process.                                                  *)

Evidence == [source : Source, confidence : Int]
Served == [evidence : SUBSET Evidence, block : BOOLEAN]
Report == [domain : Domain, evidence : SUBSET Evidence, block : BOOLEAN, expires : {"due", "past"}]
Lookup ==
    {W!Idle} \cup [at : {"fetch"}, domain : Domain, next : Nat, evidence : SUBSET Evidence]
             \cup [at : {"store"}, report : Report]

(* The sources a fingerprint of settings reads and trusts.                  *)
Reads(key) == {s \in Source : s \in key /\ HostOf[s] \in key}
FoundBy(evidence, key) == \A e \in evidence : e.source \in Reads(key)
Grounded(r, key) ==
    FoundBy(r.evidence, key) /\ (r.block => W!HasStrongWarning(r.evidence))

Current == W!SourceRevision(config)

WarningTypes ==
    /\ config \in DOMAIN Configs
    /\ reports \in Seq(Report)
    /\ redis \in [DOMAIN redis -> Report]
    /\ lookup \in Lookup
    /\ acted \in [{"api", "resolver"} -> [Domain -> Served]]

WarningInv ==
    /\ WarningTypes /\ W!MemoryBounded
    /\ \A i \in DOMAIN reports : Grounded(reports[i], Current)
    /\ \A k \in DOMAIN redis : Grounded(redis[k], k[1])
    /\ lookup.at = "fetch" => FoundBy(lookup.evidence, Current)
    /\ lookup.at = "store" => Grounded(lookup.report, Current)
    /\ \A q \in {"api", "resolver"}, d \in Domain : Grounded(acted[q][d], Current)

LEMMA WarningKeeps == \A s, kept : W!Keep(s, kept) = Keep(s, kept)
BY Zenon DEF W!Keep, Keep, W!Rank, Rank, W!Cardinality, Cardinality

(* A fingerprint tells sources from hosts.                                  *)
LEMMA ReadsAreTrusted ==
    ASSUME W!ReportAssumption, config \in DOMAIN Configs
    PROVE  Reads(Current) = W!Trusted
<1>1. /\ W!Range(Configs[config].sources) \subseteq Source
      /\ Configs[config].trusted \cap Source = {}
      /\ \A s \in Source : HostOf[s] \notin Source
  BY DEF W!ReportAssumption
<1> QED BY <1>1 DEF Reads, Current, W!SourceRevision, W!Trusted, W!Cfg

LEMMA InitWarnings == ASSUME W!ReportAssumption, W!Init PROVE WarningInv
<1>1. config = 1 /\ 1 \in DOMAIN Configs
  BY DEF W!Init, W!ReportAssumption
<1>2. acted = [q \in {"api", "resolver"} |-> [d \in Domain |-> W!Nothing]] /\ W!Nothing \in Served
  BY DEF W!Init, W!Nothing, Served
<1>3. Grounded(W!Nothing, Current)
  BY DEF Grounded, FoundBy, W!Nothing
<1>4. reports = <<>> /\ redis = <<>> /\ lookup = W!Idle /\ lookup.at = "idle"
  BY DEF W!Init, W!Idle
<1>5. WarningTypes
  BY <1>1, <1>2, <1>4 DEF WarningTypes, Lookup
<1>6. W!MemoryBounded
  BY <1>4 DEF W!MemoryBounded, W!ReportAssumption
<1> QED BY <1>2, <1>3, <1>4, <1>5, <1>6 DEF WarningInv

(* What is acted on was found under the running settings.                   *)
LEMMA ActWarnings ==
    ASSUME WarningTypes, NEW q \in {"api", "resolver"}, NEW d \in Domain, NEW r,
           r.evidence \in SUBSET Evidence, r.block \in BOOLEAN, Grounded(r, Current),
           \A x \in {"api", "resolver"}, y \in Domain : Grounded(acted[x][y], Current),
           W!Act(q, d, r)
    PROVE  /\ acted' \in [{"api", "resolver"} -> [Domain -> Served]]
           /\ \A x \in {"api", "resolver"}, y \in Domain : Grounded(acted'[x][y], Current)
<1> DEFINE v == [evidence |-> r.evidence, block |-> r.block]
<1>1. v \in Served /\ Grounded(v, Current)
  BY DEF Served, Grounded
<1> HIDE DEF v
<1>2. acted' = [acted EXCEPT ![q][d] = v]
  BY DEF W!Act, v
<1>3. acted \in [{"api", "resolver"} -> [Domain -> Served]]
  BY DEF WarningTypes
<1>4. \A x \in {"api", "resolver"}, y \in Domain :
        acted'[x][y] = IF x = q /\ y = d THEN v ELSE acted[x][y]
  BY <1>2, <1>3
<1> QED BY <1>1, <1>2, <1>3, <1>4

LEMMA ReadWarnings ==
    ASSUME WarningInv, NEW d \in Domain, W!ResolverReads(d) \/ W!Hit(d)
    PROVE  WarningInv'
<1>1. UNCHANGED <<config, reports, redis, lookup>>
  BY DEF W!ResolverReads, W!Hit
<1>2. PICK q, r :
        /\ q \in {"api", "resolver"}
        /\ W!Act(q, d, r) /\ r.evidence \in SUBSET Evidence /\ r.block \in BOOLEAN
        /\ Grounded(r, Current)
  <2>1. Grounded(W!Nothing, Current) /\ W!Nothing.evidence \in SUBSET Evidence
        /\ W!Nothing.block \in BOOLEAN
    BY DEF Grounded, FoundBy, W!Nothing
  <2>2. ASSUME W!InRedis(d)
        PROVE  /\ Grounded(redis[W!Key(d)], Current)
               /\ redis[W!Key(d)].evidence \in SUBSET Evidence
               /\ redis[W!Key(d)].block \in BOOLEAN
    <3>1. W!Key(d) \in DOMAIN redis /\ W!Key(d)[1] = Current
      BY <2>2 DEF W!InRedis, W!Key, Current
    <3>2. redis[W!Key(d)] \in Report
      BY <3>1 DEF WarningInv, WarningTypes
    <3>3. Grounded(redis[W!Key(d)], W!Key(d)[1])
      BY <3>1 DEF WarningInv
    <3> QED BY <3>1, <3>2, <3>3 DEF Report
  <2>3. ASSUME W!InMemory(d)
        PROVE  /\ Grounded(reports[W!Remembered(d)], Current)
               /\ reports[W!Remembered(d)].evidence \in SUBSET Evidence
               /\ reports[W!Remembered(d)].block \in BOOLEAN
    <3>1. W!Remembered(d) \in DOMAIN reports
      BY <2>3 DEF W!InMemory, W!Remembered
    <3>2. reports[W!Remembered(d)] \in Report
      BY <3>1 DEF WarningInv, WarningTypes
    <3> QED BY <3>1, <3>2 DEF WarningInv, Report
  <2>4. CASE W!Hit(d)
    <3>1. CASE W!InRedis(d) /\ W!Act("api", d, redis[W!Key(d)])
      BY <2>2, <3>1
    <3>2. CASE W!InMemory(d) /\ W!Act("api", d, reports[W!Remembered(d)])
      BY <2>3, <3>2
    <3> QED BY <2>4, <3>1, <3>2 DEF W!Hit
  <2>5. CASE W!ResolverReads(d)
    <3>1. CASE W!InRedis(d) /\ W!Act("resolver", d, redis[W!Key(d)])
      BY <2>2, <3>1
    <3>2. CASE W!Act("resolver", d, W!Nothing)
      BY <2>1, <3>2
    <3> QED BY <2>5, <3>1, <3>2 DEF W!ResolverReads
  <2> QED BY <2>4, <2>5
<1>3. /\ acted' \in [{"api", "resolver"} -> [Domain -> Served]]
      /\ \A x \in {"api", "resolver"}, y \in Domain : Grounded(acted'[x][y], Current)
  BY <1>2, ActWarnings DEF WarningInv
<1> QED BY <1>1, <1>3 DEF WarningInv, WarningTypes, Current, W!MemoryBounded, W!SourceRevision

(* A page is evidence when its source is trusted.                           *)
LEMMA FetchWarnings ==
    ASSUME W!ReportAssumption, WarningInv,
           \/ \E d \in Domain, force \in BOOLEAN : W!Begin(d, force)
           \/ W!Fetch \/ W!FetchFails
    PROVE  WarningInv'
<1>1. UNCHANGED <<config, reports, redis, acted>>
  BY DEF W!Begin, W!Fetch, W!FetchFails
<1>2. lookup' \in Lookup /\ lookup'.at = "fetch" /\ FoundBy(lookup'.evidence, Current)
  <2>1. CASE \E d \in Domain, force \in BOOLEAN : W!Begin(d, force)
    BY <2>1 DEF W!Begin, Lookup, FoundBy
  <2>2. ASSUME W!Fetch \/ W!FetchFails
        PROVE  /\ lookup.at = "fetch" /\ lookup \in Lookup /\ lookup.next + 1 \in Nat
               /\ lookup.evidence \in SUBSET Evidence /\ FoundBy(lookup.evidence, Current)
               /\ lookup = [at |-> "fetch", domain |-> lookup.domain, next |-> lookup.next,
                            evidence |-> lookup.evidence]
               /\ lookup.domain \in Domain
    <3>1. lookup.at = "fetch"
      BY <2>2 DEF W!Fetch, W!FetchFails
    <3> QED BY <3>1 DEF WarningInv, WarningTypes, Lookup, W!Idle
  <2>3. CASE W!FetchFails
    <3>1. lookup' = [lookup EXCEPT !.next = lookup.next + 1]
      BY <2>3 DEF W!FetchFails
    <3>2. lookup' = [at |-> "fetch", domain |-> lookup.domain, next |-> lookup.next + 1,
                     evidence |-> lookup.evidence]
      BY <2>2, <2>3, <3>1
    <3> QED BY <2>2, <2>3, <3>2 DEF Lookup
  <2>4. CASE W!Fetch
    <3> DEFINE s == W!Cfg.sources[lookup.next]
    <3>1. PICK role \in W!Classified(page[s][lookup.domain]) :
            lookup' = [lookup EXCEPT !.next = lookup.next + 1,
                         !.evidence =
                            IF s \in W!Trusted /\ role \in {"attacker", "unclear"}
                            THEN lookup.evidence \cup
                                    {[source |-> s, confidence |-> W!Confidence(s, role)]}
                            ELSE lookup.evidence]
      BY <2>4 DEF W!Fetch
    <3> HIDE DEF s
    <3> DEFINE e == [source |-> s, confidence |-> W!Confidence(s, role)]
    <3>2. PICK more : /\ lookup' = [at |-> "fetch", domain |-> lookup.domain,
                                    next |-> lookup.next + 1, evidence |-> more]
                      /\ \/ more = lookup.evidence
                         \/ s \in W!Trusted /\ more = lookup.evidence \cup {e}
      BY <2>2, <2>4, <3>1
    <3>3. W!Confidence(s, role) \in Int
      BY DEF W!Confidence, W!SourceTrust
    <3>4. ASSUME s \in W!Trusted PROVE e \in Evidence /\ e.source \in Reads(Current)
      <4>1. s \in Reads(Current)
        BY <3>4, ReadsAreTrusted DEF WarningInv, WarningTypes
      <4>2. s \in Source
        BY <4>1 DEF Reads
      <4> QED BY <3>3, <4>1, <4>2 DEF Evidence
    <3> HIDE DEF e
    <3>5. more \in SUBSET Evidence /\ FoundBy(more, Current)
      BY <2>2, <2>4, <3>2, <3>4 DEF FoundBy
    <3> QED BY <2>2, <2>4, <3>2, <3>5 DEF Lookup
  <2> QED BY <2>1, <2>3, <2>4
<1> QED BY <1>1, <1>2 DEF WarningInv, WarningTypes, Current, W!MemoryBounded, W!SourceRevision

(* Reports that are kept stay one for a domain, and make room for a new one.*)
LEMMA KeptReports ==
    ASSUME NEW s \in Seq(Report), NEW kept, kept \subseteq DOMAIN s,
           \A i, j \in DOMAIN s : s[i].domain = s[j].domain => i = j
    PROVE  LET t == Keep(s, kept)
           IN  /\ t \in Seq(Report) /\ Len(t) <= Len(s)
               /\ \A n \in DOMAIN t : \E i \in kept : t[n] = s[i]
               /\ \A m, n \in DOMAIN t : t[m].domain = t[n].domain => m = n
<1> DEFINE t == Keep(s, kept)
<1>1. /\ t \in Seq(Report) /\ Len(t) <= Len(s)
      /\ \A n \in DOMAIN t : \E i \in kept : t[n] = s[i]
      /\ \A m, n \in DOMAIN t : m < n =>
           \E i, j \in kept : i < j /\ t[m] = s[i] /\ t[n] = s[j]
  BY KeepKeeps
<1> HIDE DEF t
<1>2. ASSUME NEW m \in DOMAIN t, NEW n \in DOMAIN t, m < n PROVE t[m].domain # t[n].domain
  <2>1. PICK i \in kept, j \in kept : i < j /\ t[m] = s[i] /\ t[n] = s[j]
    BY <1>1, <1>2
  <2>2. i \in DOMAIN s /\ j \in DOMAIN s /\ i # j
    BY <2>1
  <2> QED BY <2>1, <2>2
<1>3. ASSUME NEW m \in DOMAIN t, NEW n \in DOMAIN t, t[m].domain = t[n].domain PROVE m = n
  <2>1. m \in Int /\ n \in Int
    BY <1>1
  <2>2. ~(m < n) /\ ~(n < m)
    BY <1>2, <1>3
  <2> QED BY <2>1, <2>2
<1> QED BY <1>1, <1>3 DEF t

LEMMA EvictedReports ==
    ASSUME W!ReportAssumption, WarningInv
    PROVE  /\ W!Evicted \in Seq(Report) /\ Len(W!Evicted) < MaxReports
           /\ \A n \in DOMAIN W!Evicted : \E i \in DOMAIN reports : W!Evicted[n] = reports[i]
           /\ \A m, n \in DOMAIN W!Evicted :
                W!Evicted[m].domain = W!Evicted[n].domain => m = n
<1> DEFINE kept == {i \in DOMAIN reports : reports[i].expires # "past"}
           live == Keep(reports, kept)
<1>1. /\ reports \in Seq(Report) /\ Len(reports) <= MaxReports /\ MaxReports \in Nat \ {0}
      /\ Len(reports) \in Nat
      /\ \A i, j \in DOMAIN reports : reports[i].domain = reports[j].domain => i = j
  BY DEF WarningInv, WarningTypes, W!MemoryBounded, W!ReportAssumption
<1>2. W!Evicted = IF Len(reports) < MaxReports THEN reports
                  ELSE IF Len(live) < MaxReports THEN live ELSE Tail(live)
  BY WarningKeeps DEF W!Evicted
<1>3. kept \subseteq DOMAIN reports
  OBVIOUS
<1> HIDE DEF kept
<1>4. /\ live \in Seq(Report) /\ Len(live) <= Len(reports)
      /\ \A n \in DOMAIN live : \E i \in kept : live[n] = reports[i]
      /\ \A m, n \in DOMAIN live : live[m].domain = live[n].domain => m = n
  BY <1>1, <1>3, KeptReports
<1> HIDE DEF live
<1>5. CASE Len(reports) < MaxReports
  BY <1>1, <1>2, <1>5
<1>6. CASE ~(Len(reports) < MaxReports) /\ Len(live) < MaxReports
  BY <1>1, <1>2, <1>3, <1>4, <1>6
<1>7. CASE ~(Len(reports) < MaxReports) /\ ~(Len(live) < MaxReports)
  <2>1. Len(live) = MaxReports /\ Len(live) > 0
    BY <1>1, <1>4, <1>7
  <2>2. /\ Tail(live) \in Seq(Report) /\ Len(Tail(live)) = Len(live) - 1
        /\ DOMAIN Tail(live) = 1..(Len(live) - 1) /\ DOMAIN live = 1..Len(live)
        /\ \A n \in 1..(Len(live) - 1) : Tail(live)[n] = live[n + 1] /\ n + 1 \in DOMAIN live
    BY <1>4, <2>1
  <2> HIDE DEF live
  <2>3. W!Evicted = Tail(live)
    BY <1>2, <1>7
  <2>4. \A n \in DOMAIN Tail(live) : \E i \in DOMAIN reports : Tail(live)[n] = reports[i]
    BY <1>3, <1>4, <2>2
  <2>5. ASSUME NEW m \in DOMAIN Tail(live), NEW n \in DOMAIN Tail(live),
               Tail(live)[m].domain = Tail(live)[n].domain
        PROVE  m = n
    <3>1. m + 1 = n + 1
      BY <1>4, <2>2, <2>5
    <3> QED BY <2>2, <3>1
  <2> QED BY <1>1, <2>1, <2>2, <2>3, <2>4, <2>5
<1> QED BY <1>5, <1>6, <1>7

LEMMA RememberWarnings ==
    ASSUME W!ReportAssumption, WarningInv, NEW r \in Report, Grounded(r, Current),
           UNCHANGED <<config, redis, acted>>, W!Remember(r)
    PROVE  WarningInv'
<1> DEFINE ev == W!Evicted
           kept == {i \in DOMAIN ev : ev[i].domain # r.domain}
           t == Keep(ev, kept)
<1>1. reports' = Append(t, r) /\ lookup' = [at |-> "store", report |-> r]
  BY WarningKeeps DEF W!Remember
<1>2. /\ ev \in Seq(Report) /\ Len(ev) < MaxReports
      /\ \A n \in DOMAIN ev : \E i \in DOMAIN reports : ev[n] = reports[i]
      /\ \A m, n \in DOMAIN ev : ev[m].domain = ev[n].domain => m = n
  BY EvictedReports
<1> HIDE DEF ev
<1>3. kept \subseteq DOMAIN ev /\ \A i \in kept : ev[i].domain # r.domain
  OBVIOUS
<1> HIDE DEF kept
<1>4. /\ t \in Seq(Report) /\ Len(t) <= Len(ev)
      /\ \A n \in DOMAIN t : \E i \in kept : t[n] = ev[i]
      /\ \A m, n \in DOMAIN t : t[m].domain = t[n].domain => m = n
  BY <1>2, <1>3, KeptReports
<1> HIDE DEF t
<1>5. /\ reports' \in Seq(Report) /\ Len(reports') = Len(t) + 1 /\ Len(t) \in Nat
      /\ DOMAIN reports' = 1..(Len(t) + 1) /\ DOMAIN t = 1..Len(t)
      /\ \A n \in 1..Len(t) : reports'[n] = t[n]
      /\ reports'[Len(t) + 1] = r
  BY <1>1, <1>4
<1>6. Len(reports') <= MaxReports
  <2>1. MaxReports \in Nat /\ Len(ev) \in Nat
    BY <1>2 DEF W!ReportAssumption
  <2> QED BY <1>2, <1>4, <1>5, <2>1
<1>7. \A n \in DOMAIN t : t[n].domain # r.domain /\ Grounded(t[n], Current)
  <2> SUFFICES ASSUME NEW n \in DOMAIN t PROVE t[n].domain # r.domain /\ Grounded(t[n], Current)
    OBVIOUS
  <2>1. PICK i \in kept : t[n] = ev[i]
    BY <1>4
  <2>2. PICK j \in DOMAIN reports : ev[i] = reports[j]
    BY <1>2, <1>3, <2>1
  <2> QED BY <1>3, <2>1, <2>2 DEF WarningInv
<1>8. \A m, n \in DOMAIN reports' : reports'[m].domain = reports'[n].domain => m = n
  BY <1>4, <1>5, <1>7
<1>9. \A n \in DOMAIN reports' : Grounded(reports'[n], Current)
  BY <1>5, <1>7
<1>10. lookup' \in Lookup
  BY <1>1 DEF Lookup
<1>11. W!MemoryBounded'
  BY <1>6, <1>8 DEF W!MemoryBounded
<1>12. Current' = Current
  BY DEF Current, W!SourceRevision
<1> QED BY <1>1, <1>5, <1>9, <1>10, <1>11, <1>12 DEF WarningInv, WarningTypes

LEMMA EndWarnings ==
    ASSUME W!ReportAssumption, WarningInv, W!Timeout \/ W!Finish PROVE WarningInv'
<1>1. UNCHANGED <<config, redis, acted>> /\ lookup.at = "fetch"
  BY DEF W!Timeout, W!Finish
<1>2. lookup.domain \in Domain /\ lookup.evidence \in SUBSET Evidence
      /\ FoundBy(lookup.evidence, Current)
  BY <1>1 DEF WarningInv, WarningTypes, Lookup, W!Idle
<1>3. W!HasStrongWarning(lookup.evidence) \in BOOLEAN
  BY DEF W!HasStrongWarning
<1>4. /\ W!TimedOut(lookup) \in Report /\ Grounded(W!TimedOut(lookup), Current)
      /\ W!Complete(lookup) \in Report /\ Grounded(W!Complete(lookup), Current)
  BY <1>2, <1>3 DEF W!TimedOut, W!Complete, Report, Grounded
<1> QED BY <1>1, <1>4, RememberWarnings DEF W!Timeout, W!Finish

LEMMA ShareWarnings == ASSUME WarningInv, W!Share PROVE WarningInv'
<1> DEFINE r == lookup.report
           k == W!Key(r.domain)
<1>1. /\ lookup.at = "store" /\ UNCHANGED <<config, reports>> /\ lookup' = W!Idle
      /\ W!Act("api", r.domain, r)
      /\ \/ UNCHANGED redis
         \/ redis' = [x \in DOMAIN redis \cup {k} |-> IF x = k THEN r ELSE redis[x]]
  BY DEF W!Share
<1>2. r \in Report /\ Grounded(r, Current)
  BY <1>1 DEF WarningInv, WarningTypes, Lookup, W!Idle
<1>3. /\ acted' \in [{"api", "resolver"} -> [Domain -> Served]]
      /\ \A x \in {"api", "resolver"}, y \in Domain : Grounded(acted'[x][y], Current)
  BY <1>1, <1>2, ActWarnings DEF WarningInv, Report
<1>4. k[1] = Current
  BY DEF W!Key, Current
<1> HIDE DEF r, k
<1>5. redis' \in [DOMAIN redis' -> Report] /\ \A x \in DOMAIN redis' : Grounded(redis'[x], x[1])
  <2>1. CASE UNCHANGED redis
    BY <2>1 DEF WarningInv, WarningTypes
  <2>2. CASE redis' = [x \in DOMAIN redis \cup {k} |-> IF x = k THEN r ELSE redis[x]]
    BY <1>2, <1>4, <2>2 DEF WarningInv, WarningTypes
  <2> QED BY <1>1, <2>1, <2>2
<1>6. lookup' \in Lookup /\ lookup'.at = "idle"
  BY <1>1 DEF Lookup, W!Idle
<1> QED BY <1>1, <1>3, <1>5, <1>6
        DEF WarningInv, WarningTypes, Current, W!MemoryBounded, W!SourceRevision

LEMMA ExpireWarnings ==
    ASSUME WarningInv, W!ExpireMemory \/ W!ExpireRedis PROVE WarningInv'
<1>1. UNCHANGED <<config, lookup, acted>>
  BY DEF W!ExpireMemory, W!ExpireRedis
<1>2. ASSUME NEW r \in Report, NEW v
      PROVE  /\ [r EXCEPT !.expires = "past"] \in Report
             /\ [r EXCEPT !.expires = "past"].domain = r.domain
             /\ Grounded(r, v) => Grounded([r EXCEPT !.expires = "past"], v)
  BY DEF Report, Grounded
<1>3. CASE W!ExpireMemory
  <2>1. PICK i \in DOMAIN reports : reports' = [reports EXCEPT ![i].expires = "past"]
    BY <1>3 DEF W!ExpireMemory
  <2>2. reports \in Seq(Report) /\ reports[i] \in Report /\ UNCHANGED redis
    BY <1>3 DEF WarningInv, WarningTypes, W!ExpireMemory
  <2>3. /\ reports' \in Seq(Report) /\ DOMAIN reports' = DOMAIN reports
        /\ Len(reports') = Len(reports)
        /\ \A j \in DOMAIN reports : reports'[j] =
             IF j = i THEN [reports[i] EXCEPT !.expires = "past"] ELSE reports[j]
    BY <1>2, <2>1, <2>2
  <2>4. \A j \in DOMAIN reports : /\ reports'[j].domain = reports[j].domain
                                  /\ Grounded(reports'[j], Current)
    BY <1>2, <2>2, <2>3 DEF WarningInv
  <2>5. W!MemoryBounded'
    BY <2>3, <2>4 DEF WarningInv, W!MemoryBounded
  <2> QED BY <1>1, <2>2, <2>3, <2>4, <2>5 DEF WarningInv, WarningTypes, Current, W!SourceRevision
<1>4. CASE W!ExpireRedis
  <2>1. PICK k \in DOMAIN redis : redis' = [redis EXCEPT ![k].expires = "past"]
    BY <1>4 DEF W!ExpireRedis
  <2>2. redis \in [DOMAIN redis -> Report] /\ UNCHANGED reports
    BY <1>4 DEF WarningInv, WarningTypes, W!ExpireRedis
  <2>3. /\ DOMAIN redis' = DOMAIN redis
        /\ redis' \in [DOMAIN redis' -> Report]
        /\ \A j \in DOMAIN redis : redis'[j] =
             IF j = k THEN [redis[k] EXCEPT !.expires = "past"] ELSE redis[j]
    BY <1>2, <2>1, <2>2
  <2>4. \A j \in DOMAIN redis' : Grounded(redis'[j], j[1])
    BY <1>2, <2>2, <2>3 DEF WarningInv
  <2> QED BY <1>1, <2>2, <2>3, <2>4
          DEF WarningInv, WarningTypes, Current, W!SourceRevision, W!MemoryBounded
<1> QED BY <1>3, <1>4

LEMMA RestartWarnings == ASSUME W!ReportAssumption, WarningInv, W!Restart PROVE WarningInv'
<1>1. config' = config + 1 /\ config < Len(Configs) /\ reports' = <<>> /\ lookup' = W!Idle
      /\ UNCHANGED redis
      /\ acted' = [q \in {"api", "resolver"} |-> [d \in Domain |-> W!Nothing]]
  BY DEF W!Restart
<1>2. config' \in DOMAIN Configs
  BY <1>1 DEF WarningInv, WarningTypes, W!ReportAssumption
<1>3. W!Nothing \in Served /\ \A v : Grounded(W!Nothing, v)
  BY DEF Served, W!Nothing, Grounded, FoundBy
<1>4. lookup' \in Lookup /\ lookup'.at = "idle"
  BY <1>1 DEF Lookup, W!Idle
<1>5. W!MemoryBounded'
  BY <1>1 DEF W!MemoryBounded, W!ReportAssumption
<1> QED BY <1>1, <1>2, <1>3, <1>4, <1>5 DEF WarningInv, WarningTypes

LEMMA WarningStep ==
    ASSUME W!ReportAssumption, WarningInv, [W!Next]_(W!vars) PROVE WarningInv'
<1>1. CASE W!Publish \/ UNCHANGED W!vars
  <2>1. UNCHANGED <<config, reports, redis, lookup, acted>>
    BY <1>1 DEF W!Publish, W!vars
  <2> QED BY <2>1 DEF WarningInv, WarningTypes, Current, W!SourceRevision, W!MemoryBounded
<1> QED BY <1>1, ReadWarnings, FetchWarnings, EndWarnings, ShareWarnings, ExpireWarnings,
           RestartWarnings DEF W!Next

(* For any domains, sources, settings and capacity: a block rests on a      *)
(* strong warning of a source the running configuration reads and trusts,   *)
(* across restarts with other settings and copies other processes left, and *)
(* the reports in memory are bounded, one for a domain (Service.Lookup,     *)
(* Cached, evidenceCacheKey, evictForInsertLocked).                         *)
THEOREM WarningsAreGrounded ==
    ASSUME W!ReportAssumption PROVE W!Spec => []ReportsSound
<1>1. W!Init => WarningInv BY InitWarnings
<1>2. WarningInv /\ [W!Next]_(W!vars) => WarningInv' BY WarningStep
<1>3. WarningInv => ReportsSound
  <2> SUFFICES ASSUME WarningInv, NEW q \in {"api", "resolver"}, NEW d \in Domain,
                      acted[q][d].block
               PROVE  \E e \in acted[q][d].evidence :
                        e.confidence >= W!StrongEvidence /\ e.source \in W!Trusted
    BY DEF ReportsSound, W!ReportsSound, W!BlockGrounded, WarningInv
  <2>1. FoundBy(acted[q][d].evidence, Current) /\ W!HasStrongWarning(acted[q][d].evidence)
    BY DEF WarningInv, Grounded
  <2>2. Reads(Current) = W!Trusted
    BY ReadsAreTrusted DEF WarningInv, WarningTypes
  <2> QED BY <2>1, <2>2 DEF FoundBy, W!HasStrongWarning
<1> QED BY <1>1, <1>2, <1>3, PTL DEF W!Spec
=============================================================================
