---------------------------- MODULE ControlProofs ----------------------------
(***************************************************************************)
(* What holds, for any number of processes, loaders, names and snapshots,  *)
(* of the data a process follows while it serves.  Of the allow list:      *)
(* types, that a revision tells the set published under it, and that a     *)
(* configured floor keeps a populated index so.  Of the client mappings:   *)
(* that a revision tells the rows of the index that carries it.            *)
(***************************************************************************)
EXTENDS Whitelist, TLAPS, FiniteSetTheorems, SequenceTheorems

(* The import task is at a step of its own only.                            *)
ImportSteps == {"snapshot", "save", "floor", "commit", "undo"}

RolesKept == \A p \in Proc : pc[p] \in ImportSteps => RoleOf[p] = "import"

TypeInv == TypeOK /\ RolesKept

(* Prune keeps the newest elements of a sequence of snapshots.              *)
LEMMA PruneType ==
    ASSUME NEW s \in Seq(Snapshot)
    PROVE  /\ Prune(s) \in Seq(Snapshot)
           /\ Len(Prune(s)) <= MaxSnapshots
           /\ \A i \in 1..Len(Prune(s)) : \E j \in 1..Len(s) : Prune(s)[i] = s[j]
<1>1. MaxSnapshots \in Nat /\ MaxSnapshots > 0
  BY WhitelistAssumption
<1>2. CASE Len(s) > MaxSnapshots
  <2> DEFINE m == Len(s) - MaxSnapshots + 1
  <2>1. m \in 1..Len(s) /\ Len(s) \in Nat
    BY <1>1, <1>2
  <2>2. /\ SubSeq(s, m, Len(s)) \in Seq(Snapshot)
        /\ Len(SubSeq(s, m, Len(s))) = MaxSnapshots
        /\ \A i \in 1..MaxSnapshots : SubSeq(s, m, Len(s))[i] = s[m + i - 1]
    BY <1>1, <1>2, <2>1
  <2>3. \A i \in 1..MaxSnapshots : m + i - 1 \in 1..Len(s)
    BY <1>1, <1>2, <2>1
  <2> QED BY <1>2, <2>2, <2>3, <1>1 DEF Prune
<1>3. CASE ~(Len(s) > MaxSnapshots)
  BY <1>1, <1>3 DEF Prune
<1> QED BY <1>2, <1>3

(* A stored snapshot is one.                                                *)
LEMMA SnapshotType ==
    ASSUME TypeOK, NEW i \in DOMAIN snapshots
    PROVE  /\ snapshots[i].set \in SUBSET Domain
           /\ snapshots[i].id \in Nat \ {0}
<1>1. DOMAIN snapshots = 1..Len(snapshots)
  BY DEF TypeOK
<1>2. snapshots[i] \in Snapshot
  BY <1>1 DEF TypeOK
<1> QED BY <1>2 DEF Snapshot

LEMMA RevisionNat == ASSUME TypeOK PROVE revision \in Nat
BY WhitelistAssumption DEF TypeOK

(* The identifier of a new snapshot.                                        *)
LEMMA NextIdType == ASSUME TypeOK PROVE NextId \in Nat \ {0}
<1>1. CASE snapshots = <<>>
  BY <1>1 DEF NextId
<1>2. CASE snapshots # <<>>
  <2>1. Len(snapshots) \in 1..Len(snapshots)
    BY <1>2 DEF TypeOK
  <2>2. snapshots[Len(snapshots)] \in Snapshot
    BY <2>1 DEF TypeOK
  <2> QED BY <1>2, <2>2 DEF NextId, Snapshot
<1> QED BY <1>1, <1>2

LEMMA InitType == ASSUME Init PROVE TypeInv
<1>1. NoRegister \in Register
  BY DEF NoRegister, Register
<1>2. snapshots \in Seq(Snapshot) /\ Len(snapshots) = 0
  BY DEF Init
<1> QED BY <1>1, <1>2, WhitelistAssumption
        DEF Init, TypeInv, TypeOK, RolesKept, ImportSteps, Index, Steps

(* Reading and publishing change registers, steps and indexes within their  *)
(* types.                                                                   *)
LEMMA LoadType ==
    ASSUME TypeInv, NEW p \in Proc, Load(p) \/ ReadFails(p)
    PROVE  TypeInv'
<1>1. NoRegister \in Register
  BY DEF NoRegister, Register
<1>2. NodeOf[p] \in Node
  BY WhitelistAssumption
<1>3. reg[p] \in Register /\ index[NodeOf[p]] \in Index
  BY <1>2 DEF TypeInv, TypeOK
<1> USE DEF TypeInv, TypeOK, Active, Goto, Finish, Steps, storeVars
<1>4. RolesKept'
  BY <1>2 DEF Load, ReadFails, ReadRevision, ReadCountEmpty, ReadCount, StreamRows, Publish,
              PublishEmpty, Loaded, LoadFailed, RolesKept, ImportSteps
<1>5. CASE ReadRevision(p)
  <2>1. [reg[p] EXCEPT !.rev = revision] \in Register
    BY <1>3, RevisionNat DEF Register
  <2> QED BY <1>4, <1>5, <2>1 DEF ReadRevision
<1>6. CASE ReadCountEmpty(p)
  <2>1. [set |-> {}, rev |-> reg[p].rev] \in Index
    BY <1>3 DEF Index, Register
  <2> QED BY <1>1, <1>2, <1>4, <1>6, <2>1 DEF ReadCountEmpty, Loaded
<1>7. CASE ReadCount(p) \/ StreamRows(p)
  <2>1. [reg[p] EXCEPT !.rows = table] \in Register
    BY <1>3 DEF Register
  <2> QED BY <1>4, <1>7, <2>1 DEF ReadCount, StreamRows
<1>8. CASE Publish(p)
  <2>1. [set |-> reg[p].rows, rev |-> reg[p].rev] \in Index
    BY <1>3 DEF Index, Register
  <2> QED BY <1>1, <1>2, <1>4, <1>8, <2>1 DEF Publish, Loaded
<1>9. CASE PublishEmpty(p)
  <2>1. [set |-> {}, rev |-> reg[p].rev] \in Index
    BY <1>3 DEF Index, Register
  <2> QED BY <1>1, <1>2, <1>4, <1>9, <2>1 DEF PublishEmpty
<1>10. CASE ReadFails(p)
  BY <1>1, <1>4, <1>10, WhitelistAssumption DEF ReadFails, LoadFailed
<1> QED BY <1>5, <1>6, <1>7, <1>8, <1>9, <1>10 DEF Load

(* So do the steps that start a load, tell of one, or restart a process.    *)
LEMMA StartType ==
    ASSUME TypeInv, NEW p \in Proc,
           \/ Reconcile(p) \/ \E m \in msgs : Deliver(p, m)
           \/ Flush(p) \/ Announce(p) \/ \E domains \in Lists : Download(p, domains)
    PROVE  TypeInv'
<1>1. NoRegister \in Register
  BY DEF NoRegister, Register
<1>2. NodeOf[p] \in Node
  BY WhitelistAssumption
<1>3. reg[p] \in Register /\ index[NodeOf[p]] \in Index
  BY <1>2 DEF TypeInv, TypeOK
<1> USE DEF TypeInv, TypeOK, Active, Goto, Finish, Steps, storeVars
<1>4. CASE Reconcile(p) \/ Flush(p)
  BY <1>4 DEF Reconcile, Flush, RolesKept, ImportSteps
<1>5. CASE \E m \in msgs : Deliver(p, m)
  BY <1>5 DEF Deliver, RolesKept, ImportSteps
<1>6. CASE Announce(p)
  BY <1>1, <1>3, <1>6 DEF Announce, RolesKept, ImportSteps, Index
<1>7. ASSUME NEW domains \in Lists, Download(p, domains) PROVE TypeInv'
  <2>1. [reg[p] EXCEPT !.new = domains] \in Register
    BY <1>3, WhitelistAssumption DEF Register
  <2>2. imports' \in 0..MaxImports
    BY <1>7, WhitelistAssumption DEF Download
  <2> QED BY <1>7, <2>1, <2>2 DEF Download, RolesKept, ImportSteps
<1> QED BY <1>4, <1>5, <1>6, <1>7

LEMMA EnvironmentType ==
    ASSUME TypeInv, (\E m \in msgs : Lose(m)) \/ (\E n \in Node : Restart(n))
    PROVE  TypeInv'
<1>1. NoRegister \in Register
  BY DEF NoRegister, Register
<1> USE DEF TypeInv, TypeOK, Steps, storeVars, RolesKept, ImportSteps
<1>2. CASE \E m \in msgs : Lose(m)
  BY <1>2, WhitelistAssumption DEF Lose
<1>3. CASE \E n \in Node : Restart(n)
  BY <1>1, <1>3, WhitelistAssumption DEF Restart, Index
<1> QED BY <1>2, <1>3

(* What writes the table or the snapshots.                                  *)
LEMMA WriteType ==
    ASSUME TypeInv, NEW p \in Proc,
           Import(p) \/ \E i \in DOMAIN snapshots : Rollback(p, i)
    PROVE  TypeInv'
<1>1. NoRegister \in Register
  BY DEF NoRegister, Register
<1>2. reg[p] \in Register
  BY DEF TypeInv, TypeOK
<1>3. ASSUME NEW set \in SUBSET Domain, Replace(set)
      PROVE  table' \subseteq Domain /\ revision' \in 0..MaxRevision
  <2>1. MaxRevision \in Nat
    BY WhitelistAssumption
  <2> QED BY <1>3, <2>1 DEF Replace, TypeInv, TypeOK
<1>4. \A i \in DOMAIN snapshots : snapshots[i].set \in SUBSET Domain /\ snapshots[i].id \in Nat
  BY SnapshotType DEF TypeInv
<1> USE DEF TypeInv, TypeOK, Active, Goto, Finish, Steps, storeVars
<1>5. ASSUME NEW i \in DOMAIN snapshots, Rollback(p, i) PROVE TypeInv'
  <2>1. [reg[p] EXCEPT !.tell = TRUE] \in Register
    BY <1>2 DEF Register
  <2>2. table' \subseteq Domain /\ revision' \in 0..MaxRevision
    BY <1>3, <1>4, <1>5 DEF Rollback
  <2> QED BY <1>5, <2>1, <2>2 DEF Rollback, RolesKept, ImportSteps
<1>6. CASE SnapshotRead(p)
  <2>1. [reg[p] EXCEPT !.rows = table] \in Register
    BY <1>2 DEF Register
  <2> QED BY <1>6, <2>1 DEF SnapshotRead, RolesKept, ImportSteps
<1>7. CASE SaveSnapshot(p)
  <2>1. NextId \in Nat \ {0}
    BY NextIdType
  <2>2. Append(snapshots, [id |-> NextId, set |-> reg[p].rows]) \in Seq(Snapshot)
    BY <1>2, <2>1 DEF Snapshot, Register
  <2>3. snapshots' \in Seq(Snapshot) /\ Len(snapshots') <= MaxSnapshots
    BY <1>7, <2>2, PruneType DEF SaveSnapshot
  <2>4. reg' \in [Proc -> Register]
    BY <1>2, <1>7, <2>1 DEF SaveSnapshot, Register
  <2> QED BY <1>7, <2>3, <2>4 DEF SaveSnapshot, RolesKept, ImportSteps
<1>8. CASE CheckFloor(p)
  BY <1>1, <1>2, <1>8 DEF CheckFloor, RolesKept, ImportSteps
<1>9. CASE Commit(p)
  BY <1>2, <1>3, <1>9 DEF Commit, RolesKept, ImportSteps, Register
<1>10. CASE Undo(p)
  <2> DEFINE found == {i \in DOMAIN snapshots : snapshots[i].id = reg[p].id}
  <2>1. CASE found = {}
    BY <1>1, <1>10, <2>1 DEF Undo, RolesKept, ImportSteps
  <2>2. CASE found # {}
    <3>1. [reg[p] EXCEPT !.undo = TRUE] \in Register
      BY <1>2 DEF Register
    <3>2. table' \subseteq Domain /\ revision' \in 0..MaxRevision
      BY <1>3, <1>4, <1>10, <2>2 DEF Undo
    <3> QED BY <1>10, <2>2, <3>1, <3>2 DEF Undo, RolesKept, ImportSteps
  <2> QED BY <2>1, <2>2
<1> QED BY <1>5, <1>6, <1>7, <1>8, <1>9, <1>10 DEF Import

LEMMA NextType == ASSUME TypeInv, [Next]_vars PROVE TypeInv'
<1>1. CASE UNCHANGED vars
  BY <1>1 DEF vars, TypeInv, TypeOK, RolesKept
<1> QED BY <1>1, LoadType, StartType, EnvironmentType, WriteType DEF Next

(* Types of the allow list's state, whatever runs concurrently.             *)
THEOREM WhitelistTypes == Spec => []TypeInv
BY InitType, NextType, PTL DEF Spec

-----------------------------------------------------------------------------
(* No published or remembered revision is ahead of the store, and rows that *)
(* were read under the store's present revision are the store's rows.       *)
RevInv ==
    /\ \A n \in Node : /\ index[n].rev <= revision
                       /\ index[n].rev = revision => index[n].set = table
    /\ \A p \in Proc : /\ reg[p].rev <= revision
                       /\ pc[p] = "publish" /\ reg[p].rev = revision => reg[p].rows = table

LEMMA InitRev == ASSUME Init PROVE RevInv
BY DEF Init, RevInv, NoRegister

(* A load keeps the revision it read first together with the rows it read   *)
(* after it.                                                                *)
LEMMA LoadRev ==
    ASSUME TypeInv, RevInv, NEW p \in Proc, Load(p) \/ ReadFails(p)
    PROVE  RevInv'
<1>1. NodeOf[p] \in Node
  BY WhitelistAssumption
<1>2. index \in [Node -> Index] /\ reg \in [Proc -> Register] /\ pc \in [Proc -> Steps]
  BY DEF TypeInv, TypeOK
<1>3. revision \in Nat /\ revision' = revision /\ table' = table
  BY RevisionNat DEF TypeInv, Load, ReadFails, ReadRevision, ReadCountEmpty, ReadCount, StreamRows,
                     Publish, PublishEmpty, storeVars
<1> USE DEF RevInv, Active, Goto, Finish, Loaded, NoRegister, Index, Register
<1>4. CASE ReadRevision(p) \/ ReadCount(p) \/ StreamRows(p)
  BY <1>2, <1>3, <1>4 DEF ReadRevision, ReadCount, StreamRows
<1>5. CASE ReadCountEmpty(p)
  <2>1. \A n \in Node : index'[n] = index[n] \/ index'[n] = [set |-> {}, rev |-> reg[p].rev]
    BY <1>1, <1>2, <1>5 DEF ReadCountEmpty
  <2>2. table = {} /\ reg[p].rev <= revision
    BY <1>5 DEF ReadCountEmpty
  <2>3. \A q \in Proc : \/ pc'[q] = pc[q] /\ reg'[q] = reg[q]
                        \/ pc'[q] # "publish" /\ reg'[q].rev \in {0, reg[q].rev}
    BY <1>2, <1>5 DEF ReadCountEmpty
  <2> QED BY <1>2, <1>3, <2>1, <2>2, <2>3
<1>6. CASE Publish(p)
  BY <1>1, <1>2, <1>3, <1>6 DEF Publish
<1>7. CASE PublishEmpty(p)
  BY <1>1, <1>2, <1>3, <1>7 DEF PublishEmpty
<1>8. CASE ReadFails(p)
  BY <1>2, <1>3, <1>8 DEF ReadFails, LoadFailed
<1> QED BY <1>4, <1>5, <1>6, <1>7, <1>8 DEF Load

(* Steps that leave table and revision alone and touch no loaded rows.      *)
LEMMA QuietRev ==
    ASSUME TypeInv, RevInv,
           \/ \E p \in Proc :
                \/ Reconcile(p) \/ (\E m \in msgs : Deliver(p, m)) \/ Flush(p) \/ Announce(p)
                \/ (\E domains \in Lists : Download(p, domains))
                \/ SnapshotRead(p) \/ SaveSnapshot(p) \/ CheckFloor(p)
           \/ \E m \in msgs : Lose(m)
           \/ \E n \in Node : Restart(n)
    PROVE  RevInv'
<1>1. index \in [Node -> Index] /\ reg \in [Proc -> Register] /\ pc \in [Proc -> Steps]
  BY DEF TypeInv, TypeOK
<1>2. revision \in Nat
  BY RevisionNat DEF TypeInv
<1> USE DEF RevInv, Active, Goto, Finish, NoRegister, Index, Register, storeVars
<1>3. ASSUME NEW p \in Proc,
             Reconcile(p) \/ (\E m \in msgs : Deliver(p, m)) \/ Flush(p) \/ Announce(p)
      PROVE  RevInv'
  BY <1>1, <1>2, <1>3 DEF Reconcile, Deliver, Flush, Announce
<1>4. ASSUME NEW p \in Proc,
             \/ \E domains \in Lists : Download(p, domains)
             \/ SnapshotRead(p) \/ SaveSnapshot(p) \/ CheckFloor(p)
      PROVE  RevInv'
  <2>1. UNCHANGED <<table, revision, index>>
    BY <1>4 DEF Download, SnapshotRead, SaveSnapshot, CheckFloor
  <2>2. \A q \in Proc : \/ pc'[q] = pc[q] /\ reg'[q] = reg[q]
                        \/ pc'[q] # "publish" /\ reg'[q].rev \in {0, reg[q].rev}
    <3>1. CASE \E domains \in Lists : Download(p, domains)
      BY <1>1, <3>1 DEF Download
    <3>2. CASE SnapshotRead(p) \/ CheckFloor(p)
      BY <1>1, <3>2 DEF SnapshotRead, CheckFloor
    <3>3. CASE SaveSnapshot(p)
      BY <1>1, <3>3 DEF SaveSnapshot
    <3> QED BY <1>4, <3>1, <3>2, <3>3
  <2> QED BY <1>1, <1>2, <2>1, <2>2
<1>5. CASE \E m \in msgs : Lose(m)
  BY <1>5 DEF Lose
<1>6. CASE \E n \in Node : Restart(n)
  BY <1>1, <1>2, <1>6 DEF Restart
<1> QED BY <1>3, <1>4, <1>5, <1>6

(* A replacement takes a revision nobody has seen.                          *)
LEMMA WriteRev ==
    ASSUME TypeInv, RevInv, NEW p \in Proc,
           Commit(p) \/ Undo(p) \/ \E i \in DOMAIN snapshots : Rollback(p, i)
    PROVE  RevInv'
<1>1. index \in [Node -> Index] /\ reg \in [Proc -> Register] /\ pc \in [Proc -> Steps]
  BY DEF TypeInv, TypeOK
<1>2. revision \in Nat
  BY RevisionNat DEF TypeInv
<1> USE DEF RevInv, Active, Goto, Finish, NoRegister, Index, Register, Replace
<1>3. CASE Commit(p)
  BY <1>1, <1>2, <1>3 DEF Commit
<1>4. CASE Undo(p)
  BY <1>1, <1>2, <1>4 DEF Undo
<1>5. CASE \E i \in DOMAIN snapshots : Rollback(p, i)
  BY <1>1, <1>2, <1>5 DEF Rollback
<1> QED BY <1>3, <1>4, <1>5

LEMMA NextRev == ASSUME TypeInv, RevInv, [Next]_vars PROVE RevInv'
<1>1. CASE UNCHANGED vars
  BY <1>1 DEF vars, RevInv
<1> QED BY <1>1, LoadRev, QuietRev, WriteRev DEF Next, Import

(* An index that carries the store's revision holds the store's rows, for   *)
(* any number of loaders, importers' lists and processes.                   *)
THEOREM RevisionsTellTheSet == Spec => []RevisionTellsSet
<1>1. RevInv => RevisionTellsSet
  BY DEF RevInv, RevisionTellsSet
<1> QED BY <1>1, WhitelistTypes, InitRev, NextRev, PTL DEF Spec

-----------------------------------------------------------------------------
(* Every stored copy, and every copy about to be stored, is a set of safe   *)
(* names and not empty, so that restoring it restores all of it.            *)
CopiesKept ==
    /\ table \subseteq Safe
    /\ \A i \in DOMAIN snapshots : snapshots[i].set # {} /\ snapshots[i].set \subseteq Safe
    /\ \A p \in Proc : pc[p] = "save" => reg[p].rows # {} /\ reg[p].rows \subseteq Safe

(* With a floor, an empty table is one that was never filled: nothing has   *)
(* been copied, published or read from it, and an import past the floor     *)
(* either brings a safe name or has nothing to lose.                        *)
NeverEmptied ==
    /\ table = {} => /\ DOMAIN snapshots = {}
                     /\ \A n \in Node : index[n].set = {}
                     /\ \A p \in Proc : pc[p] \notin {"rows", "publish", "save"}
    /\ \A p \in Proc : /\ pc[p] = "publish" => reg[p].rows # {}
                       /\ pc[p] = "commit" => reg[p].new \cap Safe # {} \/ table = {}

FloorInv == CopiesKept /\ (minEntries > 0 => NeverEmptied)

LEMMA InitFloor == ASSUME Init PROVE FloorInv
BY DEF Init, FloorInv, CopiesKept, NeverEmptied

LEMMA LoadFloor ==
    ASSUME TypeInv, FloorInv, NEW p \in Proc, Load(p) \/ ReadFails(p)
    PROVE  FloorInv'
<1>1. NodeOf[p] \in Node
  BY WhitelistAssumption
<1>2. index \in [Node -> Index] /\ reg \in [Proc -> Register] /\ pc \in [Proc -> Steps]
  BY DEF TypeInv, TypeOK
<1>3. UNCHANGED <<minEntries, table, snapshots>>
  BY DEF Load, ReadFails, ReadRevision, ReadCountEmpty, ReadCount, StreamRows, Publish,
         PublishEmpty, storeVars
<1> USE DEF FloorInv, CopiesKept, NeverEmptied, Active, Goto, Finish, Loaded, NoRegister, Index, Register
<1>4. CASE ReadRevision(p)
  BY <1>2, <1>3, <1>4 DEF ReadRevision
<1>5. CASE ReadCountEmpty(p)
  BY <1>1, <1>2, <1>3, <1>5 DEF ReadCountEmpty
<1>6. CASE ReadCount(p) \/ StreamRows(p)
  <2>1. CASE ReadCount(p)
    BY <1>2, <1>3, <2>1 DEF ReadCount
  <2>2. CASE StreamRows(p)
    <3>1. pc[p] = "rows" /\ pc' = [pc EXCEPT ![p] = "publish"] /\ UNCHANGED index
      BY <2>2 DEF StreamRows
    <3>2. reg'[p].rows = table /\ \A q \in Proc : q # p => reg'[q] = reg[q]
      BY <1>2, <2>2 DEF StreamRows
    <3> QED BY <1>2, <1>3, <3>1, <3>2
  <2> QED BY <1>6, <2>1, <2>2
<1>7. CASE Publish(p)
  BY <1>1, <1>2, <1>3, <1>7 DEF Publish
<1>8. CASE PublishEmpty(p)
  BY <1>1, <1>2, <1>3, <1>8 DEF PublishEmpty
<1>9. CASE ReadFails(p)
  BY <1>2, <1>3, <1>9 DEF ReadFails, LoadFailed
<1> QED BY <1>4, <1>5, <1>6, <1>7, <1>8, <1>9 DEF Load

LEMMA QuietFloor ==
    ASSUME TypeInv, FloorInv,
           \/ \E p \in Proc :
                \/ Reconcile(p) \/ (\E m \in msgs : Deliver(p, m)) \/ Flush(p) \/ Announce(p)
                \/ (\E domains \in Lists : Download(p, domains)) \/ SnapshotRead(p)
           \/ \E m \in msgs : Lose(m)
           \/ \E n \in Node : Restart(n)
    PROVE  FloorInv'
<1>1. index \in [Node -> Index] /\ reg \in [Proc -> Register] /\ pc \in [Proc -> Steps]
  BY DEF TypeInv, TypeOK
<1> USE DEF FloorInv, CopiesKept, NeverEmptied, Active, Goto, Finish, NoRegister, Index, Register, storeVars
<1>2. ASSUME NEW p \in Proc,
             Reconcile(p) \/ (\E m \in msgs : Deliver(p, m)) \/ Flush(p) \/ Announce(p)
      PROVE  FloorInv'
  BY <1>1, <1>2 DEF Reconcile, Deliver, Flush, Announce
<1>3. ASSUME NEW p \in Proc, \E domains \in Lists : Download(p, domains)
      PROVE  FloorInv'
  BY <1>1, <1>3 DEF Download
<1>4. ASSUME NEW p \in Proc, SnapshotRead(p) PROVE FloorInv'
  BY <1>1, <1>4 DEF SnapshotRead
<1>5. CASE \E m \in msgs : Lose(m)
  BY <1>5 DEF Lose
<1>6. CASE \E n \in Node : Restart(n)
  BY <1>1, <1>6 DEF Restart
<1> QED BY <1>2, <1>3, <1>4, <1>5, <1>6

(* Past the floor an import brings a safe name, or the table is empty.      *)
LEMMA FloorBringsNames ==
    ASSUME TypeInv, minEntries > 0, NEW p \in Proc, AboveFloor(reg[p].new, table)
    PROVE  reg[p].new \cap Safe # {} \/ table = {}
<1>1. minEntries \in Nat
  BY WhitelistAssumption DEF TypeInv, TypeOK
<1>2. Cardinality({}) = 0
  BY FS_EmptySet
<1>3. CASE table # {}
  <2>1. Cardinality(reg[p].new \cap Safe) >= minEntries
    BY <1>3 DEF AboveFloor
  <2>2. ASSUME reg[p].new \cap Safe = {} PROVE FALSE
    <3>1. 0 >= minEntries
      BY <1>2, <2>1, <2>2
    <3> QED BY <1>1, <3>1
  <2> QED BY <2>2
<1> QED BY <1>3

(* A copy that is stored is one of the old ones or the one read from the    *)
(* table.                                                                   *)
LEMMA SavedCopies ==
    ASSUME TypeInv, NEW p \in Proc, SaveSnapshot(p)
    PROVE  \A i \in DOMAIN snapshots' :
             \/ snapshots'[i].set = reg[p].rows
             \/ \E j \in DOMAIN snapshots : snapshots'[i].set = snapshots[j].set
<1> DEFINE new == [id |-> NextId, set |-> reg[p].rows]
           s == Append(snapshots, new)
<1>1. snapshots \in Seq(Snapshot)
  BY DEF TypeInv, TypeOK
<1>2. new \in Snapshot
  BY NextIdType DEF TypeInv, TypeOK, Snapshot, Register
<1>3. /\ s \in Seq(Snapshot) /\ Len(s) = Len(snapshots) + 1
      /\ \A j \in 1..Len(snapshots) : s[j] = snapshots[j]
      /\ s[Len(snapshots) + 1] = new
  BY <1>1, <1>2
<1>4. snapshots' = Prune(s) /\ Prune(s) \in Seq(Snapshot)
      /\ \A i \in 1..Len(Prune(s)) : \E j \in 1..Len(s) : Prune(s)[i] = s[j]
  BY <1>3, PruneType DEF SaveSnapshot
<1>5. Len(snapshots) \in Nat /\ DOMAIN snapshots = 1..Len(snapshots)
  BY <1>1
<1>6. \A j \in 1..Len(s) : s[j] = new \/ \E k \in DOMAIN snapshots : s[j] = snapshots[k]
  BY <1>3, <1>5
<1>7. DOMAIN snapshots' = 1..Len(Prune(s))
  BY <1>4
<1> QED BY <1>4, <1>6, <1>7

LEMMA ImportFloor ==
    ASSUME TypeInv, FloorInv, NEW p \in Proc, SaveSnapshot(p) \/ CheckFloor(p)
    PROVE  FloorInv'
<1>1. index \in [Node -> Index] /\ reg \in [Proc -> Register] /\ pc \in [Proc -> Steps]
  BY DEF TypeInv, TypeOK
<1> USE DEF FloorInv, CopiesKept, NeverEmptied, Active, Goto, Finish, NoRegister, Register, storeVars
<1>2. CASE SaveSnapshot(p)
  <2>1. pc[p] = "save" /\ pc' = [pc EXCEPT ![p] = "floor"] /\ UNCHANGED <<table, index, minEntries>>
    BY <1>2 DEF SaveSnapshot
  <2>2. \A q \in Proc : reg'[q].rows = reg[q].rows /\ reg'[q].new = reg[q].new
    BY <1>1, <1>2 DEF SaveSnapshot
  <2>3. CopiesKept'
    BY <1>1, <1>2, <2>1, <2>2, SavedCopies
  <2>4. minEntries > 0 => NeverEmptied'
    BY <1>1, <2>1, <2>2
  <2> QED BY <2>1, <2>3, <2>4
<1>3. CASE CheckFloor(p)
  <2>1. CASE AboveFloor(reg[p].new, table)
    <3>1. minEntries > 0 => reg[p].new \cap Safe # {} \/ table = {}
      BY <2>1, FloorBringsNames
    <3> QED BY <1>1, <1>3, <2>1, <3>1 DEF CheckFloor
  <2>2. CASE ~AboveFloor(reg[p].new, table)
    BY <1>1, <1>3, <2>2 DEF CheckFloor
  <2> QED BY <2>1, <2>2
<1> QED BY <1>2, <1>3

(* A table that is filled stays so; the one import task is the only one     *)
(* that could have passed the floor while it was still empty.               *)
LEMMA WriteFloor ==
    ASSUME TypeInv, FloorInv, NEW p \in Proc,
           Commit(p) \/ Undo(p) \/ \E i \in DOMAIN snapshots : Rollback(p, i)
    PROVE  FloorInv'
<1>1. index \in [Node -> Index] /\ reg \in [Proc -> Register] /\ pc \in [Proc -> Steps]
  BY DEF TypeInv, TypeOK
<1> USE DEF FloorInv, CopiesKept, NeverEmptied, Active, Goto, Finish, NoRegister, Register
<1>2. CASE Commit(p)
  <2>1. \A q \in Proc : pc'[q] = "commit" => FALSE
    BY <1>1, <1>2, WhitelistAssumption DEF Commit, TypeInv, RolesKept, ImportSteps
  <2>2. table' = reg[p].new \cap Safe /\ pc[p] = "commit" /\ pc' = [pc EXCEPT ![p] = "rev"]
        /\ UNCHANGED <<minEntries, snapshots, index, reg>>
    BY <1>2 DEF Commit, Replace
  <2> QED BY <1>1, <2>1, <2>2
<1>3. ASSUME NEW i \in DOMAIN snapshots, table' = snapshots[i].set \cap Safe,
             UNCHANGED <<minEntries, snapshots, index>>,
             \A q \in Proc : reg'[q].rows = reg[q].rows /\ reg'[q].new = reg[q].new,
             pc' = [pc EXCEPT ![p] = "rev"]
      PROVE  FloorInv'
  <2>1. table' = snapshots[i].set /\ table' # {}
    BY <1>3
  <2>2. minEntries > 0 => table # {}
    BY <1>3
  <2> QED BY <1>1, <1>3, <2>1, <2>2
<1>4. CASE Undo(p)
  <2> DEFINE found == {i \in DOMAIN snapshots : snapshots[i].id = reg[p].id}
  <2>1. CASE found = {}
    BY <1>1, <1>4, <2>1 DEF Undo
  <2>2. CASE found # {}
    <3>1. \E i \in found : Replace(snapshots[i].set)
      BY <1>4, <2>2 DEF Undo
    <3>2. PICK i \in DOMAIN snapshots : table' = snapshots[i].set \cap Safe
      BY <3>1 DEF Replace
    <3>3. pc' = [pc EXCEPT ![p] = "rev"] /\ UNCHANGED <<minEntries, snapshots, index>>
      BY <1>4, <2>2 DEF Undo
    <3>4. reg' = [reg EXCEPT ![p].undo = TRUE]
      BY <1>4, <2>2 DEF Undo
    <3>5. \A q \in Proc : reg'[q].rows = reg[q].rows /\ reg'[q].new = reg[q].new
      BY <1>1, <3>4
    <3> HIDE DEF FloorInv
    <3> QED BY <1>3, <3>3, <3>5, <3>2
  <2> QED BY <2>1, <2>2
<1>5. CASE \E i \in DOMAIN snapshots : Rollback(p, i)
  BY <1>1, <1>3, <1>5 DEF Rollback, Replace
<1> QED BY <1>2, <1>4, <1>5

LEMMA NextFloor == ASSUME TypeInv, FloorInv, [Next]_vars PROVE FloorInv'
<1>1. CASE UNCHANGED vars
  BY <1>1 DEF vars, FloorInv, CopiesKept, NeverEmptied
<1> QED BY <1>1, LoadFloor, QuietFloor, ImportFloor, WriteFloor DEF Next, Import

(* Under the invariant only Publish, PublishEmpty, ReadCountEmpty and       *)
(* Restart write an index, and none of them an empty set over names.        *)
LEMMA StaysPopulated ==
    ASSUME TypeInv, FloorInv, [Next]_vars,
           NEW n \in Node, minEntries > 0, index[n].set # {}
    PROVE  index'[n].set # {}
<1>1. index \in [Node -> Index]
  BY DEF TypeInv, TypeOK
<1>2. table # {}
  BY DEF FloorInv, NeverEmptied
<1>3. ASSUME NEW p \in Proc, Load(p) PROVE index'[n].set # {}
  BY <1>1, <1>2, <1>3 DEF Load, ReadRevision, ReadCountEmpty, ReadCount, StreamRows, Publish,
                          PublishEmpty, Active, FloorInv, NeverEmptied
<1>4. ASSUME NEW m \in Node, Restart(m) PROVE index'[n].set # {}
  BY <1>1, <1>2, <1>4 DEF Restart
<1>5. ASSUME NEW p \in Proc,
             \/ ReadFails(p) \/ Reconcile(p) \/ (\E m \in msgs : Deliver(p, m)) \/ Flush(p)
             \/ (\E i \in DOMAIN snapshots : Rollback(p, i)) \/ Announce(p)
             \/ (\E domains \in Lists : Download(p, domains)) \/ Import(p)
      PROVE  index' = index
  BY <1>5 DEF ReadFails, Reconcile, Deliver, Flush, Rollback, Announce, Download, Import,
              SnapshotRead, SaveSnapshot, CheckFloor, Commit, Undo
<1>6. CASE (\E m \in msgs : Lose(m)) \/ UNCHANGED vars
  BY <1>6 DEF Lose, vars
<1> QED BY <1>3, <1>4, <1>5, <1>6 DEF Next

(* With a floor configured no interleaving empties a populated index, for   *)
(* any number of processes, loaders and downloaded lists.                   *)
THEOREM PopulatedIndexStays == Spec => PopulatedStays
<1>1. TypeInv /\ FloorInv /\ [Next]_vars =>
        [\A n \in Node : minEntries > 0 /\ index[n].set # {} => index'[n].set # {}]_vars
  BY StaysPopulated
<1> QED BY <1>1, WhitelistTypes, InitFloor, NextFloor, PTL DEF Spec, PopulatedStays

-----------------------------------------------------------------------------
(* The client mappings.                                                     *)

CONSTANTS Core, Config, Default, Cidr, Group, Writer, None, MaxWrites

VARIABLES stored, groups, mappings, mapRevision, config, cidr, subscribed, mail, at, local,
          writes, reloadFaults

R == INSTANCE ConfigReload WITH
        revision <- mapRevision, msgs <- mail, pc <- at, reg <- local, faults <- reloadFaults

ReloadSteps == {"idle", "config", "apply", "compare", "revision", "rows", "publish",
          "applyWritten", "announceConfig", "announceMappings"}

ReloadTypes ==
    /\ stored \in Config \cup {None}
    /\ mappings \in R!Mappings /\ mapRevision \in Nat
    /\ cidr \in [Node -> [rows : R!Mappings, rev : Nat]]
    /\ at \in [R!Routine -> ReloadSteps]
    /\ local \in [R!Routine -> R!Register]

(* A reload reads the revision before the rows: if the revision it read is  *)
(* still the store's, so are the rows.                                      *)
ReadInOrder(p) ==
    /\ at[p] \in {"rows", "publish"} => local[p].rev <= mapRevision
    /\ at[p] = "publish" /\ local[p].rev = mapRevision => local[p].rows = mappings

IndexInOrder(n) ==
    /\ cidr[n].rev <= mapRevision
    /\ cidr[n].rev = mapRevision => cidr[n].rows = mappings

ReloadInv ==
    /\ ReloadTypes
    /\ \A c \in Cidr : mappings[c] \in groups \cup {None}
    /\ \A p \in R!Routine : ReadInOrder(p)
    /\ \A n \in Node : IndexInOrder(n)

LEMMA InitReload == ASSUME R!Init PROVE ReloadInv
<1>1. R!NoRows \in R!Mappings
  BY DEF R!NoRows, R!Mappings
<1>2. R!NoRegister \in R!Register
  BY <1>1 DEF R!NoRegister, R!Register
<1> QED BY <1>1, <1>2 DEF R!Init, ReloadInv, ReloadTypes, ReadInOrder, IndexInOrder, ReloadSteps, R!NoRows

(* A goroutine that goes to a step where it holds nothing.                  *)
LEMMA EmptyRegister == R!NoRegister \in R!Register
BY DEF R!NoRegister, R!Register, R!NoRows, R!Mappings

(* One goroutine moves, the store and the index stay.                       *)
LEMMA MovesReload ==
    ASSUME ReloadInv, NEW p \in R!Routine, NEW s \in ReloadSteps, NEW r \in R!Register,
           at' = [at EXCEPT ![p] = s], local' = [local EXCEPT ![p] = r],
           s \in {"rows", "publish"} => r.rev <= mapRevision,
           s = "publish" /\ r.rev = mapRevision => r.rows = mappings,
           UNCHANGED <<stored, groups, mappings, mapRevision, cidr>>
    PROVE  ReloadInv'
<1>1. ReloadTypes'
  BY DEF ReloadInv, ReloadTypes
<1>2. \A q \in R!Routine :
        /\ at'[q] = IF q = p THEN s ELSE at[q]
        /\ local'[q] = IF q = p THEN r ELSE local[q]
  BY DEF ReloadInv, ReloadTypes
<1>3. \A q \in R!Routine : ReadInOrder(q)'
  BY <1>2 DEF ReloadInv, ReadInOrder
<1> QED BY <1>1, <1>3 DEF ReloadInv, IndexInOrder

LEMMA ReadsReload ==
    ASSUME ReloadInv, NEW p \in R!Routine,
           \/ R!ReadConfig(p) \/ R!ReadConfigFails(p) \/ R!ApplyConfig(p) \/ R!CompareMappings(p)
           \/ R!ReadRevision(p) \/ R!ReadRows(p) \/ R!ReadMappingsFails(p)
           \/ R!ApplyWritten(p) \/ R!AnnounceConfig(p) \/ R!AnnounceMappings(p)
    PROVE  ReloadInv'
<1>1. UNCHANGED <<stored, groups, mappings, mapRevision, cidr>>
  BY DEF R!ReadConfig, R!ReadConfigFails, R!ApplyConfig, R!CompareMappings, R!ReadRevision,
         R!ReadRows, R!ReadMappingsFails, R!ApplyWritten, R!AnnounceConfig, R!AnnounceMappings,
         R!storeVars, R!memVars
<1>2. /\ local[p] \in R!Register /\ at[p] \in ReloadSteps /\ mapRevision \in Nat
      /\ local = [local EXCEPT ![p] = local[p]]
      /\ mappings \in R!Mappings /\ stored \in Config \cup {None} /\ ReadInOrder(p)
  BY DEF ReloadInv, ReloadTypes
<1>3. CASE \E s \in ReloadSteps \ {"rows", "publish"} :
             at' = [at EXCEPT ![p] = s] /\ local' \in {local, [local EXCEPT ![p] = R!NoRegister]}
  <2>1. PICK s \in ReloadSteps \ {"rows", "publish"} :
          at' = [at EXCEPT ![p] = s] /\ local' \in {local, [local EXCEPT ![p] = R!NoRegister]}
    BY <1>3
  <2>2. PICK r \in R!Register : local' = [local EXCEPT ![p] = r]
    BY <1>2, <2>1, EmptyRegister
  <2> QED BY <1>1, <2>1, <2>2, MovesReload
<1>4. CASE R!ReadConfig(p) /\ stored # None
  <2>1. [local[p] EXCEPT !.cfg = stored] \in R!Register
    BY <1>2 DEF R!Register
  <2>2. /\ at' = [at EXCEPT ![p] = "apply"]
        /\ local' = [local EXCEPT ![p] = [local[p] EXCEPT !.cfg = stored]]
    BY <1>4 DEF R!ReadConfig, R!Goto
  <2> QED BY <1>1, <2>1, <2>2, MovesReload DEF ReloadSteps
<1>5. CASE R!ReadRevision(p)
  <2>1. /\ [local[p] EXCEPT !.rev = mapRevision] \in R!Register
        /\ [local[p] EXCEPT !.rev = mapRevision].rev = mapRevision
    BY <1>2 DEF R!Register
  <2>2. /\ at' = [at EXCEPT ![p] = "rows"]
        /\ local' = [local EXCEPT ![p] = [local[p] EXCEPT !.rev = mapRevision]]
    BY <1>5 DEF R!ReadRevision, R!Goto
  <2>3. mapRevision <= mapRevision BY <1>2
  <2> QED BY <1>1, <2>1, <2>2, <2>3, MovesReload DEF ReloadSteps
<1>6. CASE R!ReadRows(p)
  <2>1. /\ [local[p] EXCEPT !.rows = mappings] \in R!Register
        /\ [local[p] EXCEPT !.rows = mappings].rows = mappings
        /\ [local[p] EXCEPT !.rows = mappings].rev <= mapRevision
    BY <1>2, <1>6 DEF R!Register, R!ReadRows, ReadInOrder
  <2>2. /\ at' = [at EXCEPT ![p] = "publish"]
        /\ local' = [local EXCEPT ![p] = [local[p] EXCEPT !.rows = mappings]]
    BY <1>6 DEF R!ReadRows, R!Goto
  <2> QED BY <1>1, <2>1, <2>2, MovesReload DEF ReloadSteps
<1> QED
  BY <1>3, <1>4, <1>5, <1>6
  DEF R!ReadConfig, R!ReadConfigFails, R!ApplyConfig, R!CompareMappings, R!ReadMappingsFails,
      R!ApplyWritten, R!AnnounceConfig, R!AnnounceMappings, R!ConfigDone, R!MappingsDone,
      R!Goto, R!Finish, ReloadSteps

(* What a process receives, and the connection it receives it on.           *)
LEMMA HearsReload ==
    ASSUME ReloadInv, NEW n \in Node,
           \/ R!Tick(n) \/ R!Disconnect(n) \/ R!Subscribe(n) \/ \E m \in mail : R!Deliver(n, m)
    PROVE  ReloadInv'
<1>1. R!Sub(n) \in R!Routine /\ R!Rec(n) \in R!Routine
  BY DEF R!Sub, R!Rec, R!Routine
<1>2. UNCHANGED <<stored, groups, mappings, mapRevision, cidr, local>>
  BY DEF R!Tick, R!Disconnect, R!Subscribe, R!Deliver, R!storeVars, R!memVars
<1>3. CASE \E p \in R!Routine, s \in {"config", "compare"} : at' = [at EXCEPT ![p] = s]
  <2>1. PICK p \in R!Routine, s \in {"config", "compare"} : at' = [at EXCEPT ![p] = s]
    BY <1>3
  <2>2. local[p] \in R!Register /\ local' = [local EXCEPT ![p] = local[p]]
    BY <1>2 DEF ReloadInv, ReloadTypes
  <2>3. s \in ReloadSteps BY DEF ReloadSteps
  <2> QED BY <1>2, <2>1, <2>2, <2>3, MovesReload
<1>4. CASE UNCHANGED at
  BY <1>2, <1>4 DEF ReloadInv, ReloadTypes, ReadInOrder, IndexInOrder
<1> QED BY <1>1, <1>3, <1>4 DEF R!Tick, R!Disconnect, R!Subscribe, R!Deliver, R!Goto

LEMMA PublishReload ==
    ASSUME ReloadInv, NEW p \in R!Routine, R!PublishIndex(p)
    PROVE  ReloadInv'
<1>1. UNCHANGED <<stored, groups, mappings, mapRevision>>
  BY DEF R!PublishIndex, R!storeVars
<1>2. /\ local[p] \in R!Register /\ mapRevision \in Nat
      /\ local[p].rev <= mapRevision
      /\ local[p].rev = mapRevision => local[p].rows = mappings
  BY DEF R!PublishIndex, ReloadInv, ReloadTypes, ReadInOrder
<1>3. cidr' = [cidr EXCEPT ![R!HostOf(p)] = [rows |-> local[p].rows, rev |-> local[p].rev]]
  BY DEF R!PublishIndex
<1>4. cidr' \in [Node -> [rows : R!Mappings, rev : Nat]] /\ \A n \in Node : IndexInOrder(n)'
  <2>1. [rows |-> local[p].rows, rev |-> local[p].rev] \in [rows : R!Mappings, rev : Nat]
    BY <1>2 DEF R!Register
  <2>2. cidr' \in [Node -> [rows : R!Mappings, rev : Nat]]
    BY <1>3, <2>1 DEF ReloadInv, ReloadTypes
  <2>3. \A n \in Node :
          cidr'[n] \in {cidr[n], [rows |-> local[p].rows, rev |-> local[p].rev]}
    BY <1>3 DEF ReloadInv, ReloadTypes
  <2> QED BY <1>1, <1>2, <2>2, <2>3 DEF ReloadInv, IndexInOrder
<1>5. PICK s \in {"idle", "announceMappings"} : at' = [at EXCEPT ![p] = s]
  BY DEF R!PublishIndex, R!MappingsDone, R!Goto, R!Finish
<1>6. PICK r \in R!Register : local' = [local EXCEPT ![p] = r]
  <2>1. local = [local EXCEPT ![p] = local[p]]
    BY DEF ReloadInv, ReloadTypes
  <2>2. local' = local \/ local' = [local EXCEPT ![p] = R!NoRegister]
    BY DEF R!PublishIndex, R!MappingsDone, R!Goto, R!Finish
  <2> QED BY <1>2, <2>1, <2>2, EmptyRegister
<1>7. /\ at' \in [R!Routine -> ReloadSteps] /\ local' \in [R!Routine -> R!Register]
      /\ \A q \in R!Routine : ReadInOrder(q)'
  <2>1. \A q \in R!Routine :
          /\ at'[q] = IF q = p THEN s ELSE at[q]
          /\ local'[q] = IF q = p THEN r ELSE local[q]
    BY <1>5, <1>6 DEF ReloadInv, ReloadTypes
  <2>2. at' \in [R!Routine -> ReloadSteps] /\ local' \in [R!Routine -> R!Register]
    BY <1>5, <1>6 DEF ReloadInv, ReloadTypes, ReloadSteps
  <2>3. \A q \in R!Routine : ReadInOrder(q)'
    BY <1>1, <1>5, <2>1 DEF ReloadInv, ReadInOrder
  <2> QED BY <2>2, <2>3
<1> QED BY <1>1, <1>4, <1>7 DEF ReloadInv, ReloadTypes

(* A write moves the revision with the rows: whatever was read before is of *)
(* an older one.                                                            *)
LEMMA WritesReload ==
    ASSUME ReloadInv, NEW p \in R!Routine,
           \/ R!AddOtherMapping(p)
           \/ \E c \in Cidr : R!DeleteMapping(p, c) \/ \E g \in Group : R!AddMapping(p, c, g)
           \/ \E g \in Group : R!DeleteGroup(p, g)
    PROVE  ReloadInv'
<1>1. /\ mapRevision' = mapRevision + 1 /\ UNCHANGED <<stored, cidr, local>>
      /\ at' = [at EXCEPT ![p] = "compare"] \/ at' = [at EXCEPT ![p] = "announceMappings"]
  BY DEF R!AddOtherMapping, R!DeleteMapping, R!AddMapping, R!DeleteGroup, R!Goto, R!memVars
<1>2. /\ mappings' \in R!Mappings
      /\ \A c \in Cidr : mappings'[c] \in groups' \cup {None}
  BY DEF R!AddOtherMapping, R!DeleteMapping, R!AddMapping, R!DeleteGroup, R!Mappings,
         ReloadInv, ReloadTypes
<1>3. /\ mapRevision \in Nat /\ \A n \in Node : cidr[n].rev \in Nat
      /\ \A q \in R!Routine : local[q].rev \in Nat
  BY DEF ReloadInv, ReloadTypes, R!Register
<1>4. at' \in [R!Routine -> ReloadSteps] /\ \A q \in R!Routine : at'[q] \in {"rows", "publish"} => at'[q] = at[q]
  BY <1>1 DEF ReloadInv, ReloadTypes, ReloadSteps
<1>5. \A n \in Node : IndexInOrder(n)'
  BY <1>1, <1>3 DEF ReloadInv, IndexInOrder
<1>6. \A q \in R!Routine : ReadInOrder(q)'
  BY <1>1, <1>3, <1>4 DEF ReloadInv, ReadInOrder
<1> QED BY <1>1, <1>2, <1>3, <1>4, <1>5, <1>6 DEF ReloadInv, ReloadTypes

LEMMA ConfigWriteReload ==
    ASSUME ReloadInv, NEW p \in R!Routine, NEW c \in Config, R!UpdateAnalysisConfig(p, c)
    PROVE  ReloadInv'
<1>1. /\ UNCHANGED <<groups, mappings, mapRevision, cidr>> /\ stored' = c
      /\ at' = [at EXCEPT ![p] = "applyWritten"]
      /\ local' = [local EXCEPT ![p].cfg = c]
  BY DEF R!UpdateAnalysisConfig, R!Goto, R!memVars
<1>2. /\ local' \in [R!Routine -> R!Register]
      /\ \A q \in R!Routine : local'[q].rev = local[q].rev /\ local'[q].rows = local[q].rows
  BY <1>1 DEF ReloadInv, ReloadTypes, R!Register
<1>3. at' \in [R!Routine -> ReloadSteps] /\ \A q \in R!Routine : at'[q] \in {"rows", "publish"} => at'[q] = at[q]
  BY <1>1 DEF ReloadInv, ReloadTypes, ReloadSteps
<1>4. \A q \in R!Routine : ReadInOrder(q)'
  BY <1>1, <1>2, <1>3 DEF ReloadInv, ReadInOrder
<1> QED BY <1>1, <1>2, <1>3, <1>4 DEF ReloadInv, ReloadTypes, IndexInOrder

LEMMA ReloadStep == ASSUME ReloadInv, [R!Next]_R!vars PROVE ReloadInv'
<1>1. CASE UNCHANGED R!vars
  BY <1>1 DEF R!vars, R!storeVars, R!memVars, ReloadInv, ReloadTypes, ReadInOrder, IndexInOrder
<1> QED BY <1>1, ReadsReload, HearsReload, PublishReload, WritesReload, ConfigWriteReload
        DEF R!Next, R!Reload, R!Handler

(* An index that carries the store's revision holds the store's rows and    *)
(* names no group that is gone, for any processes, handlers, ranges and     *)
(* groups, whatever reloads, writes and deletions overlap                   *)
(* (reloadClientMappingsFromStore, loadCIDRCache, DeleteGroup).             *)
THEOREM MappingsFollowRevision == R!Spec => []R!RevisionTellsRows
<1>1. R!Init => ReloadInv BY InitReload
<1>2. ReloadInv /\ [R!Next]_R!vars => ReloadInv' BY ReloadStep
<1>3. ReloadInv => R!RevisionTellsRows
  BY DEF ReloadInv, IndexInOrder, R!RevisionTellsRows
<1> QED BY <1>1, <1>2, <1>3, PTL DEF R!Spec
=============================================================================
