----------------------------- MODULE ContentProofs -----------------------------
(***************************************************************************)
(* The adblock layer for any sources, names, versions, failures and        *)
(* crashes.  Its files: no tag is newer than the body it stands for, no    *)
(* source goes back to an older list, and no failing rebuild takes the     *)
(* rules away.  Its exceptions, which lift exactly what the file says, and *)
(* its trie, which decides as the lists say.                               *)
(***************************************************************************)
EXTENDS Adblock, ContentParts, FiniteSets, TLAPS, NaturalsInduction, WellFoundedInduction,
        FiniteSetTheorems, SequenceTheorems

OfSource == {"source", "fetch", "refetch", "save", "rename"}
Gathering == OfSource \cup {"publish"}

Total(f) == f = [s \in Source |-> f[s]]
Versions(t) == Total(t) /\ \A s \in Source : t[s].version \in Nat

(* The rebuild under way is a record of these fields; which mode and policy *)
(* it parses under does not matter here.                                    *)
SyncRecord(y) ==
    /\ y = [at |-> y.at, i |-> y.i, mode |-> y.mode, policy |-> y.policy, body |-> y.body,
            trie |-> y.trie, tags |-> y.tags, next |-> y.next, held |-> y.held]
    /\ y.at \in Gathering \cup {"start", "idle", "rules", "meta"}
    /\ y.body \in Nat
    /\ Versions(y.trie) /\ y.tags \in [Source -> Nat] /\ y.next \in [Source -> Nat]
    /\ y.i \in Nat
    /\ y.at \in OfSource => y.i \in 1..Len(Sources)

SyncTyped == SyncRecord(sync)

FilesTyped ==
    /\ Versions(trie) /\ Versions(rules)
    /\ cache \in [Source -> Nat] /\ meta \in [Source -> Nat]
    /\ remote \in [Source -> Nat]
    /\ \A s \in Source : remote[s] > None

(* Every version the process knows of a source: in force, in files, and in  *)
(* what the rebuild has gathered.                                           *)
Known(s) == {meta[s], trie[s].version, rules[s].version, sync.trie[s].version, sync.tags[s], sync.next[s]}

(* None of them is newer than what the source serves, nor than the body on  *)
(* disk while there is one.                                                 *)
BodyNewest ==
    \A s \in Source :
        /\ cache[s] <= remote[s]
        /\ \A v \in Known(s) : v <= remote[s] /\ (cache[s] # None => v <= cache[s])

(* A body on its way to the disk is newer than all of them.                 *)
BodyArrives ==
    sync.at \in {"save", "rename"} =>
        /\ sync.body > None /\ sync.body <= remote[Current]
        /\ cache[Current] <= sync.body
        /\ \A v \in Known(Current) : v <= sync.body

(* What a rebuild gathered is not older than what is in force, and one that *)
(* began without rules is still without.                                    *)
GathersForward ==
    /\ \A s \in Source : sync.trie[s].version # None => trie[s].version <= sync.trie[s].version
    /\ sync.at \in Gathering /\ ~sync.held => trie = Empty

ListsInv == SyncTyped /\ FilesTyped /\ BodyNewest /\ BodyArrives /\ GathersForward

-----------------------------------------------------------------------------
LEMMA EmptyVersions ==
    /\ Versions(Empty) /\ Nothing \in [Source -> Nat]
    /\ \A s \in Source : Empty[s].version = None /\ Nothing[s] = None
    /\ None = 0
BY DEF Versions, Total, Empty, Nothing, None

LEMMA AtIs ==
    ASSUME NEW step
    PROVE  /\ At(step) = [at |-> step, i |-> 1, mode |-> Defaults.mode, policy |-> Defaults.policy, body |-> None,
                          trie |-> Empty, tags |-> Nothing, next |-> Nothing, held |-> FALSE]
           /\ At(step).at = step /\ At(step).trie = Empty /\ At(step).tags = Nothing /\ At(step).next = Nothing
BY DEF At

LEMMA CurrentIsSource ==
    ASSUME SyncTyped, sync.at \in OfSource
    PROVE  Current \in Source
BY AdblockAssumption DEF SyncTyped, SyncRecord, Current, Source, ToSet

LEMMA ListsInvInit == Init => ListsInv
<1> SUFFICES ASSUME Init PROVE ListsInv
  OBVIOUS
<1>1. sync = At("start") /\ trie = Empty /\ cache = Nothing /\ meta = Nothing /\ rules = Empty
      /\ remote = [s \in Source |-> 1]
  BY DEF Init
<1>2. SyncTyped
  BY <1>1, AtIs, EmptyVersions DEF SyncTyped, SyncRecord, Gathering, OfSource, At
<1>3. FilesTyped
  BY <1>1, EmptyVersions DEF FilesTyped
<1>4. BodyNewest
  BY <1>1, AtIs, EmptyVersions DEF BodyNewest, Known
<1>5. BodyArrives /\ GathersForward
  BY <1>1, AtIs, EmptyVersions DEF BodyArrives, GathersForward, Gathering, OfSource
<1> QED BY <1>2, <1>3, <1>4, <1>5 DEF ListsInv

-----------------------------------------------------------------------------
(* Going on to the next source keeps all that was gathered.                 *)
LEMMA FollowingIs ==
    ASSUME NEW y, SyncRecord(y), y.at \in OfSource
    PROVE  /\ SyncRecord(Following(y))
           /\ Following(y).at \in {"source", "publish"}
           /\ Following(y).trie = y.trie /\ Following(y).tags = y.tags /\ Following(y).next = y.next
           /\ Following(y).held = y.held
<1>0. Len(Sources) \in Nat
  BY AdblockAssumption
<1>1. CASE y.i = Len(Sources)
  <2>1. Following(y) = [y EXCEPT !.at = "publish"]
    BY <1>1 DEF Following
  <2> QED BY <2>1 DEF SyncRecord, Gathering, OfSource
<1>2. CASE y.i # Len(Sources)
  <2>1. Following(y) = [y EXCEPT !.i = y.i + 1, !.at = "source"]
    BY <1>2 DEF Following
  <2>2. y.i + 1 \in 1..Len(Sources) /\ y.i + 1 \in Nat
    BY <1>0, <1>2 DEF SyncRecord
  <2> QED BY <2>1, <2>2 DEF SyncRecord, Gathering, OfSource
<1> QED BY <1>1, <1>2

LEMMA ContributeIs ==
    ASSUME SyncTyped, sync.at \in OfSource, NEW v \in Nat, NEW tag \in Nat
    PROVE  LET y == Contribute(v, tag)
           IN  /\ SyncRecord(y) /\ y.at \in {"source", "publish"}
               /\ y.tags = sync.tags /\ y.held = sync.held
               /\ y.trie[Current].version = v /\ y.next[Current] = tag
               /\ \A s \in Source : s # Current => y.trie[s] = sync.trie[s] /\ y.next[s] = sync.next[s]
<1> DEFINE z == [sync EXCEPT !.trie[Current] = Rule(v), !.next[Current] = tag]
<1>0. Current \in Source
  BY CurrentIsSource
<1>1. /\ z.trie = [sync.trie EXCEPT ![Current] = Rule(v)] /\ z.next = [sync.next EXCEPT ![Current] = tag]
      /\ z.tags = sync.tags /\ z.held = sync.held /\ z.at = sync.at /\ z.i = sync.i /\ z.body = sync.body
      /\ z = [at |-> z.at, i |-> z.i, mode |-> z.mode, policy |-> z.policy, body |-> z.body,
              trie |-> z.trie, tags |-> z.tags, next |-> z.next, held |-> z.held]
  <2> DEFINE t == [sync.trie EXCEPT ![Current] = Rule(v)]
             n == [sync.next EXCEPT ![Current] = tag]
  <2>1. z = [at |-> sync.at, i |-> sync.i, mode |-> sync.mode, policy |-> sync.policy, body |-> sync.body,
             trie |-> t, tags |-> sync.tags, next |-> n, held |-> sync.held]
    <3>1. z = [sync EXCEPT !.trie = t, !.next = n]
      BY DEF SyncTyped, SyncRecord
    <3> HIDE DEF z, t, n
    <3> QED BY <3>1 DEF SyncTyped, SyncRecord
  <2> HIDE DEF z, t, n
  <2>2. z.trie = t /\ z.next = n
    BY <2>1
  <2>3. /\ z.tags = sync.tags /\ z.held = sync.held /\ z.at = sync.at /\ z.i = sync.i /\ z.body = sync.body
        /\ z = [at |-> z.at, i |-> z.i, mode |-> z.mode, policy |-> z.policy, body |-> z.body,
                trie |-> z.trie, tags |-> z.tags, next |-> z.next, held |-> z.held]
    BY <2>1
  <2> QED BY <2>2, <2>3 DEF t, n
<1>2. Rule(v).version = v
  BY DEF Rule
<1>3. Versions(z.trie) /\ z.next \in [Source -> Nat]
  BY <1>0, <1>1, <1>2 DEF SyncTyped, SyncRecord, Versions, Total
<1>4. /\ z.trie[Current].version = v /\ z.next[Current] = tag
      /\ \A s \in Source : s # Current => z.trie[s] = sync.trie[s] /\ z.next[s] = sync.next[s]
  BY <1>0, <1>1, <1>2 DEF SyncTyped, SyncRecord, Versions, Total
<1> HIDE DEF z
<1>5. SyncRecord(z) /\ z.at \in OfSource
  BY <1>1, <1>3 DEF SyncTyped, SyncRecord
<1>6. Contribute(v, tag) = Following(z)
  BY DEF Contribute, z
<1>7. /\ SyncRecord(Following(z)) /\ Following(z).at \in {"source", "publish"}
      /\ Following(z).trie = z.trie /\ Following(z).tags = z.tags /\ Following(z).next = z.next
      /\ Following(z).held = z.held
  BY <1>5, FollowingIs
<1> DEFINE y == Contribute(v, tag)
<1>8. /\ SyncRecord(y) /\ y.at \in {"source", "publish"}
      /\ y.trie = z.trie /\ y.next = z.next /\ y.tags = z.tags /\ y.held = z.held
  BY <1>6, <1>7, Zenon
<1>9. y.tags = sync.tags /\ y.held = sync.held
  BY <1>1, <1>8
<1> HIDE DEF y
<1>10. /\ y.trie[Current].version = v /\ y.next[Current] = tag
       /\ \A s \in Source : s # Current => y.trie[s] = sync.trie[s] /\ y.next[s] = sync.next[s]
  BY <1>4, <1>8, Zenon
<1> QED BY <1>8, <1>9, <1>10 DEF y

(* A source contributes the body that is now on disk.                       *)
LEMMA ContributesStep ==
    ASSUME ListsInv, sync.at \in OfSource, NEW v \in Nat, NEW tag \in Nat,
           v > 0, v <= remote[Current], tag <= v, \A k \in Known(Current) : k <= v,
           cache' \in [Source -> Nat], cache'[Current] = v,
           \A s \in Source : s # Current => cache'[s] = cache[s],
           sync' = Contribute(v, tag), UNCHANGED <<trie, meta, rules, remote>>
    PROVE  ListsInv'
<1> PICK c : c = Current
  OBVIOUS
<1>0. c \in Source /\ None = 0
  BY CurrentIsSource DEF ListsInv, None
<1>1. /\ SyncRecord(sync') /\ sync'.at \in {"source", "publish"}
      /\ sync'.tags = sync.tags /\ sync'.held = sync.held
      /\ sync'.trie[c].version = v /\ sync'.next[c] = tag
      /\ \A s \in Source : s # c => sync'.trie[s] = sync.trie[s] /\ sync'.next[s] = sync.next[s]
  BY ContributeIs DEF ListsInv
<1>2. SyncTyped' /\ FilesTyped'
  BY <1>1 DEF ListsInv, SyncTyped, FilesTyped, SyncRecord, Versions, Total
<1>3. BodyArrives'
  BY <1>1 DEF BodyArrives
<1>4. BodyNewest'
  <2>1. ASSUME NEW s \in Source, s # c
        PROVE  cache'[s] <= remote'[s] /\ \A k \in Known(s)' : k <= remote'[s] /\ (cache'[s] # None => k <= cache'[s])
    BY <1>1, <2>1 DEF ListsInv, BodyNewest, Known
  <2>2. cache'[c] <= remote'[c] /\ \A k \in Known(c)' : k <= remote'[c] /\ (cache'[c] # None => k <= cache'[c])
    <3>1. \A k \in Known(c)' : k \in Known(c) \/ k = v \/ k = tag
      BY <1>1 DEF Known
    <3>2. \A k \in Known(c) : k <= v /\ k \in Nat
      BY <1>0 DEF Known, ListsInv, SyncTyped, SyncRecord, FilesTyped, Versions
    <3>3. remote[c] \in Nat /\ remote'[c] = remote[c] /\ v <= remote[c] /\ cache'[c] = v
      BY <1>0 DEF ListsInv, FilesTyped
    <3> QED BY <3>1, <3>2, <3>3
  <2> QED BY <2>1, <2>2 DEF BodyNewest
<1>5. GathersForward'
  <2>1. trie[c].version <= v
    BY <1>0 DEF Known
  <2>2. \A s \in Source : sync'.trie[s].version # None => trie'[s].version <= sync'.trie[s].version
    BY <1>1, <2>1 DEF ListsInv, GathersForward
  <2>3. sync.at \in Gathering
    BY DEF Gathering
  <2> QED BY <1>1, <2>2, <2>3 DEF ListsInv, GathersForward
<1> QED BY <1>2, <1>3, <1>4, <1>5 DEF ListsInv

(* A step of the rebuild that gathers nothing and arrives nowhere near a    *)
(* body.                                                                    *)
LEMMA PassesStep ==
    ASSUME ListsInv, sync.at \in Gathering, SyncRecord(sync'), sync'.at \notin {"save", "rename"},
           sync'.trie = sync.trie, sync'.tags = sync.tags, sync'.next = sync.next, sync'.held = sync.held,
           UNCHANGED <<trie, fileVars, remote>>
    PROVE  ListsInv'
<1>1. SyncTyped' /\ FilesTyped'
  BY DEF ListsInv, SyncTyped, FilesTyped, fileVars, SyncRecord, Versions, Total
<1>2. BodyNewest'
  BY DEF ListsInv, BodyNewest, Known, fileVars
<1>3. BodyArrives' /\ GathersForward'
  BY DEF ListsInv, BodyArrives, GathersForward
<1> QED BY <1>1, <1>2, <1>3 DEF ListsInv

LEMMA SkipStep ==
    ASSUME ListsInv, sync.at \in OfSource, sync' = Skip, UNCHANGED <<trie, fileVars, remote>>
    PROVE  ListsInv'
<1>1. SyncRecord(sync) /\ sync.at \in Gathering
  BY DEF ListsInv, SyncTyped, Gathering
<1> QED BY <1>1, FollowingIs, PassesStep DEF Skip

LEMMA FromCacheStep ==
    ASSUME ListsInv, sync.at \in OfSource, NEW otherwise, FromCache(otherwise),
           sync' = otherwise => ListsInv', UNCHANGED <<trie, fileVars, remote>>
    PROVE  ListsInv'
<1>0. Current \in Source /\ None = 0
  BY CurrentIsSource DEF ListsInv, None
<1>1. CASE cache[Current] # None
  <2> DEFINE v == cache[Current]
             tag == sync.tags[Current]
  <2>1. v \in Nat /\ tag \in Nat /\ v > 0 /\ v <= remote[Current] /\ cache' = cache /\ cache \in [Source -> Nat]
    BY <1>0, <1>1 DEF ListsInv, FilesTyped, SyncTyped, SyncRecord, BodyNewest, fileVars
  <2>2. \A k \in Known(Current) : k <= v
    BY <1>0, <1>1 DEF ListsInv, BodyNewest
  <2>3. tag <= v
    BY <2>2 DEF Known
  <2>4. sync' = Contribute(v, tag)
    BY <1>1 DEF FromCache
  <2>5. UNCHANGED <<trie, meta, rules, remote>> /\ cache'[Current] = v
    BY <2>1 DEF fileVars
  <2> HIDE DEF v, tag
  <2> QED BY <2>1, <2>2, <2>3, <2>4, <2>5, ContributesStep
<1>2. CASE cache[Current] = None
  BY <1>2 DEF FromCache
<1> QED BY <1>1, <1>2

(* A rebuild that ends, or never was, leaves files and rules that were      *)
(* known before.                                                            *)
LEMMA RestStep ==
    ASSUME ListsInv, NEW step \in {"idle", "start"}, sync' = At(step), FilesTyped',
           cache' = cache, remote' = remote,
           \A s \in Source : {meta'[s], trie'[s].version, rules'[s].version} \subseteq Known(s) \cup {0}
    PROVE  ListsInv'
<1>1. sync'.at = step /\ sync'.trie = Empty /\ sync'.tags = Nothing /\ sync'.next = Nothing
  BY AtIs
<1>2. SyncTyped'
  BY AtIs, EmptyVersions DEF SyncTyped, SyncRecord, Gathering, OfSource, At
<1>3. BodyNewest'
  <2> SUFFICES ASSUME NEW s \in Source
               PROVE  /\ cache'[s] <= remote'[s]
                      /\ \A v \in Known(s)' : v <= remote'[s] /\ (cache'[s] # None => v <= cache'[s])
    BY DEF BodyNewest
  <2>1. \A v \in Known(s)' : v \in Known(s) \cup {0}
    BY <1>1, EmptyVersions DEF Known
  <2>2. cache[s] \in Nat /\ remote[s] \in Nat
    BY DEF ListsInv, FilesTyped
  <2>3. cache[s] <= remote[s] /\ \A v \in Known(s) : v <= remote[s] /\ (cache[s] # None => v <= cache[s])
    BY DEF ListsInv, BodyNewest
  <2> QED BY <2>1, <2>2, <2>3
<1>4. BodyArrives' /\ GathersForward'
  BY <1>1, EmptyVersions DEF BodyArrives, GathersForward, Gathering, OfSource
<1> QED BY <1>2, <1>3, <1>4 DEF ListsInv

LEMMA StartStep ==
    ASSUME ListsInv, sync' = StartSync, UNCHANGED <<trie, fileVars, remote>>
    PROVE  ListsInv'
<1> DEFINE first == IF Sources = <<>> THEN "publish" ELSE "source"
<1>1. /\ sync' = [at |-> first, i |-> 1, mode |-> Defaults.mode, policy |-> Defaults.policy, body |-> None,
                  trie |-> Empty, tags |-> meta, next |-> Nothing, held |-> (trie # Empty)]
  BY DEF StartSync, At
<1>2. first \in {"publish", "source"} /\ (first = "source" => 1 \in 1..Len(Sources))
  BY AdblockAssumption
<1> HIDE DEF first
<1>3. /\ sync'.at = first /\ sync'.trie = Empty /\ sync'.tags = meta /\ sync'.next = Nothing
      /\ sync'.held = (trie # Empty)
  BY <1>1
<1>4. SyncTyped'
  <2>1. meta \in [Source -> Nat]
    BY DEF ListsInv, FilesTyped
  <2> QED BY <1>1, <1>2, <2>1, EmptyVersions DEF SyncTyped, SyncRecord, Gathering, OfSource
<1>5. FilesTyped'
  BY DEF ListsInv, FilesTyped, fileVars, Versions, Total
<1>6. BodyNewest'
  BY <1>3, EmptyVersions DEF ListsInv, BodyNewest, Known, fileVars, FilesTyped
<1>7. BodyArrives' /\ GathersForward'
  BY <1>2, <1>3, EmptyVersions DEF BodyArrives, GathersForward
<1> QED BY <1>4, <1>5, <1>6, <1>7 DEF ListsInv

LEMMA RebuildStep ==
    ASSUME ListsInv, RebuildAdblockRules
    PROVE  ListsInv'
<1>1. CASE Enabled
  BY <1>1, StartStep DEF RebuildAdblockRules
<1>2. CASE ~Enabled
  <2>1. sync.at = "idle" /\ sync' = sync /\ trie' = Empty /\ UNCHANGED <<fileVars, remote>>
    BY <1>2 DEF RebuildAdblockRules
  <2>2. SyncTyped' /\ FilesTyped'
    BY <2>1, EmptyVersions DEF ListsInv, SyncTyped, FilesTyped, fileVars, SyncRecord, Versions, Total
  <2>3. BodyNewest'
    <3>1. \A s \in Source : cache[s] \in Nat /\ remote[s] \in Nat
      BY DEF ListsInv, FilesTyped
    <3> QED BY <2>1, <3>1, EmptyVersions DEF ListsInv, BodyNewest, Known, fileVars
  <2>4. BodyArrives' /\ GathersForward'
    BY <2>1, EmptyVersions DEF ListsInv, BodyArrives, GathersForward, Gathering, OfSource, SyncTyped, SyncRecord, Versions
  <2> QED BY <2>2, <2>3, <2>4 DEF ListsInv
<1> QED BY <1>1, <1>2

LEMMA FetchStep ==
    ASSUME ListsInv, ResolvePolicy \/ NotModified \/ FetchFails \/ SaveFails \/ FetchBody
    PROVE  ListsInv'
<1>0. SyncRecord(sync)
  BY DEF ListsInv, SyncTyped
<1>1. CASE ResolvePolicy
  <2>1. sync.at = "source" /\ sync' = [sync EXCEPT !.at = "fetch", !.mode = memory.mode, !.policy = memory.policy]
        /\ UNCHANGED <<trie, fileVars, remote>>
    BY <1>1 DEF ResolvePolicy
  <2>2. /\ SyncRecord(sync') /\ sync'.at = "fetch"
        /\ sync'.trie = sync.trie /\ sync'.tags = sync.tags /\ sync'.next = sync.next /\ sync'.held = sync.held
    BY <1>0, <2>1 DEF SyncRecord, Gathering, OfSource
  <2> QED BY <2>1, <2>2, PassesStep DEF Gathering, OfSource
<1>2. CASE NotModified
  <2>1. sync.at \in OfSource /\ FromCache([sync EXCEPT !.at = "refetch"]) /\ UNCHANGED <<trie, fileVars, remote>>
    BY <1>2 DEF NotModified, OfSource
  <2>2. ASSUME sync' = [sync EXCEPT !.at = "refetch"] PROVE ListsInv'
    <3>1. /\ SyncRecord(sync') /\ sync'.at = "refetch"
          /\ sync'.trie = sync.trie /\ sync'.tags = sync.tags /\ sync'.next = sync.next /\ sync'.held = sync.held
      BY <1>0, <2>1, <2>2 DEF SyncRecord, Gathering, OfSource
    <3> QED BY <2>1, <3>1, PassesStep DEF Gathering
  <2> QED BY <2>1, <2>2, FromCacheStep
<1>3. CASE FetchFails
  <2>1. sync.at \in OfSource /\ FromCache(Skip) /\ UNCHANGED <<trie, fileVars, remote>>
    BY <1>3 DEF FetchFails, OfSource
  <2> QED BY <2>1, SkipStep, FromCacheStep
<1>4. CASE SaveFails
  <2>1. sync.at \in OfSource /\ sync' = Skip /\ UNCHANGED <<trie, fileVars, remote>>
    BY <1>4 DEF SaveFails, SaveRefused, OfSource
  <2> QED BY <2>1, SkipStep
<1>5. CASE FetchBody
  <2>1. sync.at \in OfSource /\ sync' = [sync EXCEPT !.at = "save", !.body = remote[Current]]
        /\ UNCHANGED <<trie, fileVars, remote>>
    BY <1>5 DEF FetchBody, OfSource
  <2>2. Current \in Source
    BY <2>1, CurrentIsSource DEF ListsInv
  <2>3. remote[Current] \in Nat /\ remote[Current] > None
    BY <2>2 DEF ListsInv, FilesTyped
  <2>4. /\ SyncRecord(sync') /\ sync'.at = "save" /\ sync'.i = sync.i /\ sync'.body = remote[Current]
        /\ sync'.trie = sync.trie /\ sync'.tags = sync.tags /\ sync'.next = sync.next /\ sync'.held = sync.held
    BY <1>0, <2>1, <2>3 DEF SyncRecord, Gathering, OfSource
  <2>5. SyncTyped' /\ FilesTyped'
    BY <2>1, <2>4 DEF ListsInv, SyncTyped, FilesTyped, fileVars, SyncRecord, Versions, Total
  <2>6. BodyNewest'
    BY <2>1, <2>4 DEF ListsInv, BodyNewest, Known, fileVars
  <2>7. GathersForward'
    BY <2>1, <2>4 DEF ListsInv, GathersForward, Gathering
  <2>8. BodyArrives'
    <3>1. Current' = Current
      BY <2>4 DEF Current
    <3>2. Known(Current)' = Known(Current)
      BY <2>1, <2>4, <3>1 DEF Known, fileVars
    <3>3. \A v \in Known(Current) : v <= remote[Current]
      BY <2>2 DEF ListsInv, BodyNewest
    <3>4. cache[Current] <= remote[Current]
      BY <2>2 DEF ListsInv, BodyNewest
    <3> QED BY <2>1, <2>3, <2>4, <3>1, <3>2, <3>3, <3>4 DEF BodyArrives, fileVars
  <2> QED BY <2>5, <2>6, <2>7, <2>8 DEF ListsInv
<1> QED BY <1>1, <1>2, <1>3, <1>4, <1>5

(* The cache of a source goes: by the removal before a rename, or with      *)
(* another process.                                                         *)
LEMMA CacheGoes ==
    ASSUME ListsInv, NEW c \in Source, cache' = [cache EXCEPT ![c] = None],
           \/ sync' = sync
           \/ sync.at = "save" /\ sync' = [sync EXCEPT !.at = "rename"],
           UNCHANGED <<trie, meta, rules, remote>>
    PROVE  ListsInv'
<1>0. SyncRecord(sync) /\ None = 0
  BY DEF ListsInv, SyncTyped, None
<1>1. /\ SyncRecord(sync') /\ sync'.i = sync.i /\ sync'.body = sync.body
      /\ sync'.trie = sync.trie /\ sync'.tags = sync.tags /\ sync'.next = sync.next /\ sync'.held = sync.held
      /\ sync'.at \in {"save", "rename"} => sync.at \in {"save", "rename"}
      /\ sync'.at \in Gathering => sync.at \in Gathering
  <2>1. CASE sync' = sync
    BY <1>0, <2>1
  <2>2. CASE sync.at = "save" /\ sync' = [sync EXCEPT !.at = "rename"]
    BY <1>0, <2>2 DEF SyncRecord, Gathering, OfSource
  <2> QED BY <2>1, <2>2
<1>2. cache' \in [Source -> Nat] /\ \A s \in Source : cache'[s] = cache[s] \/ cache'[s] = 0
  BY <1>0 DEF ListsInv, FilesTyped
<1>3. SyncTyped' /\ FilesTyped'
  BY <1>1, <1>2 DEF ListsInv, SyncTyped, FilesTyped, SyncRecord, Versions, Total
<1>4. BodyNewest'
  <2>1. \A s \in Source : Known(s)' = Known(s)
    BY <1>1 DEF Known
  <2>2. \A s \in Source : remote[s] \in Nat
    BY DEF ListsInv, FilesTyped
  <2> QED BY <1>0, <1>2, <2>1, <2>2 DEF ListsInv, BodyNewest
<1>5. BodyArrives'
  <2>1. SUFFICES ASSUME sync'.at \in {"save", "rename"} PROVE BodyArrives'
    BY DEF BodyArrives
  <2>2. Current' = Current /\ Current \in Source
    BY <1>1, <2>1, CurrentIsSource DEF Current, ListsInv, OfSource
  <2>3. Known(Current)' = Known(Current)
    BY <1>1, <2>2 DEF Known
  <2>4. /\ sync.body > None /\ sync.body <= remote[Current]
        /\ cache[Current] <= sync.body /\ sync.body \in Nat
        /\ \A v \in Known(Current) : v <= sync.body
    BY <1>0, <1>1, <2>1 DEF ListsInv, BodyArrives, SyncRecord
  <2>5. cache'[Current] <= sync.body
    BY <1>2, <2>2, <2>4
  <2> QED BY <1>1, <2>2, <2>3, <2>4, <2>5 DEF BodyArrives
<1>6. GathersForward'
  BY <1>1 DEF ListsInv, GathersForward
<1> QED BY <1>3, <1>4, <1>5, <1>6 DEF ListsInv

LEMMA RenameStep ==
    ASSUME ListsInv, Rename
    PROVE  ListsInv'
<1>1. sync.at = "rename" /\ sync.at \in OfSource /\ cache' = [cache EXCEPT ![Current] = sync.body]
      /\ sync' = Contribute(sync.body, sync.body) /\ UNCHANGED <<trie, meta, rules, remote>>
  BY DEF Rename, OfSource
<1>2. Current \in Source
  BY <1>1, CurrentIsSource DEF ListsInv
<1> DEFINE v == sync.body
<1>3. v \in Nat /\ v > 0 /\ v <= remote[Current] /\ \A k \in Known(Current) : k <= v
  BY <1>1 DEF ListsInv, BodyArrives, SyncTyped, SyncRecord, None
<1>4. cache' \in [Source -> Nat] /\ cache'[Current] = v /\ \A s \in Source : s # Current => cache'[s] = cache[s]
  BY <1>1, <1>2, <1>3 DEF ListsInv, FilesTyped
<1>5. v <= v /\ sync' = Contribute(v, v)
  BY <1>1, <1>3
<1> HIDE DEF v
<1> QED BY <1>1, <1>3, <1>4, <1>5, ContributesStep

LEMMA PublishStep ==
    ASSUME ListsInv, Publish
    PROVE  ListsInv'
<1>0. sync.at = "publish" /\ UNCHANGED <<fileVars, remote>> /\ SyncRecord(sync)
  BY DEF Publish, ListsInv, SyncTyped
<1>1. CASE Succeeded
  <2>1. trie' = sync.trie /\ sync' = [sync EXCEPT !.at = "rules"]
    BY <1>1 DEF Publish
  <2>2. /\ SyncRecord(sync') /\ sync'.at = "rules"
        /\ sync'.trie = sync.trie /\ sync'.tags = sync.tags /\ sync'.next = sync.next
    BY <1>0, <2>1 DEF SyncRecord, Gathering, OfSource
  <2>3. SyncTyped' /\ FilesTyped'
    BY <1>0, <2>1, <2>2 DEF ListsInv, SyncTyped, FilesTyped, fileVars, SyncRecord, Versions, Total
  <2>4. BodyNewest'
    <3>1. \A s \in Source : Known(s)' \subseteq Known(s)
      BY <1>0, <2>1, <2>2 DEF Known, fileVars
    <3> QED BY <1>0, <3>1 DEF ListsInv, BodyNewest, fileVars
  <2>5. BodyArrives' /\ GathersForward'
    <3>1. \A s \in Source : trie'[s].version = sync'.trie[s].version /\ trie'[s].version \in Nat
      BY <1>0, <2>1, <2>2 DEF SyncRecord, Versions
    <3> QED BY <2>2, <3>1 DEF BodyArrives, GathersForward, Gathering, OfSource
  <2> QED BY <2>3, <2>4, <2>5 DEF ListsInv
<1>2. CASE ~Succeeded
  <2>1. trie' = (IF sync.held THEN trie ELSE rules) /\ sync' = At("idle")
    BY <1>2 DEF Publish
  <2>2. FilesTyped'
    BY <1>0, <2>1 DEF ListsInv, FilesTyped, fileVars, Versions, Total
  <2>3. \A s \in Source : {meta'[s], trie'[s].version, rules'[s].version} \subseteq Known(s) \cup {0}
    BY <1>0, <2>1 DEF Known, fileVars
  <2> QED BY <1>0, <2>1, <2>2, <2>3, RestStep DEF fileVars
<1> QED BY <1>1, <1>2

LEMMA SaveRulesStep ==
    ASSUME ListsInv, SaveRules \/ SaveRulesFails
    PROVE  ListsInv'
<1>0. /\ sync.at = "rules" /\ UNCHANGED <<trie, cache, meta, remote>> /\ SyncRecord(sync)
      /\ rules' \in {sync.trie, rules, Empty} /\ sync' = [sync EXCEPT !.at = "meta"]
  BY DEF SaveRules, SaveRulesFails, ListsInv, SyncTyped
<1>2. /\ SyncRecord(sync') /\ sync'.at = "meta"
      /\ sync'.trie = sync.trie /\ sync'.tags = sync.tags /\ sync'.next = sync.next
  BY <1>0 DEF SyncRecord, Gathering, OfSource
<1>3. Versions(rules')
  BY <1>0, EmptyVersions DEF ListsInv, FilesTyped, SyncRecord
<1>4. SyncTyped' /\ FilesTyped'
  BY <1>0, <1>2, <1>3 DEF ListsInv, SyncTyped, FilesTyped, SyncRecord, Versions, Total
<1>5. BodyNewest'
  <2>1. \A s \in Source : Known(s)' \subseteq Known(s) \cup {0}
    BY <1>0, <1>2, EmptyVersions DEF Known
  <2>2. \A s \in Source : cache[s] \in Nat /\ remote[s] \in Nat
    BY DEF ListsInv, FilesTyped
  <2> QED BY <1>0, <2>1, <2>2 DEF ListsInv, BodyNewest
<1>6. BodyArrives' /\ GathersForward'
  BY <1>0, <1>2 DEF ListsInv, BodyArrives, GathersForward, Gathering, OfSource
<1> QED BY <1>4, <1>5, <1>6 DEF ListsInv

LEMMA SaveMetaStep ==
    ASSUME ListsInv, SaveMeta \/ SaveMetaFails
    PROVE  ListsInv'
<1>0. /\ UNCHANGED <<trie, cache, rules, remote>> /\ SyncRecord(sync)
      /\ meta' \in {sync.next, meta, Nothing} /\ sync' = At("idle")
  BY DEF SaveMeta, SaveMetaFails, ListsInv, SyncTyped
<1>1. FilesTyped'
  BY <1>0, EmptyVersions DEF ListsInv, FilesTyped, SyncRecord, Versions, Total
<1>2. \A s \in Source : {meta'[s], trie'[s].version, rules'[s].version} \subseteq Known(s) \cup {0}
  BY <1>0, EmptyVersions DEF Known
<1> QED BY <1>0, <1>1, <1>2, RestStep

LEMMA CrashStep ==
    ASSUME ListsInv, Crash
    PROVE  ListsInv'
<1>0. UNCHANGED <<cache, meta, rules, remote>> /\ trie' = Empty /\ sync' = At("start")
  BY DEF Crash, fileVars
<1>1. FilesTyped'
  BY <1>0, EmptyVersions DEF ListsInv, FilesTyped, Versions, Total
<1>2. \A s \in Source : {meta'[s], trie'[s].version, rules'[s].version} \subseteq Known(s) \cup {0}
  BY <1>0, EmptyVersions DEF Known
<1> QED BY <1>0, <1>1, <1>2, RestStep

LEMMA ReleaseStep ==
    ASSUME ListsInv, NEW c \in Source, Release(c)
    PROVE  ListsInv'
<1>0. remote' = [remote EXCEPT ![c] = remote[c] + 1] /\ UNCHANGED <<sync, trie, cache, meta, rules>>
  BY DEF Release, fileVars
<1>1. remote' \in [Source -> Nat] /\ \A s \in Source : remote[s] \in Nat /\ remote'[s] >= remote[s]
  BY <1>0 DEF ListsInv, FilesTyped
<1>2. SyncTyped'
  BY <1>0 DEF ListsInv, SyncTyped
<1>3. FilesTyped'
  BY <1>0, <1>1, EmptyVersions DEF ListsInv, FilesTyped, Versions, Total
<1>4. BodyNewest'
  <2>1. \A s \in Source : Known(s)' = Known(s) /\ cache[s] \in Nat /\ \A v \in Known(s) : v \in Nat
    BY <1>0 DEF Known, ListsInv, FilesTyped, SyncTyped, SyncRecord, Versions
  <2> QED BY <1>0, <1>1, <2>1 DEF ListsInv, BodyNewest
<1>5. BodyArrives'
  <2>1. SUFFICES ASSUME sync.at \in {"save", "rename"} PROVE BodyArrives'
    BY <1>0 DEF BodyArrives
  <2>2. Current' = Current /\ Current \in Source
    BY <1>0, <2>1, CurrentIsSource DEF Current, ListsInv, OfSource
  <2>3. Known(Current)' = Known(Current)
    BY <1>0, <2>2 DEF Known
  <2>4. sync.body \in Nat
    BY DEF ListsInv, SyncTyped, SyncRecord
  <2> QED BY <1>0, <1>1, <2>1, <2>2, <2>3, <2>4 DEF ListsInv, BodyArrives
<1>6. GathersForward'
  BY <1>0 DEF ListsInv, GathersForward
<1> QED BY <1>2, <1>3, <1>4, <1>5, <1>6 DEF ListsInv

-----------------------------------------------------------------------------
(* Requests and ticks move switches only.                                   *)
SwitchSteps ==
    \/ \E d \in Document : PutSettings(d)
    \/ RequestStep \/ PersistFails
    \/ \E i \in DOMAIN Fields : \E v \in Values(Fields[i]) : PutElsewhere(Fields[i], v)
    \/ TickStep \/ ReadFails

LEMMA SwitchesKeep ==
    ASSUME SwitchSteps \/ UNCHANGED vars
    PROVE  UNCHANGED <<sync, trie, cache, meta, rules, remote>>
<1>1. CASE \E d \in Document : PutSettings(d)
  BY <1>1 DEF PutSettings, fileVars
<1>2. CASE RequestStep
  BY <1>2 DEF RequestStep, Persist, ApplySetting, fileVars
<1>3. CASE PersistFails
  BY <1>3 DEF PersistFails, fileVars
<1>4. CASE \E i \in DOMAIN Fields : \E v \in Values(Fields[i]) : PutElsewhere(Fields[i], v)
  BY <1>4 DEF PutElsewhere, fileVars
<1>5. CASE TickStep
  BY <1>5 DEF TickStep, StartTick, LoadPrevious, ReadSetting, ApplyRead, fileVars
<1>6. CASE ReadFails
  BY <1>6 DEF ReadFails, fileVars
<1>7. CASE UNCHANGED vars
  BY <1>7 DEF vars
<1> QED BY <1>1, <1>2, <1>3, <1>4, <1>5, <1>6, <1>7 DEF SwitchSteps

LEMMA StepCases ==
    ASSUME [Next]_vars
    PROVE  \/ SwitchSteps \/ UNCHANGED vars
           \/ InitialSync \/ RebuildAdblockRules
           \/ ResolvePolicy \/ NotModified \/ FetchFails \/ SaveFails \/ FetchBody
           \/ RemoveOld \/ Rename \/ Publish
           \/ SaveRules \/ SaveRulesFails \/ SaveMeta \/ SaveMetaFails
           \/ Crash
           \/ \E s \in Source : Release(s) \/ LoseCache(s)
BY Zenon DEF Next, SwitchSteps, SyncStep, TakeResync, Interval

LEMMA ListsInvStep ==
    ASSUME ListsInv, [Next]_vars
    PROVE  ListsInv'
<1>1. CASE SwitchSteps \/ UNCHANGED vars
  <2>1. UNCHANGED <<sync, trie, cache, meta, rules, remote>>
    BY <1>1, SwitchesKeep
  <2>2. SyncTyped' /\ FilesTyped'
    BY <2>1 DEF ListsInv, SyncTyped, FilesTyped
  <2>3. BodyNewest' /\ BodyArrives' /\ GathersForward'
    BY <2>1 DEF ListsInv, BodyNewest, BodyArrives, GathersForward, Known, Current
  <2> QED BY <2>2, <2>3 DEF ListsInv
<1>2. CASE InitialSync
  <2>1. CASE sync' = StartSync
    BY <1>2, <2>1, StartStep DEF InitialSync
  <2>2. CASE sync' = At("idle")
    <3>1. UNCHANGED <<trie, cache, meta, rules, remote>>
      BY <1>2 DEF InitialSync, fileVars
    <3>2. FilesTyped'
      BY <3>1 DEF ListsInv, FilesTyped
    <3>3. \A s \in Source : {meta'[s], trie'[s].version, rules'[s].version} \subseteq Known(s) \cup {0}
      BY <3>1 DEF Known
    <3> QED BY <2>2, <3>1, <3>2, <3>3, RestStep
  <2> QED BY <1>2, <2>1, <2>2 DEF InitialSync
<1>3. CASE RebuildAdblockRules
  BY <1>3, RebuildStep
<1>4. CASE ResolvePolicy \/ NotModified \/ FetchFails \/ SaveFails \/ FetchBody
  BY <1>4, FetchStep
<1>5. CASE RemoveOld
  <2>1. Current \in Source
    BY <1>5, CurrentIsSource DEF RemoveOld, ListsInv, OfSource
  <2> QED BY <1>5, <2>1, CacheGoes DEF RemoveOld
<1>6. ASSUME NEW s \in Source, LoseCache(s) PROVE ListsInv'
  BY <1>6, CacheGoes DEF LoseCache
<1> QED
  BY <1>1, <1>2, <1>3, <1>4, <1>5, <1>6, RenameStep, PublishStep, SaveRulesStep, SaveMetaStep, CrashStep,
     ReleaseStep, StepCases

(* Only a publication, the end of an enablement and a crash touch the rules *)
(* in force.                                                                *)
LEMMA RulesKept ==
    ASSUME ListsInv, [Next]_vars
    PROVE  KeepsVersions /\ KeepsRules
<1>0. /\ DOMAIN trie = Source
      /\ \A s \in Source : trie[s].version \in Nat
  BY DEF ListsInv, FilesTyped, Versions, Total
<1>1. CASE trie' = trie
  BY <1>0, <1>1 DEF KeepsVersions, KeepsRules
<1>2. CASE RebuildAdblockRules
  <2>1. CASE Enabled
    BY <1>1, <1>2, <2>1 DEF RebuildAdblockRules
  <2>2. CASE ~Enabled
    <3>1. sync.at = "idle" /\ trie' = Empty
      BY <1>2, <2>2 DEF RebuildAdblockRules
    <3> QED BY <1>0, <2>2, <3>1, EmptyVersions DEF KeepsVersions, KeepsRules
  <2> QED BY <2>1, <2>2
<1>3. CASE Publish
  <2>1. CASE Succeeded
    <3>1. trie' = sync.trie /\ sync.trie # Empty
      BY <1>3, <2>1 DEF Publish, Succeeded
    <3> QED BY <1>0, <3>1 DEF KeepsVersions, KeepsRules, ListsInv, GathersForward
  <2>2. CASE ~Succeeded /\ sync.held
    BY <1>1, <1>3, <2>2 DEF Publish
  <2>3. CASE ~Succeeded /\ ~sync.held
    <3>1. trie = Empty
      BY <1>3, <2>3 DEF Publish, ListsInv, GathersForward, Gathering
    <3> QED BY <1>0, <3>1, EmptyVersions DEF KeepsVersions, KeepsRules
  <2> QED BY <2>1, <2>2, <2>3
<1>4. CASE Crash
  <2>1. trie' = Empty /\ sync'.at = "start"
    BY <1>4, AtIs DEF Crash
  <2> QED BY <1>0, <2>1, EmptyVersions DEF KeepsVersions, KeepsRules
<1>5. CASE \/ InitialSync \/ ResolvePolicy \/ NotModified \/ FetchFails \/ SaveFails \/ FetchBody
           \/ RemoveOld \/ Rename \/ SaveRules \/ SaveRulesFails \/ SaveMeta \/ SaveMetaFails
           \/ \E s \in Source : Release(s) \/ LoseCache(s)
  <2>1. trie' = trie
    BY <1>5 DEF InitialSync, ResolvePolicy, NotModified, FetchFails, SaveFails, FetchBody, RemoveOld, Rename,
                SaveRules, SaveRulesFails, SaveMeta, SaveMetaFails, Release, LoseCache
  <2> QED BY <1>1, <2>1
<1> QED BY <1>1, <1>2, <1>3, <1>4, <1>5, SwitchesKeep, StepCases

(* The adblock layer, for any sources, versions, edits, failures and        *)
(* crashes: the tag a source is asked with is never newer than the body on  *)
(* disk, no step takes a source back to an older list, and no rebuild of an *)
(* enabled layer takes its rules away.                                      *)
THEOREM ListsAreKept == Spec => ListsKept
<1>1. ListsInv => TagMatchesCache
  <2>1. ASSUME ListsInv PROVE TagMatchesCache
    <3>1. DOMAIN meta = Source
      BY <2>1 DEF ListsInv, FilesTyped
    <3>2. \A s \in Source : cache[s] # None => meta[s] <= cache[s]
      BY <2>1 DEF ListsInv, BodyNewest, Known
    <3>3. \A s \in Source : cache[s] \in Nat /\ meta[s] \in Nat
      BY <2>1 DEF ListsInv, FilesTyped
    <3> QED BY <3>1, <3>2, <3>3 DEF TagMatchesCache
  <2> QED BY <2>1
<1>2. ListsInv /\ [Next]_vars => [KeepsVersions /\ KeepsRules]_vars
  BY RulesKept
<1>3. ListsInv /\ [Next]_vars => ListsInv'
  BY ListsInvStep
<1> QED BY <1>1, <1>2, <1>3, ListsInvInit, PTL DEF Spec, ListsKept

-----------------------------------------------------------------------------
(* Names, from the top-level domain down: what lies above one are its       *)
(* prefixes.                                                                *)

Labels == Seq(STRING) \ {<<>>}

LEMMA PrefixIs ==
    ASSUME NEW s \in Labels, NEW t \in Labels
    PROVE  /\ Len(s) \in Nat \ {0} /\ Len(t) \in Nat \ {0}
           /\ IsPrefix(s, t) <=> Len(s) <= Len(t) /\ s = SubSeq(t, 1, Len(s))
<1>1. s \in Seq(STRING) /\ t \in Seq(STRING) /\ Len(s) # 0 /\ Len(t) # 0
  BY DEF Labels
<1>2. SubSeq(s, 1, Len(s)) = s
  BY <1>1, SubSeqFull
<1> QED BY <1>1, <1>2 DEF IsPrefix

LEMMA PartsAbove ==
    ASSUME NEW t \in Labels, NEW k \in 1..Len(t)
    PROVE  /\ SubSeq(t, 1, k) \in Labels /\ Len(SubSeq(t, 1, k)) = k
           /\ IsPrefix(SubSeq(t, 1, k), t)
           /\ \A i \in 1..k : SubSeq(SubSeq(t, 1, k), 1, i) = SubSeq(t, 1, i)
<1>1. t \in Seq(STRING) /\ Len(t) \in Nat /\ k \in Int
  <2>1. t \in Seq(STRING)
    BY Zenon DEF Labels
  <2>2. Len(t) \in Nat
    BY <2>1
  <2> QED BY <2>1, <2>2
<1>2. \A i \in 1..k : t[i] \in STRING
  BY <1>1
<1>3. SubSeq(t, 1, k) \in Seq(STRING) /\ Len(SubSeq(t, 1, k)) = k
  BY <1>1, <1>2, SubSeqProperties
<1>4. SubSeq(t, 1, k) \in Labels
  BY <1>3 DEF Labels
<1>5. IsPrefix(SubSeq(t, 1, k), t)
  <2> DEFINE u == SubSeq(t, 1, k)
  <2>1. Len(u) <= Len(t) /\ u = SubSeq(t, 1, Len(u))
    BY <1>1, <1>3
  <2> QED BY <1>4, <2>1, PrefixIs
<1>6. ASSUME NEW i \in 1..k PROVE SubSeq(SubSeq(t, 1, k), 1, i) = SubSeq(t, 1, i)
  <2> DEFINE u == SubSeq(t, 1, k)
  <2>1. i \in Int /\ i <= k /\ k <= Len(t) /\ Len(u) = k
    BY <1>1, <1>3
  <2>2. u = [j \in 1..k |-> t[j]] /\ SubSeq(t, 1, i) = [j \in 1..i |-> t[j]]
    BY <1>1, <1>2, <2>1, SubSeqProperties
  <2>3. SubSeq(u, 1, i) = [j \in 1..i |-> u[j]]
    BY <1>3, <2>1, SubSeqProperties
  <2>4. \A j \in 1..i : u[j] = t[j]
    BY <2>1, <2>2
  <2> QED BY <2>2, <2>3, <2>4
<1> QED BY <1>3, <1>4, <1>5, <1>6

(* The first and the last of some positions.                                *)
LEMMA ExtremesExist ==
    ASSUME NEW n \in Nat, NEW set \in SUBSET (1..n), set # {}
    PROVE  /\ Min(set) \in set /\ \A x \in set : Min(set) <= x
           /\ Max(set) \in set /\ \A x \in set : x <= Max(set)
<1> DEFINE Least(U) == \E i \in U : \A j \in U : i <= j
<1>1. ASSUME NEW U \in SUBSET Nat, U # {} PROVE Least(U)
  <2>1. PICK k \in U : \A l \in U : ~(<<l, k>> \in OpToRel(<, Nat))
    BY <1>1, WFMin, NatLessThanWellFounded
  <2>2. ASSUME NEW j \in U PROVE k <= j
    <3>1. ~(j < k) BY <2>1 DEF OpToRel
    <3> QED BY <3>1
  <2> QED BY <2>2
<1>2. \E i \in set : \A j \in set : i <= j
  BY <1>1
<1>3. \E i \in set : \A j \in set : i >= j
  <2> DEFINE U == {n - x : x \in set}
  <2>1. U \in SUBSET Nat /\ U # {}
    <3>1. \A x \in set : n - x \in Nat
      OBVIOUS
    <3>2. PICK x \in set : TRUE
      OBVIOUS
    <3>3. n - x \in U
      OBVIOUS
    <3> QED BY <3>1, <3>3
  <2>2. PICK u \in U : \A v \in U : u <= v
    BY <1>1, <2>1
  <2>3. PICK i \in set : u = n - i
    BY <2>2
  <2>4. ASSUME NEW j \in set PROVE i >= j
    <3>1. n - i <= n - j
      BY <2>2, <2>3
    <3> QED BY <3>1
  <2> QED BY <2>4
<1>4. Min(set) \in set /\ \A x \in set : Min(set) <= x
  BY <1>2 DEF Min
<1>5. Max(set) \in set /\ \A x \in set : Max(set) >= x
  BY <1>3 DEF Max
<1> QED BY <1>4, <1>5

-----------------------------------------------------------------------------
(* Exceptions.  The buckets asked for a name are numbered as they are       *)
(* asked: its exact one, then the suffix ones from the name upwards.        *)

Entries == E!ToSet(loaded)

ExceptionInv ==
    /\ loaded \in Seq(E!Entry)
    /\ E!Valid(loaded)
    /\ snapshot = E!Build(loaded)

Bucket(e, q) == IF e.scope = "exact" THEN 1 ELSE Len(q) + 2 - Len(e.domain)

LEMMA ExceptionPrefixes == \A s, t : E!IsPrefix(s, t) <=> IsPrefix(s, t)
BY Zenon DEF E!IsPrefix, IsPrefix

LEMMA EmptyFile == E!Valid(<<>>) /\ E!Build(<<>>) = E!EmptyIndex
<1>1. DOMAIN <<>> = {} /\ E!ToSet(<<>>) = {}
  BY DEF E!ToSet
<1> DEFINE bucket(sc, n) ==
        {E!Key(e) : e \in {x \in E!ToSet(<<>>) : x.scope = sc /\ x.domain = n}}
<1>2. \A sc, n : bucket(sc, n) = {}
  BY <1>1
<1>3. E!Build(<<>>) = [exact |-> [n \in Name |-> bucket("exact", n)],
                       suffix |-> [n \in Name |-> bucket("suffix", n)]]
  BY DEF E!Build
<1> HIDE DEF bucket
<1> QED BY <1>1, <1>2, <1>3 DEF E!Valid, E!EmptyIndex

LEMMA ExceptionStep == ASSUME ExceptionInv, [E!Next]_(E!vars) PROVE ExceptionInv'
<1>1. ASSUME UNCHANGED E!vars PROVE ExceptionInv'
  BY <1>1 DEF E!vars, ExceptionInv, E!Valid, E!Build
<1>2. ASSUME NEW es \in Seq(E!Entry), E!Load(es) PROVE ExceptionInv'
  BY <1>2 DEF E!Load, ExceptionInv
<1>3. ASSUME NEW e \in E!Entry, E!Load(Append(loaded, e)) PROVE ExceptionInv'
  <2>1. Append(loaded, e) \in Seq(E!Entry)
    BY DEF ExceptionInv
  <2> QED BY ONLY <1>2, <1>3, <2>1
<1>4. ASSUME loaded # <<>>, E!Load(Tail(loaded)) PROVE ExceptionInv'
  <2>1. Tail(loaded) \in Seq(E!Entry)
    BY <1>4 DEF ExceptionInv
  <2> QED BY ONLY <1>2, <1>4, <2>1
<1>5. ASSUME NEW e \in E!Entry, E!Refuse(Append(loaded, e)) PROVE ExceptionInv'
  BY <1>1, <1>5 DEF E!Refuse
<1>6. ASSUME E!Unset PROVE ExceptionInv'
  BY <1>6, EmptyFile DEF E!Unset, ExceptionInv
<1> QED BY <1>1, <1>3, <1>4, <1>5, <1>6 DEF E!Next

LEMMA InitExceptions == ASSUME E!Init PROVE ExceptionInv
BY EmptyFile DEF E!Init, ExceptionInv

(* No two entries agree on all but their identifiers.                       *)
LEMMA SelectorsDiffer ==
    ASSUME ExceptionInv, NEW e \in Entries, NEW f \in Entries,
           e.domain = f.domain, e.scope = f.scope, e.rule = f.rule, e.match = f.match,
           e.source = f.source, e.category = f.category
    PROVE  e = f
<1>1. PICK i \in DOMAIN loaded, j \in DOMAIN loaded : e = loaded[i] /\ f = loaded[j]
  BY DEF Entries, E!ToSet
<1>2. e \in E!Entry /\ f \in E!Entry
  BY <1>1 DEF ExceptionInv
<1>3. E!Selector(e) = E!Selector(f)
  BY <1>2 DEF E!Selector, E!Entry
<1> QED BY <1>1, <1>3 DEF ExceptionInv, E!Valid

LEMMA NamesAre ==
    ASSUME E!ExceptionAssumption, NEW q \in Name
    PROVE  /\ q \in Labels /\ Len(q) \in Nat \ {0}
           /\ \A i \in 1..Len(q) : SubSeq(q, 1, i) \in Name
<1>1. q \in Seq(STRING) /\ q # <<>>
  BY Zenon DEF E!ExceptionAssumption
<1>2. \A i \in 1..Len(q) : SubSeq(q, 1, i) \in Name
  BY Zenon DEF E!ExceptionAssumption
<1> QED BY <1>1, <1>2 DEF Labels

(* The entries of the i-th bucket asked for q, those of them that a rule    *)
(* and a category select, and the ones it answers with.                     *)
InBucket(q, i) ==
    {e \in Entries : /\ e.scope = (IF i = 1 THEN "exact" ELSE "suffix")
                     /\ e.domain = (IF i = 1 THEN q ELSE SubSeq(q, 1, Len(q) + 2 - i))}
Selected(q, r, i, category) ==
    {e \in InBucket(q, i) : /\ e.rule = r.name /\ e.source = r.source /\ e.match = r.scope
                      /\ e.category = category}
Chosen(q, r, i) ==
    IF Selected(q, r, i, r.category) # {} THEN Selected(q, r, i, r.category)
    ELSE Selected(q, r, i, "any")

LEMMA EntriesTyped == ASSUME ExceptionInv PROVE Entries \subseteq E!Entry
BY DEF ExceptionInv, Entries, E!ToSet

LEMMA BucketIs ==
    ASSUME E!ExceptionAssumption, ExceptionInv, NEW q \in Name, NEW i \in 1..(Len(q) + 1)
    PROVE  /\ DOMAIN E!Asked(q) = 1..(Len(q) + 1)
           /\ E!Asked(q)[i] = {E!Key(e) : e \in InBucket(q, i)}
<1> DEFINE Keys == {E!Key(e) : e \in Entries}
           above == [j \in 1..Len(q) |-> snapshot.suffix[SubSeq(q, 1, Len(q) + 1 - j)]]
           bucket(sc, n) == {E!Key(e) : e \in {x \in Entries : x.scope = sc /\ x.domain = n}}
<1>1. snapshot = [exact |-> [n \in Name |-> bucket("exact", n)], suffix |-> [n \in Name |-> bucket("suffix", n)]]
  BY DEF ExceptionInv, E!Build, Entries
<1>2. \A n \in Name : snapshot.exact[n] = bucket("exact", n) /\ snapshot.suffix[n] = bucket("suffix", n)
  BY <1>1
<1>3. \A sc, n : bucket(sc, n) \in SUBSET Keys
  OBVIOUS
<1> HIDE DEF bucket, Keys
<1>4. Len(q) \in Nat /\ \A j \in 1..Len(q) : SubSeq(q, 1, j) \in Name
  BY NamesAre
<1>5. \A j \in 1..Len(q) : Len(q) + 1 - j \in 1..Len(q)
  BY <1>4
<1>6. \A j \in 1..Len(q) : above[j] = bucket("suffix", SubSeq(q, 1, Len(q) + 1 - j))
  BY <1>2, <1>4, <1>5, Zenon
<1>7. above \in Seq(SUBSET Keys) /\ Len(above) = Len(q)
  <2>1. above \in [1..Len(q) -> SUBSET Keys]
    BY <1>3, <1>6
  <2> HIDE DEF above
  <2> QED BY <1>4, <2>1
<1>8. <<snapshot.exact[q]>> \in Seq(SUBSET Keys)
  <2>1. snapshot.exact[q] \in SUBSET Keys
    BY <1>2, <1>3
  <2> QED BY <2>1
<1>9. E!Asked(q) = <<snapshot.exact[q]>> \o above
  BY DEF E!Asked
<1> HIDE DEF above
<1>10. /\ DOMAIN E!Asked(q) = 1..(Len(q) + 1)
       /\ E!Asked(q)[1] = snapshot.exact[q]
       /\ \A j \in 2..(Len(q) + 1) : E!Asked(q)[j] = above[j - 1]
  BY <1>4, <1>7, <1>8, <1>9
<1>11. E!Asked(q)[i] = IF i = 1 THEN bucket("exact", q) ELSE bucket("suffix", SubSeq(q, 1, Len(q) + 2 - i))
  <2>1. CASE i = 1
    BY <1>2, <1>10, <2>1
  <2>2. CASE i # 1
    <3>1. i - 1 \in 1..Len(q) /\ i \in 2..(Len(q) + 1) /\ Len(q) + 1 - (i - 1) = Len(q) + 2 - i
      BY <1>4, <2>2
    <3>2. above[i - 1] = bucket("suffix", SubSeq(q, 1, Len(q) + 2 - i))
      BY <1>6, <3>1
    <3> QED BY <1>10, <2>2, <3>1, <3>2
  <2> QED BY <2>1, <2>2
<1>12. E!Asked(q)[i] = {E!Key(e) : e \in InBucket(q, i)}
  <2>1. CASE i = 1
    BY <1>11, <2>1 DEF InBucket, bucket
  <2>2. CASE i # 1
    BY <1>11, <2>2 DEF InBucket, bucket
  <2> QED BY <2>1, <2>2
<1> QED BY <1>10, <1>12

LEMMA AnswerIs ==
    ASSUME E!ExceptionAssumption, ExceptionInv, NEW q \in Name, NEW r \in E!Rule, NEW i \in 1..(Len(q) + 1)
    PROVE  E!MatchBucket(E!Asked(q)[i], r) = {e.id : e \in Chosen(q, r, i)}
<1> DEFINE keys == {E!Key(e) : e \in InBucket(q, i)}
<1>1. ASSUME NEW c PROVE E!Lookup(keys, r, c) = {e.id : e \in Selected(q, r, i, c)}
  <2>1. \A e : /\ E!Key(e).id = e.id /\ E!Key(e).rule = e.rule /\ E!Key(e).source = e.source
               /\ E!Key(e).match = e.match /\ E!Key(e).category = e.category
    BY DEF E!Key
  <2> QED BY <2>1 DEF E!Lookup, Selected
<1>2. E!Asked(q)[i] = keys
  BY BucketIs
<1> HIDE DEF keys
<1>3. E!AnyCategory = "any"
  BY DEF E!AnyCategory
<1> QED BY <1>1, <1>2, <1>3 DEF E!MatchBucket, Chosen

LEMMA SelectedOnce ==
    ASSUME ExceptionInv, NEW q, NEW r, NEW i, NEW c,
           NEW e \in Selected(q, r, i, c), NEW f \in Selected(q, r, i, c)
    PROVE  e = f
<1>1. /\ e \in Entries /\ f \in Entries
      /\ e.domain = f.domain /\ e.scope = f.scope /\ e.rule = f.rule /\ e.match = f.match
      /\ e.source = f.source /\ e.category = f.category
  BY DEF Selected, InBucket
<1> QED BY <1>1, SelectorsDiffer

(* An entry stands in one of the buckets asked, and the suffix buckets are  *)
(* asked from the longest name to the shortest.                             *)
LEMMA BucketAsked ==
    ASSUME E!ExceptionAssumption, ExceptionInv, NEW q \in Name, NEW e \in Entries
    PROVE  /\ E!Covers(e.domain, e.scope, q) <=> \E i \in 1..(Len(q) + 1) : e \in InBucket(q, i)
           /\ \A i \in 2..(Len(q) + 1) : e \in InBucket(q, i) => Len(e.domain) = Len(q) + 2 - i
<1>1. q \in Labels /\ Len(q) \in Nat \ {0} /\ \A i \in 1..Len(q) : SubSeq(q, 1, i) \in Name
  BY NamesAre
<1>2. e.domain \in Name /\ e.scope \in {"exact", "suffix"}
  BY EntriesTyped DEF E!Entry, E!Scope
<1>3. e.domain \in Labels
  BY <1>2, NamesAre
<1>4. ASSUME NEW i \in 2..(Len(q) + 1)
      PROVE  /\ Len(q) + 2 - i \in 1..Len(q)
             /\ Len(SubSeq(q, 1, Len(q) + 2 - i)) = Len(q) + 2 - i
             /\ IsPrefix(SubSeq(q, 1, Len(q) + 2 - i), q)
  <2>1. Len(q) + 2 - i \in 1..Len(q)
    BY <1>1
  <2> QED BY <1>1, <2>1, PartsAbove
<1>5. ASSUME NEW i \in 2..(Len(q) + 1), e \in InBucket(q, i)
      PROVE  e.scope = "suffix" /\ e.domain = SubSeq(q, 1, Len(q) + 2 - i)
  <2>1. i # 1
    BY <1>1
  <2> QED BY <1>5, <2>1 DEF InBucket
<1>6. e \in InBucket(q, 1) <=> e.scope = "exact" /\ e.domain = q
  BY DEF InBucket
<1>7. ASSUME E!Covers(e.domain, e.scope, q) PROVE \E i \in 1..(Len(q) + 1) : e \in InBucket(q, i)
  <2>1. CASE e.scope = "exact"
    <3>1. e.domain = q
      BY <1>7, <2>1 DEF E!Covers
    <3> QED BY <1>1, <1>6, <2>1, <3>1
  <2>2. CASE e.scope = "suffix"
    <3>1. IsPrefix(q, q)
      <4>1. q = SubSeq(q, 1, Len(q))
        BY <1>1, SubSeqFull DEF Labels
      <4> QED BY <1>1, <4>1, PrefixIs
    <3>2. IsPrefix(e.domain, q)
      BY <1>7, <3>1, ExceptionPrefixes DEF E!Covers
    <3>3. Len(e.domain) \in 1..Len(q)
      BY <1>1, <1>3, <3>2, PrefixIs
    <3>4. e.domain = SubSeq(q, 1, Len(e.domain))
      BY <1>1, <1>3, <3>2, PrefixIs
    <3>5. PICK l \in 1..Len(q) : l = Len(e.domain)
      BY <3>3
    <3>6. PICK i \in 2..(Len(q) + 1) : l = Len(q) + 2 - i
      <4>1. Len(q) + 2 - l \in 2..(Len(q) + 1) /\ l = Len(q) + 2 - (Len(q) + 2 - l)
        BY <1>1
      <4> QED BY <4>1
    <3>7. i # 1 /\ i \in 1..(Len(q) + 1)
      BY <1>1
    <3>8. e \in InBucket(q, i)
      BY <2>2, <3>4, <3>5, <3>6, <3>7 DEF InBucket
    <3> QED BY <3>7, <3>8
  <2> QED BY <1>2, <2>1, <2>2
<1>8. ASSUME NEW i \in 1..(Len(q) + 1), e \in InBucket(q, i) PROVE E!Covers(e.domain, e.scope, q)
  <2>1. CASE i = 1
    BY <1>6, <1>8, <2>1 DEF E!Covers
  <2>2. CASE i # 1
    <3>1. i \in 2..(Len(q) + 1)
      BY <1>1, <2>2
    <3> QED BY <1>4, <1>5, <1>8, <3>1, ExceptionPrefixes DEF E!Covers
  <2> QED BY <2>1, <2>2
<1> QED BY <1>4, <1>5, <1>7, <1>8

LEMMA ApplicableIs ==
    ASSUME E!ExceptionAssumption, ExceptionInv, NEW q \in Name, NEW r \in E!Rule, NEW e
    PROVE  e \in E!Applicable(q, r) <=>
             \E i \in 1..(Len(q) + 1) : e \in Selected(q, r, i, r.category) \cup Selected(q, r, i, "any")
<1>1. \A i : InBucket(q, i) \subseteq Entries
  BY DEF InBucket
<1>2. e \in Entries => (E!Covers(e.domain, e.scope, q) <=> \E i \in 1..(Len(q) + 1) : e \in InBucket(q, i))
  BY BucketAsked
<1>3. e \in E!Applicable(q, r) <=>
        /\ e \in Entries /\ E!Covers(e.domain, e.scope, q)
        /\ e.rule = r.name /\ e.match = r.scope /\ e.source = r.source /\ e.category \in {r.category, "any"}
  BY DEF E!Applicable, Entries, E!AnyCategory
<1>4. \A i : e \in Selected(q, r, i, r.category) \cup Selected(q, r, i, "any") <=>
        /\ e \in InBucket(q, i)
        /\ e.rule = r.name /\ e.match = r.scope /\ e.source = r.source /\ e.category \in {r.category, "any"}
  BY DEF Selected
<1> QED BY <1>1, <1>2, <1>3, <1>4

(* The first bucket that answers holds the closest entry.                   *)
LEMMA FirstIsClosest ==
    ASSUME E!ExceptionAssumption, ExceptionInv, NEW q \in Name, NEW r \in E!Rule,
           NEW m \in 1..(Len(q) + 1), NEW c \in Chosen(q, r, m),
           \A i \in 1..(Len(q) + 1) : Chosen(q, r, i) # {} => m <= i,
           NEW f \in E!Applicable(q, r), f # c
    PROVE  E!Closer(c, f, q) /\ ~E!Closer(f, c, q)
<1>1. Len(q) \in Nat \ {0} /\ r.category # "any"
  <2>1. r.category \in Category
    BY DEF E!Rule
  <2> QED BY <2>1, NamesAre DEF E!ExceptionAssumption
<1>2. PICK j \in 1..(Len(q) + 1) : f \in Selected(q, r, j, r.category) \cup Selected(q, r, j, "any")
  BY ApplicableIs
<1>3. c \in Selected(q, r, m, r.category) \cup Selected(q, r, m, "any")
  BY DEF Chosen
<1>4. c \in InBucket(q, m) /\ f \in InBucket(q, j)
  BY <1>2, <1>3 DEF Selected
<1>5. m <= j
  BY <1>2 DEF Chosen
<1>6. CASE m = j
  <2>1. c.scope = f.scope /\ c.domain = f.domain
    BY <1>4, <1>6 DEF InBucket
  <2>2. c \in Selected(q, r, m, r.category) /\ f \in Selected(q, r, m, "any")
    BY <1>2, <1>3, <1>6, SelectedOnce DEF Chosen
  <2>3. c.category # "any" /\ f.category = "any"
    BY <1>1, <2>2 DEF Selected
  <2>4. Len(c.domain) \in Nat
    BY <1>1, <1>4, EntriesTyped, NamesAre DEF InBucket, E!Entry
  <2>5. c.scope # "exact" \/ f.scope # "suffix"
    BY <2>1
  <2> QED BY <2>1, <2>3, <2>4, <2>5 DEF E!Closer, E!AnyCategory
<1>7. CASE m = 1 /\ j # 1
  <2>1. c.scope = "exact" /\ f.scope = "suffix"
    BY <1>4, <1>7 DEF InBucket
  <2> QED BY <2>1 DEF E!Closer
<1>8. CASE m # 1 /\ m # j
  <2>1. m \in 2..(Len(q) + 1) /\ j \in 2..(Len(q) + 1) /\ m < j
    BY <1>1, <1>5, <1>8
  <2>2. Len(c.domain) = Len(q) + 2 - m /\ Len(f.domain) = Len(q) + 2 - j
    <3>1. c \in Entries /\ f \in Entries
      BY <1>4 DEF InBucket
    <3> QED BY <1>4, <2>1, <3>1, BucketAsked
  <2>3. c.scope = "suffix" /\ f.scope = "suffix"
    BY <1>4, <2>1 DEF InBucket
  <2>4. Len(c.domain) > Len(f.domain) /\ ~(Len(f.domain) > Len(c.domain)) /\ f.domain # c.domain
    BY <1>1, <2>1, <2>2
  <2> QED BY <2>3, <2>4 DEF E!Closer
<1> QED BY <1>5, <1>6, <1>7, <1>8

LEMMA ClosestLifts ==
    ASSUME E!ExceptionAssumption, ExceptionInv, NEW q \in Name, NEW r \in E!Rule
    PROVE  E!Match(q, r) = {e.id : e \in {x \in E!Applicable(q, r) :
                               \A f \in E!Applicable(q, r) : x = f \/ E!Closer(x, f, q)}}
<1> DEFINE n == Len(q) + 1
           hits == {i \in DOMAIN E!Asked(q) : E!MatchBucket(E!Asked(q)[i], r) # {}}
           closest == {x \in E!Applicable(q, r) : \A f \in E!Applicable(q, r) : x = f \/ E!Closer(x, f, q)}
<1>1. n \in Nat \ {0} /\ 1 \in 1..n
  BY NamesAre
<1>2. DOMAIN E!Asked(q) = 1..n
  BY <1>1, BucketIs
<1>3. \A i \in 1..n : E!MatchBucket(E!Asked(q)[i], r) = {e.id : e \in Chosen(q, r, i)}
  BY AnswerIs
<1>4. \A i \in 1..n : E!MatchBucket(E!Asked(q)[i], r) # {} <=> Chosen(q, r, i) # {}
  <2>1. \A C : {e.id : e \in C} # {} <=> C # {}
    OBVIOUS
  <2> QED BY <1>3, <2>1
<1> HIDE DEF n
<1>5. hits = {i \in 1..n : Chosen(q, r, i) # {}}
  BY <1>2, <1>4
<1>6. E!Match(q, r) = IF hits = {} THEN {} ELSE E!MatchBucket(E!Asked(q)[E!Min(hits)], r)
  BY DEF E!Match
<1>7. CASE hits = {}
  <2>1. \A i \in 1..n : Selected(q, r, i, r.category) \cup Selected(q, r, i, "any") = {}
    BY <1>5, <1>7 DEF Chosen
  <2>2. E!Applicable(q, r) = {}
    BY <2>1, ApplicableIs DEF n
  <2> QED BY <1>6, <1>7, <2>2
<1>8. CASE hits # {}
  <2> DEFINE m == Min(hits)
  <2>1. hits \in SUBSET (1..n)
    BY <1>5
  <2>2. m \in hits /\ \A i \in hits : m <= i
    <3> HIDE DEF hits
    <3> QED BY <1>1, <1>8, <2>1, ExtremesExist
  <2>3. E!Min(hits) = m
    BY DEF E!Min, Min
  <2>4. m \in 1..n /\ Chosen(q, r, m) # {} /\ \A i \in 1..n : Chosen(q, r, i) # {} => m <= i
    BY <1>5, <2>2
  <2> HIDE DEF m
  <2>5. PICK c \in Chosen(q, r, m) : TRUE
    BY <2>4
  <2>6. \A f \in Chosen(q, r, m) : f = c
    BY <2>5, SelectedOnce DEF Chosen
  <2>7. c \in E!Applicable(q, r)
    <3>1. c \in Selected(q, r, m, r.category) \cup Selected(q, r, m, "any")
      BY <2>5 DEF Chosen
    <3> QED BY <2>4, <3>1, ApplicableIs DEF n
  <2>8. \A f \in E!Applicable(q, r) : f # c => E!Closer(c, f, q) /\ ~E!Closer(f, c, q)
    <3>1. m \in 1..(Len(q) + 1) /\ \A i \in 1..(Len(q) + 1) : Chosen(q, r, i) # {} => m <= i
      BY <2>4 DEF n
    <3> QED BY <2>5, <3>1, FirstIsClosest
  <2>9. closest = {c}
    BY <2>7, <2>8
  <2>10. Chosen(q, r, m) = {c}
    BY <2>5, <2>6
  <2>11. E!Match(q, r) = {e.id : e \in {c}}
    BY <1>3, <1>6, <1>8, <2>3, <2>4, <2>10
  <2> HIDE DEF closest
  <2>12. E!Match(q, r) = {e.id : e \in closest}
    BY <2>9, <2>11
  <2> QED BY <2>12 DEF closest
<1> QED BY <1>7, <1>8

LEMMA NoDeadEntry ==
    ASSUME E!ExceptionAssumption, ExceptionInv, NEW e \in Entries
    PROVE  \E q \in Name : E!Covers(e.domain, e.scope, q) /\ E!Covers(e.rule, e.match, q)
<1>1. e.domain \in Name /\ e.rule \in Name
  BY EntriesTyped DEF E!Entry
<1>2. E!SelectorsIntersect(e.domain, e.scope, e.rule, e.match)
  BY DEF ExceptionInv, E!Valid, E!Tolerable, Entries, E!ToSet
<1> QED BY <1>1, <1>2 DEF E!SelectorsIntersect, E!IsSub, E!Covers

(* The exceptions, for any names, public suffixes, provenances and files:   *)
(* an exception lifts exactly the rules it names, of several the closest    *)
(* one answers whatever their order, and no accepted entry is dead          *)
(* (validateAdblockExceptions, the index and its Match).                    *)
THEOREM LiftsAreExact == ASSUME E!ExceptionAssumption PROVE E!Spec => []LiftsExactly
<1>1. ExceptionInv => LiftsExactly
  BY ClosestLifts, NoDeadEntry DEF LiftsExactly, E!LiftsExactly, Entries
<1>2. ExceptionInv /\ [E!Next]_(E!vars) => ExceptionInv'
  BY ExceptionStep
<1>3. E!Init => ExceptionInv
  BY InitExceptions
<1> QED BY <1>1, <1>2, <1>3, PTL DEF E!Spec

-----------------------------------------------------------------------------
(* The trie.  Every slot holds the rule of the first line that wants it.    *)

Line == [name : Name, wildcard : BOOLEAN, source : 1..Len(RuleSources), section : Sections \cup {"none"}]

Wanting(lines, n, sc) ==
    {i \in DOMAIN lines : LET r == T!RuleOf(lines[i], MatchMode)
                          IN  r.name = n /\ r.scope = sc /\ n \notin PublicSuffix}

FirstOf(lines, n, sc, r) ==
    \E i \in Wanting(lines, n, sc) :
        (\A j \in Wanting(lines, n, sc) : i <= j) /\ r = T!RuleOf(lines[i], MatchMode)

Filed(t, lines) ==
    \A n \in Name, sc \in T!Scope :
        IF Wanting(lines, n, sc) = {} THEN t[n][sc] = T!None ELSE FirstOf(lines, n, sc, t[n][sc])

TrieInv ==
    /\ source \in Nat \ {0} /\ section \in Sections \cup {"none"}
    /\ staged \in Seq(Line) /\ offered \in Seq(Line)
    /\ Filed(staging, staged) /\ Filed(compiled, offered)

LEMMA TrieNames ==
    ASSUME T!TrieAssumption, NEW q \in Name
    PROVE  /\ q \in Labels /\ Len(q) \in Nat \ {0}
           /\ \A i \in 1..Len(q) : SubSeq(q, 1, i) \in Name
<1>1. q \in Seq(STRING) /\ q # <<>>
  BY Zenon DEF T!TrieAssumption
<1>2. \A i \in 1..Len(q) : SubSeq(q, 1, i) \in Name
  BY Zenon DEF T!TrieAssumption
<1> QED BY <1>1, <1>2 DEF Labels

(* What a line becomes: its scope is the mode's unless it is a wildcard or  *)
(* its source is pinned.                                                    *)
LEMMA RuleIs ==
    ASSUME T!TrieAssumption, NEW line \in Line, NEW mode \in {"exact", "suffix"}
    PROVE  LET r == T!RuleOf(line, mode) IN
           /\ r.name = line.name /\ r.name \in Name /\ r.scope \in T!Scope /\ r # T!None
           /\ r.origin \in {"wildcard", "policy"} => r.scope = T!RuleOf(line, "exact").scope
           /\ r.origin \in {"wildcard", "policy", "default"}
           /\ [r EXCEPT !.origin = "cache"] # T!None
           /\ [r EXCEPT !.origin = "cache"].name = r.name /\ [r EXCEPT !.origin = "cache"].scope = r.scope
<1> DEFINE r == T!RuleOf(line, mode)
           src == RuleSources[line.source]
<1>1. /\ line.name \in Name /\ line.name # <<>> /\ line.wildcard \in BOOLEAN
      /\ src.scope \in {"none", "exact", "suffix"}
  <2>1. line.source \in DOMAIN RuleSources
    BY DEF Line, T!TrieAssumption
  <2> QED BY <2>1, TrieNames DEF T!TrieAssumption, Labels, Line
<1>2. /\ r.name = line.name
      /\ r.scope = IF line.wildcard THEN "suffix" ELSE IF src.scope # "none" THEN src.scope ELSE mode
      /\ r.origin = IF line.wildcard THEN "wildcard" ELSE IF src.scope # "none" THEN "policy" ELSE "default"
  BY <1>1 DEF T!RuleOf
<1>3. T!RuleOf(line, "exact").scope =
        IF line.wildcard THEN "suffix" ELSE IF src.scope # "none" THEN src.scope ELSE "exact"
  BY <1>1 DEF T!RuleOf
<1>4. /\ [r EXCEPT !.origin = "cache"].name = r.name
      /\ [r EXCEPT !.origin = "cache"].scope = r.scope
  BY DEF T!RuleOf
<1>5. T!None.name = <<>>
  BY DEF T!None
<1> HIDE DEF r, src
<1> QED BY <1>1, <1>2, <1>3, <1>4, <1>5 DEF T!Scope, r

LEMMA SlotIs ==
    ASSUME NEW t, NEW S, NEW n \in Name, NEW sc \in T!Scope
    PROVE  LET wanting == {r \in S : r.name = n /\ r.scope = sc}
           IN  T!AddRules(t, S)[n][sc] =
                 IF t[n][sc] # T!None \/ n \in PublicSuffix \/ wanting = {} THEN t[n][sc]
                 ELSE CHOOSE r \in wanting : TRUE
BY DEF T!AddRules

LEMMA FirstIsRule ==
    ASSUME T!TrieAssumption, NEW lines \in Seq(Line), NEW n, NEW sc, NEW r, FirstOf(lines, n, sc, r)
    PROVE  r # T!None /\ r.name = n /\ r.scope = sc /\ n \notin PublicSuffix
<1>1. PICK i \in DOMAIN lines : r = T!RuleOf(lines[i], MatchMode) /\ i \in Wanting(lines, n, sc)
  BY DEF FirstOf, Wanting
<1>2. lines[i] \in Line /\ MatchMode \in {"exact", "suffix"}
  BY DEF T!TrieAssumption
<1> QED BY <1>1, <1>2, RuleIs DEF Wanting

(* Lines are read after others: what wanted a slot before still comes first *)
(* in it.                                                                   *)
LEMMA FiledLater ==
    ASSUME T!TrieAssumption, NEW t, NEW lines \in Seq(Line), NEW more \in Seq(Line), NEW S,
           Filed(t, lines),
           \A n \in Name, sc \in T!Scope :
               LET wanting == {r \in S : r.name = n /\ r.scope = sc} IN
               n \notin PublicSuffix =>
                 IF Wanting(more, n, sc) = {} THEN wanting = {}
                 ELSE \E r : wanting = {r} /\ FirstOf(more, n, sc, r)
    PROVE  Filed(T!AddRules(t, S), lines \o more)
<1> SUFFICES ASSUME NEW n \in Name, NEW sc \in T!Scope
             PROVE  LET all == lines \o more  slot == T!AddRules(t, S)[n][sc]
                    IN  IF Wanting(all, n, sc) = {} THEN slot = T!None ELSE FirstOf(all, n, sc, slot)
  BY DEF Filed
<1> DEFINE all == lines \o more
           wanting == {r \in S : r.name = n /\ r.scope = sc}
           slot == T!AddRules(t, S)[n][sc]
           rule(l) == T!RuleOf(l, MatchMode)
<1>1. slot = IF t[n][sc] # T!None \/ n \in PublicSuffix \/ wanting = {} THEN t[n][sc]
             ELSE CHOOSE r \in wanting : TRUE
  BY SlotIs
<1>2. /\ Len(lines) \in Nat /\ Len(more) \in Nat
      /\ DOMAIN lines = 1..Len(lines) /\ DOMAIN more = 1..Len(more)
      /\ DOMAIN all = 1..(Len(lines) + Len(more))
      /\ \A i \in DOMAIN lines : i \in DOMAIN all /\ all[i] = lines[i]
      /\ \A i \in DOMAIN more : Len(lines) + i \in DOMAIN all /\ all[Len(lines) + i] = more[i]
      /\ \A i \in DOMAIN all : i \in DOMAIN lines \/ \E j \in DOMAIN more : i = Len(lines) + j
  <2>1. Len(all) = Len(lines) + Len(more)
    OBVIOUS
  <2>2. \A i \in DOMAIN more : Len(lines) + i \in DOMAIN all /\ all[Len(lines) + i] = more[i]
    OBVIOUS
  <2>3. \A i \in DOMAIN lines : i \in DOMAIN all /\ all[i] = lines[i]
    OBVIOUS
  <2>4. ASSUME NEW i \in DOMAIN all, i \notin DOMAIN lines PROVE \E j \in DOMAIN more : i = Len(lines) + j
    <3>1. i - Len(lines) \in DOMAIN more /\ i = Len(lines) + (i - Len(lines))
      BY <2>1, <2>4
    <3> QED BY <3>1
  <2> QED BY <2>1, <2>2, <2>3, <2>4
<1> HIDE DEF all
<1>3. /\ \A i \in Wanting(lines, n, sc) : i \in Wanting(all, n, sc) /\ all[i] = lines[i] /\ i \in 1..Len(lines)
      /\ \A i \in Wanting(more, n, sc) :
             Len(lines) + i \in Wanting(all, n, sc) /\ all[Len(lines) + i] = more[i] /\ i \in 1..Len(more)
      /\ \A i \in Wanting(all, n, sc) :
             i \in Wanting(lines, n, sc) \/ \E j \in Wanting(more, n, sc) : i = Len(lines) + j
  <2> DEFINE wants(l) == LET r == T!RuleOf(l, MatchMode) IN r.name = n /\ r.scope = sc /\ n \notin PublicSuffix
  <2>1. /\ Wanting(lines, n, sc) = {i \in DOMAIN lines : wants(lines[i])}
        /\ Wanting(more, n, sc) = {i \in DOMAIN more : wants(more[i])}
        /\ Wanting(all, n, sc) = {i \in DOMAIN all : wants(all[i])}
    BY DEF Wanting
  <2> HIDE DEF wants
  <2>2. \A i \in Wanting(lines, n, sc) : i \in Wanting(all, n, sc) /\ all[i] = lines[i] /\ i \in 1..Len(lines)
    BY <1>2, <2>1
  <2>3. \A i \in Wanting(more, n, sc) :
            Len(lines) + i \in Wanting(all, n, sc) /\ all[Len(lines) + i] = more[i] /\ i \in 1..Len(more)
    BY <1>2, <2>1
  <2>4. ASSUME NEW i \in Wanting(all, n, sc), i \notin Wanting(lines, n, sc)
        PROVE  \E j \in Wanting(more, n, sc) : i = Len(lines) + j
    <3>1. i \in DOMAIN all /\ wants(all[i])
      BY <2>1
    <3>2. i \notin DOMAIN lines
      BY <1>2, <2>1, <2>4, <3>1
    <3>3. PICK j \in DOMAIN more : i = Len(lines) + j
      BY <1>2, <3>1, <3>2
    <3>4. j \in Wanting(more, n, sc)
      BY <1>2, <2>1, <3>1, <3>3
    <3> QED BY <3>3, <3>4
  <2> QED BY <2>2, <2>3, <2>4
<1>4. IF Wanting(lines, n, sc) = {} THEN t[n][sc] = T!None ELSE FirstOf(lines, n, sc, t[n][sc])
  BY DEF Filed
<1>5. CASE Wanting(lines, n, sc) # {}
  <2>1. PICK i \in Wanting(lines, n, sc) :
            (\A j \in Wanting(lines, n, sc) : i <= j) /\ t[n][sc] = T!RuleOf(lines[i], MatchMode)
    BY <1>4, <1>5 DEF FirstOf
  <2>2. t[n][sc] # T!None
    BY <1>4, <1>5, FirstIsRule
  <2>3. \A j \in Wanting(all, n, sc) : i <= j
    BY <1>2, <1>3, <2>1
  <2>4. i \in Wanting(all, n, sc) /\ all[i] = lines[i]
    BY <1>3
  <2> QED BY <1>1, <2>1, <2>2, <2>3, <2>4 DEF FirstOf, all
<1>6. CASE Wanting(lines, n, sc) = {} /\ Wanting(more, n, sc) = {}
  <2>1. n \in PublicSuffix \/ wanting = {}
    BY <1>6
  <2>2. Wanting(all, n, sc) = {}
    BY <1>3, <1>6
  <2> QED BY <1>1, <1>4, <1>6, <2>1, <2>2 DEF all
<1>7. CASE Wanting(lines, n, sc) = {} /\ Wanting(more, n, sc) # {}
  <2>1. n \notin PublicSuffix
    BY <1>7 DEF Wanting
  <2>2. PICK r : wanting = {r} /\ FirstOf(more, n, sc, r)
    BY <1>7, <2>1
  <2>3. slot = r
    BY <1>1, <1>4, <1>7, <2>1, <2>2
  <2>4. PICK i \in Wanting(more, n, sc) :
            (\A j \in Wanting(more, n, sc) : i <= j) /\ r = T!RuleOf(more[i], MatchMode)
    BY <2>2 DEF FirstOf
  <2>5. /\ Len(lines) + i \in Wanting(all, n, sc)
        /\ r = T!RuleOf(all[Len(lines) + i], MatchMode)
    BY <1>3, <2>4
  <2>6. \A j \in Wanting(all, n, sc) : Len(lines) + i <= j
    BY <1>2, <1>3, <1>7, <2>4
  <2>7. FirstOf(all, n, sc, slot)
    BY <2>3, <2>5, <2>6 DEF FirstOf
  <2> QED BY <2>5, <2>7 DEF all
<1> QED BY <1>5, <1>6, <1>7

LEMMA EmptyIsFiled == Filed(T!EmptyTrie, <<>>)
<1>1. \A n, sc : Wanting(<<>>, n, sc) = {}
  BY DEF Wanting
<1>2. \A n \in Name, sc \in T!Scope : T!EmptyTrie[n][sc] = T!None
  BY DEF T!EmptyTrie
<1> QED BY <1>1, <1>2 DEF Filed

(* The rules of a trie stand in the slots of their names and scopes.        *)
LEMMA EachInItsSlot ==
    ASSUME T!TrieAssumption, NEW t, NEW lines \in Seq(Line), Filed(t, lines),
           NEW n \in Name, NEW sc \in T!Scope
    PROVE  {r \in T!ForEach(t) : r.name = n /\ r.scope = sc} = {t[n][sc]} \ {T!None}
<1>1. \A m \in Name, x \in T!Scope :
        t[m][x] # T!None => FirstOf(lines, m, x, t[m][x]) /\ t[m][x].name = m /\ t[m][x].scope = x
  BY FirstIsRule DEF Filed
<1> QED BY <1>1 DEF T!ForEach

LEMMA InitTrie == ASSUME T!Init PROVE TrieInv
BY EmptyIsFiled DEF T!Init, TrieInv

LEMMA TrieStep == ASSUME T!TrieAssumption, TrieInv, [T!Next]_(T!vars) PROVE TrieInv'
<1>1. ASSUME UNCHANGED T!vars PROVE TrieInv'
  BY <1>1 DEF T!vars, TrieInv, Filed, FirstOf, Wanting
<1>2. ASSUME NEW n \in Name, NEW w \in BOOLEAN, T!ReadLine(n, w) PROVE TrieInv'
  <2> DEFINE line == [name |-> n, wildcard |-> w, source |-> source, section |-> section]
             r == T!RuleOf(line, MatchMode)
  <2>1. /\ staging' = T!AddRules(staging, {r}) /\ staged' = staged \o <<line>>
        /\ UNCHANGED <<compiled, section, source, offered>>
    BY <1>2 DEF T!ReadLine, T!AddRule, TrieInv
  <2>2. line \in Line
    <3>1. source \in 1..Len(RuleSources)
      BY <1>2 DEF T!ReadLine, TrieInv, T!TrieAssumption
    <3> QED BY <3>1 DEF Line, TrieInv
  <2> HIDE DEF line
  <2>3. <<line>> \in Seq(Line) /\ staged' \in Seq(Line)
    BY <2>1, <2>2 DEF TrieInv
  <2>4. ASSUME NEW m \in Name, NEW sc \in T!Scope, m \notin PublicSuffix
        PROVE  LET wanting == {x \in {r} : x.name = m /\ x.scope = sc} IN
               IF Wanting(<<line>>, m, sc) = {} THEN wanting = {}
               ELSE \E x : wanting = {x} /\ FirstOf(<<line>>, m, sc, x)
    <3>1. Wanting(<<line>>, m, sc) = {i \in {1} : r.name = m /\ r.scope = sc}
      <4>1. DOMAIN <<line>> = {1} /\ <<line>>[1] = line
        OBVIOUS
      <4> QED BY <2>4, <4>1 DEF Wanting
    <3>2. CASE r.name = m /\ r.scope = sc
      <4>1. Wanting(<<line>>, m, sc) = {1}
        BY <3>1, <3>2
      <4>2. FirstOf(<<line>>, m, sc, r)
        BY <4>1 DEF FirstOf
      <4> QED BY <3>2, <4>1, <4>2
    <3>3. CASE ~(r.name = m /\ r.scope = sc)
      BY <3>1, <3>3
    <3> QED BY <3>2, <3>3
  <2> HIDE DEF r
  <2>5. Filed(staging', staged')
    BY <2>1, <2>3, <2>4, FiledLater DEF TrieInv
  <2>6. Filed(compiled', offered')
    BY <2>1 DEF TrieInv
  <2> QED BY <2>1, <2>3, <2>5, <2>6 DEF TrieInv
<1>3. ASSUME NEW c \in Sections \cup {"none"}, T!ReadMarker(c) PROVE TrieInv'
  BY <1>3 DEF T!ReadMarker, TrieInv, Filed, FirstOf, Wanting
<1>4. ASSUME T!NextSource PROVE /\ source' \in Nat \ {0} /\ section' \in Sections \cup {"none"}
                                /\ staged' \in Seq(Line) /\ Filed(staging', staged')
  BY <1>4, EmptyIsFiled DEF T!NextSource, TrieInv
<1>5. ASSUME T!Merge PROVE TrieInv'
  <2>1. /\ compiled' = T!AddRules(compiled, T!ForEach(staging)) /\ offered' = offered \o staged
        /\ T!NextSource
    BY <1>5 DEF T!Merge, T!MergeFrom
  <2>2. ASSUME NEW m \in Name, NEW sc \in T!Scope, m \notin PublicSuffix
        PROVE  LET wanting == {x \in T!ForEach(staging) : x.name = m /\ x.scope = sc} IN
               IF Wanting(staged, m, sc) = {} THEN wanting = {}
               ELSE \E x : wanting = {x} /\ FirstOf(staged, m, sc, x)
    <3>1. {x \in T!ForEach(staging) : x.name = m /\ x.scope = sc} = {staging[m][sc]} \ {T!None}
      BY EachInItsSlot DEF TrieInv
    <3>2. IF Wanting(staged, m, sc) = {} THEN staging[m][sc] = T!None
          ELSE FirstOf(staged, m, sc, staging[m][sc])
      BY DEF TrieInv, Filed
    <3>3. CASE Wanting(staged, m, sc) = {}
      BY <3>1, <3>2, <3>3
    <3>4. CASE Wanting(staged, m, sc) # {}
      <4>1. staging[m][sc] # T!None
        BY <3>2, <3>4, FirstIsRule DEF TrieInv
      <4> QED BY <3>1, <3>2, <3>4, <4>1
    <3> QED BY <3>3, <3>4
  <2>3. Filed(compiled', offered')
    BY <2>1, <2>2, FiledLater DEF TrieInv
  <2>4. offered' \in Seq(Line)
    BY <2>1 DEF TrieInv
  <2> QED BY <1>4, <2>1, <2>3, <2>4 DEF TrieInv
<1>6. ASSUME T!Abandon PROVE TrieInv'
  <2>1. Filed(compiled', offered')
    BY <1>6 DEF T!Abandon, TrieInv
  <2> QED BY <1>4, <1>6, <2>1 DEF T!Abandon, TrieInv
<1> QED BY <1>1, <1>2, <1>3, <1>5, <1>6 DEF T!Next

(* A rule on the way to a name is reached: the walk is as if it never       *)
(* ended early.                                                             *)
LEMMA WalkReaches ==
    ASSUME T!TrieAssumption, NEW t, NEW q \in Name, NEW k \in 1..Len(q), NEW sc \in T!Scope,
           t[SubSeq(q, 1, k)][sc] # T!None
    PROVE  T!Walked(t, q) \in 0..Len(q) /\ k <= T!Walked(t, q)
<1> DEFINE missing == {i \in 1..Len(q) : ~T!HasNode(t, SubSeq(q, 1, i))}
<1>1. q \in Labels /\ Len(q) \in Nat \ {0} /\ SubSeq(q, 1, k) \in Name
  BY TrieNames
<1>2. ASSUME NEW i \in 1..k PROVE T!HasNode(t, SubSeq(q, 1, i))
  <2> DEFINE p == SubSeq(q, 1, k)
  <2>1. p \in Labels /\ Len(p) = k /\ SubSeq(p, 1, i) = SubSeq(q, 1, i)
    BY <1>1, PartsAbove
  <2>2. IsPrefix(SubSeq(p, 1, i), p)
    BY <2>1, PartsAbove
  <2>3. T!IsPrefix(SubSeq(q, 1, i), p)
    BY <2>1, <2>2, Zenon DEF T!IsPrefix, IsPrefix
  <2> QED BY <1>1, <2>3 DEF T!HasNode
<1>3. missing \in SUBSET (1..Len(q)) /\ \A i \in missing : k < i
  BY <1>1, <1>2
<1>4. T!Walked(t, q) = IF missing = {} THEN Len(q) ELSE (CHOOSE i \in missing : \A j \in missing : i <= j) - 1
  BY DEF T!Walked
<1> HIDE DEF missing
<1>5. CASE missing = {}
  BY <1>1, <1>4, <1>5
<1>6. CASE missing # {}
  <2>1. Min(missing) \in missing
    BY <1>1, <1>3, <1>6, ExtremesExist
  <2>2. Min(missing) = CHOOSE i \in missing : \A j \in missing : i <= j
    BY DEF Min
  <2> DEFINE m == Min(missing)
  <2>3. m \in 1..Len(q) /\ k < m
    BY <1>3, <2>1
  <2>4. T!Walked(t, q) = m - 1
    BY <1>4, <1>6, <2>2
  <2> HIDE DEF m
  <2> QED BY <1>1, <2>3, <2>4
<1> QED BY <1>5, <1>6

LEMMA MatchIs ==
    ASSUME T!TrieAssumption, NEW t, NEW q \in Name
    PROVE  LET on == {i \in 1..Len(q) : t[SubSeq(q, 1, i)]["suffix"] # T!None}
           IN  T!MatchRule(t, q) =
                 IF t[q]["exact"] # T!None THEN t[q]["exact"]
                 ELSE IF on = {} THEN T!None ELSE t[SubSeq(q, 1, Max(on))]["suffix"]
<1> DEFINE on == {i \in 1..Len(q) : t[SubSeq(q, 1, i)]["suffix"] # T!None}
<1>1. q \in Labels /\ Len(q) \in Nat \ {0} /\ SubSeq(q, 1, Len(q)) = q
  BY TrieNames, SubSeqFull DEF Labels
<1>2. {"exact", "suffix"} = T!Scope
  BY DEF T!Scope
<1>3. T!SuffixesOn(t, q) = on
  <2>1. \A i \in on : T!Walked(t, q) \in 0..Len(q) /\ i \in 1..T!Walked(t, q)
    <3>1. ASSUME NEW i \in on PROVE T!Walked(t, q) \in 0..Len(q) /\ i \in 1..T!Walked(t, q)
      <4>1. T!Walked(t, q) \in 0..Len(q) /\ i <= T!Walked(t, q)
        BY <1>2, WalkReaches
      <4> QED BY <1>1, <4>1
    <3> QED BY <3>1
  <2>2. ASSUME NEW i \in 1..T!Walked(t, q), t[SubSeq(q, 1, i)]["suffix"] # T!None PROVE i \in on
    <3> DEFINE missing == {j \in 1..Len(q) : ~T!HasNode(t, SubSeq(q, 1, j))}
    <3>1. T!Walked(t, q) = IF missing = {} THEN Len(q) ELSE (CHOOSE j \in missing : \A l \in missing : j <= l) - 1
      BY DEF T!Walked
    <3>2. CASE missing = {}
      BY <2>2, <3>1, <3>2
    <3>3. CASE missing # {}
      <4>1. missing \in SUBSET (1..Len(q))
        OBVIOUS
      <4> HIDE DEF missing
      <4>2. Min(missing) \in missing
        BY <1>1, <3>3, <4>1, ExtremesExist
      <4>3. T!Walked(t, q) = Min(missing) - 1
        BY <3>1, <3>3 DEF Min
      <4>4. PICK m \in 1..Len(q) : m = Min(missing)
        BY <4>1, <4>2
      <4>5. i \in 1..(m - 1)
        BY <4>3, <4>4
      <4>6. i \in 1..Len(q)
        BY <1>1, <4>5
      <4> QED BY <2>2, <4>6
    <3> QED BY <3>2, <3>3
  <2> QED BY <2>1, <2>2 DEF T!SuffixesOn
<1>4. T!Deepest(t, q) = IF on = {} THEN T!None ELSE t[SubSeq(q, 1, Max(on))]["suffix"]
  <2>1. T!Max(on) = Max(on)
    BY DEF T!Max, Max
  <2> HIDE DEF on
  <2> QED BY <1>3, <2>1 DEF T!Deepest
<1>5. t[q]["exact"] # T!None => T!Walked(t, q) = Len(q)
  <2>1. ASSUME t[q]["exact"] # T!None PROVE T!Walked(t, q) = Len(q)
    <3>1. "exact" \in T!Scope /\ Len(q) \in 1..Len(q)
      BY <1>1, <1>2
    <3>2. t[SubSeq(q, 1, Len(q))]["exact"] # T!None
      BY <1>1, <2>1, Zenon
    <3>3. T!Walked(t, q) \in 0..Len(q) /\ Len(q) <= T!Walked(t, q)
      BY <3>1, <3>2, WalkReaches
    <3> QED BY <1>1, <3>3
  <2> QED BY <2>1
<1> HIDE DEF on
<1>6. T!MatchRule(t, q) =
        IF t[q]["exact"] # T!None THEN t[q]["exact"]
        ELSE IF on = {} THEN T!None ELSE t[SubSeq(q, 1, Max(on))]["suffix"]
  BY <1>4, <1>5 DEF T!MatchRule
<1> QED BY <1>6 DEF on

LEMMA OfferedTyped == ASSUME TrieInv PROVE \A i \in DOMAIN offered : offered[i] \in Line
<1>1. offered \in Seq(Line)
  BY DEF TrieInv
<1> QED BY ONLY <1>1

(* What a reading of the lists says, line by line.                          *)
LEMMA LineRules ==
    ASSUME T!TrieAssumption, TrieInv, NEW mode \in {"exact", "suffix"}, NEW i \in DOMAIN offered
    PROVE  LET r == T!Rules(mode)[i] IN
           /\ r = T!RuleOf(offered[i], mode) /\ offered[i] \in Line
           /\ r.name = offered[i].name /\ r.name \in Name /\ r.scope \in T!Scope /\ r # T!None
           /\ Len(r.name) \in Nat \ {0}
<1>1. offered[i] \in Line
  BY DEF TrieInv
<1>2. T!Rules(mode)[i] = T!RuleOf(offered[i], mode)
  BY DEF T!Rules
<1>3. \A n \in Name : Len(n) \in Nat \ {0}
  BY TrieNames
<1> QED BY <1>1, <1>2, <1>3, RuleIs

(* Of the lines that cover a name one beats all, under either mode.         *)
LEMMA BestExists ==
    ASSUME T!TrieAssumption, TrieInv, NEW mode \in {"exact", "suffix"}, NEW q \in Name,
           T!Covering(mode, q) # {}
    PROVE  LET i == CHOOSE i \in T!Covering(mode, q) : \A j \in T!Covering(mode, q) : T!Beats(mode, i, j, q)
           IN  /\ i \in T!Covering(mode, q) /\ T!Blocking(mode, q) = T!RuleOf(offered[i], mode)
               /\ \A j \in T!Covering(mode, q) : T!Beats(mode, i, j, q)
<1> DEFINE C == T!Covering(mode, q)
           name(i) == T!Rules(mode)[i].name
           own(i) == T!Rules(mode)[i].scope = "exact" /\ name(i) = q
           Owns == {i \in C : own(i)}
<1>1. /\ offered \in Seq(Line) /\ Len(offered) \in Nat /\ DOMAIN offered = 1..Len(offered)
      /\ C \in SUBSET (1..Len(offered))
  BY DEF TrieInv, T!Covering
<1>2. \A i \in C : Len(name(i)) \in Nat
  BY <1>1, LineRules
<1>3. \A i, j : T!Beats(mode, i, j, q) <=>
        \/ own(i) /\ ~own(j)
        \/ own(i) = own(j) /\ Len(name(i)) > Len(name(j))
        \/ own(i) = own(j) /\ Len(name(i)) = Len(name(j)) /\ i <= j
  BY DEF T!Beats
<1>4. \E i \in C : \A j \in C : T!Beats(mode, i, j, q)
  <2>1. CASE Owns # {}
    <3> DEFINE m == Min(Owns)
    <3>1. Owns \in SUBSET (1..Len(offered))
      BY <1>1
    <3> HIDE DEF Owns
    <3>2. m \in Owns /\ \A j \in Owns : m <= j
      BY <1>1, <2>1, <3>1, ExtremesExist
    <3> HIDE DEF m
    <3>3. \A j \in Owns : own(j) /\ j \in C /\ name(j) = q
      BY DEF Owns
    <3>4. \A j \in C : own(j) => j \in Owns
      BY DEF Owns
    <3> HIDE DEF own, name, C
    <3>5. ASSUME NEW j \in C PROVE T!Beats(mode, m, j, q)
      <4>1. CASE own(j)
        <5>1. j \in Owns /\ m <= j /\ own(m) /\ name(m) = q /\ name(j) = q
          BY <3>2, <3>3, <3>4, <4>1
        <5> QED BY <1>3, <4>1, <5>1
      <4>2. CASE ~own(j)
        BY <1>3, <3>2, <3>3, <4>2
      <4> QED BY <4>1, <4>2
    <3> QED BY <3>2, <3>3, <3>5
  <2>2. CASE Owns = {}
    <3> DEFINE lens == {Len(name(i)) : i \in C}
               most == Max(lens)
               longest == {i \in C : Len(name(i)) = most}
               m == Min(longest)
    <3>1. lens \in SUBSET (1..Len(q)) /\ lens # {}
      <4>1. ASSUME NEW i \in C PROVE Len(name(i)) \in 1..Len(q)
        <5>1. i \in DOMAIN offered /\ (name(i) = q \/ T!IsPrefix(name(i), q))
          BY DEF T!Covering
        <5>2. name(i) \in Labels /\ q \in Labels /\ Len(name(i)) \in Nat \ {0} /\ Len(q) \in Nat \ {0}
          BY <5>1, LineRules, TrieNames
        <5>3. IsPrefix(name(i), q) <=> T!IsPrefix(name(i), q)
          BY Zenon DEF T!IsPrefix, IsPrefix
        <5>4. Len(name(i)) <= Len(q)
          BY <5>1, <5>2, <5>3, PrefixIs
        <5> QED BY <5>2, <5>4
      <4> QED BY <4>1
    <3>2. Len(q) \in Nat
      BY TrieNames
    <3>3. most \in lens /\ \A l \in lens : l <= most
      <4> HIDE DEF lens
      <4> QED BY <3>1, <3>2, ExtremesExist
    <3> HIDE DEF C, name, most
    <3>4. longest \in SUBSET (1..Len(offered)) /\ longest # {}
      BY <1>1, <3>3
    <3>5. m \in longest /\ \A j \in longest : m <= j
      <4> HIDE DEF longest
      <4> QED BY <1>1, <3>4, ExtremesExist
    <3> HIDE DEF m
    <3>6. ASSUME NEW j \in C PROVE T!Beats(mode, m, j, q)
      <4>1. m \in C /\ Len(name(m)) = most
        BY <3>5
      <4>2. own(m) = FALSE /\ own(j) = FALSE
        BY <2>2, <4>1
      <4>3. Len(name(j)) \in lens
        OBVIOUS
      <4>4. Len(name(j)) <= most /\ most \in Nat
        BY <1>2, <3>3, <4>1, <4>3
      <4>5. Len(name(j)) = most => m <= j
        BY <3>5
      <4> HIDE DEF own
      <4>6. Len(name(m)) > Len(name(j)) \/ (Len(name(m)) = Len(name(j)) /\ m <= j)
        BY <1>2, <4>1, <4>4, <4>5
      <4>7. own(m) = own(j)
        BY <4>2
      <4> QED BY <1>3, <4>6, <4>7
    <3> QED BY <3>5, <3>6
  <2> QED BY <2>1, <2>2
<1> DEFINE i == CHOOSE i \in C : \A j \in C : T!Beats(mode, i, j, q)
<1>5. i \in C /\ \A j \in C : T!Beats(mode, i, j, q)
  <2> HIDE DEF C
  <2> QED BY <1>4
<1>6. T!Blocking(mode, q) = T!Rules(mode)[i]
  BY DEF T!Blocking
<1>7. T!Blocking(mode, q) = T!RuleOf(offered[i], mode)
  BY <1>1, <1>5, <1>6, LineRules
<1> QED BY <1>5, <1>7

(* A line covers a name when it wants its exact slot or a suffix slot above *)
(* it.                                                                      *)
LEMMA CoveringIs ==
    ASSUME T!TrieAssumption, TrieInv, NEW q \in Name, NEW i
    PROVE  i \in T!Covering(MatchMode, q) <=>
             \/ i \in Wanting(offered, q, "exact")
             \/ \E k \in 1..Len(q) : i \in Wanting(offered, SubSeq(q, 1, k), "suffix")
<1> DEFINE r == T!Rules(MatchMode)[i]
<1>1. MatchMode \in {"exact", "suffix"}
  BY DEF T!TrieAssumption
<1>2. q \in Labels /\ Len(q) \in Nat \ {0} /\ SubSeq(q, 1, Len(q)) = q
  BY TrieNames, SubSeqFull DEF Labels
<1>3. i \in T!Covering(MatchMode, q) <=>
        /\ i \in DOMAIN offered /\ r.name \notin PublicSuffix
        /\ r.name = q \/ (r.scope = "suffix" /\ T!IsPrefix(r.name, q))
  BY DEF T!Covering
<1>4. ASSUME NEW n, NEW sc
      PROVE  i \in Wanting(offered, n, sc) <=>
               i \in DOMAIN offered /\ r.name = n /\ r.scope = sc /\ n \notin PublicSuffix
  <2>1. i \in DOMAIN offered => r = T!RuleOf(offered[i], MatchMode)
    BY DEF T!Rules
  <2> QED BY <2>1 DEF Wanting
<1>5. i \in DOMAIN offered => r.name \in Labels /\ r.scope \in {"exact", "suffix"}
  BY <1>1, LineRules, TrieNames DEF T!Scope
<1> HIDE DEF r
<1>6. i \in DOMAIN offered =>
        (T!IsPrefix(r.name, q) <=> \E k \in 1..Len(q) : r.name = SubSeq(q, 1, k))
  <2>1. ASSUME i \in DOMAIN offered, T!IsPrefix(r.name, q) PROVE \E k \in 1..Len(q) : r.name = SubSeq(q, 1, k)
    <3>1. IsPrefix(r.name, q)
      BY <2>1, Zenon DEF T!IsPrefix, IsPrefix
    <3>2. Len(r.name) \in 1..Len(q) /\ r.name = SubSeq(q, 1, Len(r.name))
      BY <1>2, <1>5, <2>1, <3>1, PrefixIs
    <3> QED BY <3>2
  <2>2. ASSUME NEW k \in 1..Len(q), r.name = SubSeq(q, 1, k) PROVE T!IsPrefix(r.name, q)
    <3>1. IsPrefix(SubSeq(q, 1, k), q)
      BY <1>2, PartsAbove
    <3>2. IsPrefix(r.name, q)
      BY <2>2, <3>1
    <3> QED BY <3>2, Zenon DEF T!IsPrefix, IsPrefix
  <2> QED BY <2>1, <2>2
<1>7. Len(q) \in 1..Len(q)
  BY <1>2
<1>8. r.name = q => \E k \in 1..Len(q) : r.name = SubSeq(q, 1, k)
  BY <1>2, <1>7
<1> QED BY <1>3, <1>4, <1>5, <1>6, <1>8

(* What the walk returns is what the lists say.                             *)
LEMMA MostSpecific ==
    ASSUME T!TrieAssumption, TrieInv, NEW q \in Name
    PROVE  T!MatchRule(compiled, q) = T!Blocking(MatchMode, q)
<1> DEFINE C == T!Covering(MatchMode, q)
           rule(i) == T!Rules(MatchMode)[i]
           own(i) == rule(i).scope = "exact" /\ rule(i).name = q
           on == {i \in 1..Len(q) : compiled[SubSeq(q, 1, i)]["suffix"] # T!None}
<1>1. MatchMode \in {"exact", "suffix"} /\ {"exact", "suffix"} = T!Scope
  BY DEF T!TrieAssumption, T!Scope
<1>2. q \in Labels /\ Len(q) \in Nat \ {0} /\ \A k \in 1..Len(q) : SubSeq(q, 1, k) \in Name
  BY TrieNames
<1>3. /\ offered \in Seq(Line) /\ DOMAIN offered = 1..Len(offered) /\ Len(offered) \in Nat
      /\ C \in SUBSET (1..Len(offered))
      /\ \A i \in DOMAIN offered : rule(i) = T!RuleOf(offered[i], MatchMode)
  BY DEF TrieInv, T!Covering, T!Rules
<1>4. \A i, j : T!Beats(MatchMode, i, j, q) <=>
        \/ own(i) /\ ~own(j)
        \/ own(i) = own(j) /\ Len(rule(i).name) > Len(rule(j).name)
        \/ own(i) = own(j) /\ Len(rule(i).name) = Len(rule(j).name) /\ i <= j
  BY DEF T!Beats
<1>5. \A i \in C : Len(rule(i).name) \in Nat
  BY <1>1, <1>3, LineRules
<1>6. T!MatchRule(compiled, q) =
        IF compiled[q]["exact"] # T!None THEN compiled[q]["exact"]
        ELSE IF on = {} THEN T!None ELSE compiled[SubSeq(q, 1, Max(on))]["suffix"]
  BY MatchIs
<1>7. ASSUME NEW i, NEW n, NEW sc, i \in Wanting(offered, n, sc)
      PROVE  i \in DOMAIN offered /\ rule(i).name = n /\ rule(i).scope = sc
  BY <1>3, <1>7 DEF Wanting
<1>8. ASSUME NEW n \in Name, NEW sc \in {"exact", "suffix"}
      PROVE  /\ compiled[n][sc] = T!None <=> Wanting(offered, n, sc) = {}
             /\ compiled[n][sc] # T!None => FirstOf(offered, n, sc, compiled[n][sc])
  <2>1. IF Wanting(offered, n, sc) = {} THEN compiled[n][sc] = T!None
        ELSE FirstOf(offered, n, sc, compiled[n][sc])
    BY <1>1, Zenon DEF TrieInv, Filed
  <2> QED BY <1>3, <2>1, FirstIsRule
<1>9. ASSUME NEW i \in C, \A j \in C : T!Beats(MatchMode, i, j, q)
      PROVE  T!Blocking(MatchMode, q) = rule(i)
  <2> DEFINE b == CHOOSE x \in C : \A j \in C : T!Beats(MatchMode, x, j, q)
  <2>1. b \in C /\ \A j \in C : T!Beats(MatchMode, b, j, q)
    BY <1>1, BestExists
  <2>2. T!Blocking(MatchMode, q) = T!RuleOf(offered[b], MatchMode)
    BY <1>1, BestExists
  <2> HIDE DEF b, C
  <2>3. T!Beats(MatchMode, i, b, q) /\ T!Beats(MatchMode, b, i, q)
    BY <1>9, <2>1
  <2>4. i \in Nat /\ b \in Nat
    BY <1>3, <2>1
  <2>5. PICK x \in Nat, y \in Nat : x = Len(rule(i).name) /\ y = Len(rule(b).name)
    BY <1>5, <2>1
  <2>6. \A o, p \in BOOLEAN :
          /\ (o /\ ~p) \/ (o = p /\ x > y) \/ (o = p /\ x = y /\ i <= b)
          /\ (p /\ ~o) \/ (p = o /\ y > x) \/ (p = o /\ y = x /\ b <= i)
          => i = b
    BY <2>4, <2>5
  <2>7. own(i) \in BOOLEAN /\ own(b) \in BOOLEAN
    OBVIOUS
  <2> HIDE DEF own
  <2>8. i = b
    BY <1>4, <2>3, <2>5, <2>6, <2>7
  <2> QED BY <1>3, <2>1, <2>2, <2>8
<1> HIDE DEF rule
<1>10. CASE compiled[q]["exact"] # T!None
  <2>1. PICK i \in Wanting(offered, q, "exact") :
            (\A j \in Wanting(offered, q, "exact") : i <= j) /\ compiled[q]["exact"] = rule(i)
    BY <1>3, <1>7, <1>8, <1>10 DEF FirstOf
  <2>2. i \in C /\ own(i)
    BY <1>7, CoveringIs
  <2>3. ASSUME NEW j \in C PROVE T!Beats(MatchMode, i, j, q)
    <3>1. CASE own(j)
      <4>1. j \in Wanting(offered, q, "exact")
        <5>1. PICK n, sc : j \in Wanting(offered, n, sc)
          BY CoveringIs
        <5> QED BY <1>7, <3>1, <5>1
      <4>2. i <= j /\ rule(i).name = q /\ rule(j).name = q
        BY <2>1, <2>2, <3>1, <4>1
      <4> QED BY <1>4, <2>2, <3>1, <4>2
    <3>2. CASE ~own(j)
      BY <1>4, <2>2, <3>2
    <3> QED BY <3>1, <3>2
  <2> QED BY <1>6, <1>9, <1>10, <2>1, <2>2, <2>3
<1>11. CASE compiled[q]["exact"] = T!None /\ on = {}
  <2>1. Wanting(offered, q, "exact") = {}
    BY <1>8, <1>11
  <2>2. \A k \in 1..Len(q) : Wanting(offered, SubSeq(q, 1, k), "suffix") = {}
    BY <1>2, <1>8, <1>11
  <2>3. C = {}
    BY <2>1, <2>2, CoveringIs
  <2> QED BY <1>6, <1>11, <2>3 DEF T!Blocking
<1>12. CASE compiled[q]["exact"] = T!None /\ on # {}
  <2> DEFINE k == Max(on)
             n == SubSeq(q, 1, k)
  <2>1. k \in on /\ \A l \in on : l <= k
    <3>1. on \in SUBSET (1..Len(q))
      OBVIOUS
    <3> HIDE DEF on
    <3> QED BY <1>2, <1>12, <3>1, ExtremesExist
  <2> HIDE DEF k
  <2>2. k \in 1..Len(q) /\ n \in Name /\ compiled[n]["suffix"] # T!None /\ Len(n) = k
    BY <1>2, <2>1, PartsAbove
  <2>3. PICK i \in Wanting(offered, n, "suffix") :
            (\A j \in Wanting(offered, n, "suffix") : i <= j) /\ compiled[n]["suffix"] = rule(i)
    BY <1>3, <1>7, <1>8, <2>2 DEF FirstOf
  <2>4. i \in C /\ rule(i).name = n /\ own(i) = FALSE
    BY <1>7, <2>2, CoveringIs
  <2>5. ASSUME NEW j \in C PROVE T!Beats(MatchMode, i, j, q)
    <3>1. Wanting(offered, q, "exact") = {}
      BY <1>8, <1>12
    <3>2. PICK l \in 1..Len(q) : j \in Wanting(offered, SubSeq(q, 1, l), "suffix")
      BY <3>1, CoveringIs
    <3>3. rule(j).name = SubSeq(q, 1, l) /\ own(j) = FALSE /\ Len(rule(j).name) = l
      <4>1. rule(j).name = SubSeq(q, 1, l) /\ rule(j).scope = "suffix"
        BY <1>7, <3>2
      <4>2. Len(SubSeq(q, 1, l)) = l
        BY <1>2, PartsAbove
      <4> QED BY <4>1, <4>2
    <3>4. l \in on
      BY <1>2, <1>8, <3>2
    <3>5. l <= k
      BY <2>1, <3>4
    <3>6. l = k => i <= j
      BY <2>3, <3>2
    <3>7. own(i) = own(j) /\ Len(rule(i).name) = k /\ Len(rule(j).name) = l
      BY <2>2, <2>4, <3>3
    <3>8. k > l \/ (k = l /\ i <= j)
      BY <2>2, <3>5, <3>6
    <3> HIDE DEF own
    <3> QED BY <1>4, <3>7, <3>8
  <2>6. T!Blocking(MatchMode, q) = rule(i)
    BY <1>9, <2>4, <2>5
  <2> QED BY <1>6, <1>12, <2>3, <2>6 DEF k
<1> QED BY <1>10, <1>11, <1>12

(* A trie read back from the cache has the slots of the one written, with   *)
(* another origin.                                                          *)
LEMMA ReadBack ==
    ASSUME T!TrieAssumption, TrieInv, NEW n \in Name, NEW sc \in T!Scope
    PROVE  LET slot == compiled[n][sc]  again == T!Reloaded(compiled)[n][sc] IN
           /\ again = IF slot = T!None THEN T!None ELSE [slot EXCEPT !.origin = "cache"]
           /\ again = T!None <=> slot = T!None
<1> DEFINE slot == compiled[n][sc]
           Cached == {T!ParseCacheV2Line(r) : r \in T!ForEach(compiled)}
           again == T!AddRules(T!EmptyTrie, Cached)[n][sc]
           wanting == {r \in Cached : r.name = n /\ r.scope = sc}
<1>1. T!Reloaded(compiled)[n][sc] = again
  BY DEF T!Reloaded, T!WriteToV2
<1>2. again = IF n \in PublicSuffix \/ wanting = {} THEN T!None ELSE CHOOSE r \in wanting : TRUE
  <2>1. T!EmptyTrie[n][sc] = T!None
    BY DEF T!EmptyTrie
  <2> QED BY <2>1, SlotIs
<1>3. /\ offered \in Seq(Line) /\ MatchMode \in {"exact", "suffix"}
      /\ Filed(compiled, offered)
  BY DEF TrieInv, T!TrieAssumption
<1>4. \A r \in T!ForEach(compiled) :
        /\ [r EXCEPT !.origin = "cache"].name = r.name /\ [r EXCEPT !.origin = "cache"].scope = r.scope
        /\ [r EXCEPT !.origin = "cache"] # T!None
  <2>1. ASSUME NEW r \in T!ForEach(compiled) PROVE \E i \in DOMAIN offered : r = T!RuleOf(offered[i], MatchMode)
    <3>1. PICK m \in Name, x \in T!Scope : r = compiled[m][x] /\ r # T!None
      BY DEF T!ForEach
    <3>2. IF Wanting(offered, m, x) = {} THEN compiled[m][x] = T!None ELSE FirstOf(offered, m, x, compiled[m][x])
      BY <1>3 DEF Filed
    <3> QED BY <3>1, <3>2 DEF FirstOf, Wanting
  <2>2. \A i \in DOMAIN offered : offered[i] \in Line
    BY <1>3
  <2> QED BY <1>3, <2>1, <2>2, RuleIs
<1>5. {r \in T!ForEach(compiled) : r.name = n /\ r.scope = sc} = {slot} \ {T!None}
  BY <1>3, EachInItsSlot
<1>6. wanting = {[r EXCEPT !.origin = "cache"] : r \in {slot} \ {T!None}}
  <2> DEFINE F == T!ForEach(compiled)
             here(r) == r.name = n /\ r.scope = sc
             o(r) == [r EXCEPT !.origin = "cache"]
  <2>1. Cached = {o(r) : r \in F}
    BY DEF T!ParseCacheV2Line
  <2>2. \A r \in F : here(o(r)) <=> here(r)
    BY <1>4
  <2>3. wanting = {r \in Cached : here(r)} /\ {r \in F : here(r)} = {slot} \ {T!None}
    BY <1>5
  <2> HIDE DEF F, here, o, Cached, wanting
  <2>4. wanting = {o(r) : r \in {slot} \ {T!None}}
    BY <2>1, <2>2, <2>3
  <2> QED BY <2>4 DEF o
<1>7. IF Wanting(offered, n, sc) = {} THEN slot = T!None ELSE FirstOf(offered, n, sc, slot)
  BY <1>3 DEF Filed
<1>8. slot # T!None => slot \in T!ForEach(compiled) /\ n \notin PublicSuffix
  BY <1>3, <1>7, FirstIsRule DEF T!ForEach
<1> HIDE DEF wanting, slot, Cached
<1>9. CASE slot = T!None
  <2>1. wanting = {}
    BY <1>6, <1>9
  <2> QED BY <1>1, <1>2, <1>9, <2>1 DEF slot
<1>10. CASE slot # T!None
  <2>1. wanting = {[slot EXCEPT !.origin = "cache"]}
    BY <1>6, <1>10
  <2>2. again = [slot EXCEPT !.origin = "cache"]
    BY <1>2, <1>8, <1>10, <2>1
  <2>3. [slot EXCEPT !.origin = "cache"] # T!None
    BY <1>4, <1>8, <1>10
  <2> QED BY <1>1, <1>10, <2>2, <2>3 DEF slot
<1> QED BY <1>9, <1>10

LEMMA CacheDecides == ASSUME T!TrieAssumption, TrieInv PROVE T!CacheKeepsDecisions
<1> SUFFICES ASSUME NEW q \in Name
             PROVE  T!MatchRule(T!Reloaded(compiled), q) =
                      IF T!MatchRule(compiled, q) = T!None THEN T!None
                      ELSE [T!MatchRule(compiled, q) EXCEPT !.origin = "cache"]
  BY DEF T!CacheKeepsDecisions
<1> DEFINE again == T!Reloaded(compiled)
           on(t) == {i \in 1..Len(q) : t[SubSeq(q, 1, i)]["suffix"] # T!None}
           rule(t) == IF t[q]["exact"] # T!None THEN t[q]["exact"]
                      ELSE IF on(t) = {} THEN T!None ELSE t[SubSeq(q, 1, Max(on(t)))]["suffix"]
<1>1. "exact" \in T!Scope /\ "suffix" \in T!Scope
  BY DEF T!Scope
<1>2. Len(q) \in Nat \ {0} /\ \A k \in 1..Len(q) : SubSeq(q, 1, k) \in Name
  BY TrieNames
<1>3. T!MatchRule(again, q) = rule(again) /\ T!MatchRule(compiled, q) = rule(compiled)
  BY MatchIs
<1> HIDE DEF again
<1>4. \A n \in Name, sc \in T!Scope :
        /\ again[n][sc] = IF compiled[n][sc] = T!None THEN T!None ELSE [compiled[n][sc] EXCEPT !.origin = "cache"]
        /\ again[n][sc] = T!None <=> compiled[n][sc] = T!None
  BY ReadBack DEF again
<1>5. on(again) = on(compiled)
  BY <1>1, <1>2, <1>4
<1>6. ASSUME on(compiled) # {} PROVE Max(on(compiled)) \in on(compiled)
  <2>1. on(compiled) \in SUBSET (1..Len(q))
    OBVIOUS
  <2> HIDE DEF on
  <2> QED BY <1>2, <1>6, <2>1, ExtremesExist
<1>7. CASE compiled[q]["exact"] # T!None
  BY <1>1, <1>3, <1>4, <1>7 DEF again
<1>8. CASE compiled[q]["exact"] = T!None /\ on(compiled) = {}
  <2>1. rule(compiled) = T!None
    BY <1>8
  <2>2. rule(again) = T!None
    BY <1>1, <1>4, <1>5, <1>8
  <2> QED BY <1>3, <2>1, <2>2 DEF again
<1>9. CASE compiled[q]["exact"] = T!None /\ on(compiled) # {}
  <2> DEFINE n == SubSeq(q, 1, Max(on(compiled)))
  <2>1. n \in Name /\ compiled[n]["suffix"] # T!None
    BY <1>2, <1>6, <1>9
  <2>2. rule(compiled) = compiled[n]["suffix"]
    BY <1>9
  <2>3. rule(again) = again[n]["suffix"]
    <3>1. again[q]["exact"] = T!None
      BY <1>1, <1>4, <1>9
    <3> HIDE DEF on
    <3> QED BY <1>5, <1>9, <3>1
  <2> HIDE DEF n, rule
  <2> QED BY <1>1, <1>3, <1>4, <2>1, <2>2, <2>3 DEF again
<1> QED BY <1>7, <1>8, <1>9

LEMMA FlipKeeps == ASSUME T!TrieAssumption, TrieInv PROVE T!FlipKeepsBlocked
<1> SUFFICES ASSUME MatchMode = "suffix", NEW q \in Name, T!MatchRule(compiled, q) # T!None,
                    T!ShadowOutcome(T!MatchRule(compiled, q), q) \in {"still block", "preserved"}
             PROVE  T!Blocking("exact", q) # T!None
  BY DEF T!FlipKeepsBlocked
<1> DEFINE r == T!Blocking("suffix", q)
           C == T!Covering("suffix", q)
           i == CHOOSE x \in C : \A j \in C : T!Beats("suffix", x, j, q)
<1>1. T!MatchRule(compiled, q) = r
  BY MostSpecific
<1>2. C # {} /\ \A k \in DOMAIN offered : offered[k] \in Line
  <2>1. C # {}
    BY <1>1 DEF T!Blocking
  <2>2. \A k \in DOMAIN offered : offered[k] \in Line
    BY OfferedTyped
  <2> QED BY <2>1, <2>2
<1>3. i \in C /\ r = T!RuleOf(offered[i], "suffix")
  BY <1>2, BestExists
<1> HIDE DEF r, i
<1>4. /\ i \in DOMAIN offered /\ r.name \notin PublicSuffix
      /\ r.name = q \/ (r.scope = "suffix" /\ T!IsPrefix(r.name, q))
  <2>1. i \in DOMAIN offered /\ T!Rules("suffix")[i] = r
    BY <1>3 DEF T!Covering, T!Rules
  <2> QED BY <1>3, <2>1 DEF T!Covering
<1> HIDE DEF C
<1> DEFINE x == T!RuleOf(offered[i], "exact")
<1>5. /\ offered[i] \in Line /\ x.name = r.name
      /\ r.origin \in {"wildcard", "policy", "default"}
      /\ r.origin \in {"wildcard", "policy"} => r.scope = x.scope
  <2>1. offered[i] \in Line
    BY <1>2, <1>4
  <2> QED BY <1>3, <2>1, RuleIs
<1>6. r.origin = "default" => r.name = q
  BY <1>1 DEF T!ShadowOutcome
<1>7. i \in T!Covering("exact", q)
  <2>1. T!Rules("exact")[i] = x
    BY <1>4 DEF T!Rules
  <2> HIDE DEF x
  <2> QED BY <1>4, <1>5, <1>6, <2>1 DEF T!Covering
<1>8. T!Covering("exact", q) # {}
  BY <1>7
<1> DEFINE D == T!Covering("exact", q)
           b == CHOOSE y \in D : \A j \in D : T!Beats("exact", y, j, q)
<1>9. b \in D /\ T!Blocking("exact", q) = T!RuleOf(offered[b], "exact")
  BY <1>8, BestExists
<1> HIDE DEF b
<1>10. b \in DOMAIN offered
  BY <1>9 DEF T!Covering
<1>11. offered[b] \in Line
  BY <1>2, <1>10
<1> QED BY <1>9, <1>11, RuleIs

(* The blocklist trie, for any names, public suffixes, sources, sections    *)
(* and reading order: the walk returns the most specific rule of the        *)
(* sources read to the end and the first line among equals, a trie read     *)
(* back from the cache decides as the one written, and what the shadow      *)
(* count calls still blocked or preserved is blocked after the flip         *)
(* (Trie.AddRule, MergeFrom, MatchRuleDetail, WriteToV2).                   *)
THEOREM RulesAreDecided == ASSUME T!TrieAssumption PROVE T!Spec => []RulesDecide
<1>1. TrieInv => RulesDecide
  BY MostSpecific, CacheDecides, FlipKeeps DEF RulesDecide, T!RulesDecide, T!MatchIsMostSpecific
<1>2. TrieInv /\ [T!Next]_(T!vars) => TrieInv'
  BY TrieStep
<1>3. T!Init => TrieInv
  BY InitTrie
<1> QED BY <1>1, <1>2, <1>3, PTL DEF T!Spec

=============================================================================
