-------------------------------- MODULE Adblock --------------------------------
(***************************************************************************)
(* The adblock layer of one process: the operator's switches in the store  *)
(* and in memory, the settings request and the 30 s refresh that move them *)
(* and the loop that rebuilds the rules from conditional downloads, the    *)
(* cache of each source, the cache of all rules and the tags in the meta   *)
(* file.  A list is the number of its version; a rule carries the match    *)
(* mode and the source policy that were in force when it was parsed.       *)
(***************************************************************************)
EXTENDS Integers, Sequences, SequencesExt

CONSTANTS
    Sources,        \* the configured sources, in order
    Mode,           \* match modes
    Policy,         \* documents of per-source policies
    Defaults,       \* the switches of the environment
    MaxVersion,     \* bound: versions of a list
    MaxChanges,     \* bound: settings documents and writes of other processes
    MaxFaults       \* bound: failures of network, disk and store, and crashes

VARIABLES
    stored,         \* switches in the store
    memory,         \* switches in force
    request,        \* settings steps left, and whether the first is in the store
    refresh,        \* fields left in this tick, with what was read of the first
    resync,         \* the one-slot channel adblockResync
    sync,           \* the rebuild under way
    trie,           \* rules in force, per source
    cache, meta, rules,     \* files: body and tag per source, all rules
    remote,         \* version each source serves
    changes, faults

switchVars == <<stored, memory, request, refresh>>
fileVars == <<cache, meta, rules>>
vars == <<stored, memory, request, refresh, resync, sync, trie, cache, meta, rules, remote, changes, faults>>

Source == ToSet(Sources)

ASSUME AdblockAssumption == Sources \in Seq(Source)

Fields == <<"mode", "policy", "enabled">>
None == 0
Empty == [s \in Source |-> [version |-> None]]
Nothing == [s \in Source |-> None]
At(step) == [at |-> step, i |-> 1, mode |-> Defaults.mode, policy |-> Defaults.policy, body |-> None,
             trie |-> Empty, tags |-> Nothing, next |-> Nothing, held |-> FALSE]
Quiet == [left |-> <<>>, step |-> "load", previous |-> Defaults, read |-> Defaults]

Init ==
    /\ stored = Defaults /\ memory = Defaults
    /\ request = [left |-> <<>>, persisted |-> FALSE]
    /\ refresh = Quiet
    /\ resync = FALSE
    /\ sync = At("start")
    /\ trie = Empty
    /\ cache = Nothing /\ meta = Nothing /\ rules = Empty
    /\ remote = [s \in Source |-> 1]
    /\ changes = 0 /\ faults = 0

Fault == faults < MaxFaults /\ faults' = faults + 1
Change == changes < MaxChanges /\ changes' = changes + 1
Enabled == memory.enabled = "true"
Values(field) == CASE field = "mode" -> Mode [] field = "policy" -> Policy [] OTHER -> {"true", "false"}

-----------------------------------------------------------------------------
(* The settings request: validated as a whole, then applied field by field  *)
(* with the enablement last; each setter writes the store, then memory.     *)

PutSettings(doc) ==
    /\ request.left = <<>>
    /\ Change
    /\ request' = [left |-> SelectSeq([i \in 1..3 |-> <<Fields[i], doc[Fields[i]]>>], LAMBDA p : p[2] # "absent"),
                   persisted |-> FALSE]
    /\ UNCHANGED <<stored, memory, refresh, resync, sync, trie, fileVars, remote, faults>>

Persist ==
    /\ request.left # <<>> /\ ~request.persisted
    /\ LET p == Head(request.left) IN stored' = [stored EXCEPT ![p[1]] = p[2]]
    /\ request' = [request EXCEPT !.persisted = TRUE]
    /\ UNCHANGED <<memory, refresh, resync, sync, trie, fileVars, remote, changes, faults>>

PersistFails ==
    /\ request.left # <<>> /\ ~request.persisted
    /\ Fault
    /\ request' = [request EXCEPT !.left = <<>>]
    /\ UNCHANGED <<stored, memory, refresh, resync, sync, trie, fileVars, remote, changes>>

(* SetAdblockMatchMode always asks for a rebuild, the policies only when    *)
(* their fingerprint moves, the enablement never.                           *)
AsksResync(field, value) ==
    \/ field = "mode"
    \/ field = "policy" /\ memory.policy # value

ApplySetting ==
    /\ request.persisted
    /\ LET p == Head(request.left) IN
        /\ memory' = [memory EXCEPT ![p[1]] = p[2]]
        /\ resync' = (resync \/ AsksResync(p[1], p[2]))
    /\ request' = [left |-> Tail(request.left), persisted |-> FALSE]
    /\ UNCHANGED <<stored, refresh, sync, trie, fileVars, remote, changes, faults>>

(* Another process of the deployment changes a switch in the shared store.  *)
PutElsewhere(field, value) ==
    /\ Change
    /\ stored' = [stored EXCEPT ![field] = value]
    /\ UNCHANGED <<memory, request, refresh, resync, sync, trie, fileVars, remote, faults>>

-----------------------------------------------------------------------------
(* The 30 s tick of runAdblockConfigSync.  Each field is read, then applied;*)
(* an unreadable store keeps the value in force.                            *)

StartTick ==
    /\ refresh.left = <<>>
    /\ refresh' = [Quiet EXCEPT !.left = <<"enabled", "mode", "policy">>]
    /\ UNCHANGED <<stored, memory, request, resync, sync, trie, fileVars, remote, changes, faults>>

LoadPrevious ==
    /\ refresh.left # <<>> /\ refresh.step = "load"
    /\ refresh' = [refresh EXCEPT !.step = "read", !.previous = memory]
    /\ UNCHANGED <<stored, memory, request, resync, sync, trie, fileVars, remote, changes, faults>>

ReadSetting ==
    /\ refresh.left # <<>> /\ refresh.step = "read"
    /\ refresh' = [refresh EXCEPT !.step = "apply", !.read = stored]
    /\ UNCHANGED <<stored, memory, request, resync, sync, trie, fileVars, remote, changes, faults>>

ReadFails ==
    /\ refresh.left # <<>> /\ refresh.step = "read"
    /\ Fault
    /\ refresh' = [refresh EXCEPT !.left = Tail(@), !.step = "load"]
    /\ UNCHANGED <<stored, memory, request, resync, sync, trie, fileVars, remote, changes>>

(* The mode is compared with the value loaded before the read, the policies *)
(* with the ones in force now; both ask for a rebuild when they move.       *)
ApplyRead ==
    /\ refresh.left # <<>> /\ refresh.step = "apply"
    /\ LET f == Head(refresh.left)
           moves == CASE f = "enabled" -> TRUE
                      [] f = "mode" -> refresh.read.mode # refresh.previous.mode
                      [] OTHER -> refresh.read.policy # memory.policy
       IN  /\ memory' = IF moves THEN [memory EXCEPT ![f] = refresh.read[f]] ELSE memory
           /\ resync' = (resync \/ (moves /\ f # "enabled"))
    /\ refresh' = [refresh EXCEPT !.left = Tail(@), !.step = "load"]
    /\ UNCHANGED <<stored, request, sync, trie, fileVars, remote, changes, faults>>

-----------------------------------------------------------------------------
(* The sync loop: an initial sync when enabled, then a rebuild for every    *)
(* request and at every interval.                                           *)

StartSync == [At(IF Sources = <<>> THEN "publish" ELSE "source") EXCEPT !.tags = meta, !.held = trie # Empty]

InitialSync ==
    /\ sync.at = "start"
    /\ sync' = IF Enabled THEN StartSync ELSE At("idle")
    /\ UNCHANGED <<switchVars, resync, trie, fileVars, remote, changes, faults>>

RebuildAdblockRules ==
    /\ sync.at = "idle"
    /\ trie' = IF Enabled THEN trie ELSE Empty
    /\ sync' = IF Enabled THEN StartSync ELSE sync
    /\ UNCHANGED <<switchVars, fileVars, remote, changes, faults>>

TakeResync == resync /\ resync' = FALSE /\ RebuildAdblockRules
Interval == RebuildAdblockRules /\ UNCHANGED resync

(* One source: its policy is resolved, then it is fetched under the tag of  *)
(* the last sync.                                                           *)
Current == Sources[sync.i]
Following(sy) == IF sy.i = Len(Sources) THEN [sy EXCEPT !.at = "publish"]
                                        ELSE [sy EXCEPT !.i = @ + 1, !.at = "source"]
Rule(v) == [version |-> v, mode |-> sync.mode, policy |-> sync.policy]
Contribute(v, tag) == Following([sync EXCEPT !.trie[Current] = Rule(v), !.next[Current] = tag])
Skip == Following(sync)

ResolvePolicy ==
    /\ sync.at = "source"
    /\ sync' = [sync EXCEPT !.at = "fetch", !.mode = memory.mode, !.policy = memory.policy]
    /\ UNCHANGED <<switchVars, resync, trie, fileVars, remote, changes, faults>>

(* A body taken from the cache of the source, or whatever is left to try.   *)
FromCache(otherwise) ==
    sync' = IF cache[Current] # None THEN Contribute(cache[Current], sync.tags[Current]) ELSE otherwise

NotModifiedTrusted ==
    /\ sync.at = "fetch" /\ sync.tags[Current] = remote[Current]
    /\ FromCache(Skip)
    /\ UNCHANGED <<switchVars, resync, trie, fileVars, remote, changes, faults>>

NotModified ==
    /\ sync.at = "fetch" /\ sync.tags[Current] = remote[Current]
    /\ FromCache([sync EXCEPT !.at = "refetch"])
    /\ UNCHANGED <<switchVars, resync, trie, fileVars, remote, changes, faults>>

FetchBody ==
    /\ \/ sync.at = "fetch" /\ sync.tags[Current] # remote[Current]
       \/ sync.at = "refetch"
    /\ sync' = [sync EXCEPT !.at = "save", !.body = remote[Current]]
    /\ UNCHANGED <<switchVars, resync, trie, fileVars, remote, changes, faults>>

FetchFails ==
    /\ sync.at \in {"fetch", "refetch"}
    /\ Fault
    /\ FromCache(Skip)
    /\ UNCHANGED <<switchVars, resync, trie, fileVars, remote, changes>>

(* What a body that cannot be saved leaves behind: nothing of it, and       *)
(* nothing of the cache either.                                             *)
SaveRefused == Skip

(* saveAdblockSourceCache: stage and sync a temporary file, remove the old  *)
(* one, rename; only then do the rules count.                               *)
SaveFails ==
    /\ sync.at \in {"save", "rename"}
    /\ Fault
    /\ sync' = SaveRefused
    /\ UNCHANGED <<switchVars, resync, trie, fileVars, remote, changes>>

RemoveOld ==
    /\ sync.at = "save"
    /\ cache' = [cache EXCEPT ![Current] = None]
    /\ sync' = [sync EXCEPT !.at = "rename"]
    /\ UNCHANGED <<switchVars, resync, trie, meta, rules, remote, changes, faults>>

Rename ==
    /\ sync.at = "rename"
    /\ cache' = [cache EXCEPT ![Current] = sync.body]
    /\ sync' = Contribute(sync.body, sync.body)
    /\ UNCHANGED <<switchVars, resync, trie, meta, rules, remote, changes, faults>>

(* Publish when some source succeeded; else keep the rules, or start from   *)
(* the cache of all rules when there are none.                              *)
SucceededAlways == TRUE
Succeeded == sync.trie # Empty

Publish ==
    /\ sync.at = "publish"
    /\ IF Succeeded
       THEN trie' = sync.trie /\ sync' = [sync EXCEPT !.at = "rules"]
       ELSE trie' = (IF sync.held THEN trie ELSE rules) /\ sync' = At("idle")
    /\ UNCHANGED <<switchVars, resync, fileVars, remote, changes, faults>>

SaveRules ==
    /\ sync.at = "rules"
    /\ rules' = sync.trie
    /\ sync' = [sync EXCEPT !.at = "meta"]
    /\ UNCHANGED <<switchVars, resync, trie, cache, meta, remote, changes, faults>>

SaveRulesFails ==
    /\ sync.at = "rules"
    /\ Fault
    /\ rules' \in {rules, Empty}
    /\ sync' = [sync EXCEPT !.at = "meta"]
    /\ UNCHANGED <<switchVars, resync, trie, cache, meta, remote, changes>>

SaveMeta ==
    /\ sync.at = "meta"
    /\ meta' = sync.next
    /\ sync' = At("idle")
    /\ UNCHANGED <<switchVars, resync, trie, cache, rules, remote, changes, faults>>

SaveMetaFails ==
    /\ sync.at = "meta"
    /\ Fault
    /\ meta' \in {meta, Nothing}
    /\ sync' = At("idle")
    /\ UNCHANGED <<switchVars, resync, trie, cache, rules, remote, changes>>

-----------------------------------------------------------------------------
(* The process dies anywhere and starts again with the stored switches; a   *)
(* stored mode or policy other than the environment's asks for a rebuild.   *)
Crash ==
    /\ Fault
    /\ memory' = stored
    /\ request' = [left |-> <<>>, persisted |-> FALSE]
    /\ refresh' = Quiet
    /\ resync' = (stored.mode # Defaults.mode \/ stored.policy # Defaults.policy)
    /\ sync' = At("start")
    /\ trie' = Empty
    /\ UNCHANGED <<stored, fileVars, remote, changes>>

(* The other process of the deployment, which shares the data root, dies    *)
(* between removing the cache of a source and renaming its own.             *)
LoseCache(s) ==
    /\ Fault
    /\ cache' = [cache EXCEPT ![s] = None]
    /\ UNCHANGED <<switchVars, resync, sync, trie, meta, rules, remote, changes>>

(* A source publishes a new version of its list.                            *)
Release(s) ==
    /\ remote[s] < MaxVersion
    /\ remote' = [remote EXCEPT ![s] = @ + 1]
    /\ UNCHANGED <<switchVars, resync, sync, trie, fileVars, changes, faults>>

RequestStep == Persist \/ ApplySetting
TickStep == StartTick \/ LoadPrevious \/ ReadSetting \/ ApplyRead
SyncStep ==
    \/ InitialSync \/ TakeResync \/ ResolvePolicy \/ NotModified \/ FetchBody
    \/ RemoveOld \/ Rename \/ Publish \/ SaveRules \/ SaveMeta

Document == {d \in [mode : Mode \cup {"absent"}, policy : Policy \cup {"absent"}, enabled : {"true", "false", "absent"}] :
                \E f \in DOMAIN d : d[f] # "absent"}

Next ==
    \/ \E d \in Document : PutSettings(d)
    \/ RequestStep \/ PersistFails
    \/ \E i \in DOMAIN Fields : \E v \in Values(Fields[i]) : PutElsewhere(Fields[i], v)
    \/ TickStep \/ ReadFails
    \/ SyncStep \/ Interval
    \/ FetchFails \/ SaveFails \/ SaveRulesFails \/ SaveMetaFails
    \/ Crash
    \/ \E s \in Source : Release(s) \/ LoseCache(s)

Spec == Init /\ [][Next]_vars

(* A request, a tick and a rebuild that have begun go on, and the interval  *)
(* of the sync loop comes again and again.                                  *)
Fairness ==
    /\ WF_vars(RequestStep) /\ WF_vars(TickStep) /\ WF_vars(SyncStep) /\ WF_vars(Interval)

-----------------------------------------------------------------------------
(* The tag a source is asked with is never newer than the body on disk: a   *)
(* "not modified" then stands for the cached body.  The body is written     *)
(* before the meta file, either can fail, and a crash can come between      *)
(* removing and renaming either of them.                                    *)
TagMatchesCache ==
    \A s \in DOMAIN meta : meta[s] # None /\ cache[s] # None => cache[s] >= meta[s]

(* While the process runs, no source goes back to an older list than the    *)
(* one in force: a body that could not be cached must not count, because    *)
(* the next failing download would fall back behind it.                     *)
KeepsVersions ==
    sync.at # "start" => \A s \in DOMAIN trie :
        trie[s].version # None /\ trie'[s].version # None => trie'[s].version >= trie[s].version

(* A rebuild under an enabled layer never leaves it without rules it had:   *)
(* whatever fails, the rules stay.                                          *)
KeepsRules ==
    trie # Empty /\ trie' = Empty => \/ sync.at = "idle" /\ ~Enabled
                                     \/ sync'.at = "start"

(* Files never lie about what is cached, and no step takes a list back or   *)
(* the rules away.                                                          *)
ListsKept == []TagMatchesCache /\ [][KeepsVersions /\ KeepsRules]_vars

(* Once changes and failures are over, memory follows the store, and an     *)
(* enabled layer enforces the current lists under the switches in force:    *)
(* no lost rebuild request, no tag without a body stops it.                 *)
Settled ==
    /\ memory = stored
    /\ Enabled => \A s \in Source :
           trie[s] = [version |-> remote[s], mode |-> memory.mode, policy |-> memory.policy]
================================================================================
