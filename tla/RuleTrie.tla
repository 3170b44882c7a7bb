-------------------------------- MODULE RuleTrie --------------------------------
(***************************************************************************)
(* The blocklist trie: lists are parsed source by source into a staging    *)
(* trie that is merged when the whole source was read, rules are looked up *)
(* label by label, and the published trie goes through the v2 cache file.  *)
(* A name is the sequence of its labels, the top-level domain first.       *)
(***************************************************************************)
EXTENDS Integers, Sequences, SequencesExt

CONSTANTS
    Name,           \* names, closed under prefixes
    PublicSuffix,       \* the public suffixes among them
    Sources,        \* sources in order: id, category and pinned scope ("none")
    Sections,       \* categories of the marked sections of a list
    MatchMode,      \* the global match mode
    MaxLines        \* bound: lines read

TrieAssumption ==
    /\ Name \subseteq Seq(STRING) \ {<<>>}
    /\ \A n \in Name : \A i \in 1..Len(n) : SubSeq(n, 1, i) \in Name
    /\ \A i \in DOMAIN Sources : Sources[i].scope \in {"none", "exact", "suffix"}
    /\ Sources \in Seq([id : STRING, category : STRING, scope : STRING])
    /\ MatchMode \in {"exact", "suffix"}

VARIABLES
    trie, staging,  \* rules per name and scope
    section,        \* category of the section being read ("none")
    source,         \* index of the source being read
    staged, offered \* history: lines of this source, of the sources merged

vars == <<trie, staging, section, source, staged, offered>>

Scope == {"exact", "suffix"}
None == [name |-> <<>>]
EmptyTrie == [n \in Name |-> [s \in Scope |-> None]]

Init ==
    /\ trie = EmptyTrie /\ staging = EmptyTrie
    /\ section = "none"
    /\ source = 1
    /\ staged = <<>> /\ offered = <<>>

-----------------------------------------------------------------------------

(* What a line of a source becomes under a match mode: its policy pins the  *)
(* scope or leaves it to the mode, and a wildcard is a suffix rule always.  *)
RuleOf(line, mode) ==
    LET src == Sources[line.source]
        pinned == src.scope # "none"
        scope == IF pinned THEN src.scope ELSE mode
    IN  [name |-> line.name, source |-> src.id,
         category |-> IF line.section # "none" THEN line.section ELSE src.category,
         scope |-> IF line.wildcard THEN "suffix" ELSE scope,
         origin |-> CASE line.wildcard -> "wildcard" [] ~line.wildcard /\ pinned -> "policy" [] OTHER -> "default"]

(* First wins in each slot, and a public suffix is refused.  Rules added    *)
(* together want a slot each.                                               *)
AddRules(t, rules) ==
    [n \in Name |-> [s \in Scope |->
        LET wanting == {r \in rules : r.name = n /\ r.scope = s}
        IN  IF t[n][s] # None \/ n \in PublicSuffix \/ wanting = {} THEN t[n][s]
            ELSE CHOOSE r \in wanting : TRUE]]

AddRule(t, r) == AddRules(t, {r})

(* The rules of a trie, one record for every slot taken.                    *)
ForEach(t) == {t[n][s] : n \in Name, s \in Scope} \ {None}

MergeFrom(t, from) == AddRules(t, ForEach(from))

(* The v2 cache writes both slots of a node; a record keeps all but the     *)
(* origin, and is parsed and added again.                                   *)
WriteToV2(t) == ForEach(t)
ParseCacheV2Line(r) == [r EXCEPT !.origin = "cache"]
Reloaded(t) == AddRules(EmptyTrie, {ParseCacheV2Line(r) : r \in WriteToV2(t)})

-----------------------------------------------------------------------------
(* The walk from the top-level domain down.  It ends at a label no rule     *)
(* lies under; the deepest suffix rule on the way wins unless the whole     *)
(* name was walked and has a rule of its own.                               *)
HasNode(t, p) == \E n \in Name : IsPrefix(p, n) /\ \E s \in Scope : t[n][s] # None

Walked(t, q) ==
    LET missing == {i \in 1..Len(q) : ~HasNode(t, SubSeq(q, 1, i))}
    IN  IF missing = {} THEN Len(q) ELSE (CHOOSE i \in missing : \A j \in missing : i <= j) - 1

SuffixesOn(t, q) == {i \in 1..Walked(t, q) : t[SubSeq(q, 1, i)]["suffix"] # None}

DeepestAbove(t, q) ==
    IF SuffixesOn(t, q) = {} THEN None ELSE t[SubSeq(q, 1, Min(SuffixesOn(t, q)))]["suffix"]
Deepest(t, q) ==
    IF SuffixesOn(t, q) = {} THEN None ELSE t[SubSeq(q, 1, Max(SuffixesOn(t, q)))]["suffix"]

MatchRule(t, q) ==
    IF Walked(t, q) = Len(q) /\ t[q]["exact"] # None THEN t[q]["exact"] ELSE Deepest(t, q)

(* What the shadow observation predicts for a hit if the mode became exact. *)
ShadowOutcome(r, q) ==
    CASE r.origin = "default" /\ q = r.name -> "still block"
      [] r.origin = "default" /\ q # r.name -> "would allow"
      [] r.origin \in {"policy", "wildcard"} -> "preserved"
      [] OTHER -> "unavailable"

-----------------------------------------------------------------------------
Room == Len(staged) + Len(offered) < MaxLines

(* parseAdblockSourceInto, a line at a time.                                *)
ReadLine(n, wildcard) ==
    /\ source <= Len(Sources) /\ Room
    /\ LET line == [name |-> n, wildcard |-> wildcard, source |-> source, section |-> section] IN
        /\ staging' = AddRule(staging, RuleOf(line, MatchMode))
        /\ staged' = Append(staged, line)
    /\ UNCHANGED <<trie, section, source, offered>>

ReadMarker(c) ==
    /\ source <= Len(Sources) /\ Room
    /\ section # c
    /\ section' = c
    /\ UNCHANGED <<trie, staging, source, staged, offered>>

NextSource == source' = source + 1 /\ staging' = EmptyTrie /\ section' = "none" /\ staged' = <<>>

(* The whole source was read: its rules are merged.                         *)
Merge ==
    /\ source <= Len(Sources)
    /\ trie' = MergeFrom(trie, staging)
    /\ offered' = offered \o staged
    /\ NextSource

(* The source broke off: it contributes nothing.                            *)
Abandon ==
    /\ source <= Len(Sources)
    /\ UNCHANGED <<trie, offered>>
    /\ NextSource

Next ==
    \/ \E n \in Name, w \in BOOLEAN : ReadLine(n, w)
    \/ \E c \in Sections \cup {"none"} : ReadMarker(c)
    \/ Merge \/ Abandon

Spec == Init /\ [][Next]_vars

-----------------------------------------------------------------------------
(* The reference: among the lines of the sources that were read to the end, *)
(* the most specific rule that covers the name, and of several equal ones   *)
(* the first in source and line order.                                      *)
Rules(mode) == [i \in DOMAIN offered |-> RuleOf(offered[i], mode)]

Covering(mode, q) ==
    {i \in DOMAIN offered : LET r == Rules(mode)[i] IN
        r.name \notin PublicSuffix /\ (r.name = q \/ (r.scope = "suffix" /\ IsPrefix(r.name, q)))}

Beats(mode, i, j, q) ==
    LET r == Rules(mode)[i]  o == Rules(mode)[j]
        own(x) == x.scope = "exact" /\ x.name = q
    IN  \/ own(r) /\ ~own(o)
        \/ own(r) = own(o) /\ Len(r.name) > Len(o.name)
        \/ own(r) = own(o) /\ Len(r.name) = Len(o.name) /\ i <= j

Blocking(mode, q) ==
    LET covering == Covering(mode, q)
    IN  IF covering = {} THEN None
        ELSE Rules(mode)[CHOOSE i \in covering : \A j \in covering : Beats(mode, i, j, q)]

(* Whatever the order of lines, sources, scopes and wildcards, the rule the *)
(* walk returns is the most specific one of the committed sources, the      *)
(* earlier source first; staging and merging lose and invent nothing.       *)
MatchIsMostSpecific == \A q \in Name : MatchRule(trie, q) = Blocking(MatchMode, q)

(* A process that falls back to the v2 cache decides as the one that wrote  *)
(* it: the same rule with the same scope, source and category fires.        *)
CacheKeepsDecisions ==
    \A q \in Name : LET r == MatchRule(trie, q)  c == MatchRule(Reloaded(trie), q) IN
        c = IF r = None THEN None ELSE [r EXCEPT !.origin = "cache"]

(* A hit counted as still blocked or preserved is blocked after the flip    *)
(* too, also when its slot falls to a rule of another source.               *)
FlipKeepsBlocked ==
    MatchMode = "suffix" => \A q \in Name :
        LET r == MatchRule(trie, q) IN
        r # None /\ ShadowOutcome(r, q) \in {"still block", "preserved"} => Blocking("exact", q) # None

(* The rules decide as the lists say: now, after a restart from the cache,  *)
(* and, where the shadow count promises it, after the flip to exact mode.   *)
RulesDecide == MatchIsMostSpecific /\ CacheKeepsDecisions /\ FlipKeepsBlocked
================================================================================
