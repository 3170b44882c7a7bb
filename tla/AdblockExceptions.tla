--------------------------- MODULE AdblockExceptions ---------------------------
(***************************************************************************)
(* The operator's exceptions to the blocklist: a file is read at every     *)
(* tick, accepted or refused as a whole, indexed into buckets by selector  *)
(* and rule, and asked for every rule that fires.  A name is the sequence  *)
(* of its labels, the top-level domain first.                              *)
(***************************************************************************)
EXTENDS Integers, Sequences, FiniteSets, SequencesExt

CONSTANTS
    Name,           \* names, closed under prefixes
    PublicSuffix,   \* the public suffixes among them
    SourceId, Category,
    Id,             \* identifiers of entries
    MaxEntries      \* bound: entries of a file

ExceptionAssumption ==
    /\ Name \subseteq Seq(STRING) \ {<<>>}
    /\ \A n \in Name : \A i \in 1..Len(n) : SubSeq(n, 1, i) \in Name
    /\ "any" \notin Category

VARIABLES
    snapshot,       \* the published index
    loaded          \* history: the entries the index was built from

vars == <<snapshot, loaded>>

Scope == {"exact", "suffix"}
AnyCategory == "any"
Entry == [id : Id, domain : Name, scope : Scope, rule : Name, match : Scope, source : SourceId, category : Category \cup {AnyCategory}]
Rule == [name : Name, scope : Scope, source : SourceId, category : Category]
EmptyIndex == [exact |-> [n \in Name |-> {}], suffix |-> [n \in Name |-> {}]]

Init == snapshot = EmptyIndex /\ loaded = <<>>

-----------------------------------------------------------------------------
IsSub(child, parent) == child # parent /\ IsPrefix(parent, child)

SelectorsIntersect(q, qs, r, rs) ==
    \/ q = r
    \/ rs = "suffix" /\ IsSub(q, r)
    \/ qs = "suffix" /\ IsSub(r, q)

Selector(e) == [e EXCEPT !.id = ""]
Tolerable(e) ==
    /\ e.scope = "suffix" => e.domain \notin PublicSuffix
    /\ SelectorsIntersect(e.domain, e.scope, e.rule, e.match)

(* validateAdblockExceptions: one bad entry, a repeated identifier or a     *)
(* repeated selector refuses the whole file.                                *)
Valid(entries) ==
    /\ \A i \in DOMAIN entries : Tolerable(entries[i])
    /\ \A i, j \in DOMAIN entries : i # j =>
        entries[i].id # entries[j].id /\ Selector(entries[i]) # Selector(entries[j])

(* A bucket keeps, for each provenance of a rule, the entry of the category *)
(* and the one for any category.                                            *)
Key(e) == [rule |-> e.rule, source |-> e.source, match |-> e.match, category |-> e.category, id |-> e.id]
Build(entries) ==
    LET bucket(sc, n) == {Key(e) : e \in {x \in ToSet(entries) : x.scope = sc /\ x.domain = n}}
    IN  [exact |-> [n \in Name |-> bucket("exact", n)], suffix |-> [n \in Name |-> bucket("suffix", n)]]

Lookup(bucket, r, category) ==
    {k.id : k \in {x \in bucket : x.rule = r.name /\ x.source = r.source /\ x.match = r.scope /\ x.category = category}}

MatchBucketAny(bucket, r) == Lookup(bucket, r, AnyCategory)
MatchBucket(bucket, r) ==
    IF Lookup(bucket, r, r.category) # {} THEN Lookup(bucket, r, r.category) ELSE Lookup(bucket, r, AnyCategory)

(* The buckets asked for a name: its exact one, then the suffix ones from   *)
(* the name up to its top-level domain.                                     *)
Asked(q) == <<snapshot.exact[q]>> \o [i \in 1..Len(q) |-> snapshot.suffix[SubSeq(q, 1, Len(q) + 1 - i)]]

(* The answer is the first bucket that has an entry for the rule.           *)
Match(q, r) ==
    LET hits == {i \in DOMAIN Asked(q) : MatchBucket(Asked(q)[i], r) # {}}
    IN  IF hits = {} THEN {} ELSE MatchBucket(Asked(q)[Min(hits)], r)

-----------------------------------------------------------------------------
(* reloadAdblockExceptions, at every tick: no path empties the index, a     *)
(* file that is valid replaces it, and one that is missing, unreadable or   *)
(* invalid keeps the last one.                                              *)
Unset ==
    /\ loaded # <<>>
    /\ snapshot' = EmptyIndex /\ loaded' = <<>>

Load(entries) ==
    /\ Valid(entries)
    /\ snapshot' = Build(entries) /\ loaded' = entries

Refuse(entries) ==
    /\ ~Valid(entries)
    /\ UNCHANGED vars

(* The operator adds an entry at the end of the file or takes the first     *)
(* one out.                                                                 *)
Next ==
    \/ Unset
    \/ /\ Len(loaded) < MaxEntries
       /\ \E e \in Entry : Load(Append(loaded, e)) \/ Refuse(Append(loaded, e))
    \/ loaded # <<>> /\ Load(Tail(loaded))

Spec == Init /\ [][Next]_vars

-----------------------------------------------------------------------------
Covers(n, scope, q) == n = q \/ (scope = "suffix" /\ IsPrefix(n, q))

(* The entries meant for a rule that fires on a name, read off the file.    *)
Applicable(q, r) ==
    {e \in ToSet(loaded) : /\ Covers(e.domain, e.scope, q)
                           /\ e.rule = r.name /\ e.match = r.scope /\ e.source = r.source
                           /\ e.category \in {r.category, AnyCategory}}

Closer(e, f, q) ==
    \/ e.scope = "exact" /\ f.scope = "suffix"
    \/ e.scope = f.scope /\ Len(e.domain) > Len(f.domain)
    \/ e.scope = f.scope /\ e.domain = f.domain /\ e.category # AnyCategory

(* An exception lifts exactly the rules it names, and of several that apply *)
(* the closest one is reported, whatever their order in the file; and no    *)
(* accepted entry is dead: some name meets both its selector and its rule,  *)
(* so an operator's typing error is refused and not ignored.                *)
LiftsExactly ==
    /\ \A q \in Name, r \in Rule : Covers(r.name, r.scope, q) =>
         Match(q, r) = {e.id : e \in {x \in Applicable(q, r) :
                                         \A f \in Applicable(q, r) : x = f \/ Closer(x, f, q)}}
    /\ \A e \in ToSet(loaded) :
         \E q \in Name : Covers(e.domain, e.scope, q) /\ Covers(e.rule, e.match, q)
================================================================================
