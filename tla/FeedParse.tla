------------------------------ MODULE FeedParse ------------------------------
(***************************************************************************)
(* Reading a feed: ParseEachIndicator with its bounded set of seen names,  *)
(* and the two consumers of its indicators: the queue of a legacy sync and *)
(* the admission plan, which trusts a whole-domain entry at once and a URL *)
(* entry only when a second resource of the host corroborates it.  A step  *)
(* reads one line; a line carries at most one indicator, and some fields   *)
(* that do not parse.                                                      *)
(***************************************************************************)
EXTENDS Integers, FiniteSets, Sequences

CONSTANTS
    Host,           \* names of hosts
    Address,        \* the hosts that are IP addresses
    Resource,       \* paths with query and fragment
    Limits,         \* values of SAFE_ZONE_FEED_MAX_DISTINCT_DOMAINS to consider
    MaxBad,         \* bound: fields of a line that do not parse
    MaxLines        \* bound: lines of a feed

ParseAssumption == Limits \subseteq Int

None == [host |-> "none"]
NoPath == "no path"
Indicator == [kind : {"domain"}, host : Host, path : {NoPath}]
             \cup [kind : {"url"}, host : Host, path : Resource \cup {NoPath}]
Line == [bad : 0..MaxBad, ind : Indicator \cup {None}]
Modes == {"legacy", "shadow", "filter"}

VARIABLES
    mode, csv, limit,    \* the admission mode, the format, the configured cap
    lines,               \* history: the lines read
    seen, truncated,     \* boundedSeenSet
    stats,               \* ParseStats
    queued,              \* names handed to the handler of ParseEach
    plan, overCapacity   \* the admission states, and the names that got none

vars == <<mode, csv, limit, lines, seen, truncated, stats, queued, plan, overCapacity>>

NoState == [held |-> FALSE, authoritative |-> FALSE, first |-> NoPath]

Init ==
    /\ mode \in Modes /\ csv \in BOOLEAN /\ limit \in Limits
    /\ lines = <<>>
    /\ seen = {} /\ truncated = 0
    /\ stats = [valid |-> 0, invalid |-> 0, duplicates |-> 0, skipped |-> 0]
    /\ queued = {}
    /\ plan = [h \in Host |-> NoState]
    /\ overCapacity = 0

(* newBoundedSeenSet: no cap, or a cap that is not positive, is no bound.   *)
Full(set) == limit > 0 /\ Cardinality(set) >= limit

(* mark and addIndicator: past the cap a new name is taken for a duplicate. *)
Duplicate(h) == h \in seen \/ Full(seen)

Mark(h) ==
    /\ seen' = IF Duplicate(h) THEN seen ELSE seen \cup {h}
    /\ truncated' = IF h \notin seen /\ Full(seen) THEN truncated + 1 ELSE truncated

(* ParseEach hands on what is not a duplicate.                              *)
Queue(h) == queued' = IF Duplicate(h) THEN queued ELSE queued \cup {h}

(* Mutant: a URL on an address needs corroboration like any other.          *)
AuthoritativeNoAddress(i) == mode = "legacy" \/ i.kind = "domain" \/ i.path = NoPath

(* planAdmissionWithLimit sees every indicator.                             *)
Authoritative(i) ==
    \/ mode = "legacy" \/ i.kind = "domain" \/ i.path = NoPath \/ i.host \in Address

Held == {h \in Host : plan[h].held}

Classify(i) ==
    LET s == [plan[i.host] EXCEPT !.held = TRUE]
        next == IF Authoritative(i) THEN [s EXCEPT !.authoritative = TRUE]
                ELSE IF s.first = NoPath THEN [s EXCEPT !.first = i.path]
                ELSE [s EXCEPT !.authoritative = s.authoritative \/ i.path # s.first]
    IN  IF i.host \notin Held /\ Full(Held)
          THEN overCapacity' = overCapacity + 1 /\ UNCHANGED plan
          ELSE plan' = [plan EXCEPT ![i.host] = next] /\ UNCHANGED overCapacity

(* parseTextStream counts every bad field of a line that has a good one,    *)
(* and a line without one once; parseCSVStream takes the first good field.  *)
Invalid(line) ==
    IF csv THEN IF line.ind = None THEN 1 ELSE 0
    ELSE IF line.ind # None THEN line.bad
    ELSE IF line.bad > 0 THEN 1 ELSE 0
Skipped(line) == IF ~csv /\ line.ind = None /\ line.bad = 0 THEN 1 ELSE 0

CountLine(line, valid, duplicate) ==
    stats' = [valid |-> stats.valid + valid,
              invalid |-> stats.invalid + Invalid(line),
              duplicates |-> stats.duplicates + duplicate,
              skipped |-> stats.skipped + Skipped(line)]

ReadIndicator(line) ==
    /\ Len(lines) < MaxLines /\ line.ind # None
    /\ lines' = Append(lines, line)
    /\ LET h == line.ind.host
       IN  /\ Mark(h) /\ Queue(h) /\ Classify(line.ind)
           /\ CountLine(line, IF Duplicate(h) THEN 0 ELSE 1, IF Duplicate(h) THEN 1 ELSE 0)
    /\ UNCHANGED <<mode, csv, limit>>

ReadOther(line) ==
    /\ Len(lines) < MaxLines /\ line.ind = None
    /\ lines' = Append(lines, line)
    /\ CountLine(line, 0, 0)
    /\ UNCHANGED <<mode, csv, limit, seen, truncated, queued, plan, overCapacity>>

Next == \E line \in Line : ReadIndicator(line) \/ ReadOther(line)

Spec == Init /\ [][Next]_vars

-----------------------------------------------------------------------------
(* Properties.                                                              *)

Indicators == {lines[k].ind : k \in DOMAIN lines} \ {None}
Own(h) == {i \in Indicators : i.host = h}
Hosts == {i.host : i \in Indicators}

(* The hosts of the first k lines.                                          *)
Named(k) == {lines[j].ind.host : j \in {j \in 1..k : lines[j].ind # None}}

(* The hosts that fit under the cap: the first ones of the feed.            *)
Retained ==
    {h \in Hosts :
       \E k \in DOMAIN lines :
         /\ lines[k].ind # None /\ lines[k].ind.host = h
         /\ limit <= 0 \/ Cardinality(Named(k)) <= limit}

(* The classification does not depend on the order or the repetition of the *)
(* lines: a retained host is authoritative exactly when the feed names it   *)
(* as a whole, by address, or with two different resources.  It says        *)
(* nothing of the counters and of the queue of a legacy sync.               *)
PlanMatchesEvidence ==
    /\ Held = Retained
    /\ \A h \in Held :
         plan[h].authoritative <=>
           \/ mode = "legacy" \/ h \in Address
           \/ \E i \in Own(h) : i.kind = "domain" \/ i.path = NoPath
           \/ Cardinality({i.path : i \in Own(h)}) > 1
=============================================================================
