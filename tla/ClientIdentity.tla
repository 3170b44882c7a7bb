------------------------------ MODULE ClientIdentity ------------------------------
(***************************************************************************)
(* Who a request is from: the address is taken from the socket, or from    *)
(* the headers when the peer is a trusted proxy, and the policy group from *)
(* the mapping of that address or of the narrowest network it lies in.  An *)
(* address is the sequence of its leading bits; an IPv4 address is also an *)
(* IPv6 one, under the prefix Mapped.  Proxies append to the one line of   *)
(* X-Forwarded-For there is: ClientIP reads the first line only.           *)
(***************************************************************************)
EXTENDS Integers, Sequences, SequencesExt, FiniteSets

CONSTANTS
    Width,          \* bits of an IPv4 address
    Mapped,         \* the IPv6 prefix of the IPv4 addresses
    Client,         \* IPv4 addresses of clients
    Proxy, Loopback,\* IPv4 addresses of the configured proxies, of this host
    Network,        \* networks operators map: family and prefix
    Legacy,         \* networks an earlier release stored as they were typed
    Group,
    MaxForged,      \* bound: entries a client writes into X-Forwarded-For
    MaxHops,        \* bound: proxies on the way
    MaxMappings     \* bound: mappings there are

Junk == <<>>        \* no address

(* Clients call from hosts of their own, the proxies run on other hosts     *)
(* than this one, and an earlier release too printed a mapped network as    *)
(* the IPv4 network it is.                                                  *)
IdentityAssumption ==
    /\ Junk \notin Client \cup Proxy
    /\ Client \cap (Proxy \cup Loopback) = {} /\ Proxy \cap Loopback = {}
    /\ Mapped \in Seq({0, 1})
    /\ Network \cup Legacy \subseteq [family : {4, 6}, prefix : Seq({0, 1})]
    /\ IsFiniteSet(Legacy)
    /\ \A n \in Legacy : n.family = 6 => ~IsPrefix(Mapped, n.prefix)

VARIABLES
    trusted,        \* addresses whose headers are believed
    ips,            \* address -> group, the exact mappings
    cidrs,          \* network -> group, the networks mapped
    cidrCache,      \* the networks in memory, in the order they are tried
    msg,            \* the request on its way
    ip, group       \* what it was identified as

vars == <<trusted, ips, cidrs, cidrCache, msg, ip, group>>

Nowhere == [client |-> Junk]

(* configureTrustedProxies: one malformed entry, and loopback is all.       *)
Configured(entries, malformed) == IF malformed THEN Loopback ELSE entries

-----------------------------------------------------------------------------
(* The rightmost hop that is an address and no proxy is the client; a chain *)
(* of proxies alone names none.                                             *)
Foreign(hops) == {i \in DOMAIN hops : hops[i] # Junk /\ hops[i] \notin trusted}
LeftmostHop(hops) == IF Foreign(hops) = {} THEN Junk ELSE hops[Min(Foreign(hops))]
ForwardedFor(hops) == IF Foreign(hops) = {} THEN Junk ELSE hops[Max(Foreign(hops))]

ClientIP(m) ==
    CASE m.peer \in trusted /\ ForwardedFor(m.hops) # Junk -> ForwardedFor(m.hops)
      [] m.peer \in trusted /\ ForwardedFor(m.hops) = Junk /\ m.real # Junk -> m.real
      [] OTHER -> m.peer

(* A network under the prefix of the mapped addresses matches as the IPv4   *)
(* network it is, and is stored as that.                                    *)
AsIPv4(n) ==
    IF n.family = 6 /\ IsPrefix(Mapped, n.prefix)
    THEN [family |-> 4, prefix |-> SubSeq(n.prefix, Len(Mapped) + 1, Len(n.prefix))] ELSE n

Covers(n, a) == AsIPv4(n).family = 4 /\ IsPrefix(AsIPv4(n).prefix, a)

NormalizeCIDR(n) == AsIPv4(n)

(* loadCIDRCache sorts by the length of the prefix, then by the width of    *)
(* the family; networks that tie are in any order.                          *)
Ones(n) == Len(n.prefix)
Bits(n) == IF n.family = 4 THEN Width ELSE Len(Mapped) + Width
Ahead(m, n) == Ones(m) > Ones(n) \/ (Ones(m) = Ones(n) /\ Bits(m) > Bits(n))
SortedCache(rows) ==
    {s \in SetToSeqs(DOMAIN rows) : \A i, j \in 1..Len(s) : i < j => ~Ahead(s[j], s[i])}

(* GetGroupForClient, without the identity a client claims: the address,    *)
(* the first network in memory that has it, the default.                    *)
GroupForClient(a) ==
    LET hits == {i \in DOMAIN cidrCache : Covers(cidrCache[i], a)}
    IN  IF a \in DOMAIN ips THEN ips[a]
        ELSE IF hits # {} THEN cidrs[cidrCache[Min(hits)]] ELSE "default"

-----------------------------------------------------------------------------
Init ==
    /\ \E malformed \in BOOLEAN : trusted = Configured(Proxy \cup Loopback, malformed)
    /\ ips = <<>>
    /\ \E n \in SUBSET Legacy : cidrs = [m \in n |-> "legacy"]
    /\ cidrCache \in SortedCache(cidrs)
    /\ msg = Nowhere /\ ip = Junk /\ group = "none"

Room == Cardinality(DOMAIN ips) + Cardinality(DOMAIN cidrs) < MaxMappings

AddIP(a, g) ==
    /\ Room /\ msg = Nowhere
    /\ a \notin DOMAIN ips
    /\ ips' = [b \in DOMAIN ips \cup {a} |-> IF b = a THEN g ELSE ips[b]]
    /\ UNCHANGED <<trusted, cidrs, cidrCache, msg, ip, group>>

AddCIDR(typed, g) ==
    LET n == NormalizeCIDR(typed) IN
    /\ Room /\ msg = Nowhere
    /\ n \notin DOMAIN cidrs
    /\ cidrs' = [m \in DOMAIN cidrs \cup {n} |-> IF m = n THEN g ELSE cidrs[m]]
    /\ cidrCache' \in SortedCache(cidrs')
    /\ UNCHANGED <<trusted, ips, msg, ip, group>>

(* A client writes what it likes into the headers, and every proxy on the   *)
(* way appends the address it was called from.                              *)
Send(c, forged, real) ==
    /\ msg = Nowhere
    /\ msg' = [client |-> c, peer |-> c, hops |-> forged, real |-> real, sent |-> 0]
    /\ UNCHANGED <<trusted, ips, cidrs, cidrCache, ip, group>>

Forward(p) ==
    /\ msg # Nowhere /\ ip = Junk
    /\ msg.sent < MaxHops
    /\ msg' = [msg EXCEPT !.peer = p, !.hops = Append(@, msg.peer), !.sent = @ + 1]
    /\ UNCHANGED <<trusted, ips, cidrs, cidrCache, ip, group>>

Identify ==
    /\ msg # Nowhere /\ ip = Junk
    /\ ip' = ClientIP(msg)
    /\ group' = GroupForClient(ip')
    /\ UNCHANGED <<trusted, ips, cidrs, cidrCache, msg>>

Address == Client \cup Proxy \cup Loopback \cup {Junk}
Header == UNION {[1..n -> Address] : n \in 0..MaxForged}

Next ==
    \/ \E a \in Client, g \in Group : AddIP(a, g)
    \/ \E n \in Network, g \in Group : AddCIDR(n, g)
    \/ \E c \in Client, forged \in Header, real \in Client \cup {Junk} : Send(c, forged, real)
    \/ \E p \in Proxy : Forward(p)
    \/ Identify

Spec == Init /\ [][Next]_vars

-----------------------------------------------------------------------------
(* ClientIP and clientIPFromXForwardedFor: whatever a client writes into    *)
(* its headers, and however many proxies pass the request on, it is         *)
(* identified by the address it called from; when a malformed list leaves   *)
(* the proxies untrusted, by that of the proxy.                             *)
SenderIdentified == ip # Junk => ip = IF msg.peer \in trusted THEN msg.client ELSE msg.peer

Holding(a) == {n \in DOMAIN cidrs : Covers(n, a)}
Narrowest(a) == {n \in Holding(a) : \A m \in Holding(a) : Len(AsIPv4(m).prefix) <= Len(AsIPv4(n).prefix)}

(* GetGroupForClient and loadCIDRCache: of all mapped networks a client     *)
(* lies in, the narrowest decides its group, however its network was        *)
(* written and in whatever order the mappings were added.                   *)
MostSpecificWins ==
    (ip # Junk /\ ip \notin DOMAIN ips) =>
        group \in IF Holding(ip) = {} THEN {"default"} ELSE {cidrs[n] : n \in Narrowest(ip)}

(* A client is who it is, and belongs where the narrowest mapping puts it.  *)
ClientIdentified == SenderIdentified /\ MostSpecificWins
=============================================================================
