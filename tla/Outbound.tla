------------------------------- MODULE Outbound -------------------------------
(***************************************************************************)
(* Requests the services send out: threat feed downloads, exchanges with   *)
(* the DoH upstream, public warning pages and certificate inspections.     *)
(* Host names are resolved, checked and only then dialled, and a server    *)
(* may answer with a redirect, while the DNS records of the hosts change   *)
(* at any moment between two steps.  The guard is on and connections are   *)
(* direct: SAFE_ZONE_OUTBOUND_PROXY, the allowPrivate switch, and a proxy  *)
(* of the environment, which the transport of the warning pages keeps      *)
(* (cloneValidatedTransport), hand the choice of address to others.        *)
(***************************************************************************)
EXTENDS Integers, Sequences, Functions

CONSTANTS
    Name,          \* host names
    Local,         \* host names that mean this host: localhost and below it
    Addr,          \* addresses
    NonRoutable,   \* addresses that are no routable public destination
    Official,      \* hosts at or below a trusted domain of the OSINT service
    InsecureHTTP,  \* whether feeds may be redirected to plain http
    MaxRedirects,  \* bound of the redirect policy (10 in the code)
    MaxFlips       \* bound: changes of DNS records

Kind == {"feed", "doh", "osint", "tls"}

(* The host of a URL is a name or an address written out.                   *)
Url == [scheme : {"http", "https"}, host : Name \cup Addr]

VARIABLES
    dns,           \* name -> the addresses its records hold, in order
    fetch,         \* the request: who sends it, the URL, the hops so far
    dialled,       \* history: the connections made for it
    flips

vars == <<dns, fetch, dialled, flips>>

Records == {s \in UNION {[1..n -> Addr] : n \in 0..2} : IsInjective(s)}

Idle == [at |-> "idle"]

Init ==
    /\ dns \in [Name -> Records]
    /\ fetch = Idle
    /\ dialled = {}
    /\ flips = 0

-----------------------------------------------------------------------------
IsBlockedIP(a) == a \in NonRoutable

Lookup(host) == IF host \in Addr THEN <<host>> ELSE dns[host]

(* One blocked address among those a name resolves to refuses the name.     *)
ResolveAllowedIPs(host) ==
    IF host \in Local \/ \E a \in Range(Lookup(host)) : IsBlockedIP(a)
    THEN <<>>
    ELSE Lookup(host)

ValidateParsedURL(u) ==
    /\ u.host \notin Local
    /\ ~(u.host \in Addr /\ IsBlockedIP(u.host))

(* RedirectPolicy and, for a feed that began on https, RedirectPolicyHTTPS. *)
RedirectPolicy(kind, first, u) ==
    /\ kind = "feed" /\ first.scheme = "https" /\ ~InsecureHTTP => u.scheme = "https"
    /\ ValidateParsedURL(u)
    /\ ResolveAllowedIPs(u.host) # <<>>

FirstPublic(ips) ==
    LET public == {i \in DOMAIN ips : ~IsBlockedIP(ips[i])}
    IN  IF public = {} THEN <<>>
                       ELSE <<ips[CHOOSE i \in public : \A j \in public : i <= j]>>

(* The OSINT transport resolves and checks the host of every hop itself and *)
(* must find it trusted; the feed and DoH transports check in DialContext;  *)
(* a certificate inspection takes the first public address.                 *)
Allowed(kind, u) ==
    CASE kind = "osint" ->
            IF u.host \in Official
            THEN IF \E a \in Range(Lookup(u.host)) : IsBlockedIP(a) THEN <<>> ELSE Lookup(u.host)
            ELSE <<>>
      [] kind = "tls" -> FirstPublic(Lookup(u.host))
      [] OTHER -> ResolveAllowedIPs(u.host)

(* What is checked before the first request is sent.                        *)
Admitted(kind, u) ==
    CASE kind = "feed" -> ValidateParsedURL(u)
      [] kind = "doh" -> ValidateParsedURL(u) /\ ResolveAllowedIPs(u.host) # <<>>
      [] kind = "tls" -> u.scheme = "https" /\ u.host \in Name
      [] OTHER -> TRUE

Start ==
    /\ fetch.at = "idle"
    /\ \E kind \in Kind, u \in Url :
        fetch' = IF Admitted(kind, u)
                 THEN [at |-> "resolve", kind |-> kind, first |-> u, url |-> u, via |-> 0]
                 ELSE Idle
    /\ dialled' = {}
    /\ UNCHANGED <<dns, flips>>

(* RoundTrip: the addresses this hop may use are fixed here.  The OSINT     *)
(* transport tries them in turn, the others use the first.                  *)
Resolve ==
    /\ fetch.at = "resolve"
    /\ LET ips == Allowed(fetch.kind, fetch.url)
       IN  fetch' = IF ips = <<>> THEN Idle
                    ELSE [at |-> "dial", kind |-> fetch.kind, first |-> fetch.first,
                          url |-> fetch.url, via |-> fetch.via,
                          ips |-> IF fetch.kind = "osint" THEN ips ELSE <<Head(ips)>>]
    /\ UNCHANGED <<dns, dialled, flips>>

(* Mutant: the name is resolved again to connect.                           *)
ByName(f) == IF Lookup(f.url.host) = <<>> THEN Head(f.ips) ELSE Head(Lookup(f.url.host))

(* The connection goes to the address that was checked.                     *)
Destination(f) == Head(f.ips)

Dial ==
    /\ fetch.at = "dial"
    /\ dialled' = dialled \cup
           {[url |-> fetch.url, addr |-> Destination(fetch), hop |-> fetch.via]}
    /\ \/ fetch' = [fetch EXCEPT !.at = "answer"]
       \/ fetch' = IF Len(fetch.ips) > 1 THEN [fetch EXCEPT !.ips = Tail(@)] ELSE Idle
    /\ UNCHANGED <<dns, flips>>

(* The server answers, and the client is done, or redirects it.             *)
Answered ==
    /\ fetch.at = "answer"
    /\ fetch' = Idle
    /\ UNCHANGED <<dns, dialled, flips>>

Redirected ==
    /\ fetch.at = "answer" /\ fetch.kind # "tls"
    /\ \E u \in Url :
        fetch' = IF fetch.via + 1 < MaxRedirects /\ RedirectPolicy(fetch.kind, fetch.first, u)
                 THEN [at |-> "resolve", kind |-> fetch.kind, first |-> fetch.first,
                       url |-> u, via |-> fetch.via + 1]
                 ELSE Idle
    /\ UNCHANGED <<dns, dialled, flips>>

(* The owner of a name changes its records.                                 *)
Flip ==
    /\ flips < MaxFlips
    /\ fetch.at # "idle"
    /\ flips' = flips + 1
    /\ \E n \in Name, r \in Records : dns' = [dns EXCEPT ![n] = r]
    /\ UNCHANGED <<fetch, dialled>>

Next == Start \/ Resolve \/ Dial \/ Answered \/ Redirected \/ Flip

Spec == Init /\ [][Next]_vars

-----------------------------------------------------------------------------
(* However the records change between a check and the connection it was     *)
(* made for, and wherever servers redirect to, no connection is made to an  *)
(* address that is not a public destination.                                *)
PublicOnly == \A d \in dialled : ~IsBlockedIP(d.addr)

(* A warning page is only read from a trusted host: a redirect of a trusted *)
(* host to any other is not followed, whichever hop it comes at.            *)
TrustedOnly == fetch # Idle /\ fetch.kind = "osint" => \A d \in dialled : d.url.host \in Official

(* A feed configured over https stays on https across redirects, so that    *)
(* its content cannot be changed on the way.                                *)
HttpsKept ==
    fetch # Idle /\ fetch.kind = "feed" /\ fetch.first.scheme = "https" /\ ~InsecureHTTP
        => \A d \in dialled : d.url.scheme = "https"

(* Whatever a foreign server or zone answers, requests stay where they may  *)
(* go: public addresses, trusted hosts for warnings, https for feeds.       *)
OutboundConfined == PublicOnly /\ TrustedOnly /\ HttpsKept
=============================================================================
