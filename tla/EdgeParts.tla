------------------------------ MODULE EdgeParts ------------------------------
(***************************************************************************)
(* What stands between a process and the world, beside the policy: the     *)
(* table of the rate limiter, who a client is, where outbound requests go, *)
(* the brand list evaluations go by, and the public warnings that block.   *)
(* The parts share no state.                                               *)
(***************************************************************************)
CONSTANTS
    ClientKey, Burst, Unit, Rate, MaxKeys, IdleThreshold, MaxHits, LimiterTime,
    Width, MappedPrefix, Client, Proxy, Loopback, Network, Legacy, ClientGroup,
    MaxForged, MaxHops, MaxMappings,
    HostName, Local, Addr, NonRoutable, Official, InsecureHTTP, MaxRedirects, MaxFlips,
    Process, Writer, Brand, Default, TTL, EntryTTL, MaxEdits, BrandFaults, BrandTime,
    Domain, Source, HostOf, Configs, MaxReports, MaxPublished, LookupFaults

VARIABLES
    buckets, active, blocked, oneShot, granted, limiterClock,
    trusted, ips, cidrs, cidrCache, msg, ip, group,
    dns, fetch, dialled, flips,
    rows, snapshot, shared, revision, entry, task, edit, served, asOf, brandClock, edits,
    brandFaults,
    config, page, reports, redis, lookup, acted, published, lookupFaults

L == INSTANCE RateLimiter WITH
        Client <- ClientKey, MaxTime <- LimiterTime, now <- limiterClock

I == INSTANCE ClientIdentity WITH Mapped <- MappedPrefix, Group <- ClientGroup

O == INSTANCE Outbound WITH Name <- HostName

B == INSTANCE Brands WITH
        MaxFaults <- BrandFaults, MaxTime <- BrandTime, memory <- snapshot, now <- brandClock,
        faults <- brandFaults

W == INSTANCE Osint WITH
        MaxFaults <- LookupFaults, memory <- reports, task <- lookup, served <- acted,
        faults <- lookupFaults

(* RateLimiter!TableSound: table, lists and counter agree, a key on the     *)
(* blocked list is denied, and no key gets more than burst and refill.      *)
TableSound == L!TableSound

(* RateLimiter!RightKeysGo: a throttled key is evicted behind the others,   *)
(* and a sweep leaves no idle key.                                          *)
RightKeysGo == L!RightKeysGo

(* ClientIdentity!ClientIdentified: headers do not forge an identity, and   *)
(* the narrowest network decides the group.                                 *)
ClientIdentified == I!ClientIdentified

(* Outbound!OutboundConfined: connections go to public addresses, warning   *)
(* pages come from trusted hosts, a feed on https stays on https.           *)
OutboundConfined == O!OutboundConfined

(* Brands!ListBounded: a list that was read is at most two lifetimes old,   *)
(* a cached result adds its own; the shipped list of a failed read is kept  *)
(* no longer than the result (trustedBrands, ListBrands).                   *)
ListBounded == B!ListBounded

(* Brands!WithinOneLifetime, as docs/architecture/cache-invalidation.md:42  *)
(* has it of a list that was read and is not part of a cached result        *)
(* (ListBrands).                                                            *)
WithinOneLifetime == B!WithinOneLifetime

(* Osint!ReportsSound: a block rests on a warning that is trusted now, and  *)
(* the reports in memory stay within their bound.                           *)
ReportsSound == W!ReportsSound
=============================================================================
