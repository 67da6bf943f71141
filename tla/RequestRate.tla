----------------------------- MODULE RequestRate -----------------------------
(* The request counters of the HTTP API (adapters/http_server.py): one bucket   *)
(* per peer for a minute, a bounded table, and a sweep that is skipped until    *)
(* the earliest bucket can have expired.  A request is one step: the guard      *)
(* reads the clock and counts without giving up the event loop.                 *)
EXTENDS Naturals, FiniteSets, FiniteSetsExt

CONSTANTS
    Peers, Rate,
    Capacity,   \* RATE_BUCKET_CAPACITY
    Ttl,        \* RATE_BUCKET_TTL_SECONDS, in ticks
    LastTick    \* bound: how long the clock runs

VARIABLES
    now,
    buckets,        \* [started, count] of the peers in the table
    nextExpiry,     \* no sweep before this time; Never for an empty table
    refused         \* what the last request at this time was refused for

vars == <<now, buckets, nextExpiry, refused>>

Never == LastTick + Ttl + 1

Init ==
    /\ now = 0 /\ refused = "no"
    /\ buckets = [p \in {} |-> 0] /\ nextExpiry = Never

Tick ==
    /\ now < LastTick
    /\ now' = now + 1 /\ refused' = "no"
    /\ UNCHANGED <<buckets, nextExpiry>>

Only(B, S) == [p \in S |-> B[p]]
Live(B) == {p \in DOMAIN B : B[p].started + Ttl > now}

\* (mutant: the bound is relearned from the last bucket of the walk)
ExpiryOfLast(B) == IF DOMAIN B = {} THEN Never ELSE Max({B[p].started : p \in DOMAIN B}) + Ttl

\* When the earliest of these buckets expires.
Expiry(B) == IF DOMAIN B = {} THEN Never ELSE Min({B[p].started : p \in DOMAIN B}) + Ttl

\* An untracked peer at capacity pays for a sweep, if one can free a place.
Swept(p) ==
    /\ p \notin DOMAIN buckets
    /\ Cardinality(DOMAIN buckets) >= Capacity
    /\ now >= nextExpiry \/ nextExpiry = Never

Table(p) == IF Swept(p) THEN Only(buckets, Live(buckets)) ELSE buckets
Bound(p) == IF Swept(p) THEN Expiry(Table(p)) ELSE nextExpiry

\* The peer's bucket as this request finds it: a spent one starts again.
Bucket(p) ==
    IF p \in Live(buckets) THEN buckets[p] ELSE [started |-> now, count |-> 0]

Over(p) == Bucket(p).count >= Rate
Full(p) == p \notin DOMAIN buckets /\ Cardinality(DOMAIN Table(p)) >= Capacity

TooOften(p) ==
    /\ Over(p) /\ refused' = "rate"
    /\ UNCHANGED <<now, buckets, nextExpiry>>

NoRoom(p) ==
    /\ ~ Over(p) /\ Full(p) /\ refused' = "capacity"
    /\ buckets' = Table(p) /\ nextExpiry' = Bound(p)
    /\ UNCHANGED now

Count(p) ==
    /\ ~ Over(p) /\ ~ Full(p) /\ refused' = "no"
    /\ buckets' = [q \in DOMAIN Table(p) \cup {p} |->
                      IF q = p THEN [Bucket(p) EXCEPT !.count = @ + 1] ELSE buckets[q]]
    /\ nextExpiry' = IF DOMAIN Table(p) = {} THEN now + Ttl ELSE Bound(p)
    /\ UNCHANGED now

Next == Tick \/ \E p \in Peers : TooOften(p) \/ NoRoom(p) \/ Count(p)

-----------------------------------------------------------------------------
\* A new peer is turned away only while a full table of peers is still counting
\* down: a sweep is never put off past the moment it would free a place, whatever
\* was swept, restarted in place or removed before.
FullMeansLive == refused = "capacity" => Cardinality(Live(buckets)) >= Capacity
=============================================================================
