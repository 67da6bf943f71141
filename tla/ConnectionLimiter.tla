------------------------- MODULE ConnectionLimiter -------------------------
(***************************************************************************)
(* The leases that bound the live connections of adapters/streaming_ws.py: *)
(* a slot for the time before a connection authenticates, and one for its  *)
(* whole life.  The counters belong to the process and the lease to its    *)
(* connection; every change of a counter happens under the limiter's lock, *)
(* in a section that never awaits.                                         *)
(*                                                                         *)
(* A definition that no other uses is a mistake the code could contain,    *)
(* stated just before the definition it would replace.                     *)
(***************************************************************************)
EXTENDS Naturals, FiniteSets

CONSTANTS
    Connections,
    HandshakeLimit,   \* MAX_HANDSHAKE_CONCURRENCY
    TotalLimit        \* MAX_CONNECTIONS

VARIABLES
    phase,           \* where the connection's task is
    handshakeLease,  \* the connections whose lease has _holds_handshake
    totalLease,      \* the connections whose lease has _holds_total
    handshaking,     \* _handshaking
    total,           \* _total
    refusedAt        \* the phases of all connections when one was last refused

vars == <<phase, handshakeLease, totalLease, handshaking, total, refusedAt>>

Init ==
    /\ phase = [c \in Connections |-> "away"]
    /\ handshakeLease = {} /\ totalLease = {}
    /\ handshaking = 0 /\ total = 0
    /\ refusedAt = [c \in Connections |-> "away"]

Move(c, from, to) == phase[c] = from /\ phase' = [phase EXCEPT ![c] = to]
Leases == <<handshakeLease, totalLease, handshaking, total>>

Acquire(c) ==
    /\ Move(c, "away", "leased")
    /\ handshaking < HandshakeLimit /\ total < TotalLimit
    /\ handshakeLease' = handshakeLease \cup {c} /\ handshaking' = handshaking + 1
    /\ totalLease' = totalLease \cup {c} /\ total' = total + 1
    /\ UNCHANGED refusedAt

Refuse(c) ==
    /\ phase[c] = "away"
    /\ handshaking >= HandshakeLimit \/ total >= TotalLimit
    /\ refusedAt' = phase
    /\ UNCHANGED phase /\ UNCHANGED Leases

\* The first message is no connect, or the peer does not read the accept.
DropsBeforeAccept(c) ==
    /\ Move(c, "leased", "early")
    /\ UNCHANGED Leases /\ UNCHANGED refusedAt

\* finish_handshake of the lease: idempotent, and it yields to nobody.
FinishHandshake(c) ==
    /\ Move(c, "early", "leaving")
    /\ IF c \in handshakeLease
       THEN /\ handshakeLease' = handshakeLease \ {c}
            /\ handshaking' = IF handshaking > 0 THEN handshaking - 1 ELSE handshaking
       ELSE UNCHANGED <<handshakeLease, handshaking>>
    /\ UNCHANGED <<totalLease, total, refusedAt>>

Accept(c) ==
    /\ Move(c, "leased", "waiting")
    /\ UNCHANGED Leases /\ UNCHANGED refusedAt

\* A valid start that authenticates; the lease is not told.
Authenticate(c) ==
    /\ Move(c, "waiting", "open")
    /\ UNCHANGED Leases /\ UNCHANGED refusedAt

\* A refused start, a deadline, a client that left; or the end of a stream.
Leave(c) ==
    /\ Move(c, "waiting", "leaving") \/ Move(c, "open", "leaving")
    /\ UNCHANGED Leases /\ UNCHANGED refusedAt

ReleaseTwice(c) ==
    /\ Move(c, "leaving", "away")
    /\ handshakeLease' = handshakeLease \ {c}
    /\ handshaking' = IF handshaking > 0 THEN handshaking - 1 ELSE handshaking
    /\ totalLease' = totalLease \ {c}
    /\ total' = IF total > 0 THEN total - 1 ELSE total
    /\ UNCHANGED refusedAt

\* release: only the phases this lease still holds.
Release(c) ==
    /\ Move(c, "leaving", "away")
    /\ handshakeLease' = handshakeLease \ {c}
    /\ handshaking' = IF c \in handshakeLease /\ handshaking > 0 THEN handshaking - 1
                                                                 ELSE handshaking
    /\ totalLease' = totalLease \ {c}
    /\ total' = IF c \in totalLease /\ total > 0 THEN total - 1 ELSE total
    /\ UNCHANGED refusedAt

Next == \E c \in Connections :
    \/ Acquire(c) \/ Refuse(c) \/ DropsBeforeAccept(c) \/ FinishHandshake(c)
    \/ Accept(c) \/ Authenticate(c) \/ Leave(c) \/ Release(c)

Spec == Init /\ [][Next]_vars

-----------------------------------------------------------------------------
\* The process-wide counters are what the connections' leases add up to: no
\* release ever gives back another connection's slot, or its own twice.
CountersMatchLeases ==
    /\ handshaking = Cardinality(handshakeLease)
    /\ total = Cardinality(totalLease)
    /\ totalLease = {c \in Connections : phase[c] # "away"}

\* "Released the moment a connection authenticates (or is refused), so it does
\* not double as a connection cap": a connection is turned away only when the
\* limit of unauthenticated ones, or of all of them, is reached.
RefusedAtABoundOnly ==
    (\E c \in Connections : refusedAt[c] # "away") =>
        \/ Cardinality({c \in Connections : refusedAt[c] \in {"leased", "waiting", "early"}})
               >= HandshakeLimit
        \/ Cardinality({c \in Connections : refusedAt[c] # "away"}) >= TotalLimit
=============================================================================
