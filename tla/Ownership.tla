------------------------------ MODULE Ownership ------------------------------
(* One UI process per database (ui/ownership.py) and the launch that relies on *)
(* it (ui/launcher.py): an OS lock on a file that is never removed, the        *)
(* holder's identity in that file, and a record with its URL beside it.  A     *)
(* launch may fail at every step and a process may die at every step; the OS   *)
(* then frees its lock, and nothing else.                                      *)
(*                                                                            *)
(* A process launches at most once; a reader stands for discover_running.      *)
EXTENDS FiniteSets

CONSTANTS
    Procs,      \* the launches
    Readers,    \* the discoveries
    Nobody

VARIABLES
    pc,         \* of each process and reader
    lock,       \* who holds the OS lock: a process, a reader that probes, or Nobody
    identity,   \* the identity in the lock file: of a process, or Nobody
    record,     \* [owner, url] beside it: an identity and whose URL; or NoRecord
    published,  \* the processes whose record went out with their identity
    probe       \* of each reader: who had the lock since it began, the identity it
                \* read and whose lock it was then, and the record it answered with

vars == <<pc, lock, identity, record, published, probe>>

NoRecord == [owner |-> Nobody, url |-> Nobody]
Unasked == [owners |-> {}, seen |-> Nobody, holder |-> Nobody, answer |-> NoRecord]

Init ==
    /\ pc = [x \in Procs \cup Readers |-> "idle"]
    /\ lock = Nobody /\ identity = Nobody /\ record = NoRecord
    /\ published = {}
    /\ probe = [r \in Readers |-> Unasked]

Serving == {p \in Procs : pc[p] = "serving"}

UnderWay(r) == pc[r] \in {"held", "identified", "matched"}

Go(x, from, to) == pc[x] = from /\ pc' = [pc EXCEPT ![x] = to]

(* A launch *****************************************************************)

TakeLock(p) ==
    /\ Go(p, "idle", "locked") /\ lock = Nobody
    /\ lock' = p
    /\ probe' = [r \in Readers |->
                    [probe[r] EXCEPT !.owners = IF UnderWay(r) THEN @ \cup {p} ELSE @]]
    /\ UNCHANGED <<identity, record, published>>

\* The lock is held, by an owner or by a discovery that probes it.
Refuse(p) ==
    /\ Go(p, "idle", "refused") /\ lock # Nobody
    /\ UNCHANGED <<lock, identity, record, published, probe>>

\* The identity of the acquisition; a write that fails leaves the old one.
WriteIdentity(p) ==
    /\ Go(p, "locked", "owner")
    /\ identity' \in {p, identity}
    /\ UNCHANGED <<lock, record, published, probe>>

\* No free port, no app, or no streaming extra: the launch ends, and its
\* finally releases the lock.
GiveUp(p) ==
    /\ Go(p, "owner", "releasing")
    /\ UNCHANGED <<lock, identity, record, published, probe>>

\* The record, if it can be written, and then the server. A launch whose
\* identity was not written records none.
Publish(p) ==
    /\ Go(p, "owner", "serving")
    /\ \/ /\ record' = [owner |-> IF identity = p THEN p ELSE Nobody, url |-> p]
          /\ published' = published \cup ({p} \cap {identity})
       \/ UNCHANGED <<record, published>>
    /\ UNCHANGED <<lock, identity, probe>>

\* The server returns, by a stop request, an interrupt or a failure.
StopServing(p) ==
    /\ Go(p, "serving", "releasing")
    /\ UNCHANGED <<lock, identity, record, published, probe>>

(* The release: record, identity, lock ***************************************)

\* (mutant: the lock goes first, and the record is removed afterwards)
UnlockThenRemove(p) ==
    \/ /\ Go(p, "releasing", "unlocked") /\ lock' = Nobody
       /\ UNCHANGED <<identity, record, published, probe>>
    \/ /\ Go(p, "unlocked", "over") /\ record' = NoRecord
       /\ UNCHANGED <<lock, identity, published, probe>>

RemoveRecord(p) ==
    /\ Go(p, "releasing", "unrecorded")
    /\ record' = NoRecord
    /\ UNCHANGED <<lock, identity, published, probe>>

ClearIdentity(p) ==
    /\ Go(p, "unrecorded", "cleared")
    /\ identity' \in {Nobody, identity}
    /\ UNCHANGED <<lock, record, published, probe>>

Unlock(p) ==
    /\ Go(p, "cleared", "over")
    /\ lock' = Nobody
    /\ UNCHANGED <<identity, record, published, probe>>

Die(p) ==
    /\ pc[p] \notin {"idle", "refused", "over", "dead"}
    /\ pc' = [pc EXCEPT ![p] = "dead"]
    /\ lock' = IF lock = p THEN Nobody ELSE lock
    /\ UNCHANGED <<identity, record, published, probe>>

(* A discovery ***************************************************************)

\* The probe takes the lock where it can, which says that nobody has it, and
\* gives it back; a launch in between is refused by the probe.
ProbeFree(r) ==
    /\ Go(r, "idle", "probing") /\ lock = Nobody
    /\ lock' = r
    /\ UNCHANGED <<identity, record, published, probe>>

ProbeEnds(r) ==
    /\ Go(r, "probing", "answered") /\ lock = r
    /\ lock' = Nobody
    /\ UNCHANGED <<identity, record, published, probe>>

ProbeHeld(r) ==
    /\ Go(r, "idle", "held") /\ lock # Nobody
    /\ probe' = [probe EXCEPT ![r].owners = {lock}]
    /\ UNCHANGED <<lock, identity, record, published>>

ReadIdentity(r) ==
    /\ pc[r] = "held"
    /\ pc' = [pc EXCEPT ![r] = IF identity = Nobody THEN "answered" ELSE "identified"]
    /\ probe' = [probe EXCEPT ![r].seen = identity, ![r].holder = lock]
    /\ UNCHANGED <<lock, identity, record, published>>

MatchRecord(r) ==
    /\ pc[r] = "identified"
    /\ pc' = [pc EXCEPT ![r] = IF record.owner = probe[r].seen THEN "matched" ELSE "answered"]
    /\ UNCHANGED <<lock, identity, record, published, probe>>

\* The record is read again, for its URL.
AnswerUrl(r) ==
    /\ Go(r, "matched", "answered")
    /\ probe' = [probe EXCEPT ![r].answer = record]
    /\ UNCHANGED <<lock, identity, record, published>>

Next ==
    \/ \E p \in Procs :
          \/ TakeLock(p) \/ Refuse(p) \/ WriteIdentity(p) \/ GiveUp(p)
          \/ Publish(p) \/ StopServing(p) \/ RemoveRecord(p) \/ ClearIdentity(p)
          \/ Unlock(p) \/ Die(p)
    \/ \E r \in Readers :
          \/ ProbeFree(r) \/ ProbeEnds(r) \/ ProbeHeld(r) \/ ReadIdentity(r)
          \/ MatchRecord(r) \/ AnswerUrl(r)

(* Properties ***************************************************************)

\* The record and the identity beside the lock of a process that serves stay its
\* own: neither the process it followed nor one it refused takes them away.
ServingIsDiscoverable ==
    \A p \in Serving \cap published : lock = p /\ identity = p /\ record.owner = p

\* A discovery that read the identity of the lock's holder answers with the URL
\* of a process that had the lock since it began, however launches end, die and
\* follow each other between its four reads.
DiscoveredIsHolder ==
    \A r \in Readers :
        probe[r].answer # NoRecord /\ probe[r].seen = probe[r].holder =>
            probe[r].answer.url \in probe[r].owners

\* Who serves is found, and who is found serves or did when the search began.
DiscoveryIsExact == ServingIsDiscoverable /\ DiscoveredIsHolder
=============================================================================
