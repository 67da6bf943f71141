----------------------------- MODULE AssetCache -----------------------------
(* The per-user cache of pinned files that every process on the machine shares *)
(* (core/whistle_assets.py, core/streaming_assets.py): the engine's binary and *)
(* model, the streaming library.  A caller needs some of them, in an order; a  *)
(* file in the cache is verified and handed out, a missing one is fetched to a *)
(* temporary file, verified there, and renamed to its place.  No lock is taken. *)
(* An operator may seed the cache by a plain copy.                             *)
(*                                                                            *)
(* Of a file only this matters: there is none, its bytes are the pinned ones,  *)
(* or they are not.                                                            *)
EXTENDS Naturals, Sequences

CONSTANTS
    Assets,
    Callers,
    Needs,          \* of each caller: the sequence of assets it resolves
    Seeders,
    Nothing

VARIABLES
    file,       \* of each asset: what lies under its name in the cache
    pc,         \* of each caller and seeder
    at,         \* of each caller: how many assets it has resolved
    temp,       \* of each caller: the bytes in its temporary file, or Nothing
    seeded      \* of each seeder: the asset it copies or left half copied, or Nothing

vars == <<file, pc, at, temp, seeded>>

Init ==
    /\ file = [a \in Assets |-> "none"]
    /\ pc = [x \in Callers \cup Seeders |-> "idle"]
    /\ at = [c \in Callers |-> 0]
    /\ temp = [c \in Callers |-> Nothing]
    /\ seeded = [s \in Seeders |-> Nothing]

Go(x, from, to) == pc[x] = from /\ pc' = [pc EXCEPT ![x] = to]

Asset(c) == Needs[c][at[c] + 1]

\* The asset is resolved: the next one, or the end.
Resolved(c, from) ==
    /\ Go(c, from, IF at[c] + 1 = Len(Needs[c]) THEN "served" ELSE "idle")
    /\ at' = [at EXCEPT ![c] = @ + 1]

(* A caller *****************************************************************)

\* A file in the cache is verified, and refused when it is not the pinned one,
\* offline or not.
TakeCached(c) ==
    /\ pc[c] = "idle" /\ file[Asset(c)] = "pinned"
    /\ Resolved(c, "idle")
    /\ UNCHANGED <<file, temp, seeded>>

RefuseCached(c) ==
    /\ pc[c] = "idle" /\ file[Asset(c)] = "other"
    /\ pc' = [pc EXCEPT ![c] = "refused"]
    /\ UNCHANGED <<file, at, temp, seeded>>

RefuseOffline(c) ==
    /\ pc[c] = "idle" /\ file[Asset(c)] = "none"
    /\ pc' = [pc EXCEPT ![c] = "offline"]
    /\ UNCHANGED <<file, at, temp, seeded>>

\* The download ends with bytes on disk: whole, cut short, or changed under way.
Fetch(c) ==
    /\ pc[c] = "idle" /\ file[Asset(c)] = "none"
    /\ pc' = [pc EXCEPT ![c] = "fetched"]
    /\ \E bytes \in {"pinned", "other"} : temp' = [temp EXCEPT ![c] = bytes]
    /\ UNCHANGED <<file, at, seeded>>

\* A timeout, the size cap or a lost connection; or bytes that do not verify.
FetchFails(c) ==
    /\ \/ pc[c] = "idle" /\ file[Asset(c)] = "none"
       \/ pc[c] = "fetched" /\ temp[c] = "other"
    /\ pc' = [pc EXCEPT ![c] = "failed"]
    /\ temp' = [temp EXCEPT ![c] = Nothing]
    /\ UNCHANGED <<file, at, seeded>>

\* (mutant: renamed first and verified in its place)
RenameUnverified(c) ==
    /\ pc[c] = "fetched"
    /\ file' = [file EXCEPT ![Asset(c)] = temp[c]]
    /\ temp' = [temp EXCEPT ![c] = Nothing]
    /\ pc' = [pc EXCEPT ![c] = IF temp[c] = "pinned" THEN "renamed" ELSE "refused"]
    /\ UNCHANGED <<at, seeded>>

\* Whatever has appeared in its place meanwhile is replaced.
Rename(c) ==
    /\ temp[c] = "pinned" /\ Go(c, "fetched", "renamed")
    /\ file' = [file EXCEPT ![Asset(c)] = "pinned"]
    /\ temp' = [temp EXCEPT ![c] = Nothing]
    /\ UNCHANGED <<at, seeded>>

\* The permission to run it, where it needs one.
AllowRun(c) ==
    /\ Resolved(c, "renamed")
    /\ UNCHANGED <<file, temp, seeded>>

Die(c) ==
    /\ pc[c] \in {"fetched", "renamed"}
    /\ pc' = [pc EXCEPT ![c] = "dead"]
    /\ temp' = [temp EXCEPT ![c] = Nothing]
    /\ UNCHANGED <<file, at, seeded>>

(* A seeder *****************************************************************)

\* The source has been verified; the copy truncates the file and fills it.
SeedBegins(s, a) ==
    /\ Go(s, "idle", "copying")
    /\ seeded' = [seeded EXCEPT ![s] = a]
    /\ file' = [file EXCEPT ![a] = "other"]
    /\ UNCHANGED <<at, temp>>

SeedEnds(s) ==
    /\ Go(s, "copying", "idle")
    /\ file' = [file EXCEPT ![seeded[s]] = "pinned"]
    /\ seeded' = [seeded EXCEPT ![s] = Nothing]
    /\ UNCHANGED <<at, temp>>

\* It dies, or the disk is full.
SeedStops(s) ==
    /\ Go(s, "copying", "dead")
    /\ UNCHANGED <<file, at, temp, seeded>>

Next ==
    \/ \E c \in Callers :
          \/ TakeCached(c) \/ RefuseCached(c) \/ RefuseOffline(c)
          \/ Fetch(c) \/ FetchFails(c) \/ Rename(c) \/ AllowRun(c) \/ Die(c)
    \/ \E s \in Seeders :
          \/ \E a \in Assets : SeedBegins(s, a)
          \/ SeedEnds(s) \/ SeedStops(s)

(* Properties ***************************************************************)

UnderSeeding == {seeded[s] : s \in Seeders}

\* Whatever downloads are cut short, die or overtake each other, a file under its
\* final name is the pinned one, and what a caller has resolved it finds there;
\* only a copy that is under way or broke off spoils a file.
CachedIsPinned ==
    /\ \A a \in Assets : file[a] = "other" => a \in UnderSeeding
    /\ \A c \in Callers : \A i \in 1..at[c] :
          Needs[c][i] \notin UnderSeeding => file[Needs[c][i]] = "pinned"
=============================================================================
