----------------------------- MODULE MCServices -----------------------------
(* The parts of a process that hold no state in common, side by side for TLC:  *)
(* its default pool, the ownership of its database, the proofreading of its    *)
(* transcripts, its cache of assets, its engines, the decode of a source, the  *)
(* counters of its requests and the page it serves.  A behaviour is a          *)
(* behaviour of one of them; the others stay as they begin.                    *)
EXTENDS DefaultExecutor, Sequences

CONSTANTS
    Launches, Discoveries, Nobody,
    Servers, Transcripts, Total, Request, Grace, MaxText, Horizon,
    Words, Marks, Guess, Longest, MaxEdit, MaxPieces, MaxSpans,
    Installers, Seeders, Nothing,
    Users, Unset, Free, Slots, MaxBuilt,
    MaxChunks, LongestSource, Pipe, Absent,
    Peers, Rate, Capacity, Ttl, LastTick,
    Files, Urls, Queries, MaxActs

\* Names that stand for nothing are no values, and a deadline leaves time to write.
ASSUME ServicesAssumption ==
    /\ Launches \cap Discoveries = {} /\ Nobody \notin Launches \cup Discoveries
    /\ Total \in Nat /\ Request \in Nat /\ Grace \in Nat \ {0}
    /\ Installers \cap Seeders = {}
    /\ Nothing \notin {"model", "binary"} \cup Files \cup Urls
    /\ Free \notin Users /\ Slots \in Nat \ {0} /\ MaxBuilt \in Nat
    /\ Longest \in Nat /\ MaxEdit \in Nat /\ MaxPieces \in Nat /\ MaxSpans \in Nat
    /\ MaxChunks \in Nat /\ LongestSource \in Nat /\ Absent \notin Nat
    /\ Ttl \in Nat /\ LastTick \in Nat

VARIABLES
    part,
    launch, lock, identity, record, published, probe,
    clock, text, row, run,
    script, spans, result,
    file, install, resolved, temp, seeded,
    engine, entries, loads, engineLock, user, mine,
    length, decoder, child, emitted, pipe, reader, failed, out, stop, late,
    now, buckets, nextExpiry, refused,
    source, media, submission, watched, card, rows, hits, query, searchGen,
    polls, timers, latest, calls, panel, acts

Parts == {"pools", "ownership", "cleanup", "proofreading", "cache", "engines", "decode",
          "rate", "page"}

O == INSTANCE Ownership WITH Procs <- Launches, Readers <- Discoveries, pc <- launch

T == INSTANCE TranscriptCleanup WITH Procs <- Servers, Jobs <- Transcripts

P == INSTANCE Proofreading

A == INSTANCE AssetCache WITH
         Assets <- {"model", "binary"},
         Callers <- Installers, Needs <- [c \in Installers |-> <<"model", "binary">>],
         pc <- install, at <- resolved

\* Two spellings of one configuration, a lazy engine in two sizes, and Whistle.
SomeAsked ==
    {[name |-> "whisper", model |-> Unset], [name |-> "openai-whisper", model |-> "small"],
     [name |-> "faster-whisper", model |-> Unset], [name |-> "faster-whisper", model |-> "tiny"],
     [name |-> "default", model |-> Unset]}

E == INSTANCE EngineCache WITH
         Asked <- SomeAsked, built <- engine, cached <- entries, lock <- engineLock,
         pc <- user

D == INSTANCE Decoding WITH Longest <- LongestSource, caller <- decoder

R == INSTANCE RequestRate

W == INSTANCE Workspace

ownership == <<launch, lock, identity, record, published, probe>>
cleanup == <<clock, text, row, run>>
proof == <<script, spans, result>>
cache == <<file, install, resolved, temp, seeded>>
engines == <<engine, entries, loads, engineLock, user, mine>>
decode == <<length, decoder, child, emitted, pipe, reader, failed, out, stop, late>>
rate == <<now, buckets, nextExpiry, refused>>
page == <<source, media, submission, watched, card, rows, hits, query, searchGen,
          polls, timers, latest, calls, panel, acts>>
all == <<part, vars, ownership, cleanup, proof, cache, engines, decode, rate, page>>

AllInit ==
    /\ part \in Parts
    /\ Init /\ O!Init /\ T!Init /\ A!Init /\ E!Init /\ D!Init /\ R!Init /\ W!Init
    /\ IF part = "proofreading" THEN P!Init
       ELSE script = <<>> /\ spans = <<>> /\ result = P!Pending

AllNext ==
    /\ UNCHANGED part
    /\ \/ /\ part = "pools" /\ Next
          /\ UNCHANGED <<ownership, cleanup, proof, cache, engines, decode, rate, page>>
       \/ /\ part = "ownership" /\ O!Next
          /\ UNCHANGED <<vars, cleanup, proof, cache, engines, decode, rate, page>>
       \/ /\ part = "cleanup" /\ T!Next
          /\ UNCHANGED <<vars, ownership, proof, cache, engines, decode, rate, page>>
       \/ /\ part = "proofreading" /\ P!Next
          /\ UNCHANGED <<vars, ownership, cleanup, cache, engines, decode, rate, page>>
       \/ /\ part = "cache" /\ A!Next
          /\ UNCHANGED <<vars, ownership, cleanup, proof, engines, decode, rate, page>>
       \/ /\ part = "engines" /\ E!Next
          /\ UNCHANGED <<vars, ownership, cleanup, proof, cache, decode, rate, page>>
       \/ /\ part = "decode" /\ D!Next
          /\ UNCHANGED <<vars, ownership, cleanup, proof, cache, engines, rate, page>>
       \/ /\ part = "rate" /\ R!Next
          /\ UNCHANGED <<vars, ownership, cleanup, proof, cache, engines, decode, page>>
       \/ /\ part = "page" /\ W!Next
          /\ UNCHANGED <<vars, ownership, cleanup, proof, cache, engines, decode, rate>>

AllSpec == AllInit /\ [][AllNext]_all

DiscoveryIsExact == O!DiscoveryIsExact
OneCleanupAtATime == T!OneCleanupAtATime
ShownIsOfThisText == T!ShownIsOfThisText
UnsureSpansStand == P!UnsureSpansStand
CachedIsPinned == A!CachedIsPinned
WholeOrNothing == D!WholeOrNothing
FullMeansLive == R!FullMeansLive
OneRunPerModel == E!OneRunPerModel
PageFollowsWatched == W!PageFollowsWatched
=============================================================================
