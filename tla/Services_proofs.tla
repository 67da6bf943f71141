--------------------------- MODULE Services_proofs ---------------------------
(***************************************************************************)
(* What the parts of a process promise for every value of their constants: *)
(* the cache of assets, the decode of a source, the ownership of a         *)
(* database, the cleanup of transcripts, the counters of requests, and     *)
(* the engines.  Each part has an inductive invariant of its own, which    *)
(* the steps of the other parts leave alone.                               *)
(***************************************************************************)
EXTENDS MCServices, SequenceInduction, FiniteSetTheorems

-----------------------------------------------------------------------------
(* The cache of assets: a file is spoiled only by a copy under way, and     *)
(* what a caller resolved does not vanish.                                  *)

Pinnables == {"model", "binary"}

\* Of a seeder: what it has begun to copy.
SeederInv(s) ==
    /\ install[s] \in {"idle", "copying", "dead"}
    /\ install[s] = "idle" => seeded[s] = Nothing
    /\ install[s] = "copying" => seeded[s] \in Pinnables

\* Of a caller: what it has resolved, and what it has just put in its place.
Wanted == <<"model", "binary">>

CallerInv(c) ==
    /\ resolved[c] \in 0..2
    /\ install[c] \in {"idle", "fetched", "renamed"} => resolved[c] < 2
    /\ \A i \in 1..resolved[c] : file[Wanted[i]] # "none"
    /\ install[c] = "renamed" => file[Wanted[resolved[c] + 1]] # "none"

CacheInv ==
    /\ file \in [Pinnables -> {"none", "pinned", "other"}]
    /\ install \in [Installers \cup Seeders ->
           {"idle", "fetched", "renamed", "served", "refused", "offline", "failed",
            "dead", "copying"}]
    /\ resolved \in [Installers -> 0..2]
    /\ temp \in [Installers -> {"pinned", "other", Nothing}]
    /\ seeded \in [Seeders -> Pinnables \cup {Nothing}]
    /\ \A s \in Seeders : SeederInv(s)
    /\ \A c \in Installers : CallerInv(c)
    /\ \A a \in Pinnables : file[a] = "other" => \E s \in Seeders : seeded[s] = a

\* Nothing is cached at first.
LEMMA CacheInit == A!Init => CacheInv
  BY ServicesAssumption
     DEF A!Init, CacheInv, SeederInv, CallerInv, Pinnables, Wanted, ServicesAssumption

\* A caller's step spoils nothing and takes nothing away.
LEMMA InstallerStep ==
    ASSUME CacheInv, NEW c \in Installers,
           \/ A!TakeCached(c) \/ A!RefuseCached(c) \/ A!RefuseOffline(c)
           \/ A!Fetch(c) \/ A!FetchFails(c) \/ A!Rename(c) \/ A!AllowRun(c) \/ A!Die(c)
    PROVE  CacheInv'
<1>0. /\ c \notin Seeders /\ CallerInv(c) /\ resolved[c] \in 0..2
      /\ Installers \cap Seeders = {}
  BY ServicesAssumption DEF CacheInv, ServicesAssumption
<1>1. ASSUME NEW q \in {"idle", "fetched", "renamed", "served", "refused", "offline",
                        "failed", "dead"},
             install' = [install EXCEPT ![c] = q], UNCHANGED <<file, resolved, seeded>>,
             temp' \in [Installers -> {"pinned", "other", Nothing}],
             q \in {"idle", "fetched", "renamed"} => resolved[c] < 2,
             q # "renamed"
      PROVE  CacheInv'
  BY <1>0, <1>1 DEF CacheInv, SeederInv, CallerInv, Pinnables
<1>2. CASE A!RefuseCached(c) \/ A!RefuseOffline(c)
  BY <1>1, <1>2 DEF A!RefuseCached, A!RefuseOffline, CacheInv
<1>3. CASE A!Fetch(c) \/ A!FetchFails(c) \/ A!Die(c)
  <2>1. temp' \in [Installers -> {"pinned", "other", Nothing}]
    BY <1>3 DEF A!Fetch, A!FetchFails, A!Die, CacheInv
  <2> QED
    BY <1>0, <1>1, <1>3, <2>1 DEF A!Fetch, A!FetchFails, A!Die, CallerInv
<1>4. CASE A!Rename(c)
  <2> DEFINE a == Wanted[resolved[c] + 1]
  <2>1. /\ install[c] = "fetched" /\ install' = [install EXCEPT ![c] = "renamed"]
        /\ file' = [file EXCEPT ![a] = "pinned"]
        /\ temp' = [temp EXCEPT ![c] = Nothing]
        /\ UNCHANGED <<resolved, seeded>>
    BY <1>4 DEF A!Rename, A!Go, A!Asset, Wanted
  <2>2. resolved[c] \in {0, 1} /\ a \in Pinnables
    BY <1>0, <2>1 DEF CallerInv, Pinnables, Wanted
  <2> HIDE DEF a
  <2>3. file'[a] = "pinned" /\ \A b \in Pinnables : b # a => file'[b] = file[b]
    BY <2>1, <2>2 DEF CacheInv
  <2>4. \A i \in {1, 2} : Wanted[i] \in Pinnables
    BY DEF Pinnables, Wanted
  <2>5. \A b \in Installers : CallerInv(b)'
    <3> TAKE b \in Installers
    <3>1. CASE b = c
      BY <1>0, <2>1, <2>2, <2>3, <2>4, <3>1 DEF CacheInv, CallerInv, a, Wanted
    <3>2. CASE b # c
      BY <1>0, <2>1, <2>2, <2>3, <2>4, <3>2 DEF CacheInv, CallerInv, Wanted
    <3> QED
      BY <3>1, <3>2
  <2>6. \A s \in Seeders : SeederInv(s)'
    BY <1>0, <2>1 DEF CacheInv, SeederInv
  <2> QED
    BY <2>1, <2>2, <2>3, <2>5, <2>6 DEF CacheInv
<1>5. CASE A!TakeCached(c) \/ A!AllowRun(c)
  <2> DEFINE q == IF resolved[c] + 1 = 2 THEN "served" ELSE "idle"
  <2>1. /\ install[c] \in {"idle", "renamed"} /\ install' = [install EXCEPT ![c] = q]
        /\ resolved' = [resolved EXCEPT ![c] = @ + 1]
        /\ UNCHANGED <<file, temp, seeded>>
        /\ file[Wanted[resolved[c] + 1]] = "pinned" \/ install[c] = "renamed"
    BY <1>5 DEF A!TakeCached, A!AllowRun, A!Resolved, A!Go, A!Asset, Wanted
  <2>2. resolved[c] \in {0, 1} /\ file[Wanted[resolved[c] + 1]] # "none"
    BY <1>0, <2>1 DEF CallerInv, Wanted
  <2>3. \A b \in Installers : CallerInv(b)'
    <3> TAKE b \in Installers
    <3>1. CASE b = c
      BY <1>0, <2>1, <2>2, <3>1 DEF CacheInv, CallerInv, Wanted
    <3>2. CASE b # c
      BY <2>1, <3>2 DEF CacheInv, CallerInv, Wanted
    <3> QED
      BY <3>1, <3>2
  <2>4. \A s \in Seeders : SeederInv(s)'
    BY <1>0, <2>1 DEF CacheInv, SeederInv
  <2> QED
    BY <2>1, <2>2, <2>3, <2>4 DEF CacheInv
<1> QED
  BY <1>2, <1>3, <1>4, <1>5

\* A copy spoils the file it fills, until it is done.
LEMMA SeederStep ==
    ASSUME CacheInv, NEW s \in Seeders,
           \/ \E a \in Pinnables : A!SeedBegins(s, a)
           \/ A!SeedEnds(s) \/ A!SeedStops(s)
    PROVE  CacheInv'
<1>0. /\ s \notin Installers /\ SeederInv(s) /\ Installers \cap Seeders = {}
      /\ Nothing \notin Pinnables /\ \A i \in {1, 2} : Wanted[i] \in Pinnables
  BY ServicesAssumption DEF CacheInv, ServicesAssumption, Pinnables, Wanted
<1>1. ASSUME NEW a \in Pinnables, NEW b \in {"pinned", "other"},
             file' = [file EXCEPT ![a] = b]
      PROVE  \A d \in Pinnables : /\ file[d] # "none" => file'[d] # "none"
                                  /\ d # a => file'[d] = file[d]
                                  /\ file'[a] = b
  BY <1>1 DEF CacheInv
<1>2. ASSUME UNCHANGED resolved, \A d \in Pinnables : file[d] # "none" => file'[d] # "none",
             \A c \in Installers : install'[c] = install[c]
      PROVE  \A c \in Installers : CallerInv(c)'
  <2> TAKE c \in Installers
  <2>1. resolved[c] \in 0..2 /\ CallerInv(c)
    BY DEF CacheInv
  <2>2. \A i \in 1..resolved[c] : i \in {1, 2}
    BY <2>1
  <2>3. install[c] = "renamed" => resolved[c] + 1 \in {1, 2}
    BY <2>1 DEF CallerInv
  <2> QED
    BY <1>0, <1>2, <2>1, <2>2, <2>3 DEF CallerInv
<1>3. ASSUME NEW a \in Pinnables, A!SeedBegins(s, a) PROVE CacheInv'
  <2>1. /\ install[s] = "idle" /\ install' = [install EXCEPT ![s] = "copying"]
        /\ seeded' = [seeded EXCEPT ![s] = a] /\ file' = [file EXCEPT ![a] = "other"]
        /\ UNCHANGED <<resolved, temp>>
    BY <1>3 DEF A!SeedBegins, A!Go
  <2>2. \A c \in Installers : CallerInv(c)'
    BY <1>0, <1>1, <1>2, <2>1 DEF CacheInv
  <2>3. \A t \in Seeders : SeederInv(t)'
    BY <2>1 DEF CacheInv, SeederInv
  <2>4. \A d \in Pinnables : file'[d] = "other" => \E t \in Seeders : seeded'[t] = d
    <3> SUFFICES ASSUME NEW d \in Pinnables, file'[d] = "other"
                 PROVE  \E t \in Seeders : seeded'[t] = d
      OBVIOUS
    <3>1. CASE d = a
      BY <2>1, <3>1 DEF CacheInv
    <3>2. CASE d # a
      <4>1. file[d] = "other"
        BY <2>1, <3>2 DEF CacheInv
      <4>2. PICK t \in Seeders : seeded[t] = d
        BY <4>1 DEF CacheInv
      <4>3. t # s
        BY <1>0, <2>1, <4>2 DEF SeederInv
      <4> QED
        BY <2>1, <4>2, <4>3 DEF CacheInv
    <3> QED
      BY <3>1, <3>2
  <2> QED
    BY <2>1, <2>2, <2>3, <2>4 DEF CacheInv
<1>4. CASE A!SeedEnds(s)
  <2> DEFINE a == seeded[s]
  <2>1. /\ install[s] = "copying" /\ install' = [install EXCEPT ![s] = "idle"]
        /\ seeded' = [seeded EXCEPT ![s] = Nothing] /\ file' = [file EXCEPT ![a] = "pinned"]
        /\ UNCHANGED <<resolved, temp>> /\ a \in Pinnables
    BY <1>0, <1>4 DEF A!SeedEnds, A!Go, SeederInv
  <2> HIDE DEF a
  <2>2. \A c \in Installers : CallerInv(c)'
    BY <1>0, <1>1, <1>2, <2>1 DEF CacheInv
  <2>3. \A t \in Seeders : SeederInv(t)'
    BY <2>1 DEF CacheInv, SeederInv
  <2>4. \A d \in Pinnables : file'[d] = "other" => \E t \in Seeders : seeded'[t] = d
    <3> SUFFICES ASSUME NEW d \in Pinnables, file'[d] = "other"
                 PROVE  \E t \in Seeders : seeded'[t] = d
      OBVIOUS
    <3>1. d # a /\ file[d] = "other"
      BY <1>1, <2>1 DEF CacheInv
    <3>2. PICK t \in Seeders : seeded[t] = d
      BY <3>1 DEF CacheInv
    <3> QED
      BY <2>1, <3>1, <3>2 DEF CacheInv, a
  <2> QED
    BY <2>1, <2>2, <2>3, <2>4 DEF CacheInv
<1>5. CASE A!SeedStops(s)
  <2>1. /\ install[s] = "copying" /\ install' = [install EXCEPT ![s] = "dead"]
        /\ UNCHANGED <<file, resolved, temp, seeded>>
    BY <1>5 DEF A!SeedStops, A!Go
  <2>2. \A c \in Installers : CallerInv(c)'
    BY <1>0, <1>2, <2>1 DEF CacheInv
  <2> QED
    BY <2>1, <2>2 DEF CacheInv, SeederInv
<1> QED
  BY <1>3, <1>4, <1>5

\* Whatever downloads are cut short, die or overtake each other, a file under its
\* final name is the pinned one, and a caller finds what it resolved; only a copy
\* that is under way or broke off spoils a file.
THEOREM CacheHoldsPinnedFiles == AllSpec => []CachedIsPinned
<1>1. AllInit => CacheInv
  BY CacheInit DEF AllInit
<1>2. CacheInv /\ [AllNext]_all => CacheInv'
  <2>1. ASSUME CacheInv, A!Next PROVE CacheInv'
    <3>1. CASE \E c \in Installers :
                  \/ A!TakeCached(c) \/ A!RefuseCached(c) \/ A!RefuseOffline(c)
                  \/ A!Fetch(c) \/ A!FetchFails(c) \/ A!Rename(c) \/ A!AllowRun(c)
                  \/ A!Die(c)
      BY <2>1, <3>1, InstallerStep
    <3>2. CASE \E s \in Seeders : \/ \E a \in Pinnables : A!SeedBegins(s, a)
                                \/ A!SeedEnds(s) \/ A!SeedStops(s)
      BY <2>1, <3>2, SeederStep
    <3> QED
      BY <2>1, <3>1, <3>2 DEF A!Next, Pinnables
  <2>2. CacheInv /\ UNCHANGED cache => CacheInv'
    BY DEF cache, CacheInv, SeederInv, CallerInv
  <2> QED
    BY <2>1, <2>2 DEF AllNext, all
<1>3. CacheInv => CachedIsPinned
  <2> SUFFICES ASSUME CacheInv PROVE CachedIsPinned
    OBVIOUS
  <2>1. \A c \in Installers : \A i \in 1..resolved[c] :
           Wanted[i] \in Pinnables /\ file[Wanted[i]] # "none"
    <3> TAKE c \in Installers
    <3> TAKE i \in 1..resolved[c]
    <3>1. i \in {1, 2} /\ file[Wanted[i]] # "none"
      BY DEF CacheInv, CallerInv
    <3> QED
      BY <3>1 DEF Wanted, Pinnables
  <2>2. \A a \in Pinnables : file[a] \in {"none", "pinned", "other"}
    BY DEF CacheInv
  <2>3. \A a \in Pinnables : file[a] = "other" => a \in A!UnderSeeding
    BY DEF CacheInv, A!UnderSeeding
  <2> QED
    BY <2>1, <2>2, <2>3 DEF CachedIsPinned, A!CachedIsPinned, Wanted, Pinnables
<1> QED
  BY <1>1, <1>2, <1>3, PTL DEF AllSpec

-----------------------------------------------------------------------------
(* The decode of a source: no chunk is lost between the child, the pipe and  *)
(* the file unless a failure of the thread says so.                          *)

\* What came out of the child is in the file or in the pipe.
Accounted ==
    /\ decoder = "asked" => emitted = 0 /\ pipe = 0
    /\ reader = "unborn" => decoder \in {"asked", "raised"} /\ out = Absent
    /\ reader = "opening" => out = Absent /\ emitted = pipe
    /\ reader = "reading" => out \in 0..MaxChunks
    /\ reader \in {"reading", "over"} /\ ~ failed => out = Absent \/ emitted = out + pipe

\* Where the child, its thread and the caller are, of one another.
Placed ==
    /\ reader = "unborn" <=> child = "unborn"
    /\ decoder = "asked" => child = "unborn"
    /\ child = "well" => emitted = length
    /\ reader = "over" /\ ~ failed => D!Over /\ pipe = 0
    /\ decoder \in {"polling", "checking", "joined", "killing", "reaping", "returned"} =>
           child # "unborn"
    /\ decoder \in {"joined", "reaping", "returned"} => D!Over
    /\ decoder \in {"joined", "returned"} => reader = "over"
    /\ decoder = "returned" => ~ failed /\ child = "well" /\ out # Absent
    /\ decoder = "raised" =>
           out = Absent /\ child # "running" /\ reader \in {"unborn", "over"}

DecodeInv ==
    /\ length \in Nat /\ emitted \in Nat /\ pipe \in Nat
    /\ out \in 0..MaxChunks \cup {Absent}
    /\ decoder \in {"asked", "polling", "checking", "joined", "killing", "reaping",
                    "returned", "raised"}
    /\ child \in {"unborn", "running", "well", "badly"}
    /\ reader \in {"unborn", "opening", "reading", "over"}
    /\ failed \in BOOLEAN
    /\ Accounted /\ Placed

\* A step of the child, of the thread that reads it, or of its caller.
LEMMA DecodeStep == ASSUME DecodeInv, D!Next PROVE DecodeInv'
<1> USE ServicesAssumption DEF ServicesAssumption, DecodeInv, Accounted, Placed, D!Over
<1>1. CASE D!Emit
  BY <1>1 DEF D!Emit
<1>2. CASE D!Exit
  BY <1>2 DEF D!Exit
<1>3. CASE D!Cancel \/ D!Deadline
  BY <1>3 DEF D!Cancel, D!Deadline
<1>4. CASE D!OpenFile
  <2>1. reader = "opening" /\ out = Absent /\ emitted = pipe
    BY <1>4 DEF D!OpenFile
  <2>2. CASE out' = 0 /\ reader' = "reading"
             /\ UNCHANGED <<length, decoder, child, emitted, pipe, failed, stop, late>>
    BY <2>1, <2>2
  <2>3. CASE D!ReaderFails /\ UNCHANGED <<pipe, out>>
    BY <2>1, <2>3 DEF D!ReaderFails
  <2> QED
    BY <1>4, <2>2, <2>3 DEF D!OpenFile
<1>5. CASE D!MoveChunk
  <2>1. reader = "reading" /\ pipe > 0 /\ pipe' = pipe - 1
    BY <1>5 DEF D!MoveChunk
  <2>2. CASE out < MaxChunks /\ out' = out + 1
             /\ UNCHANGED <<length, decoder, child, emitted, reader, failed, stop, late>>
    BY <2>1, <2>2
  <2>3. CASE D!ReaderFails /\ UNCHANGED out
    BY <2>1, <2>3 DEF D!ReaderFails
  <2> QED
    BY <1>5, <2>2, <2>3 DEF D!MoveChunk
<1>6. CASE D!EndOfPipe
  BY <1>6 DEF D!EndOfPipe
<1>7. CASE D!NotStarted \/ D!Launch
  BY <1>7 DEF D!NotStarted, D!Launch, D!CallerGoes
<1>8. CASE D!Poll \/ D!Check
  BY <1>8 DEF D!Poll, D!Check, D!CallerGoes
<1>9. CASE D!Conclude \/ D!Kill
  BY <1>9 DEF D!Conclude, D!Kill, D!CallerGoes
<1>10. CASE D!Discard
  BY <1>10 DEF D!Discard
<1> QED
  BY <1>1, <1>2, <1>3, <1>4, <1>5, <1>6, <1>7, <1>8, <1>9, <1>10 DEF D!Next

\* A decode that returns hands over the whole source, within the limits; one that
\* raises leaves no child, no thread and no piece of audio behind.
THEOREM DecodeIsWholeOrNothing == AllSpec => []WholeOrNothing
<1>1. AllInit => DecodeInv
  <2>1. ASSUME D!Init PROVE DecodeInv
    <3>1. length \in Nat
      BY <2>1, ServicesAssumption DEF D!Init, ServicesAssumption
    <3>2. Accounted /\ Placed
      BY <2>1 DEF D!Init, Accounted, Placed, D!Over
    <3> QED
      BY <2>1, <3>1, <3>2 DEF D!Init, DecodeInv
  <2> QED
    BY <2>1 DEF AllInit
<1>2. DecodeInv /\ [AllNext]_all => DecodeInv'
  <2>1. DecodeInv /\ UNCHANGED decode => DecodeInv'
    BY DEF decode, DecodeInv, Accounted, Placed, D!Over
  <2> QED
    BY <2>1, DecodeStep DEF AllNext, all
<1>3. DecodeInv => WholeOrNothing
  BY DEF DecodeInv, Accounted, Placed, WholeOrNothing, D!WholeOrNothing, D!Over
<1> QED
  BY <1>1, <1>2, <1>3, PTL DEF AllSpec

-----------------------------------------------------------------------------
(* The cleanup of transcripts: the lease in a run's row outlasts the run, so *)
(* no other run starts while it is under way.                                *)

Runs == [at : {"idle", "next", "asking", "corrected"}, job : Transcripts \cup {0},
         hash : Int, deadline : Nat, until : Nat]

SidecarRows == [hash : Int, state : {"none", "running", "error", "done"},
                deadline : Nat, variant : Int]

\* The row a run writes is the one it opened, and the lease in it covers the
\* request under way, which may outlast the run's own limit.
Leased(p) ==
    /\ run[p].at # "idle" /\ run[p].job \in Transcripts
    /\ row[run[p].job].state = "running" /\ row[run[p].job].hash = run[p].hash
    /\ row[run[p].job].deadline = run[p].deadline + Request + Grace
    /\ clock <= run[p].until /\ run[p].until <= run[p].deadline + Request

CleanupInv ==
    /\ clock \in Nat
    /\ run \in [Servers -> Runs]
    /\ row \in [Transcripts -> SidecarRows]
    /\ \A p \in Servers : run[p] # T!NoRun => Leased(p)
    /\ \A p, q \in Servers : run[p] # T!NoRun /\ run[q] # T!NoRun => q = p

\* A run that is under way keeps every other one out.
LEMMA LeaseIsLive ==
    ASSUME CleanupInv, NEW p \in Servers, run[p] # T!NoRun
    PROVE  \E k \in Transcripts : row[k].state = "running" /\ row[k].deadline > clock
<1>1. Leased(p) /\ run[p] \in Runs /\ clock \in Nat
  BY DEF CleanupInv
<1>2. run[p].deadline \in Nat /\ run[p].until \in Nat
  BY <1>1 DEF Runs
<1>3. run[p].deadline + Request + Grace > clock
  BY <1>1, <1>2, ServicesAssumption DEF Leased, ServicesAssumption
<1> QED
  BY <1>1, <1>3 DEF Leased

\* A run that goes on keeps its row; another does not exist.
LEMMA RunGoesOn ==
    ASSUME CleanupInv, NEW p \in Servers, run[p] # T!NoRun,
           NEW at \in {"next", "asking", "corrected"}, NEW until \in Nat,
           clock <= until, until <= run[p].deadline + Request,
           run' = [run EXCEPT ![p].at = at, ![p].until = until], UNCHANGED <<clock, row>>
    PROVE  CleanupInv'
<1>1. run[p] \in Runs /\ run \in [Servers -> Runs] /\ Leased(p)
  BY DEF CleanupInv
<1>2. /\ run'[p] = [run[p] EXCEPT !.at = at, !.until = until]
      /\ \A q \in Servers : q # p => run'[q] = run[q]
  BY <1>1
<1>3. /\ run'[p].at = at /\ run'[p].until = until /\ run'[p].job = run[p].job
      /\ run'[p].hash = run[p].hash /\ run'[p].deadline = run[p].deadline
      /\ run'[p] \in Runs
  BY <1>1, <1>2 DEF Runs
<1>4. run' \in [Servers -> Runs]
  BY <1>1, <1>2, <1>3
<1>5. Leased(p)'
  BY <1>1, <1>3 DEF Leased
<1>6. \A q \in Servers : q # p => run'[q] = T!NoRun
  BY <1>2 DEF CleanupInv
<1> QED
  BY <1>4, <1>5, <1>6 DEF CleanupInv

\* Nothing is under way after the only run has ended.
LEMMA RunEnds ==
    ASSUME CleanupInv, NEW p \in Servers, run[p] # T!NoRun,
           run' = [run EXCEPT ![p] = T!NoRun], UNCHANGED clock,
           row' \in [Transcripts -> SidecarRows]
    PROVE  CleanupInv'
<1>1. \A q \in Servers : run'[q] = T!NoRun
  BY DEF CleanupInv
<1>2. T!NoRun \in Runs
  BY DEF T!NoRun, Runs
<1>3. run' \in [Servers -> Runs]
  BY <1>2 DEF CleanupInv
<1> QED
  BY <1>1, <1>3 DEF CleanupInv

\* Every step keeps the lease on the row behind the request that holds it.
LEMMA CleanupStep == ASSUME CleanupInv, T!Next PROVE CleanupInv'
<1>1. clock \in Nat /\ run \in [Servers -> Runs] /\ row \in [Transcripts -> SidecarRows]
  BY DEF CleanupInv
<1>2. ASSUME NEW p \in Servers, NEW j \in Transcripts, NEW snapshot \in 1..MaxText,
             T!Start(p, j, snapshot)
      PROVE  CleanupInv'
  <2> DEFINE begun == [row[j] EXCEPT !.hash = snapshot, !.state = "running",
                                     !.deadline = clock + T!Lease]
             mineNow == [at |-> "next", job |-> j, hash |-> snapshot,
                         deadline |-> clock + Total, until |-> clock]
  <2>1. /\ run' = [run EXCEPT ![p] = mineNow] /\ row' = [row EXCEPT ![j] = begun]
        /\ UNCHANGED clock
    BY <1>2 DEF T!Start
  <2>2. \A q \in Servers : run[q] = T!NoRun
    BY <1>2, LeaseIsLive DEF T!Start
  <2>3. T!Lease = Total + Request + Grace /\ Total \in Nat /\ Request \in Nat /\ Grace \in Nat
    BY ServicesAssumption DEF T!Lease, ServicesAssumption
  <2>4. row[j] \in SidecarRows /\ snapshot \in Int
    BY <1>1
  <2>5. /\ begun.hash = snapshot /\ begun.state = "running"
        /\ begun.deadline = clock + T!Lease /\ begun \in SidecarRows
    <3>1. clock + T!Lease \in Nat
      BY <1>1, <2>3
    <3>2. ASSUME NEW d \in Nat,
                 NEW r, r = [row[j] EXCEPT !.hash = snapshot, !.state = "running",
                                           !.deadline = d]
          PROVE  /\ r.hash = snapshot /\ r.state = "running" /\ r.deadline = d
                 /\ r \in SidecarRows
      BY <2>4, <3>2 DEF SidecarRows
    <3> QED
      BY <3>1, <3>2
  <2>6. /\ mineNow.at = "next" /\ mineNow.job = j /\ mineNow.hash = snapshot
        /\ mineNow.deadline = clock + Total /\ mineNow.until = clock
        /\ mineNow \in Runs
    BY <1>1, <2>3, <2>4 DEF Runs
  <2> HIDE DEF begun, mineNow
  <2>7. run'[p] = mineNow /\ row'[j] = begun /\ \A q \in Servers : q # p => run'[q] = T!NoRun
    BY <1>1, <2>1, <2>2
  <2>8. Leased(p)'
    BY <1>1, <2>1, <2>3, <2>5, <2>6, <2>7 DEF Leased
  <2>9. run' \in [Servers -> Runs] /\ row' \in [Transcripts -> SidecarRows]
    BY <1>1, <2>1, <2>5, <2>6
  <2> QED
    BY <1>1, <2>1, <2>7, <2>8, <2>9 DEF CleanupInv
<1>3. ASSUME NEW p \in Servers, T!AskGroup(p) PROVE CleanupInv'
  <2> DEFINE span == T!Lesser(Request, run[p].deadline - clock)
  <2>1. /\ run[p].at = "next" /\ clock < run[p].deadline /\ UNCHANGED <<clock, row>>
        /\ run' = [run EXCEPT ![p].at = "asking", ![p].until = clock + 2 * span]
    BY <1>3 DEF T!AskGroup
  <2>2. run[p] # T!NoRun /\ run[p] \in Runs
    BY <1>1, <2>1 DEF T!NoRun
  <2>3. run[p].deadline \in Nat
    BY <2>2 DEF Runs
  <2>4. /\ span \in Nat /\ span <= Request /\ clock + span <= run[p].deadline
        /\ Request \in Nat
    BY <1>1, <2>1, <2>3, ServicesAssumption DEF T!Lesser, ServicesAssumption
  <2> HIDE DEF span
  <2>5. /\ clock + 2 * span \in Nat /\ clock <= clock + 2 * span
        /\ clock + 2 * span <= run[p].deadline + Request
    BY <1>1, <2>3, <2>4
  <2> QED
    BY <2>1, <2>2, <2>5, RunGoesOn
<1>4. ASSUME NEW p \in Servers, T!TakeAnswer(p) PROVE CleanupInv'
  <2>1. PICK at \in {"next", "corrected"} :
           run' = [run EXCEPT ![p].at = at, ![p].until = clock]
    BY <1>4 DEF T!TakeAnswer
  <2>2. run[p].at = "asking" /\ UNCHANGED <<clock, row>>
    BY <1>4 DEF T!TakeAnswer
  <2>3. run[p] # T!NoRun /\ run[p] \in Runs
    BY <1>1, <2>2 DEF T!NoRun
  <2>4. Leased(p) /\ run[p].deadline \in Nat /\ run[p].until \in Nat
    BY <2>3 DEF CleanupInv, Runs
  <2>5. clock <= clock /\ clock <= run[p].deadline + Request
    BY <1>1, <2>4, ServicesAssumption DEF Leased, ServicesAssumption
  <2> QED
    BY <1>1, <2>1, <2>2, <2>3, <2>5, RunGoesOn
<1>5. ASSUME NEW p \in Servers, T!SaveError(p) \/ T!SaveVariant(p) \/ T!Crash(p)
      PROVE  CleanupInv'
  <2>1. run[p] # T!NoRun
    BY <1>1, <1>5 DEF T!SaveError, T!Failing, T!SaveVariant, T!Crash, T!NoRun
  <2>2. /\ run' = [run EXCEPT ![p] = T!NoRun] /\ UNCHANGED clock
        /\ \/ row' = row
           \/ row' = [row EXCEPT ![run[p].job].state = "error"]
           \/ row' = [row EXCEPT ![run[p].job] =
                         [@ EXCEPT !.state = "done", !.variant = run[p].hash]]
    BY <1>5 DEF T!SaveError, T!SaveVariant, T!Crash
  <2>3. run[p].job \in Transcripts /\ run[p].hash \in Int
    BY <1>1, <2>1 DEF CleanupInv, Leased, Runs
  <2>4. row' \in [Transcripts -> SidecarRows]
    <3>1. row[run[p].job] \in SidecarRows
      BY <1>1, <2>3
    <3>2. /\ [row[run[p].job] EXCEPT !.state = "error"] \in SidecarRows
          /\ [row[run[p].job] EXCEPT !.state = "done", !.variant = run[p].hash]
                 \in SidecarRows
      BY <2>3, <3>1 DEF SidecarRows
    <3> QED
      BY <1>1, <2>2, <3>2
  <2> QED
    BY <2>1, <2>2, <2>4, RunEnds
<1>6. CASE \E j \in Transcripts : T!ReviseText(j)
  BY <1>6 DEF T!ReviseText, CleanupInv, Leased
<1>7. CASE T!Tick
  <2>1. /\ clock' = clock + 1 /\ UNCHANGED <<row, run>>
        /\ \A p \in Servers : run[p].at = "idle" \/ clock < run[p].until
    BY <1>7 DEF T!Tick
  <2>2. ASSUME NEW p \in Servers, run[p] # T!NoRun PROVE Leased(p)'
    <3>1. Leased(p) /\ run[p].until \in Nat
      BY <1>1, <2>2 DEF CleanupInv, Runs
    <3> QED
      BY <1>1, <2>1, <3>1 DEF Leased
  <2> QED
    BY <1>1, <2>1, <2>2 DEF CleanupInv
<1> QED
  BY <1>2, <1>3, <1>4, <1>5, <1>6, <1>7 DEF T!Next

\* There is no run at first, and no row.
LEMMA CleanupBegins == AllInit => CleanupInv
<1>1. T!NoRun \in Runs /\ T!NoRow \in SidecarRows
  BY DEF T!NoRun, T!NoRow, Runs, SidecarRows
<1> QED
  BY <1>1 DEF AllInit, T!Init, CleanupInv

\* Over all processes that serve a sidecar one run is under way, and until it
\* ends the row it will write is the one it opened.
THEOREM CleanupsExcludeEachOther == AllSpec => []OneCleanupAtATime
<1>1. AllInit => CleanupInv
  BY CleanupBegins
<1>2. CleanupInv /\ [AllNext]_all => CleanupInv'
  <2>1. CleanupInv /\ UNCHANGED cleanup => CleanupInv'
    BY DEF cleanup, CleanupInv, Leased
  <2> QED
    BY <2>1, CleanupStep DEF AllNext, all
<1>3. CleanupInv => OneCleanupAtATime
  BY DEF CleanupInv, Leased, OneCleanupAtATime, T!OneCleanupAtATime
<1> QED
  BY <1>1, <1>2, <1>3, PTL DEF AllSpec

\* A row that is done holds the correction of the text it was opened for.
Corrected == \A j \in Transcripts : row[j].state = "done" => row[j].variant = row[j].hash

\* The run that ends a row as done is the one that opened it.
LEMMA CorrectedStep == ASSUME CleanupInv, Corrected, T!Next PROVE Corrected'
<1>1. row \in [Transcripts -> SidecarRows]
  BY DEF CleanupInv
<1>2. ASSUME row' = row PROVE Corrected'
  BY <1>2 DEF Corrected
<1>3. ASSUME NEW k \in Transcripts, NEW r \in SidecarRows, row' = [row EXCEPT ![k] = r],
             r.state = "done" => r.variant = r.hash
      PROVE  Corrected'
  BY <1>1, <1>3 DEF Corrected
<1>4. ASSUME NEW p \in Servers, NEW j \in Transcripts, NEW snapshot \in 1..MaxText,
             T!Start(p, j, snapshot)
      PROVE  Corrected'
  <2>1. row' = [row EXCEPT ![j] = [row[j] EXCEPT !.hash = snapshot, !.state = "running",
                                                 !.deadline = clock + T!Lease]]
    BY <1>4 DEF T!Start
  <2>2. ASSUME NEW d, NEW r, r = [row[j] EXCEPT !.hash = snapshot, !.state = "running",
                                                !.deadline = d]
        PROVE  r.state = "running"
    BY <1>1, <2>2 DEF SidecarRows
  <2>3. row'[j].state = "running" /\ \A k \in Transcripts : k # j => row'[k] = row[k]
    BY <1>1, <2>1, <2>2
  <2> QED
    BY <2>3 DEF Corrected
<1>5. ASSUME NEW p \in Servers, run[p].at # "idle",
             row' = [row EXCEPT ![run[p].job].state = "error"]
      PROVE  Corrected'
  <2>1. run[p].job \in Transcripts
    BY <1>5 DEF CleanupInv, Leased, T!NoRun
  <2> DEFINE k == run[p].job
             r == [row[k] EXCEPT !.state = "error"]
  <2>2. r \in SidecarRows /\ r.state = "error" /\ row' = [row EXCEPT ![k] = r]
    BY <1>1, <1>5, <2>1 DEF SidecarRows
  <2> HIDE DEF k, r
  <2> QED
    BY <1>3, <2>1, <2>2 DEF k
<1>6. ASSUME NEW p \in Servers, T!SaveError(p) PROVE Corrected'
  <2>1. run[p].at # "idle"
    BY <1>6 DEF T!SaveError, T!Failing
  <2> QED
    BY <1>2, <1>5, <1>6, <2>1 DEF T!SaveError
<1>7. ASSUME NEW p \in Servers, T!SaveVariant(p) PROVE Corrected'
  <2> DEFINE k == run[p].job
             r == [row[k] EXCEPT !.state = "done", !.variant = run[p].hash]
  <2>1. run[p].at # "idle" /\ run[p] # T!NoRun
    BY <1>7 DEF T!SaveVariant, T!NoRun
  <2>2. k \in Transcripts /\ row[k].hash = run[p].hash /\ run[p].hash \in Int
    BY <2>1 DEF CleanupInv, Leased, Runs
  <2>3. r \in SidecarRows /\ r.state = "done" /\ r.variant = run[p].hash /\ r.hash = row[k].hash
    <3>1. row[k] \in SidecarRows
      BY <1>1, <2>2
    <3> QED
      BY <2>2, <3>1 DEF SidecarRows
  <2>4. \/ row' = row \/ row' = [row EXCEPT ![k] = r]
        \/ row' = [row EXCEPT ![run[p].job].state = "error"]
    BY <1>7 DEF T!SaveVariant
  <2> HIDE DEF k, r
  <2>5. CASE row' = [row EXCEPT ![k] = r]
    BY <1>3, <2>2, <2>3, <2>5
  <2> QED
    BY <1>2, <1>5, <2>1, <2>4, <2>5
<1>8. ASSUME NEW p \in Servers, T!AskGroup(p) \/ T!TakeAnswer(p) \/ T!Crash(p)
      PROVE  Corrected'
  BY <1>2, <1>8 DEF T!AskGroup, T!TakeAnswer, T!Crash
<1>9. ASSUME (\E j \in Transcripts : T!ReviseText(j)) \/ T!Tick PROVE Corrected'
  BY <1>2, <1>9 DEF T!ReviseText, T!Tick
<1> QED
  BY <1>4, <1>6, <1>7, <1>8, <1>9 DEF T!Next

\* What is shown as a correction is of the transcript that is there now, and a
\* cleanup that is said to be done has one.
THEOREM ShownCorrectionsAreOfThisText == AllSpec => []ShownIsOfThisText
<1>1. ASSUME AllInit PROVE CleanupInv /\ Corrected
  <2>1. Corrected
    BY <1>1 DEF AllInit, T!Init, T!NoRow, Corrected
  <2> QED
    BY <1>1, <2>1, CleanupBegins
<1>2. CleanupInv /\ Corrected /\ [AllNext]_all => (CleanupInv /\ Corrected)'
  <2>1. CleanupInv /\ Corrected /\ UNCHANGED cleanup => (CleanupInv /\ Corrected)'
    BY DEF cleanup, CleanupInv, Leased, Corrected
  <2> QED
    BY <2>1, CleanupStep, CorrectedStep DEF AllNext, all
<1>3. Corrected => ShownIsOfThisText
  <2> SUFFICES ASSUME Corrected, NEW j \in Transcripts
               PROVE  /\ T!Status(j).variant # 0 => T!Status(j).variant = text[j]
                      /\ T!Status(j).state = "done" => T!Status(j).variant = text[j]
    BY DEF ShownIsOfThisText, T!ShownIsOfThisText
  <2>1. CASE row[j] = T!NoRow \/ row[j].hash # text[j]
    BY <2>1 DEF T!Status, T!Answer
  <2>2. CASE row[j] # T!NoRow /\ row[j].hash = text[j]
    <3>1. /\ T!Status(j).variant = IF row[j].variant = row[j].hash THEN row[j].variant ELSE 0
          /\ T!Status(j).state = T!StateNow(j)
      BY <2>2 DEF T!Status, T!Answer
    <3>2. T!StateNow(j) = "done" => row[j].state = "done"
      BY DEF T!StateNow
    <3> QED
      BY <2>2, <3>1, <3>2 DEF Corrected
  <2> QED
    BY <2>1, <2>2
<1> QED
  BY <1>1, <1>2, <1>3, PTL DEF AllSpec

-----------------------------------------------------------------------------
(* The ownership of a database: only the holder of the lock touches the      *)
(* identity and the record beside it, and a discovery that read the holder's *)
(* identity knows every holder since.                                        *)

Holding == {"locked", "owner", "serving", "releasing", "unrecorded", "cleared"}

\* Where a launch or a discovery is.
Places == {"idle", "refused", "locked", "owner", "serving", "releasing", "unrecorded",
           "cleared", "over", "dead", "probing", "held", "identified", "matched",
           "answered"}

Records == [owner : Launches \cup {Nobody}, url : Launches \cup {Nobody}]

Probes == [owners : SUBSET (Launches \cup Discoveries \cup {Nobody}),
           seen : Launches \cup {Nobody},
           holder : Launches \cup Discoveries \cup {Nobody}, answer : Records]

\* Of a launch: it is the holder of the lock exactly while it holds it, and what
\* it has published is still there.
LaunchInv(p) ==
    /\ launch[p] \in Holding \cup {"idle", "refused", "over", "dead"}
    /\ launch[p] \in Holding <=> lock = p
    /\ p \in published => launch[p] \notin {"idle", "refused", "locked", "owner"}
    /\ p \in published /\ launch[p] = "serving" => identity = p /\ record.owner = p

\* Of a discovery: who holds the lock now is among the owners it knows, and so is
\* who published the record it has matched.
ProbeInv(r) ==
    /\ launch[r] \in {"idle", "probing", "held", "identified", "matched", "answered"}
    /\ launch[r] = "probing" <=> lock = r
    /\ launch[r] # "answered" => probe[r].answer = O!NoRecord
    /\ O!UnderWay(r) => lock \in probe[r].owners \cup Discoveries \cup {Nobody}
    /\ launch[r] = "identified" => probe[r].seen # Nobody
    /\ launch[r] = "identified" /\ probe[r].seen = probe[r].holder =>
           probe[r].holder \in probe[r].owners
    /\ launch[r] = "matched" /\ probe[r].seen = probe[r].holder =>
           record = O!NoRecord \/ record.url \in probe[r].owners
    /\ probe[r].answer # O!NoRecord /\ probe[r].seen = probe[r].holder =>
           probe[r].answer.url \in probe[r].owners

OwnershipTypes ==
    /\ launch \in [Launches \cup Discoveries -> Places]
    /\ lock \in Launches \cup Discoveries \cup {Nobody}
    /\ identity \in Launches \cup {Nobody}
    /\ record \in Records
    /\ probe \in [Discoveries -> Probes]

OwnershipInv ==
    /\ OwnershipTypes
    /\ record.owner # Nobody => record.url = record.owner
    /\ \A p \in Launches : LaunchInv(p)
    /\ \A r \in Discoveries : ProbeInv(r)

\* Nobody owns, launches or looks at first.
LEMMA OwnershipInit == ASSUME O!Init PROVE OwnershipInv
<1>1. O!NoRecord \in Records /\ O!NoRecord.owner = Nobody /\ O!NoRecord.url = Nobody
  BY DEF O!NoRecord, Records
<1>2. /\ O!Unasked \in Probes /\ O!Unasked.answer = O!NoRecord
  BY <1>1 DEF O!Unasked, Probes
<1>3. OwnershipTypes
  BY <1>1, <1>2 DEF O!Init, OwnershipTypes, Places
<1>4. \A p \in Launches : LaunchInv(p)
  BY ServicesAssumption DEF O!Init, LaunchInv, Holding, ServicesAssumption
<1>5. \A r \in Discoveries : ProbeInv(r)
  BY <1>2, ServicesAssumption DEF O!Init, ProbeInv, O!UnderWay, ServicesAssumption
<1> QED
  BY <1>1, <1>3, <1>4, <1>5 DEF O!Init, OwnershipInv

\* What a launch that holds the lock may do to the discoveries under way.
LEMMA ProbesKept ==
    ASSUME OwnershipInv, UNCHANGED probe,
           \A r \in Discoveries : launch'[r] = launch[r],
           lock' = lock \/ (lock \notin Discoveries /\ lock' = Nobody),
           \/ record' = record
           \/ record' = O!NoRecord
           \/ lock \in Launches /\ record'.url = lock
    PROVE  \A r \in Discoveries : ProbeInv(r)'
<1> SUFFICES ASSUME NEW r \in Discoveries PROVE ProbeInv(r)'
  OBVIOUS
<1>1. ProbeInv(r) /\ launch'[r] = launch[r] /\ probe' = probe
  BY DEF OwnershipInv
<1>2. launch'[r] = "probing" <=> lock' = r
  BY <1>1, ServicesAssumption DEF ProbeInv, ServicesAssumption
<1>3. O!UnderWay(r)' <=> O!UnderWay(r)
  BY <1>1 DEF O!UnderWay
<1>4. O!UnderWay(r)' => lock' \in probe'[r].owners \cup Discoveries \cup {Nobody}
  BY <1>1, <1>3 DEF ProbeInv
<1>5. ASSUME launch'[r] = "matched", probe'[r].seen = probe'[r].holder
      PROVE  record' = O!NoRecord \/ record'.url \in probe'[r].owners
  <2>1. O!UnderWay(r)
    BY <1>1, <1>5 DEF O!UnderWay
  <2>2. lock \in Launches => lock \in probe[r].owners
    BY <1>1, <2>1, ServicesAssumption DEF ProbeInv, ServicesAssumption
  <2>3. record = O!NoRecord \/ record.url \in probe[r].owners
    BY <1>1, <1>5 DEF ProbeInv
  <2> QED
    BY <1>1, <2>2, <2>3
<1>6. O!NoRecord' = O!NoRecord
  BY DEF O!NoRecord
<1> QED
  BY <1>1, <1>2, <1>4, <1>5, <1>6 DEF ProbeInv

\* The other launches of one that moves: they do not hold the lock it holds.
LEMMA LaunchesKept ==
    ASSUME OwnershipInv, NEW p \in Launches,
           \A q \in Launches : q # p =>
               launch'[q] = launch[q] /\ (q \in published' <=> q \in published),
           lock = p \/ UNCHANGED <<lock, identity, record>>,
           lock' \in {lock, Nobody}
    PROVE  \A q \in Launches : q # p => LaunchInv(q)'
  BY ServicesAssumption DEF OwnershipInv, LaunchInv, Holding, ServicesAssumption

\* A launch writes and removes beside the lock only while it holds it.
LEMMA LaunchStep ==
    ASSUME OwnershipInv, NEW p \in Launches,
           \/ O!TakeLock(p) \/ O!Refuse(p) \/ O!WriteIdentity(p) \/ O!GiveUp(p)
           \/ O!Publish(p) \/ O!StopServing(p) \/ O!RemoveRecord(p)
           \/ O!ClearIdentity(p) \/ O!Unlock(p) \/ O!Die(p)
    PROVE  OwnershipInv'
<1> USE DEF O!Go
<1>0. /\ LaunchInv(p) /\ OwnershipTypes /\ p \notin Discoveries
      /\ p # Nobody /\ Nobody \notin Discoveries
      /\ launch \in [Launches \cup Discoveries -> Places]
      /\ O!NoRecord \in Records /\ O!NoRecord.owner = Nobody
  BY ServicesAssumption
     DEF OwnershipInv, OwnershipTypes, ServicesAssumption, O!NoRecord, Records
<1>1. ASSUME NEW s \in Places, launch' = [launch EXCEPT ![p] = s], UNCHANGED probe,
             lock' \in {lock, Nobody}, lock # lock' => lock = p,
             lock = p \/ UNCHANGED <<lock, identity, record>>,
             \A q \in Launches : q # p => (q \in published' <=> q \in published),
             identity' \in Launches \cup {Nobody},
             \/ record' = record
             \/ record' = O!NoRecord
             \/ lock = p /\ record' \in Records /\ record'.url = p
                 /\ record'.owner \in {p, Nobody},
             LaunchInv(p)'
      PROVE  OwnershipInv'
  <2>1. /\ \A x \in Launches \cup Discoveries : x # p => launch'[x] = launch[x]
        /\ launch' \in [Launches \cup Discoveries -> Places]
    BY <1>0, <1>1
  <2>2. \A q \in Launches : q # p => LaunchInv(q)'
    BY <1>1, <2>1, LaunchesKept
  <2>3. \A r \in Discoveries : launch'[r] = launch[r]
    BY <1>0, <2>1
  <2>4. lock' = lock \/ (lock \notin Discoveries /\ lock' = Nobody)
    BY <1>0, <1>1
  <2>5. \A r \in Discoveries : ProbeInv(r)'
    BY <1>1, <2>3, <2>4, ProbesKept
  <2>6. OwnershipTypes'
    BY <1>0, <1>1, <2>1 DEF OwnershipTypes
  <2>7. record'.owner # Nobody => record'.url = record'.owner
    BY <1>0, <1>1 DEF OwnershipInv
  <2> QED
    BY <1>1, <2>2, <2>5, <2>6, <2>7 DEF OwnershipInv
<1>2. CASE O!TakeLock(p)
  <2>1. /\ launch[p] = "idle" /\ launch' = [launch EXCEPT ![p] = "locked"]
        /\ lock = Nobody /\ lock' = p /\ UNCHANGED <<identity, record, published>>
        /\ probe' = [r \in Discoveries |->
                        [probe[r] EXCEPT !.owners = IF O!UnderWay(r) THEN @ \cup {p} ELSE @]]
    BY <1>2 DEF O!TakeLock
  <2>2. /\ \A x \in Launches \cup Discoveries : x # p => launch'[x] = launch[x]
        /\ launch' \in [Launches \cup Discoveries -> Places] /\ launch'[p] = "locked"
    BY <1>0, <2>1 DEF Places
  <2>3. \A q \in Launches : LaunchInv(q)'
    <3> TAKE q \in Launches
    <3>1. CASE q = p
      BY <1>0, <2>1, <2>2, <3>1 DEF LaunchInv, Holding
    <3>2. CASE q # p
      <4>1. LaunchInv(q) /\ launch'[q] = launch[q] /\ q # Nobody
        BY <2>2, <3>2, ServicesAssumption DEF OwnershipInv, ServicesAssumption
      <4> QED
        BY <2>1, <3>2, <4>1 DEF LaunchInv
    <3> QED
      BY <3>1, <3>2
  <2>4. ASSUME NEW r \in Discoveries
        PROVE  /\ probe'[r] \in Probes
               /\ probe'[r].seen = probe[r].seen /\ probe'[r].holder = probe[r].holder
               /\ probe'[r].answer = probe[r].answer
               /\ probe[r].owners \subseteq probe'[r].owners
               /\ O!UnderWay(r) => p \in probe'[r].owners
    <3>1. probe[r] \in Probes
      BY <1>0 DEF OwnershipTypes
    <3>2. probe'[r] = [probe[r] EXCEPT !.owners = IF O!UnderWay(r) THEN @ \cup {p} ELSE @]
      BY <2>1
    <3>3. (IF O!UnderWay(r) THEN probe[r].owners \cup {p} ELSE probe[r].owners)
              \in SUBSET (Launches \cup Discoveries \cup {Nobody})
      BY <3>1 DEF Probes
    <3> QED
      BY <3>1, <3>2, <3>3 DEF Probes
  <2>5. \A r \in Discoveries : ProbeInv(r)'
    <3> TAKE r \in Discoveries
    <3>1. ProbeInv(r) /\ launch'[r] = launch[r]
      BY <1>0, <2>2 DEF OwnershipInv
    <3>2. O!UnderWay(r)' <=> O!UnderWay(r)
      BY <3>1 DEF O!UnderWay
    <3>3. lock' # r /\ lock # r
      BY <1>0, <2>1
    <3>4. O!NoRecord' = O!NoRecord
      BY DEF O!NoRecord
    <3> QED
      BY <2>1, <2>4, <3>1, <3>2, <3>3, <3>4 DEF ProbeInv
  <2>6. OwnershipTypes'
    <3>1. probe' \in [Discoveries -> Probes]
      BY <2>1, <2>4
    <3> QED
      BY <1>0, <2>1, <2>2, <3>1 DEF OwnershipTypes
  <2> QED
    BY <2>1, <2>3, <2>5, <2>6 DEF OwnershipInv
<1>3. CASE O!Refuse(p)
  <2>1. /\ launch[p] = "idle" /\ launch' = [launch EXCEPT ![p] = "refused"]
        /\ UNCHANGED <<lock, identity, record, published, probe>>
    BY <1>3 DEF O!Refuse
  <2>2. LaunchInv(p)'
    BY <1>0, <2>1 DEF LaunchInv, Holding
  <2> QED
    BY <1>0, <1>1, <2>1, <2>2 DEF OwnershipTypes, Places
<1>4. CASE O!WriteIdentity(p)
  <2>1. /\ launch[p] = "locked" /\ launch' = [launch EXCEPT ![p] = "owner"]
        /\ identity' \in {p, identity}
        /\ UNCHANGED <<lock, record, published, probe>>
    BY <1>4 DEF O!WriteIdentity
  <2>2. lock = p /\ LaunchInv(p)'
    BY <1>0, <2>1 DEF LaunchInv, Holding
  <2> QED
    BY <1>0, <1>1, <2>1, <2>2 DEF OwnershipTypes, Places
<1>5. CASE O!GiveUp(p) \/ O!StopServing(p)
  <2>1. /\ launch[p] \in {"owner", "serving"}
        /\ launch' = [launch EXCEPT ![p] = "releasing"]
        /\ UNCHANGED <<lock, identity, record, published, probe>>
    BY <1>5 DEF O!GiveUp, O!StopServing
  <2>2. LaunchInv(p)'
    BY <1>0, <2>1 DEF LaunchInv, Holding
  <2> QED
    BY <1>0, <1>1, <2>1, <2>2 DEF OwnershipTypes, Places
<1>6. CASE O!Publish(p)
  <2>1. /\ launch[p] = "owner" /\ launch' = [launch EXCEPT ![p] = "serving"]
        /\ UNCHANGED <<lock, identity, probe>>
        /\ \/ /\ record' = [owner |-> IF identity = p THEN p ELSE Nobody, url |-> p]
              /\ published' = published \cup ({p} \cap {identity})
           \/ UNCHANGED <<record, published>>
    BY <1>6 DEF O!Publish
  <2>2. lock = p /\ launch'[p] = "serving" /\ p \notin published
    BY <1>0, <2>1 DEF LaunchInv, Holding
  <2>3. record' = record \/ /\ record' \in Records /\ record'.url = p
                            /\ record'.owner \in {p, Nobody}
                            /\ identity = p => record'.owner = p
    BY <2>1 DEF Records
  <2>4. LaunchInv(p)'
    BY <2>1, <2>2, <2>3 DEF LaunchInv, Holding
  <2>5. \A q \in Launches : q # p => (q \in published' <=> q \in published)
    BY <2>1
  <2> QED
    BY <1>0, <1>1, <2>1, <2>2, <2>3, <2>4, <2>5 DEF OwnershipTypes, Places
<1>7. CASE O!RemoveRecord(p)
  <2>1. /\ launch[p] = "releasing" /\ launch' = [launch EXCEPT ![p] = "unrecorded"]
        /\ record' = O!NoRecord /\ UNCHANGED <<lock, identity, published, probe>>
    BY <1>7 DEF O!RemoveRecord
  <2>2. lock = p /\ LaunchInv(p)'
    BY <1>0, <2>1 DEF LaunchInv, Holding
  <2> QED
    BY <1>0, <1>1, <2>1, <2>2 DEF OwnershipTypes, Places
<1>8. CASE O!ClearIdentity(p)
  <2>1. /\ launch[p] = "unrecorded" /\ launch' = [launch EXCEPT ![p] = "cleared"]
        /\ identity' \in {Nobody, identity}
        /\ UNCHANGED <<lock, record, published, probe>>
    BY <1>8 DEF O!ClearIdentity
  <2>2. lock = p /\ LaunchInv(p)'
    BY <1>0, <2>1 DEF LaunchInv, Holding
  <2> QED
    BY <1>0, <1>1, <2>1, <2>2 DEF OwnershipTypes, Places
<1>9. CASE O!Unlock(p)
  <2>1. /\ launch[p] = "cleared" /\ launch' = [launch EXCEPT ![p] = "over"]
        /\ lock' = Nobody /\ UNCHANGED <<identity, record, published, probe>>
    BY <1>9 DEF O!Unlock
  <2>2. lock = p /\ LaunchInv(p)'
    BY <1>0, <2>1 DEF LaunchInv, Holding
  <2> QED
    BY <1>0, <1>1, <2>1, <2>2 DEF OwnershipTypes, Places
<1>10. CASE O!Die(p)
  <2>1. /\ launch[p] \notin {"idle", "refused", "over", "dead"}
        /\ launch' = [launch EXCEPT ![p] = "dead"]
        /\ lock' = IF lock = p THEN Nobody ELSE lock
        /\ UNCHANGED <<identity, record, published, probe>>
    BY <1>10 DEF O!Die
  <2>2. lock = p /\ LaunchInv(p)'
    BY <1>0, <2>1 DEF LaunchInv, Holding
  <2> QED
    BY <1>0, <1>1, <2>1, <2>2 DEF OwnershipTypes, Places
<1> QED
  BY <1>2, <1>3, <1>4, <1>5, <1>6, <1>7, <1>8, <1>9, <1>10

\* A discovery matches and answers with an owner it knows, if it saw the one it asked.
LEMMA DiscoveryStep ==
    ASSUME OwnershipInv, NEW r \in Discoveries,
           \/ O!ProbeFree(r) \/ O!ProbeEnds(r) \/ O!ProbeHeld(r) \/ O!ReadIdentity(r)
           \/ O!MatchRecord(r) \/ O!AnswerUrl(r)
    PROVE  OwnershipInv'
<1> USE DEF O!Go
<1>0. /\ ProbeInv(r) /\ OwnershipTypes /\ r \notin Launches
      /\ r # Nobody /\ Nobody \notin Launches \cup Discoveries
      /\ launch \in [Launches \cup Discoveries -> Places]
      /\ probe \in [Discoveries -> Probes] /\ probe[r] \in Probes
      /\ O!NoRecord' = O!NoRecord
  BY ServicesAssumption DEF OwnershipInv, OwnershipTypes, ServicesAssumption, O!NoRecord
<1>1. ASSUME NEW s \in Places, NEW b \in Probes,
             launch' = [launch EXCEPT ![r] = s], probe' = [probe EXCEPT ![r] = b],
             UNCHANGED <<identity, record, published>>,
             lock' = lock \/ (lock = Nobody /\ lock' = r) \/ (lock = r /\ lock' = Nobody),
             ProbeInv(r)'
      PROVE  OwnershipInv'
  <2>1. /\ \A x \in Launches \cup Discoveries : x # r => launch'[x] = launch[x]
        /\ launch' \in [Launches \cup Discoveries -> Places]
        /\ \A x \in Discoveries : x # r => probe'[x] = probe[x]
        /\ probe' \in [Discoveries -> Probes]
    BY <1>0, <1>1
  <2>2. \A p \in Launches : LaunchInv(p)'
    <3> TAKE p \in Launches
    <3>1. LaunchInv(p) /\ launch'[p] = launch[p] /\ (lock' = p <=> lock = p)
      BY <1>0, <1>1, <2>1 DEF OwnershipInv
    <3> QED
      BY <1>1, <3>1 DEF LaunchInv
  <2>3. ASSUME NEW x \in Discoveries, x # r PROVE ProbeInv(x)'
    <3>1. ProbeInv(x) /\ launch'[x] = launch[x] /\ probe'[x] = probe[x]
      BY <2>1, <2>3 DEF OwnershipInv
    <3>2. O!UnderWay(x)' <=> O!UnderWay(x)
      BY <3>1 DEF O!UnderWay
    <3>3. lock' = x <=> lock = x
      BY <1>0, <1>1, <2>3
    <3> QED
      BY <1>0, <1>1, <3>1, <3>2, <3>3 DEF ProbeInv
  <2>4. OwnershipTypes'
    BY <1>0, <1>1, <2>1 DEF OwnershipTypes
  <2> QED
    BY <1>1, <2>2, <2>3, <2>4 DEF OwnershipInv
<1>2. probe = [probe EXCEPT ![r] = probe[r]]
  BY <1>0
<1>3. CASE O!ProbeFree(r) \/ O!ProbeEnds(r)
  <2>1. PICK s \in {"probing", "answered"} :
           /\ launch' = [launch EXCEPT ![r] = s] /\ UNCHANGED <<identity, record, published, probe>>
           /\ \/ s = "probing" /\ launch[r] = "idle" /\ lock = Nobody /\ lock' = r
              \/ s = "answered" /\ launch[r] = "probing" /\ lock = r /\ lock' = Nobody
    BY <1>3 DEF O!ProbeFree, O!ProbeEnds
  <2>2. ProbeInv(r)'
    BY <1>0, <2>1 DEF ProbeInv, O!UnderWay
  <2> QED
    BY <1>0, <1>1, <1>2, <2>1, <2>2 DEF Places
<1>4. CASE O!ProbeHeld(r)
  <2> DEFINE b == [probe[r] EXCEPT !.owners = {lock}]
  <2>1. /\ launch[r] = "idle" /\ launch' = [launch EXCEPT ![r] = "held"] /\ lock # Nobody
        /\ probe' = [probe EXCEPT ![r] = b] /\ UNCHANGED <<lock, identity, record, published>>
    BY <1>4 DEF O!ProbeHeld
  <2>2. /\ b \in Probes /\ b.owners = {lock} /\ b.answer = probe[r].answer
    BY <1>0 DEF Probes, OwnershipTypes
  <2> HIDE DEF b
  <2>3. launch'[r] = "held" /\ probe'[r] = b
    BY <1>0, <2>1
  <2>4. ProbeInv(r)'
    BY <1>0, <2>1, <2>2, <2>3 DEF ProbeInv, O!UnderWay
  <2> QED
    BY <1>1, <2>1, <2>2, <2>4 DEF Places
<1>5. CASE O!ReadIdentity(r)
  <2> DEFINE b == [probe[r] EXCEPT !.seen = identity, !.holder = lock]
             s == IF identity = Nobody THEN "answered" ELSE "identified"
  <2>1. /\ launch[r] = "held" /\ launch' = [launch EXCEPT ![r] = s]
        /\ probe' = [probe EXCEPT ![r] = b] /\ UNCHANGED <<lock, identity, record, published>>
    BY <1>5 DEF O!ReadIdentity
  <2>2. /\ b \in Probes /\ b.seen = identity /\ b.holder = lock
        /\ b.answer = probe[r].answer /\ b.owners = probe[r].owners
    BY <1>0 DEF Probes, OwnershipTypes
  <2> HIDE DEF b
  <2>3. launch'[r] = s /\ probe'[r] = b
    BY <1>0, <2>1
  <2>4. /\ lock \in probe[r].owners \cup Discoveries \cup {Nobody}
        /\ identity \in Launches \cup {Nobody}
    BY <1>0, <2>1 DEF ProbeInv, O!UnderWay, OwnershipTypes
  <2>5. s = "identified" /\ identity = lock => lock \in probe[r].owners
    BY <2>4, ServicesAssumption DEF ServicesAssumption
  <2>6. ProbeInv(r)'
    BY <1>0, <2>1, <2>2, <2>3, <2>4, <2>5 DEF ProbeInv, O!UnderWay
  <2> QED
    BY <1>1, <2>1, <2>2, <2>6 DEF Places
<1>6. CASE O!MatchRecord(r)
  <2> DEFINE s == IF record.owner = probe[r].seen THEN "matched" ELSE "answered"
  <2>1. /\ launch[r] = "identified" /\ launch' = [launch EXCEPT ![r] = s]
        /\ UNCHANGED <<lock, identity, record, published, probe>>
    BY <1>6 DEF O!MatchRecord
  <2>2. s = "matched" /\ probe[r].seen = probe[r].holder => record.url \in probe[r].owners
    BY <1>0, <2>1 DEF ProbeInv, OwnershipInv
  <2>3. ProbeInv(r)'
    BY <1>0, <2>1, <2>2 DEF ProbeInv, O!UnderWay
  <2> QED
    BY <1>0, <1>1, <1>2, <2>1, <2>3 DEF Places
<1>7. CASE O!AnswerUrl(r)
  <2> DEFINE b == [probe[r] EXCEPT !.answer = record]
  <2>1. /\ launch[r] = "matched" /\ launch' = [launch EXCEPT ![r] = "answered"]
        /\ probe' = [probe EXCEPT ![r] = b] /\ UNCHANGED <<lock, identity, record, published>>
    BY <1>7 DEF O!AnswerUrl
  <2>2. /\ b \in Probes /\ b.seen = probe[r].seen /\ b.holder = probe[r].holder
        /\ b.answer = record /\ b.owners = probe[r].owners
    BY <1>0 DEF Probes, OwnershipTypes
  <2> HIDE DEF b
  <2>3. launch'[r] = "answered" /\ probe'[r] = b
    BY <1>0, <2>1
  <2>4. ProbeInv(r)'
    BY <1>0, <2>1, <2>2, <2>3 DEF ProbeInv, O!UnderWay
  <2> QED
    BY <1>1, <2>1, <2>2, <2>4 DEF Places
<1> QED
  BY <1>3, <1>4, <1>5, <1>6, <1>7

\* Whoever serves and has published is found by what lies beside its lock; and a
\* discovery that read the holder's identity answers with the URL of a process
\* that had the lock since it began.
THEOREM DiscoveriesAreExact == AllSpec => []DiscoveryIsExact
<1>1. AllInit => OwnershipInv
  BY OwnershipInit DEF AllInit
<1>2. OwnershipInv /\ [AllNext]_all => OwnershipInv'
  <2>1. ASSUME OwnershipInv, UNCHANGED ownership PROVE OwnershipInv'
    <3>1. UNCHANGED <<launch, lock, identity, record, published, probe>>
      BY <2>1 DEF ownership
    <3> QED
      BY <2>1, <3>1 DEF OwnershipInv, OwnershipTypes, LaunchInv, ProbeInv, O!UnderWay, O!NoRecord
  <2>2. OwnershipInv /\ O!Next => OwnershipInv'
    BY LaunchStep, DiscoveryStep DEF O!Next
  <2> QED
    BY <2>1, <2>2 DEF AllNext, all
<1>3. OwnershipInv => DiscoveryIsExact
  BY DEF OwnershipInv, LaunchInv, Holding, ProbeInv, DiscoveryIsExact, O!DiscoveryIsExact,
         O!ServingIsDiscoverable, O!Serving, O!DiscoveredIsHolder
<1> QED
  BY <1>1, <1>2, <1>3, PTL DEF AllSpec

-----------------------------------------------------------------------------
(* The counters of requests: the table never believes in a later expiry than *)
(* its earliest bucket has.                                                  *)

Counted == [started : Nat, count : Nat]

\* What a table, and the bound kept beside it, may be at a time.
Bounds(B, bound, time) ==
    /\ B \in [DOMAIN B -> Counted]
    /\ bound \in Nat
    /\ \A p \in DOMAIN B : B[p].started <= time /\ bound <= B[p].started + Ttl

RateInv ==
    /\ now \in Nat
    /\ Bounds(buckets, nextExpiry, now)
    /\ FullMeansLive

\* The bound relearned from what a sweep leaves is the earliest expiry in it.
LEMMA ExpiryIsEarliest ==
    ASSUME NEW B, B \in [DOMAIN B -> Counted]
    PROVE  /\ R!Expiry(B) \in Nat
           /\ \A p \in DOMAIN B : R!Expiry(B) <= B[p].started + Ttl
<1>0. Ttl \in Nat /\ LastTick \in Nat
  BY ServicesAssumption DEF ServicesAssumption
<1>1. CASE DOMAIN B = {}
  BY <1>0, <1>1 DEF R!Expiry, R!Never
<1>2. CASE DOMAIN B # {}
  <2> DEFINE S == {B[p].started : p \in DOMAIN B}
  <2>1. S \in SUBSET Nat /\ S # {}
    BY <1>2 DEF Counted
  <2> HIDE DEF S
  <2>2. \E x \in S : \A y \in S : x <= y
    <3>1. PICK x \in S : \A y \in S : ~ (<<y, x>> \in OpToRel(<, Nat))
      BY <2>1, NatLessThanWellFounded, WFMin
    <3>2. ASSUME NEW y \in S PROVE x <= y
      <4>1. x \in Nat /\ y \in Nat /\ <<y, x>> \in Nat \X Nat
        BY <2>1
      <4>2. y < x => <<y, x>> \in OpToRel(<, Nat)
        BY <4>1 DEF OpToRel
      <4>3. ~ (y < x)
        BY <3>1, <4>2, Zenon
      <4> QED
        BY <4>1, <4>3
    <3> QED
      BY <3>2
  <2>3. R!Min(S) \in S /\ \A y \in S : R!Min(S) <= y
    BY <2>2 DEF R!Min
  <2>4. R!Expiry(B) = R!Min(S) + Ttl
    BY <1>2 DEF R!Expiry, S
  <2>5. \A p \in DOMAIN B : B[p].started \in S /\ B[p].started \in Nat
    BY DEF S, Counted
  <2> QED
    BY <1>0, <2>1, <2>3, <2>4, <2>5
<1> QED
  BY <1>1, <1>2

\* The table as a request of a peer finds it, swept or not.
LEMMA TableIsBounded ==
    ASSUME RateInv, NEW p
    PROVE  /\ Bounds(R!Table(p), R!Bound(p), now)
           /\ DOMAIN R!Table(p) \subseteq DOMAIN buckets
           /\ \A q \in DOMAIN R!Table(p) : R!Table(p)[q] = buckets[q]
<1>1. CASE ~ R!Swept(p)
  BY <1>1 DEF R!Table, R!Bound, RateInv
<1>2. CASE R!Swept(p)
  <2> DEFINE T0 == [q \in R!Live(buckets) |-> buckets[q]]
  <2>1. R!Table(p) = T0 /\ R!Bound(p) = R!Expiry(T0)
    BY <1>2 DEF R!Table, R!Bound, R!Only
  <2>2. R!Live(buckets) \subseteq DOMAIN buckets
    BY DEF R!Live
  <2>3. T0 \in [DOMAIN T0 -> Counted] /\ DOMAIN T0 = R!Live(buckets)
    BY <2>2 DEF RateInv, Bounds
  <2>4. \A q \in DOMAIN T0 : T0[q] = buckets[q]
    OBVIOUS
  <2> HIDE DEF T0
  <2>5. Bounds(T0, R!Expiry(T0), now)
    BY <2>2, <2>3, <2>4, ExpiryIsEarliest DEF RateInv, Bounds
  <2> QED
    BY <2>1, <2>2, <2>3, <2>4, <2>5
<1> QED
  BY <1>1, <1>2

\* A peer is turned away by a table in which nothing has expired.
LEMMA FullTableIsLive ==
    ASSUME RateInv, NEW p, R!Full(p)
    PROVE  R!Cardinality(R!Live(R!Table(p))) >= Capacity
<1>1. CASE R!Swept(p)
  <2>1. R!Table(p) = [q \in R!Live(buckets) |-> buckets[q]]
    BY <1>1 DEF R!Table, R!Only
  <2>2. R!Live(R!Table(p)) = DOMAIN R!Table(p)
    BY <2>1 DEF R!Live
  <2> QED
    BY <2>2 DEF R!Full
<1>2. CASE ~ R!Swept(p)
  <2>1. /\ R!Table(p) = buckets /\ ~ (now >= nextExpiry)
        /\ R!Cardinality(DOMAIN buckets) >= Capacity
    BY <1>2 DEF R!Table, R!Full, R!Swept
  <2>2. \A q \in DOMAIN buckets : buckets[q].started + Ttl > now
    <3> TAKE q \in DOMAIN buckets
    <3>1. /\ buckets[q].started \in Nat /\ nextExpiry <= buckets[q].started + Ttl
          /\ nextExpiry \in Nat /\ now \in Nat
      BY DEF RateInv, Bounds, Counted
    <3> QED
      BY <2>1, <3>1, ServicesAssumption DEF ServicesAssumption
  <2>3. R!Live(buckets) = DOMAIN buckets
    BY <2>2 DEF R!Live
  <2> QED
    BY <2>1, <2>3
<1> QED
  BY <1>1, <1>2

\* The bucket a request is counted in began no later than now, and no earlier
\* than what the table held for its peer.
LEMMA BucketIsCurrent ==
    ASSUME RateInv, NEW p
    PROVE  /\ R!Bucket(p) \in Counted /\ R!Bucket(p).started <= now
           /\ p \in DOMAIN buckets => buckets[p].started <= R!Bucket(p).started
           /\ p \notin DOMAIN buckets => R!Bucket(p).started = now
<1>1. now \in Nat /\ \A q \in DOMAIN buckets :
         buckets[q] \in Counted /\ buckets[q].started \in Nat /\ buckets[q].started <= now
  BY DEF RateInv, Bounds, Counted
<1>2. CASE p \in R!Live(buckets)
  BY <1>1, <1>2 DEF R!Bucket, R!Live
<1>3. CASE p \notin R!Live(buckets)
  BY <1>1, <1>3 DEF R!Bucket, Counted
<1> QED
  BY <1>2, <1>3

\* A request or a tick keeps expiries remembered and the table bounded.
LEMMA RateStep == ASSUME RateInv, R!Next PROVE RateInv'
<1>0. now \in Nat /\ Bounds(buckets, nextExpiry, now) /\ Ttl \in Nat
  BY ServicesAssumption DEF RateInv, ServicesAssumption
<1>1. CASE R!Tick
  <2>1. now' = now + 1 /\ refused' = "no" /\ buckets' = buckets /\ nextExpiry' = nextExpiry
    BY <1>1 DEF R!Tick
  <2>2. \A p \in DOMAIN buckets : buckets[p].started \in Nat
    BY <1>0 DEF Bounds, Counted
  <2>3. Bounds(buckets', nextExpiry', now')
    BY <1>0, <2>1, <2>2 DEF Bounds
  <2> QED
    BY <1>0, <2>1, <2>3 DEF RateInv, Bounds, FullMeansLive, R!FullMeansLive
<1>2. ASSUME NEW p \in Peers, R!TooOften(p) PROVE RateInv'
  BY <1>0, <1>2 DEF R!TooOften, RateInv, Bounds, FullMeansLive, R!FullMeansLive
<1>3. ASSUME NEW p \in Peers, R!NoRoom(p) PROVE RateInv'
  <2>1. now' = now /\ buckets' = R!Table(p) /\ nextExpiry' = R!Bound(p) /\ R!Full(p)
    BY <1>3 DEF R!NoRoom
  <2>2. Bounds(buckets', nextExpiry', now')
    BY <2>1, TableIsBounded
  <2>3. R!Live(buckets)' = R!Live(R!Table(p))
    BY <2>1 DEF R!Live
  <2>4. FullMeansLive'
    BY <2>1, <2>3, FullTableIsLive DEF FullMeansLive, R!FullMeansLive
  <2> QED
    BY <1>0, <2>1, <2>2, <2>4 DEF RateInv, Bounds
<1>4. ASSUME NEW p \in Peers, R!Count(p) PROVE RateInv'
  <2> DEFINE counted == [R!Bucket(p) EXCEPT !.count = @ + 1]
  <2>1. /\ now' = now /\ refused' = "no"
        /\ buckets' = [q \in DOMAIN R!Table(p) \cup {p} |-> IF q = p THEN counted ELSE buckets[q]]
        /\ nextExpiry' = IF DOMAIN R!Table(p) = {} THEN now + Ttl ELSE R!Bound(p)
    BY <1>4 DEF R!Count
  <2>2. /\ counted \in Counted /\ counted.started = R!Bucket(p).started
        /\ counted.started \in Nat /\ counted.started <= now
    BY BucketIsCurrent DEF Counted
  <2> HIDE DEF counted
  <2>3. /\ \A q \in DOMAIN R!Table(p) :
              /\ R!Table(p)[q] = buckets[q] /\ q \in DOMAIN buckets
              /\ buckets[q] \in Counted /\ buckets[q].started \in Nat
              /\ buckets[q].started <= now /\ R!Bound(p) <= buckets[q].started + Ttl
        /\ R!Bound(p) \in Nat
    BY TableIsBounded DEF Bounds, Counted
  <2>4. nextExpiry' \in Nat
    BY <1>0, <2>1, <2>3
  <2>5. \A q \in DOMAIN R!Table(p) : nextExpiry' <= buckets[q].started + Ttl
    BY <2>1, <2>3
  <2>6. nextExpiry' <= counted.started + Ttl
    <3>1. CASE p \in DOMAIN R!Table(p)
      <4>1. buckets[p].started <= counted.started
        BY <2>2, <2>3, <3>1, BucketIsCurrent
      <4> QED
        BY <1>0, <2>2, <2>3, <2>4, <2>5, <3>1, <4>1
    <3>2. CASE p \notin DOMAIN R!Table(p)
      <4>1. counted.started = now
        BY <2>2, <3>2, BucketIsCurrent DEF R!Table, R!Only, R!Bucket, R!Live, R!Swept
      <4>2. CASE DOMAIN R!Table(p) = {}
        BY <1>0, <2>1, <4>1, <4>2
      <4>3. CASE DOMAIN R!Table(p) # {}
        <5>1. PICK q : q \in DOMAIN R!Table(p)
          BY <4>3
        <5> QED
          BY <1>0, <2>3, <2>4, <2>5, <4>1, <5>1
      <4> QED
        BY <4>2, <4>3
    <3> QED
      BY <3>1, <3>2
  <2>7. Bounds(buckets', nextExpiry', now')
    BY <1>0, <2>1, <2>2, <2>3, <2>4, <2>5, <2>6 DEF Bounds
  <2> QED
    BY <1>0, <2>1, <2>7 DEF RateInv, Bounds, FullMeansLive, R!FullMeansLive
<1> QED
  BY <1>1, <1>2, <1>3, <1>4 DEF R!Next

\* A new peer is turned away only while a full table of peers is still counting
\* down: a sweep is never put off past the moment it would free a place.
THEOREM FullTablesAreLive == AllSpec => []FullMeansLive
<1>1. ASSUME AllInit PROVE RateInv
  <2>1. now = 0 /\ refused = "no" /\ DOMAIN buckets = {} /\ nextExpiry = LastTick + Ttl + 1
        /\ buckets = [p \in {} |-> 0]
    BY <1>1 DEF AllInit, R!Init, R!Never
  <2> QED
    BY <2>1, ServicesAssumption
       DEF RateInv, Bounds, FullMeansLive, R!FullMeansLive, ServicesAssumption
<1>2. RateInv /\ [AllNext]_all => RateInv'
  <2>1. ASSUME RateInv, UNCHANGED rate PROVE RateInv'
    <3>1. UNCHANGED <<now, buckets, nextExpiry, refused>>
      BY <2>1 DEF rate
    <3> QED
      BY <2>1, <3>1 DEF RateInv, Bounds, FullMeansLive, R!FullMeansLive, R!Live
  <2> QED
    BY <2>1, RateStep DEF AllNext, all
<1>3. RateInv => FullMeansLive
  BY DEF RateInv
<1> QED
  BY <1>1, <1>2, <1>3, PTL DEF AllSpec

-----------------------------------------------------------------------------
(* The engines: whoever works with a loaded model holds its lock, and a       *)
(* cache has one entry for a configuration.                                  *)

Configurations == {E!Configuration(asked) : asked \in SomeAsked}

\* The entries of one cache: engines that were built, no two of a configuration.
OneEach(s, B) ==
    /\ s \in Seq(1..Len(B))
    /\ \A j, k \in 1..Len(s) : B[s[j]] = B[s[k]] => j = k

\* Of a user: the engine it holds was built, and it has the lock while it works.
UserInv(u) ==
    /\ user[u] \in {"idle", "native", "resolved", "loading", "infer", "drain"}
    /\ mine[u] \in 0..Len(engine)
    /\ user[u] \in {"resolved", "loading", "infer", "drain"} => mine[u] # 0
    /\ user[u] \in {"loading", "infer", "drain"} => engineLock[mine[u]] = u

EngineTypes ==
    /\ engine \in Seq(Configurations) /\ Len(engine) <= MaxBuilt
    /\ DOMAIN entries = E!Engines
    /\ loads \in [1..MaxBuilt -> 0..1]
    /\ engineLock \in [1..MaxBuilt -> Users \cup {Free}]
    /\ DOMAIN user = Users /\ DOMAIN mine = Users

EngineInv ==
    /\ EngineTypes
    /\ \A e \in E!Engines : OneEach(entries[e], engine)
    /\ \A u \in Users : UserInv(u)

\* A hit moves one entry to the end.
LEMMA RefreshedEntries ==
    ASSUME NEW S, NEW s \in Seq(S), NEW k \in 1..Len(s)
    PROVE  /\ E!Refreshed(s, k) \in Seq(S)
           /\ Len(E!Refreshed(s, k)) = Len(s)
           /\ \A j \in 1..Len(s) : E!Refreshed(s, k)[j] =
                  IF j < k THEN s[j] ELSE IF j < Len(s) THEN s[j + 1] ELSE s[k]
<1> DEFINE n == Len(s)
           a == SubSeq(s, 1, k - 1)
           b == SubSeq(s, k + 1, n)
           c == <<s[k]>>
<1>0. n \in Nat /\ k \in 1..n /\ \A i \in 1..n : s[i] \in S
  OBVIOUS
<1>1. /\ a \in Seq(S) /\ Len(a) = k - 1 /\ \A i \in 1..(k - 1) : a[i] = s[i]
  <2>1. \A i \in 1..(k - 1) : s[i] \in S
    BY <1>0
  <2>2. 1 \in Int /\ k - 1 \in Int
    BY <1>0
  <2>3. /\ a \in Seq(S) /\ Len(a) = (IF 1 <= k - 1 THEN (k - 1) - 1 + 1 ELSE 0)
        /\ \A i \in 1..((k - 1) - 1 + 1) : a[i] = s[1 + i - 1]
    BY <2>1, <2>2, SubSeqProperties
  <2> QED
    BY <1>0, <2>3
<1>2. /\ b \in Seq(S) /\ Len(b) = n - k /\ \A i \in 1..(n - k) : b[i] = s[k + i]
  <2>1. \A i \in (k + 1)..n : s[i] \in S
    BY <1>0
  <2>2. k + 1 \in Int /\ n \in Int
    BY <1>0
  <2>3. /\ b \in Seq(S) /\ Len(b) = (IF k + 1 <= n THEN n - (k + 1) + 1 ELSE 0)
        /\ \A i \in 1..(n - (k + 1) + 1) : b[i] = s[(k + 1) + i - 1]
    BY <2>1, <2>2, SubSeqProperties
  <2> QED
    BY <1>0, <2>3
<1>3. c \in Seq(S) /\ Len(c) = 1 /\ c[1] = s[k]
  BY <1>0
<1>4. E!Refreshed(s, k) = (a \o b) \o c
  BY DEF E!Refreshed
<1> HIDE DEF n, a, b, c
<1>5. /\ a \o b \in Seq(S) /\ Len(a \o b) = (k - 1) + (n - k)
      /\ \A i \in 1..((k - 1) + (n - k)) :
            (a \o b)[i] = IF i <= k - 1 THEN a[i] ELSE b[i - (k - 1)]
  <2>1. /\ a \o b \in Seq(S) /\ Len(a \o b) = Len(a) + Len(b)
        /\ \A i \in 1..(Len(a) + Len(b)) :
              (a \o b)[i] = IF i <= Len(a) THEN a[i] ELSE b[i - Len(a)]
    BY <1>1, <1>2, ConcatProperties
  <2> QED
    BY <1>1, <1>2, <2>1
<1>6. /\ (a \o b) \o c \in Seq(S) /\ Len((a \o b) \o c) = (k - 1) + (n - k) + 1
      /\ \A i \in 1..((k - 1) + (n - k) + 1) :
            ((a \o b) \o c)[i] =
                IF i <= (k - 1) + (n - k) THEN (a \o b)[i] ELSE c[i - ((k - 1) + (n - k))]
  <2> DEFINE d == a \o b
  <2>0. d \in Seq(S) /\ Len(d) = (k - 1) + (n - k)
    BY <1>5
  <2> HIDE DEF d
  <2>1. /\ d \o c \in Seq(S) /\ Len(d \o c) = Len(d) + Len(c)
        /\ \A i \in 1..(Len(d) + Len(c)) :
              (d \o c)[i] = IF i <= Len(d) THEN d[i] ELSE c[i - Len(d)]
    BY <1>3, <2>0, ConcatProperties
  <2>2. /\ d \o c \in Seq(S) /\ Len(d \o c) = (k - 1) + (n - k) + 1
        /\ \A i \in 1..((k - 1) + (n - k) + 1) :
              (d \o c)[i] = IF i <= (k - 1) + (n - k) THEN d[i] ELSE c[i - ((k - 1) + (n - k))]
    BY <1>3, <2>0, <2>1
  <2> QED
    BY <2>2 DEF d
<1>7. ASSUME NEW j \in 1..n
      PROVE  ((a \o b) \o c)[j] = IF j < k THEN s[j] ELSE IF j < n THEN s[j + 1] ELSE s[k]
  <2>1. CASE j < k
    BY <1>0, <1>1, <1>5, <1>6, <2>1
  <2>2. CASE ~ (j < k) /\ j < n
    <3>1. /\ j \in 1..((k - 1) + (n - k)) /\ j \in 1..((k - 1) + (n - k) + 1)
          /\ j <= (k - 1) + (n - k) /\ ~ (j <= k - 1)
          /\ j - (k - 1) \in 1..(n - k) /\ k + (j - (k - 1)) = j + 1
      BY <1>0, <2>2
    <3>2. ((a \o b) \o c)[j] = (a \o b)[j]
      BY <1>6, <3>1
    <3>3. (a \o b)[j] = b[j - (k - 1)]
      BY <1>5, <3>1
    <3>4. b[j - (k - 1)] = s[j + 1]
      BY <1>2, <3>1
    <3> QED
      BY <2>2, <3>2, <3>3, <3>4
  <2>3. CASE ~ (j < k) /\ ~ (j < n)
    <3>1. j = n /\ j - ((k - 1) + (n - k)) = 1 /\ ~ (j <= (k - 1) + (n - k))
      BY <1>0, <2>3
    <3>2. ((a \o b) \o c)[j] = c[1]
      BY <1>0, <1>6, <3>1
    <3> QED
      BY <1>3, <2>3, <3>2
  <2> QED
    BY <2>1, <2>2, <2>3
<1> QED
  BY <1>0, <1>4, <1>6, <1>7 DEF n

\* A hit moves an entry and makes no second one.
LEMMA RefreshedIsOneEach ==
    ASSUME NEW B, NEW s, Len(B) \in Nat, OneEach(s, B), NEW k \in 1..Len(s)
    PROVE  OneEach(E!Refreshed(s, k), B)
<1> DEFINE r == E!Refreshed(s, k)
           at == [j \in 1..Len(s) |-> IF j < k THEN j ELSE IF j < Len(s) THEN j + 1 ELSE k]
<1>1. s \in Seq(1..Len(B)) /\ Len(s) \in Nat
  BY DEF OneEach
<1>2. /\ r \in Seq(1..Len(B)) /\ Len(r) = Len(s)
      /\ \A j \in 1..Len(s) :
            r[j] = IF j < k THEN s[j] ELSE IF j < Len(s) THEN s[j + 1] ELSE s[k]
  BY <1>1, RefreshedEntries
<1> HIDE DEF r
<1>3. ASSUME NEW j \in 1..Len(s) PROVE at[j] \in 1..Len(s) /\ r[j] = s[at[j]]
  BY <1>1, <1>2
<1>4. ASSUME NEW i \in 1..Len(s), NEW j \in 1..Len(s), at[i] = at[j] PROVE i = j
  <2> DEFINE n == Len(s)
             moved(m) == IF m < k THEN m ELSE IF m < n THEN m + 1 ELSE k
  <2>1. n \in Nat /\ k \in 1..n /\ i \in 1..n /\ j \in 1..n
    BY <1>1
  <2>2. moved(i) = moved(j)
    BY <1>4
  <2> HIDE DEF n
  <2> QED
    BY <2>1, <2>2
<1> HIDE DEF at
<1>5. ASSUME NEW i \in 1..Len(s), NEW j \in 1..Len(s), B[r[i]] = B[r[j]] PROVE i = j
  <2>1. /\ at[i] \in 1..Len(s) /\ r[i] = s[at[i]]
        /\ at[j] \in 1..Len(s) /\ r[j] = s[at[j]]
    BY <1>3
  <2>2. B[s[at[i]]] = B[s[at[j]]]
    BY <1>5, <2>1
  <2>3. at[i] = at[j]
    BY <2>1, <2>2 DEF OneEach
  <2> QED
    BY <1>4, <2>3
<1>6. OneEach(r, B)
  BY <1>2, <1>5 DEF OneEach
<1> QED
  BY <1>6 DEF r

\* A cache without its first entry.
LEMMA TailIsOneEach ==
    ASSUME NEW B, NEW s, Len(B) \in Nat, OneEach(s, B), s # <<>>
    PROVE  /\ OneEach(Tail(s), B)
           /\ \A j \in 1..Len(Tail(s)) : j + 1 \in 1..Len(s) /\ Tail(s)[j] = s[j + 1]
<1> DEFINE t == Tail(s)
<1>1. s \in Seq(1..Len(B)) /\ Len(s) \in Nat
  BY DEF OneEach
<1>2. /\ t \in Seq(1..Len(B)) /\ Len(t) = Len(s) - 1 /\ Len(t) \in Nat
      /\ \A j \in 1..Len(t) : t[j] = s[j + 1]
  BY <1>1, HeadTailProperties
<1> HIDE DEF t
<1>3. \A j \in 1..Len(t) : j \in Int /\ j + 1 \in 1..Len(s) /\ t[j] = s[j + 1]
  BY <1>1, <1>2
<1>4. ASSUME NEW i \in 1..Len(t), NEW j \in 1..Len(t), B[t[i]] = B[t[j]] PROVE i = j
  <2>0. /\ i + 1 \in 1..Len(s) /\ j + 1 \in 1..Len(s)
        /\ B[s[i + 1]] = B[s[j + 1]]
    BY <1>3, <1>4
  <2>1. i + 1 = j + 1
    BY <2>0 DEF OneEach
  <2> QED
    BY <1>3, <2>1
<1>5. OneEach(t, B)
  BY <1>2, <1>4 DEF OneEach
<1> QED
  BY <1>3, <1>5 DEF t

\* A new engine at the end of a cache that has none of its configuration.
LEMMA AppendedIsOneEach ==
    ASSUME NEW B, NEW s, Len(B) \in Nat, OneEach(s, B), NEW m \in 1..Len(B),
           \A j \in 1..Len(s) : B[s[j]] # B[m]
    PROVE  OneEach(Append(s, m), B)
<1> DEFINE x == Append(s, m)
           n == Len(s)
<1>1. s \in Seq(1..Len(B)) /\ n \in Nat
  BY DEF OneEach
<1>2. /\ x \in Seq(1..Len(B)) /\ Len(x) = n + 1 /\ x[n + 1] = m
      /\ \A j \in 1..n : x[j] = s[j]
  BY <1>1, AppendProperties
<1> HIDE DEF x
<1>3. ASSUME NEW i \in 1..(n + 1), NEW j \in 1..(n + 1), B[x[i]] = B[x[j]] PROVE i = j
  <2>1. i \in 1..n \/ i = n + 1
    BY <1>1
  <2>2. j \in 1..n \/ j = n + 1
    BY <1>1
  <2>3. CASE i = n + 1 \/ j = n + 1
    BY <1>2, <1>3, <2>1, <2>2, <2>3
  <2>4. CASE i \in 1..n /\ j \in 1..n
    BY <1>2, <1>3, <2>4 DEF OneEach
  <2> QED
    BY <2>1, <2>2, <2>3, <2>4
<1>4. OneEach(x, B)
  BY <1>2, <1>3 DEF OneEach
<1> QED
  BY <1>4 DEF x

\* An engine built for another configuration changes nothing in a cache, and may
\* enter one that has none of its own: at the end, for the first if there is no
\* room.
LEMMA GrownIsOneEach ==
    ASSUME NEW B \in Seq(Configurations), NEW s, OneEach(s, B), NEW c \in Configurations
    PROVE  /\ OneEach(s, Append(B, c))
           /\ (\A j \in 1..Len(s) : B[s[j]] # c) =>
                  OneEach(E!Extended(s, Len(B) + 1), Append(B, c))
<1> DEFINE G == Append(B, c)
           n == Len(B)
<1>1. /\ n \in Nat /\ Len(G) = n + 1 /\ G[n + 1] = c /\ \A i \in 1..n : G[i] = B[i]
  BY AppendProperties
<1>2. /\ s \in Seq(1..n) /\ Len(s) \in Nat /\ \A j \in 1..Len(s) : s[j] \in 1..n
  BY DEF OneEach
<1> HIDE DEF G, n
<1>3. s \in Seq(1..(n + 1))
  BY <1>1, <1>2
<1>4. \A j \in 1..Len(s) : G[s[j]] = B[s[j]]
  BY <1>1, <1>2
<1>5. OneEach(s, G)
  BY <1>1, <1>3, <1>4 DEF OneEach
<1>6. ASSUME \A j \in 1..Len(s) : B[s[j]] # c PROVE OneEach(E!Extended(s, n + 1), G)
  <2>1. n + 1 \in 1..Len(G) /\ Len(G) \in Nat
    BY <1>1
  <2>2. \A j \in 1..Len(s) : G[s[j]] # G[n + 1]
    BY <1>1, <1>4, <1>6
  <2>3. CASE Len(s) < Slots
    <3>1. E!Extended(s, n + 1) = Append(s, n + 1)
      BY <2>3 DEF E!Extended
    <3> QED
      BY <1>5, <2>1, <2>2, <3>1, AppendedIsOneEach
  <2>4. CASE ~ (Len(s) < Slots)
    <3>1. E!Extended(s, n + 1) = Append(Tail(s), n + 1)
      BY <2>4 DEF E!Extended
    <3>2. s # <<>>
      BY <1>2, <2>4, ServicesAssumption DEF ServicesAssumption
    <3>3. /\ OneEach(Tail(s), G)
          /\ \A j \in 1..Len(Tail(s)) : j + 1 \in 1..Len(s) /\ Tail(s)[j] = s[j + 1]
      BY <1>5, <2>1, <3>2, TailIsOneEach
    <3>4. \A j \in 1..Len(Tail(s)) : G[Tail(s)[j]] # G[n + 1]
      BY <2>2, <3>3
    <3>5. OneEach(Append(Tail(s), n + 1), G)
      BY <2>1, <3>3, <3>4, AppendedIsOneEach
    <3> QED
      BY <3>1, <3>5
  <2> QED
    BY <2>3, <2>4
<1> QED
  BY <1>5, <1>6 DEF G, n

\* The lock and the load of an engine are touched by its holder alone.
LEMMA UsersKept ==
    ASSUME EngineInv, NEW u \in Users, Len(engine') \in Nat, Len(engine) <= Len(engine'),
           \A v \in Users : v # u => user'[v] = user[v] /\ mine'[v] = mine[v],
           \/ engineLock' = engineLock
           \/ /\ mine[u] \in 1..Len(engine)
              /\ engineLock' = [engineLock EXCEPT ![mine[u]] = u]
              /\ engineLock[mine[u]] = Free
           \/ /\ mine[u] \in 1..Len(engine)
              /\ engineLock' = [engineLock EXCEPT ![mine[u]] = Free]
              /\ engineLock[mine[u]] = u
    PROVE  \A v \in Users : v # u => UserInv(v)'
<1> SUFFICES ASSUME NEW v \in Users, v # u PROVE UserInv(v)'
  OBVIOUS
<1>1. UserInv(v) /\ user'[v] = user[v] /\ mine'[v] = mine[v] /\ Len(engine) \in Nat
  BY DEF EngineInv, EngineTypes
<1>2. mine'[v] \in 0..Len(engine')
  BY <1>1 DEF UserInv
<1>3. user[v] \in {"loading", "infer", "drain"} =>
         mine[v] \in 1..MaxBuilt /\ engineLock'[mine[v]] = v
  <2>1. ASSUME user[v] \in {"loading", "infer", "drain"}
        PROVE  mine[v] \in 1..MaxBuilt /\ engineLock[mine[v]] = v
    BY <1>1, <2>1, ServicesAssumption DEF UserInv, EngineInv, EngineTypes, ServicesAssumption
  <2>2. v # Free /\ u # v
    BY ServicesAssumption DEF ServicesAssumption
  <2> QED
    BY <2>1, <2>2 DEF EngineInv, EngineTypes
<1> QED
  BY <1>1, <1>2, <1>3 DEF UserInv

\* A lookup finds the one entry of its configuration, or builds what has none.
LEMMA LookupStep ==
    ASSUME EngineInv, NEW u \in Users, NEW asked \in SomeAsked,
           E!GetCached(u, asked) \/ E!GetBuilt(u, asked)
    PROVE  EngineInv'
<1> DEFINE c == E!Configuration(asked)
<1>0. /\ c \in Configurations /\ EngineTypes /\ engine \in Seq(Configurations)
      /\ Len(engine) \in Nat /\ MaxBuilt \in Nat
      /\ \A e \in E!Engines : OneEach(entries[e], engine)
  BY ServicesAssumption DEF EngineInv, EngineTypes, Configurations, ServicesAssumption
<1>1. ASSUME NEW i \in 1..Len(engine'), E!Hold(u, i, c.engine),
             engine' \in Seq(Configurations), Len(engine) <= Len(engine'),
             Len(engine') <= MaxBuilt, UNCHANGED <<loads, engineLock>>,
             DOMAIN entries' = E!Engines,
             \A e \in E!Engines : OneEach(entries'[e], engine')
      PROVE  EngineInv'
  <2> DEFINE s == IF c.engine = "whistle" THEN "native" ELSE "resolved"
  <2>1. /\ user' = [user EXCEPT ![u] = s] /\ mine' = [mine EXCEPT ![u] = i]
    BY <1>1 DEF E!Hold
  <2>2. /\ \A v \in Users : v # u => user'[v] = user[v] /\ mine'[v] = mine[v]
        /\ user'[u] \in {"native", "resolved"} /\ mine'[u] = i
        /\ DOMAIN user' = Users /\ DOMAIN mine' = Users
    BY <1>0, <2>1 DEF EngineTypes
  <2>3. Len(engine') \in Nat
    BY <1>1
  <2>4. \A v \in Users : v # u => UserInv(v)'
    BY <1>1, <2>2, <2>3, UsersKept
  <2>5. UserInv(u)'
    BY <2>2, <2>3 DEF UserInv
  <2>6. EngineTypes'
    BY <1>0, <1>1, <2>2 DEF EngineTypes
  <2> QED
    BY <1>1, <2>4, <2>5, <2>6 DEF EngineInv
<1>2. CASE E!GetCached(u, asked)
  <2>0. PICK i \in 1..Len(engine) : \E k \in E!Position(c.engine, i) :
           /\ entries' = [entries EXCEPT ![c.engine] = E!Refreshed(@, k)]
           /\ E!Hold(u, i, c.engine)
    BY <1>2 DEF E!GetCached
  <2>1. PICK k \in E!Position(c.engine, i) :
           /\ entries' = [entries EXCEPT ![c.engine] = E!Refreshed(@, k)]
           /\ E!Hold(u, i, c.engine)
    BY <2>0
  <2>2. UNCHANGED <<engine, loads, engineLock>>
    BY <1>2 DEF E!GetCached
  <2>3. k \in 1..Len(entries[c.engine])
    BY <2>1 DEF E!Position
  <2>4. ASSUME NEW e \in E!Engines PROVE OneEach(entries'[e], engine')
    <3>1. CASE e = c.engine
      <4>1. entries'[e] = E!Refreshed(entries[e], k)
        BY <1>0, <2>1, <3>1 DEF EngineTypes
      <4>2. k \in 1..Len(entries[e]) /\ OneEach(entries[e], engine)
        BY <1>0, <2>3, <3>1
      <4>3. OneEach(E!Refreshed(entries[e], k), engine)
        BY <1>0, <4>2, RefreshedIsOneEach
      <4> QED
        BY <2>2, <4>1, <4>3
    <3>2. CASE e # c.engine
      <4>1. entries'[e] = entries[e]
        BY <1>0, <2>1, <3>2 DEF EngineTypes
      <4> QED
        BY <1>0, <2>2, <4>1
    <3> QED
      BY <3>1, <3>2
  <2>5. DOMAIN entries' = E!Engines
    BY <1>0, <2>1 DEF EngineTypes
  <2> QED
    BY <1>0, <1>1, <2>1, <2>2, <2>4, <2>5 DEF EngineTypes
<1>3. CASE E!GetBuilt(u, asked)
  <2>1. /\ Len(engine) < MaxBuilt /\ engine' = Append(engine, c)
        /\ \A i \in 1..Len(engine) : engine[i] = c => E!Position(c.engine, i) = {}
        /\ entries' = [entries EXCEPT ![c.engine] = E!Extended(@, Len(engine) + 1)]
        /\ E!Hold(u, Len(engine) + 1, c.engine) /\ UNCHANGED <<loads, engineLock>>
    BY <1>3 DEF E!GetBuilt
  <2> HIDE DEF c
  <2>2. engine' \in Seq(Configurations) /\ Len(engine') = Len(engine) + 1
    BY <1>0, <2>1, AppendProperties
  <2>3. ASSUME NEW e \in E!Engines PROVE OneEach(entries'[e], engine')
    <3>0. OneEach(entries[e], engine)
      BY <1>0
    <3>1. CASE e = c.engine
      <4>1. entries'[e] = E!Extended(entries[e], Len(engine) + 1)
        BY <1>0, <2>1, <3>1 DEF EngineTypes
      <4>2. \A j \in 1..Len(entries[e]) : engine[entries[e][j]] # c
        <5> SUFFICES ASSUME NEW j \in 1..Len(entries[e]), engine[entries[e][j]] = c
                     PROVE  FALSE
          OBVIOUS
        <5>1. entries[e][j] \in 1..Len(engine)
          BY <3>0 DEF OneEach
        <5>2. j \in E!Position(c.engine, entries[e][j])
          BY <3>1 DEF E!Position
        <5> QED
          BY <2>1, <5>1, <5>2
      <4>3. OneEach(E!Extended(entries[e], Len(engine) + 1), Append(engine, c))
        BY <1>0, <3>0, <4>2, GrownIsOneEach
      <4> QED
        BY <2>1, <4>1, <4>3
    <3>2. CASE e # c.engine
      <4>1. entries'[e] = entries[e]
        BY <1>0, <2>1, <3>2 DEF EngineTypes
      <4>2. OneEach(entries[e], Append(engine, c))
        BY <1>0, <3>0, GrownIsOneEach
      <4> QED
        BY <2>1, <4>1, <4>2
    <3> QED
      BY <3>1, <3>2
  <2>4. DOMAIN entries' = E!Engines
    BY <1>0, <2>1 DEF EngineTypes
  <2>5. /\ Len(engine) + 1 \in 1..Len(engine') /\ Len(engine) <= Len(engine')
        /\ Len(engine') <= MaxBuilt
    BY <1>0, <2>1, <2>2
  <2> QED
    BY <1>1, <2>1, <2>2, <2>3, <2>4, <2>5
<1> QED
  BY <1>2, <1>3

\* A user that holds an engine goes on with it, or gives it back.
LEMMA TranscribeStep ==
    ASSUME EngineInv, NEW u \in Users,
           \/ E!Enter(u) \/ E!Load(u) \/ E!UseLoaded(u) \/ E!Inferred(u)
           \/ E!StartDrain(u) \/ E!Drained(u) \/ E!Raises(u) \/ E!NativeEnds(u)
    PROVE  EngineInv'
<1>0. /\ EngineTypes /\ UserInv(u) /\ Len(engine) \in Nat /\ MaxBuilt \in Nat
  BY ServicesAssumption DEF EngineInv, EngineTypes, ServicesAssumption
<1>1. ASSUME UNCHANGED <<engine, entries>>, loads' \in [1..MaxBuilt -> 0..1],
             NEW s, user' = [user EXCEPT ![u] = s],
             mine' = mine \/ mine' = [mine EXCEPT ![u] = 0],
             \/ engineLock' = engineLock
             \/ /\ mine[u] \in 1..Len(engine)
                /\ engineLock' = [engineLock EXCEPT ![mine[u]] = u]
                /\ engineLock[mine[u]] = Free
             \/ /\ mine[u] \in 1..Len(engine)
                /\ engineLock' = [engineLock EXCEPT ![mine[u]] = Free]
                /\ engineLock[mine[u]] = u,
             UserInv(u)'
      PROVE  EngineInv'
  <2>1. /\ \A v \in Users : v # u => user'[v] = user[v] /\ mine'[v] = mine[v]
        /\ DOMAIN user' = Users /\ DOMAIN mine' = Users
    BY <1>0, <1>1 DEF EngineTypes
  <2>2. Len(engine') \in Nat /\ Len(engine) <= Len(engine')
    BY <1>0, <1>1
  <2>3. \A v \in Users : v # u => UserInv(v)'
    BY <1>1, <2>1, <2>2, UsersKept
  <2>4. EngineTypes'
    BY <1>0, <1>1, <2>1 DEF EngineTypes
  <2> QED
    BY <1>1, <2>3, <2>4 DEF EngineInv
<1>2. loads \in [1..MaxBuilt -> 0..1]
  BY <1>0 DEF EngineTypes
<1>3. user[u] \in {"resolved", "loading", "infer", "drain"} =>
         mine[u] \in 1..Len(engine) /\ mine[u] \in 1..MaxBuilt
  BY <1>0 DEF UserInv, EngineTypes
<1>4. ASSUME NEW s, user' = [user EXCEPT ![u] = s] PROVE user'[u] = s
  BY <1>0, <1>4 DEF EngineTypes
<1>5. CASE E!Enter(u)
  <2>1. /\ user[u] = "resolved" /\ user' = [user EXCEPT ![u] = "loading"]
        /\ engineLock[mine[u]] = Free
        /\ engineLock' = [engineLock EXCEPT ![mine[u]] = u]
        /\ UNCHANGED <<engine, entries, loads, mine>>
    BY <1>5 DEF E!Enter, E!Go
  <2>2. engineLock'[mine[u]] = u
    BY <1>0, <1>3, <2>1 DEF EngineTypes
  <2>3. UserInv(u)'
    BY <1>0, <1>3, <1>4, <2>1, <2>2 DEF UserInv
  <2> QED
    BY <1>1, <1>2, <1>3, <2>1, <2>3
<1>6. CASE E!Load(u) \/ E!UseLoaded(u) \/ E!StartDrain(u)
  <2>1. PICK s \in {"infer", "drain"} :
           /\ user[u] \in {"loading", "infer"} /\ user' = [user EXCEPT ![u] = s]
           /\ UNCHANGED <<engine, entries, engineLock, mine>>
    BY <1>6 DEF E!Load, E!UseLoaded, E!StartDrain, E!Go
  <2>2. loads' \in [1..MaxBuilt -> 0..1]
    <3>1. CASE E!Load(u)
      <4>1. loads[mine[u]] = 0 /\ loads' = [loads EXCEPT ![mine[u]] = @ + 1]
        BY <3>1 DEF E!Load
      <4> QED
        BY <1>2, <1>3, <2>1, <4>1
    <3>2. CASE E!UseLoaded(u) \/ E!StartDrain(u)
      BY <1>2, <3>2 DEF E!UseLoaded, E!StartDrain
    <3> QED
      BY <1>6, <3>1, <3>2
  <2>3. UserInv(u)'
    BY <1>0, <1>3, <1>4, <2>1 DEF UserInv
  <2> QED
    BY <1>1, <1>2, <2>1, <2>2, <2>3
<1>7. CASE E!Inferred(u) \/ E!Drained(u) \/ E!Raises(u)
  <2>1. /\ user[u] \in {"loading", "infer", "drain"} /\ user' = [user EXCEPT ![u] = "idle"]
        /\ mine' = [mine EXCEPT ![u] = 0]
        /\ engineLock' = [engineLock EXCEPT ![mine[u]] = Free]
        /\ UNCHANGED <<engine, entries, loads>>
    BY <1>7 DEF E!Inferred, E!Drained, E!Raises, E!Leave
  <2>2. mine'[u] = 0 /\ engineLock[mine[u]] = u
    BY <1>0, <2>1 DEF UserInv, EngineTypes
  <2>3. UserInv(u)'
    <3>1. user'[u] = "idle" /\ mine'[u] = 0 /\ Len(engine') \in Nat
      BY <1>0, <1>4, <2>1, <2>2
    <3> QED
      BY <3>1 DEF UserInv
  <2> QED
    BY <1>1, <1>2, <1>3, <2>1, <2>2, <2>3
<1>8. CASE E!NativeEnds(u)
  <2>1. /\ user[u] = "native" /\ user' = [user EXCEPT ![u] = "idle"]
        /\ mine' = [mine EXCEPT ![u] = 0]
        /\ UNCHANGED <<engine, entries, loads, engineLock>>
    BY <1>8 DEF E!NativeEnds, E!Go
  <2>2. mine'[u] = 0
    BY <1>0, <2>1 DEF EngineTypes
  <2>3. UserInv(u)'
    BY <1>0, <1>4, <2>1, <2>2 DEF UserInv
  <2> QED
    BY <1>1, <1>2, <2>1, <2>3
<1> QED
  BY <1>5, <1>6, <1>7, <1>8

\* Nothing is cached or at work at first.
LEMMA EngineInit == ASSUME E!Init PROVE EngineInv
<1>1. /\ engine = <<>> /\ entries = [e \in E!Engines |-> <<>>]
      /\ loads = [i \in E!Ids |-> 0] /\ engineLock = [i \in E!Ids |-> Free]
      /\ user = [u \in Users |-> "idle"] /\ mine = [u \in Users |-> 0]
  BY DEF E!Init
<1>2. EngineTypes
  BY <1>1, ServicesAssumption DEF EngineTypes, E!Ids, ServicesAssumption
<1>3. \A e \in E!Engines : OneEach(entries[e], engine)
  BY <1>1 DEF OneEach
<1>4. \A u \in Users : UserInv(u)
  BY <1>1 DEF UserInv
<1> QED
  BY <1>2, <1>3, <1>4 DEF EngineInv

\* A loaded model never runs two inferences at once, whichever run still holds an
\* engine the cache forgot; an engine loads its model once; and the cache keeps
\* one engine of a configuration, however requests spell it.
THEOREM OneRunForEachModel == AllSpec => []OneRunPerModel
<1>1. AllInit => EngineInv
  BY EngineInit DEF AllInit
<1>2. EngineInv /\ [AllNext]_all => EngineInv'
  <2>1. ASSUME EngineInv, UNCHANGED engines PROVE EngineInv'
    <3>1. UNCHANGED <<engine, entries, loads, engineLock, user, mine>>
      BY <2>1 DEF engines
    <3> QED
      BY <2>1, <3>1 DEF EngineInv, EngineTypes, UserInv
  <2>2. EngineInv /\ E!Next => EngineInv'
    BY LookupStep, TranscribeStep DEF E!Next
  <2> QED
    BY <2>1, <2>2 DEF AllNext, all
<1>3. ASSUME EngineInv PROVE OneRunPerModel
  <2>1. \A u, v \in Users : E!Inferring(u) /\ E!Inferring(v) /\ u # v => mine[u] # mine[v]
    BY <1>3 DEF EngineInv, UserInv, E!Inferring
  <2>2. \A i \in E!Ids : loads[i] <= 1
    BY <1>3 DEF EngineInv, EngineTypes, E!Ids
  <2>3. \A e \in E!Engines : \A j, k \in 1..Len(entries[e]) :
           engine[entries[e][j]] = engine[entries[e][k]] => j = k
    BY <1>3 DEF EngineInv, OneEach
  <2> QED
    BY <2>1, <2>2, <2>3 DEF OneRunPerModel, E!OneRunPerModel
<1> QED
  BY <1>1, <1>2, <1>3, PTL DEF AllSpec

-----------------------------------------------------------------------------
(* The page: what is on show is of the watched job, which is polled until it  *)
(* has ended.                                                                 *)

Named == Files \cup Urls \cup {Nothing}

Selections == [gen : Nat, name : Named, staged : BOOLEAN]
Submissions == [gen : Nat, name : Files \cup Urls, at : {"uploading", "creating"}]

PageTypes ==
    /\ source \in Selections
    /\ media \in [file : Named, job : Named]
    /\ submission = Nothing \/ submission \in Submissions
    /\ watched \in Named
    /\ rows = Nothing \/ rows \in [job : Named, seeks : BOOLEAN]
    /\ panel \in [job : Named, gen : Nat, open : BOOLEAN, variant : Named]
    /\ polls \in [Files \cup Urls -> Nat]
    /\ timers \in [Files \cup Urls -> Nat]

\* The file behind the player is that of the selection, unless there is none; and
\* a submission of this selection is of its source.
Sourced ==
    /\ source.name \in Files => media.file \in {Nothing, source.name}
    /\ submission # Nothing =>
           /\ submission.gen <= source.gen
           /\ submission.gen = source.gen => submission.name = source.name

\* The timer stopPolling clears is one that is out.
Clearable == latest # Nothing => latest \in Files \cup Urls /\ timers[latest] > 0

PageInv == PageTypes /\ Sourced /\ Clearable /\ W!ShownIsWatched /\ W!WatchedIsFollowed

\* Another job is shown: nothing of the last one stays, and the new one is polled.
LEMMA WatchStep ==
    ASSUME PageInv, NEW j \in Files \cup Urls, NEW bound, W!Watch(j, bound),
           bound = j => media.file = j,
           source' \in Selections,
           source'.name = source.name \/ source'.name = Nothing,
           \/ submission' = Nothing
           \/ submission' = submission /\ source' = source
    PROVE  PageInv'
<1>0. /\ PageTypes /\ Sourced /\ Clearable /\ Nothing \notin Files \cup Urls
      /\ \A k \in Files \cup Urls : polls[k] \in Nat /\ timers[k] \in Nat
  BY ServicesAssumption DEF PageInv, PageTypes, ServicesAssumption
<1>1. /\ watched' = j /\ rows' = Nothing /\ hits' = Nothing /\ latest' = Nothing
      /\ panel' = [job |-> j, gen |-> panel.gen + 1, open |-> FALSE, variant |-> Nothing]
      /\ timers' = IF latest = Nothing THEN timers ELSE [timers EXCEPT ![latest] = @ - 1]
      /\ polls' = [polls EXCEPT ![j] = @ + 1]
      /\ media' = IF bound = j THEN [media EXCEPT !.job = j] ELSE [file |-> Nothing, job |-> Nothing]
  BY DEF W!Watch, W!NoMedia
<1>2. timers' \in [Files \cup Urls -> Nat]
  BY <1>0, <1>1 DEF PageTypes, Clearable
<1>3. polls' \in [Files \cup Urls -> Nat] /\ polls'[j] > 0
  BY <1>0, <1>1 DEF PageTypes
<1>4. /\ media' \in [file : Named, job : Named]
      /\ media'.job # Nothing => media'.job = media'.file /\ media'.job = j
      /\ media'.file \in {media.file, Nothing}
  BY <1>0, <1>1 DEF PageTypes, Named
<1>5. panel' \in [job : Named, gen : Nat, open : BOOLEAN, variant : Named]
  BY <1>0, <1>1 DEF PageTypes, Named
<1>6. PageTypes'
  BY <1>0, <1>1, <1>2, <1>3, <1>4, <1>5 DEF PageTypes, Named
<1>7. Sourced'
  BY <1>0, <1>4 DEF Sourced
<1>8. W!ShownIsWatched'
  BY <1>1, <1>4 DEF W!ShownIsWatched
<1>9. polls'[j] + timers'[j] > 0
  BY <1>2, <1>3
<1>10. W!WatchedIsFollowed'
  BY <1>1, <1>9 DEF W!WatchedIsFollowed
<1> QED
  BY <1>1, <1>6, <1>7, <1>8, <1>10 DEF PageInv, Clearable

\* A selection changes the player and what stands for it, and nothing on show.
LEMMA SelectStep ==
    ASSUME PageInv, NEW x \in Files \cup Urls, W!SelectFile(x) \/ W!SelectUrl(x)
    PROVE  PageInv'
<1>0. /\ PageTypes /\ Sourced /\ W!ShownIsWatched /\ W!WatchedIsFollowed /\ Clearable
      /\ source.gen \in Nat
  BY DEF PageInv, PageTypes, Selections
<1>1. /\ source' = [gen |-> source.gen + 1, name |-> x, staged |-> FALSE]
      /\ \/ media' = [file |-> x, job |-> Nothing]
         \/ media' = [file |-> Nothing, job |-> Nothing]
      /\ \/ rows' = rows
         \/ rows # Nothing /\ rows' = [rows EXCEPT !.seeks = FALSE]
      /\ UNCHANGED <<submission, watched, card, hits, query, polls, timers, latest, panel>>
  BY DEF W!SelectFile, W!SelectUrl, W!NoMedia, W!Search, W!Polling
<1>2. /\ source' \in Selections /\ source'.gen = source.gen + 1 /\ source'.name = x
  BY <1>0, <1>1 DEF Selections, Named
<1>3. /\ media' \in [file : Named, job : Named] /\ media'.job = Nothing
      /\ media'.file \in {Nothing, x}
  BY <1>1 DEF Named
<1>4. /\ rows' = Nothing \/ rows' \in [job : Named, seeks : BOOLEAN]
      /\ rows' # Nothing => rows'.job = watched
  BY <1>0, <1>1 DEF PageTypes, W!ShownIsWatched
<1>5. Sourced'
  <2>1. submission # Nothing => submission.gen \in Nat
    BY <1>0 DEF PageTypes, Submissions
  <2>2. submission # Nothing => submission.gen < source'.gen
    BY <1>0, <1>2, <2>1 DEF Sourced
  <2> QED
    BY <1>0, <1>1, <1>2, <1>3, <2>1, <2>2 DEF Sourced
<1>6. W!ShownIsWatched'
  BY <1>0, <1>1, <1>3, <1>4 DEF W!ShownIsWatched
<1>7. PageTypes'
  BY <1>0, <1>1, <1>2, <1>3, <1>4 DEF PageTypes
<1> QED
  BY <1>0, <1>1, <1>5, <1>6, <1>7 DEF PageInv, Clearable, W!WatchedIsFollowed

\* A submission goes on, fails, or is accepted for a selection that is still there.
LEMMA SubmitStep ==
    ASSUME PageInv, W!Submit \/ W!SubmissionFails \/ W!Uploaded \/ W!Accepted
    PROVE  PageInv'
<1>0. /\ PageTypes /\ Sourced /\ W!ShownIsWatched /\ W!WatchedIsFollowed /\ Clearable
      /\ source \in Selections /\ source.gen \in Nat /\ source.name \in Named
      /\ Nothing \notin Files \cup Urls
  BY ServicesAssumption DEF PageInv, PageTypes, Selections, ServicesAssumption
<1>1. ASSUME UNCHANGED <<media, watched, card, rows, hits, query, polls, timers, latest, panel>>,
             source' \in Selections, source'.gen = source.gen, source'.name = source.name,
             submission' = Nothing \/ submission' \in Submissions,
             submission' # Nothing =>
                 submission'.gen <= source.gen /\
                 (submission'.gen = source.gen => submission'.name = source.name)
      PROVE  PageInv'
  BY <1>0, <1>1 DEF PageInv, PageTypes, Sourced, Clearable, W!ShownIsWatched, W!WatchedIsFollowed
<1>2. CASE W!Submit
  <2> DEFINE at == IF source.name \in Files /\ ~ source.staged THEN "uploading" ELSE "creating"
  <2>1. /\ source.name # Nothing
        /\ submission' = [gen |-> source.gen, name |-> source.name, at |-> at]
        /\ UNCHANGED <<source, media, watched, card, rows, hits, query, polls, timers,
                       latest, panel>>
    BY <1>2 DEF W!Submit, W!Search, W!Polling
  <2>2. submission' \in Submissions /\ submission'.gen = source.gen
        /\ submission'.name = source.name
    BY <1>0, <2>1 DEF Submissions, Named
  <2> QED
    BY <1>0, <1>1, <2>1, <2>2
<1>3. CASE W!SubmissionFails
  BY <1>0, <1>1, <1>3 DEF W!SubmissionFails, W!Search, W!Polling
<1>4. CASE W!Uploaded
  <2>1. /\ submission # Nothing
        /\ UNCHANGED <<media, watched, card, rows, hits, query, polls, timers, latest, panel>>
        /\ \/ /\ source' = [source EXCEPT !.staged = TRUE]
              /\ submission' = [submission EXCEPT !.at = "creating"]
           \/ submission' = Nothing /\ source' = source
    BY <1>4 DEF W!Uploaded, W!Search, W!Polling
  <2>2. submission \in Submissions
    BY <1>0, <2>1 DEF PageTypes
  <2>3. /\ [submission EXCEPT !.at = "creating"] \in Submissions
        /\ [submission EXCEPT !.at = "creating"].gen = submission.gen
        /\ [submission EXCEPT !.at = "creating"].name = submission.name
    BY <2>2 DEF Submissions
  <2>4. /\ [source EXCEPT !.staged = TRUE] \in Selections
        /\ [source EXCEPT !.staged = TRUE].gen = source.gen
        /\ [source EXCEPT !.staged = TRUE].name = source.name
    BY <1>0 DEF Selections
  <2>5. submission.gen <= source.gen /\ (submission.gen = source.gen => submission.name = source.name)
    BY <1>0, <2>1 DEF Sourced
  <2> QED
    BY <1>0, <1>1, <2>1, <2>3, <2>4, <2>5
<1>5. CASE W!Accepted
  <2>1. submission # Nothing /\ submission' = Nothing /\ submission \in Submissions
    BY <1>0, <1>5 DEF W!Accepted, PageTypes
  <2>2. CASE submission.gen # source.gen
    <3>1. UNCHANGED <<source, media, watched, card, rows, hits, query, polls, timers,
                      latest, panel>>
      BY <1>5, <2>2 DEF W!Accepted, W!Search, W!Polling
    <3> QED
      BY <1>0, <1>1, <2>1, <3>1
  <2>3. CASE submission.gen = source.gen
    <3> DEFINE j == submission.name
               bound == IF j \in Files /\ media.file # Nothing THEN j ELSE Nothing
    <3>1. /\ W!Watch(j, bound)
          /\ \/ source' = source
             \/ source' = [source EXCEPT !.name = Nothing, !.staged = FALSE]
      BY <1>5, <2>3 DEF W!Accepted
    <3>2. j \in Files \cup Urls /\ j = source.name
      BY <1>0, <2>1, <2>3 DEF Sourced, Submissions
    <3>3. bound = j => media.file = j
      BY <1>0, <3>2 DEF Sourced
    <3>4. /\ source' \in Selections
          /\ source'.name = source.name \/ source'.name = Nothing
      BY <1>0, <3>1 DEF Selections, Named
    <3> HIDE DEF j, bound
    <3> QED
      BY <2>1, <3>1, <3>2, <3>3, <3>4, WatchStep
  <2> QED
    BY <2>2, <2>3
<1> QED
  BY <1>2, <1>3, <1>4, <1>5

\* An answer to a poll, or a timer, of the job on show or of an earlier one.
LEMMA PollStep ==
    ASSUME PageInv, NEW j \in Files \cup Urls, W!PollReply(j) \/ W!TimerFires(j)
    PROVE  PageInv'
<1>0. /\ PageTypes /\ Sourced /\ W!ShownIsWatched /\ W!WatchedIsFollowed /\ Clearable
      /\ polls \in [Files \cup Urls -> Nat] /\ timers \in [Files \cup Urls -> Nat]
      /\ watched \in Named /\ Nothing \notin Files \cup Urls
  BY ServicesAssumption DEF PageInv, PageTypes, ServicesAssumption
<1>1. UNCHANGED <<source, media, submission, watched, rows, hits, query, panel>>
  BY DEF W!PollReply, W!TimerFires, W!Page, W!Search
<1>2. ASSUME polls' \in [Files \cup Urls -> Nat], timers' \in [Files \cup Urls -> Nat],
             Clearable', W!WatchedIsFollowed'
      PROVE  PageInv'
  BY <1>0, <1>1, <1>2 DEF PageInv, PageTypes, Sourced, W!ShownIsWatched
<1>3. CASE W!PollReply(j)
  <2>1. polls[j] > 0 /\ polls' = [polls EXCEPT ![j] = @ - 1]
    BY <1>3 DEF W!PollReply
  <2>2. polls' \in [Files \cup Urls -> Nat]
    BY <1>0, <2>1
  <2>3. CASE watched # j /\ UNCHANGED <<card, timers, latest>>
    <3>1. watched # Nothing => polls'[watched] = polls[watched]
      BY <1>0, <2>1, <2>3 DEF Named
    <3>2. W!WatchedIsFollowed'
      BY <1>0, <1>1, <2>3, <3>1 DEF W!WatchedIsFollowed
    <3> QED
      BY <1>0, <1>2, <2>2, <2>3, <3>2 DEF Clearable
  <2>4. CASE watched = j /\ W!PollAgain(j)
    <3>1. timers' = [timers EXCEPT ![j] = @ + 1] /\ latest' = j
      BY <2>4 DEF W!PollAgain
    <3>2. timers' \in [Files \cup Urls -> Nat] /\ timers'[j] > 0
      BY <1>0, <3>1
    <3>3. polls'[j] + timers'[j] > 0
      BY <2>2, <3>2
    <3> QED
      BY <1>1, <1>2, <2>2, <2>4, <3>1, <3>2, <3>3 DEF Clearable, W!WatchedIsFollowed
  <2>5. CASE card' \in {"failed", "over"} /\ UNCHANGED <<timers, latest>>
    BY <1>0, <1>2, <2>2, <2>5 DEF Clearable, W!WatchedIsFollowed
  <2> QED
    BY <1>3, <2>3, <2>4, <2>5 DEF W!PollReply
<1>4. CASE W!TimerFires(j)
  <2>1. /\ timers[j] > 0 /\ timers' = [timers EXCEPT ![j] = @ - 1] /\ card' = card
        /\ polls' = IF watched = j THEN [polls EXCEPT ![j] = @ + 1] ELSE polls
        /\ \/ latest = j /\ latest' = Nothing
           \/ latest # j /\ latest' = latest
           \/ latest' = latest /\ timers[j] > 1
    BY <1>4 DEF W!TimerFires
  <2>2. /\ timers' \in [Files \cup Urls -> Nat] /\ polls' \in [Files \cup Urls -> Nat]
        /\ timers'[j] = timers[j] - 1
        /\ \A k \in Files \cup Urls : k # j => timers'[k] = timers[k] /\ polls'[k] = polls[k]
        /\ watched = j => polls'[j] = polls[j] + 1
    BY <1>0, <2>1
  <2>3. Clearable'
    BY <1>0, <2>1, <2>2 DEF Clearable
  <2>4. W!WatchedIsFollowed'
    <3>1. watched # Nothing =>
             polls'[watched] + timers'[watched] = polls[watched] + timers[watched]
      BY <1>0, <2>2 DEF Named
    <3> QED
      BY <1>0, <1>1, <2>1, <3>1 DEF W!WatchedIsFollowed
  <2> QED
    BY <1>2, <2>2, <2>3, <2>4
<1> QED
  BY <1>3, <1>4

\* The other answers, and what the operator asks of the job on show.
LEMMA CallStep ==
    ASSUME PageInv,
           \/ \E c \in calls : W!PageReply(c) \/ W!PageEnds(c) \/ W!ResumeReply(c)
                               \/ W!SearchReply(c) \/ W!PanelReply(c)
           \/ W!Resume \/ W!SearchJob \/ W!StartCleanup
           \/ \E q \in Queries : W!TypeQuery(q)
    PROVE  PageInv'
<1> USE DEF W!Page, W!Search, W!Polling
<1>0. /\ PageTypes /\ Sourced /\ W!ShownIsWatched /\ W!WatchedIsFollowed /\ Clearable
      /\ panel \in [job : Named, gen : Nat, open : BOOLEAN, variant : Named]
      /\ panel.job = watched /\ watched \in Named
  BY DEF PageInv, PageTypes, W!ShownIsWatched
<1>1. ASSUME UNCHANGED <<source, media, submission, watched, card, polls, timers, latest>>,
             rows' = Nothing \/ rows' \in [job : Named, seeks : BOOLEAN],
             panel' \in [job : Named, gen : Nat, open : BOOLEAN, variant : Named],
             W!ShownIsWatched'
      PROVE  PageInv'
  BY <1>0, <1>1 DEF PageInv, PageTypes, Sourced, Clearable, W!WatchedIsFollowed
<1>2. ASSUME NEW c, W!PageReply(c) PROVE PageInv'
  <2>1. CASE watched = c.job
    <3>1. /\ rows' = [job |-> c.job, seeks |-> media.file # Nothing]
          /\ panel' = [job |-> c.job, gen |-> panel.gen + 1, open |-> TRUE, variant |-> Nothing]
          /\ UNCHANGED <<source, media, submission, watched, card, hits, query, polls, timers,
                         latest>>
      BY <1>2, <2>1 DEF W!PageReply
    <3>2. rows' \in [job : Named, seeks : BOOLEAN] /\ rows'.job = watched
      BY <1>0, <2>1, <3>1
    <3>3. /\ panel' \in [job : Named, gen : Nat, open : BOOLEAN, variant : Named]
          /\ panel'.job = watched /\ panel'.variant = Nothing
      BY <1>0, <2>1, <3>1 DEF Named
    <3> QED
      BY <1>0, <1>1, <3>1, <3>2, <3>3 DEF W!ShownIsWatched
  <2>2. CASE watched # c.job
    BY <1>0, <1>1, <1>2, <2>2 DEF W!PageReply, PageTypes, W!ShownIsWatched
  <2> QED
    BY <2>1, <2>2
<1>3. ASSUME NEW c, W!PageEnds(c) \/ W!Resume \/ W!StartCleanup PROVE PageInv'
  BY <1>0, <1>1, <1>3
     DEF W!PageEnds, W!Resume, W!StartCleanup, PageTypes, W!ShownIsWatched
<1>4. ASSUME NEW c, W!ResumeReply(c) PROVE PageInv'
  <2>1. /\ UNCHANGED <<source, media, submission, watched, card, rows, hits, query, timers,
                       latest, panel>>
        /\ polls' = polls \/ polls' = [polls EXCEPT ![watched] = @ + 1]
    BY <1>4 DEF W!ResumeReply
  <2>2. /\ polls' \in [Files \cup Urls -> Nat]
        /\ watched # Nothing => polls'[watched] >= polls[watched] /\ polls[watched] \in Nat
               /\ timers[watched] \in Nat /\ polls'[watched] \in Nat
    BY <1>0, <2>1 DEF PageTypes, Named
  <2> QED
    BY <1>0, <2>1, <2>2
       DEF PageInv, PageTypes, Sourced, Clearable, W!ShownIsWatched, W!WatchedIsFollowed
<1>5. ASSUME NEW c, W!SearchReply(c) PROVE PageInv'
  <2>1. /\ UNCHANGED <<source, media, submission, watched, card, rows, query, polls, timers,
                       latest, panel>>
        /\ \/ hits' = hits
           \/ /\ c.job = watched /\ c.query = query
              /\ hits' = [job |-> c.job, query |-> c.query]
    BY <1>5 DEF W!SearchReply
  <2> QED
    BY <1>0, <1>1, <2>1 DEF PageTypes, W!ShownIsWatched
<1>6. ASSUME NEW c, W!PanelReply(c) PROVE PageInv'
  <2>1. /\ UNCHANGED <<source, media, submission, watched, card, rows, hits, query, polls,
                       timers, latest>>
        /\ \/ panel' = panel
           \/ panel' = [panel EXCEPT !.variant = watched]
           \/ panel' = [panel EXCEPT !.variant = Nothing]
    BY <1>0, <1>6 DEF W!PanelReply
  <2>2. /\ panel' \in [job : Named, gen : Nat, open : BOOLEAN, variant : Named]
        /\ panel'.job = watched /\ panel'.variant \in {Nothing, watched}
    BY <1>0, <2>1 DEF Named, W!ShownIsWatched
  <2> QED
    BY <1>0, <1>1, <2>1, <2>2 DEF PageTypes, W!ShownIsWatched
<1>7. ASSUME NEW q, W!SearchJob \/ W!TypeQuery(q) PROVE PageInv'
  BY <1>0, <1>1, <1>7 DEF W!SearchJob, W!TypeQuery, PageTypes, W!ShownIsWatched
<1> QED
  BY <1>2, <1>3, <1>4, <1>5, <1>6, <1>7

\* Whatever answers come late, or not at all, everything on the page is of the job
\* on show, the player is bound to it only with its own file, and a job that has
\* not ended goes on being polled.
THEOREM PageFollowsItsJob == AllSpec => []PageFollowsWatched
<1>1. ASSUME AllInit PROVE PageInv
  <2>1. W!Init
    BY <1>1 DEF AllInit
  <2>2. PageTypes
    BY <2>1 DEF W!Init, W!Sources, PageTypes, Named, Selections
  <2> QED
    BY <2>1, <2>2 DEF W!Init, PageInv, Sourced, Clearable, W!ShownIsWatched, W!WatchedIsFollowed
<1>2. PageInv /\ [AllNext]_all => PageInv'
  <2>1. ASSUME PageInv, UNCHANGED page PROVE PageInv'
    <3>1. UNCHANGED <<source, media, submission, watched, card, rows, hits, query, polls,
                      timers, latest, panel>>
      BY <2>1 DEF page
    <3> QED
      BY <2>1, <3>1 DEF PageInv, PageTypes, Sourced, Clearable, W!ShownIsWatched,
                        W!WatchedIsFollowed
  <2>2. ASSUME PageInv, W!Next PROVE PageInv'
    <3>1. CASE \E x \in Files \cup Urls : W!SelectFile(x) \/ W!SelectUrl(x)
      BY <2>2, <3>1, SelectStep
    <3>2. CASE W!Submit \/ W!SubmissionFails \/ W!Uploaded \/ W!Accepted
      BY <2>2, <3>2, SubmitStep
    <3>3. ASSUME NEW j \in Files \cup Urls, W!OpenRecent(j) PROVE PageInv'
      <4>1. W!Watch(j, media.job) /\ UNCHANGED <<source, submission>>
        BY <3>3 DEF W!OpenRecent
      <4>2. media.job = j => media.file = j
        BY <2>2, ServicesAssumption DEF PageInv, W!ShownIsWatched, ServicesAssumption
      <4>3. source' \in Selections
        BY <2>2, <4>1 DEF PageInv, PageTypes
      <4> QED
        BY <2>2, <4>1, <4>2, <4>3, WatchStep
    <3>4. CASE \E j \in Files \cup Urls : W!PollReply(j) \/ W!TimerFires(j)
      BY <2>2, <3>4, PollStep
    <3>5. CASE \/ \E c \in calls : W!PageReply(c) \/ W!PageEnds(c) \/ W!ResumeReply(c)
                                   \/ W!SearchReply(c) \/ W!PanelReply(c)
               \/ W!Resume \/ W!SearchJob \/ W!StartCleanup
               \/ \E q \in Queries : W!TypeQuery(q)
      BY <2>2, <3>5, CallStep
    <3> QED
      BY <2>2, <3>1, <3>2, <3>3, <3>4, <3>5 DEF W!Next, W!Sources
  <2> QED
    BY <2>1, <2>2 DEF AllNext, all
<1>3. PageInv => PageFollowsWatched
  BY DEF PageInv, PageFollowsWatched, W!PageFollowsWatched
<1> QED
  BY <1>1, <1>2, <1>3, PTL DEF AllSpec
-----------------------------------------------------------------------------
(* The default pools.  No replacement of the default pool loses the bound,  *)
(* an admitted job or a stranded verdict.  The invariant orders the pools:  *)
(* the default is the youngest one built, every older one is shut with no   *)
(* thread left, and a caller may hold a reference to an old pool but never  *)
(* to one that can still admit.                                             *)

Order ==
    /\ cached = built
    /\ \A p \in Pools : p < built => mode[p] = "shut"
    /\ \A p \in Pools : p > built =>
          mode[p] = "fresh" /\ p \notin latched /\ stranded[p] = {}
    /\ \A c \in Callers : ref[c] <= built
    /\ \A p \in Pools : /\ mode[p] = "fresh" => alive[p] = 0
                        /\ mode[p] = "open" => alive[p] = Threads

\* No more runs than threads, and threads leave only an empty queue.
Staffed ==
    \A p \in Pools : IsFiniteSet(Busy(p)) /\ Cardinality(Busy(p)) <= alive[p]

Drained == \A p \in Pools : alive[p] # Threads => Waiting(p) = {}

PoolInv ==
    /\ TypeOK /\ Order /\ Staffed /\ Drained
    /\ OnlyTheDefaultWorks /\ StrandedVerdictsSurvive

\* A step that starts no run keeps every pool staffed, if no thread left.
LEMMA StillStaffed ==
    ASSUME TypeOK, Staffed, NEW p \in Pools, Busy(p)' \subseteq Busy(p),
           alive'[p] \in Nat, alive[p] <= alive'[p]
    PROVE  IsFiniteSet(Busy(p)') /\ Cardinality(Busy(p)') <= alive'[p]
<1>1. IsFiniteSet(Busy(p)) /\ Cardinality(Busy(p)) <= alive[p]
  BY DEF Staffed
<1>2. IsFiniteSet(Busy(p)') /\ Cardinality(Busy(p)') <= Cardinality(Busy(p))
  BY <1>1, FS_Subset
<1>3. Cardinality(Busy(p)) \in Nat /\ Cardinality(Busy(p)') \in Nat
  BY <1>1, <1>2, FS_CardinalityType
<1>4. alive[p] \in Nat
  BY DefaultExecutorAssumption DEF TypeOK
<1> QED
  BY <1>1, <1>2, <1>3, <1>4

\* Healing rows starts nothing and queues nothing.
LEMMA HealMoves ==
    ASSUME TypeOK, NEW healed, job' = HealRows(healed), NEW p \in Pools
    PROVE  /\ Busy(p)' \subseteq Busy(p) /\ Waiting(p)' \subseteq Waiting(p)
           /\ \A j \in Jobs : job'[j].at = "lost" => job[j].at = "lost" /\ j \notin healed
           /\ job' \in [Jobs -> [at : JobPlaces, pool : Pools \cup {NoPool}]]
  BY DEF TypeOK, HealRows, Busy, Waiting, In, JobPlaces

\* A caller asks for the default pool.
LEMMA InvGet ==
    ASSUME PoolInv, NEW c \in Callers, GetCached(c) \/ GetFirst(c) \/ GetReplaced(c)
    PROVE  PoolInv'
<1> USE DefaultExecutorAssumption
<1>1. CASE GetCached(c)
  BY <1>1 DEF GetCached, PoolInv, TypeOK, Order, Staffed, OnlyTheDefaultWorks,
              StrandedVerdictsSurvive, Drained, Busy, Waiting, In, Pools, NoPool
<1>2. CASE GetFirst(c)
  <2>1. /\ built' = built + 1 /\ cached' = built + 1 /\ cached = NoPool /\ built = 0
        /\ built + 1 \in Pools /\ ref' = [ref EXCEPT ![c] = built + 1]
        /\ UNCHANGED <<mode, alive, job, latched, stranded, joining>>
    <3>1. cached = built /\ built \in Nat /\ MaxPools \in Nat
      BY DEF PoolInv, TypeOK, Order
    <3> QED
      BY <1>2, <3>1 DEF GetFirst, Pools, NoPool
  <2>2. TypeOK'
    BY <2>1 DEF PoolInv, TypeOK, Pools
  <2>3. Order'
    <3>1. \A d \in Callers : ref'[d] <= built'
      BY <2>1 DEF PoolInv, TypeOK, Order, Pools, NoPool
    <3>2. \A p \in Pools : p \in Nat /\ 1 <= p
      BY DEF Pools
    <3>3. built' = 1 /\ cached' = 1
      BY <2>1
    <3>4. \A p \in Pools : ~(p < 1) /\ (p > 1 => p > built)
      BY <2>1, <3>2
    <3> QED
      BY <2>1, <3>1, <3>3, <3>4 DEF PoolInv, Order
  <2>4. Staffed' /\ Drained' /\ OnlyTheDefaultWorks'
    BY <2>1 DEF PoolInv, Staffed, Drained, OnlyTheDefaultWorks, Busy, Waiting, In, Pools, NoPool
  <2>5. StrandedVerdictsSurvive'
    BY <2>1 DEF PoolInv, StrandedVerdictsSurvive
  <2> QED
    BY <2>2, <2>3, <2>4, <2>5 DEF PoolInv
<1>3. CASE GetReplaced(c)
  <2> DEFINE old == cached  new == built + 1
  <2>1. PICK healed \in Healed(old) :
          LET left == stranded[old] \ healed IN
          /\ job' = HealRows(healed)
          /\ stranded' = [stranded EXCEPT ![old] = left, ![new] = left]
          /\ latched' = IF left # {} THEN latched \cup {new} ELSE latched \ {old}
    BY <1>3 DEF GetReplaced
  <2>2. /\ old \in Pools /\ new \in Pools /\ old < new /\ built' = new /\ cached' = new
        /\ mode[old] = "shut" /\ alive[old] = 0
        /\ mode' = mode /\ alive' = alive /\ joining' = joining
        /\ ref' = [ref EXCEPT ![c] = new]
    BY <1>3 DEF GetReplaced, Reuses, PoolInv, TypeOK, Order, Pools, NoPool
  <2>3. TypeOK'
    <3>1. job' \in [Jobs -> [at : JobPlaces, pool : Pools \cup {NoPool}]]
      BY <2>1, <2>2, HealMoves DEF PoolInv
    <3>2. stranded' \in [Pools -> SUBSET Jobs] /\ latched' \subseteq Pools
      BY <2>1, <2>2 DEF PoolInv, TypeOK
    <3> QED
      BY <2>2, <3>1, <3>2 DEF PoolInv, TypeOK, Pools
  <2>4. Order'
    <3>1. \A p \in Pools : p > new => p # old /\ p # new /\ p > built
      BY <2>2 DEF PoolInv, TypeOK, Order, Pools
    <3>2. \A p \in Pools : p > new => p \notin latched' /\ stranded'[p] = {}
      BY <2>1, <2>2, <3>1 DEF PoolInv, TypeOK, Order
    <3>3. \A p \in Pools : p < new => mode[p] = "shut"
      BY <2>2 DEF PoolInv, TypeOK, Order, Pools
    <3>4. \A d \in Callers : ref'[d] <= new
      BY <2>2 DEF PoolInv, TypeOK, Order, Pools, NoPool
    <3> QED
      BY <2>2, <3>1, <3>2, <3>3, <3>4 DEF PoolInv, Order
  <2>5. Staffed' /\ Drained'
    BY <2>1, <2>2, HealMoves, StillStaffed DEF PoolInv, TypeOK, Staffed, Drained
  <2>6. OnlyTheDefaultWorks'
    <3>1. ASSUME NEW p \in Pools, p # new
          PROVE  alive[p] = 0 /\ Busy(p) = {} /\ Waiting(p) = {}
      <4>1. CASE p # old
        BY <4>1 DEF PoolInv, OnlyTheDefaultWorks
      <4>2. CASE p = old
        <5>1. IsFiniteSet(Busy(p)) /\ Cardinality(Busy(p)) <= 0 /\ Waiting(p) = {}
          BY <4>2, <2>2 DEF PoolInv, Staffed, Drained
        <5>2. Busy(p) = {}
          BY <5>1, FS_CardinalityType, FS_EmptySet
        <5> QED
          BY <4>2, <2>2, <5>1, <5>2
      <4> QED
        BY <4>1, <4>2
    <3> QED
      BY <2>1, <2>2, <3>1, HealMoves DEF PoolInv, OnlyTheDefaultWorks
  <2>7. StrandedVerdictsSurvive'
    BY <2>1, <2>2, HealMoves DEF PoolInv, TypeOK, StrandedVerdictsSurvive, NoPool, Pools
  <2> QED
    BY <2>3, <2>4, <2>5, <2>6, <2>7 DEF PoolInv
<1> QED
  BY <1>1, <1>2, <1>3
\* A caller uses the pool it was handed: only an open pool admits, and the only
\* open pool is the default.
LEMMA InvUse ==
    ASSUME PoolInv, NEW c \in Callers,
           StartPool(c) \/ RefuseShut(c) \/ Admit(c) \/ Refuse(c)
    PROVE  PoolInv'
<1> USE DefaultExecutorAssumption
<1>0. ref[c] # NoPool => ref[c] \in Pools /\ ref[c] <= built /\ built \in Nat
  BY DEF PoolInv, TypeOK, Order
<1>1. CASE StartPool(c)
  <2> PICK p \in Pools : p = ref[c] /\ p <= built
    BY <1>0, <1>1 DEF StartPool
  <2>1. /\ mode[p] = "fresh" /\ p = cached /\ alive[p] = 0
        /\ mode' = [mode EXCEPT ![p] = "open"] /\ alive' = [alive EXCEPT ![p] = Threads]
        /\ UNCHANGED <<cached, built, job, latched, stranded, ref, joining>>
    BY <1>0, <1>1 DEF StartPool, PoolInv, Order, Pools
  <2>2. TypeOK'
    BY <2>1 DEF PoolInv, TypeOK
  <2>3. Order'
    BY <2>1 DEF PoolInv, TypeOK, Order, Pools
  <2>4. Staffed' /\ Drained'
    <3>1. \A q \in Pools : Busy(q)' = Busy(q) /\ Waiting(q)' = Waiting(q)
      BY <2>1 DEF Busy, Waiting, In
    <3>2. \A q \in Pools : alive'[q] \in Nat /\ alive[q] <= alive'[q]
      BY <2>1 DEF PoolInv, TypeOK
    <3>3. Staffed'
      BY <3>1, <3>2, StillStaffed DEF PoolInv, Staffed
    <3>4. Drained'
      BY <2>1, <3>1 DEF PoolInv, TypeOK, Drained
    <3> QED
      BY <3>3, <3>4
  <2>5. OnlyTheDefaultWorks' /\ StrandedVerdictsSurvive'
    BY <2>1 DEF PoolInv, TypeOK, OnlyTheDefaultWorks, StrandedVerdictsSurvive,
                Busy, Waiting, In
  <2> QED
    BY <2>2, <2>3, <2>4, <2>5 DEF PoolInv
<1>2. CASE RefuseShut(c)
  <2>1. /\ ref' = [ref EXCEPT ![c] = NoPool]
        /\ UNCHANGED <<cached, built, mode, alive, job, latched, stranded, joining>>
    BY <1>2 DEF RefuseShut, Release
  <2>2. TypeOK' /\ Order'
    BY <2>1 DEF PoolInv, TypeOK, Order, NoPool
  <2>3. Staffed' /\ Drained' /\ OnlyTheDefaultWorks' /\ StrandedVerdictsSurvive'
    BY <2>1 DEF PoolInv, Staffed, Drained, OnlyTheDefaultWorks, StrandedVerdictsSurvive,
                Busy, Waiting, In
  <2> QED
    BY <2>2, <2>3 DEF PoolInv
<1>3. CASE Admit(c) \/ Refuse(c)
  <2> PICK p \in Pools : p = ref[c] /\ p <= built
    BY <1>0, <1>3 DEF Admit, Refuse
  <2>1. PICK healed \in Attempts(p) :
          /\ Gate(p, healed)
          /\ \/ job' = HealRows(healed)
             \/ \E j \in Jobs : /\ Opens(p, healed) /\ job[j].at = "new"
                               /\ job' = [HealRows(healed) EXCEPT
                                            ![j] = [at |-> "queued", pool |-> p]]
    BY <1>3 DEF Admit, Refuse
  <2>2. /\ mode[p] = "open" /\ alive[p] = Threads /\ p = cached /\ p = built
        /\ stranded' = [stranded EXCEPT ![p] = @ \ healed]
        /\ latched' = IF Opens(p, healed) THEN latched \ {p} ELSE latched
        /\ UNCHANGED <<cached, built, mode, alive, joining>>
        /\ ref' = [ref EXCEPT ![c] = NoPool]
    BY <1>0, <1>3, <2>1 DEF Admit, Refuse, Release, Gate, PoolInv, Order, Pools
  <2>3. ASSUME NEW q \in Pools
        PROVE  Busy(q)' \subseteq Busy(q) /\ (q # p => Waiting(q)' \subseteq Waiting(q))
    <3>1. CASE job' = HealRows(healed)
      BY <3>1, HealMoves DEF PoolInv
    <3>2. ASSUME NEW j \in Jobs,
                 job' = [HealRows(healed) EXCEPT ![j] = [at |-> "queued", pool |-> p]]
          PROVE  Busy(q)' \subseteq Busy(q) /\ (q # p => Waiting(q)' \subseteq Waiting(q))
      BY <3>2 DEF PoolInv, TypeOK, HealRows, Busy, Waiting, In, JobPlaces
    <3> QED
      BY <2>1, <3>1, <3>2
  <2>9. /\ \A j \in Jobs : job'[j].at = "lost" => job[j].at = "lost" /\ j \notin healed
        /\ job' \in [Jobs -> [at : JobPlaces, pool : Pools \cup {NoPool}]]
    <3>1. ASSUME NEW j \in Jobs,
                 job' = [HealRows(healed) EXCEPT ![j] = [at |-> "queued", pool |-> p]]
          PROVE  /\ \A k \in Jobs : job'[k].at = "lost" => job[k].at = "lost" /\ k \notin healed
                 /\ job' \in [Jobs -> [at : JobPlaces, pool : Pools \cup {NoPool}]]
      BY <3>1 DEF PoolInv, TypeOK, HealRows, JobPlaces
    <3> QED
      BY <2>1, <3>1, HealMoves DEF PoolInv
  <2>4. TypeOK'
    BY <2>2, <2>9 DEF PoolInv, TypeOK
  <2>5. Order'
    BY <2>2 DEF PoolInv, TypeOK, Order, NoPool, Pools
  <2>6. Staffed' /\ Drained'
    <3>1. Staffed'
      <4>1. \A q \in Pools : alive'[q] \in Nat /\ alive[q] <= alive'[q]
        BY <2>2 DEF PoolInv, TypeOK
      <4>2. ASSUME NEW q \in Pools
            PROVE  IsFiniteSet(Busy(q)') /\ Cardinality(Busy(q)') <= alive'[q]
        BY <2>3, <4>1, StillStaffed DEF PoolInv
      <4> QED
        BY <4>2 DEF Staffed
    <3>2. ASSUME NEW q \in Pools, alive'[q] # Threads PROVE Waiting(q)' = {}
      BY <2>2, <2>3, <3>2 DEF PoolInv, Drained
    <3> QED
      BY <3>1, <3>2 DEF Drained
  <2>7. OnlyTheDefaultWorks'
    <3>1. ASSUME NEW q \in Pools, q # cached'
          PROVE  alive'[q] = 0 /\ Busy(q)' = {} /\ Waiting(q)' = {}
      BY <2>2, <2>3, <3>1 DEF PoolInv, OnlyTheDefaultWorks
    <3> QED
      BY <3>1 DEF OnlyTheDefaultWorks
  <2>8. StrandedVerdictsSurvive'
    <3>1. ASSUME NEW j \in Jobs, job'[j].at = "lost"
          PROVE  j \in stranded'[p] /\ p \in latched'
      <4>1. j \in stranded[p] /\ p \in latched /\ j \notin healed
        BY <2>2, <2>9, <3>1 DEF PoolInv, StrandedVerdictsSurvive
      <4> QED
        BY <2>2, <4>1 DEF Opens, PoolInv, TypeOK
    <3>2. p # NoPool
      BY <1>3 DEF Admit, Refuse
    <3>4. cached' = p
      BY <2>2
    <3> QED
      BY <3>1, <3>2, <3>4 DEF StrandedVerdictsSurvive
  <2> QED
    BY <2>4, <2>5, <2>6, <2>7, <2>8 DEF PoolInv
<1> QED
  BY <1>1, <1>2, <1>3
\* Threads take, finish, strand and leave; only threads of the default do.
LEMMA InvThread ==
    ASSUME PoolInv, NEW p \in Pools, ThreadStep(p)
    PROVE  PoolInv'
<1> USE DefaultExecutorAssumption
<1>0. alive[p] \in Nat /\ IsFiniteSet(Busy(p)) /\ Cardinality(Busy(p)) \in Nat
      /\ Cardinality(Busy(p)) <= alive[p]
  BY FS_CardinalityType DEF PoolInv, TypeOK, Staffed
<1>1. CASE Take(p)
  <2>1. PICK j \in Waiting(p) : job' = [job EXCEPT ![j].at = "busy"]
    BY <1>1 DEF Take
  <2>2. /\ Cardinality(Busy(p)) < alive[p] /\ j \in Jobs /\ job[j] = [at |-> "queued", pool |-> p]
        /\ UNCHANGED <<cached, built, mode, alive, latched, stranded, ref, joining>>
    BY <1>1, <2>1 DEF Take, Waiting, In
  <2>3. p = cached
    BY <2>1 DEF PoolInv, OnlyTheDefaultWorks
  <2>4. Busy(p)' = Busy(p) \cup {j} /\ Waiting(p)' \subseteq Waiting(p)
    BY <2>1, <2>2 DEF Busy, Waiting, In, PoolInv, TypeOK
  <2>5. ASSUME NEW q \in Pools, q # p
        PROVE  Busy(q)' = Busy(q) /\ Waiting(q)' = Waiting(q)
    BY <2>1, <2>2, <2>5 DEF Busy, Waiting, In, PoolInv, TypeOK
  <2>6. TypeOK'
    BY <2>1, <2>2 DEF PoolInv, TypeOK, JobPlaces
  <2>7. Order'
    BY <2>2 DEF PoolInv, Order
  <2>8. IsFiniteSet(Busy(p)') /\ Cardinality(Busy(p)') <= alive[p]
    <3>1. j \notin Busy(p)
      BY <2>2 DEF Busy, In
    <3>2. IsFiniteSet(Busy(p) \cup {j})
          /\ Cardinality(Busy(p) \cup {j}) = Cardinality(Busy(p)) + 1
      BY <1>0, <3>1, FS_AddElement
    <3> QED
      BY <1>0, <2>2, <2>4, <3>2
  <2>9. Staffed' /\ Drained' /\ OnlyTheDefaultWorks'
    BY <2>2, <2>3, <2>4, <2>5, <2>8 DEF PoolInv, Staffed, Drained, OnlyTheDefaultWorks
  <2>10. StrandedVerdictsSurvive'
    BY <2>1, <2>2 DEF PoolInv, TypeOK, StrandedVerdictsSurvive
  <2> QED
    BY <2>6, <2>7, <2>9, <2>10 DEF PoolInv
<1>2. CASE Finish(p) \/ Strand(p)
  <2>1. PICK j \in Busy(p) :
          \/ /\ job' = [job EXCEPT ![j].at = "settled"]
             /\ UNCHANGED <<latched, stranded>>
          \/ /\ job' = [job EXCEPT ![j].at = "lost"]
             /\ stranded' = [stranded EXCEPT ![p] = @ \cup {j}]
             /\ latched' = latched \cup {p}
    BY <1>2 DEF Finish, Strand
  <2>2. /\ j \in Jobs /\ job[j] = [at |-> "busy", pool |-> p]
        /\ UNCHANGED <<cached, built, mode, alive, ref, joining>>
    BY <1>2, <2>1 DEF Finish, Strand, Busy, In
  <2>3. p = cached
    BY <2>1 DEF PoolInv, OnlyTheDefaultWorks
  <2>4. ASSUME NEW q \in Pools
        PROVE  Busy(q)' \subseteq Busy(q) /\ Waiting(q)' = Waiting(q)
    BY <2>1, <2>2 DEF Busy, Waiting, In, PoolInv, TypeOK
  <2>5. TypeOK'
    BY <2>1, <2>2 DEF PoolInv, TypeOK, JobPlaces
  <2>6. Order'
    BY <2>1, <2>2, <2>3 DEF PoolInv, TypeOK, Order, Pools
  <2>7. Staffed'
    <3>1. \A q \in Pools : alive'[q] \in Nat /\ alive[q] <= alive'[q]
      BY <2>2 DEF PoolInv, TypeOK
    <3>2. ASSUME NEW q \in Pools
          PROVE  IsFiniteSet(Busy(q)') /\ Cardinality(Busy(q)') <= alive'[q]
      BY <2>4, <3>1, StillStaffed DEF PoolInv
    <3> QED
      BY <3>2 DEF Staffed
  <2>8. Drained' /\ OnlyTheDefaultWorks'
    BY <2>2, <2>4 DEF PoolInv, Drained, OnlyTheDefaultWorks
  <2>9. StrandedVerdictsSurvive'
    <3>1. p # NoPool /\ cached' = p
      BY <2>2, <2>3 DEF Pools, NoPool
    <3>2. ASSUME NEW k \in Jobs, job'[k].at = "lost"
          PROVE  k \in stranded'[p] /\ p \in latched'
      BY <2>1, <2>2, <2>3, <3>2 DEF PoolInv, TypeOK, StrandedVerdictsSurvive
    <3> QED
      BY <3>1, <3>2 DEF StrandedVerdictsSurvive
  <2> QED
    BY <2>5, <2>6, <2>7, <2>8, <2>9 DEF PoolInv
<1>3. CASE Exit(p)
  <2>1. /\ mode[p] = "shut" /\ alive[p] > Cardinality(Busy(p)) /\ Waiting(p) = {}
        /\ alive' = [alive EXCEPT ![p] = @ - 1]
        /\ UNCHANGED <<cached, built, mode, job, latched, stranded, ref, joining>>
    BY <1>3 DEF Exit
  <2>2. alive[p] - 1 \in 0 .. Threads
    BY <1>0, <2>1 DEF PoolInv, TypeOK
  <2>3. p = cached
    BY <1>0, <2>1 DEF PoolInv, OnlyTheDefaultWorks
  <2>4. \A q \in Pools : Busy(q)' = Busy(q) /\ Waiting(q)' = Waiting(q)
    BY <2>1 DEF Busy, Waiting, In
  <2>5. TypeOK'
    BY <2>1, <2>2 DEF PoolInv, TypeOK
  <2>6. Order'
    BY <2>1 DEF PoolInv, TypeOK, Order
  <2>7. Staffed'
    BY <1>0, <2>1, <2>4 DEF PoolInv, TypeOK, Staffed
  <2>8. Drained' /\ OnlyTheDefaultWorks'
    BY <2>1, <2>3, <2>4 DEF PoolInv, TypeOK, Drained, OnlyTheDefaultWorks
  <2>9. StrandedVerdictsSurvive'
    BY <2>1 DEF PoolInv, StrandedVerdictsSurvive
  <2> QED
    BY <2>5, <2>6, <2>7, <2>8, <2>9 DEF PoolInv
<1> QED
  BY <1>1, <1>2, <1>3 DEF ThreadStep

\* A shutdown keeps the pool cached, whatever its join waits for.
LEMMA InvShutdown ==
    ASSUME PoolInv, ShutdownDefault \/ ShutdownReturn
    PROVE  PoolInv'
<1> USE DefaultExecutorAssumption
<1>1. /\ UNCHANGED <<cached, built, alive, job, latched, stranded, ref>>
      /\ joining' \in BOOLEAN
      /\ \/ mode' = mode
         \/ cached \in Pools /\ mode' = [mode EXCEPT ![cached] = "shut"]
  BY DEF ShutdownDefault, ShutdownReturn, PoolInv, TypeOK
<1>2. TypeOK'
  BY <1>1 DEF PoolInv, TypeOK
<1>3. Order'
  BY <1>1 DEF PoolInv, TypeOK, Order, Pools
<1>4. Staffed' /\ Drained' /\ OnlyTheDefaultWorks' /\ StrandedVerdictsSurvive'
  BY <1>1 DEF PoolInv, Staffed, Drained, OnlyTheDefaultWorks, StrandedVerdictsSurvive,
              Busy, Waiting, In
<1> QED
  BY <1>2, <1>3, <1>4 DEF PoolInv

\* PoolInv holds at the start,
LEMMA InvInit == Init => PoolInv
<1> USE DefaultExecutorAssumption
<1> SUFFICES ASSUME Init PROVE PoolInv
  OBVIOUS
<1>1. TypeOK
  <2>1. 0 \in 0 .. MaxPools /\ 0 \in 0 .. Threads
    OBVIOUS
  <2> QED
    BY <2>1 DEF Init, TypeOK, JobPlaces, NoPool
<1>2. Order
  BY DEF Init, Order, Pools, NoPool
<1>3. \A p \in Pools : Busy(p) = {} /\ Waiting(p) = {}
  BY DEF Init, Busy, Waiting, In
<1>4. Staffed /\ Drained /\ OnlyTheDefaultWorks
  BY <1>3, FS_EmptySet DEF Init, Staffed, Drained, OnlyTheDefaultWorks
<1>5. StrandedVerdictsSurvive
  BY DEF Init, StrandedVerdictsSurvive
<1> QED
  BY <1>1, <1>2, <1>4, <1>5 DEF PoolInv

\* and every step keeps it.
LEMMA InvStep == PoolInv /\ [Next]_vars => PoolInv'
<1>1. PoolInv /\ UNCHANGED vars => PoolInv'
  BY DEF vars, PoolInv, TypeOK, Order, Staffed, Drained, OnlyTheDefaultWorks,
         StrandedVerdictsSurvive, Busy, Waiting, In
<1> QED
  BY <1>1, InvGet, InvUse, InvThread, InvShutdown DEF Next, CallerStep

\* The whole invariant, always.
LEMMA PoolInvariant == Spec => []PoolInv
  BY InvInit, InvStep, PTL DEF Spec

\* Only the pool the process can reach has threads or admitted jobs, however
\* often get_default_executor replaced it.
THEOREM OnlyDefaultWorks == Spec => []OnlyTheDefaultWorks
<1>1. PoolInv => OnlyTheDefaultWorks
  BY DEF PoolInv
<1> QED
  BY <1>1, PoolInvariant, PTL

\* A verdict that could not be written is still held by the pool that admits
\* next (_reconcile_before_replace and the carry-over).
THEOREM VerdictsSurvive == Spec => []StrandedVerdictsSurvive
<1>1. PoolInv => StrandedVerdictsSurvive
  BY DEF PoolInv
<1> QED
  BY <1>1, PoolInvariant, PTL

\* A job that waits or runs does so in a pool.
Housed == \A j \in Jobs : job[j].at \in {"queued", "busy"} => job[j].pool # NoPool

\* Only an admission gives a job a pool, and no step takes it away.
LEMMA HousedStep == TypeOK /\ Housed /\ [Next]_vars => Housed'
<1> SUFFICES ASSUME TypeOK, Housed, [Next]_vars PROVE Housed'
  OBVIOUS
<1>1. ASSUME NEW healed, job' = HealRows(healed) PROVE Housed'
  BY <1>1 DEF TypeOK, Housed, HealRows
<1>2. ASSUME NEW j \in Jobs, NEW at \in JobPlaces, job[j].pool # NoPool,
             job' = [job EXCEPT ![j].at = at]
      PROVE  Housed'
  BY <1>2 DEF TypeOK, Housed
<1>3. ASSUME NEW c \in Callers, CallerStep(c) PROVE Housed'
  <2>1. CASE Admit(c)
    <3>1. PICK healed \in Attempts(ref[c]), j \in Jobs :
            /\ ref[c] # NoPool
            /\ job' = [HealRows(healed) EXCEPT ![j] = [at |-> "queued", pool |-> ref[c]]]
      BY <2>1 DEF Admit
    <3> QED
      BY <3>1 DEF TypeOK, Housed, HealRows
  <2>2. CASE Refuse(c) \/ GetReplaced(c)
    BY <1>1, <2>2 DEF Refuse, GetReplaced
  <2>3. CASE GetCached(c) \/ GetFirst(c) \/ StartPool(c) \/ RefuseShut(c)
    BY <2>3 DEF GetCached, GetFirst, StartPool, RefuseShut, Housed
  <2> QED
    BY <1>3, <2>1, <2>2, <2>3 DEF CallerStep
<1>4. ASSUME NEW p \in Pools, ThreadStep(p) PROVE Housed'
  <2>1. p # NoPool
    BY DefaultExecutorAssumption DEF Pools, NoPool
  <2>2. CASE Exit(p)
    BY <2>2 DEF Exit, Housed
  <2>3. CASE Take(p) \/ Finish(p) \/ Strand(p)
    BY <1>2, <2>1, <2>3
       DEF Take, Finish, Strand, Busy, Waiting, In, JobPlaces
  <2> QED
    BY <1>4, <2>2, <2>3 DEF ThreadStep
<1>5. CASE ShutdownDefault \/ ShutdownReturn \/ UNCHANGED vars
  BY <1>5 DEF ShutdownDefault, ShutdownReturn, vars, Housed
<1> QED
  BY <1>3, <1>4, <1>5 DEF Next

\* At most max_concurrency runs in the whole process.
THEOREM ConcurrencyBound == Spec => []RunsBounded
<1>1. PoolInv /\ Housed => RunsBounded
  <2> SUFFICES ASSUME PoolInv, Housed PROVE RunsBounded
    OBVIOUS
  <2> DEFINE busy == {j \in Jobs : job[j].at = "busy"}
  <2>1. CASE cached = NoPool
    <3>1. \A j \in Jobs : job[j].at # "busy"
      <4> SUFFICES ASSUME NEW j \in Jobs, job[j].at = "busy" PROVE FALSE
        OBVIOUS
      <4>1. job[j].pool \in Pools
        BY DEF Housed, PoolInv, TypeOK
      <4>2. job[j].pool # NoPool /\ j \in Busy(job[j].pool)
        BY DEF Housed, Busy, In, PoolInv, TypeOK
      <4> QED
        BY <2>1, <4>1, <4>2 DEF PoolInv, OnlyTheDefaultWorks
    <3>2. busy = {}
      BY <3>1
    <3>3. Cardinality(busy) = 0
      BY <3>2, FS_EmptySet
    <3> QED
      BY <3>3, DefaultExecutorAssumption DEF RunsBounded
  <2>2. CASE cached # NoPool
    <3>1. cached \in Pools
      BY <2>2 DEF PoolInv, TypeOK
    <3>2. ASSUME NEW j \in busy PROVE j \in Busy(cached)
      <4>1. job[j].pool \in Pools /\ j \in Busy(job[j].pool)
        BY DEF Housed, Busy, In, PoolInv, TypeOK
      <4> QED
        BY <4>1 DEF PoolInv, OnlyTheDefaultWorks
    <3>3. /\ IsFiniteSet(Busy(cached)) /\ Cardinality(Busy(cached)) <= alive[cached]
          /\ alive[cached] \in 0 .. Threads
      BY <3>1 DEF PoolInv, TypeOK, Staffed
    <3>4. Cardinality(busy) <= Cardinality(Busy(cached)) /\ IsFiniteSet(busy)
      BY <3>2, <3>3, FS_Subset
    <3>5. Cardinality(busy) \in Nat /\ Cardinality(Busy(cached)) \in Nat
      BY <3>3, <3>4, FS_CardinalityType
    <3>6. Cardinality(busy) <= Threads
      BY <3>3, <3>4, <3>5, DefaultExecutorAssumption
    <3> QED
      BY <3>6 DEF RunsBounded
  <2> QED
    BY <2>1, <2>2
<1>2. Init => Housed
  BY DEF Init, Housed
<1>3. PoolInv => TypeOK
  BY DEF PoolInv
<1> QED
  BY <1>1, <1>2, <1>3, HousedStep, PoolInvariant, PTL DEF Spec

-----------------------------------------------------------------------------
(* The proofreading of a segment.  Both texts are pieces joined, the pieces  *)
(* that touch the guard of a flag are the same in both, and so every such    *)
(* piece lies as far from its old place as the piece that holds the flag.    *)

\* Sequences to be joined.
PieceLists(X) == Seq(Seq(X))

\* Pieces that are the same in both, and among them all that touch a range.
SameAround(p, q, from, to, same) ==
    /\ \A k \in same : k \in 1..Len(p) => p[k] = q[k]
    /\ \A k \in 1..Len(p) :
          (IF EndOf(p, k - 1) = EndOf(p, k)
           THEN from <= EndOf(p, k - 1) /\ EndOf(p, k - 1) <= to
           ELSE EndOf(p, k - 1) < to /\ EndOf(p, k) > from) => k \in same

\* Two joined sequences with the same pieces around a range: the pieces that
\* touch the range all lie as far from each other as one of them, piece h.
LEMMA SameShift ==
    ASSUME NEW X, NEW p \in PieceLists(X), NEW q \in PieceLists(X), Len(p) = Len(q),
           NEW from \in Nat, NEW to \in Nat, from < to,
           NEW same, SameAround(p, q, from, to, same),
           NEW h \in 1..Len(p), h \in same,
           EndOf(p, h - 1) < to, EndOf(p, h) > from
    PROVE  LET shift == EndOf(q, h - 1) - EndOf(p, h - 1)
           IN  /\ \A k \in 0..Len(p) : from <= EndOf(p, k) /\ EndOf(p, k) <= to =>
                     EndOf(q, k) - EndOf(p, k) = shift
               /\ \A k \in 1..Len(p) :
                     k \in same /\ EndOf(p, k - 1) <= to /\ from <= EndOf(p, k) =>
                        EndOf(q, k - 1) - EndOf(p, k - 1) = shift
<1> DEFINE n == Len(p)
           a(k) == EndOf(p, k)
           b(k) == EndOf(q, k)
           far(k) == b(k) - a(k)
           shift == b(h - 1) - a(h - 1)
<1>1. /\ n \in Nat /\ \A k \in 0..n : a(k) \in Nat /\ b(k) \in Nat
      /\ \A j, k \in 0..n : j <= k => a(j) <= a(k)
  BY EndsOfPieces DEF PieceLists
<1>2. ASSUME NEW k \in 1..n, k \in same PROVE far(k) = far(k - 1)
  <2>1. a(k) = a(k - 1) + Len(p[k]) /\ Len(p[k]) \in Nat
    BY EndsOfPieces DEF PieceLists
  <2>2. b(k) = b(k - 1) + Len(q[k])
    BY EndsOfPieces DEF PieceLists
  <2>3. p[k] = q[k] /\ k \in 0..n /\ k - 1 \in 0..n
    BY <1>1, <1>2 DEF SameAround
  <2>4. a(k - 1) \in Nat /\ b(k - 1) \in Nat
    BY <2>3, <1>1
  <2>5. Len(p[k]) = Len(q[k])
    BY <2>3
  <2> DEFINE l == Len(p[k])
  <2>6. a(k) = a(k - 1) + l /\ b(k) = b(k - 1) + l /\ l \in Nat
    BY <2>1, <2>2, <2>5
  <2> HIDE DEF n, a, b, l
  <2> QED
    BY <2>4, <2>6
<1>3. ASSUME NEW k \in 1..n,
             \/ a(k - 1) = a(k) /\ from <= a(k) /\ a(k) <= to
             \/ a(k - 1) < to /\ a(k) > from
      PROVE  k \in same
  <2>1. k - 1 \in 0..n /\ k \in 0..n
    BY <1>1
  <2>2. a(k - 1) \in Nat /\ a(k) \in Nat
    BY <1>1, <2>1
  <2> QED
    BY <1>3, <2>2 DEF SameAround
<1>4. h \in 1..n /\ a(h - 1) < to /\ a(h) > from /\ far(h) = shift /\ far(h - 1) = shift
  BY <1>2
<1> HIDE DEF n, a, b
\* A boundary in the range.
<1>5. ASSUME NEW k \in 0..n, from <= a(k), a(k) <= to PROVE far(k) = shift
  <2>1. CASE h <= k
    <3> DEFINE Known == {i \in 0..n : h <= i /\ i <= k => far(i) = shift}
    <3>1. 0 \in Known
      BY <1>1, <1>4
    <3>2. ASSUME NEW i \in 1..n, i - 1 \in Known PROVE i \in Known
      <4>1. i \in 0..n /\ i - 1 \in 0..n
        BY <1>1
      <4>2. ASSUME h <= i, i <= k PROVE far(i) = shift
        <5>1. CASE i = h
          BY <5>1, <1>4
        <5>2. CASE i # h
          <6>1. h <= i - 1 /\ i - 1 <= k /\ h \in 0..n
            BY <4>1, <4>2, <5>2, <1>1, <1>4
          <6>2. far(i - 1) = shift
            BY <3>2, <6>1
          <6>3. a(i - 1) <= a(i) /\ a(i) <= a(k) /\ a(h) <= a(i)
            <7>1. i - 1 <= i /\ h <= i
              BY <4>1, <4>2
            <7> QED
              BY <4>1, <4>2, <6>1, <7>1, <1>1
          <6>4. a(i - 1) \in Nat /\ a(i) \in Nat /\ a(k) \in Nat /\ a(h) \in Nat
            BY <4>1, <6>1, <1>1
          <6>5. i \in same
            <7>1. from <= a(i) /\ a(i) > from /\ a(i) <= to
              BY <1>4, <1>5, <6>3, <6>4
            <7> QED
              BY <1>3, <7>1, <6>3, <6>4
          <6> QED
            BY <1>2, <6>2, <6>5
        <5> QED
          BY <5>1, <5>2
      <4> QED
        BY <4>1, <4>2
    <3>3. 0..n \subseteq Known
      <4> HIDE DEF Known
      <4> QED
        BY <1>1, <3>1, <3>2, AlongASequence
    <3>4. k <= k
      BY <1>1
    <3> QED
      BY <2>1, <3>3, <3>4
  <2>2. CASE ~(h <= k)
    <3> DEFINE Known == {i \in 0..n : k <= i /\ i <= h - 1 => far(i) = far(k)}
    <3>1. 0 \in Known
      <4>1. k <= 0 => k = 0
        BY <1>1
      <4> QED
        BY <4>1, <1>1
    <3>2. ASSUME NEW i \in 1..n, i - 1 \in Known PROVE i \in Known
      <4>1. i \in 0..n /\ i - 1 \in 0..n
        BY <1>1
      <4>2. ASSUME k <= i, i <= h - 1 PROVE far(i) = far(k)
        <5>1. CASE i = k
          BY <5>1
        <5>2. CASE i # k
          <6>1. k <= i - 1 /\ i - 1 <= h - 1 /\ h - 1 \in 0..n
            BY <4>1, <4>2, <5>2, <1>1, <1>4
          <6>2. far(i - 1) = far(k)
            BY <3>2, <6>1
          <6>3. a(i - 1) <= a(i) /\ a(k) <= a(i - 1) /\ a(i) <= a(h - 1)
            <7>1. i - 1 <= i
              BY <4>1
            <7> QED
              BY <4>1, <4>2, <6>1, <7>1, <1>1
          <6>4. a(i - 1) \in Nat /\ a(i) \in Nat /\ a(k) \in Nat /\ a(h - 1) \in Nat
            BY <4>1, <6>1, <1>1
          <6>5. i \in same
            <7>1. a(i - 1) < to /\ from <= a(i) /\ a(i) <= to
              BY <1>4, <1>5, <6>3, <6>4
            <7>2. a(i - 1) # a(i) => a(i) > from
              BY <1>5, <6>3, <6>4
            <7> QED
              BY <1>3, <7>1, <7>2
          <6> QED
            BY <1>2, <6>2, <6>5
        <5> QED
          BY <5>1, <5>2
      <4> QED
        BY <4>1, <4>2
    <3>3. 0..n \subseteq Known
      <4> HIDE DEF Known
      <4> QED
        BY <1>1, <3>1, <3>2, AlongASequence
    <3>4. h - 1 \in 0..n /\ k <= h - 1 /\ h - 1 <= h - 1
      BY <2>2, <1>1, <1>4
    <3>5. h - 1 \in Known
      <4> HIDE DEF Known
      <4> QED
        BY <3>3, <3>4
    <3> QED
      BY <3>4, <3>5, <1>4
  <2> QED
    BY <2>1, <2>2
\* A piece that touches the range.
<1>6. ASSUME NEW k \in 1..n, k \in same, a(k - 1) <= to, from <= a(k)
      PROVE  far(k - 1) = shift
  <2>1. k \in 0..n /\ k - 1 \in 0..n /\ h \in 0..n /\ h - 1 \in 0..n
    BY <1>1, <1>4
  <2>2. a(k) \in Nat /\ a(k - 1) \in Nat /\ a(h) \in Nat /\ a(h - 1) \in Nat
    BY <2>1, <1>1
  <2>3. CASE from <= a(k - 1)
    BY <2>1, <2>3, <1>5, <1>6
  <2>4. CASE a(k) <= to
    BY <2>1, <2>4, <1>2, <1>5, <1>6
  <2>5. CASE ~(from <= a(k - 1)) /\ ~(a(k) <= to)
    <3>1. ~(h <= k - 1)
      <4>1. h <= k - 1 => a(h) <= a(k - 1)
        BY <2>1, <1>1
      <4>2. a(k - 1) < a(h)
        BY <2>2, <2>5, <1>4
      <4> QED
        BY <2>2, <4>1, <4>2
    <3>2. ~(k <= h - 1)
      <4>1. k <= h - 1 => a(k) <= a(h - 1)
        BY <2>1, <1>1
      <4>2. a(h - 1) < a(k)
        BY <2>2, <2>5, <1>4
      <4> QED
        BY <2>2, <4>1, <4>2
    <3>3. k = h
      BY <3>1, <3>2, <2>1, <1>1
    <3> QED
      BY <3>3, <1>4
  <2> QED
    BY <2>3, <2>4, <2>5
<1> QED
  BY <1>5, <1>6 DEF n, a, b

\* What lies in the range, and in such a piece that meets it, is found again
\* shift further on; an end of the one sequence stays an end of the other.
FoundAgain(p, q, from, to, same, shift) ==
    LET s == FlattenSeq(p)
        t == FlattenSeq(q)
    IN  /\ shift \in Int
        /\ from = 0 => shift = 0
        /\ to = Len(s) => Len(t) = to + shift
        /\ \A i \in (from + 1)..to : i + shift \in 1..Len(t) /\ t[i + shift] = s[i]
        /\ \A k \in 1..Len(p) :
              k \in same /\ EndOf(p, k - 1) <= to /\ from <= EndOf(p, k) =>
                 \A i \in (EndOf(p, k - 1) + 1)..EndOf(p, k) : t[i + shift] = s[i]

\* So what lies in the range is found again that far on, and so is what lies in
\* any other piece that is the same and meets the range.
LEMMA KeptAround ==
    ASSUME NEW X, NEW p \in PieceLists(X), NEW q \in PieceLists(X), Len(p) = Len(q),
           NEW from \in Nat, NEW to \in Nat, from < to, to <= Len(FlattenSeq(p)),
           NEW same, SameAround(p, q, from, to, same),
           NEW h \in 1..Len(p), h \in same,
           EndOf(p, h - 1) < to, EndOf(p, h) > from
    PROVE  FoundAgain(p, q, from, to, same, EndOf(q, h - 1) - EndOf(p, h - 1))
<1> DEFINE n == Len(p)
           a(k) == EndOf(p, k)
           b(k) == EndOf(q, k)
           s == FlattenSeq(p)
           t == FlattenSeq(q)
           shift == b(h - 1) - a(h - 1)
<1>1. /\ n \in Nat /\ \A k \in 0..n : a(k) \in Nat /\ b(k) \in Nat
      /\ a(0) = 0 /\ b(0) = 0 /\ a(n) = Len(s) /\ b(n) = Len(t)
      /\ \A k \in 1..n : a(k) = a(k - 1) + Len(p[k]) /\ Len(p[k]) \in Nat
      /\ \A j, k \in 0..n : j <= k => b(j) <= b(k)
  BY EndsOfPieces DEF PieceLists
<1>2. /\ \A k \in 0..n : from <= a(k) /\ a(k) <= to => b(k) - a(k) = shift
      /\ \A k \in 1..n : k \in same /\ a(k - 1) <= to /\ from <= a(k) =>
            b(k - 1) - a(k - 1) = shift
  BY SameShift
<1>3. /\ \A k \in 1..n : \A i \in 1..Len(p[k]) : s[a(k - 1) + i] = p[k][i]
      /\ \A i \in 1..Len(s) : \E k \in 1..n : a(k - 1) < i /\ i <= a(k)
      /\ \A k \in 1..n : \A i \in 1..Len(q[k]) : t[b(k - 1) + i] = q[k][i]
  <2>1. /\ \A k \in 1..n : \A i \in 1..Len(p[k]) : s[a(k - 1) + i] = p[k][i]
        /\ \A i \in 1..Len(s) : \E k \in 1..n : a(k - 1) < i /\ i <= a(k)
    BY ElementsOfPieces DEF PieceLists
  <2>2. \A k \in 1..Len(q) : \A i \in 1..Len(q[k]) : t[b(k - 1) + i] = q[k][i]
    BY ElementsOfPieces DEF PieceLists
  <2>3. Len(q) = n
    OBVIOUS
  <2> HIDE DEF n, a, b, s, t
  <2> QED
    BY <2>1, <2>2, <2>3
<1>4. \A k \in 1..n : b(k) = b(k - 1) + Len(q[k])
  BY EndsOfPieces DEF PieceLists
<1>5. \A k \in same : k \in 1..n => p[k] = q[k]
  BY DEF SameAround
<1>6. \A k \in 1..n : (IF a(k - 1) = a(k) THEN from <= a(k - 1) /\ a(k - 1) <= to
                       ELSE a(k - 1) < to /\ a(k) > from) => k \in same
  BY DEF SameAround
<1>7. h - 1 \in 0..n
  BY <1>1
<1> HIDE DEF n, a, b, s, t
<1>8. shift \in Int
  <2>1. a(h - 1) \in Nat /\ b(h - 1) \in Nat
    BY <1>1, <1>7
  <2> QED
    BY <2>1
<1>9. ASSUME NEW k \in 1..n, k \in same, a(k - 1) <= to, from <= a(k),
             NEW i \in (a(k - 1) + 1)..a(k)
      PROVE  i + shift \in 1..Len(t) /\ t[i + shift] = s[i]
  <2> DEFINE j == i - a(k - 1)
  <2>1. /\ k - 1 \in 0..n /\ k \in 0..n /\ n \in 0..n /\ k <= n
    BY <1>1
  <2>2. /\ a(k - 1) \in Nat /\ b(k - 1) \in Nat /\ b(k) \in Nat /\ a(k) \in Nat
        /\ b(k) <= b(n) /\ p[k] = q[k] /\ Len(p[k]) \in Nat
        /\ a(k) = a(k - 1) + Len(p[k]) /\ b(k) = b(k - 1) + Len(q[k])
        /\ b(n) = Len(t) /\ b(n) \in Nat
    BY <2>1, <1>1, <1>4, <1>5, <1>9
  <2>3. b(k - 1) - a(k - 1) = shift
    BY <1>2, <1>9
  <2> HIDE DEF shift
  <2>6. Len(q[k]) = Len(p[k])
    BY <2>2
  <2>4. /\ j \in 1..Len(p[k]) /\ j \in 1..Len(q[k]) /\ a(k - 1) + j = i
        /\ b(k - 1) + j = i + shift /\ i + shift \in 1..Len(t)
    <3> DEFINE before == a(k - 1)
               there == b(k - 1)
               size == Len(p[k])
    <3>1. /\ before \in Nat /\ there \in Nat /\ size \in Nat /\ i \in (before + 1)..(before + size)
          /\ there - before = shift /\ there + size <= Len(t) /\ Len(t) \in Nat
      BY <2>2, <2>3, <2>6, <1>9
    <3> HIDE DEF before, there, size
    <3>2. /\ i - before \in 1..size /\ before + (i - before) = i
          /\ there + (i - before) = i + shift /\ i + shift \in 1..Len(t)
      BY <3>1, <1>8
    <3> QED
      BY <3>2, <2>6 DEF before, there, size, j
  <2>5. s[a(k - 1) + j] = p[k][j] /\ t[b(k - 1) + j] = q[k][j]
    BY <1>3, <2>4
  <2> HIDE DEF j
  <2> QED
    BY <2>2, <2>4, <2>5
<1> HIDE DEF shift
<1>10. ASSUME NEW i \in (from + 1)..to PROVE i + shift \in 1..Len(t) /\ t[i + shift] = s[i]
  <2>1. Len(s) \in Nat /\ i \in 1..Len(s) /\ i > from /\ i <= to
    <3>1. n \in 0..n
      BY <1>1
    <3>2. Len(s) \in Nat
      BY <3>1, <1>1
    <3>3. to <= Len(s)
      BY DEF s
    <3> QED
      BY <3>2, <3>3
  <2>2. PICK k \in 1..n : a(k - 1) < i /\ i <= a(k)
    BY <1>3, <2>1
  <2>3. k - 1 \in 0..n /\ k \in 0..n
    BY <1>1
  <2>4. a(k - 1) \in Nat /\ a(k) \in Nat
    BY <1>1, <2>3
  <2>5. a(k - 1) # a(k) /\ a(k - 1) < to /\ a(k) > from /\ i \in (a(k - 1) + 1)..a(k)
    BY <2>1, <2>2, <2>4
  <2>6. k \in same
    BY <1>6, <2>5
  <2>7. a(k - 1) <= to /\ from <= a(k)
    BY <2>4, <2>5
  <2> QED
    BY <1>9, <2>5, <2>6, <2>7
<1>11. from = 0 => shift = 0
  <2>1. 0 \in 0..n
    BY <1>1
  <2>2. a(0) = 0 /\ b(0) = 0
    BY <1>1
  <2>3. from <= a(0) /\ a(0) <= to => b(0) - a(0) = shift
    BY <1>2, <2>1
  <2> QED
    BY <2>2, <2>3, <1>8
<1>12. to = Len(s) => Len(t) = to + shift
  <2>1. n \in 0..n
    BY <1>1
  <2>2. a(n) = Len(s) /\ b(n) = Len(t) /\ a(n) \in Nat /\ b(n) \in Nat
    BY <2>1, <1>1
  <2>4. from <= a(n) /\ a(n) <= to => b(n) - a(n) = shift
    BY <2>1, <1>2
  <2>3. to = Len(s) => b(n) - a(n) = shift
    BY <2>2, <2>4
  <2> QED
    BY <2>2, <2>3, <1>8
<1>13. \A k \in 1..n : k \in same /\ a(k - 1) <= to /\ from <= a(k) =>
          \A i \in (a(k - 1) + 1)..a(k) : t[i + shift] = s[i]
  BY <1>9
<1> QED
  BY <1>8, <1>10, <1>11, <1>12, <1>13 DEF FoundAgain, n, a, b, s, t, shift

Spoken == Words \cup Marks

Tokens == Spoken \cup {Guess}

Pair == [old : Seq(Spoken), new : Seq(Tokens)]

SpanOf(s) == s.first \in 1..Len(P!Source) /\ s.last \in 1..Len(P!Source) /\ s.first <= s.last

Olds == [k \in 1..Len(script) |-> script[k].old]

Pieces == [k \in 1..Len(script) |-> P!Piece(k)]

\* What Preserve makes of the script and the spans.
Outcome ==
    IF \A n \in DOMAIN spans : P!Holding(spans[n]) # {}
    THEN [text |-> P!TextUpto(Len(script)),
          at |-> [n \in DOMAIN spans |-> P!Placed(spans[n])]]
    ELSE [text |-> P!Source, at |-> [n \in DOMAIN spans |-> spans[n].first]]

\* The result is not there yet, or it is the outcome.
ProofreadInv ==
    /\ script \in Seq(Pair)
    /\ \A n \in DOMAIN spans : SpanOf(spans[n])
    /\ result # P!Pending => result = Outcome

\* What the proofreading joins is joined by FlattenSeq.
LEMMA JoinedAsIs == ASSUME NEW parts PROVE P!Joined(parts) = FlattenSeq(parts)
BY DEF P!Joined, P!FlattenSeq, FlattenSeq

\* A script begins as pairs of texts, and its spans as ranges of the old one.
LEMMA ScriptsArePairs == ASSUME P!Init PROVE ProofreadInv
<1>1. \A X : \A n \in Nat : P!Texts(X, n) \subseteq Seq(X)
  BY DEF P!Texts
<1>2. Longest \in Nat /\ MaxEdit \in Nat /\ MaxPieces \in Nat /\ MaxSpans \in Nat
  BY ServicesAssumption
<1>3. Seq(Spoken) \subseteq Seq(Tokens)
  <2>1. Spoken \subseteq Tokens
    BY DEF Tokens
  <2>2. \A t \in Seq(Spoken) : t \in Seq(Tokens)
    BY <2>1, SeqMonotonic
  <2> QED
    BY <2>2
<1>4. P!Shared \subseteq Pair
  <2>1. P!Texts(Spoken, Longest) \subseteq Seq(Spoken)
    BY <1>1, <1>2
  <2>2. \A t \in P!Texts(Spoken, Longest) : [old |-> t, new |-> t] \in Pair
    <3>1. \A t \in P!Texts(Spoken, Longest) : t \in Seq(Spoken) /\ t \in Seq(Tokens)
      BY <2>1, <1>3
    <3> QED
      BY <3>1 DEF Pair
  <2>3. P!Shared \subseteq {[old |-> t, new |-> t] : t \in P!Texts(Spoken, Longest)}
    BY DEF P!Shared, Spoken
  <2> QED
    BY <2>2, <2>3
<1>5. P!Edits \subseteq Pair
  <2>1. /\ P!Texts(Spoken, MaxEdit) \subseteq Seq(Spoken)
        /\ P!Texts(Tokens, MaxEdit) \subseteq Seq(Tokens)
    BY <1>1, <1>2
  <2> QED
    BY <2>1 DEF P!Edits, Pair, Spoken, Tokens
<1>6. script \in Seq(Pair)
  <2> DEFINE some == P!Shared \cup P!Edits
  <2>1. some \subseteq Pair
    BY <1>4, <1>5
  <2>2. PICK k \in 1..MaxPieces : script \in [1..k -> some]
    BY DEF P!Init, P!Scripts
  <2> HIDE DEF some
  <2>3. script \in [1..k -> Pair] /\ k \in Nat
    BY <1>2, <2>1, <2>2
  <2> QED
    BY <2>3
<1>7. \A n \in DOMAIN spans : SpanOf(spans[n])
  <2> DEFINE l == Len(P!Source)
             Span == {s \in [first : 1..l, last : 1..l] :
                         \E i \in s.first..s.last : P!Source[i] \in Words}
  <2>1. PICK k \in 1..MaxSpans : spans \in [1..k -> Span]
    BY DEF P!Init, P!SpanLists, P!Source
  <2>2. \A s \in Span : SpanOf(s)
    <3> HIDE DEF l
    <3>1. ASSUME NEW s \in Span PROVE s.first \in 1..l /\ s.last \in 1..l /\ s.first <= s.last
      OBVIOUS
    <3> QED
      BY <3>1 DEF SpanOf, l
  <2> HIDE DEF Span, l
  <2> QED
    BY <2>1, <2>2
<1> QED
  BY <1>6, <1>7 DEF ProofreadInv, P!Init

\* The texts are joined pieces, and a piece begins where the one before it ends.
LEMMA TextPieces ==
    ASSUME script \in Seq(Pair)
    PROVE  /\ Olds \in Seq(Seq(Tokens)) /\ Pieces \in Seq(Seq(Tokens))
           /\ Len(script) \in Nat /\ Len(Olds) = Len(script) /\ Len(Pieces) = Len(script)
           /\ P!Source = FlattenSeq(Olds) /\ P!Source \in Seq(Spoken)
           /\ \A k \in 1..Len(script) : Olds[k] = script[k].old /\ Pieces[k] = P!Piece(k)
           /\ \A k \in 0..Len(script) : P!TextUpto(k) = JoinedUpto(Pieces, k)
           /\ \A k \in 1..Len(script) : /\ P!Start(k) = EndOf(Olds, k - 1)
                                        /\ P!End(k) = EndOf(Olds, k)
<1> DEFINE n == Len(script)
<1>1. n \in Nat /\ DOMAIN script = 1..n /\ \A k \in 1..n : script[k] \in Pair
  OBVIOUS
<1>2. \A k \in 1..n : /\ script[k].old \in Seq(Spoken) /\ script[k].old \in Seq(Tokens)
                      /\ P!Piece(k) \in Seq(Tokens)
  <2>1. \A k \in 1..n : script[k].old \in Seq(Spoken) /\ script[k].new \in Seq(Tokens)
    BY <1>1 DEF Pair
  <2>2. Spoken \subseteq Tokens
    BY DEF Tokens
  <2>3. \A k \in 1..n : script[k].old \in Seq(Tokens)
    BY <2>1, <2>2, SeqMonotonic
  <2> QED
    BY <2>1, <2>3 DEF P!Piece
<1>3. Olds \in Seq(Seq(Tokens)) /\ Len(Olds) = n /\ \A k \in 1..n : Olds[k] = script[k].old
  <2> DEFINE Y == Seq(Tokens)
  <2> HIDE DEF Y, n
  <2>1. \A k \in 1..n : script[k].old \in Y
    BY <1>2 DEF Y
  <2> QED
    BY <1>1, <2>1 DEF Olds, Y, n
<1>4. Pieces \in Seq(Seq(Tokens)) /\ Len(Pieces) = n /\ \A k \in 1..n : Pieces[k] = P!Piece(k)
  <2> DEFINE Y == Seq(Tokens)
  <2> HIDE DEF Y, n
  <2>1. \A k \in 1..n : P!Piece(k) \in Y
    BY <1>2 DEF Y
  <2> QED
    BY <1>1, <2>1 DEF Pieces, Y, n
<1>5. P!Source = FlattenSeq(Olds)
  <2>1. [k \in DOMAIN script |-> script[k].old] = Olds
    BY <1>1 DEF Olds
  <2> QED
    BY <2>1, JoinedAsIs DEF P!Source, P!Old
<1>9. P!Source \in Seq(Spoken)
  <2> DEFINE Y == Seq(Spoken)
  <2> HIDE DEF Y, n
  <2>1. \A k \in 1..n : script[k].old \in Y
    BY <1>2 DEF Y
  <2>2. Olds \in Seq(Y)
    BY <1>1, <2>1 DEF Olds, n
  <2>3. FlattenSeq(Olds) \in Seq(Spoken)
    BY <2>2, FlattenType DEF Y
  <2> QED
    BY <2>3, <1>5
<1>6. ASSUME NEW k \in 0..n PROVE P!Old(SubSeq(script, 1, k)) = JoinedUpto(Olds, k)
  <2> DEFINE t == SubSeq(script, 1, k)
             u == SubSeq(Olds, 1, k)
             Y == Seq(Tokens)
             v == [m \in DOMAIN t |-> t[m].old]
  <2>1. t \in Seq(Pair) /\ Len(t) = k /\ \A m \in 1..k : t[m] = script[m]
    <3>1. 1 \in Int /\ k \in Int /\ \A m \in 1..k : script[m] \in Pair
      BY <1>1
    <3>2. /\ t \in Seq(Pair) /\ Len(t) = IF 1 <= k THEN k - 1 + 1 ELSE 0
          /\ \A m \in 1..(k - 1 + 1) : t[m] = script[1 + m - 1]
      BY <3>1, SubSeqProperties
    <3> HIDE DEF t
    <3> QED
      BY <1>1, <3>2
  <2>2. u \in Seq(Y) /\ Len(u) = k /\ \A m \in 1..k : u[m] = Olds[m]
    <3>1. 1 \in Int /\ k \in Int /\ \A m \in 1..k : Olds[m] \in Y
      BY <1>1, <1>2, <1>3
    <3> HIDE DEF Y
    <3>2. /\ u \in Seq(Y) /\ Len(u) = IF 1 <= k THEN k - 1 + 1 ELSE 0
          /\ \A m \in 1..(k - 1 + 1) : u[m] = Olds[1 + m - 1]
      BY <3>1, SubSeqProperties
    <3> HIDE DEF u
    <3> QED
      BY <1>1, <3>2
  <2> HIDE DEF t, u
  <2>3. v = u
    <3>1. DOMAIN t = 1..k /\ DOMAIN u = 1..k /\ u = [m \in 1..k |-> u[m]]
      <4> HIDE DEF Y
      <4> QED
        BY <2>1, <2>2
    <3>2. \A m \in 1..k : t[m].old = u[m]
      <4>1. \A m \in 1..k : m \in 1..n
        BY <1>1
      <4> QED
        BY <2>1, <2>2, <4>1, <1>3
    <3> QED
      BY <3>1, <3>2
  <2>4. P!Old(t) = P!Joined(v)
    BY DEF P!Old
  <2> QED
    BY <2>3, <2>4, JoinedAsIs DEF JoinedUpto, u, t
<1>7. ASSUME NEW k \in 0..n PROVE P!TextUpto(k) = JoinedUpto(Pieces, k)
  <2> DEFINE u == SubSeq(Pieces, 1, k)
             Y == Seq(Tokens)
  <2>1. u \in Seq(Y) /\ Len(u) = k /\ \A m \in 1..k : u[m] = Pieces[m]
    <3>1. 1 \in Int /\ k \in Int /\ \A m \in 1..k : Pieces[m] \in Y
      BY <1>1, <1>2, <1>4
    <3> HIDE DEF Y
    <3>2. /\ u \in Seq(Y) /\ Len(u) = IF 1 <= k THEN k - 1 + 1 ELSE 0
          /\ \A m \in 1..(k - 1 + 1) : u[m] = Pieces[1 + m - 1]
      BY <3>1, SubSeqProperties
    <3> HIDE DEF u
    <3> QED
      BY <1>1, <3>2
  <2> HIDE DEF u
  <2>2. [m \in 1..k |-> P!Piece(m)] = u
    <3>1. u = [m \in 1..k |-> u[m]]
      <4> HIDE DEF Y
      <4> QED
        BY <2>1
    <3>2. \A m \in 1..k : P!Piece(m) = u[m]
      <4>1. \A m \in 1..k : m \in 1..n
        BY <1>1
      <4> QED
        BY <2>1, <4>1, <1>4
    <3> QED
      BY <3>1, <3>2
  <2> QED
    BY <2>2, JoinedAsIs DEF JoinedUpto, P!TextUpto, u
<1>8. ASSUME NEW k \in 1..n
      PROVE  P!Start(k) = EndOf(Olds, k - 1) /\ P!End(k) = EndOf(Olds, k)
  <2>1. k - 1 \in 0..n
    BY <1>1
  <2>2. P!Start(k) = EndOf(Olds, k - 1)
    BY <2>1, <1>6 DEF P!Start, EndOf
  <2>3. EndOf(Olds, k) = EndOf(Olds, k - 1) + Len(Olds[k])
    BY <1>3, EndsOfPieces
  <2> QED
    BY <2>2, <2>3, <1>3 DEF P!End
<1> QED
  BY <1>1, <1>3, <1>4, <1>5, <1>7, <1>8, <1>9

\* A guard reaches from before its span to behind it: the marks on either side
\* end at a word or at an end of the text.
LEMMA GuardAround ==
    ASSUME P!Source \in Seq(Spoken), NEW s, SpanOf(s)
    PROVE  /\ P!Guard(s).from \in 0..(s.first - 1)
           /\ P!Guard(s).to \in s.last..Len(P!Source)
<1> DEFINE l == Len(P!Source)
           t == P!Source
           Left(i) == /\ \A m \in (i + 1)..(s.first - 1) : t[m] \in Marks
                      /\ i = 0 \/ t[i] \in Words
           Right(j) == /\ \A m \in (s.last + 1)..j : t[m] \in Marks
                       /\ j = l \/ t[j + 1] \in Words
<1>1. /\ l \in Nat /\ s.first \in 1..l /\ s.last \in 1..l
      /\ \A i \in 1..l : t[i] \in Words \/ t[i] \in Marks
  BY DEF SpanOf, Spoken
<1> DEFINE first == s.first
           last == s.last
<1> HIDE DEF l, t, first, last
<1>2. \E i \in 0..(first - 1) : Left(i)
  <2> DEFINE back == {d \in 0..(first - 1) : d = first - 1 \/ t[first - 1 - d] \in Words}
  <2>1. first - 1 \in back /\ back \subseteq Nat
    BY <1>1 DEF first
  <2>2. PICK d \in back : \A e \in back : d <= e
    <3> HIDE DEF back
    <3> QED
      BY <2>1, Least
  <2>3. first - 1 - d \in 0..(first - 1) /\ (first - 1 - d = 0 \/ t[first - 1 - d] \in Words)
    BY <1>1, <2>2 DEF first
  <2>4. ASSUME NEW m \in (first - 1 - d + 1)..(first - 1) PROVE t[m] \in Marks
    <3> DEFINE e == first - 1 - m
    <3>1. m \in 1..l /\ e \in 0..(first - 1) /\ e < d /\ first - 1 - e = m
      <4>1. /\ l \in Nat /\ first \in 1..l /\ d \in 0..(first - 1)
            /\ m \in (first - 1 - d + 1)..(first - 1)
        BY <1>1, <2>2 DEF first
      <4> HIDE DEF back
      <4> QED
        BY <4>1
    <3>2. e \notin back
      <4>1. d \in Nat /\ e \in Nat
        BY <2>1, <2>2, <3>1
      <4> HIDE DEF back, e
      <4> QED
        BY <2>2, <3>1, <4>1
    <3>3. t[m] \notin Words
      <4> HIDE DEF e
      <4> QED
        BY <3>1, <3>2
    <3> QED
      BY <1>1, <3>1, <3>3
  <2> QED
    BY <2>3, <2>4 DEF first
<1>3. \E j \in last..l : Right(j)
  <2> DEFINE on == {d \in 0..(l - last) : d = l - last \/ t[last + d + 1] \in Words}
  <2>1. l - last \in on /\ on \subseteq Nat
    BY <1>1 DEF last
  <2>2. PICK d \in on : \A e \in on : d <= e
    <3> HIDE DEF on
    <3> QED
      BY <2>1, Least
  <2>3. last + d \in last..l /\ (last + d = l \/ t[last + d + 1] \in Words)
    BY <1>1, <2>2 DEF last
  <2>4. ASSUME NEW m \in (last + 1)..(last + d) PROVE t[m] \in Marks
    <3> DEFINE e == m - last - 1
    <3>1. m \in 1..l /\ e \in 0..(l - last) /\ e < d /\ last + e + 1 = m
      <4>1. l \in Nat /\ last \in 1..l /\ d \in 0..(l - last) /\ m \in (last + 1)..(last + d)
        BY <1>1, <2>2 DEF last
      <4> HIDE DEF on
      <4> QED
        BY <4>1
    <3>2. e \notin on
      <4>1. d \in Nat /\ e \in Nat
        BY <2>1, <2>2, <3>1
      <4> HIDE DEF on, e
      <4> QED
        BY <2>2, <3>1, <4>1
    <3>3. t[m] \notin Words
      <4> HIDE DEF e
      <4> QED
        BY <3>1, <3>2
    <3> QED
      BY <1>1, <3>1, <3>3
  <2> QED
    BY <2>3, <2>4 DEF last
<1>4. /\ P!Guard(s).from = CHOOSE i \in 0..(first - 1) : Left(i)
      /\ P!Guard(s).to = CHOOSE j \in last..l : Right(j)
  BY DEF P!Guard, l, t, first, last
<1> HIDE DEF Left, Right
<1>5. P!Guard(s).from \in 0..(first - 1) /\ P!Guard(s).to \in last..l
  BY <1>2, <1>3, <1>4
<1> QED
  BY <1>5 DEF first, last, l

\* One flag and the text made with every span held: what the claim says of it.
LEMMA AFlagStands ==
    ASSUME script \in Seq(Pair), NEW n \in DOMAIN spans, SpanOf(spans[n]),
           P!Holding(spans[n]) # {}
    PROVE  LET g == P!Guard(spans[n])
               shift == P!Placed(spans[n]) - spans[n].first
               made == P!TextUpto(Len(script))
           IN  /\ SubSeq(made, g.from + 1 + shift, g.to + shift)
                    = SubSeq(P!Source, g.from + 1, g.to)
               /\ g.from = 0 => shift = 0
               /\ g.to = Len(P!Source) => Len(made) = g.to + shift
               /\ \A k \in DOMAIN script : \A i \in {g.from, g.to + 1} :
                     script[k].old = script[k].new /\ P!Start(k) < i /\ i <= P!End(k) =>
                        made[i + shift] = P!Source[i]
<1> DEFINE span == spans[n]
           g == P!Guard(span)
           from == g.from
           to == g.to
           made == P!TextUpto(Len(script))
           old == P!Source
           l == Len(script)
           h == CHOOSE m \in P!Holding(span) : TRUE
           same == {k \in 1..l : P!Copied(k)}
           shift == P!Placed(span) - span.first
<1>1. /\ Olds \in Seq(Seq(Tokens)) /\ Pieces \in Seq(Seq(Tokens))
      /\ l \in Nat /\ Len(Olds) = l /\ Len(Pieces) = l
      /\ old = FlattenSeq(Olds) /\ old \in Seq(Spoken)
      /\ \A k \in 1..l : Olds[k] = script[k].old /\ Pieces[k] = P!Piece(k)
      /\ \A k \in 0..l : P!TextUpto(k) = JoinedUpto(Pieces, k)
      /\ \A k \in 1..l : /\ P!Start(k) = EndOf(Olds, k - 1)
                         /\ P!End(k) = EndOf(Olds, k)
  BY TextPieces
<1>2. DOMAIN script = 1..l
  OBVIOUS
<1>3. /\ span.first \in Nat /\ span.last \in Nat /\ span.first >= 1
      /\ span.first <= span.last /\ Len(old) \in Nat
      /\ from \in 0..(span.first - 1) /\ to \in span.last..Len(old)
  <2>1. from \in 0..(span.first - 1) /\ to \in span.last..Len(old)
    BY <1>1, GuardAround
  <2>2. Len(old) \in Nat
    BY <1>1
  <2>3. span.first \in 1..Len(old) /\ span.last \in 1..Len(old) /\ span.first <= span.last
    BY DEF SpanOf
  <2> HIDE DEF span, old, from, to
  <2> QED
    BY <2>1, <2>2, <2>3
<1>4. h \in 1..l /\ P!Copied(h) /\ P!Start(h) < span.first /\ span.last <= P!End(h)
  <2>1. h \in P!Holding(span)
    OBVIOUS
  <2> HIDE DEF h
  <2> QED
    BY <2>1, <1>2 DEF P!Holding
<1>5. g \in P!Guards
  BY DEF P!Guards
<1>6. /\ \A k \in 0..l : EndOf(Olds, k) \in Nat /\ EndOf(Pieces, k) \in Nat
      /\ \A k \in 1..l : /\ EndOf(Olds, k) = EndOf(Olds, k - 1) + Len(Olds[k])
                         /\ Len(Olds[k]) \in Nat
  BY <1>1, EndsOfPieces
<1>7. made = FlattenSeq(Pieces) /\ made \in Seq(Tokens)
  <2>1. made = JoinedUpto(Pieces, l) /\ JoinedUpto(Pieces, l) = FlattenSeq(Pieces)
    <3>1. l \in 0..l
      BY <1>1
    <3> QED
      BY <3>1, <1>1, JoinedByPieces
  <2>2. FlattenSeq(Pieces) \in Seq(Tokens)
    BY <1>1, FlattenType
  <2> QED
    BY <2>1, <2>2
<1>8. shift = EndOf(Pieces, h - 1) - EndOf(Olds, h - 1)
  <2>1. h - 1 \in 0..l
    BY <1>1, <1>4
  <2>2. P!Placed(span) = Len(P!TextUpto(h - 1)) + span.first - P!Start(h)
    BY DEF P!Placed
  <2> HIDE DEF h, span
  <2>3. /\ Len(P!TextUpto(h - 1)) = EndOf(Pieces, h - 1)
        /\ P!Start(h) = EndOf(Olds, h - 1)
    BY <1>1, <1>4, <2>1 DEF EndOf
  <2>4. EndOf(Pieces, h - 1) \in Nat /\ EndOf(Olds, h - 1) \in Nat
    BY <1>6, <2>1
  <2> QED
    BY <1>3, <2>2, <2>3, <2>4
<1> HIDE DEF span, h, shift, made, old
<1>9. ASSUME NEW k \in same PROVE Olds[k] = Pieces[k]
  BY <1>1 DEF P!Piece
<1>10. ASSUME NEW k \in 1..l,
              IF EndOf(Olds, k - 1) = EndOf(Olds, k)
              THEN from <= EndOf(Olds, k - 1) /\ EndOf(Olds, k - 1) <= to
              ELSE EndOf(Olds, k - 1) < to /\ EndOf(Olds, k) > from
       PROVE  k \in same
  <2>1. IF P!Start(k) = P!End(k) THEN from <= P!Start(k) /\ P!Start(k) <= to
        ELSE P!Start(k) < to /\ P!End(k) > from
    BY <1>1, <1>10
  <2>2. P!Protected(k)
    <3> HIDE DEF g
    <3> QED
      BY <1>5, <2>1 DEF P!Protected
  <2> QED
    BY <2>2 DEF P!Copied
<1>11. h \in same /\ EndOf(Olds, h - 1) < to /\ EndOf(Olds, h) > from
  <2>1. EndOf(Olds, h - 1) < span.first /\ span.last <= EndOf(Olds, h)
    BY <1>1, <1>4
  <2>2. EndOf(Olds, h - 1) \in Nat /\ EndOf(Olds, h) \in Nat
    <3>1. h - 1 \in 0..l /\ h \in 0..l
      BY <1>1, <1>4
    <3> QED
      BY <3>1, <1>6
  <2> HIDE DEF from, to
  <2>3. EndOf(Olds, h - 1) < to /\ EndOf(Olds, h) > from
    BY <1>3, <2>1, <2>2
  <2> QED
    BY <1>4, <2>3
<1>12. from \in Nat /\ to \in Nat /\ from < to /\ to <= Len(old)
  <2> HIDE DEF from, to
  <2> QED
    BY <1>3
<1> HIDE DEF from, to, same, l
<1>13. /\ shift \in Int
       /\ from = 0 => shift = 0
       /\ to = Len(old) => Len(made) = to + shift
       /\ \A i \in (from + 1)..to : i + shift \in 1..Len(made) /\ made[i + shift] = old[i]
       /\ \A k \in 1..l :
             k \in same /\ EndOf(Olds, k - 1) <= to /\ from <= EndOf(Olds, k) =>
                \A i \in (EndOf(Olds, k - 1) + 1)..EndOf(Olds, k) : made[i + shift] = old[i]
  <2> DEFINE u == Olds
             v == Pieces
  <2>1. u \in Seq(Seq(Tokens)) /\ v \in Seq(Seq(Tokens)) /\ Len(u) = l /\ Len(v) = l
    BY <1>1
  <2>2. SameAround(u, v, from, to, same)
    BY <1>9, <1>10, <2>1 DEF SameAround
  <2>3. h \in 1..Len(u) /\ h \in same /\ EndOf(u, h - 1) < to /\ EndOf(u, h) > from
    BY <1>4, <1>11, <2>1
  <2>4. to <= Len(FlattenSeq(u))
    BY <1>1, <1>12
  <2>5. made = FlattenSeq(v) /\ old = FlattenSeq(u) /\ shift = EndOf(v, h - 1) - EndOf(u, h - 1)
    BY <1>1, <1>7, <1>8
  <2> HIDE DEF u, v
  <2>6. FoundAgain(u, v, from, to, same, EndOf(v, h - 1) - EndOf(u, h - 1))
    <3>1. u \in PieceLists(Tokens) /\ v \in PieceLists(Tokens) /\ Len(u) = Len(v)
      BY <2>1 DEF PieceLists
    <3> QED
      BY <1>12, <2>2, <2>3, <2>4, <3>1, KeptAround
  <2>7. FoundAgain(u, v, from, to, same, shift)
    BY <2>5, <2>6
  <2> QED
    BY <2>1, <2>5, <2>7 DEF FoundAgain, u, v
<1>14. SubSeq(made, from + 1 + shift, to + shift) = SubSeq(old, from + 1, to)
  <2> DEFINE c == from + 1 + shift
             d == to + shift
             x == SubSeq(made, c, d)
             y == SubSeq(old, from + 1, to)
  <2>1. /\ c \in Int /\ d \in Int /\ c <= d /\ from + 1 \in Int /\ to \in Int /\ from + 1 <= to
        /\ d - c + 1 = to - from /\ to - (from + 1) + 1 = to - from
    BY <1>12, <1>13
  <2>2. \A i \in c..d : made[i] \in Tokens
    <3>1. ASSUME NEW i \in c..d PROVE made[i] \in Tokens
      <4>1. i - shift \in (from + 1)..to /\ (i - shift) + shift = i
        BY <1>12, <1>13
      <4>2. i \in 1..Len(made)
        BY <1>13, <4>1
      <4> QED
        BY <1>7, <4>2
    <3> QED
      BY <3>1
  <2>3. \A i \in (from + 1)..to : old[i] \in Tokens
    <3>1. \A i \in 1..Len(old) : old[i] \in Tokens
      BY <1>1 DEF Tokens
    <3> QED
      BY <1>3, <1>12, <3>1
  <2> HIDE DEF c, d
  <2>4. /\ x \in Seq(Tokens) /\ Len(x) = IF c <= d THEN d - c + 1 ELSE 0
        /\ \A i \in 1..(d - c + 1) : x[i] = made[c + i - 1]
    BY <2>1, <2>2, SubSeqProperties
  <2>5. /\ y \in Seq(Tokens)
        /\ Len(y) = IF from + 1 <= to THEN to - (from + 1) + 1 ELSE 0
        /\ \A i \in 1..(to - (from + 1) + 1) : y[i] = old[from + 1 + i - 1]
    BY <2>1, <2>3, SubSeqProperties
  <2> HIDE DEF x, y
  <2>6. Len(x) = to - from /\ Len(y) = to - from
    BY <2>1, <2>4, <2>5
  <2>7. ASSUME NEW i \in 1..(to - from) PROVE x[i] = y[i]
    <3>1. x[i] = made[c + i - 1] /\ y[i] = old[from + 1 + i - 1]
      BY <2>1, <2>4, <2>5
    <3>2. c + i - 1 = (from + i) + shift /\ from + 1 + i - 1 = from + i
      <4>1. from \in Int /\ shift \in Int /\ i \in Int
        BY <1>12, <1>13
      <4> QED
        BY <4>1 DEF c
    <3>3. from + i \in (from + 1)..to
      BY <1>12
    <3>4. made[(from + i) + shift] = old[from + i]
      BY <1>13, <3>3
    <3> QED
      BY <3>1, <3>2, <3>4
  <2>8. x = y
    BY <2>4, <2>5, <2>6, <2>7, SeqEqual
  <2> QED
    BY <2>8 DEF x, y, c, d
<1>15. ASSUME NEW k \in DOMAIN script, NEW i \in {from, to + 1},
              script[k].old = script[k].new, P!Start(k) < i, i <= P!End(k)
       PROVE  made[i + shift] = old[i]
  <2>1. k \in 1..l /\ k \in same
    BY <1>2, <1>15 DEF same, l, P!Copied
  <2>2. EndOf(Olds, k - 1) < i /\ i <= EndOf(Olds, k)
    BY <1>1, <1>15, <2>1
  <2>3. EndOf(Olds, k - 1) \in Nat /\ EndOf(Olds, k) \in Nat
    <3>1. k - 1 \in 0..l /\ k \in 0..l
      BY <1>1, <2>1
    <3> QED
      BY <3>1, <1>6
  <2>4. /\ EndOf(Olds, k - 1) <= to /\ from <= EndOf(Olds, k)
        /\ i \in (EndOf(Olds, k - 1) + 1)..EndOf(Olds, k)
    BY <1>12, <2>2, <2>3
  <2> QED
    BY <1>13, <2>1, <2>4
<1> QED
  BY <1>13, <1>14, <1>15 DEF span, shift, made, old, from, to, g

\* What is made of a segment depends on its script and its flags alone.
LEMMA SameScriptSameText ==
    ASSUME script' = script, spans' = spans
    PROVE  /\ P!Source' = P!Source /\ Outcome' = Outcome
           /\ \A s : SpanOf(s)' <=> SpanOf(s)
<1>1. P!Source' = P!Source
  BY DEF P!Source
<1>2. \A k : P!Start(k)' = P!Start(k)
  BY DEF P!Start
<1>3. \A k : P!End(k)' = P!End(k)
  BY <1>2 DEF P!End
<1>4. \A s : P!Guard(s)' = P!Guard(s)
  BY <1>1 DEF P!Guard
<1>5. P!Guards' = P!Guards
  BY <1>4 DEF P!Guards
<1>6. \A k : P!Copied(k)' <=> P!Copied(k)
  BY <1>2, <1>3, <1>5 DEF P!Copied, P!Protected
<1>7. \A k : P!Piece(k)' = P!Piece(k)
  BY <1>6 DEF P!Piece
<1>8. \A k : P!TextUpto(k)' = P!TextUpto(k)
  BY <1>7 DEF P!TextUpto
<1>9. \A s : P!Holding(s)' = P!Holding(s)
  BY <1>2, <1>3, <1>6 DEF P!Holding
<1>10. \A s : P!Placed(s)' = P!Placed(s)
  BY <1>2, <1>8, <1>9 DEF P!Placed
<1>11. Outcome' = Outcome
  BY <1>1, <1>8, <1>9, <1>10 DEF Outcome
<1>12. \A s : SpanOf(s)' <=> SpanOf(s)
  BY <1>1 DEF SpanOf
<1> QED
  BY <1>1, <1>11, <1>12

\* The outcome lets every flag stand: as the lemma above has it where every span
\* is held, and because nothing is changed where one is not.
LEMMA OutcomeStands == ProofreadInv => UnsureSpansStand
<1> SUFFICES ASSUME ProofreadInv, result # P!Pending, NEW n \in DOMAIN spans
             PROVE  LET g == P!Guard(spans[n])
                        shift == result.at[n] - spans[n].first
                        Unedited(i) == \E k \in DOMAIN script :
                            script[k].old = script[k].new /\ P!Start(k) < i /\ i <= P!End(k)
                    IN  /\ SubSeq(result.text, g.from + 1 + shift, g.to + shift)
                              = SubSeq(P!Source, g.from + 1, g.to)
                        /\ g.from = 0 => shift = 0
                        /\ g.to = Len(P!Source) => Len(result.text) = g.to + shift
                        /\ g.from > 0 /\ Unedited(g.from) =>
                              result.text[g.from + shift] = P!Source[g.from]
                        /\ g.to < Len(P!Source) /\ Unedited(g.to + 1) =>
                               result.text[g.to + 1 + shift] = P!Source[g.to + 1]
  BY DEF UnsureSpansStand, P!UnsureSpansStand
<1> DEFINE g == P!Guard(spans[n])
<1>1. script \in Seq(Pair) /\ SpanOf(spans[n]) /\ result = Outcome
  BY DEF ProofreadInv
<1>2. CASE \A m \in DOMAIN spans : P!Holding(spans[m]) # {}
  <2> DEFINE shift == P!Placed(spans[n]) - spans[n].first
             made == P!TextUpto(Len(script))
  <2>1. result.text = made /\ result.at[n] = P!Placed(spans[n])
    BY <1>1, <1>2 DEF Outcome
  <2>2. /\ SubSeq(made, g.from + 1 + shift, g.to + shift) = SubSeq(P!Source, g.from + 1, g.to)
        /\ g.from = 0 => shift = 0
        /\ g.to = Len(P!Source) => Len(made) = g.to + shift
        /\ \A k \in DOMAIN script : \A i \in {g.from, g.to + 1} :
              script[k].old = script[k].new /\ P!Start(k) < i /\ i <= P!End(k) =>
                 made[i + shift] = P!Source[i]
    BY <1>1, <1>2, AFlagStands
  <2> HIDE DEF g, made
  <2> QED
    BY <2>1, <2>2 DEF g
<1>3. CASE \E m \in DOMAIN spans : P!Holding(spans[m]) = {}
  <2>1. result.text = P!Source /\ result.at[n] = spans[n].first
    BY <1>1, <1>3 DEF Outcome
  <2>2. P!Source \in Seq(Spoken)
    BY <1>1, TextPieces
  <2>3. /\ spans[n].first \in Int /\ Len(P!Source) \in Nat
        /\ g.from \in Int /\ g.to \in Int
    <3>1. /\ g.from \in 0..(spans[n].first - 1) /\ g.to \in spans[n].last..Len(P!Source)
          /\ Len(P!Source) \in Nat /\ spans[n].first \in 1..Len(P!Source)
      BY <1>1, <2>2, GuardAround DEF SpanOf
    <3> HIDE DEF g
    <3> QED
      BY <3>1
  <2> HIDE DEF g
  <2>4. /\ spans[n].first - spans[n].first = 0 /\ g.from + 1 + 0 = g.from + 1
        /\ g.to + 0 = g.to /\ g.from + 0 = g.from /\ g.to + 1 + 0 = g.to + 1
    BY <2>3
  <2> QED
    BY <2>1, <2>4 DEF g
<1> QED
  BY <1>2, <1>3

\* Whatever the model proposes: the span a flag marks is in the result as it was,
\* where the flag is placed, and nothing that was not there comes next to it.
THEOREM FlaggedSpansStand == AllSpec => []UnsureSpansStand
<1>1. AllInit => ProofreadInv
  <2> SUFFICES ASSUME AllInit PROVE ProofreadInv
    OBVIOUS
  <2>1. CASE part = "proofreading"
    BY <2>1, ScriptsArePairs DEF AllInit
  <2>2. CASE part # "proofreading"
    <3>1. script = <<>> /\ spans = <<>> /\ result = P!Pending
      BY <2>2 DEF AllInit
    <3> QED
      BY <3>1 DEF ProofreadInv
  <2> QED
    BY <2>1, <2>2
<1>2. ProofreadInv /\ [AllNext]_all => ProofreadInv'
  <2>1. ProofreadInv /\ UNCHANGED proof => ProofreadInv'
    BY SameScriptSameText DEF proof, ProofreadInv, P!Pending
  <2>2. ProofreadInv /\ P!Next => ProofreadInv'
    <3>1. P!Next => result' = Outcome /\ script' = script /\ spans' = spans
      BY DEF P!Next, P!Preserve, Outcome
    <3> QED
      BY <3>1, SameScriptSameText DEF ProofreadInv
  <2> QED
    BY <2>1, <2>2 DEF AllNext, all
<1> QED
  BY <1>1, <1>2, OutcomeStands, PTL DEF AllSpec
=============================================================================
