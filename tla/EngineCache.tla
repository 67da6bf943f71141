----------------------------- MODULE EngineCache -----------------------------
(* The engines of a process (core/engine.py).  A run resolves what its request  *)
(* names to one engine per configuration, out of a bounded cache that forgets   *)
(* the least recently used one (but not the run that still holds it); the       *)
(* engine loads its model when it is first used, under its own lock, and keeps  *)
(* the lock for the whole inference.  faster-whisper hands back a generator     *)
(* and infers while it is drained.  Whistle starts a child of its own for       *)
(* every call and takes no lock.                                               *)
EXTENDS Naturals, Sequences

CONSTANTS
    Users,      \* threads that transcribe: pool threads and foreground callers
    Asked,      \* [name, model]: what requests name
    Unset,      \* a request that names no model
    Free,       \* the holder of a lock nobody holds
    Slots,      \* maxsize of each of the three caches
    MaxBuilt    \* bound: engines that are ever built

Engines == {"whistle", "whisper", "faster-whisper"}
Ids == 1..MaxBuilt

VARIABLES
    built,      \* the configuration of every engine built so far
    cached,     \* of each engine name: its engines, least recently used first
    loads,      \* of each engine: how often it loaded its model
    lock,       \* of each engine: the user that holds its lock, or Free
    pc, mine    \* of each user: where it is and the engine it holds, or 0

vars == <<built, cached, loads, lock, pc, mine>>

Init ==
    /\ built = <<>> /\ cached = [e \in Engines |-> <<>>]
    /\ loads = [i \in Ids |-> 0] /\ lock = [i \in Ids |-> Free]
    /\ pc = [u \in Users |-> "idle"] /\ mine = [u \in Users |-> 0]

\* validate_engine: names and aliases that mean one engine.
Canonical(name) ==
    CASE name = "openai-whisper" -> "whisper"
      [] name = "default" -> "whistle"
      [] OTHER -> name

\* engine_default_model: the Whisper family has one default, Whistle one model.
DefaultModel(engine) == IF engine = "whistle" THEN "whistle" ELSE "small"

\* The configuration a request settles to, however it is spelled.
Configuration(asked) ==
    LET engine == Canonical(asked.name)
    IN  [engine |-> engine,
         model |-> IF asked.model = Unset THEN DefaultModel(engine) ELSE asked.model]

Position(engine, i) == {k \in 1..Len(cached[engine]) : cached[engine][k] = i}

\* functools.lru_cache: a hit makes its entry the most recent one.
Refreshed(entries, k) ==
    SubSeq(entries, 1, k - 1) \o SubSeq(entries, k + 1, Len(entries)) \o <<entries[k]>>

\* A miss in a full cache drops the least recent entry.
Extended(entries, i) ==
    IF Len(entries) < Slots THEN Append(entries, i) ELSE Append(Tail(entries), i)

Hold(u, i, engine) ==
    /\ pc' = [pc EXCEPT ![u] = IF engine = "whistle" THEN "native" ELSE "resolved"]
    /\ mine' = [mine EXCEPT ![u] = i]

(* get_engine, a lookup under the lock of the caches *************************)

GetCached(u, asked) ==
    LET c == Configuration(asked)
    IN  /\ pc[u] = "idle"
        /\ \E i \in 1..Len(built) : \E k \in Position(c.engine, i) :
              /\ built[i] = c
              /\ cached' = [cached EXCEPT ![c.engine] = Refreshed(@, k)]
              /\ Hold(u, i, c.engine)
        /\ UNCHANGED <<built, loads, lock>>

GetBuilt(u, asked) ==
    LET c == Configuration(asked)
    IN  /\ pc[u] = "idle"
        /\ Len(built) < MaxBuilt
        /\ \A i \in 1..Len(built) : built[i] = c => Position(c.engine, i) = {}
        /\ built' = Append(built, c)
        /\ cached' = [cached EXCEPT ![c.engine] = Extended(@, Len(built) + 1)]
        /\ Hold(u, Len(built) + 1, c.engine)
        /\ UNCHANGED <<loads, lock>>

(* transcribe, between taking the engine's lock and giving it back ***********)

Go(u, from, to) == pc[u] = from /\ pc' = [pc EXCEPT ![u] = to]

Enter(u) ==
    /\ Go(u, "resolved", "loading")
    /\ lock[mine[u]] = Free
    /\ lock' = [lock EXCEPT ![mine[u]] = u]
    /\ UNCHANGED <<built, cached, loads, mine>>

\* _load, of an engine that has no model yet.
Load(u) ==
    /\ Go(u, "loading", "infer")
    /\ loads[mine[u]] = 0
    /\ loads' = [loads EXCEPT ![mine[u]] = @ + 1]
    /\ UNCHANGED <<built, cached, lock, mine>>

UseLoaded(u) ==
    /\ Go(u, "loading", "infer")
    /\ loads[mine[u]] # 0
    /\ UNCHANGED <<built, cached, loads, lock, mine>>

Leave(u) ==
    /\ pc' = [pc EXCEPT ![u] = "idle"]
    /\ mine' = [mine EXCEPT ![u] = 0]
    /\ lock' = [lock EXCEPT ![mine[u]] = Free]
    /\ UNCHANGED <<built, cached, loads>>

\* The inference of openai-whisper ends with its call.
Inferred(u) == pc[u] = "infer" /\ built[mine[u]].engine = "whisper" /\ Leave(u)

\* (mutant: the generator is returned and drained without the lock)
ReturnsGenerator(u) ==
    /\ Go(u, "infer", "drain")
    /\ built[mine[u]].engine = "faster-whisper"
    /\ lock' = [lock EXCEPT ![mine[u]] = Free]
    /\ UNCHANGED <<built, cached, loads, mine>>

\* The call of faster-whisper returns before anything is inferred.
StartDrain(u) ==
    /\ Go(u, "infer", "drain")
    /\ built[mine[u]].engine = "faster-whisper"
    /\ UNCHANGED <<built, cached, loads, lock, mine>>

Drained(u) == pc[u] = "drain" /\ Leave(u)

\* A missing package, a model that does not load, an inference that raises.
Raises(u) == pc[u] \in {"loading", "infer", "drain"} /\ Leave(u)

\* Whistle's call ends one way or the other (see Whistle).
NativeEnds(u) ==
    /\ Go(u, "native", "idle")
    /\ mine' = [mine EXCEPT ![u] = 0]
    /\ UNCHANGED <<built, cached, loads, lock>>

Next ==
    \E u \in Users :
        \/ \E asked \in Asked : GetCached(u, asked) \/ GetBuilt(u, asked)
        \/ Enter(u) \/ Load(u) \/ UseLoaded(u) \/ Inferred(u)
        \/ StartDrain(u) \/ Drained(u) \/ Raises(u) \/ NativeEnds(u)

Spec == Init /\ [][Next]_vars

-----------------------------------------------------------------------------
Inferring(u) == pc[u] \in {"infer", "drain"}

\* A loaded model never runs two inferences at once, whatever its library does
\* lazily and whichever run still holds an engine the cache forgot; an engine
\* loads its model once; and the cache never keeps two engines of one
\* configuration, so that runs which spell it differently share one.
OneRunPerModel ==
    /\ \A u, v \in Users :
          Inferring(u) /\ Inferring(v) /\ u # v => mine[u] # mine[v]
    /\ \A i \in Ids : loads[i] <= 1
    /\ \A e \in Engines : \A j, k \in 1..Len(cached[e]) :
          built[cached[e][j]] = built[cached[e][k]] => j = k
=============================================================================
