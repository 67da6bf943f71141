-------------------------- MODULE DefaultExecutor --------------------------
(***************************************************************************)
(* The process-wide executor of core/executor.py: the pool the adapters    *)
(* share, its shutdown with a bounded join, and its replacement.  A pool   *)
(* here is coarse (JobExecutor has the detail): its live threads, the jobs *)
(* it queued and runs, and the verdicts it could not record.               *)
(*                                                                         *)
(* What is at stake is what a replacement may lose: the concurrency bound, *)
(* an admitted job, or the memory of a stranded verdict.                   *)
(***************************************************************************)
EXTENDS Naturals, FiniteSets

CONSTANTS
    Jobs,
    Callers,        \* adapter threads: each asks for the pool, then uses it
    Threads,        \* max_concurrency
    MaxPending,
    MaxPools,       \* bound: pools ever built
    StoreFaults     \* TRUE: writes of verdicts may raise

ASSUME DefaultExecutorAssumption ==
    /\ Threads \in Nat \ {0} /\ MaxPending \in Nat \ {0} /\ MaxPools \in Nat \ {0}
    /\ StoreFaults \in BOOLEAN

NoPool == 0
Pools  == 1 .. MaxPools

VARIABLES
    cached,     \* _default_executor, NoPool for None
    built,      \* pools built so far; they are numbered in that order
    mode,       \* per pool: "fresh" before start, "open", "shut"
    alive,      \* live threads of each pool
    job,        \* where each job is, and in which pool
    latched,    \* pools with _store_failed set
    stranded,   \* _pending_terminal of each pool
    ref,        \* the pool each caller was handed
    joining     \* the lock of the default is held by a shutdown that joins

vars == <<cached, built, mode, alive, job, latched, stranded, ref, joining>>

JobPlaces == {"new", "queued", "busy", "settled", "lost"}

TypeOK ==
    /\ cached \in Pools \cup {NoPool} /\ built \in 0 .. MaxPools
    /\ mode \in [Pools -> {"fresh", "open", "shut"}]
    /\ alive \in [Pools -> 0 .. Threads]
    /\ job \in [Jobs -> [at : JobPlaces, pool : Pools \cup {NoPool}]]
    /\ latched \subseteq Pools
    /\ stranded \in [Pools -> SUBSET Jobs]
    /\ ref \in [Callers -> Pools \cup {NoPool}]
    /\ joining \in BOOLEAN

Init ==
    /\ cached = NoPool /\ built = 0
    /\ mode = [p \in Pools |-> "fresh"]
    /\ alive = [p \in Pools |-> 0]
    /\ job = [j \in Jobs |-> [at |-> "new", pool |-> NoPool]]
    /\ latched = {} /\ stranded = [p \in Pools |-> {}]
    /\ ref = [c \in Callers |-> NoPool]
    /\ joining = FALSE

In(p, place) == {j \in Jobs : job[j] = [at |-> place, pool |-> p]}
Busy(p)      == In(p, "busy")
Waiting(p)   == In(p, "queued")

\* One guarded write of the reconcile: some stranded job healed, or none.
Healed(p) == {{j} : j \in stranded[p]}
             \cup (IF StoreFaults \/ stranded[p] = {} THEN {{}} ELSE {})

HealRows(healed) ==
    [j \in Jobs |-> IF j \in healed
                    THEN [job[j] EXCEPT !.at = "settled"] ELSE job[j]]

-----------------------------------------------------------------------------
(* get_default_executor, under the lock of the default.                     *)

ReusesStopped(p) == p # NoPool /\ mode[p] # "shut"

\* An open pool is reused, and so is a stopped one with a thread still alive:
\* its own admission path refuses.
Reuses(p) == p # NoPool /\ (mode[p] # "shut" \/ alive[p] > 0)

GetCached(c) ==
    /\ ref[c] = NoPool /\ ~joining
    /\ Reuses(cached)
    /\ ref' = [ref EXCEPT ![c] = cached]
    /\ UNCHANGED <<cached, built, mode, alive, job, latched, stranded, joining>>

GetFirst(c) ==
    /\ ref[c] = NoPool /\ ~joining
    /\ cached = NoPool /\ built < MaxPools
    /\ built' = built + 1
    /\ cached' = built + 1
    /\ ref' = [ref EXCEPT ![c] = built + 1]
    /\ UNCHANGED <<mode, alive, job, latched, stranded, joining>>

GetReplacedForgetting(c) ==
    /\ ref[c] = NoPool /\ ~joining
    /\ cached # NoPool /\ ~Reuses(cached) /\ built < MaxPools
    /\ built' = built + 1
    /\ cached' = built + 1
    /\ ref' = [ref EXCEPT ![c] = built + 1]
    /\ UNCHANGED <<mode, alive, job, latched, stranded, joining>>

\* _reconcile_before_replace, then a fresh pool that inherits what is left.
GetReplaced(c) ==
    LET old == cached  new == built + 1 IN
    /\ ref[c] = NoPool /\ ~joining
    /\ old # NoPool /\ ~Reuses(old) /\ built < MaxPools
    /\ \E healed \in Healed(old) :
         LET left == stranded[old] \ healed IN
         /\ job' = HealRows(healed)
         /\ stranded' = [stranded EXCEPT ![old] = left, ![new] = left]
         /\ latched' = IF left # {} THEN latched \cup {new} ELSE latched \ {old}
    /\ built' = new
    /\ cached' = new
    /\ ref' = [ref EXCEPT ![c] = new]
    /\ UNCHANGED <<mode, alive, joining>>

-----------------------------------------------------------------------------
(* The caller uses the pool it was handed, which may be stopped by then.    *)

StartPool(c) ==
    LET p == ref[c] IN
    /\ p # NoPool /\ mode[p] = "fresh"
    /\ mode' = [mode EXCEPT ![p] = "open"]
    /\ alive' = [alive EXCEPT ![p] = Threads]
    /\ UNCHANGED <<cached, built, job, latched, stranded, ref, joining>>

Release(c) == ref' = [ref EXCEPT ![c] = NoPool]

RefuseShut(c) ==
    LET p == ref[c] IN
    /\ p # NoPool /\ mode[p] = "shut"
    /\ Release(c)
    /\ UNCHANGED <<cached, built, mode, alive, job, latched, stranded, joining>>

\* The admission gate: with the latch set one write heals at most one stranded
\* job, and only the write that leaves none lets this caller through.
Attempts(p) == IF p \in latched THEN Healed(p) ELSE {{}}
Opens(p, healed) == p \notin latched \/ (healed # {} /\ stranded[p] \ healed = {})

Gate(p, healed) ==
    /\ mode[p] = "open"
    /\ stranded' = [stranded EXCEPT ![p] = @ \ healed]
    /\ latched' = IF Opens(p, healed) THEN latched \ {p} ELSE latched

Admit(c) ==
    LET p == ref[c] IN
    /\ p # NoPool
    /\ \E healed \in Attempts(p), j \in Jobs :
         /\ Gate(p, healed) /\ Opens(p, healed)
         /\ Cardinality(Waiting(p)) < MaxPending
         /\ job[j].at = "new"
         /\ job' = [HealRows(healed) EXCEPT ![j] = [at |-> "queued", pool |-> p]]
    /\ Release(c)
    /\ UNCHANGED <<cached, built, mode, alive, joining>>

\* The store still fails, other verdicts are still missing, or no slot is free.
Refuse(c) ==
    LET p == ref[c] IN
    /\ p # NoPool
    /\ \E healed \in Attempts(p) :
         /\ Gate(p, healed)
         /\ Opens(p, healed) => Cardinality(Waiting(p)) >= MaxPending
         /\ job' = HealRows(healed)
    /\ Release(c)
    /\ UNCHANGED <<cached, built, mode, alive, joining>>

-----------------------------------------------------------------------------
(* Threads.                                                                 *)

Take(p) ==
    /\ Cardinality(Busy(p)) < alive[p]
    /\ \E j \in Waiting(p) :
         job' = [job EXCEPT ![j].at = "busy"]
    /\ UNCHANGED <<cached, built, mode, alive, latched, stranded, ref, joining>>

Finish(p) ==
    /\ \E j \in Busy(p) : job' = [job EXCEPT ![j].at = "settled"]
    /\ UNCHANGED <<cached, built, mode, alive, latched, stranded, ref, joining>>

\* The verdict and its repair both raised: the row stays RUNNING.
Strand(p) ==
    /\ StoreFaults
    /\ \E j \in Busy(p) :
         /\ job' = [job EXCEPT ![j].at = "lost"]
         /\ stranded' = [stranded EXCEPT ![p] = @ \cup {j}]
    /\ latched' = latched \cup {p}
    /\ UNCHANGED <<cached, built, mode, alive, ref, joining>>

\* A sentinel is reached only behind every queued job.
Exit(p) ==
    /\ mode[p] = "shut" /\ alive[p] > Cardinality(Busy(p))
    /\ Waiting(p) = {}
    /\ alive' = [alive EXCEPT ![p] = @ - 1]
    /\ UNCHANGED <<cached, built, mode, job, latched, stranded, ref, joining>>

-----------------------------------------------------------------------------
(* shutdown_default_executor: the pool stays cached whatever the join does. *)

ShutdownDefault ==
    /\ ~joining /\ cached # NoPool /\ mode[cached] # "shut"
    /\ mode' = [mode EXCEPT ![cached] = "shut"]
    /\ joining' = TRUE
    /\ UNCHANGED <<cached, built, alive, job, latched, stranded, ref>>

\* Every thread exited, or the bounded join timed out.
ShutdownReturn ==
    /\ joining
    /\ joining' = FALSE
    /\ UNCHANGED <<cached, built, mode, alive, job, latched, stranded, ref>>

CallerStep(c) ==
    \/ GetCached(c) \/ GetFirst(c) \/ GetReplaced(c)
    \/ StartPool(c) \/ RefuseShut(c) \/ Admit(c) \/ Refuse(c)

ThreadStep(p) == Take(p) \/ Finish(p) \/ Strand(p) \/ Exit(p)

Next ==
    \/ \E c \in Callers : CallerStep(c)
    \/ \E p \in Pools : ThreadStep(p)
    \/ ShutdownDefault \/ ShutdownReturn

Spec == Init /\ [][Next]_vars

-----------------------------------------------------------------------------
(* Properties.                                                              *)

\* The bound on concurrent runs is one for the whole process: no replacement
\* runs beside a thread of the pool it replaced, even one stuck past its join.
RunsBounded ==
    Cardinality({j \in Jobs : job[j].at = "busy"}) <= Threads

\* Only the pool the process can still reach has threads or admitted jobs, so a
\* cancel, which asks the default executor, finds the run it is addressed to.
OnlyTheDefaultWorks ==
    \A p \in Pools : p # cached =>
        alive[p] = 0 /\ Busy(p) = {} /\ Waiting(p) = {}

\* A verdict that could not be recorded is not forgotten with the pool that
\* failed to record it: the pool that admits next still holds it, and refuses.
StrandedVerdictsSurvive ==
    \A j \in Jobs : job[j].at = "lost" =>
        cached # NoPool /\ j \in stranded[cached] /\ cached \in latched

=============================================================================
