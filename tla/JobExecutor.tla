---------------------------- MODULE JobExecutor ----------------------------
(***************************************************************************)
(* The worker pool of core/executor.py with everything that shares a job   *)
(* row with it: the run of core/runner.py, the resume path of              *)
(* core/submission.py, cancellation, startup recovery (core/startup.py),   *)
(* store outages, an orderly shutdown and a crash of the process.          *)
(*                                                                         *)
(* An action is one critical section or one store call: between two of     *)
(* them any other thread may run.  The pipeline is the choice between its  *)
(* outcomes (a result, a failure, a stop at a stage boundary).             *)
(***************************************************************************)
EXTENDS JobStore, Sequences

CONSTANTS
    Workers,        \* the pool's threads (max_concurrency of them)
    Clients,        \* threads of adapters that submit, resume or cancel
    NoJob, NoWorker, NoClient,
    MaxPending,     \* max_pending: queued jobs admitted at once
    MaxAttempt,     \* bound: no resume begins on a row at or past this attempt
    LiveAlias,      \* TRUE: claim returns the live row (MemoryJobStore);
                    \* FALSE: a detached one (SqliteJobStore)
    FaultyOps,      \* the store calls that may raise
    CanCrash        \* the process may die and be restarted over its store

\* A store call raises before it wrote anything, or after its write landed:
\* create prunes, and the calls below read the row back, after their commit.
LandingOps == {"create", "save", "accept", "starting", "finalize", "reap"}
StoreOps == LandingOps \cup {"claim", "begin", "verdict", "repair", "reconcile",
                             "unadmit"}

ASSUME ExecutorAssumption ==
    /\ MaxPending \in Nat \ {0}
    /\ MaxAttempt \in Nat
    /\ LiveAlias \in BOOLEAN /\ CanCrash \in BOOLEAN
    /\ FaultyOps \subseteq StoreOps
    /\ NoJob \notin Jobs /\ NoWorker \notin Workers /\ NoClient \notin Clients
    /\ IsFiniteSet(Workers)

VARIABLES
    rows,       \* the store's table
    nextSeq,    \* its AUTOINCREMENT / insertion order
    started,    \* _started
    shutdown,   \* _shutdown
    sentinels,  \* sentinels shutdown still has to put on the queue
    queue,      \* _queue: queued runs and sentinels
    slots,      \* _pending_slots
    owned,      \* _owned
    acquired,   \* _owned_attempts
    tokens,     \* _tokens: the worker whose token is registered
    worker,     \* each thread's place in _worker / _run_one / run_job
    latched,    \* _store_failed is not None
    stranded,   \* _pending_terminal, oldest first
    lock,       \* the client inside an admission that spans two store calls
    client      \* each client's place in submit_request / cancel

storeVars == <<rows, nextSeq>>
lifeVars  == <<started, shutdown, sentinels>>
poolVars  == <<queue, slots, owned, acquired, tokens>>
faultVars == <<latched, stranded>>
vars == <<storeVars, lifeVars, poolVars, worker, faultVars, lock, client>>

Unknown  == -1
Attempts == Nat \cup {Unknown}

\* A queue entry is a job id with the kwargs of the caller that queued it;
\* gen names those kwargs by the attempt that caller's create or claim gave.
Sentinel == [job |-> NoJob, gen |-> Unknown]
Entry    == [job : Jobs, gen : Attempts]

RunPcs == {"starting", "running", "finalizing", "failing", "stopping"}
HoldPcs == RunPcs \cup {"held", "repairing", "latching", "cleanup"}
WorkerPcs == HoldPcs \cup {"off", "idle", "dequeued"}

\* A worker's place: the id it took, whose kwargs, the attempt it owns once it
\* started, and whether its token was tripped.
Place == [pc : WorkerPcs, job : Jobs \cup {NoJob},
          gen : Attempts, own : Attempts, tripped : BOOLEAN]

OffDuty == [pc |-> "off", job |-> NoJob, gen |-> Unknown,
            own |-> Unknown, tripped |-> FALSE]
Idle    == [OffDuty EXCEPT !.pc = "idle"]

ClientPcs == {"idle", "submitting", "observed", "claimed", "saved",
              "admitting", "refused", "cancelling"}

\* A client's place: the row it acts on, the attempt it observed, the attempt it
\* believes its claim gave the row, and the one its claim really gave.
CallPlace == [pc : ClientPcs, job : Jobs \cup {NoJob},
              seen : Attempts, claim : Attempts, gen : Attempts]

AtRest == [pc |-> "idle", job |-> NoJob, seen |-> Unknown,
           claim |-> Unknown, gen |-> Unknown]

FieldTypes ==
    /\ rows \in [Jobs -> Row] /\ nextSeq \in Nat
    /\ started \in BOOLEAN /\ shutdown \in BOOLEAN /\ sentinels \in Nat
    /\ queue \in Seq(Entry \cup {Sentinel}) /\ slots \in Nat
    /\ owned \subseteq Jobs /\ acquired \in [Jobs -> Attempts]
    /\ tokens \in [Jobs -> Workers \cup {NoWorker}]
    /\ worker \in [Workers -> Place]
    /\ latched \in BOOLEAN
    /\ stranded \in Seq([job : Jobs, attempt : Attempts])
    /\ lock \in Clients \cup {NoClient}
    /\ client \in [Clients -> CallPlace]

\* A thread or a call that is at work is at work on a job.
Placed ==
    /\ \A w \in Workers : worker[w].job = NoJob <=> worker[w].pc \in {"off", "idle"}
    /\ \A c \in Clients :
          /\ client[c].pc \in {"observed", "claimed", "saved", "refused", "cancelling"}
                => client[c].job \in Jobs
          /\ client[c].pc \in {"idle", "submitting"} => client[c].job = NoJob

TypeOK == FieldTypes /\ Placed

VolatileInit ==
    /\ started = FALSE /\ shutdown = FALSE /\ sentinels = 0
    /\ queue = <<>> /\ slots = MaxPending /\ owned = {}
    /\ acquired = [j \in Jobs |-> Unknown]
    /\ tokens = [j \in Jobs |-> NoWorker]
    /\ worker = [w \in Workers |-> OffDuty]
    /\ latched = FALSE /\ stranded = <<>>
    /\ lock = NoClient
    /\ client = [c \in Clients |-> AtRest]

Init ==
    /\ rows = [j \in Jobs |-> NoRow] /\ nextSeq = 1
    /\ VolatileInit

\* How a store call may end.
Raises(op) == op \in FaultyOps
WorkerTo(w, pc) == worker' = [worker EXCEPT ![w].pc = pc]
ClientTo(c, pc) == client' = [client EXCEPT ![c].pc = pc]
ClientDone(c)   == client' = [client EXCEPT ![c] = AtRest]
SetRow(j, r)    == rows' = [rows EXCEPT ![j] = r]

-----------------------------------------------------------------------------
(* Life of the pool: start, shutdown, crash.                               *)

ReapAll(swept) ==
    rows' = [j \in Jobs |-> IF j \in swept THEN Reap(rows[j]) ELSE rows[j]]

\* start: the shared recovery first, then the threads.
Start ==
    /\ ~started /\ ~shutdown /\ lock = NoClient
    /\ ReapAll(Jobs)
    /\ started' = TRUE
    /\ worker' = [w \in Workers |-> Idle]
    /\ UNCHANGED <<nextSeq, shutdown, sentinels, poolVars, faultVars, lock, client>>

\* A reap that raises part-way leaves what it already wrote, and no pool.
StartFaults ==
    /\ Raises("reap")
    /\ ~started /\ ~shutdown /\ lock = NoClient
    /\ \E swept \in SUBSET Jobs : ReapAll(swept)
    /\ UNCHANGED <<nextSeq, lifeVars, poolVars, worker, faultVars, lock, client>>

ShutdownOneSentinelShort ==
    /\ ~shutdown /\ lock = NoClient
    /\ shutdown' = TRUE
    /\ sentinels' = IF started THEN Cardinality(Workers) - 1 ELSE 0
    /\ UNCHANGED <<storeVars, started, poolVars, worker, faultVars, lock, client>>

Shutdown ==
    /\ ~shutdown /\ lock = NoClient
    /\ shutdown' = TRUE
    /\ sentinels' = IF started THEN Cardinality(Workers) ELSE 0
    /\ UNCHANGED <<storeVars, started, poolVars, worker, faultVars, lock, client>>

PutSentinel ==
    /\ sentinels > 0
    /\ sentinels' = sentinels - 1
    /\ queue' = Append(queue, Sentinel)
    /\ UNCHANGED <<storeVars, started, shutdown, slots, owned, acquired, tokens,
                   worker, faultVars, lock, client>>

\* Everything but the durable table is lost; the next process starts over it.
CrashAndRestart ==
    /\ CanCrash
    /\ started' = FALSE /\ shutdown' = FALSE /\ sentinels' = 0
    /\ queue' = <<>> /\ slots' = MaxPending /\ owned' = {}
    /\ acquired' = [j \in Jobs |-> Unknown]
    /\ tokens' = [j \in Jobs |-> NoWorker]
    /\ worker' = [w \in Workers |-> OffDuty]
    /\ latched' = FALSE /\ stranded' = <<>>
    /\ lock' = NoClient
    /\ client' = [c \in Clients |-> AtRest]
    /\ UNCHANGED storeVars

-----------------------------------------------------------------------------
(* Admission: submit for a new job, the resume path for an old one.         *)

\* Adapters take calls once recovery ran (their lifespan does it, or start).
Serving == started

\* Bound: as many submissions at a time as there are ids left for them.
Submitting == {c \in Clients : client[c].pc # "idle" /\ client[c].job = NoJob}
IdsLeft    == {j \in Jobs : rows[j].state = "absent"}

SubmitBegin(c) ==
    /\ Serving
    /\ client[c].pc = "idle"
    /\ Cardinality(Submitting) < Cardinality(IdsLeft)
    /\ ClientTo(c, "submitting")
    /\ UNCHANGED <<storeVars, lifeVars, poolVars, worker, faultVars, lock>>

\* _matching_checkpoint on an explicit id: the snapshot the decision is made
\* on.  A live or DONE row ends the call there.
ResumeObserve(c, j) ==
    /\ Serving
    /\ client[c].pc = "idle"
    /\ rows[j].state \in ResumableClaimStates
    /\ rows[j].attempt < MaxAttempt
    /\ client' = [client EXCEPT ![c] = [AtRest EXCEPT
                    !.pc = "observed", !.job = j, !.seen = rows[j].attempt]]
    /\ UNCHANGED <<storeVars, lifeVars, poolVars, worker, faultVars, lock>>

\* The claim that reopens the row, pinned to the observed attempt.
ResumeClaim(c) ==
    LET j == client[c].job IN
    /\ client[c].pc = "observed"
    /\ CanClaim(rows[j], ResumableClaimStates, client[c].seen)
    /\ SetRow(j, Reopen(rows[j]))
    /\ client' = [client EXCEPT ![c].pc = "claimed",
                                ![c].claim = rows'[j].attempt,
                                ![c].gen = rows'[j].attempt]
    /\ UNCHANGED <<nextSeq, lifeVars, poolVars, worker, faultVars, lock>>

ResumeConflict(c) ==
    /\ client[c].pc = "observed"
    /\ \/ ~CanClaim(rows[client[c].job], ResumableClaimStates, client[c].seen)
       \/ Raises("claim")
    /\ ClientDone(c)
    /\ UNCHANGED <<storeVars, lifeVars, poolVars, worker, faultVars, lock>>

ReadRowAttempt(c) == rows[client[c].job].attempt

\* job.attempt read off the claim's result later: the value the claim wrote
\* when the row is detached, whatever the row holds by now when it is live.
ReadAttempt(c) ==
    LET r == rows[client[c].job] IN
    IF LiveAlias /\ Present(r) THEN r.attempt ELSE client[c].claim

\* claimed_attempt = job.attempt, then the unguarded update of the request.
ResumeSave(c) ==
    /\ client[c].pc = "claimed"
    /\ client' = [client EXCEPT ![c].pc = "saved", ![c].claim = ReadAttempt(c)]
    /\ UNCHANGED <<storeVars, lifeVars, poolVars, worker, faultVars, lock>>

\* That update is outside every try: the call ends with the row reopened.
ResumeSaveFaults(c) ==
    /\ client[c].pc = "claimed"
    /\ Raises("save")
    /\ ClientDone(c)
    /\ UNCHANGED <<storeVars, lifeVars, poolVars, worker, faultVars, lock>>

\* What a refusal by the pool means: a submit raises to its caller, a resume
\* goes on to _fail_unadmitted.
Refused(c) ==
    client' = [client EXCEPT ![c] =
        IF @.pc = "submitting" \/ @.job = NoJob
        THEN AtRest ELSE [@ EXCEPT !.pc = "refused"]]

AtGate(c) == client[c].pc \in {"submitting", "saved"}

GateShut(c) ==
    /\ AtGate(c) /\ lock = NoClient
    /\ shutdown
    /\ Refused(c)
    /\ UNCHANGED <<storeVars, lifeVars, poolVars, worker, faultVars, lock>>

GateReconcileClearsEarly(c) ==
    LET oldest == Head(stranded) IN
    /\ AtGate(c) /\ lock = NoClient
    /\ ~shutdown /\ latched
    /\ stranded # <<>> /\ oldest.attempt # Unknown
    /\ SetRow(oldest.job, Verdict(rows[oldest.job], IncompleteStates,
                                  oldest.attempt, "error"))
    /\ stranded' = Tail(stranded)
    /\ latched' = FALSE
    /\ lock' = c /\ ClientTo(c, "admitting")
    /\ UNCHANGED <<nextSeq, lifeVars, poolVars, worker>>

\* _refuse_if_store_failed: one guarded write for the oldest stranded verdict.
\* Only an empty list opens the gate, and the lock is kept while it does.
GateReconcile(c) ==
    LET oldest == Head(stranded) IN
    /\ AtGate(c) /\ lock = NoClient
    /\ ~shutdown /\ latched
    /\ stranded # <<>> /\ oldest.attempt # Unknown
    /\ SetRow(oldest.job, Verdict(rows[oldest.job], IncompleteStates,
                                  oldest.attempt, "error"))
    /\ stranded' = Tail(stranded)
    /\ latched' = (Tail(stranded) # <<>>)
    /\ IF Tail(stranded) = <<>>
       THEN lock' = c /\ ClientTo(c, "admitting")
       ELSE lock' = lock /\ Refused(c)
    /\ UNCHANGED <<nextSeq, lifeVars, poolVars, worker>>

GateReconcileFaults(c) ==
    /\ AtGate(c) /\ lock = NoClient
    /\ ~shutdown /\ latched
    /\ \/ stranded = <<>>
       \/ Head(stranded).attempt = Unknown
       \/ Raises("reconcile")
    /\ Refused(c)
    /\ UNCHANGED <<storeVars, lifeVars, poolVars, worker, faultVars, lock>>

Admitting(c) ==
    \/ lock = c
    \/ AtGate(c) /\ lock = NoClient /\ ~shutdown /\ ~latched

\* create, the identity recorded, the entry put: one critical section.
SubmitAdmit(c) ==
    /\ Admitting(c) /\ client[c].job = NoJob
    /\ slots > 0
    /\ \E j \in Jobs :
         /\ rows[j].state = "absent"
         /\ rows' = Create(rows, j, nextSeq)
         /\ owned' = owned \cup {j}
         /\ acquired' = [acquired EXCEPT ![j] = 0]
         /\ queue' = Append(queue, [job |-> j, gen |-> 0])
    /\ nextSeq' = nextSeq + 1
    /\ slots' = slots - 1
    /\ lock' = NoClient
    /\ ClientDone(c)
    /\ UNCHANGED <<lifeVars, tokens, worker, faultVars>>

\* create raised: before the insert, or in the prune after it was committed.
SubmitFaults(c) ==
    /\ Admitting(c) /\ client[c].job = NoJob
    /\ slots > 0
    /\ Raises("create")
    /\ \/ UNCHANGED storeVars
       \/ \E j \in Jobs : /\ rows[j].state = "absent"
                          /\ rows' = Insert(rows, j, nextSeq)
                          /\ nextSeq' = nextSeq + 1
    /\ lock' = NoClient
    /\ ClientDone(c)
    /\ UNCHANGED <<lifeVars, poolVars, worker, faultVars>>

ResumeAdmitOwned(c) ==
    LET j == client[c].job IN
    /\ Admitting(c) /\ j # NoJob
    /\ slots > 0
    /\ owned' = owned \cup {j}
    /\ acquired' = [acquired EXCEPT ![j] = ReadAttempt(c)]
    /\ queue' = Append(queue, [job |-> j, gen |-> client[c].gen])
    /\ slots' = slots - 1
    /\ lock' = NoClient
    /\ ClientDone(c)
    /\ UNCHANGED <<storeVars, lifeVars, tokens, worker, faultVars>>

\* enqueue: the identity read off the claimed row, the entry put.
ResumeAdmit(c) ==
    LET j == client[c].job IN
    /\ Admitting(c) /\ j # NoJob
    /\ j \notin owned /\ slots > 0
    /\ owned' = owned \cup {j}
    /\ acquired' = [acquired EXCEPT ![j] = ReadAttempt(c)]
    /\ queue' = Append(queue, [job |-> j, gen |-> client[c].gen])
    /\ slots' = slots - 1
    /\ lock' = NoClient
    /\ ClientDone(c)
    /\ UNCHANGED <<storeVars, lifeVars, tokens, worker, faultVars>>

\* No slot, or (for enqueue) the pool still owns the id.
AdmitRefused(c) ==
    /\ Admitting(c)
    /\ slots = 0 \/ client[c].job \in owned
    /\ lock' = NoClient
    /\ Refused(c)
    /\ UNCHANGED <<storeVars, lifeVars, poolVars, worker, faultVars>>

\* _fail_unadmitted, pinned to the claimed attempt.
Unadmit(c) ==
    LET j == client[c].job IN
    /\ client[c].pc = "refused"
    /\ SetRow(j, Verdict(rows[j], {"pending"}, client[c].claim, "error"))
    /\ ClientDone(c)
    /\ UNCHANGED <<nextSeq, lifeVars, poolVars, worker, faultVars, lock>>

UnadmitFaults(c) ==
    /\ client[c].pc = "refused"
    /\ Raises("unadmit")
    /\ ClientDone(c)
    /\ UNCHANGED <<storeVars, lifeVars, poolVars, worker, faultVars, lock>>

-----------------------------------------------------------------------------
(* JobExecutor.cancel: observe outside the lock, accept and trip inside it. *)

CancelObserve(c, j) ==
    /\ Serving
    /\ client[c].pc = "idle"
    /\ Live(rows[j])
    /\ client' = [client EXCEPT ![c] = [AtRest EXCEPT
                    !.pc = "cancelling", !.job = j, !.seen = rows[j].attempt]]
    /\ UNCHANGED <<storeVars, lifeVars, poolVars, worker, faultVars, lock>>

Trip(j) ==
    worker' = IF tokens[j] \in Workers
              THEN [worker EXCEPT ![tokens[j]].tripped = TRUE] ELSE worker

CancelAccept(c) ==
    LET j == client[c].job IN
    /\ client[c].pc = "cancelling" /\ lock = NoClient
    /\ CanAcceptCancel(rows[j], client[c].seen)
    /\ SetRow(j, AcceptCancel(rows[j]))
    /\ Trip(j)
    /\ ClientDone(c)
    /\ UNCHANGED <<nextSeq, lifeVars, poolVars, faultVars, lock>>

CancelRefused(c) ==
    /\ client[c].pc = "cancelling" /\ lock = NoClient
    /\ ~CanAcceptCancel(rows[client[c].job], client[c].seen)
    /\ ClientDone(c)
    /\ UNCHANGED <<storeVars, lifeVars, poolVars, worker, faultVars, lock>>

\* The acceptance raised: refused, or recorded with no token tripped.
CancelFaults(c) ==
    LET j == client[c].job IN
    /\ client[c].pc = "cancelling" /\ lock = NoClient
    /\ Raises("accept")
    /\ \/ UNCHANGED rows
       \/ /\ CanAcceptCancel(rows[j], client[c].seen)
          /\ SetRow(j, AcceptCancel(rows[j]))
    /\ ClientDone(c)
    /\ UNCHANGED <<nextSeq, lifeVars, poolVars, worker, faultVars, lock>>
-----------------------------------------------------------------------------
(* A worker thread.                                                         *)

GetSentinel(w) ==
    /\ worker[w].pc = "idle" /\ queue # <<>> /\ Head(queue) = Sentinel
    /\ queue' = Tail(queue)
    /\ WorkerTo(w, "off")
    /\ UNCHANGED <<storeVars, lifeVars, slots, owned, acquired, tokens,
                   faultVars, lock, client>>

\* queue.get, and the slot given back to admission.
GetJob(w) ==
    /\ worker[w].pc = "idle" /\ queue # <<>> /\ Head(queue) # Sentinel
    /\ queue' = Tail(queue)
    /\ slots' = slots + 1
    /\ worker' = [worker EXCEPT ![w] = [OffDuty EXCEPT !.pc = "dequeued",
                    !.job = Head(queue).job, !.gen = Head(queue).gen]]
    /\ UNCHANGED <<storeVars, lifeVars, owned, acquired, tokens,
                   faultVars, lock, client>>

RegisterNoToken(w) ==
    /\ worker[w].pc = "dequeued" /\ lock = NoClient
    /\ WorkerTo(w, "held")
    /\ UNCHANGED <<storeVars, lifeVars, poolVars, faultVars, lock, client>>

RegisterToken(w) ==
    /\ worker[w].pc = "dequeued" /\ lock = NoClient
    /\ tokens' = [tokens EXCEPT ![worker[w].job] = w]
    /\ WorkerTo(w, "held")
    /\ UNCHANGED <<storeVars, lifeVars, queue, slots, owned, acquired,
                   faultVars, lock, client>>

\* The reads of _run_one and run_job return early only on rows the guarded
\* start refuses anyway, so they are part of it.  A start that lands names the
\* attempt the run owns, and on_started records it for the error handler.
BeginRun(w) ==
    LET j == worker[w].job
        r == rows[j] IN
    /\ worker[w].pc = "held" /\ lock = NoClient
    /\ CanBegin(r, acquired[j])
    /\ SetRow(j, Begin(r))
    /\ acquired' = [acquired EXCEPT ![j] = rows'[j].attempt]
    /\ worker' = [worker EXCEPT ![w].pc = "starting",
                                ![w].own = rows'[j].attempt]
    /\ UNCHANGED <<nextSeq, lifeVars, queue, slots, owned, tokens,
                   faultVars, lock, client>>

BeginRefused(w) ==
    /\ worker[w].pc = "held" /\ lock = NoClient
    /\ ~CanBegin(rows[worker[w].job], acquired[worker[w].job])
    /\ WorkerTo(w, "cleanup")
    /\ UNCHANGED <<storeVars, lifeVars, poolVars, faultVars, lock, client>>

BeginFaults(w) ==
    /\ worker[w].pc = "held"
    /\ Raises("begin")
    /\ WorkerTo(w, "repairing")
    /\ UNCHANGED <<storeVars, lifeVars, poolVars, faultVars, lock, client>>

\* A guarded progress write, first "starting" and then one per stage.
WriteProgress(w) ==
    /\ worker[w].pc \in {"starting", "running"}
    /\ SetRow(worker[w].job, Progress(rows[worker[w].job], worker[w].own))
    /\ WorkerTo(w, "running")
    /\ UNCHANGED <<nextSeq, lifeVars, poolVars, faultVars, lock, client>>

\* "starting" is written outside run_job's try.
StartingFaults(w) ==
    /\ worker[w].pc = "starting"
    /\ Raises("starting")
    /\ \/ UNCHANGED rows
       \/ SetRow(worker[w].job, Progress(rows[worker[w].job], worker[w].own))
    /\ WorkerTo(w, "repairing")
    /\ UNCHANGED <<nextSeq, lifeVars, poolVars, faultVars, lock, client>>

\* How transcribe ends: a result; an exception (a failed stage or a failed
\* checkpoint write); JobCancelled, raised only by a check of a tripped token.
PipelineReturns(w) ==
    /\ worker[w].pc = "running"
    /\ WorkerTo(w, "finalizing")
    /\ UNCHANGED <<storeVars, lifeVars, poolVars, faultVars, lock, client>>

PipelineFails(w) ==
    /\ worker[w].pc = "running"
    /\ WorkerTo(w, "failing")
    /\ UNCHANGED <<storeVars, lifeVars, poolVars, faultVars, lock, client>>

PipelineStops(w) ==
    /\ worker[w].pc = "running" /\ worker[w].tripped
    /\ WorkerTo(w, "stopping")
    /\ UNCHANGED <<storeVars, lifeVars, poolVars, faultVars, lock, client>>

Land(w, r) ==
    /\ SetRow(worker[w].job, r)
    /\ WorkerTo(w, "cleanup")
    /\ UNCHANGED <<nextSeq, lifeVars, poolVars, faultVars, lock, client>>

FinalizeDone(w) ==
    /\ worker[w].pc = "finalizing"
    /\ Land(w, Finalize(rows[worker[w].job], worker[w].own))

ClaimError(w) ==
    /\ worker[w].pc = "failing"
    /\ Land(w, Verdict(rows[worker[w].job], IncompleteStates,
                       worker[w].own, "error"))

ClaimCancelled(w) ==
    /\ worker[w].pc = "stopping"
    /\ Land(w, Verdict(rows[worker[w].job], IncompleteStates,
                       worker[w].own, "cancelled"))

\* A verdict that raised escapes run_job; finalize_done may have landed.
VerdictFaults(w) ==
    /\ \/ /\ worker[w].pc = "finalizing" /\ Raises("finalize")
          /\ \/ UNCHANGED rows
             \/ SetRow(worker[w].job,
                       Finalize(rows[worker[w].job], worker[w].own))
       \/ /\ worker[w].pc \in {"failing", "stopping"} /\ Raises("verdict")
          /\ UNCHANGED rows
    /\ WorkerTo(w, "repairing")
    /\ UNCHANGED <<nextSeq, lifeVars, poolVars, faultVars, lock, client>>

\* The error handler: ERROR, pinned to the identity recorded for the run.
Repair(w) ==
    LET j == worker[w].job IN
    /\ worker[w].pc = "repairing" /\ lock = NoClient
    /\ acquired[j] # Unknown
    /\ Land(w, Verdict(rows[j], IncompleteStates, acquired[j], "error"))

RepairFaultsSwallowed(w) ==
    /\ worker[w].pc = "repairing" /\ lock = NoClient
    /\ acquired[worker[w].job] = Unknown \/ Raises("repair")
    /\ WorkerTo(w, "cleanup")
    /\ UNCHANGED <<storeVars, lifeVars, poolVars, faultVars, lock, client>>

RepairFaults(w) ==
    /\ worker[w].pc = "repairing" /\ lock = NoClient
    /\ acquired[worker[w].job] = Unknown \/ Raises("repair")
    /\ WorkerTo(w, "latching")
    /\ UNCHANGED <<storeVars, lifeVars, poolVars, faultVars, lock, client>>

\* _record_store_failure: a repeat for the same id replaces its entry.
Latch(w) ==
    LET j == worker[w].job
        entry == [job |-> j, attempt |-> acquired[j]]
        known == {i \in DOMAIN stranded : stranded[i].job = j} IN
    /\ worker[w].pc = "latching" /\ lock = NoClient
    /\ latched' = TRUE
    /\ stranded' = IF known = {} THEN Append(stranded, entry)
                   ELSE [i \in DOMAIN stranded |->
                            IF i \in known THEN entry ELSE stranded[i]]
    /\ WorkerTo(w, "cleanup")
    /\ UNCHANGED <<storeVars, lifeVars, poolVars, lock, client>>

\* Token, ownership and identity dropped in one critical section.
Cleanup(w) ==
    LET j == worker[w].job IN
    /\ worker[w].pc = "cleanup" /\ lock = NoClient
    /\ tokens' = [tokens EXCEPT ![j] = NoWorker]
    /\ owned' = owned \ {j}
    /\ acquired' = [acquired EXCEPT ![j] = Unknown]
    /\ worker' = [worker EXCEPT ![w] = Idle]
    /\ UNCHANGED <<storeVars, lifeVars, queue, slots, faultVars, lock, client>>

-----------------------------------------------------------------------------
WorkerStep(w) ==
    \/ GetSentinel(w) \/ GetJob(w) \/ RegisterToken(w)
    \/ BeginRun(w) \/ BeginRefused(w) \/ BeginFaults(w)
    \/ WriteProgress(w) \/ StartingFaults(w)
    \/ PipelineReturns(w) \/ PipelineFails(w) \/ PipelineStops(w)
    \/ FinalizeDone(w) \/ ClaimError(w) \/ ClaimCancelled(w) \/ VerdictFaults(w)
    \/ Repair(w) \/ RepairFaults(w) \/ Latch(w) \/ Cleanup(w)

AdmissionStep(c) ==
    \/ ResumeClaim(c) \/ ResumeConflict(c) \/ ResumeSave(c) \/ ResumeSaveFaults(c)
    \/ GateShut(c) \/ GateReconcile(c) \/ GateReconcileFaults(c)
    \/ SubmitAdmit(c) \/ SubmitFaults(c) \/ ResumeAdmit(c) \/ AdmitRefused(c)
    \/ Unadmit(c) \/ UnadmitFaults(c)

CancelStep(c) == CancelAccept(c) \/ CancelRefused(c) \/ CancelFaults(c)

\* A new call: what the outside world may or may not do.
Call(c) ==
    \/ SubmitBegin(c)
    \/ \E j \in Jobs : ResumeObserve(c, j) \/ CancelObserve(c, j)

Next ==
    \/ Start \/ StartFaults \/ Shutdown \/ PutSentinel \/ CrashAndRestart
    \/ \E w \in Workers : WorkerStep(w)
    \/ \E c \in Clients : Call(c) \/ AdmissionStep(c) \/ CancelStep(c)

Spec == Init /\ [][Next]_vars

\* Threads keep running, a call that began ends, the pipeline returns (every
\* stage is a bounded call) and the loop of shutdown runs to its end.
Fairness ==
    /\ WF_vars(PutSentinel)
    /\ \A w \in Workers : /\ WF_vars(WorkerStep(w))
                          /\ WF_vars(PipelineReturns(w))
    /\ \A c \in Clients : WF_vars(AdmissionStep(c) \/ CancelStep(c))

FairSpec == Spec /\ Fairness
-----------------------------------------------------------------------------
(* Safety.                                                                  *)

Executes(w, j) == worker[w].job = j          \* from get to the end of cleanup
Queued(j)      == {i \in DOMAIN queue : queue[i].job = j}
Holders(j)     == {w \in Workers : Executes(w, j)}
QueuedJobs     == {j \in Jobs : Queued(j) # {}}

\* The ownership set says exactly where a job is: an owned id is in one queue
\* entry or with one worker, never in two places and never in none.  This is
\* what closes the window between queue.get and the token registration.
OneOwnerPerJob ==
    /\ \A j \in Jobs : j \in owned <=> Queued(j) # {} \/ Holders(j) # {}
    /\ \A i, k \in DOMAIN queue :
          queue[i].job = queue[k].job => i = k \/ queue[i].job = NoJob
    /\ \A v, w \in Workers :
          worker[v].job = worker[w].job => v = w \/ worker[v].job = NoJob
    /\ \A i \in DOMAIN queue, w \in Workers :
          queue[i].job = worker[w].job => queue[i].job = NoJob

\* No admission slot leaks or is given back twice, and a registered token is
\* the token of the worker that executes the id.
SlotsAndTokensAddUp ==
    /\ slots + Cardinality(QueuedJobs) = MaxPending
    /\ \A j \in Jobs, w \in Workers :
          (tokens[j] = w) <=> (Executes(w, j) /\ worker[w].pc \in HoldPcs)

\* A live row is minded when somebody will end it: a queue entry or a worker
\* pinned to the row's own attempt, the caller whose claim gave it that attempt,
\* or an entry of the latched fault list.
QueuedAt(j) == j \in owned /\ acquired[j] = rows[j].attempt
RunAt(j)    == \E w \in Workers :
                  /\ Executes(w, j) /\ worker[w].own = rows[j].attempt
                  /\ worker[w].pc \in RunPcs \cup {"repairing", "latching"}
ClaimedAt(j) == \E c \in Clients :
                  /\ client[c].job = j /\ client[c].gen = rows[j].attempt
                  /\ client[c].pc \in {"claimed", "saved", "admitting", "refused"}
StrandedAt(j) == /\ latched
                 /\ \E i \in DOMAIN stranded :
                      stranded[i] = [job |-> j, attempt |-> rows[j].attempt]

Minded(j) ==
    /\ rows[j].state = "pending" => QueuedAt(j) \/ ClaimedAt(j) \/ StrandedAt(j)
    /\ rows[j].state = "running" => RunAt(j) \/ StrandedAt(j)

\* The run a queue entry starts is the generation its own caller claimed, with
\* that caller's arguments: a run never starts under a newer claim.
QueuedRunStartsOwnClaim ==
    \A w \in Workers : worker[w].own # Unknown => worker[w].own = worker[w].gen + 1

\* A stop asked of a running generation reaches the thread that runs it: its
\* token is tripped, or nothing runs any more and the row waits for repair.
CancelReachesRun ==
    \A j \in Jobs : started /\ rows[j].state = "running" /\ rows[j].cancel =>
        \/ \E w \in Workers : /\ Executes(w, j) /\ worker[w].tripped
                               /\ worker[w].own = rows[j].attempt
        \/ StrandedAt(j)

\* And nobody else's: a token is tripped only by a cancellation accepted on the
\* generation its worker runs.
NoStrayStop ==
    \A w \in Workers :
        LET r == rows[worker[w].job] IN
        /\ worker[w].tripped /\ worker[w].own # Unknown
        /\ Present(r) /\ r.attempt = worker[w].own
        => r.cancel

\* A cancel that was answered as accepted stops the run it was meant for, and
\* stops no other.
StopsAreExact == CancelReachesRun /\ NoStrayStop

\* The latch stands exactly as long as some verdict is missing, one entry per
\* job, and every entry names the generation its run owned.
LatchNamesStranded ==
    /\ latched <=> stranded # <<>>
    /\ \A i, k \in DOMAIN stranded :
          /\ stranded[i].attempt # Unknown
          /\ stranded[i].job = stranded[k].job => i = k

\* The pool's books balance whatever raised and wherever: places, tokens and the
\* latch that keeps admission shut.
PoolAddsUp == SlotsAndTokensAddUp /\ LatchNamesStranded

-----------------------------------------------------------------------------
(* Steps.                                                                   *)

\* A refused resume fails the row its own claim reopened, and no other.
RefusalSparesNewerClaim ==
    [][\A c \in Clients : LET j == client[c].job IN
          client[c].pc = "refused" /\ client'[c].pc = "idle"
              => (rows'[j] = rows[j] \/ rows[j].attempt = client[c].gen)]_vars

\* A call whose own store write raised tells its caller so and walks away from
\* the row: a create that landed, or the save and the refusal of a resume.
WalksAway(c, j) ==
    /\ client'[c] = AtRest
    /\ \/ client[c].job = j /\ client[c].pc \in {"claimed", "refused"}
       \/ client[c].job = NoJob /\ rows[j].state = "absent"

\* A live row that nobody minds reads pending or running for the rest of the
\* process.  Recovery, the workers, the queue, the latch and its reconciliation
\* never leave one, whichever store calls raise and wherever the process died;
\* only a caller that was told of the fault does.
NoSilentOrphan ==
    [][\A j \in Jobs :
          /\ started => Minded(j)
          /\ started' /\ ~Minded(j)'
          => \E c \in Clients : WalksAway(c, j)]_vars

\* The abstract lifecycle of a row, implemented by pool, clients and recovery.
Lifecycle == INSTANCE JobLifecycle WITH
    state   <- [j \in Jobs |-> rows[j].state],
    attempt <- [j \in Jobs |-> rows[j].attempt],
    cancel  <- [j \in Jobs |-> rows[j].cancel]

ImplementsLifecycle == Lifecycle!Spec

\* A verdict a caller may have read is not rewritten under the same attempt: not
\* by the repair of a write that raised after it landed, not by a stale queue
\* entry, a late refusal or the heal of the latch.
VerdictStands == Lifecycle!VerdictOncePerAttempt

\* A job never reads DONE over a stop its caller was told is accepted, however
\* the stop raced with the end of the run.
NoDoneOverAcceptedStop == Lifecycle!NoDoneWithCancel

-----------------------------------------------------------------------------
(* Liveness, with a store that answers and a process that stays up.         *)

\* Every admitted or reopened job gets a verdict, a queue behind a shutdown
\* included.
LiveJobSettles == \A j \in Jobs : Live(rows[j]) ~> ~Live(rows[j])

\* A shutdown ends every thread of the pool.
ShutdownDrains == shutdown ~> \A w \in Workers : worker[w].pc = "off"
=============================================================================
