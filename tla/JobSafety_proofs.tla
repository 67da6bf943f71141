------------------------- MODULE JobSafety_proofs -------------------------
(***************************************************************************)
(* What JobExecutor promises beyond ownership and the life of a row: the   *)
(* books of the pool balance, no live row is left with nobody to end it,   *)
(* and, over a store whose rows are detached, a run starts on the claim of *)
(* its own caller and a stop reaches the run it was meant for.             *)
(*                                                                         *)
(* The inductive invariant follows an attempt from the claim that made it  *)
(* to its verdict: who recorded it (Recorded), who is inside admission     *)
(* while a fault is latched (Locked, Settling), which thread still runs a  *)
(* running row (RunningMinded), and what a thread that cleans up may leave *)
(* behind (LeftBehind).                                                    *)
(***************************************************************************)
EXTENDS JobExecutor_proofs

\* The places of a call whose claim gave the row an attempt.
Bound == {"claimed", "saved", "admitting", "refused"}

\* A place for every queued id, and a token for every thread that holds one.
Booked ==
    /\ IsFiniteSet(QueuedJobs)
    /\ slots + Cardinality(QueuedJobs) = MaxPending

Tokened ==
    \A j \in Jobs, w \in Workers :
        (tokens[j] = w) <=> (Executes(w, j) /\ worker[w].pc \in HoldPcs)

\* The attempt of an owned id is on record, and is the one its thread owns.
Recorded ==
    /\ \A j \in owned : acquired[j] # Unknown
    /\ \A w \in Workers :
          worker[w].own # Unknown => acquired[worker[w].job] = worker[w].own

\* What a call believes of its claim is the claim or something newer.
Claimed ==
    \A c \in Clients : client[c].pc \in Bound /\ client[c].job \in Jobs =>
        /\ client[c].gen # Unknown
        /\ client[c].gen <= client[c].claim

\* Nobody is inside admission while a verdict is missing,
Locked ==
    /\ \A c \in Clients : lock = c => client[c].pc = "admitting"
    /\ \A c \in Clients : client[c].pc = "admitting" => lock = c
    /\ lock # NoClient => ~latched

\* and its id is in no queue and with no thread that could still judge it.
Settling ==
    \A i \in DOMAIN stranded :
        /\ stranded[i].job \notin QueuedJobs
        /\ \A w \in Workers : Executes(w, stranded[i].job) => worker[w].pc = "cleanup"

\* A running row has its thread, or its verdict is missing.
RunningMinded ==
    started => \A j \in Jobs : rows[j].state = "running" => RunAt(j) \/ StrandedAt(j)

\* A thread that cleans up leaves no queued attempt of its own behind.
LeftBehind ==
    \A w \in Workers :
        LET j == worker[w].job IN
        /\ worker[w].pc = "cleanup"
        /\ rows[j].state = "pending" /\ rows[j].attempt = acquired[j]
        => StrandedAt(j)

SafeInv ==
    /\ RefInv
    /\ Booked /\ Tokened /\ Recorded /\ Claimed
    /\ LatchNamesStranded /\ Locked /\ Settling
    /\ RunningMinded /\ LeftBehind

-----------------------------------------------------------------------------
(* What the steps do to the pool, by kind.                                  *)

\* A thread that only moves on keeps all but its place, and so do the others.
LEMMA MoveOn ==
    ASSUME TypeOK, NEW w \in Workers, NEW p, WorkerTo(w, p)
    PROVE  /\ worker'[w].pc = p /\ SameJobs
           /\ \A v \in Workers : /\ worker'[v].gen = worker[v].gen
                                 /\ worker'[v].own = worker[v].own
                                 /\ worker'[v].tripped = worker[v].tripped
           /\ \A v \in Workers \ {w} : worker'[v] = worker[v]
  BY DEF WorkerTo, SameJobs, TypeOK, FieldTypes, Place

\* A quiet step of a thread that holds a job moves it on and leaves the pool.
Quiet(w) ==
    /\ UNCHANGED poolVars
    /\ worker[w].pc \in HoldPcs \ {"cleanup"}
    /\ \E p \in HoldPcs : WorkerTo(w, p)

\* Every step of a thread is quiet, or one of five.
LEMMA QuietSteps ==
    ASSUME NEW w \in Workers, WorkerStep(w),
           ~GetSentinel(w), ~GetJob(w), ~RegisterToken(w), ~BeginRun(w), ~Cleanup(w)
    PROVE  Quiet(w)
<1> USE DEF Quiet, HoldPcs, RunPcs
<1>1. CASE BeginRefused(w) \/ BeginFaults(w) \/ WriteProgress(w) \/ StartingFaults(w)
  BY <1>1 DEF BeginRefused, BeginFaults, WriteProgress, StartingFaults
<1>2. CASE PipelineReturns(w) \/ PipelineFails(w) \/ PipelineStops(w)
  BY <1>2 DEF PipelineReturns, PipelineFails, PipelineStops
<1>3. CASE FinalizeDone(w) \/ ClaimError(w) \/ ClaimCancelled(w) \/ Repair(w)
  BY <1>3 DEF FinalizeDone, ClaimError, ClaimCancelled, Repair, Land
<1>4. CASE VerdictFaults(w) \/ RepairFaults(w) \/ Latch(w)
  BY <1>4 DEF VerdictFaults, RepairFaults, Latch
<1> QED
  BY <1>1, <1>2, <1>3, <1>4 DEF WorkerStep

\* A thread's step is its own: calls, lock and the other threads stay.
LEMMA OthersStay ==
    ASSUME TypeOK, NEW w \in Workers, WorkerStep(w)
    PROVE  /\ UNCHANGED <<client, lock, nextSeq, started, shutdown, sentinels>>
           /\ \A v \in Workers \ {w} : worker'[v] = worker[v]
<1>1. UNCHANGED <<client, lock, nextSeq, started, shutdown, sentinels>>
  BY DEF WorkerStep, GetSentinel, GetJob, RegisterToken, BeginRun, BeginRefused,
         BeginFaults, WriteProgress, StartingFaults, PipelineReturns, PipelineFails,
         PipelineStops, FinalizeDone, ClaimError, ClaimCancelled, Land, VerdictFaults,
         Repair, RepairFaults, Latch, Cleanup, storeVars, lifeVars
<1>2. \A v \in Workers \ {w} : worker'[v] = worker[v]
  BY DEF WorkerStep, GetSentinel, GetJob, RegisterToken, BeginRun, BeginRefused,
         BeginFaults, WriteProgress, StartingFaults, PipelineReturns, PipelineFails,
         PipelineStops, FinalizeDone, ClaimError, ClaimCancelled, Land, VerdictFaults,
         Repair, RepairFaults, Latch, Cleanup, WorkerTo, TypeOK, FieldTypes
<1> QED
  BY <1>1, <1>2

\* queue.get moves the head of the queue to an idle thread,
LEMMA Fetches ==
    ASSUME TypeOK, NEW w \in Workers, GetJob(w)
    PROVE  /\ worker[w].pc = "idle" /\ worker[w].job = NoJob
           /\ Head(queue).job \in Jobs
           /\ worker'[w] = [pc |-> "dequeued", job |-> Head(queue).job,
                            gen |-> Head(queue).gen, own |-> Unknown, tripped |-> FALSE]
           /\ UNCHANGED <<rows, owned, acquired, tokens, latched, stranded>>
           /\ queue' = Tail(queue) /\ slots' = slots + 1
           /\ queue # <<>>
<1>1. worker[w].pc = "idle" /\ worker[w].job = NoJob
  BY DEF GetJob, TypeOK, Placed
<1>2. Head(queue).job \in Jobs
  <2>1. Head(queue) \in Entry
    BY DEF GetJob, TypeOK, FieldTypes
  <2> QED
    BY <2>1 DEF Entry
<1> DEFINE k == Head(queue).job  g == Head(queue).gen
<1>3. worker'[w] = [OffDuty EXCEPT !.pc = "dequeued", !.job = k, !.gen = g]
  BY DEF GetJob, TypeOK, FieldTypes
<1>4. /\ UNCHANGED <<rows, owned, acquired, tokens, latched, stranded>>
      /\ queue' = Tail(queue) /\ slots' = slots + 1 /\ queue # <<>>
  BY DEF GetJob, storeVars, faultVars
<1> HIDE DEF k, g
<1>5. worker'[w] = [pc |-> "dequeued", job |-> k, gen |-> g, own |-> Unknown,
                    tripped |-> FALSE]
  BY <1>3 DEF OffDuty
<1> QED
  BY <1>1, <1>2, <1>4, <1>5 DEF k, g

\* the token names the thread that took the id,
LEMMA Registers ==
    ASSUME TypeOK, NEW w \in Workers, RegisterToken(w)
    PROVE  /\ WorkerTo(w, "held") /\ worker[w].pc = "dequeued" /\ worker[w].job \in Jobs
           /\ tokens' = [tokens EXCEPT ![worker[w].job] = w]
           /\ UNCHANGED <<rows, queue, slots, owned, acquired, latched, stranded>>
<1>1. WorkerTo(w, "held") /\ worker[w].pc = "dequeued" /\ lock = NoClient
  BY DEF RegisterToken
<1>2. worker[w].job \in Jobs
  BY <1>1 DEF TypeOK, FieldTypes, Placed, Place
<1> QED
  BY <1>1, <1>2 DEF RegisterToken, storeVars, faultVars

\* the start names the attempt it wrote,
LEMMA Begins ==
    ASSUME TypeOK, NEW w \in Workers, BeginRun(w)
    PROVE  LET j == worker[w].job IN
           /\ j \in Jobs /\ worker[w].pc = "held"
           /\ CanBegin(rows[j], acquired[j])
           /\ rows' = [rows EXCEPT ![j] = Begin(rows[j])]
           /\ rows'[j].state = "running" /\ ~rows'[j].cancel
           /\ rows'[j].attempt = acquired[j] + 1
           /\ acquired' = [acquired EXCEPT ![j] = rows'[j].attempt]
           /\ acquired'[j] = rows'[j].attempt
           /\ worker'[w].pc = "starting" /\ worker'[w].job = j
           /\ worker'[w].own = rows'[j].attempt
           /\ worker'[w].gen = worker[w].gen
           /\ worker'[w].tripped = worker[w].tripped
           /\ UNCHANGED <<queue, slots, owned, tokens, latched, stranded>>
<1> DEFINE j == worker[w].job  a == rows'[j].attempt
<1>1. worker[w].pc = "held" /\ CanBegin(rows[j], acquired[j])
      /\ rows' = [rows EXCEPT ![j] = Begin(rows[j])]
      /\ acquired' = [acquired EXCEPT ![j] = a]
      /\ worker' = [worker EXCEPT ![w].pc = "starting", ![w].own = a]
      /\ UNCHANGED <<queue, slots, owned, tokens, latched, stranded>>
  BY DEF BeginRun, SetRow, faultVars
<1>2. j \in Jobs /\ rows[j] \in Row /\ acquired[j] \in Attempts
  BY <1>1 DEF TypeOK, FieldTypes, Placed, Place
<1>3. rows'[j] = Begin(rows[j])
  BY <1>1, <1>2 DEF TypeOK, FieldTypes
<1>4. /\ rows'[j].state = "running" /\ rows'[j].attempt = rows[j].attempt + 1
      /\ rows'[j].cancel = rows[j].cancel
  BY <1>2, <1>3 DEF Begin, Row
<1>5. rows'[j].attempt = acquired[j] + 1 /\ ~rows'[j].cancel
  BY <1>1, <1>4 DEF CanBegin
<1> HIDE DEF a
<1>6. acquired'[j] = a
  BY <1>1, <1>2 DEF TypeOK, FieldTypes
<1>7. /\ worker'[w].pc = "starting" /\ worker'[w].job = j /\ worker'[w].own = a
      /\ worker'[w].gen = worker[w].gen /\ worker'[w].tripped = worker[w].tripped
  BY <1>1 DEF TypeOK, FieldTypes, Place
<1> QED
  BY <1>1, <1>2, <1>4, <1>5, <1>6, <1>7 DEF a

\* and cleanup forgets the id.
LEMMA Cleans ==
    ASSUME TypeOK, NEW w \in Workers, Cleanup(w)
    PROVE  LET j == worker[w].job IN
           /\ j \in Jobs /\ worker[w].pc = "cleanup"
           /\ tokens' = [tokens EXCEPT ![j] = NoWorker] /\ owned' = owned \ {j}
           /\ acquired' = [acquired EXCEPT ![j] = Unknown]
           /\ worker'[w] = Idle
           /\ UNCHANGED <<rows, queue, slots, latched, stranded>>
<1> DEFINE j == worker[w].job
<1>1. worker[w].pc = "cleanup"
  BY DEF Cleanup
<1>2. j \in Jobs
  BY <1>1 DEF TypeOK, FieldTypes, Placed, Place
<1>3. worker'[w] = Idle
  BY DEF Cleanup, TypeOK, FieldTypes
<1> QED
  BY <1>1, <1>2, <1>3 DEF Cleanup, storeVars, faultVars

\* An admission queues an id nobody owned, while no verdict is missing.
Enqueues(k, g, a) ==
    /\ k \notin owned /\ owned' = owned \cup {k}
    /\ acquired' = [acquired EXCEPT ![k] = a]
    /\ queue' = Append(queue, [job |-> k, gen |-> g])
    /\ slots > 0 /\ slots' = slots - 1
    /\ stranded = <<>>
    /\ UNCHANGED <<tokens, worker, latched, stranded>>

\* The gate is open only to a call that found no fault, or healed the last one.
LEMMA GateOpen ==
    ASSUME SafeInv, NEW c \in Clients, Admitting(c) PROVE ~latched /\ stranded = <<>>
<1>1. ~latched
  BY ExecutorAssumption DEF Admitting, SafeInv, Locked, ExecutorAssumption
<1> QED
  BY <1>1 DEF SafeInv, LatchNamesStranded

\* The two admissions: a new row at attempt 0, and a claimed one at the attempt
\* its caller reads.
LEMMA SubmitQueues ==
    ASSUME SafeInv, NEW c \in Clients, SubmitAdmit(c)
    PROVE  \E k \in Jobs : /\ rows[k].state = "absent"
                           /\ rows' = Create(rows, k, nextSeq)
                           /\ Enqueues(k, 0, 0) /\ 0 \in Attempts
<1>1. PICK k \in Jobs :
        /\ rows[k].state = "absent" /\ rows' = Create(rows, k, nextSeq)
        /\ owned' = owned \cup {k} /\ acquired' = [acquired EXCEPT ![k] = 0]
        /\ queue' = Append(queue, [job |-> k, gen |-> 0])
  BY DEF SubmitAdmit
<1>2. k \notin owned
  BY <1>1 DEF SafeInv, RefInv, OwnerInv, Held
<1>3. ~latched /\ stranded = <<>>
  BY GateOpen DEF SubmitAdmit
<1> QED
  BY <1>1, <1>2, <1>3 DEF Enqueues, SubmitAdmit, faultVars, Attempts

\* A resume admits the id it claimed at the attempt its second read finds.
LEMMA ResumeQueues ==
    ASSUME SafeInv, NEW c \in Clients, ResumeAdmit(c)
    PROVE  /\ client[c].job \in Jobs /\ client[c].pc \in Bound
           /\ client[c].gen \in Nat /\ ReadAttempt(c) \in Nat
           /\ UNCHANGED rows
           /\ Enqueues(client[c].job, client[c].gen, ReadAttempt(c))
<1> DEFINE j == client[c].job
<1>1. j \in Jobs
  BY DEF ResumeAdmit, SafeInv, RefInv, OwnerInv, TypeOK, FieldTypes, CallPlace
<1>2. client[c].pc \in Bound
  <2>1. client[c].pc \in {"submitting", "saved", "admitting"}
    BY DEF ResumeAdmit, Admitting, AtGate, SafeInv, Locked
  <2>2. client[c].pc # "submitting"
    BY <1>1, ExecutorAssumption
       DEF SafeInv, RefInv, OwnerInv, TypeOK, Placed, ExecutorAssumption
  <2> QED
    BY <2>1, <2>2 DEF Bound
<1>3. client[c].gen \in Nat /\ client[c].claim \in Nat
  <2>1. client[c].gen \in Attempts /\ client[c].claim \in Attempts
    BY DEF SafeInv, RefInv, OwnerInv, TypeOK, FieldTypes, CallPlace
  <2>2. client[c].gen # Unknown /\ client[c].gen <= client[c].claim
    BY <1>1, <1>2 DEF SafeInv, Claimed
  <2> QED
    BY <2>1, <2>2 DEF Attempts, Unknown
<1>4. rows[j].attempt \in Nat
  <2>1. rows[j] \in Row
    BY <1>1 DEF SafeInv, RefInv, OwnerInv, TypeOK, FieldTypes
  <2> QED
    BY <2>1 DEF Row
<1>5. ReadAttempt(c) \in Nat
  BY <1>3, <1>4 DEF ReadAttempt
<1>6. stranded = <<>>
  BY GateOpen DEF ResumeAdmit
<1> QED
  BY <1>1, <1>2, <1>3, <1>5, <1>6 DEF ResumeAdmit, Enqueues, faultVars, storeVars

\* Every other step of a client leaves the pool, and trips a token at most.
LEMMA CallsStay ==
    ASSUME TypeOK, NEW c \in Clients, Call(c) \/ AdmissionStep(c) \/ CancelStep(c),
           ~SubmitAdmit(c), ~ResumeAdmit(c)
    PROVE  UNCHANGED poolVars
  BY DEF poolVars, Call, SubmitBegin, ResumeObserve, CancelObserve, AdmissionStep,
        ResumeClaim, ResumeConflict, ResumeSave, ResumeSaveFaults, GateShut, GateReconcile,
        GateReconcileFaults, SubmitFaults, AdmitRefused, Unadmit, UnadmitFaults,
        CancelStep, CancelAccept, CancelRefused, CancelFaults

\* A call trips at most: every thread keeps its job, place, attempt and caller.
LEMMA CallsTrip ==
    ASSUME TypeOK, NEW c \in Clients, Call(c) \/ AdmissionStep(c) \/ CancelStep(c)
    PROVE  /\ \A v \in Workers : /\ worker'[v].job = worker[v].job
                                 /\ worker'[v].pc = worker[v].pc
                                 /\ worker'[v].own = worker[v].own
                                 /\ worker'[v].gen = worker[v].gen
                                 /\ worker[v].tripped => worker'[v].tripped
           /\ UNCHANGED <<started, shutdown, sentinels>>
<1>1. ASSUME NEW u \in Workers, worker' = [worker EXCEPT ![u].tripped = TRUE],
             NEW v \in Workers
      PROVE  /\ worker'[v].job = worker[v].job /\ worker'[v].pc = worker[v].pc
             /\ worker'[v].own = worker[v].own /\ worker'[v].gen = worker[v].gen
             /\ worker[v].tripped => worker'[v].tripped
  BY <1>1 DEF TypeOK, FieldTypes, Place
<1>2. (UNCHANGED worker \/ CancelAccept(c)) /\ UNCHANGED <<started, shutdown, sentinels>>
  BY DEF Call, SubmitBegin, ResumeObserve, CancelObserve, AdmissionStep, ResumeClaim,
        ResumeConflict, ResumeSave, ResumeSaveFaults, GateShut, GateReconcile,
        GateReconcileFaults, SubmitAdmit, SubmitFaults, ResumeAdmit, AdmitRefused,
        Unadmit, UnadmitFaults, CancelStep, CancelAccept, CancelRefused, CancelFaults,
        lifeVars
<1>3. UNCHANGED worker \/ \E u \in Workers : worker' = [worker EXCEPT ![u].tripped = TRUE]
  BY <1>2 DEF CancelAccept, Trip
<1> QED
  BY <1>1, <1>2, <1>3

\* And it moves no other call.
LEMMA CallsAlone ==
    ASSUME TypeOK, NEW c \in Clients, Call(c) \/ AdmissionStep(c) \/ CancelStep(c)
    PROVE  \A b \in Clients \ {c} : client'[b] = client[b]
<1>1. \E r : client' = [client EXCEPT ![c] = r]
  <2>1. CASE ClientDone(c) \/ Refused(c) \/ \E q : ClientTo(c, q)
    BY <2>1 DEF ClientDone, Refused, ClientTo
  <2>2. CASE Call(c)
    BY <2>2 DEF Call, SubmitBegin, ResumeObserve, CancelObserve, ClientTo
  <2>3. CASE ResumeClaim(c) \/ ResumeSave(c)
    BY <2>3 DEF ResumeClaim, ResumeSave
  <2>4. CASE AdmissionStep(c) /\ ~ResumeClaim(c) /\ ~ResumeSave(c)
    BY <2>1, <2>4 DEF AdmissionStep, ResumeConflict, ResumeSaveFaults, GateShut,
        GateReconcile, GateReconcileFaults, SubmitAdmit, SubmitFaults, ResumeAdmit,
        AdmitRefused, Unadmit, UnadmitFaults
  <2>5. CASE CancelStep(c)
    BY <2>1, <2>5 DEF CancelStep, CancelAccept, CancelRefused, CancelFaults
  <2> QED
    BY <2>2, <2>3, <2>4, <2>5
<1> QED
  BY <1>1 DEF TypeOK, FieldTypes

-----------------------------------------------------------------------------
(* The books: a place for every queued id.                                  *)

\* An id is queued when some entry names it.
LEMMA QueuedMeans ==
    \A j \in Jobs : /\ j \in QueuedJobs <=> \E i \in DOMAIN queue : queue[i].job = j
                    /\ (j \in QueuedJobs)' <=> \E i \in DOMAIN queue' : queue'[i].job = j
  BY DEF QueuedJobs, Queued

\* An entry at the end queues its id and no other.
LEMMA QueuedAppend ==
    ASSUME TypeOK, NEW e \in Entry \cup {Sentinel}, queue' = Append(queue, e)
    PROVE  QueuedJobs' = QueuedJobs \cup ({e.job} \cap Jobs)
<1> DEFINE n == Len(queue)
<1>1. /\ n \in Nat /\ DOMAIN queue = 1..n
      /\ DOMAIN queue' = 1..(n + 1)
      /\ \A i \in 1..n : queue'[i] = queue[i]
      /\ queue'[n + 1] = e
  <2>1. queue \in Seq(Entry \cup {Sentinel})
    BY DEF TypeOK, FieldTypes
  <2> QED
    BY <2>1, AppendProperties, LenProperties
<1> HIDE DEF n
<1>2. ASSUME NEW j \in Jobs
      PROVE  (\E i \in DOMAIN queue' : queue'[i].job = j)
             <=> (\E i \in DOMAIN queue : queue[i].job = j) \/ j = e.job
  BY <1>1
<1>3. \A j \in Jobs : j \in QueuedJobs' <=> j \in QueuedJobs \/ j = e.job
  BY <1>2, QueuedMeans
<1>4. QueuedJobs \subseteq Jobs /\ QueuedJobs' \subseteq Jobs
  BY DEF QueuedJobs
<1> QED
  BY <1>3, <1>4

\* Taking the head off unqueues its id: it stood nowhere else.
LEMMA QueuedTail ==
    ASSUME TypeOK, OneOwnerPerJob, queue # <<>>, queue' = Tail(queue)
    PROVE  /\ QueuedJobs' = QueuedJobs \ {Head(queue).job}
           /\ Head(queue).job \in Jobs => Head(queue).job \in QueuedJobs
<1> DEFINE n == Len(queue)  k == Head(queue).job
<1>1. /\ n \in Nat \ {0} /\ DOMAIN queue = 1..n
      /\ DOMAIN queue' = 1..(n - 1)
      /\ \A i \in 1..(n - 1) : queue'[i] = queue[i + 1]
      /\ k = queue[1].job
  <2>1. queue \in Seq(Entry \cup {Sentinel})
    BY DEF TypeOK, FieldTypes
  <2>2. Len(queue) \in Nat \ {0} /\ DOMAIN queue = 1..Len(queue)
    BY <2>1, LenProperties, EmptySeq
  <2>3. /\ Tail(queue) \in Seq(Entry \cup {Sentinel}) /\ Len(Tail(queue)) = Len(queue) - 1
        /\ \A i \in 1..Len(Tail(queue)) : Tail(queue)[i] = queue[i + 1]
    BY <2>1, HeadTailProperties
  <2>4. DOMAIN Tail(queue) = 1..Len(Tail(queue))
    BY <2>3, LenProperties
  <2>5. Head(queue) = queue[1]
    BY <2>1, <2>2
  <2> QED
    BY <2>2, <2>3, <2>4, <2>5
<1> HIDE DEF n, k
<1>2. 1 \in DOMAIN queue
  BY <1>1
<1>3. \A i \in DOMAIN queue : queue[i].job = k => i = 1 \/ k = NoJob
  BY <1>1, <1>2 DEF OneOwnerPerJob
<1>4. NoJob \notin Jobs
  BY ExecutorAssumption DEF ExecutorAssumption
<1>5. ASSUME NEW j \in Jobs
      PROVE  (\E i \in DOMAIN queue' : queue'[i].job = j)
             <=> (\E i \in DOMAIN queue : queue[i].job = j) /\ j # k
  <2>1. ASSUME NEW i \in DOMAIN queue', queue'[i].job = j
        PROVE  (\E h \in DOMAIN queue : queue[h].job = j) /\ j # k
    <3>1. i + 1 \in DOMAIN queue /\ queue[i + 1].job = j /\ i + 1 # 1
      BY <1>1, <2>1
    <3>2. j # k
      BY <1>3, <1>4, <3>1
    <3> QED
      BY <3>1, <3>2
  <2>2. ASSUME NEW i \in DOMAIN queue, queue[i].job = j, j # k
        PROVE  \E h \in DOMAIN queue' : queue'[h].job = j
    <3>1. i # 1
      BY <1>1, <2>2
    <3>2. i - 1 \in DOMAIN queue' /\ queue'[i - 1] = queue[i]
      BY <1>1, <3>1
    <3> QED
      BY <2>2, <3>2
  <2> QED
    BY <2>1, <2>2
<1>6. \A j \in Jobs : j \in QueuedJobs' <=> j \in QueuedJobs /\ j # k
  BY <1>5, QueuedMeans
<1>7. QueuedJobs \subseteq Jobs /\ QueuedJobs' \subseteq Jobs
  BY DEF QueuedJobs
<1>8. k \in Jobs => k \in QueuedJobs
  BY <1>1, <1>2, QueuedMeans
<1>9. QueuedJobs' = QueuedJobs \ {k}
  BY <1>6, <1>7
<1> QED
  BY <1>8, <1>9 DEF k

\* The same queue queues the same ids.
LEMMA QueuedSame == ASSUME UNCHANGED queue PROVE QueuedJobs' = QueuedJobs
  BY DEF QueuedJobs, Queued

\* A place is taken with the entry that is put, and given back with the entry
\* that is taken.
LEMMA BookedStep == ASSUME SafeInv, [Next]_vars PROVE Booked'
<1> DEFINE Q == QueuedJobs
<1>0. /\ IsFiniteSet(Q) /\ slots + Cardinality(Q) = MaxPending /\ Cardinality(Q) \in Nat
      /\ TypeOK /\ OneOwnerPerJob /\ slots \in Nat /\ NoJob \notin Jobs
  <2>1. IsFiniteSet(Q) /\ slots + Cardinality(Q) = MaxPending
    BY DEF SafeInv, Booked
  <2> QED
    BY <2>1, FS_CardinalityType, ExecutorAssumption
       DEF SafeInv, RefInv, OwnerInv, TypeOK, FieldTypes, ExecutorAssumption
<1>1. ASSUME QueuedJobs' = Q, UNCHANGED slots PROVE Booked'
  BY <1>0, <1>1 DEF Booked
<1>2. ASSUME UNCHANGED <<queue, slots>> PROVE Booked'
  BY <1>1, <1>2, QueuedSame
<1>3. CASE PutSentinel
  <2>1. QueuedJobs' = Q \cup ({Sentinel.job} \cap Jobs)
    BY <1>0, <1>3, QueuedAppend DEF PutSentinel
  <2>2. QueuedJobs' = Q
    BY <1>0, <2>1 DEF Sentinel
  <2> QED
    BY <1>1, <1>3, <2>2 DEF PutSentinel
<1>4. CASE CrashAndRestart
  <2>1. queue' = <<>> /\ slots' = MaxPending
    BY <1>4 DEF CrashAndRestart
  <2>2. QueuedJobs' = {}
    BY <2>1 DEF QueuedJobs, Queued
  <2> QED
    BY <2>1, <2>2, FS_EmptySet, ExecutorAssumption DEF Booked, ExecutorAssumption
<1>5. CASE Start \/ StartFaults \/ Shutdown
  BY <1>2, <1>5 DEF Start, StartFaults, Shutdown, poolVars
<1>6. ASSUME NEW k \in Jobs, NEW g \in Attempts, NEW a, Enqueues(k, g, a) PROVE Booked'
  <2> DEFINE e == [job |-> k, gen |-> g]
  <2>1. e \in Entry /\ e.job = k /\ queue' = Append(queue, e)
    BY <1>6 DEF Entry, Enqueues
  <2> HIDE DEF e
  <2>2. QueuedJobs' = Q \cup {k}
    <3>1. QueuedJobs' = Q \cup ({e.job} \cap Jobs)
      BY <1>0, <2>1, QueuedAppend
    <3> QED
      BY <2>1, <3>1
  <2>3. k \notin Q
    BY <1>0, <1>6 DEF Enqueues, OneOwnerPerJob, QueuedJobs
  <2>4. IsFiniteSet(Q \cup {k}) /\ Cardinality(Q \cup {k}) = Cardinality(Q) + 1
    BY <1>0, <2>3, FS_AddElement
  <2> QED
    BY <1>0, <1>6, <2>2, <2>4 DEF Booked, Enqueues
<1>7. ASSUME NEW w \in Workers, WorkerStep(w) PROVE Booked'
  <2>1. CASE GetSentinel(w)
    <3>1. /\ queue # <<>> /\ queue' = Tail(queue) /\ Head(queue).job = NoJob
          /\ UNCHANGED slots
      BY <2>1 DEF GetSentinel, Sentinel
    <3>2. QueuedJobs' = Q \ {NoJob}
      BY <1>0, <3>1, QueuedTail
    <3>3. Q \subseteq Jobs
      BY DEF QueuedJobs
    <3>4. QueuedJobs' = Q
      BY <1>0, <3>2, <3>3
    <3> QED
      BY <1>1, <3>1, <3>4
  <2>2. CASE GetJob(w)
    <3> DEFINE k == Head(queue).job
    <3>1. /\ k \in Jobs /\ queue' = Tail(queue) /\ slots' = slots + 1 /\ queue # <<>>
      BY <1>0, <2>2, Fetches
    <3>2. QueuedJobs' = Q \ {k} /\ k \in Q
      BY <1>0, <3>1, QueuedTail
    <3>3. IsFiniteSet(Q \ {k}) /\ Cardinality(Q \ {k}) = Cardinality(Q) - 1
      BY <1>0, <3>2, FS_RemoveElement
    <3> QED
      BY <1>0, <3>1, <3>2, <3>3 DEF Booked
  <2>3. CASE RegisterToken(w) \/ BeginRun(w) \/ Cleanup(w)
    BY <1>0, <1>2, <2>3, Registers, Begins, Cleans
  <2> QED
    BY <1>2, <1>7, <2>1, <2>2, <2>3, QuietSteps DEF Quiet, poolVars
<1>8. ASSUME NEW c \in Clients, Call(c) \/ AdmissionStep(c) \/ CancelStep(c) PROVE Booked'
  <2>1. CASE SubmitAdmit(c)
    BY <1>6, <2>1, SubmitQueues
  <2>2. CASE ResumeAdmit(c)
    BY <1>6, <2>2, ResumeQueues DEF Attempts
  <2> QED
    BY <1>0, <1>2, <1>8, <2>1, <2>2, CallsStay DEF poolVars
<1>9. CASE UNCHANGED vars
  BY <1>2, <1>9 DEF vars, poolVars
<1> QED
  BY <1>3, <1>4, <1>5, <1>7, <1>8, <1>9 DEF Next

-----------------------------------------------------------------------------
(* The tokens: registered exactly while their thread holds the id.          *)

\* Threads that keep job and the kind of their place keep the tokens right.
LEMMA TokensStay ==
    ASSUME Tokened, SameJobs, UNCHANGED tokens,
           \A w \in Workers : worker[w].job \in Jobs =>
               (worker'[w].pc \in HoldPcs <=> worker[w].pc \in HoldPcs)
    PROVE  Tokened'
  BY DEF Tokened, Executes, SameJobs

\* A token names the one thread that holds its id, through every step.
LEMMA TokenedStep == ASSUME SafeInv, [Next]_vars PROVE Tokened'
<1>0. TypeOK /\ OneOwnerPerJob /\ Tokened /\ NoJob \notin Jobs /\ NoWorker \notin Workers
  BY ExecutorAssumption DEF SafeInv, RefInv, OwnerInv, ExecutorAssumption
<1>1. CASE StartFaults \/ Shutdown \/ PutSentinel
  BY <1>0, <1>1, TokensStay DEF StartFaults, Shutdown, PutSentinel, poolVars, SameJobs
<1>2. CASE Start
  <2>1. \A w \in Workers : worker[w].job = NoJob /\ worker'[w].job = NoJob
    BY <1>2 DEF SafeInv, RefInv, OwnerInv, TypeOK, Placed, Start, Idle, OffDuty
  <2> QED
    BY <1>0, <1>2, <2>1, TokensStay DEF Start, poolVars, SameJobs
<1>3. CASE CrashAndRestart
  <2>1. \A w \in Workers : worker'[w].job = NoJob
    BY <1>3 DEF CrashAndRestart, OffDuty
  <2>2. \A j \in Jobs : tokens'[j] = NoWorker
    BY <1>3 DEF CrashAndRestart
  <2> QED
    BY <1>0, <2>1, <2>2 DEF Tokened, Executes
<1>4. ASSUME NEW w \in Workers, WorkerStep(w) PROVE Tokened'
  <2>0. \A v \in Workers \ {w} : worker'[v] = worker[v]
    BY <1>0, <1>4, OthersStay
  <2>1. CASE GetSentinel(w)
    <3>1. WorkerTo(w, "off") /\ UNCHANGED tokens /\ worker[w].job = NoJob
      BY <1>0, <2>1 DEF GetSentinel, TypeOK, Placed
    <3>2. SameJobs
      BY <1>0, <3>1, MoveOn
    <3> QED
      BY <1>0, <2>0, <3>1, <3>2, TokensStay
  <2>2. CASE GetJob(w)
    <3>1. /\ worker[w].job = NoJob /\ worker'[w].pc = "dequeued" /\ UNCHANGED tokens
      BY <1>0, <2>2, Fetches
    <3>2. "dequeued" \notin HoldPcs
      BY DEF HoldPcs, RunPcs
    <3> QED
      BY <1>0, <2>0, <3>1, <3>2 DEF Tokened, Executes
  <2>3. CASE RegisterToken(w)
    <3>1. /\ WorkerTo(w, "held") /\ worker[w].pc = "dequeued" /\ worker[w].job \in Jobs
          /\ tokens' = [tokens EXCEPT ![worker[w].job] = w]
      BY <1>0, <2>3, Registers
    <3>2. SameJobs /\ worker'[w].pc = "held"
      BY <1>0, <3>1, MoveOn
    <3>3. "dequeued" \notin HoldPcs /\ "held" \in HoldPcs
      BY DEF HoldPcs, RunPcs
    <3>4. \A j \in Jobs : tokens'[j] = IF j = worker[w].job THEN w ELSE tokens[j]
      BY <1>0, <3>1 DEF TypeOK, FieldTypes
    <3>5. \A v \in Workers \ {w} : worker[v].job # worker[w].job
      BY <1>0, <3>1 DEF OneOwnerPerJob
    <3> QED
      BY <1>0, <2>0, <3>1, <3>2, <3>3, <3>4, <3>5 DEF Tokened, Executes, SameJobs
  <2>4. CASE BeginRun(w)
    <3>1. /\ worker[w].pc = "held" /\ worker'[w].pc = "starting"
          /\ worker'[w].job = worker[w].job /\ UNCHANGED tokens
      BY <1>0, <2>4, Begins
    <3>2. "starting" \in HoldPcs /\ "held" \in HoldPcs
      BY DEF HoldPcs, RunPcs
    <3> QED
      BY <1>0, <2>0, <3>1, <3>2, TokensStay DEF SameJobs
  <2>5. CASE Cleanup(w)
    <3>1. /\ worker[w].job \in Jobs /\ worker'[w].job = NoJob
          /\ \A j \in Jobs : tokens'[j] = IF j = worker[w].job THEN NoWorker ELSE tokens[j]
      BY <1>0, <2>5, Cleans DEF Idle, OffDuty, TypeOK, FieldTypes
    <3>2. \A v \in Workers \ {w} : worker[v].job # worker[w].job
      BY <1>0, <3>1 DEF OneOwnerPerJob
    <3> QED
      BY <1>0, <2>0, <3>1, <3>2 DEF Tokened, Executes
  <2>6. CASE Quiet(w)
    <3>1. PICK p \in HoldPcs : WorkerTo(w, p)
      BY <2>6 DEF Quiet
    <3>2. SameJobs /\ worker'[w].pc = p
      BY <1>0, <3>1, MoveOn
    <3> QED
      BY <1>0, <2>0, <2>6, <3>2, TokensStay DEF Quiet, poolVars
  <2> QED
    BY <1>4, <2>1, <2>2, <2>3, <2>4, <2>5, <2>6, QuietSteps
<1>5. ASSUME NEW c \in Clients, Call(c) \/ AdmissionStep(c) \/ CancelStep(c)
      PROVE  Tokened'
  <2>1. UNCHANGED tokens
    BY <1>0, <1>5, SubmitQueues, ResumeQueues, CallsStay DEF Enqueues, poolVars
  <2> QED
    BY <1>0, <1>5, <2>1, CallsTrip, TokensStay DEF SameJobs
<1>6. CASE UNCHANGED vars
  BY <1>0, <1>6, TokensStay DEF vars, poolVars, SameJobs
<1> QED
  BY <1>1, <1>2, <1>3, <1>4, <1>5, <1>6 DEF Next

-----------------------------------------------------------------------------
(* The attempts on record.                                                  *)

\* A thread that owns an attempt is at work on a job.
LEMMA OwnerWorks ==
    ASSUME SafeInv, NEW w \in Workers, worker[w].own # Unknown
    PROVE  worker[w].job \in Jobs /\ worker[w].job \in owned
<1>1. worker[w].pc \notin {"off", "idle"}
  BY DEF SafeInv, RefInv, PlaceInv
<1>2. worker[w].job \in Jobs
  BY <1>1 DEF SafeInv, RefInv, OwnerInv, TypeOK, FieldTypes, Place, Placed
<1> QED
  BY <1>2, HeldByThread DEF SafeInv

\* Two threads never work on one job.
LEMMA Apart ==
    ASSUME SafeInv, NEW v \in Workers, NEW w \in Workers, v # w, worker[v].job \in Jobs
    PROVE  worker[v].job # worker[w].job
  BY ExecutorAssumption
     DEF SafeInv, RefInv, OwnerInv, OneOwnerPerJob, ExecutorAssumption

\* An owned id keeps its attempt on record, the one its thread owns.
LEMMA RecordedStep == ASSUME SafeInv, [Next]_vars PROVE Recorded'
<1>0. TypeOK /\ TypeOK' /\ Recorded
  BY OwnerStep DEF SafeInv, RefInv, OwnerInv
<1>1. ASSUME UNCHANGED <<owned, acquired>>,
             \A w \in Workers : worker'[w].own # Unknown =>
                 worker'[w].own = worker[w].own /\ worker'[w].job = worker[w].job
      PROVE  Recorded'
  BY <1>0, <1>1 DEF Recorded
<1>2. CASE StartFaults \/ Shutdown \/ PutSentinel
  BY <1>1, <1>2 DEF StartFaults, Shutdown, PutSentinel, poolVars
<1>3. CASE Start
  BY <1>1, <1>3 DEF Start, poolVars, Idle, OffDuty
<1>4. CASE CrashAndRestart
  BY <1>4 DEF CrashAndRestart, Recorded, OffDuty
<1>5. ASSUME NEW k \in Jobs, NEW g, NEW a \in Nat, Enqueues(k, g, a) PROVE Recorded'
  <2>1. /\ k \notin owned /\ owned' = owned \cup {k} /\ UNCHANGED worker
        /\ \A j \in Jobs : acquired'[j] = IF j = k THEN a ELSE acquired[j]
    BY <1>0, <1>5 DEF Enqueues, TypeOK, FieldTypes
  <2>2. \A j \in owned' : acquired'[j] # Unknown
    BY <1>0, <2>1 DEF Recorded, Unknown, TypeOK, FieldTypes
  <2>3. \A w \in Workers : worker[w].own # Unknown => acquired'[worker[w].job] = worker[w].own
    BY <1>0, <2>1, OwnerWorks DEF Recorded
  <2> QED
    BY <2>1, <2>2, <2>3 DEF Recorded
<1>6. ASSUME NEW w \in Workers, WorkerStep(w) PROVE Recorded'
  <2>0. \A v \in Workers \ {w} : worker'[v] = worker[v]
    BY <1>0, <1>6, OthersStay
  <2>1. CASE GetSentinel(w)
    <3>1. WorkerTo(w, "off") /\ UNCHANGED <<owned, acquired>>
      BY <2>1 DEF GetSentinel
    <3> QED
      BY <1>0, <1>1, <3>1, MoveOn DEF SameJobs
  <2>2. CASE GetJob(w)
    <3>1. worker'[w].own = Unknown /\ UNCHANGED <<owned, acquired>>
      BY <1>0, <2>2, Fetches
    <3> QED
      BY <1>1, <2>0, <3>1
  <2>3. CASE RegisterToken(w)
    <3>1. WorkerTo(w, "held") /\ UNCHANGED <<owned, acquired>>
      BY <1>0, <2>3, Registers
    <3> QED
      BY <1>0, <1>1, <3>1, MoveOn DEF SameJobs
  <2>4. CASE BeginRun(w)
    <3> DEFINE j == worker[w].job  a == rows'[j].attempt
    <3>1. /\ j \in Jobs /\ acquired' = [acquired EXCEPT ![j] = a] /\ UNCHANGED owned
          /\ worker'[w].own = a /\ worker'[w].job = j
      BY <1>0, <2>4, Begins
    <3>2. a \in Nat
      <4>1. rows'[j] \in Row
        BY <1>0, <3>1 DEF TypeOK, FieldTypes
      <4> QED
        BY <4>1 DEF Row
    <3> HIDE DEF a
    <3>3. \A k \in Jobs : acquired'[k] = IF k = j THEN a ELSE acquired[k]
      BY <1>0, <3>1 DEF TypeOK, FieldTypes
    <3>4. \A k \in owned' : acquired'[k] # Unknown
      BY <1>0, <3>1, <3>2, <3>3 DEF Recorded, TypeOK, FieldTypes, Unknown
    <3>5. ASSUME NEW v \in Workers, worker'[v].own # Unknown
          PROVE  acquired'[worker'[v].job] = worker'[v].own
      <4>1. CASE v = w
        BY <3>1, <3>3, <4>1
      <4>2. CASE v # w
        <5>1. worker'[v] = worker[v] /\ worker[v].own # Unknown
          BY <2>0, <3>5, <4>2
        <5>2. worker[v].job \in Jobs /\ worker[v].job # j
          BY <4>2, <5>1, OwnerWorks, Apart
        <5> QED
          BY <1>0, <3>3, <5>1, <5>2 DEF Recorded
      <4> QED
        BY <4>1, <4>2
    <3> QED
      BY <3>4, <3>5 DEF Recorded
  <2>5. CASE Cleanup(w)
    <3> DEFINE j == worker[w].job
    <3>1. /\ j \in Jobs /\ owned' = owned \ {j} /\ worker'[w].own = Unknown
          /\ \A k \in Jobs : acquired'[k] = IF k = j THEN Unknown ELSE acquired[k]
      BY <1>0, <2>5, Cleans DEF Idle, OffDuty, TypeOK, FieldTypes
    <3>2. \A k \in owned' : acquired'[k] # Unknown
      BY <1>0, <3>1 DEF Recorded, TypeOK, FieldTypes
    <3>3. ASSUME NEW v \in Workers, worker'[v].own # Unknown
          PROVE  acquired'[worker'[v].job] = worker'[v].own
      <4>1. v # w /\ worker'[v] = worker[v]
        BY <2>0, <3>1, <3>3
      <4>2. worker[v].job \in Jobs /\ worker[v].job # j
        BY <3>3, <4>1, OwnerWorks, Apart
      <4> QED
        BY <1>0, <3>1, <3>3, <4>1, <4>2 DEF Recorded
    <3> QED
      BY <3>2, <3>3 DEF Recorded
  <2>6. CASE Quiet(w)
    BY <1>0, <1>1, <2>6, MoveOn DEF Quiet, poolVars, SameJobs
  <2> QED
    BY <1>6, <2>1, <2>2, <2>3, <2>4, <2>5, <2>6, QuietSteps
<1>7. ASSUME NEW c \in Clients, Call(c) \/ AdmissionStep(c) \/ CancelStep(c)
      PROVE  Recorded'
  <2>1. CASE SubmitAdmit(c)
    BY <1>5, <2>1, SubmitQueues
  <2>2. CASE ResumeAdmit(c)
    BY <1>5, <2>2, ResumeQueues
  <2> QED
    BY <1>0, <1>1, <1>7, <2>1, <2>2, CallsStay, CallsTrip DEF poolVars
<1>8. CASE UNCHANGED vars
  BY <1>1, <1>8 DEF vars, poolVars
<1> QED
  BY <1>2, <1>3, <1>4, <1>6, <1>7, <1>8 DEF Next

\* Where a call goes, and what it then holds.
LEMMA CallMoved ==
    ASSUME TypeOK, NEW c \in Clients
    PROVE  /\ ClientDone(c) => client'[c] = AtRest
           /\ Refused(c) => \/ client'[c] = AtRest
                            \/ /\ client[c].job # NoJob /\ client[c].pc # "submitting"
                               /\ client'[c] = [client[c] EXCEPT !.pc = "refused"]
           /\ \A q : ClientTo(c, q) => client'[c] = [client[c] EXCEPT !.pc = q]
  BY DEF ClientDone, Refused, ClientTo, TypeOK, FieldTypes

\* Every step a call can take, and the place it takes it to.
CallEffect(c) ==
    \/ client'[c] = AtRest
    \/ client[c].pc = "idle" /\ client'[c].pc \notin Bound
    \/ /\ ResumeClaim(c)
       /\ client[c].pc = "observed" /\ client'[c].pc = "claimed"
       /\ client'[c].job = client[c].job
       /\ client'[c].claim = rows'[client[c].job].attempt
       /\ client'[c].gen = client'[c].claim
    \/ /\ ResumeSave(c)
       /\ client[c].pc = "claimed" /\ client'[c].pc = "saved"
       /\ client'[c].job = client[c].job /\ client'[c].gen = client[c].gen
       /\ client'[c].claim = ReadAttempt(c)
    \/ /\ GateReconcile(c) /\ lock' = c
       /\ client[c].pc \in {"submitting", "saved"}
       /\ client'[c] = [client[c] EXCEPT !.pc = "admitting"]
    \/ /\ client[c].pc \in {"saved", "admitting"}
       /\ client'[c] = [client[c] EXCEPT !.pc = "refused"]

\* A step of a call has one of the effects that CallEffect lists.
LEMMA CallEffects ==
    ASSUME TypeOK, Locked, NEW c \in Clients, Call(c) \/ AdmissionStep(c) \/ CancelStep(c)
    PROVE  CallEffect(c)
<1> USE DEF CallEffect
<1>1. CASE Call(c)
  <2>1. CASE SubmitBegin(c)
    <3>1. client[c].pc = "idle" /\ client'[c] = [client[c] EXCEPT !.pc = "submitting"]
      BY <2>1, CallMoved DEF SubmitBegin
    <3> QED
      BY <3>1 DEF TypeOK, FieldTypes, CallPlace, Bound
  <2>2. ASSUME NEW k \in Jobs, ResumeObserve(c, k) \/ CancelObserve(c, k)
        PROVE  CallEffect(c)
    <3> DEFINE a == rows[k].attempt
    <3>1. /\ client[c].pc = "idle"
          /\ \E q \in {"observed", "cancelling"} :
                client' = [client EXCEPT ![c] = [AtRest EXCEPT !.pc = q, !.job = k, !.seen = a]]
      BY <2>2 DEF ResumeObserve, CancelObserve
    <3> HIDE DEF a
    <3> QED
      BY <3>1 DEF TypeOK, FieldTypes, CallPlace, AtRest, Bound
  <2> QED
    BY <1>1, <2>1, <2>2 DEF Call
<1>2. CASE ResumeClaim(c)
  <2> DEFINE a == rows'[client[c].job].attempt
  <2>1. /\ client[c].pc = "observed"
        /\ client' = [client EXCEPT ![c].pc = "claimed", ![c].claim = a, ![c].gen = a]
    BY <1>2 DEF ResumeClaim
  <2> HIDE DEF a
  <2>2. /\ client'[c].pc = "claimed" /\ client'[c].job = client[c].job
        /\ client'[c].claim = a /\ client'[c].gen = a
    BY <2>1 DEF TypeOK, FieldTypes, CallPlace
  <2> QED
    BY <1>2, <2>1, <2>2 DEF a
<1>3. CASE ResumeSave(c)
  <2>1. /\ client[c].pc = "claimed"
        /\ client' = [client EXCEPT ![c].pc = "saved", ![c].claim = ReadAttempt(c)]
    BY <1>3 DEF ResumeSave
  <2>2. /\ client'[c].pc = "saved" /\ client'[c].job = client[c].job
        /\ client'[c].claim = ReadAttempt(c) /\ client'[c].gen = client[c].gen
    BY <2>1 DEF TypeOK, FieldTypes, CallPlace
  <2> QED
    BY <1>3, <2>1, <2>2
<1>4. ASSUME Refused(c), client[c].pc \in {"submitting", "saved", "admitting"}
      PROVE  CallEffect(c)
  BY <1>4, CallMoved
<1>5. CASE GateReconcile(c)
  <2>1. client[c].pc \in {"submitting", "saved"}
    BY <1>5 DEF GateReconcile, AtGate
  <2>2. (lock' = c /\ ClientTo(c, "admitting")) \/ Refused(c)
    BY <1>5 DEF GateReconcile
  <2> QED
    BY <1>4, <1>5, <2>1, <2>2, CallMoved
<1>6. CASE GateShut(c) \/ GateReconcileFaults(c) \/ AdmitRefused(c)
  <2>1. client[c].pc \in {"submitting", "saved", "admitting"} /\ Refused(c)
    BY <1>6 DEF GateShut, GateReconcileFaults, AdmitRefused, Admitting, AtGate, Locked
  <2> QED
    BY <1>4, <2>1
<1>7. CASE ClientDone(c)
  BY <1>7, CallMoved
<1> QED
  BY <1>1, <1>2, <1>3, <1>5, <1>6, <1>7
     DEF AdmissionStep, ResumeConflict, ResumeSaveFaults, SubmitAdmit, SubmitFaults,
         ResumeAdmit, Unadmit, UnadmitFaults, CancelStep, CancelAccept, CancelRefused,
         CancelFaults

\* What a call believes of its claim stays the claim or something newer.
LEMMA ClaimedStep == ASSUME SafeInv, [Next]_vars PROVE Claimed'
<1>0. TypeOK /\ TypeOK' /\ Claimed /\ Locked
  BY OwnerStep DEF SafeInv, RefInv, OwnerInv
<1>r. AtRest.pc \notin Bound
  BY DEF AtRest, Bound
<1>1. CASE UNCHANGED client
  BY <1>0, <1>1 DEF Claimed
<1>2. CASE CrashAndRestart
  BY <1>2, <1>r DEF CrashAndRestart, Claimed
<1>3. ASSUME NEW c \in Clients, Call(c) \/ AdmissionStep(c) \/ CancelStep(c)
      PROVE  Claimed'
  <2>1. \A b \in Clients \ {c} : client'[b] = client[b]
    BY <1>0, <1>3, CallsAlone
  <2>2. SUFFICES ASSUME client'[c].pc \in Bound, client'[c].job \in Jobs
                 PROVE  client'[c].gen # Unknown /\ client'[c].gen <= client'[c].claim
    BY <1>0, <2>1 DEF Claimed
  <2>3. CallEffect(c) /\ client[c] \in CallPlace /\ client'[c] \in CallPlace
    BY <1>0, <1>3, CallEffects DEF TypeOK, FieldTypes
  <2>4. CASE ResumeClaim(c)
    <3>1. client[c].job \in Jobs /\ client[c].pc = "observed"
      BY <1>0, <2>4 DEF ResumeClaim, TypeOK, Placed
    <3>2. rows'[client[c].job].attempt \in Nat
      <4>1. rows'[client[c].job] \in Row
        BY <1>0, <3>1 DEF TypeOK, FieldTypes
      <4> QED
        BY <4>1 DEF Row
    <3>3. client'[c].claim = rows'[client[c].job].attempt /\ client'[c].gen = client'[c].claim
      <4> DEFINE a == rows'[client[c].job].attempt
      <4>1. client' = [client EXCEPT ![c].pc = "claimed", ![c].claim = a, ![c].gen = a]
        BY <2>4 DEF ResumeClaim
      <4> HIDE DEF a
      <4>2. client'[c].claim = a /\ client'[c].gen = a
        BY <1>0, <4>1 DEF TypeOK, FieldTypes, CallPlace
      <4> QED
        BY <4>2 DEF a
    <3> QED
      BY <3>2, <3>3 DEF Unknown
  <2>5. CASE /\ client[c].pc = "claimed" /\ client'[c].pc = "saved"
             /\ client'[c].job = client[c].job /\ client'[c].gen = client[c].gen
             /\ client'[c].claim = ReadAttempt(c)
    <3> DEFINE j == client[c].job
    <3>1. j \in Jobs /\ client[c].gen # Unknown /\ client[c].gen <= client[c].claim
      BY <1>0, <2>2, <2>5 DEF Claimed, Bound
    <3>2. rows[j] \in Row /\ client[c].gen \in Attempts /\ client[c].claim \in Attempts
      BY <1>0, <2>3, <3>1 DEF TypeOK, FieldTypes, CallPlace
    <3>3. Present(rows[j]) => client[c].claim <= rows[j].attempt
      BY <3>1 DEF SafeInv, RefInv, ClaimInv, Present, Live, Settled, Kept,
                  IncompleteStates, TerminalStates
    <3>4. \/ ReadAttempt(c) = client[c].claim
          \/ Present(rows[j]) /\ ReadAttempt(c) = rows[j].attempt
      BY DEF ReadAttempt
    <3>5. client[c].gen <= ReadAttempt(c)
      BY <3>1, <3>2, <3>3, <3>4 DEF Attempts, Unknown, Row
    <3> QED
      BY <2>5, <3>1, <3>5
  <2>6. CASE /\ client[c].pc \in {"submitting", "saved", "admitting"}
             /\ \E q \in {"admitting", "refused"} :
                   client'[c] = [client[c] EXCEPT !.pc = q]
    <3>1. /\ client'[c].job = client[c].job /\ client'[c].gen = client[c].gen
          /\ client'[c].claim = client[c].claim
      BY <2>3, <2>6 DEF CallPlace
    <3>2. client[c].pc # "submitting"
      BY <1>0, <2>2, <3>1, ExecutorAssumption DEF TypeOK, Placed, ExecutorAssumption
    <3> QED
      BY <1>0, <2>2, <2>6, <3>1, <3>2 DEF Claimed, Bound
  <2> QED
    BY <1>r, <2>2, <2>3, <2>4, <2>5, <2>6 DEF CallEffect
<1>4. ASSUME NEW w \in Workers, WorkerStep(w) PROVE UNCHANGED client
  BY <1>0, <1>4, OthersStay
<1> QED
  BY <1>1, <1>2, <1>3, <1>4 DEF Next, Start, StartFaults, Shutdown, PutSentinel, vars

-----------------------------------------------------------------------------
(* The latch and the admission lock.                                        *)

\* A call sent to a place is there.
LEMMA PlacePc ==
    ASSUME NEW p \in CallPlace, NEW q
    PROVE  /\ [p EXCEPT !.pc = q].pc = q
           /\ [p EXCEPT !.pc = q].job = p.job
           /\ [p EXCEPT !.pc = q].gen = p.gen
           /\ [p EXCEPT !.pc = q].claim = p.claim
  BY DEF CallPlace

\* A call that returns or is refused is not inside admission.
LEMMA LeavesGate ==
    ASSUME TypeOK, NEW c \in Clients, ClientDone(c) \/ Refused(c)
    PROVE  client'[c].pc # "admitting"
<1>1. client[c] \in CallPlace
  BY DEF TypeOK, FieldTypes
<1>2. client'[c] = AtRest \/ client'[c] = [client[c] EXCEPT !.pc = "refused"]
  BY CallMoved
<1> DEFINE r == [client[c] EXCEPT !.pc = "refused"]
<1>3. r.pc = "refused" /\ AtRest.pc = "idle"
  BY <1>1, PlacePc DEF AtRest
<1>4. client'[c] = AtRest \/ client'[c] = r
  BY <1>2
<1> HIDE DEF r
<1> QED
  BY <1>3, <1>4

\* Every way the admission lock, the latch and the missing verdicts may change.
LEMMA LatchMoves ==
    ASSUME TypeOK, NEW c \in Clients, Call(c) \/ AdmissionStep(c) \/ CancelStep(c)
    PROVE  \/ UNCHANGED <<lock, latched, stranded>>
           \/ GateReconcile(c)
           \/ /\ SubmitAdmit(c) \/ SubmitFaults(c) \/ ResumeAdmit(c) \/ AdmitRefused(c)
              /\ UNCHANGED <<latched, stranded>> /\ lock' = NoClient
              /\ Admitting(c)
              /\ client'[c].pc # "admitting"
<1>1. CASE SubmitAdmit(c) \/ SubmitFaults(c) \/ ResumeAdmit(c) \/ AdmitRefused(c)
  <2>1. ClientDone(c) \/ Refused(c)
    BY <1>1 DEF SubmitAdmit, SubmitFaults, ResumeAdmit, AdmitRefused
  <2>2. client'[c].pc # "admitting"
    BY <2>1, LeavesGate
  <2> QED
    BY <1>1, <2>2 DEF SubmitAdmit, SubmitFaults, ResumeAdmit, AdmitRefused, faultVars
<1>2. CASE GateReconcile(c)
  BY <1>2
<1> QED
  BY <1>1, <1>2 DEF faultVars, Call, SubmitBegin, ResumeObserve, CancelObserve, AdmissionStep,
        ResumeClaim, ResumeConflict, ResumeSave, ResumeSaveFaults, GateShut,
        GateReconcileFaults, Unadmit, UnadmitFaults,
        CancelStep, CancelAccept, CancelRefused, CancelFaults

\* A fault is only latched while nobody is inside admission.
LEMMA LatchAlone ==
    ASSUME NEW w \in Workers, WorkerStep(w)
    PROVE  UNCHANGED <<latched, stranded>> \/ (Latch(w) /\ lock = NoClient)
  BY DEF WorkerStep, GetSentinel, GetJob, RegisterToken, BeginRun, BeginRefused,
         BeginFaults, WriteProgress, StartingFaults, PipelineReturns, PipelineFails,
         PipelineStops, FinalizeDone, ClaimError, ClaimCancelled, Land, VerdictFaults,
         Repair, RepairFaults, Latch, Cleanup, faultVars

\* Admission stays with the one call inside it, and shut while a fault is latched.
LEMMA LockedStep == ASSUME SafeInv, [Next]_vars PROVE Locked'
<1>0. TypeOK /\ Locked /\ NoClient \notin Clients
  BY ExecutorAssumption DEF SafeInv, RefInv, OwnerInv, ExecutorAssumption
<1>1. ASSUME UNCHANGED <<client, lock, latched>> PROVE Locked'
  BY <1>0, <1>1 DEF Locked
<1>2. CASE CrashAndRestart
  BY <1>0, <1>2 DEF CrashAndRestart, Locked, AtRest
<1>3. ASSUME NEW w \in Workers, WorkerStep(w) PROVE Locked'
  BY <1>0, <1>3, OthersStay, LatchAlone DEF Locked
<1>4. ASSUME NEW c \in Clients, Call(c) \/ AdmissionStep(c) \/ CancelStep(c) PROVE Locked'
  <2>0. \A b \in Clients \ {c} : client'[b] = client[b]
    BY <1>0, <1>4, CallsAlone
  <2>1. client[c] \in CallPlace /\ CallEffect(c)
    BY <1>0, <1>4, CallEffects DEF TypeOK, FieldTypes
  <2>2. CASE GateReconcile(c)
    <3>1. lock = NoClient /\ \A b \in Clients : client[b].pc # "admitting"
      BY <1>0, <2>2 DEF GateReconcile, Locked
    <3>2. CASE Tail(stranded) = <<>>
      <4>1. lock' = c /\ ClientTo(c, "admitting") /\ ~latched'
        BY <2>2, <3>2 DEF GateReconcile
      <4>2. client'[c].pc = "admitting"
        <5>1. client'[c] = [client[c] EXCEPT !.pc = "admitting"]
          BY <1>0, <4>1, CallMoved
        <5> QED
          BY <2>1, <5>1, PlacePc
      <4> QED
        BY <1>0, <2>0, <3>1, <4>1, <4>2 DEF Locked
    <3>3. CASE Tail(stranded) # <<>>
      <4>1. UNCHANGED lock /\ Refused(c)
        BY <2>2, <3>3 DEF GateReconcile
      <4>2. client'[c].pc # "admitting"
        BY <1>0, <4>1, LeavesGate
      <4> QED
        BY <1>0, <2>0, <3>1, <4>1, <4>2 DEF Locked
    <3> QED
      BY <3>2, <3>3
  <2>3. CASE /\ lock' = NoClient /\ Admitting(c) /\ client'[c].pc # "admitting"
    <3>1. \A b \in Clients \ {c} : client[b].pc # "admitting"
      BY <1>0, <2>3 DEF Admitting, Locked
    <3> QED
      BY <1>0, <2>0, <2>3, <3>1 DEF Locked
  <2>4. CASE UNCHANGED <<lock, latched, stranded>> /\ ~GateReconcile(c)
    <3>1. CASE lock = c
      <4>1. client[c].pc = "admitting"
        BY <1>0, <3>1 DEF Locked
      <4>2. ~AtGate(c) /\ Admitting(c)
        BY <3>1, <4>1 DEF AtGate, Admitting
      <4>3. SubmitAdmit(c) \/ SubmitFaults(c) \/ ResumeAdmit(c) \/ AdmitRefused(c)
        BY <1>4, <4>1, <4>2
           DEF Call, SubmitBegin, ResumeObserve, CancelObserve, AdmissionStep,
               ResumeClaim, ResumeConflict, ResumeSave, ResumeSaveFaults, GateShut,
               GateReconcile, GateReconcileFaults, Unadmit, UnadmitFaults, CancelStep,
               CancelAccept, CancelRefused, CancelFaults
      <4>4. lock' = NoClient
        BY <4>3 DEF SubmitAdmit, SubmitFaults, ResumeAdmit, AdmitRefused
      <4> QED
        BY <1>0, <2>4, <3>1, <4>4
    <3>2. CASE lock # c
      <4>1. client[c].pc # "admitting"
        BY <1>0, <3>2 DEF Locked
      <4>2. client'[c].pc # "admitting"
        <5>1. AtRest.pc # "admitting"
          BY DEF AtRest
        <5>2. "admitting" \in Bound
          BY DEF Bound
        <5>3. \A q \in {"refused"} : [client[c] EXCEPT !.pc = q].pc = q
          BY <2>1, PlacePc
        <5>4. client'[c].pc \notin Bound => client'[c].pc # "admitting"
          BY <5>2
        <5> QED
          BY <2>1, <2>4, <5>1, <5>3, <5>4 DEF CallEffect
      <4> QED
        BY <1>0, <2>0, <2>4, <3>2, <4>1, <4>2 DEF Locked
    <3> QED
      BY <3>1, <3>2
  <2> QED
    BY <1>0, <1>4, <2>2, <2>3, <2>4, LatchMoves
<1> QED
  BY <1>1, <1>2, <1>3, <1>4
     DEF Next, Start, StartFaults, Shutdown, PutSentinel, vars, faultVars

\* The list with its first entry gone, and with one more.
LEMMA StrandedTail ==
    ASSUME TypeOK, stranded # <<>>, stranded' = Tail(stranded)
    PROVE  /\ 1 \in DOMAIN stranded /\ Head(stranded) = stranded[1]
           /\ \A i \in DOMAIN stranded' : /\ i + 1 \in DOMAIN stranded
                                          /\ i \in Nat \ {0}
                                          /\ stranded'[i] = stranded[i + 1]
           /\ \A i \in DOMAIN stranded : i # 1 => /\ i - 1 \in DOMAIN stranded'
                                                  /\ stranded'[i - 1] = stranded[i]
<1> DEFINE S == [job : Jobs, attempt : Attempts]  n == Len(stranded)
<1>1. stranded \in Seq(S)
  BY DEF TypeOK, FieldTypes
<1> HIDE DEF S
<1>2. n \in Nat \ {0} /\ DOMAIN stranded = 1..n
  BY <1>1, LenProperties, EmptySeq
<1>3. /\ Tail(stranded) \in Seq(S) /\ Len(Tail(stranded)) = n - 1
      /\ \A i \in 1..Len(Tail(stranded)) : Tail(stranded)[i] = stranded[i + 1]
  BY <1>1, HeadTailProperties
<1>4. DOMAIN Tail(stranded) = 1..(n - 1)
  BY <1>3, LenProperties
<1>5. Head(stranded) = stranded[1]
  BY <1>1, <1>2
<1> HIDE DEF n
<1>6. DOMAIN stranded' = 1..(n - 1) /\ \A i \in 1..(n - 1) : stranded'[i] = stranded[i + 1]
  BY <1>2, <1>3, <1>4
<1> QED
  BY <1>2, <1>5, <1>6

\* The list keeps its entries and gains the one at its end.
LEMMA StrandedAppend ==
    ASSUME TypeOK, NEW e \in [job : Jobs, attempt : Attempts],
           stranded' = Append(stranded, e)
    PROVE  /\ stranded' # <<>>
           /\ \A i \in DOMAIN stranded' :
                 \/ i \in DOMAIN stranded /\ stranded'[i] = stranded[i]
                 \/ i \notin DOMAIN stranded /\ i = Len(stranded) + 1 /\ stranded'[i] = e
           /\ \A i \in DOMAIN stranded : i \in DOMAIN stranded'
           /\ Len(stranded) + 1 \in DOMAIN stranded'
<1> DEFINE S == [job : Jobs, attempt : Attempts]  n == Len(stranded)
<1>1. stranded \in Seq(S)
  BY DEF TypeOK, FieldTypes
<1> HIDE DEF S
<1>2. n \in Nat /\ DOMAIN stranded = 1..n
  BY <1>1, LenProperties
<1>3. /\ stranded' \in Seq(S) /\ DOMAIN stranded' = 1..(n + 1)
      /\ \A i \in 1..n : stranded'[i] = stranded[i]
      /\ stranded'[n + 1] = e
  BY <1>1, AppendProperties, LenProperties DEF S
<1>4. stranded' # <<>>
  BY <1>2, <1>3
<1> HIDE DEF n
<1>5. n \notin 1..(n - 1) /\ n + 1 \notin 1..n /\ n + 1 \in 1..(n + 1)
  BY <1>2
<1>6. \A i \in 1..(n + 1) : i \in 1..n \/ i = n + 1
  BY <1>2
<1> QED
  BY <1>2, <1>3, <1>4, <1>5, <1>6 DEF n

\* The latch stands while a verdict is missing, one entry to an id, with its
\* attempt; the id is out of the queue and its thread cleaning up.
LEMMA LatchStep ==
    ASSUME SafeInv, [Next]_vars PROVE LatchNamesStranded' /\ Settling'
<1>0. /\ TypeOK /\ LatchNamesStranded /\ Settling /\ OneOwnerPerJob
      /\ NoJob \notin Jobs
      /\ \A i \in DOMAIN stranded : stranded[i].job \in Jobs
  <2>1. stranded \in Seq([job : Jobs, attempt : Attempts])
    BY DEF SafeInv, RefInv, OwnerInv, TypeOK, FieldTypes
  <2>2. \A i \in DOMAIN stranded : stranded[i] \in [job : Jobs, attempt : Attempts]
    BY <2>1, ElementOfSeq, LenProperties
  <2> QED
    BY <2>2, ExecutorAssumption DEF SafeInv, RefInv, OwnerInv, ExecutorAssumption
<1>1. ASSUME UNCHANGED <<latched, stranded>>, QueuedJobs' \subseteq QueuedJobs,
             \A w \in Workers : worker'[w].job \in Jobs =>
                 /\ worker'[w].job = worker[w].job
                 /\ worker[w].pc = "cleanup" => worker'[w].pc = "cleanup"
      PROVE  LatchNamesStranded' /\ Settling'
  BY <1>0, <1>1 DEF LatchNamesStranded, Settling, Executes
<1>2. CASE StartFaults \/ Shutdown
  BY <1>1, <1>2, QueuedSame DEF StartFaults, Shutdown, poolVars, faultVars
<1>3. CASE Start
  BY <1>0, <1>1, <1>3, QueuedSame DEF Start, poolVars, faultVars, Idle, OffDuty
<1>4. CASE PutSentinel
  <2>1. QueuedJobs' = QueuedJobs \cup ({Sentinel.job} \cap Jobs)
    BY <1>0, <1>4, QueuedAppend DEF PutSentinel
  <2> QED
    BY <1>0, <1>1, <1>4, <2>1 DEF PutSentinel, faultVars, Sentinel
<1>5. CASE CrashAndRestart
  <2>1. ~latched' /\ stranded' = <<>> /\ DOMAIN stranded' = {}
    BY <1>5 DEF CrashAndRestart
  <2> QED
    BY <2>1 DEF LatchNamesStranded, Settling
<1>6. ASSUME NEW k, NEW g, NEW a, Enqueues(k, g, a) PROVE LatchNamesStranded' /\ Settling'
  <2>1. DOMAIN stranded = {} /\ stranded' = stranded /\ latched' = latched
    BY <1>6 DEF Enqueues
  <2> QED
    BY <1>0, <2>1 DEF LatchNamesStranded, Settling
<1>7. ASSUME NEW w \in Workers, Latch(w) PROVE LatchNamesStranded' /\ Settling'
  <2> DEFINE j == worker[w].job  e == [job |-> j, attempt |-> acquired[j]]
  <2>1. /\ worker[w].pc = "latching" /\ WorkerTo(w, "cleanup") /\ latched'
        /\ UNCHANGED <<queue, owned, acquired>>
    BY <1>7 DEF Latch, poolVars
  <2>2. j \in Jobs
    BY <1>0, <2>1 DEF TypeOK, FieldTypes, Placed, Place
  <2>3. j \in owned /\ j \notin QueuedJobs /\ acquired[j] # Unknown /\ acquired[j] \in Attempts
    <3>1. j \in owned
      BY <2>2, HeldByThread DEF SafeInv
    <3>2. j \notin QueuedJobs
      BY <1>0, <2>2, QueuedMeans DEF OneOwnerPerJob
    <3> QED
      BY <1>0, <2>2, <3>1, <3>2 DEF SafeInv, Recorded, TypeOK, FieldTypes
  <2>4. \A i \in DOMAIN stranded : stranded[i].job # j
    BY <1>0, <2>1 DEF Settling, Executes
  <2>5. stranded' = Append(stranded, e)
    BY <1>7, <2>4 DEF Latch
  <2>6. e \in [job : Jobs, attempt : Attempts] /\ e.job = j /\ e.attempt = acquired[j]
    BY <2>2, <2>3
  <2>7. /\ SameJobs /\ worker'[w].pc = "cleanup"
        /\ \A v \in Workers \ {w} : worker'[v] = worker[v]
    BY <1>0, <2>1, MoveOn
  <2>8. \A v \in Workers \ {w} : worker[v].job # j
    BY <1>0, <2>2 DEF OneOwnerPerJob
  <2> HIDE DEF e, j
  <2>9. /\ stranded' # <<>>
        /\ \A i \in DOMAIN stranded' :
              \/ i \in DOMAIN stranded /\ stranded'[i] = stranded[i]
              \/ i \notin DOMAIN stranded /\ i = Len(stranded) + 1 /\ stranded'[i] = e
    BY <1>0, <2>5, <2>6, StrandedAppend
  <2>10. LatchNamesStranded'
    <3>1. ASSUME NEW i \in DOMAIN stranded' PROVE stranded'[i].attempt # Unknown
      BY <1>0, <2>3, <2>6, <2>9 DEF LatchNamesStranded
    <3>2. ASSUME NEW i \in DOMAIN stranded', NEW k \in DOMAIN stranded',
                 stranded'[i].job = stranded'[k].job
          PROVE  i = k
      BY <1>0, <2>4, <2>6, <2>9, <3>2 DEF LatchNamesStranded
    <3> QED
      BY <2>1, <2>9, <3>1, <3>2 DEF LatchNamesStranded
  <2>11. Settling'
    <3>1. QueuedJobs' = QueuedJobs
      BY <2>1, QueuedSame
    <3>2. ASSUME NEW i \in DOMAIN stranded', NEW v \in Workers,
                 worker'[v].job = stranded'[i].job
          PROVE  worker'[v].pc = "cleanup"
      <4>1. CASE v = w
        BY <2>7, <4>1
      <4>2. CASE v # w
        <5>1. worker'[v] = worker[v] /\ worker[v].job # j
          BY <2>7, <2>8, <4>2
        <5>2. i \in DOMAIN stranded /\ stranded'[i] = stranded[i]
          BY <2>6, <2>9, <3>2, <5>1
        <5> QED
          BY <1>0, <3>2, <5>1, <5>2 DEF Settling, Executes
      <4> QED
        BY <4>1, <4>2
    <3>3. \A i \in DOMAIN stranded' : stranded'[i].job \notin QueuedJobs'
      BY <1>0, <2>3, <2>6, <2>9, <3>1 DEF Settling
    <3> QED
      BY <3>2, <3>3 DEF Settling, Executes
  <2> QED
    BY <2>10, <2>11
<1>8. ASSUME NEW w \in Workers, WorkerStep(w), ~Latch(w)
      PROVE  LatchNamesStranded' /\ Settling'
  <2>0. /\ \A v \in Workers \ {w} : worker'[v] = worker[v]
        /\ UNCHANGED <<latched, stranded>>
    BY <1>0, <1>8, OthersStay, LatchAlone
  <2>1. CASE GetSentinel(w)
    <3>1. worker[w].job = NoJob /\ WorkerTo(w, "off") /\ queue # <<>> /\ queue' = Tail(queue)
      BY <1>0, <2>1 DEF GetSentinel, TypeOK, Placed
    <3>2. worker'[w].job = NoJob
      BY <1>0, <3>1, MoveOn DEF SameJobs
    <3>3. QueuedJobs' \subseteq QueuedJobs
      BY <1>0, <3>1, QueuedTail
    <3> QED
      BY <1>0, <1>1, <2>0, <3>2, <3>3
  <2>2. CASE GetJob(w)
    <3> DEFINE k == Head(queue).job
    <3>1. /\ worker'[w].job = k /\ k \in Jobs /\ queue # <<>> /\ queue' = Tail(queue)
      BY <1>0, <2>2, Fetches
    <3>2. QueuedJobs' \subseteq QueuedJobs /\ k \in QueuedJobs
      BY <1>0, <3>1, QueuedTail
    <3> HIDE DEF k
    <3>3. LatchNamesStranded'
      BY <1>0, <2>0 DEF LatchNamesStranded
    <3>4. \A i \in DOMAIN stranded : stranded[i].job # k
      BY <1>0, <3>2 DEF Settling
    <3> QED
      BY <1>0, <2>0, <3>1, <3>2, <3>3, <3>4 DEF Settling, Executes
  <2>3. CASE RegisterToken(w)
    <3>1. /\ WorkerTo(w, "held") /\ worker[w].pc = "dequeued" /\ UNCHANGED queue
      BY <1>0, <2>3, Registers
    <3> QED
      BY <1>0, <1>1, <2>0, <3>1, MoveOn, QueuedSame DEF SameJobs
  <2>4. CASE BeginRun(w)
    <3>1. /\ worker[w].pc = "held" /\ worker'[w].job = worker[w].job /\ UNCHANGED queue
      BY <1>0, <2>4, Begins
    <3> QED
      BY <1>1, <2>0, <3>1, QueuedSame
  <2>5. CASE Cleanup(w)
    <3>1. worker'[w].job = NoJob /\ UNCHANGED queue
      BY <1>0, <2>5, Cleans DEF Idle, OffDuty
    <3> QED
      BY <1>0, <1>1, <2>0, <3>1, QueuedSame
  <2>6. CASE Quiet(w)
    BY <1>0, <1>1, <2>0, <2>6, MoveOn, QueuedSame DEF Quiet, poolVars, SameJobs
  <2> QED
    BY <1>8, <2>1, <2>2, <2>3, <2>4, <2>5, <2>6, QuietSteps
<1>9. ASSUME NEW c \in Clients, Call(c) \/ AdmissionStep(c) \/ CancelStep(c)
      PROVE  LatchNamesStranded' /\ Settling'
  <2>1. CASE SubmitAdmit(c)
    BY <1>6, <2>1, SubmitQueues
  <2>2. CASE ResumeAdmit(c)
    BY <1>6, <2>2, ResumeQueues
  <2>3. CASE ~SubmitAdmit(c) /\ ~ResumeAdmit(c)
    <3>1. /\ UNCHANGED queue
          /\ \A v \in Workers : /\ worker'[v].job = worker[v].job
                                /\ worker'[v].pc = worker[v].pc
      BY <1>0, <1>9, <2>3, CallsStay, CallsTrip DEF poolVars
    <3>2. CASE UNCHANGED <<latched, stranded>>
      BY <1>1, <3>1, <3>2, QueuedSame
    <3>3. CASE GateReconcile(c)
      <4>1. /\ stranded # <<>> /\ stranded' = Tail(stranded)
            /\ latched' = (Tail(stranded) # <<>>)
        BY <3>3 DEF GateReconcile
      <4>2. \A i \in DOMAIN stranded' : /\ i + 1 \in DOMAIN stranded
                                        /\ i \in Nat \ {0}
                                        /\ stranded'[i] = stranded[i + 1]
        BY <1>0, <4>1, StrandedTail
      <4>3. \A i \in DOMAIN stranded' : stranded'[i].attempt # Unknown
        BY <1>0, <4>2 DEF LatchNamesStranded
      <4>4. ASSUME NEW i \in DOMAIN stranded', NEW k \in DOMAIN stranded',
                   stranded'[i].job = stranded'[k].job
            PROVE  i = k
        <5>1. i + 1 = k + 1
          BY <1>0, <4>2, <4>4 DEF LatchNamesStranded
        <5> QED
          BY <4>2, <5>1
      <4>5. LatchNamesStranded'
        BY <4>1, <4>3, <4>4 DEF LatchNamesStranded
      <4>6. Settling'
        BY <1>0, <3>1, <4>2, QueuedSame DEF Settling, Executes
      <4> QED
        BY <4>5, <4>6
    <3> QED
      BY <1>0, <1>9, <3>2, <3>3, LatchMoves
  <2> QED
    BY <2>1, <2>2, <2>3
<1>10. CASE UNCHANGED vars
  BY <1>1, <1>10, QueuedSame DEF vars, poolVars, faultVars
<1> QED
  BY <1>2, <1>3, <1>4, <1>5, <1>7, <1>8, <1>9, <1>10 DEF Next

-----------------------------------------------------------------------------
(* What one step does to one row, and who does it.                          *)

Judged(r) == r.state \notin IncompleteStates

RowStep(j) ==
    \/ rows'[j] = rows[j]
    \/ \E o \in Attempts : rows'[j] = Progress(rows[j], o)
    \/ Judged(rows'[j])
    \/ \E w \in Workers : worker[w].job = j /\ BeginRun(w)
    \/ \E c \in Clients : client[c].job = j /\ ResumeClaim(c)
    \/ \E c \in Clients : /\ client[c].job = j
                          /\ CancelAccept(c) \/ CancelFaults(c)
                          /\ Live(rows[j]) /\ rows'[j] = AcceptCancel(rows[j])
    \/ \E c \in Clients : /\ SubmitAdmit(c) \/ SubmitFaults(c)
                          /\ client[c].job = NoJob
                          /\ rows[j].state = "absent" /\ rows'[j] = Fresh(nextSeq)

\* A verdict lands, or leaves the row as it was.
LEMMA LandsOrStays ==
    ASSUME NEW r \in Row, NEW allowed, NEW o, NEW s \in TerminalStates
    PROVE  /\ Verdict(r, allowed, o, s) = r \/ Judged(Verdict(r, allowed, o, s))
           /\ Finalize(r, o) = r \/ Judged(Finalize(r, o))
           /\ Reap(r) = r \/ Judged(Reap(r))
<1>1. Verdict(r, allowed, o, s) = r \/ Verdict(r, allowed, o, s).state = s
  BY DEF Verdict, Row
<1>2. Finalize(r, o) = r \/ Finalize(r, o).state \in {"cancelled", "done"}
  BY DEF Finalize, Row
<1>3. Reap(r) = r \/ Reap(r).state = "error"
  BY DEF Reap, Row
<1> QED
  BY <1>1, <1>2, <1>3 DEF Judged, IncompleteStates, TerminalStates

\* A write to one row is a step of that row, and none of any other.
LEMMA RowStepOfWrite ==
    ASSUME TypeOK, NEW k, NEW r, SetRow(k, r), NEW j \in Jobs
    PROVE  IF j = k THEN rows'[j] = r ELSE rows'[j] = rows[j]
  BY DEF SetRow, TypeOK, FieldTypes

\* A thread's step,
LEMMA RowStepOfWorker ==
    ASSUME TypeOK, NEW w \in Workers, WorkerStep(w), NEW j \in Jobs
    PROVE  RowStep(j)
<1> DEFINE k == worker[w].job
<1>0. /\ rows[j] \in Row /\ worker[w].own \in Attempts
      /\ {"error", "cancelled"} \subseteq TerminalStates
  BY DEF TypeOK, FieldTypes, Place, TerminalStates
<1>1. ASSUME NEW r, SetRow(k, r), j = k => r = rows[j] \/ Judged(r)
      PROVE  RowStep(j)
  BY <1>1, RowStepOfWrite DEF RowStep
<1>2. CASE UNCHANGED rows
  BY <1>2 DEF RowStep
<1>3. CASE BeginRun(w)
  BY <1>3, RowStepOfWrite DEF BeginRun, RowStep
<1>4. CASE (WriteProgress(w) \/ StartingFaults(w)) /\ ~UNCHANGED rows
  <2>1. SetRow(k, Progress(rows[k], worker[w].own))
    BY <1>4 DEF WriteProgress, StartingFaults
  <2> QED
    BY <1>0, <2>1, RowStepOfWrite DEF RowStep
<1>5. CASE FinalizeDone(w) \/ (VerdictFaults(w) /\ ~UNCHANGED rows)
  <2>1. SetRow(k, Finalize(rows[k], worker[w].own))
    BY <1>5 DEF FinalizeDone, VerdictFaults, Land
  <2> QED
    BY <1>0, <1>1, <2>1, LandsOrStays
<1>6. CASE ClaimError(w) \/ ClaimCancelled(w) \/ Repair(w)
  <2>1. \E s \in {"error", "cancelled"} : \E o :
           SetRow(k, Verdict(rows[k], IncompleteStates, o, s))
    BY <1>6 DEF ClaimError, ClaimCancelled, Repair, Land
  <2> QED
    BY <1>0, <1>1, <2>1, LandsOrStays
<1> QED
  BY <1>2, <1>3, <1>4, <1>5, <1>6
     DEF WorkerStep, GetSentinel, GetJob, RegisterToken, BeginRefused, BeginFaults,
         PipelineReturns, PipelineFails, PipelineStops, RepairFaults, Latch, Cleanup,
         storeVars

\* a client's,
LEMMA RowStepOfClient ==
    ASSUME TypeOK, NEW c \in Clients, Call(c) \/ AdmissionStep(c) \/ CancelStep(c),
           NEW j \in Jobs
    PROVE  RowStep(j)
<1> DEFINE k == client[c].job
<1>0. rows[j] \in Row /\ rows \in [Jobs -> Row] /\ "error" \in TerminalStates
  BY DEF TypeOK, FieldTypes, TerminalStates
<1>1. ASSUME NEW i, NEW r, SetRow(i, r), j = i => r = rows[j] \/ Judged(r)
      PROVE  RowStep(j)
  BY <1>1, RowStepOfWrite DEF RowStep
<1>2. CASE UNCHANGED rows
  BY <1>2 DEF RowStep
<1>3. CASE ResumeClaim(c)
  BY <1>3, RowStepOfWrite DEF ResumeClaim, RowStep
<1>4. CASE (CancelAccept(c) \/ CancelFaults(c)) /\ ~UNCHANGED rows
  <2>1. SetRow(k, AcceptCancel(rows[k])) /\ Live(rows[k])
    BY <1>4 DEF CancelAccept, CancelFaults, CanAcceptCancel
  <2> QED
    BY <1>4, <2>1, RowStepOfWrite DEF RowStep
<1>5. CASE Unadmit(c)
  <2>1. SetRow(k, Verdict(rows[k], {"pending"}, client[c].claim, "error"))
    BY <1>5 DEF Unadmit
  <2> QED
    BY <1>0, <1>1, <2>1, LandsOrStays
<1>6. CASE GateReconcile(c)
  <2>1. SetRow(Head(stranded).job, Verdict(rows[Head(stranded).job], IncompleteStates,
                                           Head(stranded).attempt, "error"))
    BY <1>6 DEF GateReconcile
  <2> QED
    BY <1>0, <1>1, <2>1, LandsOrStays
<1>7. CASE (SubmitAdmit(c) \/ SubmitFaults(c)) /\ ~UNCHANGED rows
  <2>1. client[c].job = NoJob
    BY <1>7 DEF SubmitAdmit, SubmitFaults
  <2>2. PICK i \in Jobs :
          /\ rows[i].state = "absent"
          /\ rows' = Create(rows, i, nextSeq) \/ rows' = Insert(rows, i, nextSeq)
    BY <1>7 DEF SubmitAdmit, SubmitFaults, storeVars
  <2>3. Insert(rows, i, nextSeq)[j] = IF j = i THEN Fresh(nextSeq) ELSE rows[j]
    BY <1>0 DEF Insert
  <2>4. \/ Create(rows, i, nextSeq)[j] = Insert(rows, i, nextSeq)[j]
        \/ Create(rows, i, nextSeq)[j].state = "evicted"
    BY DEF Create, Evict, NoRow
  <2>5. "evicted" \notin IncompleteStates
    BY DEF IncompleteStates
  <2> QED
    BY <1>7, <2>1, <2>2, <2>3, <2>4, <2>5 DEF RowStep, Judged
<1> QED
  BY <1>2, <1>3, <1>4, <1>5, <1>6, <1>7
     DEF Call, SubmitBegin, ResumeObserve, CancelObserve, AdmissionStep, ResumeConflict,
         ResumeSave, ResumeSaveFaults, GateShut, GateReconcileFaults, ResumeAdmit,
         AdmitRefused, UnadmitFaults, CancelStep, CancelRefused, storeVars

\* and so every step's.
LEMMA RowSteps == ASSUME TypeOK, [Next]_vars, NEW j \in Jobs PROVE RowStep(j)
<1>0. rows[j] \in Row /\ "error" \in TerminalStates
  BY DEF TypeOK, FieldTypes, TerminalStates
<1>1. CASE UNCHANGED rows
  BY <1>1 DEF RowStep
<1>2. CASE Start \/ StartFaults
  <2>1. rows'[j] = rows[j] \/ rows'[j] = Reap(rows[j])
    BY <1>2 DEF Start, StartFaults, ReapAll
  <2> QED
    BY <1>0, <2>1, LandsOrStays DEF RowStep
<1> QED
  BY <1>1, <1>2, RowStepOfWorker, RowStepOfClient
     DEF Next, Shutdown, PutSentinel, CrashAndRestart, storeVars, vars

\* Rows of a state and attempt, as a step finds them when it leaves them live.
LEMMA LiveBefore ==
    ASSUME TypeOK, [Next]_vars, NEW j \in Jobs, ~Judged(rows'[j])
    PROVE  \/ /\ rows[j].state = rows'[j].state /\ rows[j].attempt = rows'[j].attempt
              /\ \/ rows'[j].cancel = rows[j].cancel
                 \/ \E c \in Clients : client[c].job = j /\ (CancelAccept(c) \/ CancelFaults(c))
           \/ \E w \in Workers : worker[w].job = j /\ BeginRun(w)
           \/ \E c \in Clients : client[c].job = j /\ ResumeClaim(c)
           \/ /\ \E c \in Clients : (SubmitAdmit(c) \/ SubmitFaults(c)) /\ client[c].job = NoJob
              /\ rows[j].state = "absent"
              /\ rows'[j].state = "pending" /\ rows'[j].attempt = 0 /\ ~rows'[j].cancel
<1>0. rows[j] \in Row
  BY DEF TypeOK, FieldTypes
<1>1. ASSUME NEW o, rows'[j] = Progress(rows[j], o)
      PROVE  /\ rows[j].state = rows'[j].state /\ rows[j].attempt = rows'[j].attempt
             /\ rows'[j].cancel = rows[j].cancel
  BY <1>0, <1>1 DEF Progress, Row
<1>2. ASSUME Live(rows[j]), rows'[j] = AcceptCancel(rows[j])
      PROVE  rows[j].state = rows'[j].state /\ rows[j].attempt = rows'[j].attempt
  <2>1. CASE rows[j].state = "pending"
    <3>1. rows'[j].state = "cancelled"
      BY <1>0, <1>2, <2>1 DEF AcceptCancel, Row
    <3> QED
      BY <3>1 DEF Judged, IncompleteStates
  <2>2. CASE rows[j].state # "pending"
    BY <1>0, <1>2, <2>2 DEF AcceptCancel, Row
  <2> QED
    BY <2>1, <2>2
<1>3. Fresh(nextSeq).state = "pending" /\ Fresh(nextSeq).attempt = 0 /\ ~Fresh(nextSeq).cancel
  BY DEF Fresh, NoRow
<1> QED
  BY <1>1, <1>2, <1>3, RowSteps DEF RowStep

-----------------------------------------------------------------------------
(* Rows that somebody still has to end.                                     *)

\* A latched fault adds the attempt its run owned and moves no other entry.
LEMMA LatchAdds ==
    ASSUME SafeInv, NEW w \in Workers, Latch(w)
    PROVE  /\ worker[w].job \in Jobs /\ latched'
           /\ \E i \in DOMAIN stranded' :
                 stranded'[i] = [job |-> worker[w].job, attempt |-> acquired[worker[w].job]]
           /\ \A i \in DOMAIN stranded : i \in DOMAIN stranded' /\ stranded'[i] = stranded[i]
<1> DEFINE j == worker[w].job  e == [job |-> j, attempt |-> acquired[j]]
<1>0. TypeOK
  BY DEF SafeInv, RefInv, OwnerInv
<1>1. worker[w].pc = "latching" /\ latched'
  BY DEF Latch
<1>2. j \in Jobs
  BY <1>0, <1>1 DEF TypeOK, FieldTypes, Placed, Place
<1>3. \A i \in DOMAIN stranded : stranded[i].job # j
  BY <1>1 DEF SafeInv, Settling, Executes
<1>4. stranded' = Append(stranded, e)
  BY <1>3 DEF Latch
<1>5. e \in [job : Jobs, attempt : Attempts]
  BY <1>0, <1>2 DEF TypeOK, FieldTypes
<1>6. /\ \A i \in DOMAIN stranded' :
            \/ i \in DOMAIN stranded /\ stranded'[i] = stranded[i]
            \/ i \notin DOMAIN stranded /\ i = Len(stranded) + 1 /\ stranded'[i] = e
      /\ \A i \in DOMAIN stranded : i \in DOMAIN stranded'
      /\ Len(stranded) + 1 \in DOMAIN stranded'
  BY <1>0, <1>4, <1>5, StrandedAppend
<1>7. Len(stranded) + 1 \notin DOMAIN stranded
  <2>1. Len(stranded) \in Nat /\ DOMAIN stranded = 1..Len(stranded)
    BY <1>0, LenProperties DEF TypeOK, FieldTypes
  <2> QED
    BY <2>1
<1> HIDE DEF e
<1>8. stranded'[Len(stranded) + 1] = e
  BY <1>6, <1>7
<1> QED
  BY <1>1, <1>2, <1>6, <1>8 DEF e

\* A missing verdict stays on the list while its row is as live as it was: the
\* heal of the latch takes an entry off by landing it.
LEMMA StrandedStays ==
    ASSUME SafeInv, [Next]_vars, ~CrashAndRestart, NEW j \in Jobs, StrandedAt(j),
           ~Judged(rows'[j]), rows'[j].attempt = rows[j].attempt
    PROVE  StrandedAt(j)'
<1>0. TypeOK /\ rows[j] \in Row
  BY DEF SafeInv, RefInv, OwnerInv, TypeOK, FieldTypes
<1> DEFINE a == rows[j].attempt  e == [job |-> j, attempt |-> a]
<1>1. PICK i \in DOMAIN stranded : stranded[i] = e
  BY DEF StrandedAt
<1>2. latched /\ e.job = j /\ e.attempt = a /\ rows'[j].attempt = a
  BY DEF StrandedAt
<1>3. ASSUME latched', NEW k \in DOMAIN stranded', stranded'[k] = e PROVE StrandedAt(j)'
  BY <1>2, <1>3 DEF StrandedAt
<1> HIDE DEF a, e
<1>4. CASE UNCHANGED <<latched, stranded>>
  BY <1>1, <1>2, <1>3, <1>4
<1>5. ASSUME NEW w \in Workers, Latch(w) PROVE StrandedAt(j)'
  BY <1>1, <1>3, <1>5, LatchAdds
<1>6. ASSUME NEW c \in Clients, GateReconcile(c) PROVE StrandedAt(j)'
  <2>1. /\ stranded # <<>> /\ stranded' = Tail(stranded)
        /\ latched' = (Tail(stranded) # <<>>)
    BY <1>6 DEF GateReconcile
  <2>2. /\ Head(stranded) = stranded[1]
        /\ \A k \in DOMAIN stranded : k # 1 => /\ k - 1 \in DOMAIN stranded'
                                               /\ stranded'[k - 1] = stranded[k]
    BY <1>0, <2>1, StrandedTail
  <2>3. i # 1
    <3> SUFFICES ASSUME i = 1 PROVE FALSE
      OBVIOUS
    <3>1. Head(stranded) = e
      BY <1>1, <2>2
    <3>2. SetRow(j, Verdict(rows[j], IncompleteStates, a, "error"))
      BY <1>2, <1>6, <3>1 DEF GateReconcile
    <3>3. rows'[j] = Verdict(rows[j], IncompleteStates, a, "error")
      BY <1>0, <3>2, RowStepOfWrite
    <3>4. CASE rows[j].state \in IncompleteStates
      <4>1. rows'[j].state = "error"
        BY <1>0, <3>3, <3>4 DEF Verdict, CanClaim, Row, a
      <4> QED
        BY <4>1 DEF Judged, IncompleteStates
    <3>5. CASE rows[j].state \notin IncompleteStates
      BY <3>3, <3>5 DEF Verdict, CanClaim, Judged
    <3> QED
      BY <3>4, <3>5
  <2>4. i - 1 \in DOMAIN stranded' /\ stranded'[i - 1] = e
    BY <1>1, <2>2, <2>3
  <2>5. stranded' # <<>>
    BY <2>4
  <2> QED
    BY <1>3, <2>1, <2>4, <2>5
<1>7. ASSUME NEW c \in Clients, Call(c) \/ AdmissionStep(c) \/ CancelStep(c)
      PROVE  StrandedAt(j)'
  BY <1>0, <1>4, <1>6, <1>7, LatchMoves
<1> QED
  BY <1>4, <1>5, <1>7, LatchAlone
     DEF Next, Start, StartFaults, Shutdown, PutSentinel, faultVars, vars

\* A pool that serves after a step served before it, or the step was its start.
LEMMA Served ==
    ASSUME TypeOK, [Next]_vars, started', ~started PROVE Start
  BY OthersStay, CallsTrip
     DEF Next, StartFaults, Shutdown, PutSentinel, CrashAndRestart, lifeVars, vars

\* Recovery leaves no row live.
LEMMA StartReaps ==
    ASSUME TypeOK, Start, NEW j \in Jobs PROVE Judged(rows'[j])
<1>1. rows[j] \in Row /\ rows'[j] = Reap(rows[j])
  BY DEF Start, ReapAll, TypeOK, FieldTypes
<1>2. Judged(Reap(rows[j]))
  <2>1. CASE Live(rows[j])
    <3>1. Reap(rows[j]).state = "error"
      BY <1>1, <2>1 DEF Reap, Row
    <3> QED
      BY <3>1 DEF Judged, IncompleteStates
  <2>2. CASE ~Live(rows[j])
    BY <2>2 DEF Reap, Live, Judged
  <2> QED
    BY <2>1, <2>2
<1> QED
  BY <1>1, <1>2

\* A verdict pinned to the attempt of a live row ends it.
LEMMA PinnedEnds ==
    ASSUME NEW r \in Row, Live(r), NEW s \in {"error", "cancelled"}
    PROVE  /\ Judged(Verdict(r, IncompleteStates, r.attempt, s))
           /\ Judged(Finalize(r, r.attempt))
<1>1. Verdict(r, IncompleteStates, r.attempt, s).state = s
  BY DEF Verdict, CanClaim, Live, Row
<1>2. Finalize(r, r.attempt).state \in {"cancelled", "done"}
  BY DEF Finalize, CanFinalize, Row
<1> QED
  BY <1>1, <1>2 DEF Judged, IncompleteStates

\* The thread that runs an attempt runs on, ends it, or latches it.
LEMMA RunStays ==
    ASSUME SafeInv, NEW w \in Workers, WorkerStep(w), NEW j \in Jobs,
           worker[w].job = j, worker[w].own = rows[j].attempt,
           worker[w].pc \in RunPcs \cup {"repairing", "latching"},
           Live(rows[j]), ~Judged(rows'[j]), rows'[j].attempt = rows[j].attempt
    PROVE  RunAt(j)' \/ StrandedAt(j)'
<1>0. TypeOK /\ rows[j] \in Row
  BY DEF SafeInv, RefInv, OwnerInv, TypeOK, FieldTypes
<1>1. acquired[j] = rows[j].attempt
  <2>1. rows[j].attempt # Unknown
    BY <1>0 DEF Row, Unknown
  <2> QED
    BY <2>1 DEF SafeInv, Recorded
<1>2. ASSUME NEW p \in RunPcs \cup {"repairing", "latching"}, WorkerTo(w, p) PROVE RunAt(j)'
  <2>1. /\ worker'[w].job = j /\ worker'[w].own = rows'[j].attempt /\ worker'[w].pc = p
    BY <1>0, <1>2, MoveOn DEF SameJobs
  <2> QED
    BY <2>1 DEF RunAt, Executes
<1>3. CASE \/ WriteProgress(w) \/ StartingFaults(w) \/ PipelineReturns(w)
           \/ PipelineFails(w) \/ PipelineStops(w) \/ VerdictFaults(w) \/ RepairFaults(w)
  BY <1>2, <1>3 DEF WriteProgress, StartingFaults, PipelineReturns, PipelineFails,
                    PipelineStops, VerdictFaults, RepairFaults, RunPcs
<1>4. CASE FinalizeDone(w) \/ ClaimError(w) \/ ClaimCancelled(w) \/ Repair(w)
  <2>1. \/ SetRow(j, Finalize(rows[j], rows[j].attempt))
        \/ \E s \in {"error", "cancelled"} :
              SetRow(j, Verdict(rows[j], IncompleteStates, rows[j].attempt, s))
    BY <1>1, <1>4 DEF FinalizeDone, ClaimError, ClaimCancelled, Repair, Land
  <2>2. Judged(rows'[j])
    BY <1>0, <2>1, RowStepOfWrite, PinnedEnds
  <2> QED
    BY <2>2
<1>5. CASE Latch(w)
  BY <1>1, <1>5, LatchAdds DEF StrandedAt
<1> QED
  BY <1>3, <1>4, <1>5
     DEF WorkerStep, GetSentinel, GetJob, RegisterToken, BeginRun, BeginRefused, BeginFaults,
         Cleanup, RunPcs

\* A running row keeps its thread, or its verdict is latched as missing.
LEMMA RunningMindedStep == ASSUME SafeInv, [Next]_vars PROVE RunningMinded'
<1> SUFFICES ASSUME started', NEW j \in Jobs, rows'[j].state = "running"
             PROVE  RunAt(j)' \/ StrandedAt(j)'
  BY DEF RunningMinded
<1>0. TypeOK /\ rows[j] \in Row /\ ~Judged(rows'[j])
  BY DEF SafeInv, RefInv, OwnerInv, TypeOK, FieldTypes, Judged, IncompleteStates
<1>1. ~Start /\ started /\ ~CrashAndRestart
  BY <1>0, Served, StartReaps DEF CrashAndRestart
<1>2. ASSUME NEW w \in Workers, worker[w].job = j, BeginRun(w) PROVE RunAt(j)'
  <2>1. /\ worker'[w].pc = "starting" /\ worker'[w].job = j
        /\ worker'[w].own = rows'[j].attempt
    BY <1>0, <1>2, Begins
  <2> QED
    BY <2>1 DEF RunAt, Executes, RunPcs
<1>3. CASE rows[j].state = "running" /\ rows[j].attempt = rows'[j].attempt
  <2>1. CASE StrandedAt(j)
    BY <1>0, <1>1, <1>3, <2>1, StrandedStays
  <2>2. CASE RunAt(j)
    <3>1. PICK w \in Workers : /\ worker[w].job = j /\ worker[w].own = rows[j].attempt
                               /\ worker[w].pc \in RunPcs \cup {"repairing", "latching"}
      BY <2>2 DEF RunAt, Executes
    <3>2. CASE /\ worker'[w].job = worker[w].job /\ worker'[w].own = worker[w].own
               /\ worker'[w].pc = worker[w].pc
      BY <1>3, <3>1, <3>2 DEF RunAt, Executes
    <3>3. CASE WorkerStep(w)
      BY <1>0, <1>3, <3>1, <3>3, RunStays DEF Live, IncompleteStates
    <3>4. ASSUME NEW v \in Workers, WorkerStep(v), v # w PROVE RunAt(j)' \/ StrandedAt(j)'
      BY <1>0, <3>2, <3>4, OthersStay
    <3>5. ASSUME NEW c \in Clients, Call(c) \/ AdmissionStep(c) \/ CancelStep(c)
          PROVE  RunAt(j)' \/ StrandedAt(j)'
      BY <1>0, <3>2, <3>5, CallsTrip
    <3> QED
      BY <1>1, <3>2, <3>3, <3>4, <3>5 DEF Next, StartFaults, Shutdown, PutSentinel, vars
  <2> QED
    BY <1>1, <1>3, <2>1, <2>2 DEF SafeInv, RunningMinded
<1>4. ASSUME NEW c \in Clients, client[c].job = j, ResumeClaim(c) PROVE FALSE
  <2>1. rows'[j] = Reopen(rows[j])
    BY <1>0, <1>4, RowStepOfWrite DEF ResumeClaim
  <2> QED
    BY <1>0, <2>1 DEF Reopen, Row
<1> QED
  BY <1>0, <1>2, <1>3, <1>4, LiveBefore

\* The attempt on record for an owned id changes only as its thread starts the
\* run or lets go of the id.
LEMMA RecordKept ==
    ASSUME SafeInv, [Next]_vars, ~CrashAndRestart, NEW j \in Jobs, j \in owned,
           \A w \in Workers : worker[w].job = j => ~BeginRun(w) /\ ~Cleanup(w)
    PROVE  acquired'[j] = acquired[j] /\ j \in owned'
<1>0. TypeOK /\ acquired \in [Jobs -> Attempts]
  BY DEF SafeInv, RefInv, OwnerInv, TypeOK, FieldTypes
<1>1. ASSUME NEW k, NEW g, NEW a, Enqueues(k, g, a)
      PROVE  acquired'[j] = acquired[j] /\ j \in owned'
  BY <1>0, <1>1 DEF Enqueues
<1>2. ASSUME NEW w \in Workers, WorkerStep(w)
      PROVE  acquired'[j] = acquired[j] /\ j \in owned'
  <2>1. CASE BeginRun(w)
    BY <1>0, <2>1, Begins
  <2>2. CASE Cleanup(w)
    BY <1>0, <2>2, Cleans
  <2>3. CASE GetSentinel(w) \/ GetJob(w) \/ RegisterToken(w)
    BY <2>3 DEF GetSentinel, GetJob, RegisterToken
  <2>4. CASE Quiet(w)
    BY <2>4 DEF Quiet, poolVars
  <2> QED
    BY <1>2, <2>1, <2>2, <2>3, <2>4, QuietSteps
<1>3. ASSUME NEW c \in Clients, Call(c) \/ AdmissionStep(c) \/ CancelStep(c)
      PROVE  acquired'[j] = acquired[j] /\ j \in owned'
  <2>1. CASE SubmitAdmit(c)
    BY <1>1, <2>1, SubmitQueues
  <2>2. CASE ResumeAdmit(c)
    BY <1>1, <2>2, ResumeQueues
  <2>3. CASE ~SubmitAdmit(c) /\ ~ResumeAdmit(c)
    BY <1>0, <1>3, <2>3, CallsStay DEF poolVars
  <2> QED
    BY <2>1, <2>2, <2>3
<1> QED
  BY <1>2, <1>3 DEF Next, Start, StartFaults, Shutdown, PutSentinel, poolVars, vars

\* A claim gives the row a new attempt, above any on record.
LEMMA ClaimIsNew ==
    ASSUME SafeInv, NEW c \in Clients, ResumeClaim(c), NEW j \in Jobs, client[c].job = j
    PROVE  /\ rows[j].state \notin IncompleteStates /\ rows'[j].state = "pending"
           /\ rows'[j].attempt = rows[j].attempt + 1
           /\ acquired[j] < rows'[j].attempt
<1>0. TypeOK /\ rows[j] \in Row /\ acquired[j] \in Attempts
  BY DEF SafeInv, RefInv, OwnerInv, TypeOK, FieldTypes
<1>1. rows[j].state \in ResumableClaimStates /\ rows'[j] = Reopen(rows[j])
  BY <1>0, RowStepOfWrite DEF ResumeClaim, CanClaim
<1>2. rows'[j].state = "pending" /\ rows'[j].attempt = rows[j].attempt + 1
  BY <1>0, <1>1 DEF Reopen, Row
<1>3. acquired[j] <= rows[j].attempt
  BY <1>1 DEF SafeInv, RefInv, RowInv, Kept, ResumableClaimStates
<1>4. rows[j].attempt \in Nat /\ acquired[j] \in Int
  BY <1>0 DEF Row, Attempts, Unknown
<1> QED
  BY <1>1, <1>2, <1>3, <1>4 DEF ResumableClaimStates, IncompleteStates

\* A thread that comes to clean up leaves its own attempt judged or latched.
LEMMA LeavesNone ==
    ASSUME SafeInv, \A j \in Jobs : rows[j].state = "pending" => ~rows[j].cancel,
           NEW w \in Workers, WorkerStep(w), worker[w].pc # "cleanup",
           worker'[w].pc = "cleanup", NEW j \in Jobs, worker'[w].job = j,
           rows'[j].state = "pending", rows'[j].attempt = acquired'[j]
    PROVE  StrandedAt(j)'
<1>0. TypeOK /\ rows[j] \in Row /\ ~Judged(rows'[j])
      /\ {"error", "cancelled"} \subseteq TerminalStates
  BY DEF SafeInv, RefInv, OwnerInv, TypeOK, FieldTypes, Judged, IncompleteStates,
         TerminalStates
<1>1. CASE \/ BeginFaults(w) \/ WriteProgress(w) \/ StartingFaults(w)
           \/ PipelineReturns(w) \/ PipelineFails(w) \/ PipelineStops(w)
           \/ VerdictFaults(w) \/ RepairFaults(w) \/ GetSentinel(w) \/ RegisterToken(w)
  <2>1. \E p \in {"repairing", "running", "finalizing", "failing", "stopping", "latching",
                  "off", "held"} : WorkerTo(w, p)
    BY <1>1 DEF BeginFaults, WriteProgress, StartingFaults, PipelineReturns, PipelineFails,
                PipelineStops, VerdictFaults, RepairFaults, GetSentinel, RegisterToken
  <2> QED
    BY <1>0, <2>1, MoveOn
<1>2. CASE GetJob(w) \/ BeginRun(w) \/ Cleanup(w)
  BY <1>0, <1>2, Fetches, Begins, Cleans DEF Idle, OffDuty
<1>3. CASE BeginRefused(w) \/ FinalizeDone(w) \/ ClaimError(w) \/ ClaimCancelled(w)
           \/ Repair(w) \/ Latch(w)
  <2>1. WorkerTo(w, "cleanup") /\ acquired' = acquired
    BY <1>3 DEF BeginRefused, FinalizeDone, ClaimError, ClaimCancelled, Repair, Latch, Land,
                poolVars
  <2>2. worker[w].job = j
    BY <1>0, <2>1, MoveOn DEF SameJobs
  <2>3. CASE BeginRefused(w)
    <3>1. rows' = rows /\ ~CanBegin(rows[j], acquired[j])
      BY <2>2, <2>3 DEF BeginRefused, storeVars
    <3> QED
      BY <2>1, <3>1 DEF CanBegin
  <2>4. CASE FinalizeDone(w) \/ ClaimError(w) \/ ClaimCancelled(w)
    <3>1. worker[w].pc \in RunPcs
      BY <2>4 DEF FinalizeDone, ClaimError, ClaimCancelled, RunPcs
    <3>2. worker[w].own # Unknown
      BY <3>1 DEF SafeInv, RefInv, PlaceInv
    <3>3. acquired[j] = worker[w].own
      BY <2>2, <3>2 DEF SafeInv, Recorded
    <3>4. \/ SetRow(j, Finalize(rows[j], worker[w].own))
          \/ \E s \in {"error", "cancelled"} :
                SetRow(j, Verdict(rows[j], IncompleteStates, worker[w].own, s))
      BY <2>2, <2>4 DEF FinalizeDone, ClaimError, ClaimCancelled, Land
    <3>5. rows'[j] = rows[j]
      BY <1>0, <3>4, RowStepOfWrite, LandsOrStays
    <3>6. rows[j].state = "pending" /\ rows[j].attempt = worker[w].own
      BY <2>1, <3>3, <3>5
    <3> QED
      BY <2>2, <3>6 DEF SafeInv, RefInv, AttemptInv, Kept
  <2>5. CASE Repair(w)
    <3>1. rows'[j] = Verdict(rows[j], IncompleteStates, acquired[j], "error")
      BY <1>0, <2>2, <2>5, RowStepOfWrite DEF Repair, Land
    <3>2. rows'[j] = rows[j]
      BY <1>0, <3>1, LandsOrStays
    <3>3. Live(rows[j]) /\ rows[j].attempt = acquired[j]
      BY <2>1, <3>2 DEF Live, IncompleteStates
    <3> QED
      BY <1>0, <3>1, <3>3, PinnedEnds
  <2>6. CASE Latch(w)
    BY <2>1, <2>2, <2>6, LatchAdds DEF StrandedAt
  <2> QED
    BY <1>3, <2>3, <2>4, <2>5, <2>6
<1> QED
  BY <1>1, <1>2, <1>3 DEF WorkerStep

\* What a thread leaves as it cleans up is not taken up again behind its back.
LEMMA LeftBehindStep ==
    ASSUME SafeInv, [Next]_vars,
           \A j \in Jobs : rows[j].state = "pending" => ~rows[j].cancel
    PROVE  LeftBehind'
<1>0. TypeOK /\ TypeOK'
  BY OwnerStep DEF SafeInv, RefInv, OwnerInv
<1> SUFFICES ASSUME NEW w \in Workers, worker'[w].pc = "cleanup", NEW j, worker'[w].job = j,
                    rows'[j].state = "pending", rows'[j].attempt = acquired'[j]
             PROVE  StrandedAt(j)'
  BY DEF LeftBehind, StrandedAt
<1>1. j \in Jobs
  BY <1>0 DEF TypeOK, FieldTypes, Placed, Place
<1>2. ~Judged(rows'[j]) /\ ~CrashAndRestart /\ ~Start
  BY DEF Judged, IncompleteStates, CrashAndRestart, OffDuty, Start, Idle
<1>3. ASSUME worker[w].pc = "cleanup", worker[w].job = j PROVE StrandedAt(j)'
  <2>1. j \in owned /\ rows[j].state # "absent"
    BY <1>1, <1>3, HeldByThread DEF SafeInv
  <2>2. \A v \in Workers : worker[v].job = j => v = w
    BY <1>1, <1>3, Apart
  <2>3. ~Cleanup(w) /\ ~BeginRun(w)
    BY <1>0, <1>3, Cleans DEF Idle, OffDuty, BeginRun
  <2>4. acquired'[j] = acquired[j]
    BY <1>1, <1>2, <2>1, <2>2, <2>3, RecordKept
  <2>5. ASSUME NEW c \in Clients, client[c].job = j, ResumeClaim(c) PROVE FALSE
    <3>1. acquired[j] < acquired[j]
      BY <1>1, <2>4, <2>5, ClaimIsNew
    <3>2. acquired[j] \in Int
      BY <1>0, <1>1 DEF TypeOK, FieldTypes, Attempts, Unknown
    <3> QED
      BY <3>1, <3>2
  <2>6. rows[j].state = "pending" /\ rows[j].attempt = rows'[j].attempt
    BY <1>0, <1>1, <1>2, <2>1, <2>2, <2>3, <2>5, LiveBefore
  <2>7. StrandedAt(j)
    BY <1>3, <2>4, <2>6 DEF SafeInv, LeftBehind
  <2> QED
    BY <1>1, <1>2, <2>6, <2>7, StrandedStays
<1>4. CASE WorkerStep(w)
  <2>1. CASE worker[w].pc # "cleanup"
    BY <1>1, <1>4, <2>1, LeavesNone
  <2>2. CASE worker[w].pc = "cleanup"
    <3>1. Cleanup(w)
      BY <1>4, <2>2
         DEF WorkerStep, GetSentinel, GetJob, RegisterToken, BeginRun, BeginRefused,
             BeginFaults, WriteProgress, StartingFaults, PipelineReturns, PipelineFails,
             PipelineStops, FinalizeDone, ClaimError, ClaimCancelled, VerdictFaults,
             Repair, RepairFaults, Latch
    <3> QED
      BY <1>0, <3>1, Cleans DEF Idle, OffDuty
  <2> QED
    BY <2>1, <2>2
<1>5. ASSUME NEW v \in Workers, WorkerStep(v), v # w PROVE StrandedAt(j)'
  BY <1>0, <1>3, <1>5, OthersStay
<1>6. ASSUME NEW c \in Clients, Call(c) \/ AdmissionStep(c) \/ CancelStep(c)
      PROVE  StrandedAt(j)'
  BY <1>0, <1>3, <1>6, CallsTrip
<1> QED
  BY <1>2, <1>3, <1>4, <1>5, <1>6 DEF Next, StartFaults, Shutdown, PutSentinel, vars

-----------------------------------------------------------------------------
(* The induction, and the books of the pool.                                *)

\* It holds before anything happens.
LEMMA SafeInit == Init => SafeInv
<1> SUFFICES ASSUME Init PROVE SafeInv
  OBVIOUS
<1>1. RefInv
  BY RefInit
<1>2. QueuedJobs = {}
  BY DEF Init, VolatileInit, QueuedJobs, Queued
<1>3. Booked
  BY <1>2, FS_EmptySet, ExecutorAssumption DEF Booked, Init, VolatileInit, ExecutorAssumption
<1>4. Tokened /\ Recorded
  BY ExecutorAssumption
     DEF Init, VolatileInit, Tokened, Recorded, Executes, OffDuty, ExecutorAssumption
<1>5. Claimed /\ Locked
  BY ExecutorAssumption
     DEF Init, VolatileInit, Claimed, Locked, AtRest, Bound, ExecutorAssumption
<1>6. LatchNamesStranded /\ Settling
  BY DEF Init, VolatileInit, LatchNamesStranded, Settling
<1>7. RunningMinded /\ LeftBehind
  BY DEF Init, VolatileInit, RunningMinded, LeftBehind, OffDuty
<1> QED
  BY <1>1, <1>3, <1>4, <1>5, <1>6, <1>7 DEF SafeInv

\* The lifecycle supplies that no queued row carries an accepted stop.
LEMMA SafeStep == SafeInv /\ NoDoneOverAcceptedStop /\ [Next]_vars => SafeInv'
<1> SUFFICES ASSUME SafeInv, NoDoneOverAcceptedStop, [Next]_vars PROVE SafeInv'
  OBVIOUS
<1>1. \A j \in Jobs : rows[j].state = "pending" => ~rows[j].cancel
  BY DEF NoDoneOverAcceptedStop, Lifecycle!NoDoneWithCancel
<1>2. RefInv'
  BY RefStep DEF SafeInv
<1> QED
  BY <1>1, <1>2, BookedStep, TokenedStep, RecordedStep, ClaimedStep, LatchStep, LockedStep,
     RunningMindedStep, LeftBehindStep DEF SafeInv

\* The strengthening holds in every reachable state.
LEMMA SafeInvariant == Spec => []SafeInv
  BY SafeInit, SafeStep, StopsAreHonoured, PTL DEF Spec

\* Whatever raises, dies or races: the places still free and the queue make up
\* max_pending, a token is registered exactly while its thread holds the id, and
\* admission is latched exactly while some verdict is missing.
THEOREM BooksBalance == Spec => []PoolAddsUp
<1>1. SafeInv => PoolAddsUp
  BY DEF SafeInv, Booked, Tokened, PoolAddsUp, SlotsAndTokensAddUp
<1> QED
  BY <1>1, SafeInvariant, PTL

-----------------------------------------------------------------------------
(* No live row is left with nobody to end it.                               *)

\* A call that is bound to the row's attempt stays bound to it, queues the run,
\* fails the row, or walks away after a store call of its own raised.
LEMMA ClaimGoesOn ==
    ASSUME SafeInv, NEW c \in Clients, Call(c) \/ AdmissionStep(c) \/ CancelStep(c),
           NEW j \in Jobs, client[c].job = j, client[c].gen = rows[j].attempt,
           client[c].pc \in Bound, Live(rows[j]),
           rows'[j].state = "pending", rows'[j].attempt = rows[j].attempt
    PROVE  QueuedAt(j)' \/ ClaimedAt(j)' \/ WalksAway(c, j)
<1>0. /\ TypeOK /\ j # NoJob /\ rows[j] \in Row /\ client[c] \in CallPlace
      /\ acquired \in [Jobs -> Attempts]
  BY ExecutorAssumption
     DEF SafeInv, RefInv, OwnerInv, TypeOK, FieldTypes, ExecutorAssumption
<1>1. client[c].claim = rows[j].attempt
  <2>1. Kept(rows[j])
    BY DEF Live, IncompleteStates, Kept
  <2>2. client[c].gen <= client[c].claim /\ client[c].claim <= rows[j].attempt
    BY <1>0, <2>1 DEF SafeInv, Claimed, RefInv, ClaimInv
  <2>3. client[c].claim \in Int /\ rows[j].attempt \in Int
    BY <1>0 DEF CallPlace, Attempts, Unknown, Row
  <2> QED
    BY <2>2, <2>3
<1>2. ASSUME NEW q \in Bound, client'[c] = [client[c] EXCEPT !.pc = q]
      PROVE  ClaimedAt(j)'
  <2>1. /\ client'[c].pc \in Bound /\ client'[c].job = j
        /\ client'[c].gen = rows'[j].attempt
    BY <1>0, <1>2, PlacePc
  <2> QED
    BY <2>1 DEF ClaimedAt, Bound
<1>3. ASSUME Refused(c), client[c].pc # "submitting" PROVE ClaimedAt(j)'
  <2>1. client'[c] = [client[c] EXCEPT !.pc = "refused"]
    BY <1>0, <1>3 DEF Refused, TypeOK, FieldTypes
  <2> QED
    BY <1>2, <2>1 DEF Bound
<1>4. CASE ResumeSave(c)
  <2> DEFINE a == ReadAttempt(c)
  <2>1. client' = [client EXCEPT ![c].pc = "saved", ![c].claim = a]
    BY <1>4 DEF ResumeSave
  <2> HIDE DEF a
  <2>2. client'[c] = [client[c] EXCEPT !.pc = "saved", !.claim = a]
    BY <1>0, <2>1 DEF TypeOK, FieldTypes
  <2>3. client'[c].pc = "saved" /\ client'[c].job = j /\ client'[c].gen = rows'[j].attempt
    BY <1>0, <2>2 DEF CallPlace
  <2> QED
    BY <2>3 DEF ClaimedAt
<1>5. CASE ResumeSaveFaults(c) \/ UnadmitFaults(c)
  <2>1. client'[c] = AtRest /\ client[c].pc \in {"claimed", "refused"}
    BY <1>0, <1>5, CallMoved DEF ResumeSaveFaults, UnadmitFaults
  <2> QED
    BY <2>1 DEF WalksAway
<1>6. CASE GateShut(c) \/ GateReconcileFaults(c) \/ AdmitRefused(c)
  <2>1. Refused(c)
    BY <1>6 DEF GateShut, GateReconcileFaults, AdmitRefused
  <2> QED
    BY <1>3, <2>1 DEF Bound
<1>7. CASE GateReconcile(c)
  <2>1. ClientTo(c, "admitting") \/ Refused(c)
    BY <1>7 DEF GateReconcile
  <2> QED
    BY <1>0, <1>2, <1>3, <2>1, CallMoved DEF Bound
<1>8. CASE ResumeAdmit(c)
  <2>1. ReadAttempt(c) = rows[j].attempt
    BY <1>1 DEF ReadAttempt
  <2>2. /\ owned' = owned \cup {j} /\ acquired' = [acquired EXCEPT ![j] = rows[j].attempt]
    BY <1>8, <2>1 DEF ResumeAdmit
  <2> QED
    BY <1>0, <2>2 DEF QueuedAt
<1>9. CASE Unadmit(c)
  <2>1. rows'[j] = Verdict(rows[j], {"pending"}, rows[j].attempt, "error")
    BY <1>0, <1>1, <1>9, RowStepOfWrite DEF Unadmit
  <2>2. CASE rows[j].state = "pending"
    BY <1>0, <2>1, <2>2 DEF Verdict, CanClaim, Row
  <2>3. CASE rows[j].state # "pending"
    BY <2>1, <2>3 DEF Verdict, CanClaim
  <2> QED
    BY <2>2, <2>3
<1> QED
  BY <1>0, <1>4, <1>5, <1>6, <1>7, <1>8, <1>9
     DEF Call, SubmitBegin, ResumeObserve, CancelObserve, AdmissionStep, ResumeClaim,
         ResumeConflict, SubmitAdmit, SubmitFaults, CancelStep, CancelAccept,
         CancelRefused, CancelFaults, Bound

\* A queued row that was minded and stays queued is minded.
LEMMA QueuedStaysMinded ==
    ASSUME SafeInv, [Next]_vars, ~CrashAndRestart, ~Start, NEW j \in Jobs, Minded(j),
           rows[j].state = "pending", rows'[j].state = "pending",
           rows'[j].attempt = rows[j].attempt
    PROVE  \/ QueuedAt(j)' \/ ClaimedAt(j)' \/ StrandedAt(j)'
           \/ \E c \in Clients : WalksAway(c, j)
<1>0. TypeOK /\ Live(rows[j]) /\ ~Judged(rows'[j])
  BY DEF SafeInv, RefInv, OwnerInv, Live, Judged, IncompleteStates
<1>1. CASE StrandedAt(j)
  BY <1>0, <1>1, StrandedStays
<1>2. CASE QueuedAt(j)
  <2>1. ASSUME NEW w \in Workers, worker[w].job = j, BeginRun(w) PROVE FALSE
    BY <1>0, <2>1, Begins
  <2>2. ASSUME NEW w \in Workers, worker[w].job = j, Cleanup(w) PROVE StrandedAt(j)'
    <3>1. StrandedAt(j)
      BY <1>0, <1>2, <2>2, Cleans DEF SafeInv, LeftBehind, QueuedAt
    <3> QED
      BY <1>0, <3>1, StrandedStays
  <2>3. CASE \A w \in Workers : worker[w].job = j => ~BeginRun(w) /\ ~Cleanup(w)
    BY <1>2, <2>3, RecordKept DEF QueuedAt
  <2> QED
    BY <2>1, <2>2, <2>3
<1>3. CASE ClaimedAt(j)
  <2>1. PICK c \in Clients : /\ client[c].job = j /\ client[c].gen = rows[j].attempt
                             /\ client[c].pc \in Bound
    BY <1>3 DEF ClaimedAt, Bound
  <2>2. ASSUME client'[c] = client[c] PROVE ClaimedAt(j)'
    BY <2>1, <2>2 DEF ClaimedAt, Bound
  <2>3. CASE Call(c) \/ AdmissionStep(c) \/ CancelStep(c)
    BY <1>0, <2>1, <2>3, ClaimGoesOn
  <2>4. ASSUME NEW b \in Clients, b # c, Call(b) \/ AdmissionStep(b) \/ CancelStep(b)
        PROVE  client'[c] = client[c]
    BY <1>0, <2>4, CallsAlone
  <2>5. ASSUME NEW w \in Workers, WorkerStep(w) PROVE client'[c] = client[c]
    BY <1>0, <2>5, OthersStay
  <2> QED
    BY <2>2, <2>3, <2>4, <2>5 DEF Next, StartFaults, Shutdown, PutSentinel, vars
<1> QED
  BY <1>1, <1>2, <1>3 DEF Minded

\* A row that a create inserts is queued with it, or its caller was told.
LEMMA CreatedIsMinded ==
    ASSUME SafeInv, NEW c \in Clients, SubmitAdmit(c) \/ SubmitFaults(c),
           NEW j \in Jobs, client[c].job = NoJob, rows[j].state = "absent",
           rows'[j].state = "pending", rows'[j].attempt = 0
    PROVE  QueuedAt(j)' \/ WalksAway(c, j)
<1>0. TypeOK /\ acquired \in [Jobs -> Attempts] /\ rows \in [Jobs -> Row]
  BY DEF SafeInv, RefInv, OwnerInv, TypeOK, FieldTypes
<1>1. CASE SubmitFaults(c)
  BY <1>0, <1>1, CallMoved DEF SubmitFaults, WalksAway
<1>2. CASE SubmitAdmit(c)
  <2>1. PICK k \in Jobs : rows' = Create(rows, k, nextSeq) /\ Enqueues(k, 0, 0)
    BY <1>2, SubmitQueues
  <2>2. \/ Create(rows, k, nextSeq)[j] = Insert(rows, k, nextSeq)[j]
        \/ Create(rows, k, nextSeq)[j].state = "evicted"
    BY DEF Create, Evict, NoRow
  <2>3. k = j
    BY <1>0, <2>1, <2>2 DEF Insert
  <2> QED
    BY <1>0, <2>1, <2>3 DEF Enqueues, QueuedAt
<1> QED
  BY <1>1, <1>2

\* Recovery, the workers, the queue, the latch and its reconciliation never leave
\* a live row that nobody will end, whichever store calls raise and wherever the
\* process died: only a caller that was told of the fault does.
THEOREM NoOrphans == Spec => NoSilentOrphan
<1>1. ASSUME SafeInv, NoDoneOverAcceptedStop, [Next]_vars, NEW j \in Jobs,
             started => Minded(j), started'
      PROVE  Minded(j)' \/ \E c \in Clients : WalksAway(c, j)
  <2>0. TypeOK
    BY <1>1 DEF SafeInv, RefInv, OwnerInv
  <2>1. CASE ~started
    <3>1. Judged(rows'[j])
      BY <1>1, <2>0, <2>1, Served, StartReaps
    <3> QED
      BY <3>1 DEF Minded, Judged, IncompleteStates
  <2>2. CASE rows'[j].state = "running"
    <3>1. RunAt(j)' \/ StrandedAt(j)'
      BY <1>1, <2>2, RunningMindedStep DEF RunningMinded
    <3> QED
      BY <2>2, <3>1 DEF Minded
  <2>3. CASE started /\ rows'[j].state = "pending"
    <3>1. ~Judged(rows'[j]) /\ ~CrashAndRestart /\ ~Start
      BY <1>1, <2>3 DEF Judged, IncompleteStates, CrashAndRestart, Start
    <3>2. ASSUME \/ QueuedAt(j)' \/ ClaimedAt(j)' \/ StrandedAt(j)'
          PROVE  Minded(j)'
      BY <2>3, <3>2 DEF Minded
    <3>3. CASE rows[j].state = "pending" /\ rows[j].attempt = rows'[j].attempt
      BY <1>1, <2>3, <3>1, <3>2, <3>3, QueuedStaysMinded
    <3>4. ASSUME NEW w \in Workers, worker[w].job = j, BeginRun(w) PROVE FALSE
      BY <2>0, <2>3, <3>4, Begins
    <3>5. ASSUME NEW c \in Clients, client[c].job = j, ResumeClaim(c) PROVE ClaimedAt(j)'
      <4> DEFINE a == rows'[j].attempt
      <4>1. client' = [client EXCEPT ![c].pc = "claimed", ![c].claim = a, ![c].gen = a]
        BY <3>5 DEF ResumeClaim
      <4> HIDE DEF a
      <4>2. client'[c].pc = "claimed" /\ client'[c].job = j /\ client'[c].gen = a
        BY <2>0, <3>5, <4>1 DEF TypeOK, FieldTypes, CallPlace
      <4> QED
        BY <4>2 DEF ClaimedAt, a
    <3>6. ASSUME NEW c \in Clients, SubmitAdmit(c) \/ SubmitFaults(c), client[c].job = NoJob,
                 rows[j].state = "absent", rows'[j].attempt = 0
          PROVE  QueuedAt(j)' \/ WalksAway(c, j)
      BY <1>1, <2>3, <3>6, CreatedIsMinded
    <3> QED
      BY <1>1, <2>0, <2>3, <3>1, <3>2, <3>3, <3>4, <3>5, <3>6, LiveBefore
  <2>4. CASE rows'[j].state \notin {"pending", "running"}
    BY <2>4 DEF Minded
  <2> QED
    BY <2>1, <2>2, <2>3, <2>4
<1>2. SafeInv /\ NoDoneOverAcceptedStop /\ [Next]_vars
        => [\A j \in Jobs :
              /\ started => Minded(j)
              /\ started' /\ ~Minded(j)'
              => \E c \in Clients : WalksAway(c, j)]_vars
  BY <1>1
<1> QED
  BY <1>2, SafeInvariant, StopsAreHonoured, PTL DEF Spec, NoSilentOrphan

-----------------------------------------------------------------------------
(* Whose claim a run starts on, when a claim returns a detached row.        *)

\* An entry, a thread before its start and a call all stand for the attempt that
\* their caller's claim gave.
EntryInv(e) == e.job \in Jobs => acquired[e.job] = e.gen

QueueGen == \A i \in DOMAIN queue : EntryInv(queue[i])

ThreadGen ==
    \A w \in Workers : worker[w].job \in Jobs =>
        IF worker[w].own = Unknown THEN acquired[worker[w].job] = worker[w].gen
                                   ELSE worker[w].own = worker[w].gen + 1

CallGen ==
    \A c \in Clients : client[c].pc \in Bound /\ client[c].job \in Jobs =>
        client[c].claim = client[c].gen

GenInv == QueueGen /\ ThreadGen /\ CallGen

\* The queue after a put or a get holds nothing but what was put.
LEMMA QueueFrom ==
    ASSUME TypeOK
    PROVE  /\ \A e \in Entry \cup {Sentinel} : queue' = Append(queue, e) =>
                 \A i \in DOMAIN queue' :
                    queue'[i] = e \/ \E k \in DOMAIN queue : queue'[i] = queue[k]
           /\ queue # <<>> => 1 \in DOMAIN queue /\ Head(queue) = queue[1]
           /\ queue # <<>> /\ queue' = Tail(queue) =>
                 \A i \in DOMAIN queue' : \E k \in DOMAIN queue : queue'[i] = queue[k]
<1> DEFINE S == Entry \cup {Sentinel}  n == Len(queue)
<1>0. queue \in Seq(S)
  BY DEF TypeOK, FieldTypes
<1> HIDE DEF S
<1>1. n \in Nat /\ DOMAIN queue = 1..n /\ (queue # <<>> => n # 0)
  BY <1>0, LenProperties, EmptySeq
<1>2. ASSUME NEW e \in S, queue' = Append(queue, e)
      PROVE  \A i \in DOMAIN queue' :
                queue'[i] = e \/ \E k \in DOMAIN queue : queue'[i] = queue[k]
  <2>1. /\ DOMAIN queue' = 1..(n + 1) /\ \A i \in 1..n : queue'[i] = queue[i]
        /\ queue'[n + 1] = e
    BY <1>0, <1>2, AppendProperties, LenProperties
  <2> HIDE DEF n
  <2> QED
    BY <1>1, <2>1
<1>3. ASSUME queue # <<>>, queue' = Tail(queue)
      PROVE  \A i \in DOMAIN queue' : \E k \in DOMAIN queue : queue'[i] = queue[k]
  <2>1. /\ Tail(queue) \in Seq(S) /\ Len(Tail(queue)) = n - 1
        /\ \A i \in 1..Len(Tail(queue)) : Tail(queue)[i] = queue[i + 1]
    BY <1>0, <1>3, HeadTailProperties
  <2>2. DOMAIN Tail(queue) = 1..(n - 1)
    BY <2>1, LenProperties
  <2> HIDE DEF n
  <2>3. DOMAIN queue' = 1..(n - 1) /\ \A i \in 1..(n - 1) : queue'[i] = queue[i + 1]
    BY <1>3, <2>1, <2>2
  <2> QED
    BY <1>1, <2>3
<1>4. queue # <<>> => 1 \in DOMAIN queue /\ Head(queue) = queue[1]
  BY <1>0, <1>1
<1> QED
  BY <1>2, <1>3, <1>4 DEF S

\* The record of an id that stands in the queue or waits with a thread is kept by
\* every step but that thread's start and cleanup.
LEMMA QueueGenStep ==
    ASSUME SafeInv, GenInv, ~LiveAlias, [Next]_vars PROVE QueueGen'
<1>0. /\ TypeOK /\ QueueGen /\ NoJob \notin Jobs
      /\ acquired \in [Jobs -> Attempts]
  BY ExecutorAssumption
     DEF SafeInv, RefInv, OwnerInv, GenInv, TypeOK, FieldTypes, ExecutorAssumption
<1>1. CASE CrashAndRestart
  BY <1>1 DEF CrashAndRestart, QueueGen
<1>2. ASSUME NEW k \in DOMAIN queue, ~CrashAndRestart
      PROVE  queue[k].job \in Jobs => acquired'[queue[k].job] = queue[k].gen
  <2> SUFFICES ASSUME NEW j \in Jobs, queue[k].job = j
               PROVE  acquired'[j] = queue[k].gen
    OBVIOUS
  <2>1. j \in owned /\ \A w \in Workers : worker[w].job # j
    BY <1>0 DEF SafeInv, RefInv, OwnerInv, OneOwnerPerJob, Queued
  <2>2. acquired'[j] = acquired[j]
    BY <1>2, <2>1, RecordKept
  <2> QED
    BY <1>0, <2>2 DEF QueueGen, EntryInv
<1>3. CASE UNCHANGED queue /\ ~CrashAndRestart
  BY <1>2, <1>3 DEF QueueGen, EntryInv
<1>4. CASE PutSentinel /\ ~CrashAndRestart
  <2>1. queue' = Append(queue, Sentinel)
    BY <1>4 DEF PutSentinel
  <2>2. EntryInv(Sentinel)'
    BY <1>0 DEF EntryInv, Sentinel
  <2>3. \A i \in DOMAIN queue' :
           queue'[i] = Sentinel \/ \E k \in DOMAIN queue : queue'[i] = queue[k]
    BY <1>0, <2>1, QueueFrom
  <2> QED
    BY <1>2, <1>4, <2>2, <2>3 DEF QueueGen, EntryInv
<1>5. ASSUME NEW k \in Jobs, NEW g \in Attempts, Enqueues(k, g, g), ~CrashAndRestart
      PROVE  QueueGen'
  <2> DEFINE e == [job |-> k, gen |-> g]
  <2>1. e \in Entry /\ e.job = k /\ e.gen = g /\ queue' = Append(queue, e)
    BY <1>5 DEF Enqueues, Entry
  <2>2. acquired'[k] = g
    BY <1>0, <1>5 DEF Enqueues
  <2> HIDE DEF e
  <2>3. \A i \in DOMAIN queue' :
           queue'[i] = e \/ \E m \in DOMAIN queue : queue'[i] = queue[m]
    BY <1>0, <2>1, QueueFrom
  <2> QED
    BY <1>2, <1>5, <2>1, <2>2, <2>3 DEF QueueGen, EntryInv
<1>6. ASSUME NEW w \in Workers, WorkerStep(w), ~CrashAndRestart PROVE QueueGen'
  <2>1. CASE queue # <<>> /\ queue' = Tail(queue)
    BY <1>0, <1>2, <1>6, <2>1, QueueFrom DEF QueueGen, EntryInv
  <2>2. CASE Quiet(w) \/ RegisterToken(w) \/ BeginRun(w) \/ Cleanup(w)
    BY <1>0, <1>3, <1>6, <2>2, Registers, Begins, Cleans DEF Quiet, poolVars
  <2>3. CASE GetSentinel(w) \/ GetJob(w)
    BY <2>1, <2>3 DEF GetSentinel, GetJob
  <2> QED
    BY <1>6, <2>2, <2>3, QuietSteps
<1>7. ASSUME NEW c \in Clients, Call(c) \/ AdmissionStep(c) \/ CancelStep(c),
             ~CrashAndRestart
      PROVE  QueueGen'
  <2>1. CASE SubmitAdmit(c)
    BY <1>5, <1>7, <2>1, SubmitQueues
  <2>2. CASE ResumeAdmit(c)
    <3>1. client[c].claim = client[c].gen
      BY <2>2, ResumeQueues DEF GenInv, CallGen
    <3>2. ReadAttempt(c) = client[c].gen
      BY <3>1 DEF ReadAttempt
    <3> QED
      BY <1>5, <1>7, <2>2, <3>2, ResumeQueues DEF Attempts
  <2>3. CASE ~SubmitAdmit(c) /\ ~ResumeAdmit(c)
    BY <1>0, <1>3, <1>7, <2>3, CallsStay DEF poolVars
  <2> QED
    BY <2>1, <2>2, <2>3
<1> QED
  BY <1>1, <1>3, <1>4, <1>6, <1>7
     DEF Next, Start, StartFaults, Shutdown, poolVars, vars

\* A thread takes the generation with the entry and owns the next attempt.
LEMMA ThreadGenStep ==
    ASSUME SafeInv, GenInv, [Next]_vars PROVE ThreadGen'
<1>0. TypeOK /\ ThreadGen /\ QueueGen /\ NoJob \notin Jobs
  BY ExecutorAssumption DEF SafeInv, RefInv, OwnerInv, GenInv, ExecutorAssumption
<1> SUFFICES ASSUME NEW w \in Workers, NEW j \in Jobs, worker'[w].job = j
             PROVE  IF worker'[w].own = Unknown THEN acquired'[j] = worker'[w].gen
                                                ELSE worker'[w].own = worker'[w].gen + 1
  BY DEF ThreadGen
<1>1. ~CrashAndRestart /\ ~Start
  BY <1>0 DEF CrashAndRestart, OffDuty, Start, Idle
<1> DEFINE Good == IF worker'[w].own = Unknown THEN acquired'[j] = worker'[w].gen
                                               ELSE worker'[w].own = worker'[w].gen + 1
<1>2. ASSUME worker[w].job = j, worker'[w].own = worker[w].own,
             worker'[w].gen = worker[w].gen, ~BeginRun(w), ~Cleanup(w)
      PROVE  Good
  <2>1. j \in owned
    BY <1>2, HeldByThread DEF SafeInv
  <2>2. \A v \in Workers : worker[v].job = j => v = w
    BY <1>2, Apart
  <2>3. acquired'[j] = acquired[j]
    BY <1>1, <1>2, <2>1, <2>2, RecordKept
  <2> QED
    BY <1>0, <1>2, <2>3 DEF ThreadGen
<1>3. ASSUME worker'[w] = worker[w] PROVE Good
  <2>1. ~Cleanup(w)
    BY <1>0, <1>3, Cleans DEF Idle, OffDuty
  <2>2. ~BeginRun(w)
    <3> SUFFICES ASSUME BeginRun(w) PROVE FALSE
      OBVIOUS
    <3>1. worker[w].pc = "held" /\ worker'[w].pc = "starting"
      BY <1>0, Begins
    <3> QED
      BY <1>3, <3>1
  <2> QED
    BY <1>2, <1>3, <2>1, <2>2
<1>4. CASE WorkerStep(w)
  <2>1. CASE GetSentinel(w)
    <3>1. WorkerTo(w, "off") /\ worker[w].job = NoJob
      BY <1>0, <2>1 DEF GetSentinel, TypeOK, Placed
    <3> QED
      BY <1>0, <3>1, MoveOn DEF SameJobs
  <2>2. CASE GetJob(w)
    <3>1. /\ queue # <<>> /\ worker'[w].job = Head(queue).job /\ worker'[w].own = Unknown
          /\ worker'[w].gen = Head(queue).gen /\ acquired' = acquired
      BY <1>0, <2>2, Fetches
    <3>2. EntryInv(Head(queue))
      BY <1>0, <3>1, QueueFrom DEF QueueGen
    <3> QED
      BY <3>1, <3>2 DEF EntryInv
  <2>3. CASE BeginRun(w)
    <3>1. /\ worker[w].job = j /\ worker[w].pc = "held" /\ worker'[w].gen = worker[w].gen
          /\ worker'[w].own = acquired[j] + 1
      BY <1>0, <2>3, Begins
    <3>2. worker[w].own = Unknown
      BY <3>1 DEF SafeInv, RefInv, PlaceInv
    <3>3. acquired[j] = worker[w].gen
      BY <1>0, <3>1, <3>2 DEF ThreadGen
    <3>4. worker'[w].own # Unknown
      <4>1. acquired[j] \in Attempts
        BY <1>0 DEF TypeOK, FieldTypes
      <4>2. CanBegin(rows[j], acquired[j]) /\ rows[j] \in Row
        BY <1>0, <2>3, <3>1, Begins DEF TypeOK, FieldTypes
      <4> QED
        BY <3>1, <4>1, <4>2 DEF CanBegin, Row, Attempts, Unknown
    <3> QED
      BY <3>1, <3>3, <3>4
  <2>4. CASE Cleanup(w)
    BY <1>0, <2>4, Cleans DEF Idle, OffDuty
  <2>5. CASE (RegisterToken(w) \/ Quiet(w)) /\ ~BeginRun(w) /\ ~Cleanup(w)
    <3>1. \E p : WorkerTo(w, p)
      BY <2>5 DEF RegisterToken, Quiet
    <3> QED
      BY <1>0, <1>2, <2>5, <3>1, MoveOn DEF SameJobs
  <2> QED
    BY <1>4, <2>1, <2>2, <2>3, <2>4, <2>5, QuietSteps
<1>5. ASSUME NEW v \in Workers, WorkerStep(v), v # w PROVE Good
  BY <1>0, <1>3, <1>5, OthersStay
<1>6. ASSUME NEW c \in Clients, Call(c) \/ AdmissionStep(c) \/ CancelStep(c) PROVE Good
  <2>1. /\ worker'[w].job = worker[w].job /\ worker'[w].pc = worker[w].pc
        /\ worker'[w].own = worker[w].own /\ worker'[w].gen = worker[w].gen
    BY <1>0, <1>6, CallsTrip
  <2>2. ~Cleanup(w)
    BY <1>0, <2>1, Cleans DEF Idle, OffDuty
  <2>3. ~BeginRun(w)
    <3> SUFFICES ASSUME BeginRun(w) PROVE FALSE
      OBVIOUS
    <3>1. worker[w].pc = "held" /\ worker'[w].pc = "starting"
      BY <1>0, Begins
    <3> QED
      BY <2>1, <3>1
  <2> QED
    BY <1>2, <2>1, <2>2, <2>3
<1> QED
  BY <1>1, <1>3, <1>4, <1>5, <1>6 DEF Next, StartFaults, Shutdown, PutSentinel, vars

\* A call reads back the attempt its own claim wrote.
LEMMA CallGenStep ==
    ASSUME SafeInv, GenInv, ~LiveAlias, [Next]_vars PROVE CallGen'
<1>0. TypeOK /\ CallGen /\ Locked
  BY DEF SafeInv, RefInv, OwnerInv, GenInv
<1>r. AtRest.pc \notin Bound
  BY DEF AtRest, Bound
<1>1. CASE UNCHANGED client
  BY <1>0, <1>1 DEF CallGen
<1>2. CASE CrashAndRestart
  BY <1>2, <1>r DEF CrashAndRestart, CallGen
<1>3. ASSUME NEW c \in Clients, Call(c) \/ AdmissionStep(c) \/ CancelStep(c)
      PROVE  CallGen'
  <2>1. \A b \in Clients \ {c} : client'[b] = client[b]
    BY <1>0, <1>3, CallsAlone
  <2>2. SUFFICES ASSUME client'[c].pc \in Bound, client'[c].job \in Jobs
                 PROVE  client'[c].claim = client'[c].gen
    BY <1>0, <2>1 DEF CallGen
  <2>3. CallEffect(c) /\ client[c] \in CallPlace
    BY <1>0, <1>3, CallEffects DEF TypeOK, FieldTypes
  <2>4. CASE client'[c].gen = client'[c].claim
    BY <2>4
  <2>5. CASE /\ client[c].pc = "claimed" /\ client'[c].pc = "saved"
             /\ client'[c].job = client[c].job /\ client'[c].gen = client[c].gen
             /\ client'[c].claim = ReadAttempt(c)
    BY <1>0, <2>2, <2>5 DEF CallGen, Bound, ReadAttempt
  <2>6. CASE /\ client[c].pc \in {"submitting", "saved", "admitting"}
             /\ \E q \in {"admitting", "refused"} :
                   client'[c] = [client[c] EXCEPT !.pc = q]
    <3>1. /\ client'[c].job = client[c].job /\ client'[c].gen = client[c].gen
          /\ client'[c].claim = client[c].claim
      BY <2>3, <2>6, PlacePc
    <3>2. client[c].pc # "submitting"
      BY <1>0, <2>2, <3>1, ExecutorAssumption DEF TypeOK, Placed, ExecutorAssumption
    <3> QED
      BY <1>0, <2>2, <2>6, <3>1, <3>2 DEF CallGen, Bound
  <2> QED
    BY <1>r, <2>2, <2>3, <2>4, <2>5, <2>6 DEF CallEffect
<1>4. ASSUME NEW w \in Workers, WorkerStep(w) PROVE UNCHANGED client
  BY <1>0, <1>4, OthersStay
<1> QED
  BY <1>1, <1>2, <1>3, <1>4 DEF Next, Start, StartFaults, Shutdown, PutSentinel, vars

\* No entry, thread or claim exists at first.
LEMMA GenInit == Init => GenInv
<1>1. Init => QueueGen
  BY DEF Init, VolatileInit, QueueGen
<1>2. Init => ThreadGen /\ CallGen
  BY ExecutorAssumption
     DEF Init, VolatileInit, ThreadGen, CallGen, OffDuty, AtRest, Bound, ExecutorAssumption
<1> QED
  BY <1>1, <1>2 DEF GenInv

\* Entries, threads and calls agree on generations while rows are detached.
LEMMA GenInvariant == ASSUME ~LiveAlias PROVE Spec => []GenInv
<1>1. SafeInv /\ GenInv /\ [Next]_vars => GenInv'
  BY QueueGenStep, ThreadGenStep, CallGenStep DEF GenInv
<1> QED
  BY <1>1, GenInit, SafeInvariant, PTL DEF Spec

\* Over a store whose claim returns a detached row (SqliteJobStore), the run a
\* queue entry starts is the generation its own caller claimed.  The hypothesis
\* is needed: with the live rows of MemoryJobStore a run starts under a newer one.
THEOREM RunsStartOwnClaim == ASSUME ~LiveAlias PROVE Spec => []QueuedRunStartsOwnClaim
<1>1. SafeInv /\ GenInv => QueuedRunStartsOwnClaim
  BY OwnerWorks DEF GenInv, ThreadGen, QueuedRunStartsOwnClaim
<1> QED
  BY <1>1, SafeInvariant, GenInvariant, PTL

\* Over such a store, a refused resume fails the row its own claim reopened, and
\* never one that somebody else has claimed since.
THEOREM RefusalsSpare == ASSUME ~LiveAlias PROVE Spec => RefusalSparesNewerClaim
<1>1. ASSUME SafeInv, GenInv, [Next]_vars, NEW c \in Clients,
             client[c].pc = "refused", client'[c].pc = "idle"
      PROVE  LET j == client[c].job IN
             rows'[j] = rows[j] \/ rows[j].attempt = client[c].gen
  <2> DEFINE j == client[c].job
  <2>0. TypeOK /\ j \in Jobs /\ client'[c] # client[c]
    BY <1>1 DEF SafeInv, RefInv, OwnerInv, TypeOK, Placed
  <2>1. client[c].claim = client[c].gen
    BY <1>1, <2>0 DEF GenInv, CallGen, Bound
  <2>2. lock # c
    BY <1>1 DEF SafeInv, Locked
  <2>3. CASE Call(c) \/ AdmissionStep(c) \/ CancelStep(c)
    <3>1. Unadmit(c) \/ UnadmitFaults(c)
      BY <1>1, <2>2, <2>3
         DEF Call, SubmitBegin, ResumeObserve, CancelObserve, AdmissionStep, ResumeClaim,
             ResumeConflict, ResumeSave, ResumeSaveFaults, GateShut, GateReconcile,
             GateReconcileFaults, SubmitAdmit, SubmitFaults, ResumeAdmit, AdmitRefused,
             CancelStep, CancelAccept, CancelRefused, CancelFaults, AtGate, Admitting
    <3>2. CASE Unadmit(c)
      <4>1. rows'[j] = Verdict(rows[j], {"pending"}, client[c].claim, "error")
        BY <2>0, <3>2, RowStepOfWrite DEF Unadmit
      <4> QED
        BY <2>1, <4>1 DEF Verdict, CanClaim
    <3>3. CASE UnadmitFaults(c)
      BY <3>3 DEF UnadmitFaults, storeVars
    <3> QED
      BY <3>1, <3>2, <3>3
  <2>4. ASSUME NEW b \in Clients, b # c, Call(b) \/ AdmissionStep(b) \/ CancelStep(b)
        PROVE  FALSE
    BY <2>0, <2>4, CallsAlone
  <2>5. ASSUME NEW w \in Workers, WorkerStep(w) PROVE FALSE
    BY <2>0, <2>5, OthersStay
  <2>6. CASE CrashAndRestart
    BY <2>6 DEF CrashAndRestart, storeVars
  <2> QED
    BY <1>1, <2>0, <2>3, <2>4, <2>5, <2>6
       DEF Next, Start, StartFaults, Shutdown, PutSentinel, vars
<1>2. SafeInv /\ GenInv /\ [Next]_vars
        => [\A c \in Clients : LET j == client[c].job IN
              client[c].pc = "refused" /\ client'[c].pc = "idle"
                  => (rows'[j] = rows[j] \/ rows[j].attempt = client[c].gen)]_vars
  BY <1>1
<1> QED
  BY <1>2, SafeInvariant, GenInvariant, PTL DEF Spec, RefusalSparesNewerClaim

-----------------------------------------------------------------------------
(* A stop reaches the run it was accepted for.                              *)

\* A thread that still runs an attempt with an accepted stop has its token tripped.
TripInv ==
    \A w \in Workers :
        LET r == rows[worker[w].job] IN
        /\ worker[w].job \in Jobs /\ worker[w].own # Unknown
        /\ r.state = "running" /\ r.cancel /\ r.attempt = worker[w].own
        => worker[w].tripped

\* A thread that owns an attempt it does not begin now owned it before.
LEMMA OwnsBefore ==
    ASSUME SafeInv, [Next]_vars, NEW w \in Workers, worker'[w].own # Unknown, ~BeginRun(w)
    PROVE  /\ worker'[w].job = worker[w].job /\ worker'[w].own = worker[w].own
           /\ worker[w].tripped => worker'[w].tripped
<1>0. TypeOK
  BY DEF SafeInv, RefInv, OwnerInv
<1>1. ~CrashAndRestart /\ ~Start
  BY DEF CrashAndRestart, OffDuty, Start, Idle
<1>2. CASE WorkerStep(w)
  <2>1. ~GetJob(w) /\ ~Cleanup(w)
    BY <1>0, Fetches, Cleans DEF Idle, OffDuty
  <2>2. \E p : WorkerTo(w, p)
    BY <1>2, <2>1, QuietSteps DEF Quiet, GetSentinel, RegisterToken
  <2> QED
    BY <1>0, <2>2, MoveOn DEF SameJobs
<1>3. ASSUME NEW v \in Workers, WorkerStep(v), v # w PROVE worker'[w] = worker[w]
  BY <1>0, <1>3, OthersStay
<1> QED
  BY <1>0, <1>1, <1>2, <1>3, CallsTrip DEF Next, StartFaults, Shutdown, PutSentinel, vars

\* A run whose row accepts a stop has its token tripped in the same step.
LEMMA TripStep ==
    ASSUME SafeInv, TripInv, "accept" \notin FaultyOps, [Next]_vars PROVE TripInv'
<1>0. TypeOK /\ TypeOK'
  BY OwnerStep DEF SafeInv, RefInv, OwnerInv
<1> SUFFICES ASSUME NEW w \in Workers, NEW j \in Jobs, worker'[w].job = j,
                    worker'[w].own # Unknown, rows'[j].state = "running",
                    rows'[j].cancel, rows'[j].attempt = worker'[w].own
             PROVE  worker'[w].tripped
  BY DEF TripInv
<1>1. ~Judged(rows'[j])
  BY DEF Judged, IncompleteStates
<1>2. ASSUME NEW v \in Workers, worker[v].job = j, BeginRun(v) PROVE FALSE
  BY <1>0, <1>2, Begins
<1>3. ~BeginRun(w)
  BY <1>0, <1>2, Begins
<1>4. /\ worker[w].job = j /\ worker'[w].own = worker[w].own
      /\ worker[w].tripped => worker'[w].tripped
  BY <1>3, OwnsBefore
<1>5. CASE /\ rows[j].state = "running" /\ rows[j].attempt = rows'[j].attempt
           /\ rows[j].cancel = rows'[j].cancel
  BY <1>4, <1>5 DEF TripInv
<1>6. ASSUME NEW c \in Clients, client[c].job = j, CancelAccept(c) PROVE worker'[w].tripped
  <2>1. worker[w].pc \in HoldPcs
    <3>1. worker[w].pc \in WorkerPcs
      BY <1>0 DEF TypeOK, FieldTypes, Place
    <3>2. worker[w].pc \notin {"off", "idle", "dequeued"}
      BY <1>4 DEF SafeInv, RefInv, PlaceInv
    <3> QED
      BY <3>1, <3>2 DEF WorkerPcs
  <2>2. tokens[j] = w
    BY <1>4, <2>1 DEF SafeInv, Tokened, Executes
  <2>3. worker' = [worker EXCEPT ![w].tripped = TRUE]
    BY <1>6, <2>2 DEF CancelAccept, Trip
  <2> QED
    BY <1>0, <2>3 DEF TypeOK, FieldTypes, Place
<1>7. ASSUME NEW c \in Clients, CancelFaults(c) PROVE FALSE
  BY <1>7 DEF CancelFaults, Raises
<1>8. ASSUME NEW c \in Clients, client[c].job = j, ResumeClaim(c) PROVE FALSE
  BY <1>8, ClaimIsNew
<1> QED
  BY <1>0, <1>1, <1>2, <1>5, <1>6, <1>7, <1>8, LiveBefore

\* So a run with an accepted stop on its row is a tripped one.
LEMMA TripInvariant == ASSUME "accept" \notin FaultyOps PROVE Spec => []TripInv
<1>1. Init => TripInv
  BY DEF Init, VolatileInit, TripInv, OffDuty
<1>2. SafeInv /\ TripInv /\ [Next]_vars => TripInv'
  BY TripStep
<1> QED
  BY <1>1, <1>2, SafeInvariant, PTL DEF Spec

\* A cancel that was answered as accepted stops the run it was meant for, and
\* stops no other.  The hypothesis is needed: an acceptance that raises after its
\* commit is on record with no token tripped.
THEOREM StopsReachTheirRun ==
    ASSUME "accept" \notin FaultyOps PROVE Spec => []StopsAreExact
<1>1. SafeInv /\ TripInv => CancelReachesRun
  <2> SUFFICES ASSUME SafeInv, TripInv, NEW j \in Jobs, started,
                      rows[j].state = "running", rows[j].cancel, ~StrandedAt(j)
               PROVE  \E w \in Workers : /\ Executes(w, j) /\ worker[w].tripped
                                         /\ worker[w].own = rows[j].attempt
    BY DEF CancelReachesRun
  <2>1. PICK w \in Workers : Executes(w, j) /\ worker[w].own = rows[j].attempt
    BY DEF SafeInv, RunningMinded, RunAt
  <2>2. rows[j].attempt # Unknown
    <3>1. rows[j] \in Row
      BY DEF SafeInv, RefInv, OwnerInv, TypeOK, FieldTypes
    <3> QED
      BY <3>1 DEF Row, Unknown
  <2>3. worker[w].tripped
    BY <2>1, <2>2 DEF TripInv, Executes
  <2> QED
    BY <2>1, <2>3
<1> QED
  BY <1>1, SafeInvariant, TripInvariant, TokensAreNotStray, PTL DEF StopsAreExact
=============================================================================
