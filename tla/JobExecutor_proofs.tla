------------------------- MODULE JobExecutor_proofs -------------------------
(***************************************************************************)
(* One owner per generation of a row, and JobExecutor as an implementation *)
(* of JobLifecycle, whatever faults, crashes, aliasing or interleaving: no *)
(* run acts on a generation it does not own.                               *)
(*                                                                         *)
(* The second inductive invariant says of each thread what its recorded    *)
(* attempt and its token still mean for the row: the attempt it owns is    *)
(* never ahead of the row's, never that of a queued row, and a tripped     *)
(* token means a cancellation accepted on that attempt.                    *)
(***************************************************************************)
EXTENDS JobExecutor, TLAPS, FiniteSetTheorems, SequenceTheorems

-----------------------------------------------------------------------------
(* Type correctness.  What the row operations return is a row again.        *)

\* A reopened row is a row, one attempt further.
LEMMA ReopenType == ASSUME NEW r \in Row PROVE Reopen(r) \in Row
<1>1. r.attempt + 1 \in Nat
  BY DEF Row
<1> QED
  BY <1>1 DEF Reopen, Row, RowStates, IncompleteStates, Labels

\* A started row is a row, one attempt further.
LEMMA BeginType == ASSUME NEW r \in Row PROVE Begin(r) \in Row
<1>1. r.attempt + 1 \in Nat
  BY DEF Row
<1> QED
  BY <1>1 DEF Begin, Row, RowStates, IncompleteStates

\* A guarded verdict leaves a row, landed or refused.
LEMMA VerdictType ==
    ASSUME NEW r \in Row, NEW allowed, NEW o, NEW s \in TerminalStates
    PROVE  Verdict(r, allowed, o, s) \in Row
  BY DEF Verdict, Row, RowStates, Labels

\* So does a guarded progress write,
LEMMA ProgressType == ASSUME NEW r \in Row, NEW o PROVE Progress(r, o) \in Row
  BY DEF Progress, Row, Labels

\* an accepted cancellation,
LEMMA AcceptType == ASSUME NEW r \in Row PROVE AcceptCancel(r) \in Row
  BY DEF AcceptCancel, Row, RowStates, TerminalStates, Labels

\* the finalize that chooses DONE or CANCELLED,
LEMMA FinalizeType == ASSUME NEW r \in Row, NEW o PROVE Finalize(r, o) \in Row
  BY DEF Finalize, Row, RowStates, TerminalStates, Labels

\* the reap of startup recovery,
LEMMA ReapType == ASSUME NEW r \in Row PROVE Reap(r) \in Row
  BY DEF Reap, Row, RowStates, TerminalStates, Labels

\* and the insert of a new row.
LEMMA FreshType == ASSUME NEW n \in Nat PROVE Fresh(n) \in Row
  BY DEF Fresh, NoRow, Row, RowStates, IncompleteStates, Labels

\* Writing a row into the table keeps it a table of rows.
LEMMA RowMoves ==
    ASSUME FieldTypes, NEW j, NEW r, j \in Jobs => r \in Row
    PROVE  [rows EXCEPT ![j] = r] \in [Jobs -> Row]
  BY DEF FieldTypes

\* The resting values of a row, a thread and a call are well formed.
LEMMA RestTypes ==
    /\ NoRow \in Row /\ [NoRow EXCEPT !.state = "evicted"] \in Row
    /\ OffDuty \in Place /\ Idle \in Place /\ AtRest \in CallPlace
<1>1. NoRow \in Row /\ [NoRow EXCEPT !.state = "evicted"] \in Row
  BY DEF NoRow, Row, RowStates, TerminalStates, IncompleteStates, Labels
<1>2. OffDuty \in Place /\ Idle \in Place
  BY DEF OffDuty, Idle, Place, WorkerPcs, HoldPcs, RunPcs, Attempts, Unknown
<1>3. AtRest \in CallPlace
  BY DEF AtRest, CallPlace, ClientPcs, Attempts, Unknown
<1> QED
  BY <1>1, <1>2, <1>3

\* A thread moves on, a client moves on: their records stay well formed.
LEMMA ThreadMoves ==
    ASSUME FieldTypes, NEW w \in Workers, NEW p \in WorkerPcs
    PROVE  [worker EXCEPT ![w].pc = p] \in [Workers -> Place]
  BY DEF FieldTypes, Place

\* The same of a call that goes on,
LEMMA CallMoves ==
    ASSUME FieldTypes, NEW c \in Clients, NEW q \in ClientPcs
    PROVE  [client EXCEPT ![c].pc = q] \in [Clients -> CallPlace]
  BY DEF FieldTypes, CallPlace

\* and of one that returns or is refused.
LEMMA CallEnds ==
    ASSUME FieldTypes, NEW c \in Clients
    PROVE  /\ ClientDone(c) => client' \in [Clients -> CallPlace]
           /\ Refused(c) => client' \in [Clients -> CallPlace]
<1>1. [client EXCEPT ![c] = AtRest] \in [Clients -> CallPlace]
  BY RestTypes DEF FieldTypes
<1>2. [client EXCEPT ![c].pc = "refused"] \in [Clients -> CallPlace]
  BY CallMoves DEF ClientPcs
<1>3. Refused(c) => \/ client' = [client EXCEPT ![c] = AtRest]
                    \/ client' = [client EXCEPT ![c].pc = "refused"]
  BY DEF Refused
<1> QED
  BY <1>1, <1>2, <1>3 DEF ClientDone

\* The fields have their types at the start.
LEMMA FieldsInit == Init => FieldTypes
<1> SUFFICES ASSUME Init PROVE FieldTypes
  OBVIOUS
<1> USE ExecutorAssumption DEF ExecutorAssumption, Init, VolatileInit, Attempts, Unknown
<1>1. /\ rows \in [Jobs -> Row] /\ worker \in [Workers -> Place]
      /\ client \in [Clients -> CallPlace]
  BY RestTypes
<1>2. queue \in Seq(Entry \cup {Sentinel}) /\ stranded \in Seq([job : Jobs, attempt : Attempts])
  OBVIOUS
<1>3. acquired \in [Jobs -> Attempts] /\ tokens \in [Jobs -> Workers \cup {NoWorker}]
  OBVIOUS
<1> QED
  BY <1>1, <1>2, <1>3 DEF FieldTypes

\* Start, shutdown, the sentinels and a crash keep them.
LEMMA FieldsLife ==
    ASSUME FieldTypes,
           Start \/ StartFaults \/ Shutdown \/ PutSentinel \/ CrashAndRestart
    PROVE  FieldTypes'
<1> USE ExecutorAssumption DEF ExecutorAssumption, storeVars, lifeVars, poolVars, faultVars
<1>1. ASSUME NEW swept \in SUBSET Jobs, ReapAll(swept) PROVE rows' \in [Jobs -> Row]
  BY <1>1, ReapType DEF FieldTypes, ReapAll
<1>2. CASE Start
  <2>1. rows' \in [Jobs -> Row] /\ worker' \in [Workers -> Place]
    BY <1>1, <1>2, RestTypes DEF Start
  <2> QED
    BY <1>2, <2>1 DEF FieldTypes, Start
<1>3. CASE StartFaults
  BY <1>1, <1>3 DEF FieldTypes, StartFaults
<1>4. CASE Shutdown
  BY <1>4, FS_CardinalityType DEF FieldTypes, Shutdown
<1>5. CASE PutSentinel
  BY <1>5 DEF FieldTypes, PutSentinel
<1>6. CASE CrashAndRestart
  <2> USE <1>6 DEF CrashAndRestart
  <2>1. worker' \in [Workers -> Place] /\ client' \in [Clients -> CallPlace]
    BY RestTypes
  <2>2. acquired' \in [Jobs -> Attempts] /\ tokens' \in [Jobs -> Workers \cup {NoWorker}]
    BY DEF Attempts, Unknown
  <2>3. /\ queue' \in Seq(Entry \cup {Sentinel})
        /\ stranded' \in Seq([job : Jobs, attempt : Attempts])
    OBVIOUS
  <2> QED
    BY <2>1, <2>2, <2>3 DEF FieldTypes
<1> QED
  BY <1>2, <1>3, <1>4, <1>5, <1>6

\* Every worker step that writes a row writes one of the operations above.
LEMMA FieldsWorker ==
    ASSUME FieldTypes, Placed, NEW w \in Workers, WorkerStep(w)
    PROVE  FieldTypes'
<1> DEFINE j == worker[w].job
<1> USE DEF storeVars, lifeVars, poolVars, faultVars
<1>a. ASSUME NEW p \in WorkerPcs, WorkerTo(w, p) PROVE worker' \in [Workers -> Place]
  BY <1>a, ThreadMoves DEF WorkerTo
<1>b. ASSUME NEW r, j \in Jobs => r \in Row, SetRow(j, r) PROVE rows' \in [Jobs -> Row]
  BY <1>b, RowMoves DEF SetRow
<1>c. j \in Jobs => rows[j] \in Row
  BY DEF FieldTypes
<1>d. WorkerPcs = {"starting", "running", "finalizing", "failing", "stopping", "held",
                   "repairing", "latching", "cleanup", "off", "idle", "dequeued"}
  BY DEF WorkerPcs, HoldPcs, RunPcs
<1>e. TerminalStates = {"done", "error", "cancelled"}
  BY DEF TerminalStates
<1>1. CASE GetSentinel(w)
  <2>1. worker' \in [Workers -> Place]
    BY <1>1, <1>a, <1>d DEF GetSentinel
  <2> QED
    BY <1>1, <2>1 DEF FieldTypes, GetSentinel
<1>2. CASE GetJob(w)
  <2>1. Head(queue) \in Entry /\ Tail(queue) \in Seq(Entry \cup {Sentinel})
    BY <1>2 DEF FieldTypes, GetJob
  <2>2. worker' \in [Workers -> Place]
    BY <1>2, <1>d, <2>1 DEF FieldTypes, GetJob, OffDuty, Place, Entry, Attempts, Unknown
  <2> QED
    BY <1>2, <2>1, <2>2 DEF FieldTypes, GetJob
<1>3. CASE RegisterToken(w)
  <2>1. worker' \in [Workers -> Place]
    BY <1>3, <1>a, <1>d DEF RegisterToken
  <2> QED
    BY <1>3, <2>1 DEF FieldTypes, RegisterToken
<1>4. CASE BeginRun(w)
  <2>1. rows' \in [Jobs -> Row]
    BY <1>4, <1>b, <1>c, BeginType DEF BeginRun
  <2>2. j \in Jobs
    BY <1>4, <1>d DEF FieldTypes, Placed, Place, BeginRun
  <2>3. rows'[j].attempt \in Nat
    <3> HIDE DEF j
    <3>1. rows'[j] \in Row
      BY <2>1, <2>2
    <3> QED
      BY <3>1 DEF Row
  <2>4. worker' \in [Workers -> Place]
    <3> DEFINE a == rows'[j].attempt
    <3>1. worker' = [worker EXCEPT ![w].pc = "starting", ![w].own = a]
      BY <1>4 DEF BeginRun
    <3>2. a \in Attempts /\ "starting" \in WorkerPcs
      BY <1>d, <2>3 DEF Attempts
    <3> HIDE DEF a
    <3> QED
      BY ZenonT(40), <3>1, <3>2 DEF FieldTypes, Place
  <2>5. acquired' \in [Jobs -> Attempts]
    BY <1>4, <2>3 DEF FieldTypes, BeginRun, Attempts
  <2> QED
    BY <1>4, <2>1, <2>4, <2>5 DEF FieldTypes, BeginRun
<1>5. CASE BeginRefused(w) \/ BeginFaults(w)
  <2>1. worker' \in [Workers -> Place]
    BY <1>5, <1>a, <1>d DEF BeginRefused, BeginFaults
  <2> QED
    BY <1>5, <2>1 DEF FieldTypes, BeginRefused, BeginFaults
<1>6. CASE WriteProgress(w)
  <2>1. worker' \in [Workers -> Place] /\ rows' \in [Jobs -> Row]
    BY <1>6, <1>a, <1>b, <1>c, <1>d, ProgressType DEF WriteProgress
  <2> QED
    BY <1>6, <2>1 DEF FieldTypes, WriteProgress
<1>7. CASE StartingFaults(w)
  <2>1. worker' \in [Workers -> Place]
    BY <1>7, <1>a, <1>d DEF StartingFaults
  <2>2. rows' \in [Jobs -> Row]
    BY <1>7, <1>b, <1>c, ProgressType DEF StartingFaults, FieldTypes
  <2> QED
    BY <1>7, <2>1, <2>2 DEF FieldTypes, StartingFaults
<1>8. CASE PipelineReturns(w) \/ PipelineFails(w) \/ PipelineStops(w)
  <2>1. worker' \in [Workers -> Place]
    BY <1>8, <1>a, <1>d DEF PipelineReturns, PipelineFails, PipelineStops
  <2> QED
    BY <1>8, <2>1 DEF FieldTypes, PipelineReturns, PipelineFails, PipelineStops
<1>9. ASSUME NEW r, j \in Jobs => r \in Row, Land(w, r) PROVE FieldTypes'
  <2>1. worker' \in [Workers -> Place] /\ rows' \in [Jobs -> Row]
    BY <1>9, <1>a, <1>b, <1>d DEF Land
  <2> QED
    BY <1>9, <2>1 DEF FieldTypes, Land
<1>10. CASE FinalizeDone(w)
  BY <1>10, <1>9, <1>c, FinalizeType DEF FinalizeDone
<1>11. CASE ClaimError(w) \/ ClaimCancelled(w) \/ Repair(w)
  BY <1>11, <1>9, <1>c, <1>e, VerdictType DEF ClaimError, ClaimCancelled, Repair
<1>12. CASE VerdictFaults(w)
  <2>1. worker' \in [Workers -> Place]
    BY <1>12, <1>a, <1>d DEF VerdictFaults
  <2>2. rows' \in [Jobs -> Row]
    BY <1>12, <1>b, <1>c, FinalizeType DEF VerdictFaults, FieldTypes
  <2> QED
    BY <1>12, <2>1, <2>2 DEF FieldTypes, VerdictFaults
<1>13. CASE RepairFaults(w)
  <2>1. worker' \in [Workers -> Place]
    BY <1>13, <1>a, <1>d DEF RepairFaults
  <2> QED
    BY <1>13, <2>1 DEF FieldTypes, RepairFaults
<1>14. CASE Latch(w)
  <2> DEFINE S == [job : Jobs, attempt : Attempts]
             entry == [job |-> j, attempt |-> acquired[j]]
  <2>1. worker' \in [Workers -> Place]
    BY <1>14, <1>a, <1>d DEF Latch
  <2>2. entry \in S
    BY <1>14 DEF FieldTypes, Placed, Place, Latch
  <2>3. ASSUME NEW K \in SUBSET DOMAIN stranded
        PROVE  [i \in DOMAIN stranded |-> IF i \in K THEN entry ELSE stranded[i]] \in Seq(S)
    <3>1. stranded \in [1..Len(stranded) -> S] /\ Len(stranded) \in Nat
      BY LenProperties DEF FieldTypes
    <3> HIDE DEF S, entry
    <3>2. [i \in DOMAIN stranded |-> IF i \in K THEN entry ELSE stranded[i]]
            \in [1..Len(stranded) -> S]
      BY <2>2, <3>1
    <3> QED
      BY <3>1, <3>2, SeqDef
  <2>4. stranded' \in Seq(S)
    <3>1. stranded \in Seq(S) /\ Append(stranded, entry) \in Seq(S)
      BY <2>2 DEF FieldTypes
    <3> DEFINE known == {i \in DOMAIN stranded : stranded[i].job = j}
    <3>2. stranded' = IF known = {} THEN Append(stranded, entry)
                      ELSE [i \in DOMAIN stranded |->
                               IF i \in known THEN entry ELSE stranded[i]]
      BY <1>14 DEF Latch
    <3> QED
      BY <2>3, <3>1, <3>2
  <2> QED
    BY <1>14, <2>1, <2>4 DEF FieldTypes, Latch
<1>15. CASE Cleanup(w)
  <2>1. worker' \in [Workers -> Place]
    BY <1>15, RestTypes DEF FieldTypes, Cleanup
  <2>2. acquired' \in [Jobs -> Attempts]
    BY <1>15 DEF FieldTypes, Cleanup, Attempts
  <2> QED
    BY <1>15, <2>1, <2>2 DEF FieldTypes, Cleanup
<1> QED
  BY <1>1, <1>2, <1>3, <1>4, <1>5, <1>6, <1>7, <1>8, <1>10, <1>11, <1>12, <1>13,
     <1>14, <1>15 DEF WorkerStep

\* A call that writes a row writes one of the operations above too.
LEMMA FieldsCall ==
    ASSUME FieldTypes, Placed, NEW c \in Clients, Call(c) \/ CancelStep(c)
    PROVE  FieldTypes'
<1> DEFINE j == client[c].job
<1> USE DEF storeVars, lifeVars, poolVars, faultVars
<1>a. ASSUME NEW r, j \in Jobs => r \in Row, SetRow(j, r) PROVE rows' \in [Jobs -> Row]
  BY <1>a, RowMoves DEF SetRow
<1>b. j \in Jobs => rows[j] \in Row
  BY DEF FieldTypes
<1>c. ClientDone(c) => client' \in [Clients -> CallPlace]
  BY CallEnds
<1>1. CASE SubmitBegin(c)
  <2>1. client' \in [Clients -> CallPlace]
    BY <1>1, CallMoves DEF SubmitBegin, ClientTo, ClientPcs
  <2> QED
    BY <1>1, <2>1 DEF FieldTypes, SubmitBegin
<1>2. ASSUME NEW k \in Jobs, ResumeObserve(c, k) \/ CancelObserve(c, k)
      PROVE  FieldTypes'
  <2>1. rows[k].attempt \in Nat
    BY DEF FieldTypes, Row
  <2>2. ASSUME NEW p \in ClientPcs
        PROVE  [AtRest EXCEPT !.pc = p, !.job = k, !.seen = rows[k].attempt] \in CallPlace
    BY <2>1, RestTypes DEF CallPlace, Attempts
  <2>3. client' \in [Clients -> CallPlace]
    <3>1. "observed" \in ClientPcs /\ "cancelling" \in ClientPcs
      BY DEF ClientPcs
    <3> QED
      BY <1>2, <2>2, <3>1 DEF FieldTypes, ResumeObserve, CancelObserve
  <2> QED
    BY <1>2, <2>3 DEF FieldTypes, ResumeObserve, CancelObserve
<1>3. CASE CancelAccept(c)
  <2>1. rows' \in [Jobs -> Row] /\ client' \in [Clients -> CallPlace]
    BY <1>3, <1>a, <1>b, <1>c, AcceptType DEF CancelAccept
  <2>2. worker' \in [Workers -> Place]
    BY ZenonT(40), <1>3 DEF FieldTypes, CancelAccept, Trip, Place
  <2> QED
    BY <1>3, <2>1, <2>2 DEF FieldTypes, CancelAccept
<1>4. CASE CancelRefused(c)
  BY <1>4, <1>c DEF FieldTypes, CancelRefused
<1>5. CASE CancelFaults(c)
  <2>1. rows' \in [Jobs -> Row]
    BY <1>5, <1>a, <1>b, AcceptType DEF FieldTypes, CancelFaults
  <2> QED
    BY <1>5, <1>c, <2>1 DEF FieldTypes, CancelFaults
<1> QED
  BY <1>1, <1>2, <1>3, <1>4, <1>5 DEF Call, CancelStep

\* create, with its prune, leaves a table of rows.
LEMMA CreateType ==
    ASSUME FieldTypes, NEW k \in Jobs
    PROVE  /\ Create(rows, k, nextSeq) \in [Jobs -> Row]
           /\ Insert(rows, k, nextSeq) \in [Jobs -> Row]
<1>1. Insert(rows, k, nextSeq) \in [Jobs -> Row]
  BY FreshType DEF FieldTypes, Insert
<1>2. ASSUME NEW t \in [Jobs -> Row] PROVE Evict(t) \in [Jobs -> Row]
  BY RestTypes DEF Evict
<1> QED
  BY <1>1, <1>2 DEF Create

\* What a client reads off its claim is an attempt.
LEMMA ReadAttemptType ==
    ASSUME FieldTypes, NEW c \in Clients, client[c].job \in Jobs
    PROVE  ReadAttempt(c) \in Attempts
  BY DEF FieldTypes, ReadAttempt, Row, CallPlace, Attempts

\* Resume, the gate, submit and enqueue keep the field types.
LEMMA FieldsAdmission ==
    ASSUME FieldTypes, Placed, NEW c \in Clients, AdmissionStep(c)
    PROVE  FieldTypes'
<1> DEFINE j == client[c].job
<1> USE DEF storeVars, lifeVars, poolVars, faultVars
<1>a. ASSUME NEW r, j \in Jobs => r \in Row, SetRow(j, r) PROVE rows' \in [Jobs -> Row]
  BY <1>a, RowMoves DEF SetRow
<1>b. j \in Jobs => rows[j] \in Row
  BY DEF FieldTypes
<1>c. ClientDone(c) => client' \in [Clients -> CallPlace]
  BY CallEnds
<1>d. Refused(c) => client' \in [Clients -> CallPlace]
  BY CallEnds
<1>e. j \in Jobs \cup {NoJob}
  BY DEF FieldTypes, CallPlace
<1>1. CASE ResumeClaim(c)
  <2>1. rows' \in [Jobs -> Row]
    BY <1>1, <1>a, <1>b, ReopenType DEF ResumeClaim
  <2>2. j \in Jobs
    BY <1>1 DEF Placed, ResumeClaim
  <2>3. rows'[j].attempt \in Attempts
    <3> HIDE DEF j
    <3>1. rows'[j] \in Row
      BY <2>1, <2>2
    <3> QED
      BY <3>1 DEF Row, Attempts
  <2>4. client' \in [Clients -> CallPlace]
    <3> DEFINE a == rows'[j].attempt
    <3>1. client' = [client EXCEPT ![c].pc = "claimed", ![c].claim = a, ![c].gen = a]
      BY <1>1 DEF ResumeClaim
    <3>2. a \in Attempts /\ "claimed" \in ClientPcs
      BY <2>3 DEF ClientPcs
    <3> HIDE DEF a
    <3> QED
      BY ZenonT(40), <3>1, <3>2 DEF FieldTypes, CallPlace
  <2> QED
    BY <1>1, <2>1, <2>4 DEF FieldTypes, ResumeClaim
<1>2. CASE ResumeConflict(c)
  BY <1>2, <1>c DEF FieldTypes, ResumeConflict
<1>3. CASE ResumeSave(c)
  <2>1. ReadAttempt(c) \in Attempts
    BY <1>3, ReadAttemptType DEF Placed, ResumeSave
  <2>2. client' \in [Clients -> CallPlace]
    BY ZenonT(40), <1>3, <2>1 DEF FieldTypes, ResumeSave, CallPlace, ClientPcs
  <2> QED
    BY <1>3, <2>2 DEF FieldTypes, ResumeSave
<1>4. CASE ResumeSaveFaults(c)
  BY <1>4, <1>c DEF FieldTypes, ResumeSaveFaults
<1>5. CASE GateShut(c)
  BY <1>5, <1>d DEF FieldTypes, GateShut
<1>6. CASE GateReconcile(c)
  <2> DEFINE S == [job : Jobs, attempt : Attempts]
  <2>1. Head(stranded) \in S /\ Tail(stranded) \in Seq(S)
    <3>1. stranded \in Seq(S) /\ stranded # <<>>
      BY <1>6 DEF FieldTypes, GateReconcile
    <3> HIDE DEF S
    <3> QED
      BY <3>1, HeadTailProperties
  <2>2. rows' \in [Jobs -> Row]
    <3>1. Head(stranded).job \in Jobs
      BY <2>1
    <3>2. rows[Head(stranded).job] \in Row
      BY <3>1 DEF FieldTypes
    <3>3. "error" \in TerminalStates
      BY DEF TerminalStates
    <3>4. Verdict(rows[Head(stranded).job], IncompleteStates,
                  Head(stranded).attempt, "error") \in Row
      BY <3>2, <3>3, VerdictType
    <3> QED
      BY <1>6, <3>1, <3>4, RowMoves DEF GateReconcile, SetRow
  <2>3. client' \in [Clients -> CallPlace] /\ lock' \in Clients \cup {NoClient}
    BY <1>6, <1>d, CallMoves DEF FieldTypes, GateReconcile, ClientTo, ClientPcs
  <2>4. latched' \in BOOLEAN /\ stranded' \in Seq(S)
    BY <1>6, <2>1 DEF GateReconcile
  <2> QED
    BY <1>6, <2>2, <2>3, <2>4 DEF FieldTypes, GateReconcile
<1>7. CASE GateReconcileFaults(c)
  BY <1>7, <1>d DEF FieldTypes, GateReconcileFaults
<1>f. ASSUME NEW k \in Jobs, NEW a \in Attempts, NEW b \in Attempts
      PROVE  /\ Append(queue, [job |-> k, gen |-> a]) \in Seq(Entry \cup {Sentinel})
             /\ owned \cup {k} \subseteq Jobs
             /\ [acquired EXCEPT ![k] = b] \in [Jobs -> Attempts]
  <2>1. [job |-> k, gen |-> a] \in Entry
    BY DEF Entry
  <2> QED
    BY <2>1 DEF FieldTypes
<1>8. CASE SubmitAdmit(c)
  <2>1. PICK k \in Jobs :
           /\ rows' = Create(rows, k, nextSeq)
           /\ owned' = owned \cup {k}
           /\ acquired' = [acquired EXCEPT ![k] = 0]
           /\ queue' = Append(queue, [job |-> k, gen |-> 0])
    BY <1>8 DEF SubmitAdmit
  <2>2. 0 \in Attempts
    BY DEF Attempts
  <2>3. /\ queue' \in Seq(Entry \cup {Sentinel}) /\ owned' \subseteq Jobs
        /\ acquired' \in [Jobs -> Attempts]
    BY <1>f, <2>1, <2>2
  <2>4. rows' \in [Jobs -> Row]
    BY <2>1, CreateType
  <2> QED
    BY <1>8, <1>c, <2>3, <2>4 DEF FieldTypes, SubmitAdmit
<1>9. CASE SubmitFaults(c)
  <2>1. rows' \in [Jobs -> Row] /\ nextSeq' \in Nat
    BY <1>9, CreateType DEF FieldTypes, SubmitFaults
  <2> QED
    BY <1>9, <1>c, <2>1 DEF FieldTypes, SubmitFaults
<1>10. CASE ResumeAdmit(c)
  <2>1. j \in Jobs
    BY <1>10, <1>e DEF ResumeAdmit
  <2>2. ReadAttempt(c) \in Attempts
    BY <2>1, ReadAttemptType
  <2>3. client[c].gen \in Attempts
    BY DEF FieldTypes, CallPlace
  <2>4. /\ queue' \in Seq(Entry \cup {Sentinel}) /\ owned' \subseteq Jobs
        /\ acquired' \in [Jobs -> Attempts]
    BY <1>10, <1>f, <2>1, <2>2, <2>3 DEF ResumeAdmit
  <2> QED
    BY <1>10, <1>c, <2>4 DEF FieldTypes, ResumeAdmit
<1>11. CASE AdmitRefused(c)
  BY <1>11, <1>d DEF FieldTypes, AdmitRefused
<1>12. CASE Unadmit(c)
  <2>1. rows' \in [Jobs -> Row]
    BY <1>12, <1>a, <1>b, VerdictType DEF Unadmit, TerminalStates
  <2> QED
    BY <1>12, <1>c, <2>1 DEF FieldTypes, Unadmit
<1>13. CASE UnadmitFaults(c)
  BY <1>13, <1>c DEF FieldTypes, UnadmitFaults
<1> QED
  BY <1>1, <1>2, <1>3, <1>4, <1>5, <1>6, <1>7, <1>8, <1>9, <1>10, <1>11, <1>12, <1>13
     DEF AdmissionStep

\* No thread and no call works on nothing.
LEMMA PlacedWorker ==
    ASSUME FieldTypes, Placed, NEW w \in Workers, WorkerStep(w)
    PROVE  Placed'
<1> USE DEF storeVars, lifeVars, poolVars, faultVars
<1> DEFINE Busy(p) == p \notin {"off", "idle"}
<1>1. UNCHANGED client
  BY DEF WorkerStep, GetSentinel, GetJob, RegisterToken, BeginRun, BeginRefused,
         BeginFaults, WriteProgress, StartingFaults, PipelineReturns, PipelineFails,
         PipelineStops, FinalizeDone, ClaimError, ClaimCancelled, Land, VerdictFaults,
         Repair, RepairFaults, Latch, Cleanup
<1>2. ASSUME NEW p, WorkerTo(w, p), Busy(p) <=> Busy(worker[w].pc)
      PROVE  \A v \in Workers : worker'[v].job = NoJob <=> worker'[v].pc \in {"off", "idle"}
  BY <1>2 DEF WorkerTo, Placed, FieldTypes, Place
<1>3. CASE GetSentinel(w)
  <2>1. worker[w].pc = "idle" /\ WorkerTo(w, "off")
    BY <1>3 DEF GetSentinel
  <2> QED
    BY <1>1, <1>2, <2>1 DEF Placed
<1>4. CASE GetJob(w)
  <2> DEFINE k == Head(queue).job  g == Head(queue).gen
  <2>1. k \in Jobs
    BY <1>4 DEF FieldTypes, GetJob, Entry
  <2>2. worker' = [worker EXCEPT ![w] = [OffDuty EXCEPT !.pc = "dequeued",
                                                       !.job = k, !.gen = g]]
    BY <1>4 DEF GetJob
  <2> HIDE DEF k, g
  <2>3. worker'[w].pc = "dequeued" /\ worker'[w].job = k
    BY <2>2 DEF FieldTypes, OffDuty
  <2>4. \A v \in Workers \ {w} : worker'[v] = worker[v]
    BY <2>2 DEF FieldTypes
  <2>5. k # NoJob
    BY <2>1, ExecutorAssumption DEF ExecutorAssumption
  <2> QED
    BY <1>1, <2>3, <2>4, <2>5 DEF Placed
<1>5. CASE BeginRun(w)
  <2> DEFINE a == rows'[worker[w].job].attempt
  <2>1. /\ worker' = [worker EXCEPT ![w].pc = "starting", ![w].own = a]
        /\ worker[w].pc = "held"
    BY <1>5 DEF BeginRun
  <2> HIDE DEF a
  <2>2. worker'[w].pc = "starting" /\ worker'[w].job = worker[w].job
    BY <2>1 DEF FieldTypes, Place
  <2>3. \A v \in Workers \ {w} : worker'[v] = worker[v]
    BY <2>1 DEF FieldTypes
  <2> QED
    BY <1>1, <2>1, <2>2, <2>3 DEF Placed
<1>6. CASE Cleanup(w)
  <2>1. worker' = [worker EXCEPT ![w] = Idle]
    BY <1>6 DEF Cleanup
  <2> QED
    BY <1>1, <2>1 DEF FieldTypes, Placed, Idle, OffDuty
<1>7. CASE RegisterToken(w) \/ BeginRefused(w) \/ BeginFaults(w) \/ WriteProgress(w)
           \/ StartingFaults(w) \/ PipelineReturns(w) \/ PipelineFails(w)
           \/ PipelineStops(w) \/ FinalizeDone(w) \/ ClaimError(w) \/ ClaimCancelled(w)
           \/ VerdictFaults(w) \/ Repair(w) \/ RepairFaults(w) \/ Latch(w)
  <2>1. Busy(worker[w].pc)
    BY <1>7 DEF RegisterToken, BeginRefused, BeginFaults, WriteProgress,
         StartingFaults, PipelineReturns, PipelineFails, PipelineStops, FinalizeDone,
         ClaimError, ClaimCancelled, VerdictFaults, Repair, RepairFaults, Latch
  <2>2. \E p \in {"held", "cleanup", "repairing", "running", "finalizing", "failing",
                  "stopping", "latching"} : WorkerTo(w, p)
    BY <1>7 DEF RegisterToken, BeginRefused, BeginFaults, WriteProgress,
         StartingFaults, PipelineReturns, PipelineFails, PipelineStops, FinalizeDone,
         ClaimError, ClaimCancelled, Land, VerdictFaults, Repair, RepairFaults, Latch
  <2> QED
    BY <1>1, <1>2, <2>1, <2>2 DEF Placed
<1> QED
  BY <1>3, <1>4, <1>5, <1>6, <1>7 DEF WorkerStep

\* And no step leaves a client at work on nothing.
LEMMA PlacedClient ==
    ASSUME FieldTypes, Placed, NEW c \in Clients,
           Call(c) \/ AdmissionStep(c) \/ CancelStep(c)
    PROVE  Placed'
<1> USE DEF storeVars, lifeVars, poolVars, faultVars
<1> DEFINE Seated(q, k) == /\ q \in {"observed", "claimed", "saved", "refused",
                                     "cancelling"} => k \in Jobs
                           /\ q \in {"idle", "submitting"} => k = NoJob
<1>1. ASSUME UNCHANGED worker \/ \E j \in Jobs : Trip(j)
      PROVE  \A v \in Workers : worker'[v].job = NoJob <=> worker'[v].pc \in {"off", "idle"}
  <2>1. ASSUME NEW u \in Workers, worker' = [worker EXCEPT ![u].tripped = TRUE],
               NEW v \in Workers
        PROVE  worker'[v].job = worker[v].job /\ worker'[v].pc = worker[v].pc
    BY <2>1 DEF FieldTypes, Place
  <2>2. UNCHANGED worker \/ \E u \in Workers : worker' = [worker EXCEPT ![u].tripped = TRUE]
    BY <1>1 DEF Trip
  <2>3. \A v \in Workers : worker'[v].job = worker[v].job /\ worker'[v].pc = worker[v].pc
    BY <2>1, <2>2
  <2> QED
    BY <2>3 DEF Placed
<1>2. ASSUME client'[c].pc \in ClientPcs, Seated(client'[c].pc, client'[c].job),
             \A b \in Clients \ {c} : client'[b] = client[b]
      PROVE  \A b \in Clients : Seated(client'[b].pc, client'[b].job)
  BY <1>2 DEF Placed
<1>3. client[c].job \in Jobs \cup {NoJob} /\ NoJob \notin Jobs
  BY ExecutorAssumption DEF FieldTypes, CallPlace, ExecutorAssumption
<1>4. ASSUME NEW q, ClientTo(c, q)
      PROVE  /\ client'[c].pc = q /\ client'[c].job = client[c].job
             /\ \A b \in Clients \ {c} : client'[b] = client[b]
  BY <1>4 DEF ClientTo, FieldTypes, CallPlace
<1>5. ASSUME ClientDone(c)
      PROVE  /\ client'[c].pc = "idle" /\ client'[c].job = NoJob
             /\ \A b \in Clients \ {c} : client'[b] = client[b]
  BY <1>5 DEF ClientDone, AtRest, FieldTypes
<1>6. Refused(c) => ClientDone(c) \/ (ClientTo(c, "refused") /\ client[c].job # NoJob)
  BY DEF Refused, ClientDone, ClientTo
<1>8. ASSUME NEW q, NEW a, NEW g,
             client' = [client EXCEPT ![c].pc = q, ![c].claim = a, ![c].gen = g]
      PROVE  /\ client'[c].pc = q /\ client'[c].job = client[c].job
             /\ \A b \in Clients \ {c} : client'[b] = client[b]
  BY <1>8 DEF FieldTypes, CallPlace
<1>9. ASSUME NEW q, NEW a, client' = [client EXCEPT ![c].pc = q, ![c].claim = a]
      PROVE  /\ client'[c].pc = q /\ client'[c].job = client[c].job
             /\ \A b \in Clients \ {c} : client'[b] = client[b]
  BY <1>9 DEF FieldTypes, CallPlace
<1>10. CASE Call(c)
  <2>1. UNCHANGED worker
    BY <1>10 DEF Call, SubmitBegin, ResumeObserve, CancelObserve
  <2>2. CASE SubmitBegin(c)
    BY <1>1, <1>2, <1>4, <2>1, <2>2 DEF SubmitBegin, Placed, ClientPcs
  <2>3. ASSUME NEW k \in Jobs, ResumeObserve(c, k) \/ CancelObserve(c, k) PROVE Placed'
    <3> DEFINE a == rows[k].attempt
    <3>1. PICK q \in {"observed", "cancelling"} :
            client' = [client EXCEPT ![c] = [AtRest EXCEPT !.pc = q, !.job = k,
                                                          !.seen = a]]
      BY <2>3 DEF ResumeObserve, CancelObserve
    <3> HIDE DEF a
    <3>2. /\ client'[c].pc = q /\ client'[c].job = k
          /\ \A b \in Clients \ {c} : client'[b] = client[b]
      BY <3>1 DEF AtRest, FieldTypes
    <3> QED
      BY <1>1, <1>2, <2>1, <3>2 DEF Placed, ClientPcs
  <2> QED
    BY <1>10, <2>2, <2>3 DEF Call
<1>11. CASE ClientDone(c) \/ Refused(c)
  <2>1. UNCHANGED worker \/ \E j \in Jobs : Trip(j)
    BY DEF Call, SubmitBegin, ResumeObserve, CancelObserve, AdmissionStep, ResumeClaim,
        ResumeConflict, ResumeSave, ResumeSaveFaults, GateShut, GateReconcile,
        GateReconcileFaults, SubmitAdmit, SubmitFaults, ResumeAdmit, AdmitRefused,
        Unadmit, UnadmitFaults, CancelStep, CancelAccept, CancelRefused, CancelFaults,
        Placed
  <2> QED
    BY <1>1, <1>2, <1>3, <1>4, <1>5, <1>6, <1>11, <2>1 DEF Placed, ClientPcs
<1>12. CASE ResumeClaim(c)
  <2> DEFINE a == rows'[client[c].job].attempt
  <2>1. /\ client' = [client EXCEPT ![c].pc = "claimed", ![c].claim = a, ![c].gen = a]
        /\ client[c].pc = "observed" /\ UNCHANGED worker
    BY <1>12 DEF ResumeClaim
  <2> HIDE DEF a
  <2>2. /\ client'[c].pc = "claimed" /\ client'[c].job = client[c].job
        /\ \A b \in Clients \ {c} : client'[b] = client[b]
    BY <1>8, <2>1
  <2> QED
    BY <1>1, <1>2, <2>1, <2>2 DEF Placed, ClientPcs
<1>13. CASE ResumeSave(c)
  <2>1. /\ client' = [client EXCEPT ![c].pc = "saved", ![c].claim = ReadAttempt(c)]
        /\ client[c].pc = "claimed" /\ UNCHANGED worker
    BY <1>13 DEF ResumeSave
  <2>2. /\ client'[c].pc = "saved" /\ client'[c].job = client[c].job
        /\ \A b \in Clients \ {c} : client'[b] = client[b]
    BY <1>9, <2>1
  <2> QED
    BY <1>1, <1>2, <2>1, <2>2 DEF Placed, ClientPcs
<1>14. CASE GateReconcile(c) /\ ClientTo(c, "admitting")
  <2>1. UNCHANGED worker
    BY <1>14 DEF GateReconcile
  <2> QED
    BY <1>1, <1>2, <1>4, <1>14, <2>1 DEF Placed, ClientPcs
<1> QED
  BY <1>10, <1>11, <1>12, <1>13, <1>14
     DEF AdmissionStep, CancelStep, ResumeConflict, ResumeSaveFaults, GateShut,
         GateReconcile, GateReconcileFaults, SubmitAdmit, SubmitFaults, ResumeAdmit,
         AdmitRefused, Unadmit, UnadmitFaults, CancelAccept, CancelRefused, CancelFaults

\* Every step keeps types and places.
LEMMA TypeStep == TypeOK /\ [Next]_vars => TypeOK'
<1> SUFFICES ASSUME TypeOK, [Next]_vars PROVE TypeOK'
  OBVIOUS
<1> USE DEF TypeOK
<1>1. CASE Start \/ StartFaults \/ Shutdown \/ PutSentinel \/ CrashAndRestart
  <2>1. UNCHANGED <<worker, client>>
        \/ (worker' = [w \in Workers |-> Idle] /\ UNCHANGED client)
        \/ (worker' = [w \in Workers |-> OffDuty] /\ client' = [c \in Clients |-> AtRest])
    BY <1>1 DEF Start, StartFaults, Shutdown, PutSentinel, CrashAndRestart
  <2>2. Placed'
    BY <2>1 DEF Placed, Idle, OffDuty, AtRest
  <2> QED
    BY <1>1, <2>2, FieldsLife
<1>2. ASSUME NEW w \in Workers, WorkerStep(w) PROVE TypeOK'
  BY <1>2, FieldsWorker, PlacedWorker
<1>3. ASSUME NEW c \in Clients, Call(c) \/ AdmissionStep(c) \/ CancelStep(c)
      PROVE  TypeOK'
  BY <1>3, FieldsCall, FieldsAdmission, PlacedClient
<1>4. CASE UNCHANGED vars
  BY <1>4 DEF vars, storeVars, lifeVars, poolVars, faultVars, FieldTypes, Placed
<1> QED
  BY <1>1, <1>2, <1>3, <1>4 DEF Next

\* They hold at the start.
LEMMA TypeInit == Init => TypeOK
<1>1. Init => Placed
  BY DEF Init, VolatileInit, Placed, OffDuty, AtRest
<1> QED
  BY <1>1, FieldsInit DEF TypeOK

\* Every state of the pool, its clients and the store is well formed.
THEOREM TypeCorrect == Spec => []TypeOK
  BY TypeInit, TypeStep, PTL DEF Spec

-----------------------------------------------------------------------------
(* One owner per job.  Inductive with two facts: an id the pool or a client *)
(* holds was created, and threads run only in a started pool.               *)

Held(j) == j \in owned \/ \E c \in Clients : client[c].job = j

OwnerInv ==
    /\ TypeOK
    /\ OneOwnerPerJob
    /\ \A j \in Jobs : Held(j) => rows[j].state # "absent"
    /\ ~started => \A w \in Workers : worker[w].pc = "off"

\* What each change of queue, ownership set and threads does to ownership.
SameJobs == \A w \in Workers : worker'[w].job = worker[w].job

\* A step that leaves queue, threads and ownership alone keeps OwnerInv.
LEMMA OwnerUntouched ==
    ASSUME OneOwnerPerJob, UNCHANGED <<queue, owned>>, SameJobs
    PROVE  OneOwnerPerJob'
  BY DEF OneOwnerPerJob, Queued, Holders, Executes, SameJobs

\* Queueing an id that nobody owns keeps it.
LEMMA OwnerEnqueues ==
    ASSUME TypeOK, OneOwnerPerJob, SameJobs,
           NEW k \in Jobs, NEW g \in Attempts, k \notin owned,
           owned' = owned \cup {k}, queue' = Append(queue, [job |-> k, gen |-> g])
    PROVE  OneOwnerPerJob'
<1> DEFINE e == [job |-> k, gen |-> g]  n == Len(queue)
<1>1. /\ n \in Nat /\ DOMAIN queue = 1..n
      /\ DOMAIN queue' = 1..(n + 1)
      /\ \A i \in 1..n : queue'[i] = queue[i]
      /\ queue'[n + 1] = e
  <2>1. /\ queue \in Seq(Entry \cup {Sentinel}) /\ e \in Entry \cup {Sentinel}
        /\ queue' = Append(queue, e)
    BY DEF TypeOK, FieldTypes, Entry
  <2> HIDE DEF e
  <2> QED
    BY <2>1, AppendProperties, LenProperties
<1>2. e.job = k /\ k # NoJob
  BY ExecutorAssumption DEF ExecutorAssumption
<1> HIDE DEF e, n
<1>3. /\ \A i \in DOMAIN queue : queue[i].job # k
      /\ \A w \in Workers : worker[w].job # k
  BY DEF OneOwnerPerJob, Queued, Holders, Executes
<1>4. ASSUME NEW j \in Jobs
      PROVE  j \in owned' <=> (\E i \in DOMAIN queue' : queue'[i].job = j)
                              \/ (\E w \in Workers : worker'[w].job = j)
  <2>1. j \in owned <=> (\E i \in DOMAIN queue : queue[i].job = j)
                        \/ (\E w \in Workers : worker[w].job = j)
    BY DEF OneOwnerPerJob, Queued, Holders, Executes
  <2>2. (\E i \in DOMAIN queue' : queue'[i].job = j)
        <=> (\E i \in DOMAIN queue : queue[i].job = j) \/ j = k
    BY <1>1, <1>2
  <2> QED
    BY <2>1, <2>2 DEF SameJobs
<1>5. ASSUME NEW i \in DOMAIN queue', NEW h \in DOMAIN queue',
             queue'[i].job = queue'[h].job
      PROVE  i = h \/ queue'[i].job = NoJob
  BY <1>1, <1>2, <1>3, <1>5 DEF OneOwnerPerJob
<1>6. ASSUME NEW i \in DOMAIN queue', NEW w \in Workers,
             queue'[i].job = worker'[w].job
      PROVE  queue'[i].job = NoJob
  BY <1>1, <1>2, <1>3, <1>6 DEF OneOwnerPerJob, SameJobs
<1> QED
  BY <1>4, <1>5, <1>6 DEF OneOwnerPerJob, Queued, Holders, Executes, SameJobs

\* A sentinel at the end of the queue keeps it.
LEMMA OwnerSignals ==
    ASSUME TypeOK, OneOwnerPerJob, SameJobs, UNCHANGED owned,
           queue' = Append(queue, Sentinel)
    PROVE  OneOwnerPerJob'
<1> DEFINE n == Len(queue)
<1>1. /\ n \in Nat /\ DOMAIN queue = 1..n
      /\ DOMAIN queue' = 1..(n + 1)
      /\ \A i \in 1..n : queue'[i] = queue[i]
      /\ queue'[n + 1] = Sentinel
  <2>1. queue \in Seq(Entry \cup {Sentinel}) /\ Sentinel \in Entry \cup {Sentinel}
    BY DEF TypeOK, FieldTypes
  <2> QED
    BY <2>1, AppendProperties, LenProperties
<1>2. Sentinel.job = NoJob /\ NoJob \notin Jobs
  BY ExecutorAssumption DEF ExecutorAssumption, Sentinel
<1> HIDE DEF n
<1>3. ASSUME NEW j \in Jobs
      PROVE  (\E i \in DOMAIN queue' : queue'[i].job = j)
             <=> (\E i \in DOMAIN queue : queue[i].job = j)
  BY <1>1, <1>2
<1> QED
  BY <1>1, <1>2, <1>3 DEF OneOwnerPerJob, Queued, Holders, Executes, SameJobs

\* Taking the head moves its id from the queue to the thread.
LEMMA OwnerDequeues ==
    ASSUME TypeOK, OneOwnerPerJob, NEW w \in Workers, worker[w].job = NoJob,
           queue # <<>>, queue' = Tail(queue), UNCHANGED owned,
           worker'[w].job = Head(queue).job,
           \A v \in Workers \ {w} : worker'[v] = worker[v]
    PROVE  OneOwnerPerJob'
<1> DEFINE n == Len(queue)  k == Head(queue).job
<1>1. /\ n \in Nat \ {0} /\ DOMAIN queue = 1..n
      /\ DOMAIN queue' = 1..(n - 1)
      /\ \A i \in 1..(n - 1) : queue'[i] = queue[i + 1]
      /\ k = queue[1].job
  <2>1. queue \in Seq(Entry \cup {Sentinel})
    BY DEF TypeOK, FieldTypes
  <2>2. Len(queue) \in Nat \ {0} /\ DOMAIN queue = 1..Len(queue)
    BY <2>1, LenProperties, EmptySeq
  <2>3. /\ Tail(queue) \in Seq(Entry \cup {Sentinel}) /\ Len(Tail(queue)) = Len(queue) - 1
        /\ \A i \in 1..Len(Tail(queue)) : Tail(queue)[i] = queue[i + 1]
    BY <2>1, HeadTailProperties
  <2>4. DOMAIN Tail(queue) = 1..Len(Tail(queue))
    BY <2>3, LenProperties
  <2>5. Head(queue) = queue[1]
    BY <2>1, <2>2
  <2> QED
    BY <2>2, <2>3, <2>4, <2>5
<1> HIDE DEF n, k
<1>2. worker'[w].job = k
  BY DEF k
<1>3. NoJob \notin Jobs
  BY ExecutorAssumption DEF ExecutorAssumption
<1>4. ASSUME NEW i \in DOMAIN queue'
      PROVE  /\ i + 1 \in DOMAIN queue /\ i + 1 # 1 /\ queue'[i] = queue[i + 1]
  BY <1>1
<1>5. ASSUME NEW j \in Jobs
      PROVE  j \in owned' <=> (\E i \in DOMAIN queue' : queue'[i].job = j)
                              \/ (\E v \in Workers : worker'[v].job = j)
  <2>1. j \in owned <=> (\E i \in DOMAIN queue : queue[i].job = j)
                        \/ (\E v \in Workers : worker[v].job = j)
    BY DEF OneOwnerPerJob, Queued, Holders, Executes
  <2>2. (\E i \in DOMAIN queue : queue[i].job = j)
        <=> (\E i \in DOMAIN queue' : queue'[i].job = j) \/ j = k
    <3>1. \A i \in DOMAIN queue : i = 1 \/ (i - 1 \in DOMAIN queue' /\ queue'[i - 1] = queue[i])
      BY <1>1
    <3>2. ASSUME NEW i \in DOMAIN queue, queue[i].job = j
          PROVE  (\E h \in DOMAIN queue' : queue'[h].job = j) \/ j = k
      BY <1>1, <3>1, <3>2
    <3>3. ASSUME NEW h \in DOMAIN queue', queue'[h].job = j
          PROVE  \E i \in DOMAIN queue : queue[i].job = j
      BY <1>4, <3>3
    <3>4. 1 \in DOMAIN queue
      BY <1>1
    <3> QED
      BY <1>1, <3>2, <3>3, <3>4
  <2>3. (\E v \in Workers : worker'[v].job = j)
        <=> (\E v \in Workers : worker[v].job = j) \/ j = k
    BY <1>2, <1>3
  <2> QED
    BY <2>1, <2>2, <2>3
<1>6. ASSUME NEW i \in DOMAIN queue', NEW h \in DOMAIN queue',
             queue'[i].job = queue'[h].job
      PROVE  i = h \/ queue'[i].job = NoJob
  <2>1. i + 1 = h + 1 \/ queue[i + 1].job = NoJob
    BY <1>4, <1>6 DEF OneOwnerPerJob
  <2> QED
    BY <1>1, <1>4, <2>1
<1>7. ASSUME NEW i \in DOMAIN queue', NEW v \in Workers,
             queue'[i].job = worker'[v].job
      PROVE  queue'[i].job = NoJob
  <2>1. CASE v = w
    <3>1. queue[i + 1].job = queue[1].job /\ 1 \in DOMAIN queue
      BY <1>1, <1>2, <1>4, <1>7, <2>1
    <3> QED
      BY <1>4, <3>1 DEF OneOwnerPerJob
  <2>2. CASE v # w
    BY <1>4, <1>7, <2>2 DEF OneOwnerPerJob
  <2> QED
    BY <2>1, <2>2
<1>8. ASSUME NEW u \in Workers, NEW v \in Workers, worker'[u].job = worker'[v].job
      PROVE  u = v \/ worker'[u].job = NoJob
  <2>1. 1 \in DOMAIN queue
    BY <1>1
  <2>2. \A x \in Workers : worker[x].job = k => k = NoJob
    BY <1>1, <2>1 DEF OneOwnerPerJob
  <2> QED
    BY <1>2, <1>8, <2>2 DEF OneOwnerPerJob
<1> QED
  BY <1>5, <1>6, <1>7, <1>8 DEF OneOwnerPerJob, Queued, Holders, Executes

\* The end of a run forgets the id in both places at once.
LEMMA OwnerReleases ==
    ASSUME TypeOK, OneOwnerPerJob, NEW w \in Workers, worker[w].job \in Jobs,
           UNCHANGED queue, owned' = owned \ {worker[w].job},
           worker'[w].job = NoJob, \A v \in Workers \ {w} : worker'[v] = worker[v]
    PROVE  OneOwnerPerJob'
<1> DEFINE k == worker[w].job
<1>1. NoJob \notin Jobs /\ k \in Jobs
  BY ExecutorAssumption DEF ExecutorAssumption
<1>2. /\ \A i \in DOMAIN queue : queue[i].job # k
      /\ \A v \in Workers \ {w} : worker[v].job # k
  BY <1>1 DEF OneOwnerPerJob
<1> HIDE DEF k
<1>3. ASSUME NEW j \in Jobs
      PROVE  j \in owned' <=> (\E i \in DOMAIN queue' : queue'[i].job = j)
                              \/ (\E v \in Workers : worker'[v].job = j)
  <2>1. j \in owned <=> (\E i \in DOMAIN queue : queue[i].job = j)
                        \/ (\E v \in Workers : worker[v].job = j)
    BY DEF OneOwnerPerJob, Queued, Holders, Executes
  <2>2. (\E v \in Workers : worker'[v].job = j)
        <=> (\E v \in Workers : worker[v].job = j) /\ j # k
    BY <1>1, <1>2 DEF k
  <2> QED
    BY <1>2, <2>1, <2>2 DEF k
<1> QED
  BY <1>3 DEF OneOwnerPerJob, Queued, Holders, Executes

-----------------------------------------------------------------------------
(* What one step can do to the table, whoever takes it.                     *)

RowWrite(j) ==
    \/ rows[j].state \in ResumableClaimStates /\ SetRow(j, Reopen(rows[j]))
    \/ CanBegin(rows[j], acquired[j]) /\ SetRow(j, Begin(rows[j]))
    \/ \E o \in Attempts : SetRow(j, Progress(rows[j], o))
    \/ Live(rows[j]) /\ SetRow(j, AcceptCancel(rows[j]))
    \/ \E allowed \in SUBSET IncompleteStates, o \in Attempts :
          SetRow(j, Verdict(rows[j], allowed, o, "error"))

RunEnd(w) ==
    LET j == worker[w].job IN
    \/ worker[w].pc = "finalizing" /\ SetRow(j, Finalize(rows[j], worker[w].own))
    \/ worker[w].pc = "stopping" /\ SetRow(j, Verdict(rows[j], IncompleteStates,
                                                      worker[w].own, "cancelled"))

StoreStep ==
    \/ UNCHANGED rows
    \/ \E swept \in SUBSET Jobs : ReapAll(swept)
    \/ \E j \in Jobs :
          /\ rows[j].state = "absent"
          /\ rows' = Create(rows, j, nextSeq) \/ rows' = Insert(rows, j, nextSeq)
    \/ \E j \in Jobs : RowWrite(j)
    \/ \E w \in Workers : worker[w].job \in Jobs /\ RunEnd(w)

\* Start, shutdown and crash change rows only as a store step.
LEMMA StoreStepOfLife ==
    ASSUME Start \/ StartFaults \/ Shutdown \/ PutSentinel \/ CrashAndRestart
    PROVE  StoreStep
<1>1. (\E swept \in SUBSET Jobs : ReapAll(swept)) \/ UNCHANGED rows
  BY DEF Start, StartFaults, Shutdown, PutSentinel, CrashAndRestart, storeVars
<1> QED
  BY <1>1 DEF StoreStep

\* So do the threads,
LEMMA StoreStepOfWorker ==
    ASSUME TypeOK, NEW w \in Workers, WorkerStep(w) PROVE StoreStep
<1> DEFINE j == worker[w].job
<1>1. worker[w].own \in Attempts /\ (j \in Jobs => acquired[j] \in Attempts)
  BY DEF TypeOK, FieldTypes, Place
<1>2. worker[w].pc \notin {"idle", "off"} => j \in Jobs
  BY DEF TypeOK, FieldTypes, Placed, Place
<1>3. CASE UNCHANGED rows
  BY <1>3 DEF StoreStep
<1>4. CASE BeginRun(w)
  <2>1. RowWrite(j)
    BY <1>4 DEF BeginRun, RowWrite
  <2> QED
    BY <1>2, <1>4, <2>1 DEF BeginRun, StoreStep
<1>5. CASE (WriteProgress(w) \/ StartingFaults(w)) /\ ~UNCHANGED rows
  <2>1. RowWrite(j)
    BY <1>1, <1>5 DEF WriteProgress, StartingFaults, RowWrite
  <2> QED
    BY <1>2, <1>5, <2>1 DEF WriteProgress, StartingFaults, StoreStep
<1>6. CASE (FinalizeDone(w) \/ ClaimCancelled(w) \/ VerdictFaults(w)) /\ ~UNCHANGED rows
  <2>1. RunEnd(w)
    BY <1>6 DEF FinalizeDone, ClaimCancelled, VerdictFaults, Land, RunEnd
  <2> QED
    BY <1>2, <1>6, <2>1 DEF FinalizeDone, ClaimCancelled, VerdictFaults, StoreStep
<1>7. CASE ClaimError(w) \/ Repair(w)
  <2>1. worker[w].pc \in {"failing", "repairing"}
    BY <1>7 DEF ClaimError, Repair
  <2>2. RowWrite(j)
    BY <1>1, <1>2, <1>7, <2>1 DEF ClaimError, Repair, Land, RowWrite
  <2> QED
    BY <1>2, <2>1, <2>2 DEF StoreStep
<1> QED
  BY <1>3, <1>4, <1>5, <1>6, <1>7
     DEF WorkerStep, GetSentinel, GetJob, RegisterToken, BeginRefused, BeginFaults,
         PipelineReturns, PipelineFails, PipelineStops, RepairFaults, Latch, Cleanup,
         storeVars

\* so do the clients,
LEMMA StoreStepOfClient ==
    ASSUME TypeOK, NEW c \in Clients, Call(c) \/ AdmissionStep(c) \/ CancelStep(c)
    PROVE  StoreStep
<1> DEFINE j == client[c].job
<1>1. client[c].claim \in Attempts /\ client[c].seen \in Attempts
  BY DEF TypeOK, FieldTypes, CallPlace
<1>2. client[c].pc \in {"observed", "refused", "cancelling"} => j \in Jobs
  BY DEF TypeOK, Placed
<1>3. CASE UNCHANGED rows
  BY <1>3 DEF StoreStep
<1>4. CASE ResumeClaim(c) \/ Unadmit(c)
  <2>1. RowWrite(j)
    BY <1>1, <1>4 DEF ResumeClaim, CanClaim, Unadmit, RowWrite, IncompleteStates
  <2> QED
    BY <1>2, <1>4, <2>1 DEF ResumeClaim, Unadmit, StoreStep
<1>5. CASE GateReconcile(c)
  <2> DEFINE S == [job : Jobs, attempt : Attempts]
  <2>1. Head(stranded) \in S
    <3>1. stranded \in Seq(S) /\ stranded # <<>>
      BY <1>5 DEF TypeOK, FieldTypes, GateReconcile
    <3> HIDE DEF S
    <3> QED
      BY <3>1, HeadTailProperties
  <2>2. Head(stranded).job \in Jobs /\ Head(stranded).attempt \in Attempts
    BY <2>1
  <2>3. RowWrite(Head(stranded).job)
    BY <1>5, <2>2 DEF GateReconcile, RowWrite
  <2> QED
    BY <2>2, <2>3 DEF StoreStep
<1>6. CASE (SubmitAdmit(c) \/ SubmitFaults(c)) /\ ~UNCHANGED rows
  BY <1>6 DEF SubmitAdmit, SubmitFaults, StoreStep, storeVars
<1>7. CASE (CancelAccept(c) \/ CancelFaults(c)) /\ ~UNCHANGED rows
  <2>1. RowWrite(j)
    BY <1>7 DEF CancelAccept, CancelFaults, CanAcceptCancel, RowWrite
  <2> QED
    BY <1>2, <1>7, <2>1 DEF CancelAccept, CancelFaults, StoreStep
<1> QED
  BY <1>3, <1>4, <1>5, <1>6, <1>7
     DEF Call, SubmitBegin, ResumeObserve, CancelObserve, AdmissionStep, ResumeConflict,
         ResumeSave, ResumeSaveFaults, GateShut, GateReconcileFaults, ResumeAdmit,
         AdmitRefused, UnadmitFaults, CancelStep, CancelRefused, storeVars

\* and so every step.
LEMMA EveryStepIsAStoreStep == TypeOK /\ [Next]_vars => StoreStep
<1>1. UNCHANGED vars => StoreStep
  BY DEF vars, storeVars, StoreStep
<1> QED
  BY <1>1, StoreStepOfLife, StoreStepOfWorker, StoreStepOfClient DEF Next

\* An id once created is never unknown again.
LEMMA NeverForgotten ==
    ASSUME TypeOK, StoreStep, NEW k \in Jobs, rows[k].state # "absent"
    PROVE  rows'[k].state # "absent"
<1>1. rows \in [Jobs -> Row]
  BY DEF TypeOK, FieldTypes
<1>2. ASSUME NEW j \in Jobs, NEW r, SetRow(j, r), r.state # "absent"
      PROVE  rows'[k].state # "absent"
  BY <1>1, <1>2 DEF SetRow
<1>3. CASE \E swept \in SUBSET Jobs : ReapAll(swept)
  <2>1. rows'[k] \in {rows[k], Reap(rows[k])}
    BY <1>3 DEF ReapAll
  <2>2. rows[k] \in Row
    BY <1>1
  <2>3. Reap(rows[k]).state \in {rows[k].state, "error"}
    BY <2>2 DEF Reap, Row
  <2> QED
    BY <2>1, <2>3
<1>4. CASE \E j \in Jobs :
             /\ rows[j].state = "absent"
             /\ rows' = Create(rows, j, nextSeq) \/ rows' = Insert(rows, j, nextSeq)
  <2>1. PICK j \in Jobs : rows' = Create(rows, j, nextSeq) \/ rows' = Insert(rows, j, nextSeq)
    BY <1>4
  <2>2. Insert(rows, j, nextSeq)[k].state # "absent"
    BY <1>1 DEF Insert, Fresh, NoRow
  <2>3. Create(rows, j, nextSeq)[k].state # "absent"
    BY <2>2 DEF Create, Evict, NoRow
  <2> QED
    BY <2>1, <2>2, <2>3
<1>5. ASSUME NEW j \in Jobs, RowWrite(j) PROVE rows'[k].state # "absent"
  <2>1. ASSUME NEW r \in {Reopen(rows[j]), Begin(rows[j]), AcceptCancel(rows[j])}, j = k
        PROVE  r.state # "absent"
    <3>1. rows[j] \in Row
      BY <1>1
    <3>2. Reopen(rows[j]).state = "pending" /\ Begin(rows[j]).state = "running"
      BY <3>1 DEF Row, Reopen, Begin
    <3>3. rows[j].state # "pending" => AcceptCancel(rows[j]).state = rows[j].state
      BY <3>1 DEF Row, AcceptCancel
    <3>4. rows[j].state = "pending" => AcceptCancel(rows[j]).state = "cancelled"
      BY <3>1 DEF Row, AcceptCancel
    <3> QED
      BY <1>5, <2>1, <3>2, <3>3, <3>4
  <2>2. ASSUME NEW o, NEW allowed, j = k
        PROVE  /\ Progress(rows[j], o).state # "absent"
               /\ Verdict(rows[j], allowed, o, "error").state # "absent"
    BY <1>1, <2>2 DEF Row, Progress, Verdict
  <2>3. CASE j = k
    BY <1>2, <1>5, <2>1, <2>2, <2>3 DEF RowWrite
  <2>4. CASE j # k
    BY <1>1, <1>5, <2>4 DEF RowWrite, SetRow
  <2> QED
    BY <2>3, <2>4
<1>6. ASSUME NEW w \in Workers, worker[w].job \in Jobs, RunEnd(w)
      PROVE  rows'[k].state # "absent"
  <2> DEFINE j == worker[w].job
  <2>1. ASSUME NEW o, NEW allowed, j = k
        PROVE  /\ Finalize(rows[j], o).state # "absent"
               /\ Verdict(rows[j], allowed, o, "cancelled").state # "absent"
    BY <1>1, <2>1 DEF Row, Finalize, Verdict
  <2>2. CASE j = k
    BY <1>2, <1>6, <2>1, <2>2 DEF RunEnd
  <2>3. CASE j # k
    BY <1>1, <1>6, <2>3 DEF RunEnd, SetRow
  <2> QED
    BY <2>2, <2>3
<1> QED
  BY <1>3, <1>4, <1>5, <1>6 DEF StoreStep

-----------------------------------------------------------------------------
(* The induction.                                                           *)

\* OwnerInv under start, shutdown and the sentinels.
LEMMA OwnerLife ==
    ASSUME OwnerInv, Start \/ StartFaults \/ Shutdown \/ PutSentinel \/ CrashAndRestart
    PROVE  OneOwnerPerJob'
<1> USE DEF storeVars, lifeVars, poolVars, faultVars
<1>1. CASE Start
  <2>1. \A w \in Workers : worker[w].job = NoJob /\ worker'[w].job = NoJob
    BY <1>1 DEF OwnerInv, TypeOK, Placed, Start, Idle, OffDuty
  <2> QED
    BY <1>1, <2>1, OwnerUntouched DEF OwnerInv, Start, SameJobs
<1>2. CASE StartFaults \/ Shutdown
  BY <1>2, OwnerUntouched DEF OwnerInv, StartFaults, Shutdown, SameJobs
<1>3. CASE PutSentinel
  BY <1>3, OwnerSignals DEF OwnerInv, PutSentinel, SameJobs
<1>4. CASE CrashAndRestart
  <2>1. owned' = {} /\ queue' = <<>> /\ \A w \in Workers : worker'[w].job = NoJob
    BY <1>4 DEF CrashAndRestart, OffDuty
  <2>2. NoJob \notin Jobs /\ DOMAIN queue' = {}
    BY <2>1, ExecutorAssumption DEF ExecutorAssumption
  <2> QED
    BY <2>1, <2>2 DEF OneOwnerPerJob, Queued, Holders, Executes
<1> QED
  BY <1>1, <1>2, <1>3, <1>4

\* A thread keeps its job until it cleans up.
LEMMA KeepsJob ==
    ASSUME TypeOK, NEW w \in Workers, WorkerStep(w),
           ~GetJob(w), ~GetSentinel(w), ~Cleanup(w)
    PROVE  UNCHANGED <<queue, owned>> /\ SameJobs
<1> USE DEF storeVars, lifeVars, poolVars, faultVars
<1>1. ASSUME NEW p, WorkerTo(w, p) PROVE SameJobs
  BY <1>1 DEF WorkerTo, SameJobs, TypeOK, FieldTypes, Place
<1>2. CASE BeginRun(w)
  <2> DEFINE a == rows'[worker[w].job].attempt
  <2>1. worker' = [worker EXCEPT ![w].pc = "starting", ![w].own = a]
    BY <1>2 DEF BeginRun
  <2> HIDE DEF a
  <2>2. SameJobs
    BY <2>1 DEF SameJobs, TypeOK, FieldTypes, Place
  <2> QED
    BY <1>2, <2>2 DEF BeginRun
<1>3. CASE RegisterToken(w) \/ BeginRefused(w) \/ BeginFaults(w) \/ WriteProgress(w)
           \/ StartingFaults(w) \/ PipelineReturns(w) \/ PipelineFails(w)
           \/ PipelineStops(w) \/ FinalizeDone(w) \/ ClaimError(w) \/ ClaimCancelled(w)
           \/ VerdictFaults(w) \/ Repair(w) \/ RepairFaults(w) \/ Latch(w)
  BY <1>1, <1>3 DEF RegisterToken, BeginRefused, BeginFaults, WriteProgress,
       StartingFaults, PipelineReturns, PipelineFails, PipelineStops, FinalizeDone,
       ClaimError, ClaimCancelled, Land, VerdictFaults, Repair, RepairFaults, Latch
<1> QED
  BY <1>2, <1>3 DEF WorkerStep

\* OwnerInv under every step of a thread.
LEMMA OwnerWorker ==
    ASSUME OwnerInv, NEW w \in Workers, WorkerStep(w)
    PROVE  OneOwnerPerJob'
<1>1. CASE GetSentinel(w)
  <2>1. /\ worker[w].job = NoJob /\ worker'[w].job = NoJob
        /\ \A v \in Workers \ {w} : worker'[v] = worker[v]
    BY <1>1 DEF OwnerInv, TypeOK, FieldTypes, Place, Placed, GetSentinel, WorkerTo
  <2> QED
    BY <1>1, <2>1, OwnerDequeues DEF OwnerInv, GetSentinel, Sentinel
<1>2. CASE GetJob(w)
  <2> DEFINE k == Head(queue).job  g == Head(queue).gen
  <2>1. worker' = [worker EXCEPT ![w] = [OffDuty EXCEPT !.pc = "dequeued",
                                                       !.job = k, !.gen = g]]
    BY <1>2 DEF GetJob
  <2> HIDE DEF k, g
  <2>2. worker'[w].job = k /\ \A v \in Workers \ {w} : worker'[v] = worker[v]
    BY <2>1 DEF OwnerInv, TypeOK, FieldTypes, OffDuty
  <2>3. worker[w].job = NoJob
    BY <1>2 DEF OwnerInv, TypeOK, Placed, GetJob
  <2> QED
    BY <1>2, <2>2, <2>3, OwnerDequeues DEF OwnerInv, GetJob, k
<1>3. CASE Cleanup(w)
  <2>1. worker[w].job \in Jobs
    BY <1>3 DEF OwnerInv, TypeOK, FieldTypes, Place, Placed, Cleanup
  <2>2. worker'[w].job = NoJob /\ \A v \in Workers \ {w} : worker'[v] = worker[v]
    BY <1>3 DEF OwnerInv, TypeOK, FieldTypes, Cleanup, Idle, OffDuty
  <2> QED
    BY <1>3, <2>1, <2>2, OwnerReleases DEF OwnerInv, Cleanup
<1>4. CASE ~GetJob(w) /\ ~GetSentinel(w) /\ ~Cleanup(w)
  BY <1>4, KeepsJob, OwnerUntouched DEF OwnerInv
<1> QED
  BY <1>1, <1>2, <1>3, <1>4

\* A call trips a token at most: no thread changes job or place.
LEMMA CallsLeaveThreads ==
    ASSUME TypeOK, NEW c \in Clients, Call(c) \/ AdmissionStep(c) \/ CancelStep(c)
    PROVE  \A v \in Workers : worker'[v].job = worker[v].job /\ worker'[v].pc = worker[v].pc
<1>1. ASSUME NEW u \in Workers, worker' = [worker EXCEPT ![u].tripped = TRUE],
             NEW v \in Workers
      PROVE  worker'[v].job = worker[v].job /\ worker'[v].pc = worker[v].pc
  BY <1>1 DEF TypeOK, FieldTypes, Place
<1>2. UNCHANGED worker \/ CancelAccept(c)
  BY DEF Call, SubmitBegin, ResumeObserve, CancelObserve, AdmissionStep, ResumeClaim,
        ResumeConflict, ResumeSave, ResumeSaveFaults, GateShut, GateReconcile,
        GateReconcileFaults, SubmitAdmit, SubmitFaults, ResumeAdmit, AdmitRefused,
        Unadmit, UnadmitFaults, CancelStep, CancelRefused, CancelFaults
<1>3. UNCHANGED worker \/ \E u \in Workers : worker' = [worker EXCEPT ![u].tripped = TRUE]
  BY <1>2 DEF CancelAccept, Trip
<1> QED
  BY <1>1, <1>3

\* OwnerInv under every step of a client.
LEMMA OwnerClient ==
    ASSUME OwnerInv, NEW c \in Clients, Call(c) \/ AdmissionStep(c) \/ CancelStep(c)
    PROVE  OneOwnerPerJob'
<1>1. SameJobs
  BY CallsLeaveThreads DEF OwnerInv, SameJobs
<1>2. CASE SubmitAdmit(c)
  <2>1. PICK k \in Jobs :
           /\ rows[k].state = "absent"
           /\ owned' = owned \cup {k}
           /\ queue' = Append(queue, [job |-> k, gen |-> 0])
    BY <1>2 DEF SubmitAdmit
  <2>2. k \notin owned /\ 0 \in Attempts
    BY <2>1 DEF OwnerInv, Held, Attempts
  <2> QED
    BY <1>1, <2>1, <2>2, OwnerEnqueues DEF OwnerInv
<1>3. CASE ResumeAdmit(c)
  <2>1. client[c].job \in Jobs /\ client[c].gen \in Attempts
    BY <1>3 DEF OwnerInv, TypeOK, FieldTypes, CallPlace, ResumeAdmit
  <2> QED
    BY <1>1, <1>3, <2>1, OwnerEnqueues DEF OwnerInv, ResumeAdmit
<1>4. CASE ~SubmitAdmit(c) /\ ~ResumeAdmit(c)
  <2>1. UNCHANGED <<queue, owned>>
    BY <1>4 DEF poolVars, Call, SubmitBegin, ResumeObserve, CancelObserve,
        AdmissionStep, ResumeClaim,
        ResumeConflict, ResumeSave, ResumeSaveFaults, GateShut, GateReconcile,
        GateReconcileFaults, SubmitFaults, AdmitRefused, Unadmit, UnadmitFaults,
        CancelStep, CancelAccept, CancelRefused, CancelFaults
  <2> QED
    BY <1>1, <2>1, OwnerUntouched DEF OwnerInv
<1> QED
  BY <1>2, <1>3, <1>4

\* A new hold is on a row that exists.
LEMMA HeldExists ==
    ASSUME OwnerInv, [Next]_vars, NEW j \in Jobs, Held(j)'
    PROVE  rows'[j].state # "absent"
<1> USE DEF storeVars, lifeVars, poolVars, faultVars
<1>1. CASE Held(j)
  BY <1>1, EveryStepIsAStoreStep, NeverForgotten DEF OwnerInv
<1>2. CASE ~Held(j)
  <2>1. CASE Start \/ StartFaults \/ Shutdown \/ PutSentinel \/ CrashAndRestart
    <3>1. \A c \in Clients : AtRest.job # j
      BY ExecutorAssumption DEF ExecutorAssumption, AtRest
    <3> QED
      BY <1>2, <2>1, <3>1 DEF Held, Start, StartFaults, Shutdown, PutSentinel,
          CrashAndRestart
  <2>2. ASSUME NEW w \in Workers, WorkerStep(w) PROVE FALSE
    <3>1. owned' \subseteq owned /\ UNCHANGED client
      BY <2>2 DEF WorkerStep, GetSentinel, GetJob, RegisterToken, BeginRun, BeginRefused,
         BeginFaults, WriteProgress, StartingFaults, PipelineReturns, PipelineFails,
         PipelineStops, FinalizeDone, ClaimError, ClaimCancelled, Land, VerdictFaults,
         Repair, RepairFaults, Latch, Cleanup
    <3> QED
      BY <1>2, <3>1 DEF Held
  <2>3. ASSUME NEW c \in Clients, Call(c) \/ AdmissionStep(c) \/ CancelStep(c)
        PROVE  rows'[j].state # "absent"
    <3>1. CASE SubmitAdmit(c)
      <4>1. PICK k \in Jobs : rows' = Create(rows, k, nextSeq) /\ owned' = owned \cup {k}
        BY <3>1 DEF SubmitAdmit
      <4>2. ClientDone(c)
        BY <3>1 DEF SubmitAdmit
      <4>3. j = k
        BY <1>2, <4>1, <4>2, ExecutorAssumption
           DEF Held, ClientDone, AtRest, ExecutorAssumption, OwnerInv, TypeOK, FieldTypes
      <4> QED
        BY <4>1, <4>3 DEF Create, Evict, Insert, Fresh, NoRow, OwnerInv, TypeOK, FieldTypes
    <3>2. CASE ResumeAdmit(c)
      BY <1>2, <3>2, ExecutorAssumption
         DEF Held, ResumeAdmit, ClientDone, AtRest, ExecutorAssumption, OwnerInv, TypeOK,
             FieldTypes
    <3>3. ASSUME NEW k \in Jobs, ResumeObserve(c, k) \/ CancelObserve(c, k)
          PROVE  rows'[j].state # "absent"
      <4>1. UNCHANGED <<rows, owned>> /\ rows[k].state # "absent"
        BY <3>3 DEF ResumeObserve, CancelObserve, Live, IncompleteStates, ResumableClaimStates
      <4> DEFINE a == rows[k].attempt
      <4>2. \E q : client' = [client EXCEPT ![c] = [AtRest EXCEPT !.pc = q, !.job = k,
                                                                 !.seen = a]]
        BY <3>3 DEF ResumeObserve, CancelObserve
      <4> HIDE DEF a
      <4>3. \A b \in Clients : client'[b].job \in {client[b].job, k}
        BY <4>2 DEF OwnerInv, TypeOK, FieldTypes, AtRest
      <4> QED
        BY <1>2, <4>1, <4>3 DEF Held
    <3>4. ASSUME UNCHANGED owned, \A b \in Clients : client'[b].job \in {client[b].job, NoJob}
          PROVE  FALSE
      BY <1>2, <3>4, ExecutorAssumption DEF Held, ExecutorAssumption
    <3>5. ASSUME ClientDone(c) \/ Refused(c) \/ \E q : ClientTo(c, q)
          PROVE  \A b \in Clients : client'[b].job \in {client[b].job, NoJob}
      BY SMTT(30), <3>5 DEF ClientDone, Refused, ClientTo, AtRest, OwnerInv, TypeOK, FieldTypes,
                  CallPlace
    <3>6. CASE ResumeClaim(c)
      <4> DEFINE a == rows'[client[c].job].attempt
      <4>1. client' = [client EXCEPT ![c].pc = "claimed", ![c].claim = a, ![c].gen = a]
        BY <3>6 DEF ResumeClaim
      <4> HIDE DEF a
      <4>2. \A b \in Clients : client'[b].job = client[b].job
        BY <4>1 DEF OwnerInv, TypeOK, FieldTypes, CallPlace
      <4> QED
        BY <3>4, <3>6, <4>2 DEF ResumeClaim
    <3>7. CASE ResumeSave(c)
      <4>1. client' = [client EXCEPT ![c].pc = "saved", ![c].claim = ReadAttempt(c)]
        BY <3>7 DEF ResumeSave
      <4>2. \A b \in Clients : client'[b].job = client[b].job
        BY <4>1 DEF OwnerInv, TypeOK, FieldTypes, CallPlace
      <4> QED
        BY <3>4, <3>7, <4>2 DEF ResumeSave
    <3>8. CASE SubmitBegin(c) \/ ResumeConflict(c) \/ ResumeSaveFaults(c) \/ GateShut(c)
               \/ GateReconcile(c) \/ GateReconcileFaults(c) \/ SubmitFaults(c)
               \/ AdmitRefused(c) \/ Unadmit(c) \/ UnadmitFaults(c) \/ CancelStep(c)
      BY <3>4, <3>5, <3>8 DEF SubmitBegin, ResumeConflict, ResumeSaveFaults, GateShut,
          GateReconcile, GateReconcileFaults, SubmitFaults, AdmitRefused, Unadmit,
          UnadmitFaults, CancelStep, CancelAccept, CancelRefused, CancelFaults
    <3> QED
      BY <2>3, <3>1, <3>2, <3>3, <3>6, <3>7, <3>8 DEF Call, AdmissionStep
  <2>4. CASE UNCHANGED vars
    BY <1>2, <2>4 DEF vars, Held
  <2> QED
    BY <2>1, <2>2, <2>3, <2>4 DEF Next
<1> QED
  BY <1>1, <1>2

\* Before start and after a crash nobody owns or holds anything.
LEMMA PoolAsleep ==
    ASSUME OwnerInv, [Next]_vars, ~started'
    PROVE  \A w \in Workers : worker'[w].pc = "off"
<1> USE DEF storeVars, lifeVars, poolVars, faultVars
<1>1. CASE Start \/ StartFaults \/ Shutdown \/ PutSentinel \/ CrashAndRestart
  BY <1>1 DEF OwnerInv, Start, StartFaults, Shutdown, PutSentinel, CrashAndRestart, OffDuty
<1>2. ASSUME NEW w \in Workers, WorkerStep(w) PROVE FALSE
  <2>1. worker[w].pc # "off" /\ UNCHANGED started
    BY <1>2 DEF WorkerStep, GetSentinel, GetJob, RegisterToken, BeginRun, BeginRefused,
         BeginFaults, WriteProgress, StartingFaults, PipelineReturns, PipelineFails,
         PipelineStops, FinalizeDone, ClaimError, ClaimCancelled, Land, VerdictFaults,
         Repair, RepairFaults, Latch, Cleanup
  <2> QED
    BY <2>1 DEF OwnerInv
<1>3. ASSUME NEW c \in Clients, Call(c) \/ AdmissionStep(c) \/ CancelStep(c)
      PROVE  UNCHANGED started
  BY <1>3 DEF Call, SubmitBegin, ResumeObserve, CancelObserve, AdmissionStep, ResumeClaim,
        ResumeConflict, ResumeSave, ResumeSaveFaults, GateShut, GateReconcile,
        GateReconcileFaults, SubmitAdmit, SubmitFaults, ResumeAdmit, AdmitRefused,
        Unadmit, UnadmitFaults, CancelStep, CancelAccept, CancelRefused, CancelFaults
<1>4. ASSUME NEW c \in Clients, Call(c) \/ AdmissionStep(c) \/ CancelStep(c)
      PROVE  \A w \in Workers : worker'[w].pc = "off"
  BY <1>3, <1>4, CallsLeaveThreads DEF OwnerInv
<1>5. CASE UNCHANGED vars
  BY <1>5 DEF vars, OwnerInv
<1> QED
  BY <1>1, <1>2, <1>4, <1>5 DEF Next

\* OwnerInv is inductive,
LEMMA OwnerStep == OwnerInv /\ [Next]_vars => OwnerInv'
<1> SUFFICES ASSUME OwnerInv, [Next]_vars PROVE OwnerInv'
  OBVIOUS
<1>1. TypeOK'
  BY TypeStep DEF OwnerInv
<1>2. OneOwnerPerJob'
  <2>1. UNCHANGED vars => OneOwnerPerJob'
    BY OwnerUntouched DEF OwnerInv, vars, poolVars, SameJobs
  <2> QED
    BY <2>1, OwnerLife, OwnerWorker, OwnerClient DEF Next
<1> QED
  BY <1>1, <1>2, HeldExists, PoolAsleep DEF OwnerInv

\* and holds at the start.
LEMMA OwnerInit == Init => OwnerInv
<1> SUFFICES ASSUME Init PROVE OwnerInv
  OBVIOUS
<1>1. TypeOK
  BY TypeInit
<1>2. NoJob \notin Jobs
  BY ExecutorAssumption DEF ExecutorAssumption
<1>3. /\ owned = {} /\ queue = <<>>
      /\ \A w \in Workers : worker[w].job = NoJob /\ worker[w].pc = "off"
      /\ \A c \in Clients : client[c].job = NoJob
  BY DEF Init, VolatileInit, OffDuty, AtRest
<1>4. OneOwnerPerJob
  BY <1>2, <1>3 DEF OneOwnerPerJob, Queued, Holders, Executes
<1> QED
  BY <1>1, <1>2, <1>3, <1>4 DEF OwnerInv, Held

\* The ownership set names exactly the ids the pool has in one queue entry or
\* one thread: no duplicate run, no id lost between queue.get and its token.
THEOREM OneOwner == Spec => []OneOwnerPerJob
<1>1. OwnerInv => OneOwnerPerJob
  BY DEF OwnerInv
<1> QED
  BY <1>1, OwnerInit, OwnerStep, PTL DEF Spec
-----------------------------------------------------------------------------
(* The refinement of the lifecycle.  A row that can still be asked about is *)
(* one that was not evicted.                                                *)

Kept(r) == r.state # "evicted"

PlaceInv(w) ==
    /\ worker[w].pc \in RunPcs => worker[w].own # Unknown
    /\ worker[w].pc \in {"off", "idle", "dequeued", "held"} => worker[w].own = Unknown
    /\ worker[w].pc = "stopping" => worker[w].tripped

AttemptInv(w) ==
    LET p == worker[w]  r == rows[p.job] IN
    p.job \in Jobs /\ Kept(r) =>
        /\ p.own <= r.attempt
        /\ p.own = r.attempt => r.state # "pending"
        /\ p.tripped /\ p.own = r.attempt => r.cancel
        /\ p.tripped /\ p.own = Unknown /\ acquired[p.job] = r.attempt
              => r.state # "pending"

RowInv(j) ==
    /\ Kept(rows[j]) => acquired[j] <= rows[j].attempt
    /\ rows[j].state = "absent" => rows[j] = NoRow

ClaimInv(c) ==
    client[c].job \in Jobs /\ Kept(rows[client[c].job]) =>
        client[c].claim <= rows[client[c].job].attempt

TokenInv == \A j \in Jobs, w \in Workers : tokens[j] = w => worker[w].job = j

RefInv ==
    /\ OwnerInv
    /\ \A w \in Workers : PlaceInv(w) /\ AttemptInv(w)
    /\ \A j \in Jobs : RowInv(j)
    /\ \A c \in Clients : ClaimInv(c)
    /\ TokenInv

-----------------------------------------------------------------------------
(* How a row may change: its attempt never falls, and while it stays, an    *)
(* accepted cancellation stays and the row does not return to the queue.    *)

RowGrows(r, s) ==
    /\ Kept(s) =>
          /\ Kept(r) /\ r.attempt <= s.attempt
          /\ r.state # "absent" /\ r.attempt = s.attempt =>
                /\ r.cancel => s.cancel
                /\ s.state = "pending" => r.state = "pending"
    /\ s.state = "absent" => s = r

\* A row that stays as it is grows.
LEMMA GrowsStill == ASSUME NEW r \in Row PROVE RowGrows(r, r)
  BY DEF RowGrows, Row

\* So does a row under each guarded operation of the store,
LEMMA GrowsOps ==
    ASSUME NEW r \in Row, NEW o \in Attempts, NEW allowed \in SUBSET IncompleteStates
    PROVE  /\ r.state \in ResumableClaimStates => RowGrows(r, Reopen(r))
           /\ CanBegin(r, o) => RowGrows(r, Begin(r))
           /\ RowGrows(r, Progress(r, o))
           /\ Live(r) => RowGrows(r, AcceptCancel(r))
           /\ RowGrows(r, Verdict(r, allowed, o, "error"))
           /\ RowGrows(r, Verdict(r, allowed, o, "cancelled"))
           /\ RowGrows(r, Finalize(r, o))
           /\ RowGrows(r, Reap(r))
<1> USE DEF RowGrows, Kept, Row
<1>1. r.state \in ResumableClaimStates => RowGrows(r, Reopen(r))
  BY DEF Reopen, ResumableClaimStates
<1>2. CanBegin(r, o) => RowGrows(r, Begin(r))
  BY DEF Begin, CanBegin
<1>3. RowGrows(r, Progress(r, o))
  BY DEF Progress, Live, IncompleteStates
<1>4. Live(r) => RowGrows(r, AcceptCancel(r))
  BY DEF AcceptCancel, Live, IncompleteStates
<1>5. /\ RowGrows(r, Verdict(r, allowed, o, "error"))
      /\ RowGrows(r, Verdict(r, allowed, o, "cancelled"))
  BY DEF Verdict, CanClaim, IncompleteStates
<1>6. RowGrows(r, Finalize(r, o))
  BY DEF Finalize, CanFinalize, Live, IncompleteStates
<1>7. RowGrows(r, Reap(r))
  BY DEF Reap, Live, IncompleteStates
<1> QED
  BY <1>1, <1>2, <1>3, <1>4, <1>5, <1>6, <1>7

\* and every row under every store step,
LEMMA RowsGrow ==
    ASSUME TypeOK, \A j \in Jobs : RowInv(j), StoreStep, NEW k \in Jobs
    PROVE  RowGrows(rows[k], rows'[k])
<1>1. rows \in [Jobs -> Row] /\ rows[k] \in Row
  BY DEF TypeOK, FieldTypes
<1>2. ASSUME NEW j \in Jobs, NEW s, SetRow(j, s), j = k => RowGrows(rows[k], s)
      PROVE  RowGrows(rows[k], rows'[k])
  BY <1>1, <1>2, GrowsStill DEF SetRow
<1>3. CASE UNCHANGED rows
  BY <1>1, <1>3, GrowsStill
<1>4. CASE \E swept \in SUBSET Jobs : ReapAll(swept)
  <2>1. rows'[k] \in {rows[k], Reap(rows[k])}
    BY <1>4 DEF ReapAll
  <2>2. RowGrows(rows[k], Reap(rows[k]))
    <3>1. Unknown \in Attempts /\ {} \in SUBSET IncompleteStates
      BY DEF Attempts
    <3> QED
      BY <1>1, <3>1, GrowsOps
  <2> QED
    BY <1>1, <2>1, <2>2, GrowsStill
<1>5. ASSUME NEW j \in Jobs, rows[j].state = "absent",
             rows' = Create(rows, j, nextSeq) \/ rows' = Insert(rows, j, nextSeq)
      PROVE  RowGrows(rows[k], rows'[k])
  <2> DEFINE gone == [NoRow EXCEPT !.state = "evicted"]
  <2>1. RowGrows(NoRow, Fresh(nextSeq)) /\ RowGrows(rows[k], gone)
    BY <1>1 DEF RowGrows, Kept, NoRow, Fresh
  <2>2. RowGrows(rows[k], Insert(rows, j, nextSeq)[k])
    <3>1. CASE j = k
      <4>1. Insert(rows, j, nextSeq)[k] = Fresh(nextSeq) /\ rows[k] = NoRow
        BY <1>1, <1>5, <3>1 DEF Insert, RowInv
      <4> QED
        BY <2>1, <4>1
    <3>2. CASE j # k
      <4>1. Insert(rows, j, nextSeq)[k] = rows[k]
        BY <1>1, <3>2 DEF Insert
      <4> QED
        BY <1>1, <4>1, GrowsStill
    <3> QED
      BY <3>1, <3>2
  <2>3. Create(rows, j, nextSeq)[k] \in {gone, Insert(rows, j, nextSeq)[k]}
    BY DEF Create, Evict
  <2> QED
    BY <1>5, <2>1, <2>2, <2>3
<1>6. ASSUME NEW j \in Jobs, RowWrite(j) PROVE RowGrows(rows[k], rows'[k])
  <2>1. rows[j] \in Row /\ acquired[j] \in Attempts
    BY DEF TypeOK, FieldTypes
  <2>2. \E s : SetRow(j, s) /\ RowGrows(rows[j], s)
    <3>1. Unknown \in Attempts /\ {} \in SUBSET IncompleteStates
      BY DEF Attempts
    <3>2. CASE rows[j].state \in ResumableClaimStates /\ SetRow(j, Reopen(rows[j]))
      BY <2>1, <3>1, <3>2, GrowsOps
    <3>3. CASE CanBegin(rows[j], acquired[j]) /\ SetRow(j, Begin(rows[j]))
      BY <2>1, <3>1, <3>3, GrowsOps
    <3>4. CASE \E o \in Attempts : SetRow(j, Progress(rows[j], o))
      BY <2>1, <3>1, <3>4, GrowsOps
    <3>5. CASE Live(rows[j]) /\ SetRow(j, AcceptCancel(rows[j]))
      BY <2>1, <3>1, <3>5, GrowsOps
    <3>6. CASE \E allowed \in SUBSET IncompleteStates, o \in Attempts :
                  SetRow(j, Verdict(rows[j], allowed, o, "error"))
      BY <2>1, <3>6, GrowsOps
    <3> QED
      BY <1>6, <3>2, <3>3, <3>4, <3>5, <3>6 DEF RowWrite
  <2> QED
    BY <1>2, <2>2
<1>7. ASSUME NEW w \in Workers, worker[w].job \in Jobs, RunEnd(w)
      PROVE  RowGrows(rows[k], rows'[k])
  <2> DEFINE j == worker[w].job
  <2>1. rows[j] \in Row /\ worker[w].own \in Attempts
    BY <1>7 DEF TypeOK, FieldTypes, Place
  <2>2. \E s : SetRow(j, s) /\ RowGrows(rows[j], s)
    BY <1>7, <2>1, GrowsOps DEF RunEnd
  <2> QED
    BY <1>2, <1>7, <2>2
<1> QED
  BY <1>3, <1>4, <1>5, <1>6, <1>7 DEF StoreStep

-----------------------------------------------------------------------------
(* What stays true of whoever does not move while the table grows.          *)

TableGrows == \A k \in Jobs : RowGrows(rows[k], rows'[k])

\* hence under every step of the system.
LEMMA StepGrows == ASSUME RefInv, [Next]_vars PROVE TableGrows
  BY EveryStepIsAStoreStep, RowsGrow DEF RefInv, OwnerInv, TableGrows

\* A thread at work holds a job.
LEMMA HeldByThread ==
    ASSUME RefInv, NEW w \in Workers, worker[w].job \in Jobs
    PROVE  worker[w].job \in owned /\ rows[worker[w].job].state # "absent"
  BY DEF RefInv, OwnerInv, OneOwnerPerJob, Holders, Executes, Held

\* What a thread knows of its attempt survives the steps of others.
LEMMA AttemptKept ==
    ASSUME RefInv, TypeOK', TableGrows, NEW w \in Workers,
           worker'[w].job = worker[w].job, worker'[w].own = worker[w].own,
           worker'[w].tripped = worker[w].tripped,
           worker[w].job \in Jobs => acquired'[worker[w].job] = acquired[worker[w].job]
    PROVE  AttemptInv(w)'
<1> DEFINE j == worker[w].job  r == rows[j]  s == rows'[j]  o == worker[w].own
<1> SUFFICES ASSUME j \in Jobs, Kept(s)
             PROVE  /\ o <= s.attempt
                    /\ o = s.attempt => s.state # "pending"
                    /\ worker[w].tripped /\ o = s.attempt => s.cancel
                    /\ worker[w].tripped /\ o = Unknown /\ acquired[j] = s.attempt
                          => s.state # "pending"
  BY DEF AttemptInv
<1>1. r.state # "absent"
  BY HeldByThread
<1>2. /\ Kept(r) /\ r.attempt <= s.attempt
      /\ r.attempt = s.attempt => /\ r.cancel => s.cancel
                                  /\ s.state = "pending" => r.state = "pending"
  BY <1>1 DEF TableGrows, RowGrows
<1>3. /\ o <= r.attempt
      /\ o = r.attempt => r.state # "pending"
      /\ worker[w].tripped /\ o = r.attempt => r.cancel
      /\ worker[w].tripped /\ o = Unknown /\ acquired[j] = r.attempt
            => r.state # "pending"
  BY <1>2 DEF RefInv, AttemptInv
<1>4. acquired[j] <= r.attempt
  BY <1>2 DEF RefInv, RowInv
<1>5. /\ o \in Int /\ acquired[j] \in Int /\ r.attempt \in Int /\ s.attempt \in Int
  <2>1. rows[j] \in Row /\ rows'[j] \in Row
    BY DEF RefInv, OwnerInv, TypeOK, FieldTypes
  <2>2. worker[w].own \in Attempts /\ acquired[j] \in Attempts
    BY DEF RefInv, OwnerInv, TypeOK, FieldTypes, Place
  <2> QED
    BY <2>1, <2>2 DEF Row, Attempts, Unknown
<1> HIDE DEF j, r, s, o
<1> QED
  BY <1>2, <1>3, <1>4, <1>5

\* A recorded acquisition never overtakes its row.
LEMMA RowKept ==
    ASSUME RefInv, TypeOK', TableGrows, NEW j \in Jobs, acquired'[j] = acquired[j]
    PROVE  RowInv(j)'
<1>1. /\ acquired[j] \in Int /\ rows[j].attempt \in Int /\ rows'[j].attempt \in Int
  <2>1. rows[j] \in Row /\ rows'[j] \in Row /\ acquired[j] \in Attempts
    BY DEF RefInv, OwnerInv, TypeOK, FieldTypes
  <2> QED
    BY <2>1 DEF Row, Attempts, Unknown
<1> QED
  BY <1>1 DEF RefInv, RowInv, TableGrows, RowGrows

\* Neither does the attempt a client was given.
LEMMA ClaimKept ==
    ASSUME RefInv, TypeOK', TableGrows, NEW c \in Clients,
           \/ client'[c].job = NoJob
           \/ client'[c].job = client[c].job /\ client'[c].claim = client[c].claim
    PROVE  ClaimInv(c)'
<1>1. CASE client'[c].job \notin Jobs
  BY <1>1 DEF ClaimInv
<1>2. CASE client'[c].job \in Jobs
  <2> DEFINE j == client[c].job
  <2>1. client'[c].job = j /\ client'[c].claim = client[c].claim /\ j \in Jobs
    BY <1>2, ExecutorAssumption DEF ExecutorAssumption
  <2>2. client[c].claim \in Int /\ rows[j].attempt \in Int /\ rows'[j].attempt \in Int
    <3>1. rows[j] \in Row /\ rows'[j] \in Row /\ client[c].claim \in Attempts
      BY <2>1 DEF RefInv, OwnerInv, TypeOK, FieldTypes, CallPlace
    <3> QED
      BY <3>1 DEF Row, Attempts, Unknown
  <2> QED
    BY <2>1, <2>2 DEF RefInv, ClaimInv, TableGrows, RowGrows
<1> QED
  BY <1>1, <1>2

\* A thread with no job owns no attempt.
LEMMA NoJobNoAttempt ==
    ASSUME NEW w \in Workers, worker'[w].job = NoJob PROVE AttemptInv(w)'
  BY ExecutorAssumption DEF ExecutorAssumption, AttemptInv

-----------------------------------------------------------------------------
(* The steps.                                                               *)

\* RefInv under start, shutdown, the sentinels and a crash.
LEMMA RefLife ==
    ASSUME RefInv, TypeOK', TableGrows,
           Start \/ StartFaults \/ Shutdown \/ PutSentinel \/ CrashAndRestart
    PROVE  /\ \A w \in Workers : PlaceInv(w)' /\ AttemptInv(w)'
           /\ \A j \in Jobs : RowInv(j)'
           /\ \A c \in Clients : ClaimInv(c)'
           /\ TokenInv'
<1> USE DEF storeVars, lifeVars, poolVars, faultVars
<1>1. CASE Start
  <2>1. \A w \in Workers : /\ worker'[w].job = NoJob /\ worker'[w].pc = "idle"
                           /\ worker'[w].own = Unknown
    BY <1>1 DEF Start, Idle, OffDuty
  <2>2. \A w \in Workers : worker[w].job = NoJob
    BY <1>1 DEF RefInv, OwnerInv, TypeOK, Placed, Start
  <2>3. TokenInv'
    BY <1>1, <2>1, <2>2 DEF RefInv, TokenInv, Start
  <2> QED
    BY <1>1, <2>1, <2>3, NoJobNoAttempt, RowKept, ClaimKept DEF Start, PlaceInv, RunPcs
<1>2. CASE StartFaults \/ Shutdown \/ PutSentinel
  <2>1. UNCHANGED <<worker, client, acquired, tokens>>
    BY <1>2 DEF StartFaults, Shutdown, PutSentinel
  <2>2. \A w \in Workers : PlaceInv(w)' /\ AttemptInv(w)'
    BY <2>1, AttemptKept DEF RefInv, PlaceInv
  <2> QED
    BY <2>1, <2>2, RowKept, ClaimKept DEF RefInv, TokenInv
<1>3. CASE CrashAndRestart
  <2>1. \A w \in Workers : /\ worker'[w].job = NoJob /\ worker'[w].pc = "off"
                           /\ worker'[w].own = Unknown
    BY <1>3 DEF CrashAndRestart, OffDuty
  <2>2. \A c \in Clients : client'[c].job = NoJob
    BY <1>3 DEF CrashAndRestart, AtRest
  <2>3. ASSUME NEW j \in Jobs PROVE RowInv(j)'
    <3>1. acquired'[j] = -1 /\ UNCHANGED rows
      BY <1>3 DEF CrashAndRestart, Unknown
    <3>2. rows[j] \in Row
      BY DEF RefInv, OwnerInv, TypeOK, FieldTypes
    <3>3. -1 <= rows[j].attempt
      BY <3>2 DEF Row
    <3> QED
      BY <3>1, <3>3 DEF RefInv, RowInv
  <2>4. TokenInv'
    BY <1>3, ExecutorAssumption DEF CrashAndRestart, TokenInv, ExecutorAssumption
  <2> QED
    BY <2>1, <2>2, <2>3, <2>4, NoJobNoAttempt, ClaimKept DEF PlaceInv, RunPcs
<1> QED
  BY <1>1, <1>2, <1>3

\* A step of one thread keeps what RefInv says of the others.
LEMMA RefWorkerOthers ==
    ASSUME RefInv, TypeOK', TableGrows, NEW w \in Workers, WorkerStep(w)
    PROVE  /\ \A v \in Workers \ {w} : PlaceInv(v)' /\ AttemptInv(v)'
           /\ \A c \in Clients : ClaimInv(c)'
<1>1. \A v \in Workers \ {w} : worker'[v] = worker[v]
  BY DEF WorkerStep, GetSentinel, GetJob, RegisterToken, BeginRun, BeginRefused,
         BeginFaults, WriteProgress, StartingFaults, PipelineReturns, PipelineFails,
         PipelineStops, FinalizeDone, ClaimError, ClaimCancelled, Land, VerdictFaults,
         Repair, RepairFaults, Latch, Cleanup, WorkerTo, RefInv, OwnerInv, TypeOK, FieldTypes
<1>2. UNCHANGED client
  BY DEF WorkerStep, GetSentinel, GetJob, RegisterToken, BeginRun, BeginRefused,
         BeginFaults, WriteProgress, StartingFaults, PipelineReturns, PipelineFails,
         PipelineStops, FinalizeDone, ClaimError, ClaimCancelled, Land, VerdictFaults,
         Repair, RepairFaults, Latch, Cleanup
<1>3. ASSUME NEW k \in Jobs, k # worker[w].job PROVE acquired'[k] = acquired[k]
  <2>1. CASE UNCHANGED acquired
    BY <2>1
  <2>2. CASE BeginRun(w)
    <3> DEFINE a == rows'[worker[w].job].attempt
    <3>1. acquired' = [acquired EXCEPT ![worker[w].job] = a]
      BY <2>2 DEF BeginRun
    <3> HIDE DEF a
    <3> QED
      BY <1>3, <3>1 DEF RefInv, OwnerInv, TypeOK, FieldTypes
  <2>3. CASE Cleanup(w)
    BY <1>3, <2>3 DEF Cleanup, RefInv, OwnerInv, TypeOK, FieldTypes
  <2> QED
    BY <2>1, <2>2, <2>3
       DEF WorkerStep, GetSentinel, GetJob, RegisterToken, BeginRefused, poolVars,
           BeginFaults, WriteProgress, StartingFaults, PipelineReturns, PipelineFails,
           PipelineStops, FinalizeDone, ClaimError, ClaimCancelled, Land, VerdictFaults,
           Repair, RepairFaults, Latch
<1>4. ASSUME NEW v \in Workers \ {w} PROVE PlaceInv(v)' /\ AttemptInv(v)'
  <2>1. worker[v].job \in Jobs => worker[v].job # worker[w].job
    BY ExecutorAssumption DEF RefInv, OwnerInv, OneOwnerPerJob, ExecutorAssumption
  <2> QED
    BY <1>1, <1>3, <2>1, AttemptKept DEF RefInv, PlaceInv
<1> QED
  BY <1>2, <1>4, ClaimKept

\* The start gives a thread the attempt it just wrote.
LEMMA RefBeginRun ==
    ASSUME RefInv, TypeOK', TableGrows, NEW w \in Workers, BeginRun(w)
    PROVE  /\ PlaceInv(w)' /\ AttemptInv(w)' /\ TokenInv'
           /\ \A j \in Jobs : RowInv(j)'
<1> DEFINE j == worker[w].job  r == rows[j]  a == rows'[j].attempt
<1>1. j \in Jobs /\ r \in Row /\ rows'[j] \in Row
  BY DEF RefInv, OwnerInv, TypeOK, FieldTypes, Placed, Place, BeginRun
<1>2. CanBegin(r, acquired[j]) /\ worker[w].pc = "held"
  BY DEF BeginRun
<1>3. rows'[j] = Begin(r)
  BY <1>1 DEF BeginRun, SetRow, RefInv, OwnerInv, TypeOK, FieldTypes
<1>4. rows'[j].state = "running" /\ a \in Nat
  BY <1>1, <1>3 DEF Begin, Row
<1>5. worker' = [worker EXCEPT ![w].pc = "starting", ![w].own = a]
      /\ acquired' = [acquired EXCEPT ![j] = a] /\ UNCHANGED tokens
  BY DEF BeginRun
<1>6. ~worker[w].tripped
  <2>1. worker[w].own = Unknown
    BY <1>2 DEF RefInv, PlaceInv
  <2> QED
    BY <1>1, <1>2, <2>1 DEF RefInv, AttemptInv, CanBegin, Kept
<1> HIDE DEF a
<1>7. /\ worker'[w].pc = "starting" /\ worker'[w].own = a /\ worker'[w].job = j
      /\ worker'[w].tripped = worker[w].tripped /\ SameJobs
  BY <1>5 DEF RefInv, OwnerInv, TypeOK, FieldTypes, Place, SameJobs
<1>8. acquired'[j] = a /\ \A k \in Jobs \ {j} : acquired'[k] = acquired[k]
  BY <1>1, <1>5 DEF RefInv, OwnerInv, TypeOK, FieldTypes
<1>9. PlaceInv(w)'
  BY <1>4, <1>7 DEF PlaceInv, Unknown
<1>10. AttemptInv(w)'
  BY <1>4, <1>6, <1>7 DEF AttemptInv, a
<1>11. TokenInv'
  BY <1>5, <1>7 DEF RefInv, TokenInv, SameJobs
<1>12. ASSUME NEW k \in Jobs PROVE RowInv(k)'
  <2>1. CASE k = j
    BY <1>4, <1>8, <2>1 DEF RowInv, a
  <2>2. CASE k # j
    BY <1>8, <2>2, RowKept
  <2> QED
    BY <2>1, <2>2
<1> QED
  BY <1>9, <1>10, <1>11, <1>12

\* And what it says of the thread that moved.
LEMMA RefWorkerSelf ==
    ASSUME RefInv, TypeOK', TableGrows, NEW w \in Workers, WorkerStep(w)
    PROVE  /\ PlaceInv(w)' /\ AttemptInv(w)' /\ TokenInv'
           /\ \A j \in Jobs : RowInv(j)'
<1> USE DEF storeVars, lifeVars, poolVars, faultVars
<1>1. CASE GetSentinel(w)
  <2>1. /\ worker'[w].job = NoJob /\ worker'[w].pc = "off" /\ SameJobs
        /\ worker'[w].own = worker[w].own
    BY <1>1 DEF RefInv, OwnerInv, TypeOK, FieldTypes, Place, Placed, GetSentinel,
                WorkerTo, SameJobs
  <2>2. UNCHANGED <<acquired, tokens>>
    BY <1>1 DEF GetSentinel
  <2>3. PlaceInv(w)'
    BY <1>1, <2>1 DEF GetSentinel, PlaceInv, RunPcs, RefInv
  <2> QED
    BY <2>1, <2>2, <2>3, NoJobNoAttempt, RowKept DEF RefInv, TokenInv, SameJobs
<1>2. CASE GetJob(w)
  <2> DEFINE k == Head(queue).job  g == Head(queue).gen
  <2>1. worker' = [worker EXCEPT ![w] = [OffDuty EXCEPT !.pc = "dequeued",
                                                       !.job = k, !.gen = g]]
        /\ UNCHANGED <<acquired, tokens>> /\ worker[w].pc = "idle"
    BY <1>2 DEF GetJob
  <2> HIDE DEF k, g
  <2>2. /\ worker'[w].pc = "dequeued" /\ worker'[w].own = Unknown
        /\ worker'[w].tripped = FALSE /\ worker'[w].job = k
        /\ \A v \in Workers \ {w} : worker'[v] = worker[v]
    BY <2>1 DEF RefInv, OwnerInv, TypeOK, FieldTypes, OffDuty
  <2>3. PlaceInv(w)'
    BY <2>2 DEF PlaceInv, RunPcs
  <2>4. AttemptInv(w)'
    <3>1. k \in Jobs => rows'[k].attempt \in Nat
      <4>1. k \in Jobs => rows'[k] \in Row
        BY DEF TypeOK, FieldTypes
      <4> QED
        BY <4>1 DEF Row
    <3> QED
      BY <2>2, <3>1 DEF AttemptInv, Unknown
  <2>5. TokenInv'
    <3>1. worker[w].job = NoJob /\ NoJob \notin Jobs
      BY <2>1, ExecutorAssumption DEF RefInv, OwnerInv, TypeOK, Placed, ExecutorAssumption
    <3> QED
      BY <2>1, <2>2, <3>1 DEF RefInv, TokenInv
  <2> QED
    BY <2>1, <2>3, <2>4, <2>5, RowKept
<1>3. CASE Cleanup(w)
  <2>1. worker'[w].job = NoJob /\ worker'[w].pc = "idle" /\ worker'[w].own = Unknown
        /\ \A v \in Workers \ {w} : worker'[v] = worker[v]
    BY <1>3 DEF RefInv, OwnerInv, TypeOK, FieldTypes, Cleanup, Idle, OffDuty
  <2>2. ASSUME NEW k \in Jobs PROVE RowInv(k)'
    <3>1. CASE k = worker[w].job
      <4>1. acquired'[k] = -1 /\ UNCHANGED rows
        BY <1>3, <3>1 DEF Cleanup, Unknown, RefInv, OwnerInv, TypeOK, FieldTypes
      <4>2. rows[k] \in Row
        BY DEF RefInv, OwnerInv, TypeOK, FieldTypes
      <4>3. -1 <= rows[k].attempt
        BY <4>2 DEF Row
      <4> QED
        BY <4>1, <4>3 DEF RefInv, RowInv
    <3>2. CASE k # worker[w].job
      <4>1. acquired'[k] = acquired[k]
        BY <1>3, <3>2 DEF Cleanup, RefInv, OwnerInv, TypeOK, FieldTypes
      <4> QED
        BY <4>1, RowKept
    <3> QED
      BY <3>1, <3>2
  <2>3. TokenInv'
    <3>1. /\ \A k \in Jobs : tokens'[k] = IF k = worker[w].job THEN NoWorker ELSE tokens[k]
          /\ NoWorker \notin Workers
      BY <1>3, ExecutorAssumption
         DEF Cleanup, RefInv, OwnerInv, TypeOK, FieldTypes, ExecutorAssumption
    <3> QED
      BY <2>1, <3>1 DEF RefInv, TokenInv
  <2> QED
    BY <2>1, <2>2, <2>3, NoJobNoAttempt DEF PlaceInv, RunPcs
<1>4. ASSUME NEW p, WorkerTo(w, p), UNCHANGED acquired
      PROVE  /\ AttemptInv(w)' /\ SameJobs /\ \A j \in Jobs : RowInv(j)'
             /\ worker'[w].pc = p /\ worker'[w].own = worker[w].own
             /\ worker'[w].tripped = worker[w].tripped
  <2>1. /\ worker'[w].pc = p /\ worker'[w].own = worker[w].own
        /\ worker'[w].job = worker[w].job /\ SameJobs
        /\ worker'[w].tripped = worker[w].tripped
    BY <1>4 DEF WorkerTo, SameJobs, RefInv, OwnerInv, TypeOK, FieldTypes, Place
  <2> QED
    BY <1>4, <2>1, AttemptKept, RowKept
<1>5. CASE RegisterToken(w)
  <2>1. WorkerTo(w, "held") /\ UNCHANGED acquired /\ worker[w].pc = "dequeued"
    BY <1>5 DEF RegisterToken
  <2>2. PlaceInv(w)'
    BY <1>4, <2>1 DEF RefInv, PlaceInv, RunPcs
  <2>3. TokenInv'
    <3>1. \A k \in Jobs : tokens'[k] = IF k = worker[w].job THEN w ELSE tokens[k]
      BY <1>5 DEF RegisterToken, RefInv, OwnerInv, TypeOK, FieldTypes
    <3> QED
      BY <1>4, <2>1, <3>1 DEF RefInv, TokenInv, SameJobs
  <2> QED
    BY <1>4, <2>1, <2>2, <2>3
<1>6. CASE BeginRefused(w) \/ BeginFaults(w) \/ StartingFaults(w) \/ FinalizeDone(w)
           \/ ClaimError(w) \/ ClaimCancelled(w) \/ VerdictFaults(w) \/ Repair(w)
           \/ RepairFaults(w) \/ Latch(w)
  <2>1. PICK p \in {"cleanup", "repairing", "latching"} : WorkerTo(w, p)
    BY <1>6 DEF BeginRefused, BeginFaults, StartingFaults, FinalizeDone, ClaimError,
         ClaimCancelled, VerdictFaults, Repair, RepairFaults, Latch, Land
  <2>2. UNCHANGED <<acquired, tokens>>
    BY <1>6 DEF BeginRefused, BeginFaults, StartingFaults, FinalizeDone, ClaimError,
         ClaimCancelled, VerdictFaults, Repair, RepairFaults, Latch, Land
  <2>3. PlaceInv(w)'
    BY <1>4, <2>1, <2>2 DEF PlaceInv, RunPcs
  <2>4. TokenInv'
    BY <1>4, <2>1, <2>2 DEF RefInv, TokenInv, SameJobs
  <2> QED
    BY <1>4, <2>1, <2>2, <2>3, <2>4
<1>7. CASE WriteProgress(w) \/ PipelineReturns(w) \/ PipelineFails(w) \/ PipelineStops(w)
  <2>1. PICK p \in {"running", "finalizing", "failing", "stopping"} :
            WorkerTo(w, p) /\ (p = "stopping" => worker[w].tripped)
    BY <1>7 DEF WriteProgress, PipelineReturns, PipelineFails, PipelineStops
  <2>2. UNCHANGED <<acquired, tokens>> /\ worker[w].pc \in {"starting", "running"}
    BY <1>7 DEF WriteProgress, PipelineReturns, PipelineFails, PipelineStops
  <2>3. worker[w].own # Unknown
    BY <2>2 DEF RefInv, PlaceInv, RunPcs
  <2>4. PlaceInv(w)'
    BY <1>4, <2>1, <2>2, <2>3 DEF PlaceInv
  <2>5. TokenInv'
    BY <1>4, <2>1, <2>2 DEF RefInv, TokenInv, SameJobs
  <2> QED
    BY <1>4, <2>1, <2>2, <2>4, <2>5
<1> QED
  BY <1>1, <1>2, <1>3, <1>5, <1>6, <1>7, RefBeginRun DEF WorkerStep

\* A step of a client keeps what RefInv says of the threads,
LEMMA RefClientThreads ==
    ASSUME RefInv, TypeOK', TableGrows, NEW c \in Clients,
           Call(c) \/ AdmissionStep(c) \/ CancelStep(c)
    PROVE  /\ \A w \in Workers : PlaceInv(w)' /\ AttemptInv(w)'
           /\ \A k \in Jobs : RowInv(k)'
           /\ TokenInv'
<1> USE DEF storeVars, lifeVars, poolVars, faultVars
<1>1. ASSUME UNCHANGED worker,
             \A k \in owned : acquired'[k] = acquired[k]
      PROVE  \A w \in Workers : PlaceInv(w)' /\ AttemptInv(w)'
  BY <1>1, HeldByThread, AttemptKept DEF RefInv, PlaceInv
<1>2. ASSUME NEW k \in Jobs, NEW a \in Attempts, acquired' = [acquired EXCEPT ![k] = a],
             k \notin owned, Kept(rows'[k]) => a <= rows'[k].attempt,
             rows'[k].state # "absent", UNCHANGED <<worker, tokens>>
      PROVE  /\ \A w \in Workers : PlaceInv(w)' /\ AttemptInv(w)'
             /\ \A i \in Jobs : RowInv(i)'
             /\ TokenInv'
  <2>1. acquired'[k] = a /\ \A i \in Jobs \ {k} : acquired'[i] = acquired[i]
    BY <1>2 DEF RefInv, OwnerInv, TypeOK, FieldTypes
  <2>2. \A i \in owned : acquired'[i] = acquired[i]
    BY <1>2, <2>1 DEF RefInv, OwnerInv, TypeOK, FieldTypes
  <2>3. \A w \in Workers : PlaceInv(w)' /\ AttemptInv(w)'
    BY <1>1, <1>2, <2>2
  <2>4. RowInv(k)'
    BY <1>2, <2>1 DEF RowInv
  <2> QED
    BY <1>2, <2>1, <2>3, <2>4, RowKept DEF RefInv, TokenInv
<1>3. CASE UNCHANGED <<worker, acquired, tokens>>
  BY <1>1, <1>3, RowKept DEF RefInv, TokenInv
<1>4. CASE SubmitAdmit(c)
  <2>1. PICK k \in Jobs :
           /\ rows[k].state = "absent" /\ rows' = Create(rows, k, nextSeq)
           /\ acquired' = [acquired EXCEPT ![k] = 0]
    BY <1>4 DEF SubmitAdmit
  <2>2. k \notin owned /\ 0 \in Attempts
    BY <2>1 DEF RefInv, OwnerInv, Held, Attempts
  <2>3. rows'[k] \in Row
    BY DEF TypeOK, FieldTypes
  <2>4. 0 <= rows'[k].attempt
    BY <2>3 DEF Row
  <2>5. rows'[k].state # "absent"
    BY <2>1 DEF Create, Evict, Insert, Fresh, NoRow, RefInv, OwnerInv, TypeOK, FieldTypes
  <2>6. UNCHANGED <<worker, tokens>>
    BY <1>4 DEF SubmitAdmit
  <2> QED
    BY <1>2, <2>1, <2>2, <2>4, <2>5, <2>6
<1>5. CASE ResumeAdmit(c)
  <2> DEFINE k == client[c].job  a == ReadAttempt(c)
  <2>1. /\ k \in Jobs /\ k \notin owned /\ acquired' = [acquired EXCEPT ![k] = a]
        /\ UNCHANGED <<rows, worker, tokens>>
    BY <1>5 DEF ResumeAdmit, RefInv, OwnerInv, TypeOK, FieldTypes, CallPlace
  <2>2. a \in Attempts
    BY <2>1, ReadAttemptType DEF RefInv, OwnerInv, TypeOK
  <2>3. rows[k].state # "absent"
    BY <2>1 DEF RefInv, OwnerInv, Held
  <2>4. Kept(rows[k]) => a <= rows[k].attempt
    <3>1. rows[k].attempt \in Nat
      <4>1. rows[k] \in Row
        BY <2>1 DEF RefInv, OwnerInv, TypeOK, FieldTypes
      <4> QED
        BY <4>1 DEF Row
    <3>2. a \in {rows[k].attempt, client[c].claim}
      BY DEF ReadAttempt
    <3>3. Kept(rows[k]) => client[c].claim <= rows[k].attempt
      BY <2>1 DEF RefInv, ClaimInv
    <3> QED
      BY <3>1, <3>2, <3>3
  <2> HIDE DEF k, a
  <2> QED
    BY <1>2, <2>1, <2>2, <2>3, <2>4
<1>6. CASE CancelAccept(c) /\ ~UNCHANGED worker
  <2>1. PICK j \in Jobs, u \in Workers :
        /\ tokens[j] = u /\ worker' = [worker EXCEPT ![u].tripped = TRUE]
        /\ rows' = [rows EXCEPT ![j] = AcceptCancel(rows[j])]
        /\ Live(rows[j]) /\ UNCHANGED <<acquired, tokens>>
    BY <1>6 DEF CancelAccept, Trip, SetRow, CanAcceptCancel, RefInv, OwnerInv, TypeOK, Placed
  <2>2. worker[u].job = j
    BY <2>1 DEF RefInv, TokenInv
  <2>3. /\ worker'[u].job = j /\ worker'[u].own = worker[u].own
        /\ worker'[u].pc = worker[u].pc /\ worker'[u].tripped
        /\ \A w \in Workers \ {u} : worker'[w] = worker[w]
    BY <2>1, <2>2 DEF RefInv, OwnerInv, TypeOK, FieldTypes, Place
  <2>4. rows[j] \in Row /\ rows'[j] = AcceptCancel(rows[j])
    BY <2>1 DEF RefInv, OwnerInv, TypeOK, FieldTypes
  <2>5. /\ rows'[j].cancel /\ rows'[j].state # "pending"
        /\ rows'[j].attempt = rows[j].attempt /\ Kept(rows[j])
    <3>1. rows[j].state \in {"pending", "running"}
      BY <2>1 DEF Live, IncompleteStates
    <3>2. /\ AcceptCancel(rows[j]).cancel /\ AcceptCancel(rows[j]).state # "pending"
          /\ AcceptCancel(rows[j]).attempt = rows[j].attempt
      BY <2>4, <3>1 DEF AcceptCancel, Row
    <3> QED
      BY <2>4, <3>1, <3>2 DEF Kept
  <2>6. AttemptInv(u)'
    BY <2>1, <2>2, <2>3, <2>5 DEF RefInv, AttemptInv
  <2>7. \A w \in Workers \ {u} : AttemptInv(w)'
    BY <2>1, <2>3, AttemptKept
  <2>8. \A w \in Workers : PlaceInv(w)'
    BY <2>3 DEF RefInv, PlaceInv
  <2>9. TokenInv'
    BY <2>1, <2>2, <2>3 DEF RefInv, TokenInv
  <2> QED
    BY <2>1, <2>6, <2>7, <2>8, <2>9, RowKept
<1> QED
  BY <1>3, <1>4, <1>5, <1>6
     DEF Call, SubmitBegin, ResumeObserve, CancelObserve, AdmissionStep, ResumeClaim,
        ResumeConflict, ResumeSave, ResumeSaveFaults, GateShut, GateReconcile,
        GateReconcileFaults, SubmitFaults, AdmitRefused, Unadmit, UnadmitFaults,
        CancelStep, CancelAccept, CancelRefused, CancelFaults

\* and of the claims of the clients.
LEMMA RefClientClaims ==
    ASSUME RefInv, TypeOK', TableGrows, NEW c \in Clients,
           Call(c) \/ AdmissionStep(c) \/ CancelStep(c)
    PROVE  \A b \in Clients : ClaimInv(b)'
<1> USE DEF storeVars, lifeVars, poolVars, faultVars
<1>1. ASSUME \A b \in Clients \ {c} : client'[b] = client[b], ClaimInv(c)'
      PROVE  \A b \in Clients : ClaimInv(b)'
  BY <1>1, ClaimKept
<1>2. ASSUME ClientDone(c) \/ Refused(c) \/ \E q : ClientTo(c, q)
      PROVE  /\ \A b \in Clients \ {c} : client'[b] = client[b]
             /\ \/ client'[c].job = NoJob
                \/ client'[c].job = client[c].job /\ client'[c].claim = client[c].claim
  BY <1>2 DEF ClientDone, Refused, ClientTo, AtRest, RefInv, OwnerInv, TypeOK, FieldTypes,
              CallPlace
<1>3. CASE ClientDone(c) \/ Refused(c) \/ \E q : ClientTo(c, q)
  BY <1>1, <1>2, <1>3, ClaimKept
<1>4. ASSUME NEW k \in Jobs, ResumeObserve(c, k) \/ CancelObserve(c, k)
      PROVE  \A b \in Clients : ClaimInv(b)'
  <2> DEFINE a == rows[k].attempt
  <2>1. \E q : client' = [client EXCEPT ![c] = [AtRest EXCEPT !.pc = q, !.job = k,
                                                              !.seen = a]]
    BY <1>4 DEF ResumeObserve, CancelObserve
  <2> HIDE DEF a
  <2>2. /\ \A b \in Clients \ {c} : client'[b] = client[b]
        /\ client'[c].job = k /\ client'[c].claim = -1
    BY <2>1 DEF RefInv, OwnerInv, TypeOK, FieldTypes, AtRest, Unknown
  <2>3. rows'[k] \in Row
    BY DEF TypeOK, FieldTypes
  <2>4. -1 <= rows'[k].attempt
    BY <2>3 DEF Row
  <2> QED
    BY <1>1, <2>2, <2>4 DEF ClaimInv
<1>5. CASE ResumeClaim(c)
  <2> DEFINE a == rows'[client[c].job].attempt
  <2>1. /\ client' = [client EXCEPT ![c].pc = "claimed", ![c].claim = a, ![c].gen = a]
        /\ client[c].pc = "observed"
    BY <1>5 DEF ResumeClaim
  <2>2. rows'[client[c].job] \in Row
    BY <2>1 DEF RefInv, OwnerInv, TypeOK, Placed, FieldTypes
  <2>3. a <= a
    BY <2>2 DEF Row
  <2> HIDE DEF a
  <2>4. /\ \A b \in Clients \ {c} : client'[b] = client[b]
        /\ client'[c].job = client[c].job /\ client'[c].claim = a
    BY <2>1 DEF RefInv, OwnerInv, TypeOK, FieldTypes, CallPlace
  <2>5. ClaimInv(c)'
    BY <2>3, <2>4 DEF ClaimInv, a
  <2> QED
    BY <1>1, <2>4, <2>5
<1>6. CASE ResumeSave(c)
  <2> DEFINE j == client[c].job
  <2>1. /\ client' = [client EXCEPT ![c].pc = "saved", ![c].claim = ReadAttempt(c)]
        /\ j \in Jobs /\ UNCHANGED rows
    BY <1>6 DEF ResumeSave, RefInv, OwnerInv, TypeOK, Placed
  <2>2. /\ \A b \in Clients \ {c} : client'[b] = client[b]
        /\ client'[c].job = j /\ client'[c].claim = ReadAttempt(c)
    BY <2>1 DEF RefInv, OwnerInv, TypeOK, FieldTypes, CallPlace
  <2>3. Kept(rows[j]) => ReadAttempt(c) <= rows[j].attempt
    <3>1. rows[j].attempt \in Nat
      <4>1. rows[j] \in Row
        BY <2>1 DEF RefInv, OwnerInv, TypeOK, FieldTypes
      <4> QED
        BY <4>1 DEF Row
    <3>2. ReadAttempt(c) \in {rows[j].attempt, client[c].claim}
      BY DEF ReadAttempt
    <3>3. Kept(rows[j]) => client[c].claim <= rows[j].attempt
      BY <2>1 DEF RefInv, ClaimInv
    <3> QED
      BY <3>1, <3>2, <3>3
  <2>4. ClaimInv(c)'
    BY <2>1, <2>2, <2>3 DEF ClaimInv
  <2> QED
    BY <1>1, <2>2, <2>4
<1> QED
  BY <1>3, <1>4, <1>5, <1>6
     DEF Call, SubmitBegin, AdmissionStep, ResumeConflict, ResumeSaveFaults, GateShut,
        GateReconcile, GateReconcileFaults, SubmitAdmit, SubmitFaults, ResumeAdmit,
        AdmitRefused, Unadmit, UnadmitFaults, CancelStep, CancelAccept, CancelRefused,
        CancelFaults

\* RefInv is inductive,
LEMMA RefStep == RefInv /\ [Next]_vars => RefInv'
<1> SUFFICES ASSUME RefInv, [Next]_vars PROVE RefInv'
  OBVIOUS
<1>1. OwnerInv' /\ TypeOK' /\ TableGrows
  BY OwnerStep, StepGrows DEF RefInv, OwnerInv
<1>2. CASE Start \/ StartFaults \/ Shutdown \/ PutSentinel \/ CrashAndRestart
  BY <1>1, <1>2, RefLife DEF RefInv
<1>3. ASSUME NEW w \in Workers, WorkerStep(w) PROVE RefInv'
  BY <1>1, <1>3, RefWorkerOthers, RefWorkerSelf DEF RefInv
<1>4. ASSUME NEW c \in Clients, Call(c) \/ AdmissionStep(c) \/ CancelStep(c)
      PROVE  RefInv'
  BY <1>1, <1>4, RefClientThreads, RefClientClaims DEF RefInv
<1>5. CASE UNCHANGED vars
  <2>1. UNCHANGED <<worker, client, acquired, tokens>>
    BY <1>5 DEF vars, poolVars
  <2>2. \A w \in Workers : PlaceInv(w)' /\ AttemptInv(w)'
    BY <1>1, <2>1, AttemptKept DEF RefInv, PlaceInv
  <2> QED
    BY <1>1, <2>1, <2>2, RowKept, ClaimKept DEF RefInv, TokenInv
<1> QED
  BY <1>2, <1>3, <1>4, <1>5 DEF Next

\* holds at the start,
LEMMA RefInit == Init => RefInv
<1> SUFFICES ASSUME Init PROVE RefInv
  OBVIOUS
<1> USE DEF Init, VolatileInit
<1>1. \A w \in Workers : PlaceInv(w) /\ AttemptInv(w)
  BY ExecutorAssumption DEF PlaceInv, AttemptInv, OffDuty, RunPcs, ExecutorAssumption
<1>2. \A j \in Jobs : RowInv(j)
  BY DEF RowInv, NoRow, Unknown
<1>3. \A c \in Clients : ClaimInv(c)
  BY ExecutorAssumption DEF ClaimInv, AtRest, ExecutorAssumption
<1>4. TokenInv
  BY ExecutorAssumption DEF TokenInv, ExecutorAssumption
<1> QED
  BY <1>1, <1>2, <1>3, <1>4, OwnerInit DEF RefInv

\* and so always.
LEMMA RefInvariant == Spec => []RefInv
  BY RefInit, RefStep, PTL DEF Spec

\* A thread is only ever stopped by a cancellation accepted on the generation
\* it runs.
THEOREM TokensAreNotStray == Spec => []NoStrayStop
<1>1. RefInv => NoStrayStop
  <2> SUFFICES ASSUME RefInv, NEW w \in Workers,
                      worker[w].tripped, worker[w].own # Unknown,
                      Present(rows[worker[w].job]),
                      rows[worker[w].job].attempt = worker[w].own
               PROVE  rows[worker[w].job].cancel
    BY DEF NoStrayStop
  <2>1. worker[w].pc \notin {"off", "idle"}
    BY DEF RefInv, PlaceInv
  <2>2. worker[w].job \in Jobs
    BY <2>1 DEF RefInv, OwnerInv, TypeOK, FieldTypes, Place, Placed
  <2>3. Kept(rows[worker[w].job])
    BY DEF Kept, Present, Live, Settled, IncompleteStates, TerminalStates
  <2> QED
    BY <2>2, <2>3 DEF RefInv, AttemptInv
<1> QED
  BY <1>1, RefInvariant, PTL

-----------------------------------------------------------------------------
(* The refinement: every store step is a step of the lifecycle, or none.    *)

SameRows ==
    \A k \in Jobs : /\ rows'[k].state = rows[k].state
                    /\ rows'[k].attempt = rows[k].attempt
                    /\ rows'[k].cancel = rows[k].cancel

\* What one write of one row does to the three fields the lifecycle sees.
LEMMA WriteSeen ==
    ASSUME TypeOK, NEW j \in Jobs, NEW s, SetRow(j, s), NEW k \in Jobs
    PROVE  /\ rows'[k].state = IF k = j THEN s.state ELSE rows[k].state
           /\ rows'[k].attempt = IF k = j THEN s.attempt ELSE rows[k].attempt
           /\ rows'[k].cancel = IF k = j THEN s.cancel ELSE rows[k].cancel
  BY DEF TypeOK, FieldTypes, SetRow

\* A write that changes none of the three is not seen.
LEMMA SameSeen ==
    ASSUME TypeOK, NEW j \in Jobs, NEW s, SetRow(j, s),
           s.state = rows[j].state, s.attempt = rows[j].attempt, s.cancel = rows[j].cancel
    PROVE  SameRows
  BY WriteSeen DEF SameRows

\* An unseen step is a stutter of the lifecycle.
LEMMA RefineSteady ==
    ASSUME SameRows PROVE UNCHANGED Lifecycle!vars
  BY DEF SameRows, Lifecycle!vars

\* A verdict of ERROR, on one row.
LEMMA RefineError ==
    ASSUME TypeOK, NEW j \in Jobs, NEW o, NEW allowed \in SUBSET IncompleteStates,
           SetRow(j, Verdict(rows[j], allowed, o, "error"))
    PROVE  [Lifecycle!Next]_(Lifecycle!vars)
<1>1. rows[j] \in Row
  BY DEF TypeOK, FieldTypes
<1>2. CASE CanClaim(rows[j], allowed, o)
  <2> DEFINE s == [rows[j] EXCEPT !.state = "error", !.label = "final"]
  <2>1. SetRow(j, s)
    BY <1>2 DEF Verdict
  <2>2. s.state = "error" /\ s.attempt = rows[j].attempt /\ s.cancel = rows[j].cancel
    BY <1>1 DEF Row
  <2> HIDE DEF s
  <2>3. \A k \in Jobs : /\ rows'[k].state = IF k \in {j} THEN "error" ELSE rows[k].state
                        /\ rows'[k].attempt = rows[k].attempt
                        /\ rows'[k].cancel = rows[k].cancel
    BY <2>1, <2>2, WriteSeen
  <2>4. rows[j].state \in Lifecycle!Incomplete
    BY <1>2 DEF CanClaim, IncompleteStates, Lifecycle!Incomplete
  <2>5. Lifecycle!Fail({j})
    BY <2>3, <2>4 DEF Lifecycle!Fail
  <2> QED
    BY <2>5 DEF Lifecycle!Next
<1>3. CASE ~CanClaim(rows[j], allowed, o)
  BY <1>1, <1>3, SameSeen, RefineSteady DEF Verdict
<1> QED
  BY <1>2, <1>3

\* The reap at start fails the live rows at once.
LEMMA RefineReap ==
    ASSUME TypeOK, NEW swept \in SUBSET Jobs, ReapAll(swept)
    PROVE  [Lifecycle!Next]_(Lifecycle!vars)
<1> PICK failed \in SUBSET Jobs : failed = {k \in swept : Live(rows[k])}
  OBVIOUS
<1>1. ASSUME NEW k \in Jobs
      PROVE  /\ rows'[k].state = IF k \in failed THEN "error" ELSE rows[k].state
             /\ rows'[k].attempt = rows[k].attempt /\ rows'[k].cancel = rows[k].cancel
  <2>1. rows[k] \in Row
    BY DEF TypeOK, FieldTypes
  <2>2. rows'[k] = IF k \in failed
                   THEN [rows[k] EXCEPT !.state = "error", !.label = "final"] ELSE rows[k]
    BY DEF ReapAll, Reap
  <2> QED
    BY <2>1, <2>2 DEF Row
<1>2. \A k \in failed : rows[k].state \in Lifecycle!Incomplete
  BY DEF Live, IncompleteStates, Lifecycle!Incomplete
<1>3. Lifecycle!Fail(failed)
  BY <1>1, <1>2 DEF Lifecycle!Fail
<1> QED
  BY <1>3 DEF Lifecycle!Next

\* create, prune and all, is one submission of the lifecycle.
LEMMA RefineCreate ==
    ASSUME RefInv, NEW j \in Jobs, rows[j].state = "absent",
           rows' = Create(rows, j, nextSeq) \/ rows' = Insert(rows, j, nextSeq)
    PROVE  [Lifecycle!Next]_(Lifecycle!vars)
<1> DEFINE t == Insert(rows, j, nextSeq)  gone == [NoRow EXCEPT !.state = "evicted"]
<1>1. rows \in [Jobs -> Row] /\ rows[j] = NoRow
  BY DEF RefInv, RowInv, OwnerInv, TypeOK, FieldTypes
<1>2. /\ t \in [Jobs -> Row] /\ t[j] = Fresh(nextSeq)
      /\ \A k \in Jobs \ {j} : t[k] = rows[k]
  BY <1>1, CreateType DEF Insert, RefInv, OwnerInv, TypeOK
<1>3. PICK dropped \in SUBSET Jobs :
         /\ \A k \in dropped : Settled(t[k])
         /\ rows' = [k \in Jobs |-> IF k \in dropped THEN gone ELSE t[k]]
  <2>1. CASE rows' = Create(rows, j, nextSeq)
    <3>1. Doomed(t) \in SUBSET Jobs /\ \A k \in Doomed(t) : Settled(t[k])
      BY DEF Doomed
    <3> QED
      BY <2>1, <3>1 DEF Create, Evict
  <2>2. CASE rows' = t
    <3> HIDE DEF t, gone
    <3>1. rows' = [k \in Jobs |-> IF k \in {} THEN gone ELSE t[k]]
      BY <1>2, <2>2
    <3>2. {} \in SUBSET Jobs /\ \A k \in {} : Settled(t[k])
      OBVIOUS
    <3> QED
      BY <3>1, <3>2
  <2> QED
    BY <2>1, <2>2
<1>4. /\ Fresh(nextSeq).state = "pending" /\ Fresh(nextSeq).attempt = 0
      /\ Fresh(nextSeq).cancel = FALSE
      /\ gone.state = "evicted" /\ gone.attempt = 0 /\ gone.cancel = FALSE
      /\ NoRow.attempt = 0 /\ NoRow.cancel = FALSE
  BY DEF Fresh, NoRow
<1> HIDE DEF t, gone
<1>5. j \notin dropped
  BY <1>2, <1>3, <1>4 DEF Settled, TerminalStates
<1>6. ASSUME NEW k \in Jobs
      PROVE  /\ rows'[k].state = IF k = j THEN "pending"
                                 ELSE IF k \in dropped THEN "evicted" ELSE rows[k].state
             /\ rows'[k].attempt = IF k \in dropped THEN 0 ELSE rows[k].attempt
             /\ rows'[k].cancel = IF k \in dropped THEN FALSE ELSE rows[k].cancel
  <2>1. rows'[k] = IF k \in dropped THEN gone ELSE t[k]
    BY <1>3
  <2>2. CASE k = j
    BY <1>1, <1>2, <1>4, <1>5, <2>1, <2>2
  <2>3. CASE k # j
    BY <1>2, <1>4, <2>1, <2>3
  <2> QED
    BY <2>2, <2>3
<1>7. \A k \in dropped : rows[k].state \in Lifecycle!Terminal
  BY <1>2, <1>3, <1>5 DEF Settled, TerminalStates, Lifecycle!Terminal
<1>8. Lifecycle!Submit(j, dropped)
  BY <1>6, <1>7 DEF Lifecycle!Submit
<1> QED
  BY <1>8 DEF Lifecycle!Next

\* Every other guarded write of a row is one step of it or a stutter.
LEMMA RefineWrite ==
    ASSUME TypeOK, NEW j \in Jobs, RowWrite(j)
    PROVE  [Lifecycle!Next]_(Lifecycle!vars)
<1>1. rows[j] \in Row
  BY DEF TypeOK, FieldTypes
<1>2. CASE rows[j].state \in ResumableClaimStates /\ SetRow(j, Reopen(rows[j]))
  <2> DEFINE s == Reopen(rows[j])
  <2>1. s.state = "pending" /\ s.attempt = rows[j].attempt + 1 /\ s.cancel = FALSE
    BY <1>1 DEF Reopen, Row
  <2> HIDE DEF s
  <2>2. SetRow(j, s)
    BY <1>2 DEF s
  <2>3. Lifecycle!Reopen(j)
    BY ZenonT(40), <1>2, <2>1, <2>2, WriteSeen
       DEF Lifecycle!Reopen, ResumableClaimStates
  <2> QED
    BY <2>3 DEF Lifecycle!Next
<1>3. CASE CanBegin(rows[j], acquired[j]) /\ SetRow(j, Begin(rows[j]))
  <2> DEFINE s == Begin(rows[j])
  <2>1. s.state = "running" /\ s.attempt = rows[j].attempt + 1 /\ s.cancel = rows[j].cancel
    BY <1>1 DEF Begin, Row
  <2> HIDE DEF s
  <2>2. SetRow(j, s)
    BY <1>3 DEF s
  <2>3. \A k \in Jobs : /\ rows'[k].state = IF k = j THEN "running" ELSE rows[k].state
                        /\ rows'[k].attempt = IF k = j THEN rows[j].attempt + 1 ELSE rows[k].attempt
                        /\ rows'[k].cancel = rows[k].cancel
    BY <2>1, <2>2, WriteSeen
  <2>4. Lifecycle!Start(j)
    BY <1>3, <2>3 DEF Lifecycle!Start, CanBegin
  <2> QED
    BY <2>4 DEF Lifecycle!Next
<1>4. CASE \E o \in Attempts : SetRow(j, Progress(rows[j], o))
  <2>1. PICK o \in Attempts : SetRow(j, Progress(rows[j], o))
    BY <1>4
  <2> DEFINE s == Progress(rows[j], o)
  <2>2. s.state = rows[j].state /\ s.attempt = rows[j].attempt /\ s.cancel = rows[j].cancel
    BY <1>1 DEF Progress, Row
  <2> QED
    BY <2>1, <2>2, SameSeen, RefineSteady
<1>5. CASE Live(rows[j]) /\ SetRow(j, AcceptCancel(rows[j]))
  <2> DEFINE s == AcceptCancel(rows[j])
  <2>1. /\ s.attempt = rows[j].attempt /\ s.cancel = TRUE
        /\ s.state = IF rows[j].state = "pending" THEN "cancelled" ELSE rows[j].state
    BY <1>1 DEF AcceptCancel, Row
  <2> HIDE DEF s
  <2>2. SetRow(j, s) /\ rows[j].state \in {"pending", "running"}
    BY <1>5 DEF s, Live, IncompleteStates
  <2>3. CASE rows[j].state = "pending"
    <3>1. s.state = "cancelled" /\ s.attempt = rows[j].attempt /\ s.cancel = TRUE
      BY <2>1, <2>3
    <3>2. ASSUME NEW k \in Jobs
          PROVE  /\ rows'[k].state = IF k = j THEN "cancelled" ELSE rows[k].state
                 /\ rows'[k].attempt = rows[k].attempt
                 /\ rows'[k].cancel = IF k = j THEN TRUE ELSE rows[k].cancel
      <4>1. /\ rows'[k].state = IF k = j THEN s.state ELSE rows[k].state
            /\ rows'[k].attempt = IF k = j THEN s.attempt ELSE rows[k].attempt
            /\ rows'[k].cancel = IF k = j THEN s.cancel ELSE rows[k].cancel
        BY <2>2, WriteSeen
      <4>2. CASE k = j
        BY <3>1, <4>1, <4>2
      <4>3. CASE k # j
        BY <4>1, <4>3
      <4> QED
        BY <4>2, <4>3
    <3>3. Lifecycle!CancelQueued(j)
      BY <2>3, <3>2 DEF Lifecycle!CancelQueued
    <3> QED
      BY <3>3 DEF Lifecycle!Next
  <2>4. CASE rows[j].state = "running"
    <3>1. s.state = "running" /\ s.attempt = rows[j].attempt /\ s.cancel = TRUE
      BY <2>1, <2>4
    <3>2. ASSUME NEW k \in Jobs
          PROVE  /\ rows'[k].state = IF k = j THEN "running" ELSE rows[k].state
                 /\ rows'[k].attempt = rows[k].attempt
                 /\ rows'[k].cancel = IF k = j THEN TRUE ELSE rows[k].cancel
      <4>1. /\ rows'[k].state = IF k = j THEN s.state ELSE rows[k].state
            /\ rows'[k].attempt = IF k = j THEN s.attempt ELSE rows[k].attempt
            /\ rows'[k].cancel = IF k = j THEN s.cancel ELSE rows[k].cancel
        BY <2>2, WriteSeen
      <4>2. CASE k = j
        BY <3>1, <4>1, <4>2
      <4>3. CASE k # j
        BY <4>1, <4>3
      <4> QED
        BY <4>2, <4>3
    <3>3. Lifecycle!CancelRunning(j)
      BY <2>4, <3>2 DEF Lifecycle!CancelRunning
    <3> QED
      BY <3>3 DEF Lifecycle!Next
  <2> QED
    BY <2>2, <2>3, <2>4
<1>6. CASE \E allowed \in SUBSET IncompleteStates, o \in Attempts :
              SetRow(j, Verdict(rows[j], allowed, o, "error"))
  BY <1>6, RefineError
<1> QED
  BY <1>2, <1>3, <1>4, <1>5, <1>6 DEF RowWrite

\* The end of a run: a thread that holds the row's own attempt knows it running,
\* and one that stops knows its cancellation accepted.
LEMMA RefineRunEnd ==
    ASSUME RefInv, NEW w \in Workers, worker[w].job \in Jobs, RunEnd(w)
    PROVE  [Lifecycle!Next]_(Lifecycle!vars)
<1> PICK j \in Jobs : j = worker[w].job
  OBVIOUS
<1> DEFINE r == rows[j]  o == worker[w].own
<1>1. r \in Row /\ TypeOK
  BY DEF RefInv, OwnerInv, TypeOK, FieldTypes
<1>2. CASE ~(Live(r) /\ r.attempt = o)
  <2>1. SetRow(j, r)
    BY <1>2 DEF RunEnd, Finalize, CanFinalize, Verdict, CanClaim, Live
  <2> QED
    BY <1>1, <2>1, SameSeen, RefineSteady
<1>3. CASE Live(r) /\ r.attempt = o
  <2>1. r.state = "running" /\ (worker[w].tripped => r.cancel)
    BY <1>3 DEF RefInv, AttemptInv, Kept, Live, IncompleteStates
  <2>2. CASE r.cancel
    <3> DEFINE s == [r EXCEPT !.state = "cancelled", !.label = "final"]
    <3>1. SetRow(j, s)
      BY <1>3, <2>2 DEF RunEnd, Finalize, CanFinalize, Verdict, CanClaim, Live
    <3>2. s.state = "cancelled" /\ s.attempt = r.attempt /\ s.cancel = r.cancel
      BY <1>1 DEF Row
    <3> HIDE DEF s
    <3>3. \A k \in Jobs : /\ rows'[k].state = IF k = j THEN "cancelled" ELSE rows[k].state
                          /\ rows'[k].attempt = rows[k].attempt
                          /\ rows'[k].cancel = rows[k].cancel
      BY <1>1, <3>1, <3>2, WriteSeen
    <3>4. Lifecycle!Stop(j)
      BY <2>1, <2>2, <3>3 DEF Lifecycle!Stop
    <3> QED
      BY <3>4 DEF Lifecycle!Next
  <2>3. CASE ~r.cancel
    <3> DEFINE s == [r EXCEPT !.state = "done", !.label = "final"]
    <3>1. worker[w].pc # "stopping"
      BY <2>1, <2>3 DEF RefInv, PlaceInv
    <3>2. SetRow(j, s)
      BY <1>3, <2>3, <3>1 DEF RunEnd, Finalize, CanFinalize
    <3>3. s.state = "done" /\ s.attempt = r.attempt /\ s.cancel = r.cancel
      BY <1>1 DEF Row
    <3> HIDE DEF s
    <3>4. Lifecycle!Complete(j)
      BY <1>1, <2>1, <2>3, <3>2, <3>3, WriteSeen
         DEF Lifecycle!Complete
    <3> QED
      BY <3>4 DEF Lifecycle!Next
  <2> QED
    BY <2>2, <2>3
<1> QED
  BY <1>2, <1>3

\* The pool, its clients, startup recovery and every fault of the store keep
\* the lifecycle of a row.
THEOREM ExecutorImplementsLifecycle == Spec => ImplementsLifecycle
<1>1. Init => Lifecycle!Init
  BY DEF Init, NoRow, Lifecycle!Init
<1>2. RefInv /\ [Next]_vars => [Lifecycle!Next]_(Lifecycle!vars)
  <2> SUFFICES ASSUME RefInv, [Next]_vars PROVE [Lifecycle!Next]_(Lifecycle!vars)
    OBVIOUS
  <2>1. TypeOK
    BY DEF RefInv, OwnerInv
  <2>2. StoreStep
    BY <2>1, EveryStepIsAStoreStep
  <2>3. CASE UNCHANGED rows
    BY <2>3, RefineSteady DEF SameRows
  <2> QED
    BY <2>1, <2>2, <2>3, RefineReap, RefineCreate, RefineWrite, RefineRunEnd DEF StoreStep
<1> QED
  BY <1>1, <1>2, RefInvariant, PTL DEF Spec, ImplementsLifecycle, Lifecycle!Spec
-----------------------------------------------------------------------------
(* What the lifecycle promises holds of the executor's rows.               *)

Facts == INSTANCE JobLifecycle_proofs WITH
    state   <- [j \in Jobs |-> rows[j].state],
    attempt <- [j \in Jobs |-> rows[j].attempt],
    cancel  <- [j \in Jobs |-> rows[j].cancel]

\* The executor's lifecycle is the one the abstract theorems are about.
LEMMA SameLifecycle == Lifecycle!Spec => Facts!Spec
<1>1. Lifecycle!Init => Facts!Init
  BY DEF Lifecycle!Init, Facts!Init
<1>2. [Lifecycle!Next]_(Lifecycle!vars) => [Facts!Next]_(Facts!vars)
  BY DEF Lifecycle!Next, Facts!Next, Lifecycle!vars, Facts!vars,
         Lifecycle!Submit, Facts!Submit, Lifecycle!Start, Facts!Start,
         Lifecycle!CancelQueued, Facts!CancelQueued,
         Lifecycle!CancelRunning, Facts!CancelRunning,
         Lifecycle!Complete, Facts!Complete, Lifecycle!Stop, Facts!Stop,
         Lifecycle!Fail, Facts!Fail, Lifecycle!Reopen, Facts!Reopen,
         Lifecycle!Terminal, Facts!Terminal, Lifecycle!Incomplete, Facts!Incomplete
<1> QED
  BY <1>1, <1>2, PTL DEF Lifecycle!Spec, Facts!Spec

\* No verdict is rewritten under its own attempt, whatever raised, raced or
\* arrived late: begin_attempt, claim, finalize_done and accept_cancel pin it.
THEOREM VerdictsStand == Spec => VerdictStands
<1>1. Facts!Spec => Facts!VerdictOncePerAttempt
  BY Facts!OneVerdict
<1>2. Spec => Lifecycle!Spec
  BY ExecutorImplementsLifecycle DEF ImplementsLifecycle
<1>3. Facts!VerdictOncePerAttempt => VerdictStands
  BY PTL DEF Lifecycle!VerdictOncePerAttempt, Facts!VerdictOncePerAttempt,
             VerdictStands, Facts!Terminal, Lifecycle!Terminal,
             Facts!vars, Lifecycle!vars
<1> QED
  BY <1>1, <1>2, <1>3, SameLifecycle, PTL

\* finalize_done and accept_cancel never leave DONE over an accepted stop.
THEOREM StopsAreHonoured == Spec => []NoDoneOverAcceptedStop
<1>1. Facts!Spec => []Facts!NoDoneWithCancel
  BY Facts!NeverDoneWithCancel
<1>2. Spec => Lifecycle!Spec
  BY ExecutorImplementsLifecycle DEF ImplementsLifecycle
<1>3. Facts!NoDoneWithCancel => NoDoneOverAcceptedStop
  BY DEF Facts!NoDoneWithCancel, NoDoneOverAcceptedStop, Lifecycle!NoDoneWithCancel
<1> QED
  BY <1>1, <1>2, <1>3, SameLifecycle, PTL
=============================================================================
