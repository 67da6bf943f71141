------------------------- MODULE JobLifecycle_proofs -------------------------
(***************************************************************************)
(* The promises of JobLifecycle, for every set of jobs.                    *)
(***************************************************************************)
EXTENDS JobLifecycle, TLAPS

\* NoDoneWithCancel alone is not inductive: a new row must start uncancelled.
Untouched == \A j \in Jobs : state[j] = "absent" => attempt[j] = 0 /\ ~cancel[j]

Inv == TypeOK /\ NoDoneWithCancel /\ Untouched

\* The fields of a row keep their types, and neither a DONE nor a PENDING row
\* ever carries an accepted cancellation (finalize_done, begin_attempt).
THEOREM LifecycleInvariant == Spec => []Inv
<1>1. Init => Inv
  BY DEF Init, Inv, TypeOK, NoDoneWithCancel, Untouched, Terminal, Incomplete
<1>2. Inv /\ [Next]_vars => Inv'
  <2> SUFFICES ASSUME Inv, [Next]_vars PROVE Inv'
    OBVIOUS
  <2> USE DEF Inv, TypeOK, NoDoneWithCancel, Untouched, Terminal, Incomplete
  <2>1. ASSUME NEW j \in Jobs, NEW dropped \in SUBSET Jobs, Submit(j, dropped)
        PROVE  Inv'
    BY <2>1 DEF Submit
  <2>2. ASSUME NEW j \in Jobs, Start(j) PROVE Inv'
    BY <2>2 DEF Start
  <2>3. ASSUME NEW j \in Jobs, CancelQueued(j) \/ CancelRunning(j) PROVE Inv'
    BY <2>3 DEF CancelQueued, CancelRunning
  <2>4. ASSUME NEW j \in Jobs, Complete(j) \/ Stop(j) PROVE Inv'
    BY <2>4 DEF Complete, Stop
  <2>5. ASSUME NEW failed \in SUBSET Jobs, Fail(failed) PROVE Inv'
    BY <2>5 DEF Fail
  <2>6. ASSUME NEW j \in Jobs, Reopen(j) PROVE Inv'
    BY <2>6 DEF Reopen
  <2>7. CASE UNCHANGED vars
    BY <2>7 DEF vars
  <2> QED
    BY <2>1, <2>2, <2>3, <2>4, <2>5, <2>6, <2>7 DEF Next
<1> QED
  BY <1>1, <1>2, PTL DEF Spec

\* No DONE row carries an accepted cancellation, whatever raced with it.
THEOREM NeverDoneWithCancel == Spec => []NoDoneWithCancel
<1>1. Inv => NoDoneWithCancel
  BY DEF Inv
<1> QED
  BY <1>1, LifecycleInvariant, PTL

\* Each attempt is judged at most once: a verdict changes only when a resume
\* reopens the row under a newer attempt, and DONE never does.
THEOREM OneVerdict == Spec => VerdictOncePerAttempt
<1> DEFINE Kept ==
      \A j \in Jobs : state[j] \in Terminal =>
          \/ state'[j] = state[j] /\ attempt'[j] = attempt[j]
          \/ state'[j] = "pending" /\ attempt'[j] > attempt[j] /\ state[j] # "done"
          \/ state'[j] = "evicted"
<1>1. Inv /\ [Next]_vars => [Kept]_vars
  <2> SUFFICES ASSUME Inv, Next PROVE Kept
    BY DEF vars
  <2> USE DEF Inv, TypeOK, Terminal, Incomplete
  <2>1. ASSUME NEW j \in Jobs, NEW dropped \in SUBSET Jobs, Submit(j, dropped)
        PROVE  Kept
    BY <2>1 DEF Submit
  <2>2. ASSUME NEW j \in Jobs, Start(j) PROVE Kept
    BY <2>2 DEF Start
  <2>3. ASSUME NEW j \in Jobs, CancelQueued(j) \/ CancelRunning(j) PROVE Kept
    BY <2>3 DEF CancelQueued, CancelRunning
  <2>4. ASSUME NEW j \in Jobs, Complete(j) \/ Stop(j) PROVE Kept
    BY <2>4 DEF Complete, Stop
  <2>5. ASSUME NEW failed \in SUBSET Jobs, Fail(failed) PROVE Kept
    BY <2>5 DEF Fail
  <2>6. ASSUME NEW j \in Jobs, Reopen(j) PROVE Kept
    BY <2>6 DEF Reopen
  <2> QED
    BY <2>1, <2>2, <2>3, <2>4, <2>5, <2>6 DEF Next
<1> QED
  BY <1>1, LifecycleInvariant, PTL DEF Spec, VerdictOncePerAttempt
=============================================================================
