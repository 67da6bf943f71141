---------------------------- MODULE JobLifecycle ----------------------------
(***************************************************************************)
(* What the job system promises about a row, whoever writes it: the        *)
(* lifecycle of docs/architecture.md ("Ownership", "One owned attempt      *)
(* drives the row") as a state machine with no pool, no queue and no       *)
(* clients.  JobExecutor implements it.                                    *)
(*                                                                         *)
(* An attempt is the identity of an acquisition.  It moves only when a run *)
(* starts or a resume reopens the row; each generation gets one verdict;   *)
(* a verdict is undone only by a reopen; DONE is for good; and the choice  *)
(* between DONE and CANCELLED agrees with the accepted cancellation.       *)
(***************************************************************************)
EXTENDS Naturals

CONSTANT Jobs

VARIABLES
    state,      \* Job.state, or "absent" / "evicted"
    attempt,    \* Job.attempt
    cancel      \* Job.cancel_requested

vars == <<state, attempt, cancel>>

Terminal   == {"done", "error", "cancelled"}
Incomplete == {"pending", "running"}

TypeOK ==
    /\ state \in [Jobs -> Terminal \cup Incomplete \cup {"absent", "evicted"}]
    /\ attempt \in [Jobs -> Nat]
    /\ cancel \in [Jobs -> BOOLEAN]

Init ==
    /\ state = [j \in Jobs |-> "absent"]
    /\ attempt = [j \in Jobs |-> 0]
    /\ cancel = [j \in Jobs |-> FALSE]

\* A new row, at the cost of some settled ones.
Submit(j, dropped) ==
    /\ state[j] = "absent"
    /\ \A k \in dropped : state[k] \in Terminal
    /\ state' = [k \in Jobs |-> IF k = j THEN "pending"
                                ELSE IF k \in dropped THEN "evicted"
                                ELSE state[k]]
    /\ attempt' = [k \in Jobs |-> IF k \in dropped THEN 0 ELSE attempt[k]]
    /\ cancel' = [k \in Jobs |-> IF k \in dropped THEN FALSE ELSE cancel[k]]

Start(j) ==
    /\ state[j] = "pending" /\ ~cancel[j]
    /\ state' = [state EXCEPT ![j] = "running"]
    /\ attempt' = [attempt EXCEPT ![j] = @ + 1]
    /\ UNCHANGED cancel

\* Nothing is in flight for a queued job, so its cancellation is a verdict.
CancelQueued(j) ==
    /\ state[j] = "pending"
    /\ state' = [state EXCEPT ![j] = "cancelled"]
    /\ cancel' = [cancel EXCEPT ![j] = TRUE]
    /\ UNCHANGED attempt

\* A running job is only asked to stop.
CancelRunning(j) ==
    /\ state[j] = "running"
    /\ cancel' = [cancel EXCEPT ![j] = TRUE]
    /\ UNCHANGED <<state, attempt>>

\* The two ends of a run that returned: decided by the accepted cancellation.
Complete(j) ==
    /\ state[j] = "running" /\ ~cancel[j]
    /\ state' = [state EXCEPT ![j] = "done"]
    /\ UNCHANGED <<attempt, cancel>>

Stop(j) ==
    /\ state[j] = "running" /\ cancel[j]
    /\ state' = [state EXCEPT ![j] = "cancelled"]
    /\ UNCHANGED <<attempt, cancel>>

\* One job fails, or a restart fails every job that lost its worker.
Fail(failed) ==
    /\ \A j \in failed : state[j] \in Incomplete
    /\ state' = [j \in Jobs |-> IF j \in failed THEN "error" ELSE state[j]]
    /\ UNCHANGED <<attempt, cancel>>

\* The claim of an explicit resume: a new generation, with no cancellation.
Reopen(j) ==
    /\ state[j] \in {"error", "cancelled"}
    /\ state' = [state EXCEPT ![j] = "pending"]
    /\ attempt' = [attempt EXCEPT ![j] = @ + 1]
    /\ cancel' = [cancel EXCEPT ![j] = FALSE]

Next ==
    \/ \E j \in Jobs, dropped \in SUBSET Jobs : Submit(j, dropped)
    \/ \E j \in Jobs : \/ Start(j) \/ CancelQueued(j) \/ CancelRunning(j)
                       \/ Complete(j) \/ Stop(j) \/ Reopen(j)
    \/ \E failed \in SUBSET Jobs : Fail(failed)

Spec == Init /\ [][Next]_vars

-----------------------------------------------------------------------------
\* A finished-looking DONE row never carries an accepted cancellation, and a
\* queued row never carries one either (a start would have to ignore it).
NoDoneWithCancel ==
    \A j \in Jobs : state[j] \in {"done", "pending"} => ~cancel[j]

\* A generation is judged once: a settled row keeps its verdict until it is
\* reopened under a newer attempt or dropped from the table.
VerdictOncePerAttempt ==
    [][\A j \in Jobs : state[j] \in Terminal =>
          \/ state'[j] = state[j] /\ attempt'[j] = attempt[j]
          \/ state'[j] = "pending" /\ attempt'[j] > attempt[j] /\ state[j] # "done"
          \/ state'[j] = "evicted"]_vars
=============================================================================
