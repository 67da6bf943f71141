------------------------------ MODULE JobStore ------------------------------
(***************************************************************************)
(* The guarded row operations of core/jobs.py (MemoryJobStore) and         *)
(* core/sqlite_store.py (SqliteJobStore).  Both stores give each of them   *)
(* as one indivisible read-test-write, so each is one operator here: a     *)
(* guard Can...(r, ...) and the row the write leaves behind.  A refused    *)
(* write (the code returns None) leaves the row as it was.                 *)
(*                                                                         *)
(* A row keeps the fields that ownership decisions read: state, attempt,   *)
(* cancel_requested, seq (its age) and the progress label reduced to the   *)
(* four things a polling client must be able to tell apart.                *)
(*                                                                         *)
(* A definition that no other uses is a mistake the code could contain,    *)
(* stated just before the definition it would replace; the properties are  *)
(* tried against it.                                                       *)
(***************************************************************************)
EXTENDS Integers, FiniteSets

CONSTANTS
    Jobs,       \* the job ids that may ever be created
    MaxRows     \* max_jobs: the rows kept before old terminal ones are dropped

ASSUME MaxRowsAssumption == MaxRows \in Nat \ {0}

TerminalStates  == {"done", "error", "cancelled"}
IncompleteStates == {"pending", "running"}
ResumableClaimStates == {"error", "cancelled"}

\* "absent": the id was never created; "evicted": the row was dropped.
RowStates == TerminalStates \cup IncompleteStates \cup {"absent", "evicted"}

\* "waiting" for "" and "resuming", "stage" for "starting" and every pipeline
\* stage, "cancelling" as in the code, "final" for the labels of a verdict.
Labels == {"waiting", "stage", "cancelling", "final"}

Row == [state : RowStates, attempt : Nat, cancel : BOOLEAN,
        label : Labels, seq : Nat]

NoRow == [state |-> "absent", attempt |-> 0, cancel |-> FALSE,
          label |-> "waiting", seq |-> 0]

Live(r)     == r.state \in IncompleteStates
Settled(r)  == r.state \in TerminalStates
Present(r)  == Live(r) \/ Settled(r)

-----------------------------------------------------------------------------
(* claim: the one conditional transition.  Every caller of the modelled     *)
(* code pins the attempt it observed or owns.                               *)

CanClaimByStateOnly(r, allowed, observed) == r.state \in allowed

CanClaim(r, allowed, observed) ==
    /\ r.state \in allowed
    /\ r.attempt = observed

\* The acquiring claim of a resume: advance_attempt, and the stale error and
\* cancellation flag cleared.
Reopen(r) ==
    [r EXCEPT !.state = "pending", !.attempt = @ + 1,
              !.cancel = FALSE, !.label = "waiting"]

\* The verdict a run (or a refused admission) lands through claim.
Verdict(r, allowed, observed, s) ==
    IF CanClaim(r, allowed, observed)
    THEN [r EXCEPT !.state = s, !.label = "final"]
    ELSE r

-----------------------------------------------------------------------------
(* begin_attempt: PENDING, uncancelled, and still the acquired generation.  *)

CanBegin(r, observed) ==
    /\ r.state = "pending"
    /\ r.attempt = observed
    /\ ~r.cancel

Begin(r) == [r EXCEPT !.state = "running", !.attempt = @ + 1]

(* update_owned with a progress label: refuses a row that left the owned    *)
(* generation, settled, or carries an accepted cancellation.                *)
Progress(r, owned) ==
    IF Live(r) /\ r.attempt = owned /\ ~r.cancel
    THEN [r EXCEPT !.label = "stage"]
    ELSE r

-----------------------------------------------------------------------------
(* accept_cancel: CANCELLED at once when PENDING, the flag when RUNNING.    *)

CanAcceptCancel(r, observed) ==
    /\ Live(r)
    /\ r.attempt = observed

AcceptCancel(r) ==
    IF r.state = "pending"
    THEN [r EXCEPT !.state = "cancelled", !.cancel = TRUE, !.label = "final"]
    ELSE [r EXCEPT !.cancel = TRUE, !.label = "cancelling"]

(* finalize_done: the single place where completion and cancellation race.  *)
CanFinalize(r, owned) ==
    /\ Live(r)
    /\ r.attempt = owned

FinalizeOnlyDone(r, owned) ==
    IF CanFinalize(r, owned) /\ ~r.cancel
    THEN [r EXCEPT !.state = "done", !.label = "final"] ELSE r

Finalize(r, owned) ==
    IF CanFinalize(r, owned)
    THEN [r EXCEPT !.state = IF r.cancel THEN "cancelled" ELSE "done",
                   !.label = "final"]
    ELSE r

\* reap_incomplete on one row: an unconditional update to ERROR.
Reap(r) ==
    IF Live(r) THEN [r EXCEPT !.state = "error", !.label = "final"] ELSE r

-----------------------------------------------------------------------------
(* create, and the eviction that ends it.                                   *)

Fresh(n) == [NoRow EXCEPT !.state = "pending", !.seq = n]

Older(rows, j, k) == rows[j].seq <= rows[k].seq

DoomedAnyState(rows) ==
    LET kept == {j \in Jobs : Present(rows[j])}
    IN  {j \in kept : Cardinality({k \in kept : Older(rows, k, j)})
                          <= Cardinality(kept) - MaxRows}

\* The oldest terminal rows, as many as the table is over its capacity.
Doomed(rows) ==
    LET kept     == {j \in Jobs : Present(rows[j])}
        finished == {j \in Jobs : Settled(rows[j])}
    IN  {j \in finished :
            Cardinality({k \in finished : Older(rows, k, j)})
                <= Cardinality(kept) - MaxRows}

Evict(rows) ==
    [j \in Jobs |-> IF j \in Doomed(rows)
                    THEN [NoRow EXCEPT !.state = "evicted"] ELSE rows[j]]

Insert(rows, j, n) == [rows EXCEPT ![j] = Fresh(n)]

Create(rows, j, n) == Evict(Insert(rows, j, n))
=============================================================================
