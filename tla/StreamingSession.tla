------------------------- MODULE StreamingSession -------------------------
(***************************************************************************)
(* The life of the live sessions of core/streaming.py: the registry of     *)
(* slots, start, finish, a failing read, and cancel from another thread.   *)
(* Each session owns one child process (core/streaming_process.py).        *)
(*                                                                         *)
(* Two threads work on a session: its owner, who starts it, drives it and  *)
(* finishes it (the adapter calls the core from one task at a time), and   *)
(* whoever cancels it: the socket's cleanup, or the server's shutdown.     *)
(* An action is a stretch between two points where the other may step in:  *)
(* cancel holds _terminal_lock throughout, start reads the state without.  *)
(*                                                                         *)
(* A definition that no other uses is a mistake the code could contain,    *)
(* stated just before the definition it would replace.                     *)
(***************************************************************************)
EXTENDS Naturals, FiniteSets

CONSTANTS
    Sessions,
    MaxSessions,        \* the process-wide ceiling, _max_sessions
    Reckless            \* the sessions that are cancelled at any moment, start
                        \* included; the others are once they run

ASSUME SessionAssumption ==
    /\ MaxSessions \in Nat \ {0}
    /\ Reckless \subseteq Sessions
    /\ IsFiniteSet(Sessions)

VARIABLES
    state,      \* _state
    slots,      \* _active_sessions
    worker,     \* the sessions whose _worker is set
    child,      \* the owned process: "none" before Popen, "alive", "gone"
    closed,     \* the workers whose terminate was entered, _closed
    owner,      \* the place of the thread in start, read_event or finish
    canceller,  \* the place of the thread in cancel, which holds the lock
    told        \* sessions whose cancel took effect and returned

vars == <<state, slots, worker, child, closed, owner, canceller, told>>

Terminal == {"finished", "cancelled", "failed"}

StartPcs == {"slot", "reserved", "factory", "built", "launch", "handshake",
             "check", "publish"}
RestPcs  == {"new", "live", "done"}
OwnerPcs == RestPcs \cup StartPcs \cup
            {"fail", "finishing", "drained", "terminate", "kill", "giveback"}

\* Where the owner is, and where it goes on after a terminate.
Place == [pc : OwnerPcs, then : {"fail", "giveback", "done"}]

TypeOK ==
    /\ state \in [Sessions -> Terminal \cup {"created", "running"}]
    /\ slots \subseteq Sessions
    /\ worker \subseteq Sessions /\ closed \subseteq Sessions /\ told \subseteq Sessions
    /\ child \in [Sessions -> {"none", "alive", "gone"}]
    /\ owner \in [Sessions -> Place]
    /\ canceller \in [Sessions -> {"idle", "terminate", "kill", "release"}]

Init ==
    /\ state = [s \in Sessions |-> "created"]
    /\ slots = {} /\ worker = {} /\ closed = {} /\ told = {}
    /\ child = [s \in Sessions |-> "none"]
    /\ owner = [s \in Sessions |-> [pc |-> "new", then |-> "done"]]
    /\ canceller = [s \in Sessions |-> "idle"]

At(s, pc)  == owner[s].pc = pc
Go(s, pc)  == owner' = [owner EXCEPT ![s].pc = pc]
TerminateThen(s, pc) == owner' = [owner EXCEPT ![s] = [pc |-> "terminate", then |-> pc]]
Unlocked(s) == canceller[s] = "idle"

-----------------------------------------------------------------------------
(* start                                                                    *)

StartBegin(s) ==
    /\ At(s, "new")
    /\ Go(s, IF state[s] = "created" THEN "slot" ELSE "done")
    /\ UNCHANGED <<state, slots, worker, child, closed, canceller, told>>

AcquireSlot(s) ==
    /\ At(s, "slot")
    /\ Cardinality(slots) < MaxSessions
    /\ slots' = slots \cup {s}
    /\ Go(s, "reserved")
    /\ UNCHANGED <<state, worker, child, closed, canceller, told>>

\* SessionLimitError: the session stays created and may be started later.
SlotRefused(s) ==
    /\ At(s, "slot")
    /\ Cardinality(slots) >= MaxSessions
    /\ Go(s, "new")
    /\ UNCHANGED <<state, slots, worker, child, closed, canceller, told>>

\* Nothing was built yet, so a cancel that came first costs only the slot.
RecheckSlot(s) ==
    /\ At(s, "reserved")
    /\ IF state[s] = "created"
       THEN Go(s, "factory") /\ UNCHANGED slots
       ELSE Go(s, "done") /\ slots' = slots \ {s}
    /\ UNCHANGED <<state, worker, child, closed, canceller, told>>

BuildWorker(s) ==
    /\ At(s, "factory")
    /\ worker' = worker \cup {s}
    /\ Go(s, "built")
    /\ UNCHANGED <<state, slots, child, closed, canceller, told>>

RecheckWorker(s) ==
    /\ At(s, "built")
    /\ IF state[s] = "created"
       THEN Go(s, "launch") /\ UNCHANGED slots
       ELSE TerminateThen(s, "fail") /\ slots' = slots \ {s}
    /\ UNCHANGED <<state, worker, child, closed, canceller, told>>

\* Popen returned a child, or raised.
Launch(s) ==
    /\ At(s, "launch")
    /\ \/ child' = [child EXCEPT ![s] = "alive"] /\ Go(s, "handshake")
       \/ UNCHANGED child /\ TerminateThen(s, "fail")
    /\ UNCHANGED <<state, slots, worker, closed, canceller, told>>

\* The child reports "started", even past a cancel on its way; or it does
\* not within the deadline, dies, or is being terminated.
Handshake(s) ==
    /\ At(s, "handshake")
    /\ \/ child[s] = "alive" /\ Go(s, "check")
       \/ TerminateThen(s, "fail")
    /\ UNCHANGED <<state, slots, worker, child, closed, canceller, told>>

FinalCheckSkipsTerminate(s) ==
    /\ At(s, "check")
    /\ IF state[s] = "created" THEN Go(s, "publish") ELSE Go(s, "giveback")
    /\ UNCHANGED <<state, slots, worker, child, closed, canceller, told>>

FinalCheck(s) ==
    /\ At(s, "check")
    /\ IF state[s] = "created" THEN Go(s, "publish") ELSE TerminateThen(s, "giveback")
    /\ UNCHANGED <<state, slots, worker, child, closed, canceller, told>>

GiveBack(s) ==
    /\ At(s, "giveback")
    /\ slots' = slots \ {s}
    /\ Go(s, "done")
    /\ UNCHANGED <<state, worker, child, closed, canceller, told>>

\* self._state = "running", under no lock.
Publish(s) ==
    /\ At(s, "publish")
    /\ state' = [state EXCEPT ![s] = "running"]
    /\ Go(s, "live")
    /\ UNCHANGED <<slots, worker, child, closed, canceller, told>>

-----------------------------------------------------------------------------
(* A live session: it is read, it is finished, or it turns out cancelled.   *)

\* Any fatal record, a lost worker or a stalled chunk on the read side.
ReadFails(s) ==
    /\ At(s, "live") /\ state[s] = "running"
    /\ Go(s, "fail")
    /\ UNCHANGED <<state, slots, worker, child, closed, canceller, told>>

FinishBegin(s) ==
    /\ At(s, "live") /\ state[s] = "running"
    /\ Go(s, "finishing")
    /\ UNCHANGED <<state, slots, worker, child, closed, canceller, told>>

\* feed and finish raise on a session that is not running any more.
OwnerLeaves(s) ==
    /\ At(s, "live") /\ state[s] # "running"
    /\ Go(s, "done")
    /\ UNCHANGED <<state, slots, worker, child, closed, canceller, told>>

\* The child's final record and its "done" were read.
Drain(s) ==
    /\ At(s, "finishing") /\ child[s] = "alive"
    /\ Go(s, "drained")
    /\ UNCHANGED <<state, slots, worker, child, closed, canceller, told>>

\* The deadline, an error record, a killed child; or a final event that is
\* refused (a regressed clock, a pending tail, a full event queue).
FinishFails(s) ==
    /\ At(s, "finishing") \/ At(s, "drained")
    /\ Go(s, "fail")
    /\ UNCHANGED <<state, slots, worker, child, closed, canceller, told>>

\* _finalize under the lock: a cancel that came first keeps its state.
Finalize(s) ==
    /\ At(s, "drained") /\ Unlocked(s)
    /\ IF state[s] = "cancelled"
       THEN UNCHANGED <<state, slots>>
       ELSE /\ state' = [state EXCEPT ![s] = "finished"]
            /\ slots' = slots \ {s}
    /\ TerminateThen(s, "done")
    /\ UNCHANGED <<worker, child, closed, canceller, told>>

\* _fail_and_release: state and slot under the lock, the child after it.  Past
\* a cancel the read side returns at once and finish still terminates; the
\* cancel has closed the worker by then, so the terminate does nothing.
FailAndRelease(s) ==
    /\ At(s, "fail") /\ Unlocked(s)
    /\ IF state[s] \in {"created", "running"}
       THEN /\ state' = [state EXCEPT ![s] = "failed"]
            /\ slots' = slots \ {s}
       ELSE UNCHANGED <<state, slots>>
    /\ TerminateThen(s, "done")
    /\ UNCHANGED <<worker, child, closed, canceller, told>>

-----------------------------------------------------------------------------
(* SubprocessWorker.terminate: nothing before Popen returned or once it was *)
(* entered; otherwise the owned handle is killed within the cancel budget.  *)

Killable(s) == s \in worker /\ child[s] # "none" /\ s \notin closed

OwnerTerminate(s) ==
    /\ At(s, "terminate")
    /\ IF Killable(s)
       THEN closed' = closed \cup {s} /\ Go(s, "kill")
       ELSE UNCHANGED closed /\ Go(s, owner[s].then)
    /\ UNCHANGED <<state, slots, worker, child, canceller, told>>

OwnerKill(s) ==
    /\ At(s, "kill")
    /\ child' = [child EXCEPT ![s] = "gone"]
    /\ Go(s, owner[s].then)
    /\ UNCHANGED <<state, slots, worker, closed, canceller, told>>

ChildDies(s) ==
    /\ child[s] = "alive"
    /\ child' = [child EXCEPT ![s] = "gone"]
    /\ UNCHANGED <<state, slots, worker, closed, owner, canceller, told>>

-----------------------------------------------------------------------------
(* cancel, inside _terminal_lock from its test of the state to the slot.    *)

CancelBegin(s) ==
    /\ Unlocked(s)
    /\ state[s] \notin Terminal
    /\ s \in Reckless \/ state[s] = "running"
    /\ state' = [state EXCEPT ![s] = "cancelled"]
    /\ canceller' = [canceller EXCEPT ![s] = "terminate"]
    /\ UNCHANGED <<slots, worker, child, closed, owner, told>>

CancelTerminateSignalsOnly(s) ==
    /\ canceller[s] = "terminate"
    /\ closed' = IF Killable(s) THEN closed \cup {s} ELSE closed
    /\ canceller' = [canceller EXCEPT ![s] = "release"]
    /\ UNCHANGED <<state, slots, worker, child, owner, told>>

CancelTerminate(s) ==
    /\ canceller[s] = "terminate"
    /\ IF Killable(s)
       THEN closed' = closed \cup {s} /\ canceller' = [canceller EXCEPT ![s] = "kill"]
       ELSE UNCHANGED closed /\ canceller' = [canceller EXCEPT ![s] = "release"]
    /\ UNCHANGED <<state, slots, worker, child, owner, told>>

CancelKill(s) ==
    /\ canceller[s] = "kill"
    /\ child' = [child EXCEPT ![s] = "gone"]
    /\ canceller' = [canceller EXCEPT ![s] = "release"]
    /\ UNCHANGED <<state, slots, worker, closed, owner, told>>

CancelReleaseForgetsSlot(s) ==
    /\ canceller[s] = "release"
    /\ canceller' = [canceller EXCEPT ![s] = "idle"]
    /\ told' = told \cup {s}
    /\ UNCHANGED <<state, slots, worker, child, closed, owner>>

CancelRelease(s) ==
    /\ canceller[s] = "release"
    /\ slots' = slots \ {s}
    /\ canceller' = [canceller EXCEPT ![s] = "idle"]
    /\ told' = told \cup {s}
    /\ UNCHANGED <<state, worker, child, closed, owner>>

-----------------------------------------------------------------------------
StartStep(s) ==
    \/ AcquireSlot(s) \/ SlotRefused(s) \/ RecheckSlot(s) \/ BuildWorker(s)
    \/ RecheckWorker(s) \/ Launch(s) \/ Handshake(s) \/ FinalCheck(s)
    \/ GiveBack(s) \/ Publish(s)

EndStep(s) ==
    \/ Drain(s) \/ FinishFails(s) \/ Finalize(s) \/ FailAndRelease(s)
    \/ OwnerTerminate(s) \/ OwnerKill(s)

CancelStep(s) == CancelTerminate(s) \/ CancelKill(s) \/ CancelRelease(s)

\* What the outside world may or may not do.
Call(s) ==
    \/ StartBegin(s) \/ ReadFails(s) \/ FinishBegin(s) \/ OwnerLeaves(s)
    \/ ChildDies(s) \/ CancelBegin(s)

Next == \E s \in Sessions : StartStep(s) \/ EndStep(s) \/ CancelStep(s) \/ Call(s)

Spec == Init /\ [][Next]_vars

\* Threads keep running; every wait inside start, finish and terminate has a
\* deadline, past which the call goes on with its failure.
Fairness ==
    \A s \in Sessions : /\ WF_vars(StartStep(s) \/ EndStep(s))
                        /\ WF_vars(CancelStep(s))

FairSpec == Spec /\ Fairness

-----------------------------------------------------------------------------
(* Safety.                                                                  *)

\* No call is in progress on the session.
Quiet(s) == owner[s].pc \in RestPcs /\ Unlocked(s)

\* However start, finish, a failing read, a dying child and cancels met: once
\* they returned, only a running session holds a slot, and a child is alive
\* only for a running session that still holds its slot.
NothingLeaks ==
    \A s \in Sessions : Quiet(s) =>
        /\ s \in slots => state[s] = "running"
        /\ child[s] = "alive" => state[s] = "running" /\ s \in slots

\* "cancel: terminates and releases the owned worker": a cancel of a running
\* session that took effect is not undone by the finish or the failure it raced
\* with, and no child is left when it returns.
CancelStands ==
    \A s \in Sessions \ Reckless :
        s \in told => state[s] = "cancelled" /\ child[s] # "alive"

\* However a session ended, it ended once.
TerminalStands ==
    [][\A s \in Sessions \ Reckless : state[s] \in Terminal => state'[s] = state[s]]_vars

-----------------------------------------------------------------------------
(* Liveness.                                                                *)

\* A session that ended gives its slot and its child back.
EndedReleases ==
    \A s \in Sessions :
        state[s] \in Terminal ~> (s \notin slots /\ child[s] # "alive")
=============================================================================
