-------------------------- MODULE Streaming_proofs --------------------------
(***************************************************************************)
(* Theorems about live transcription, for any sessions, frames, messages   *)
(* and connections.                                                        *)
(*                                                                         *)
(* Of the sessions the argument is local: an action moves one session and  *)
(* leaves the seven facts about every other alone, so SessionInv is proved *)
(* for the one that moves and carried over for the rest (OthersKept).  The *)
(* other layers have an invariant each, below, which the steps of the rest *)
(* leave alone.                                                            *)
(***************************************************************************)
EXTENDS MCStreaming, SequenceInduction, FiniteSetTheorems

Early    == {"new", "slot", "reserved", "factory"}
Unborn   == Early \cup {"built", "launch"}
Born     == {"handshake", "check", "publish", "live", "finishing", "drained",
             "giveback", "kill"}
Beyond   == {"publish", "live", "finishing", "drained", "fail", "done"}
Stopping == {"terminate", "kill"}

\* The worker and its child: a terminate that was entered has killed the child
\* or is about to.
ChildInv(s) ==
    /\ child[s] # "none" => s \in worker
    /\ s \in closed => /\ child[s] # "none"
                       /\ \/ child[s] = "gone"
                          \/ canceller[s] = "kill" \/ owner[s].pc = "kill"
    /\ canceller[s] = "kill" => s \in closed
    /\ owner[s].pc = "kill" => s \in closed
    /\ owner[s].pc \in Early => s \notin worker
    /\ owner[s].pc \in {"built", "launch"} => s \in worker
    /\ owner[s].pc \in Unborn => child[s] = "none"
    /\ owner[s].pc \in Born => child[s] # "none"
    /\ owner[s].pc = "terminate" /\ owner[s].then = "giveback" => child[s] # "none"

\* What the state can be at each place of the owner.
StateInv(s) ==
    /\ state[s] = "created" => canceller[s] = "idle"
    /\ owner[s].pc \in StartPcs \cup {"new"} => state[s] \in {"created", "cancelled"}
    /\ owner[s].pc \in {"live", "finishing", "drained"} =>
           state[s] \in {"running", "cancelled"}
    /\ owner[s].pc = "fail" => state[s] \in {"created", "running", "cancelled"}
    /\ owner[s].pc \in {"done", "giveback"} => state[s] \in Terminal
    /\ owner[s].pc \in Stopping /\ owner[s].then = "fail" =>
           state[s] \in {"created", "cancelled"}
    /\ owner[s].pc \in Stopping /\ owner[s].then = "giveback" => state[s] \in Terminal
    /\ owner[s].pc \in Stopping /\ owner[s].then = "done" =>
           state[s] \in Terminal /\ canceller[s] = "idle"

\* Who holds a slot, and on whose account a child may still be alive.
SlotInv(s) ==
    /\ owner[s].pc \in {"new", "slot"} => s \notin slots
    /\ owner[s].pc \in StartPcs \ {"slot"} /\ state[s] = "created" => s \in slots
    /\ owner[s].pc # "reserved" /\ canceller[s] = "idle" /\ state[s] \in Terminal =>
           s \notin slots
    /\ owner[s].pc \in Beyond /\ child[s] = "alive" =>
           \/ s \in closed \/ canceller[s] = "terminate"
           \/ s \in slots /\ state[s] \in {"created", "running"}
    /\ owner[s].pc \in Beyond /\ child[s] = "alive" /\ canceller[s] = "release" =>
           s \in closed
    /\ owner[s].pc = "giveback" => s \in closed

SessionInv(s) == ChildInv(s) /\ StateInv(s) /\ SlotInv(s)

Inv == TypeOK /\ \A s \in Sessions : SessionInv(s)

-----------------------------------------------------------------------------
\* A session that no part of the state changes for.
Kept(t) ==
    /\ state'[t] = state[t] /\ child'[t] = child[t]
    /\ owner'[t] = owner[t] /\ canceller'[t] = canceller[t]
    /\ (t \in slots') = (t \in slots) /\ (t \in worker') = (t \in worker)
    /\ (t \in closed') = (t \in closed) /\ (t \in told') = (t \in told)

SessionStep(s) == StartStep(s) \/ EndStep(s) \/ CancelStep(s) \/ Call(s)

\* Every action of a session keeps every other, and the types.
LEMMA OthersKept ==
    ASSUME TypeOK, NEW s \in Sessions, SessionStep(s)
    PROVE  TypeOK' /\ \A t \in Sessions \ {s} : Kept(t)
<1> USE DEF TypeOK, Place, OwnerPcs, RestPcs, StartPcs, Terminal, Kept, At, Go,
            TerminateThen, Unlocked, Killable
<1>1. CASE StartStep(s)
  <2>1. CASE AcquireSlot(s)   BY <2>1 DEF AcquireSlot
  <2>2. CASE SlotRefused(s)   BY <2>2 DEF SlotRefused
  <2>3. CASE RecheckSlot(s)
    <3>1. CASE Go(s, "factory") /\ UNCHANGED slots  BY <2>3, <3>1 DEF RecheckSlot
    <3>2. CASE Go(s, "done") /\ slots' = slots \ {s}  BY <2>3, <3>2 DEF RecheckSlot
    <3> QED BY <2>3, <3>1, <3>2 DEF RecheckSlot
  <2>4. CASE BuildWorker(s)   BY <2>4 DEF BuildWorker
  <2>5. CASE RecheckWorker(s)
    <3>1. CASE Go(s, "launch") /\ UNCHANGED slots
      BY <2>5, <3>1 DEF RecheckWorker
    <3>2. CASE TerminateThen(s, "fail") /\ slots' = slots \ {s}
      BY <2>5, <3>2 DEF RecheckWorker
    <3> QED BY <2>5, <3>1, <3>2 DEF RecheckWorker
  <2>6. CASE Launch(s)
    <3>1. CASE child' = [child EXCEPT ![s] = "alive"] /\ Go(s, "handshake")
      BY <2>6, <3>1 DEF Launch
    <3>2. CASE UNCHANGED child /\ TerminateThen(s, "fail")
      BY <2>6, <3>2 DEF Launch
    <3> QED BY <2>6, <3>1, <3>2 DEF Launch
  <2>7. CASE Handshake(s)
    <3>1. CASE Go(s, "check")             BY <2>7, <3>1 DEF Handshake
    <3>2. CASE TerminateThen(s, "fail")   BY <2>7, <3>2 DEF Handshake
    <3> QED BY <2>7, <3>1, <3>2 DEF Handshake
  <2>8. CASE FinalCheck(s)    BY <2>8 DEF FinalCheck
  <2>9. CASE GiveBack(s)      BY <2>9 DEF GiveBack
  <2>10. CASE Publish(s)      BY <2>10 DEF Publish
  <2> QED BY <1>1, <2>1, <2>2, <2>3, <2>4, <2>5, <2>6, <2>7, <2>8, <2>9, <2>10
          DEF StartStep
<1>2. CASE EndStep(s)
  <2>1. CASE Drain(s)          BY <2>1 DEF Drain
  <2>2. CASE FinishFails(s)    BY <2>2 DEF FinishFails
  <2>3. CASE Finalize(s)       BY <2>3 DEF Finalize
  <2>4. CASE FailAndRelease(s) BY <2>4 DEF FailAndRelease
  <2>5. CASE OwnerTerminate(s) BY <2>5 DEF OwnerTerminate
  <2>6. CASE OwnerKill(s)      BY <2>6 DEF OwnerKill
  <2> QED BY <1>2, <2>1, <2>2, <2>3, <2>4, <2>5, <2>6 DEF EndStep
<1>3. CASE CancelStep(s)
  <2>1. CASE CancelTerminate(s) BY <2>1 DEF CancelTerminate
  <2>2. CASE CancelKill(s)      BY <2>2 DEF CancelKill
  <2>3. CASE CancelRelease(s)   BY <2>3 DEF CancelRelease
  <2> QED BY <1>3, <2>1, <2>2, <2>3 DEF CancelStep
<1>4. CASE Call(s)
  <2>1. CASE StartBegin(s)  BY <2>1 DEF StartBegin
  <2>2. CASE ReadFails(s)   BY <2>2 DEF ReadFails
  <2>3. CASE FinishBegin(s) BY <2>3 DEF FinishBegin
  <2>4. CASE OwnerLeaves(s) BY <2>4 DEF OwnerLeaves
  <2>5. CASE ChildDies(s)   BY <2>5 DEF ChildDies
  <2>6. CASE CancelBegin(s) BY <2>6 DEF CancelBegin
  <2> QED BY <1>4, <2>1, <2>2, <2>3, <2>4, <2>5, <2>6 DEF Call
<1> QED BY <1>1, <1>2, <1>3, <1>4 DEF SessionStep

\* The session that moves keeps its invariant.
LEMMA MoverKept ==
    ASSUME TypeOK, NEW s \in Sessions, SessionInv(s), SessionStep(s)
    PROVE  SessionInv(s)'
<1> USE DEF TypeOK, Place, OwnerPcs, RestPcs, StartPcs, Terminal, At, Go,
            TerminateThen, Unlocked, Killable, SessionInv, ChildInv, StateInv,
            SlotInv, Early, Unborn, Born, Beyond, Stopping
<1>1. CASE StartStep(s)
  <2>1. CASE AcquireSlot(s)   BY <2>1 DEF AcquireSlot
  <2>2. CASE SlotRefused(s)   BY <2>2 DEF SlotRefused
  <2>3. CASE RecheckSlot(s)   BY <2>3 DEF RecheckSlot
  <2>4. CASE BuildWorker(s)   BY <2>4 DEF BuildWorker
  <2>5. CASE RecheckWorker(s) BY <2>5 DEF RecheckWorker
  <2>6. CASE Launch(s)
    <3>1. CASE child' = [child EXCEPT ![s] = "alive"] /\ Go(s, "handshake")
      BY <2>6, <3>1 DEF Launch
    <3>2. CASE UNCHANGED child /\ TerminateThen(s, "fail")
      BY <2>6, <3>2 DEF Launch
    <3> QED BY <2>6, <3>1, <3>2 DEF Launch
  <2>7. CASE Handshake(s)     BY <2>7 DEF Handshake
  <2>8. CASE FinalCheck(s)    BY <2>8 DEF FinalCheck
  <2>9. CASE GiveBack(s)      BY <2>9 DEF GiveBack
  <2>10. CASE Publish(s)      BY <2>10 DEF Publish
  <2> QED BY <1>1, <2>1, <2>2, <2>3, <2>4, <2>5, <2>6, <2>7, <2>8, <2>9, <2>10
          DEF StartStep
<1>2. CASE EndStep(s)
  <2>1. CASE Drain(s)          BY <2>1 DEF Drain
  <2>2. CASE FinishFails(s)    BY <2>2 DEF FinishFails
  <2>3. CASE Finalize(s)       BY <2>3 DEF Finalize
  <2>4. CASE FailAndRelease(s) BY <2>4 DEF FailAndRelease
  <2>5. CASE OwnerTerminate(s) BY <2>5 DEF OwnerTerminate
  <2>6. CASE OwnerKill(s)      BY <2>6 DEF OwnerKill
  <2> QED BY <1>2, <2>1, <2>2, <2>3, <2>4, <2>5, <2>6 DEF EndStep
<1>3. CASE CancelStep(s)
  <2>1. CASE CancelTerminate(s) BY <2>1 DEF CancelTerminate
  <2>2. CASE CancelKill(s)      BY <2>2 DEF CancelKill
  <2>3. CASE CancelRelease(s)   BY <2>3 DEF CancelRelease
  <2> QED BY <1>3, <2>1, <2>2, <2>3 DEF CancelStep
<1>4. CASE Call(s)
  <2>1. CASE StartBegin(s)  BY <2>1 DEF StartBegin
  <2>2. CASE ReadFails(s)   BY <2>2 DEF ReadFails
  <2>3. CASE FinishBegin(s) BY <2>3 DEF FinishBegin
  <2>4. CASE OwnerLeaves(s) BY <2>4 DEF OwnerLeaves
  <2>5. CASE ChildDies(s)   BY <2>5 DEF ChildDies
  <2>6. CASE CancelBegin(s) BY <2>6 DEF CancelBegin
  <2> QED BY <1>4, <2>1, <2>2, <2>3, <2>4, <2>5, <2>6 DEF Call
<1> QED BY <1>1, <1>2, <1>3, <1>4 DEF SessionStep

\* A session that another one's step leaves alone keeps its invariant.
LEMMA KeptInv ==
    ASSUME NEW t \in Sessions, SessionInv(t), Kept(t)
    PROVE  SessionInv(t)'
BY DEF Kept, SessionInv, ChildInv, StateInv, SlotInv

\* It holds before the first call,
LEMMA InvInit == Init => Inv
BY DEF Init, Inv, TypeOK, Place, OwnerPcs, RestPcs, StartPcs, Terminal,
       SessionInv, ChildInv, StateInv, SlotInv, Early, Unborn, Born, Beyond, Stopping

\* is inductive,
LEMMA InvNext == Inv /\ [Next]_vars => Inv'
<1> SUFFICES ASSUME Inv, [Next]_vars PROVE Inv'
  OBVIOUS
<1>1. CASE UNCHANGED vars
  BY <1>1 DEF vars, Inv, TypeOK, SessionInv, ChildInv, StateInv, SlotInv
<1>2. CASE Next
  <2>1. PICK s \in Sessions : SessionStep(s)
    BY <1>2 DEF Next, SessionStep
  <2>2. TypeOK' /\ \A t \in Sessions \ {s} : Kept(t)
    BY <2>1, OthersKept DEF Inv
  <2>3. SessionInv(s)'
    BY <2>1, MoverKept DEF Inv
  <2>4. \A t \in Sessions \ {s} : SessionInv(t)'
    BY <2>2, KeptInv DEF Inv
  <2> QED BY <2>2, <2>3, <2>4 DEF Inv
<1> QED BY <1>1, <1>2

\* and so holds in every reachable state.
LEMMA InvHolds == Spec => []Inv
BY InvInit, InvNext, PTL DEF Spec

\* The types hold of every reachable state.
THEOREM SessionTypesHold == Spec => []TypeOK
<1>1. Inv => TypeOK  BY DEF Inv
<1> QED BY <1>1, InvHolds, PTL

\* Once the calls on a session returned, whatever interleaving of start, finish,
\* a failing read and cancels they had (core/streaming.py), a slot or a living
\* child belongs to a running session only.
THEOREM NothingEverLeaks == Spec => []NothingLeaks
<1>1. Inv => NothingLeaks
  BY DEF Inv, NothingLeaks, Quiet, Unlocked, TypeOK, RestPcs, SessionInv, ChildInv,
         StateInv, SlotInv, Beyond, Terminal, Early, Unborn
<1> QED BY <1>1, InvHolds, PTL

-----------------------------------------------------------------------------
(* Sessions that are cancelled once they run.                               *)

\* While a cancel is under way the owner is not in the middle of a terminate of
\* its own, which is why the cancel's terminate cannot return early.
StartedInv(s) ==
    /\ owner[s].pc \in StartPcs \cup {"new"} => state[s] = "created"
    /\ state[s] = "running" => /\ child[s] # "none"
                               /\ owner[s].pc \in {"live", "finishing", "drained", "fail"}
    /\ canceller[s] # "idle" => /\ state[s] = "cancelled"
                                /\ owner[s].pc \in Beyond \ {"publish"}
                                /\ child[s] # "none"
    /\ canceller[s] = "release" => child[s] = "gone"
    /\ s \in told => state[s] = "cancelled" /\ child[s] = "gone"

\* A session cancelled only once it runs keeps StartedInv through its own steps.
LEMMA MoverStarted ==
    ASSUME TypeOK, NEW s \in Sessions \ Reckless, SessionInv(s),
           StartedInv(s), SessionStep(s)
    PROVE  StartedInv(s)'
<1> USE DEF TypeOK, Place, OwnerPcs, RestPcs, StartPcs, Terminal, At, Go,
            TerminateThen, Unlocked, Killable, StartedInv, Beyond
<1>1. CASE StartStep(s)
  <2>1. CASE AcquireSlot(s)    BY <2>1 DEF AcquireSlot
  <2>2. CASE SlotRefused(s)    BY <2>2 DEF SlotRefused
  <2>3. CASE RecheckSlot(s)    BY <2>3 DEF RecheckSlot
  <2>4. CASE BuildWorker(s)    BY <2>4 DEF BuildWorker
  <2>5. CASE RecheckWorker(s)  BY <2>5 DEF RecheckWorker
  <2>6. CASE Launch(s)         BY <2>6 DEF Launch
  <2>7. CASE Handshake(s)      BY <2>7 DEF Handshake
  <2>8. CASE FinalCheck(s)     BY <2>8 DEF FinalCheck
  <2>9. CASE GiveBack(s)       BY <2>9 DEF GiveBack
  <2>10. CASE Publish(s)       BY <2>10 DEF Publish, SessionInv, ChildInv, Born
  <2> QED BY <1>1, <2>1, <2>2, <2>3, <2>4, <2>5, <2>6, <2>7, <2>8, <2>9, <2>10
          DEF StartStep
<1>2. CASE EndStep(s)
  <2>1. CASE Drain(s)           BY <2>1 DEF Drain
  <2>2. CASE FinishFails(s)     BY <2>2 DEF FinishFails
  <2>3. CASE Finalize(s)        BY <2>3 DEF Finalize
  <2>4. CASE FailAndRelease(s)  BY <2>4 DEF FailAndRelease
  <2>5. CASE OwnerTerminate(s)  BY <2>5 DEF OwnerTerminate
  <2>6. CASE OwnerKill(s)       BY <2>6 DEF OwnerKill
  <2> QED BY <1>2, <2>1, <2>2, <2>3, <2>4, <2>5, <2>6 DEF EndStep
<1>3. CASE CancelStep(s)
  <2>1. CASE CancelTerminate(s)  BY <2>1 DEF CancelTerminate, SessionInv, ChildInv
  <2>2. CASE CancelKill(s)       BY <2>2 DEF CancelKill
  <2>3. CASE CancelRelease(s)    BY <2>3 DEF CancelRelease
  <2> QED BY <1>3, <2>1, <2>2, <2>3 DEF CancelStep
<1>4. CASE Call(s)
  <2>1. CASE StartBegin(s)   BY <2>1 DEF StartBegin
  <2>2. CASE ReadFails(s)    BY <2>2 DEF ReadFails
  <2>3. CASE FinishBegin(s)  BY <2>3 DEF FinishBegin
  <2>4. CASE OwnerLeaves(s)  BY <2>4 DEF OwnerLeaves
  <2>5. CASE ChildDies(s)    BY <2>5 DEF ChildDies
  <2>6. CASE CancelBegin(s)  BY <2>6 DEF CancelBegin
  <2> QED BY <1>4, <2>1, <2>2, <2>3, <2>4, <2>5, <2>6
          DEF Call
<1> QED BY <1>1, <1>2, <1>3, <1>4 DEF SessionStep

StartedAll == \A s \in Sessions \ Reckless : StartedInv(s)

\* Every such session keeps it.
LEMMA StartedHolds == Spec => []StartedAll
<1>1. Init => StartedAll
  BY DEF Init, StartedAll, StartedInv, StartPcs
<1>2. Inv /\ StartedAll /\ [Next]_vars => StartedAll'
  <2> SUFFICES ASSUME Inv, StartedAll, [Next]_vars PROVE StartedAll'
    OBVIOUS
  <2>1. CASE UNCHANGED vars
    BY <2>1 DEF vars, StartedAll, StartedInv
  <2>2. CASE Next
    <3>1. PICK s \in Sessions : SessionStep(s)
      BY <2>2 DEF Next, SessionStep
    <3>2. \A t \in Sessions \ {s} : Kept(t)
      BY <3>1, OthersKept DEF Inv
    <3>3. s \notin Reckless => StartedInv(s)'
      BY <3>1, MoverStarted DEF Inv, StartedAll
    <3>4. \A t \in Sessions \ (Reckless \cup {s}) : StartedInv(t)'
      BY <3>2 DEF Kept, StartedAll, StartedInv
    <3> QED BY <3>3, <3>4 DEF StartedAll
  <2> QED BY <2>1, <2>2
<1> QED BY <1>1, <1>2, InvHolds, PTL DEF Spec

\* Cancelled while running, a session stays cancelled whatever its finish or a
\* failing read were doing ("a cancel racing a finish wins"), and its child is
\* gone when the cancel returns.
THEOREM CancelWins == Spec => []CancelStands
<1>1. StartedAll => CancelStands
  BY DEF StartedAll, StartedInv, CancelStands
<1> QED BY <1>1, StartedHolds, PTL

\* A session that has ended has no step that reopens or renames its end.
LEMMA TerminalStep ==
    ASSUME TypeOK, NEW s \in Sessions \ Reckless, SessionInv(s), StartedInv(s), SessionStep(s),
           state[s] \in Terminal
    PROVE  state'[s] = state[s]
<1> USE DEF TypeOK, Terminal, At, Go, TerminateThen, Unlocked, StartedInv, SessionInv,
            StateInv, StartPcs
<1>1. CASE StartStep(s)
  <2>1. CASE AcquireSlot(s)    BY <2>1 DEF AcquireSlot
  <2>2. CASE SlotRefused(s)    BY <2>2 DEF SlotRefused
  <2>3. CASE RecheckSlot(s)    BY <2>3 DEF RecheckSlot
  <2>4. CASE BuildWorker(s)    BY <2>4 DEF BuildWorker
  <2>5. CASE RecheckWorker(s)  BY <2>5 DEF RecheckWorker
  <2>6. CASE Launch(s)         BY <2>6 DEF Launch
  <2>7. CASE Handshake(s)      BY <2>7 DEF Handshake
  <2>8. CASE FinalCheck(s)     BY <2>8 DEF FinalCheck
  <2>9. CASE GiveBack(s)       BY <2>9 DEF GiveBack
  <2>10. CASE Publish(s)       BY <2>10 DEF Publish
  <2> QED BY <1>1, <2>1, <2>2, <2>3, <2>4, <2>5, <2>6, <2>7, <2>8, <2>9, <2>10
          DEF StartStep
<1>2. CASE EndStep(s)
  <2>1. CASE Drain(s)           BY <2>1 DEF Drain
  <2>2. CASE FinishFails(s)     BY <2>2 DEF FinishFails
  <2>3. CASE Finalize(s)        BY <2>3 DEF Finalize
  <2>4. CASE FailAndRelease(s)  BY <2>4 DEF FailAndRelease
  <2>5. CASE OwnerTerminate(s)  BY <2>5 DEF OwnerTerminate
  <2>6. CASE OwnerKill(s)       BY <2>6 DEF OwnerKill
  <2> QED BY <1>2, <2>1, <2>2, <2>3, <2>4, <2>5, <2>6 DEF EndStep
<1>3. CASE CancelStep(s)
  <2>1. CASE CancelTerminate(s)  BY <2>1 DEF CancelTerminate
  <2>2. CASE CancelKill(s)       BY <2>2 DEF CancelKill
  <2>3. CASE CancelRelease(s)    BY <2>3 DEF CancelRelease
  <2> QED BY <1>3, <2>1, <2>2, <2>3 DEF CancelStep
<1>4. CASE Call(s)
  <2>1. CASE StartBegin(s)   BY <2>1 DEF StartBegin
  <2>2. CASE ReadFails(s)    BY <2>2 DEF ReadFails
  <2>3. CASE FinishBegin(s)  BY <2>3 DEF FinishBegin
  <2>4. CASE OwnerLeaves(s)  BY <2>4 DEF OwnerLeaves
  <2>5. CASE ChildDies(s)    BY <2>5 DEF ChildDies
  <2>6. CASE CancelBegin(s)  BY <2>6 DEF CancelBegin
  <2> QED BY <1>4, <2>1, <2>2, <2>3, <2>4, <2>5, <2>6
          DEF Call
<1> QED BY <1>1, <1>2, <1>3, <1>4 DEF SessionStep

\* No step takes a session out of a terminal state.
THEOREM TerminalIsForGood == Spec => TerminalStands
<1>1. Inv /\ StartedAll /\ [Next]_vars
        => [\A s \in Sessions \ Reckless : state[s] \in Terminal => state'[s] = state[s]]_vars
  <2> SUFFICES ASSUME Inv, StartedAll, [Next]_vars, Next
               PROVE  \A s \in Sessions \ Reckless : state[s] \in Terminal => state'[s] = state[s]
    BY DEF vars
  <2>1. PICK s \in Sessions : SessionStep(s)
    BY DEF Next, SessionStep
  <2>2. \A t \in Sessions \ {s} : state'[t] = state[t]
    BY <2>1, OthersKept DEF Inv, Kept
  <2>3. s \notin Reckless /\ state[s] \in Terminal => state'[s] = state[s]
    BY <2>1, TerminalStep DEF Inv, StartedAll
  <2> QED BY <2>2, <2>3
<1> QED BY <1>1, InvHolds, StartedHolds, PTL DEF Spec, TerminalStands

-----------------------------------------------------------------------------
(* The leases of the connections: each counter is the number of connections  *)
(* whose lease says that they count.                                         *)

Leased == {c \in Connections : phase[c] # "away"}

LimiterInv ==
    /\ phase \in [Connections -> {"away", "leased", "early", "waiting", "open", "leaving"}]
    /\ IsFiniteSet(handshakeLease) /\ IsFiniteSet(totalLease)
    /\ handshakeLease \subseteq totalLease
    /\ handshaking = Cardinality(handshakeLease) /\ total = Cardinality(totalLease)
    /\ totalLease = Leased

\* A counter that goes with a set as one element comes or goes.
LEMMA Counts ==
    ASSUME NEW S, IsFiniteSet(S), NEW x
    PROVE  /\ Cardinality(S) \in Nat
           /\ IsFiniteSet(S \cup {x}) /\ IsFiniteSet(S \ {x})
           /\ x \notin S => Cardinality(S \cup {x}) = Cardinality(S) + 1
           /\ x \in S => Cardinality(S) > 0 /\ Cardinality(S \ {x}) = Cardinality(S) - 1
           /\ x \notin S => S \ {x} = S
<1>1. Cardinality(S) \in Nat /\ Cardinality(S \ {x}) \in Nat
  BY FS_CardinalityType, FS_RemoveElement
<1> QED
  BY <1>1, FS_AddElement, FS_RemoveElement

\* The limiter's Cardinality is everybody's.
LEMMA SameCount == ASSUME NEW S PROVE L!Cardinality(S) = Cardinality(S)
BY DEF L!Cardinality, Cardinality

\* Each connection takes and gives back what is its own.
LEMMA LimiterStep == ASSUME LimiterInv, L!Next PROVE LimiterInv'
<1>1. PICK c \in Connections :
        \/ L!Acquire(c) \/ L!Refuse(c) \/ L!DropsBeforeAccept(c) \/ L!FinishHandshake(c)
        \/ L!Accept(c) \/ L!Authenticate(c) \/ L!Leave(c) \/ L!Release(c)
  BY DEF L!Next
<1>2. CASE \/ L!Refuse(c) \/ L!DropsBeforeAccept(c) \/ L!Accept(c) \/ L!Authenticate(c)
           \/ L!Leave(c)
  <2>1. UNCHANGED <<handshakeLease, totalLease, handshaking, total>>
    BY <1>2 DEF L!Refuse, L!DropsBeforeAccept, L!Accept, L!Authenticate, L!Leave, L!Leases
  <2>2. /\ phase' \in [Connections -> {"away", "leased", "early", "waiting", "open", "leaving"}]
        /\ Leased' = Leased
    BY <1>2 DEF LimiterInv, Leased, L!Refuse, L!DropsBeforeAccept, L!Accept,
                L!Authenticate, L!Leave, L!Move
  <2> QED
    BY <2>1, <2>2 DEF LimiterInv
<1>3. CASE L!Acquire(c)
  <2>1. c \notin totalLease /\ c \notin handshakeLease /\ Leased' = Leased \cup {c}
        /\ phase' \in [Connections -> {"away", "leased", "early", "waiting", "open", "leaving"}]
    BY <1>3 DEF L!Acquire, L!Move, LimiterInv, Leased
  <2> QED
    BY <1>3, <2>1, Counts DEF L!Acquire, LimiterInv
<1>4. CASE L!FinishHandshake(c)
  <2>1. /\ phase' \in [Connections -> {"away", "leased", "early", "waiting", "open", "leaving"}]
        /\ Leased' = Leased
    BY <1>4 DEF L!FinishHandshake, L!Move, LimiterInv, Leased
  <2> QED
    BY <1>4, <2>1, Counts DEF L!FinishHandshake, LimiterInv
<1>5. CASE L!Release(c)
  <2>1. /\ phase' \in [Connections -> {"away", "leased", "early", "waiting", "open", "leaving"}]
        /\ Leased' = Leased \ {c}
    BY <1>5 DEF L!Release, L!Move, LimiterInv, Leased
  <2>2. /\ handshakeLease' = handshakeLease \ {c} /\ totalLease' = totalLease \ {c}
        /\ handshakeLease' \subseteq totalLease'
    BY <1>5 DEF L!Release, LimiterInv
  <2>3. /\ IsFiniteSet(handshakeLease') /\ handshaking' = Cardinality(handshakeLease')
        /\ IsFiniteSet(totalLease') /\ total' = Cardinality(totalLease')
    <3>1. IsFiniteSet(totalLease') /\ total' = Cardinality(totalLease')
      <4>1. c \in totalLease
        BY <1>5 DEF L!Release, L!Move, LimiterInv, Leased
      <4> QED
        BY <1>5, <2>2, <4>1, Counts DEF L!Release, LimiterInv
    <3>2. CASE c \in handshakeLease
      BY <1>5, <2>2, <3>1, <3>2, Counts DEF L!Release, LimiterInv
    <3>3. CASE c \notin handshakeLease
      <4>1. handshakeLease' = handshakeLease /\ handshaking' = handshaking
        BY <1>5, <2>2, <3>3, Counts DEF L!Release, LimiterInv
      <4> QED
        BY <3>1, <4>1 DEF LimiterInv
    <3> QED
      BY <3>1, <3>2, <3>3
  <2> QED
    BY <2>1, <2>2, <2>3 DEF LimiterInv
<1> QED
  BY <1>1, <1>2, <1>3, <1>4, <1>5

\* However connections are refused, dropped, authenticated, ended and released,
\* the counters of the process are what the leases add up to: nobody gives back
\* another's slot, nor its own twice.
THEOREM LeasesAddUp == AllSpec => []CountersMatchLeases
<1>1. AllInit => LimiterInv
  BY FS_EmptySet DEF AllInit, L!Init, LimiterInv, Leased
<1>2. LimiterInv /\ [AllNext]_all => LimiterInv'
  <2>1. LimiterInv /\ UNCHANGED limiterVars => LimiterInv'
    BY DEF limiterVars, LimiterInv, Leased
  <2> QED
    BY <2>1, LimiterStep DEF AllNext, all
<1>3. LimiterInv => CountersMatchLeases
  BY SameCount DEF LimiterInv, Leased, CountersMatchLeases, L!CountersMatchLeases
<1> QED
  BY <1>1, <1>2, <1>3, PTL DEF AllSpec

-----------------------------------------------------------------------------
(* One connection: the inbox holds the messages between those the handler    *)
(* took and those the receiver read, so their numbers say what the core was  *)
(* fed.                                                                     *)

\* How many messages went into the inbox, and how many were taken out.
Stored == IF held = 0 THEN received ELSE received - 1
TakenOut == Stored - Len(inbox)

Ending == {"finishing", "closing", "closed"}

InboxInv ==
    /\ sent \in Seq(C!Kinds) /\ received \in 0..Len(sent) /\ held \in {0, received}
    /\ inbox \in Seq(Nat) /\ Len(inbox) <= Stored
    /\ \A i \in 1..Len(inbox) : inbox[i] = TakenOut + i

\* What the handler took, by where it is.
TakenInv ==
    /\ handler \in {"await", "starting", "pump"} \cup Ending
    /\ handler = "await" => audio = <<>> /\ TakenOut = 0
    /\ handler = "starting" => audio = <<>> /\ TakenOut = 1 /\ sent[1] = "start"
    /\ handler = "pump" => TakenOut = Len(audio) + 1 /\ sent[1] = "start"

\* What was fed, and what a finish that was begun answers.
HeardInv ==
    /\ audio \in Seq(Nat) /\ (audio # <<>> => Len(audio) + 1 <= Len(sent) /\ sent[1] = "start")
    /\ \A i \in 1..Len(audio) : audio[i] = i + 1 /\ sent[i + 1] = "audio"
    /\ finisher # "off" => /\ handler \in Ending
                          /\ Len(audio) + 2 <= Len(sent)
                          /\ sent[Len(audio) + 2] = "finish"

\* The life of the session, as far as a finish depends on it.
AnswerInv ==
    /\ handler = "await" => starter = "off" /\ session = "none"
    /\ session \in {"running", "finished"} => starter = "done"
    /\ starter = "publish" => session # "running"
    /\ finisher = "event" => session = "finished"
    /\ answered => finisher = "event"

ConnectionInv == InboxInv /\ TakenInv /\ HeardInv /\ AnswerInv

\* Nothing of the inbox and of what was fed changes.
Silent == UNCHANGED <<sent, received, held, inbox, audio>>

\* The client's messages are numbered as they come, and none is changed.
LEMMA ClientStep == ASSUME ConnectionInv, NEW k \in C!Kinds, C!ClientSends(k) PROVE ConnectionInv'
<1>1. /\ sent' = Append(sent, k) /\ sent \in Seq(C!Kinds)
      /\ UNCHANGED <<received, held, inbox, handler, session, starter, finisher, audio, answered>>
  BY DEF C!ClientSends, C!receiver, C!core, C!threads, ConnectionInv, InboxInv
<1>2. /\ sent' \in Seq(C!Kinds) /\ Len(sent') = Len(sent) + 1
      /\ \A i \in 1..Len(sent) : sent'[i] = sent[i]
  BY <1>1
<1>3. received \in Nat /\ Len(inbox) \in Nat /\ Len(audio) \in Nat /\ Len(sent) \in Nat
      /\ (held = 0 \/ received > 0) /\ received <= Len(sent)
  BY <1>1 DEF ConnectionInv, InboxInv, HeardInv
<1>4. Stored' = Stored /\ TakenOut' = TakenOut
  BY <1>1 DEF Stored, TakenOut
<1>5. InboxInv'
  BY <1>1, <1>2, <1>3, <1>4 DEF ConnectionInv, InboxInv
<1>6. TakenOut >= 1 => sent'[1] = sent[1]
  BY <1>2, <1>3 DEF Stored, TakenOut
<1>7. TakenInv'
  <2>1. handler = "pump" => TakenOut >= 1
    BY <1>3 DEF ConnectionInv, TakenInv
  <2> QED
    BY <1>1, <1>4, <1>6, <2>1 DEF ConnectionInv, TakenInv, Ending
<1>8. HeardInv'
  <2>1. \A i \in 1..Len(audio) : i + 1 \in 1..Len(sent)
    BY <1>3 DEF ConnectionInv, HeardInv
  <2>2. audio # <<>> => sent'[1] = sent[1]
    BY <1>2, <1>3 DEF ConnectionInv, HeardInv
  <2>3. finisher # "off" => Len(audio) + 2 \in 1..Len(sent)
    BY <1>3 DEF ConnectionInv, HeardInv
  <2> QED
    BY <1>1, <1>2, <1>3, <2>1, <2>2, <2>3 DEF ConnectionInv, HeardInv
<1> QED
  BY <1>1, <1>5, <1>7, <1>8 DEF ConnectionInv, AnswerInv

\* The receiver holds the next message, and puts it behind the others.
LEMMA ReceiverStep == ASSUME ConnectionInv, C!Receive \/ C!Put PROVE ConnectionInv'
<1>1. UNCHANGED <<sent, handler, session, starter, finisher, audio, answered>>
  BY DEF C!Receive, C!Put, C!client, C!core, C!threads
<1>2. /\ sent \in Seq(C!Kinds) /\ received \in 0..Len(sent) /\ held \in {0, received}
      /\ inbox \in Seq(Nat) /\ Len(inbox) \in Nat /\ Len(sent) \in Nat
      /\ Len(inbox) <= Stored /\ \A i \in 1..Len(inbox) : inbox[i] = TakenOut + i
  BY DEF ConnectionInv, InboxInv
<1>3. CASE C!Receive
  <2>1. /\ held = 0 /\ received' = received + 1 /\ held' = received + 1
        /\ received < Len(sent) /\ inbox' = inbox
    BY <1>3 DEF C!Receive
  <2>2. Stored' = Stored /\ TakenOut' = TakenOut
    BY <1>2, <2>1 DEF Stored, TakenOut
  <2>3. InboxInv'
    BY <1>1, <1>2, <2>1, <2>2 DEF InboxInv
  <2> QED
    BY <1>1, <2>2, <2>3 DEF ConnectionInv, TakenInv, HeardInv, AnswerInv, Ending
<1>4. CASE C!Put
  <2>1. held # 0 /\ inbox' = Append(inbox, held) /\ held' = 0 /\ received' = received
    BY <1>4 DEF C!Put
  <2>2. /\ held = received /\ Stored = received - 1 /\ Stored' = received
        /\ inbox' \in Seq(Nat) /\ Len(inbox') = Len(inbox) + 1
        /\ inbox'[Len(inbox) + 1] = received
        /\ \A i \in 1..Len(inbox) : inbox'[i] = inbox[i]
    BY <1>2, <2>1 DEF Stored
  <2>3. TakenOut' = TakenOut /\ TakenOut + (Len(inbox) + 1) = received
    BY <1>2, <2>2 DEF TakenOut
  <2>4. \A i \in 1..Len(inbox') : inbox'[i] = TakenOut' + i
    <3>1. Len(inbox') = Len(inbox) + 1 /\ Len(inbox) \in Nat /\ TakenOut' = TakenOut
      BY <1>2, <2>2, <2>3
    <3>2. ASSUME NEW i \in 1..Len(inbox) PROVE inbox'[i] = TakenOut' + i
      BY <1>2, <2>2, <3>1
    <3>3. inbox'[Len(inbox) + 1] = TakenOut' + (Len(inbox) + 1)
      BY <2>2, <2>3, <3>1
    <3> QED
      BY <3>1, <3>2, <3>3
  <2>5. InboxInv'
    BY <1>1, <1>2, <2>1, <2>2, <2>4 DEF InboxInv
  <2> QED
    BY <1>1, <2>3, <2>5 DEF ConnectionInv, TakenInv, HeardInv, AnswerInv, Ending
<1> QED
  BY <1>3, <1>4

\* The threads move the session only.
LEMMA ThreadStep == ASSUME ConnectionInv, C!Threads PROVE ConnectionInv'
<1>1. Silent /\ UNCHANGED <<handler, answered>>
  BY DEF C!Threads, C!StartReads, C!StartLaunches, C!StartRechecks, C!StartPublishes, C!FinishRuns,
         C!client, C!receiver, Silent
<1>2. InboxInv' /\ TakenInv'
  BY <1>1 DEF ConnectionInv, InboxInv, TakenInv, Stored, TakenOut, Silent
<1>3. finisher' = "off" <=> finisher = "off"
  BY DEF C!Threads, C!StartReads, C!StartLaunches, C!StartRechecks, C!StartPublishes, C!FinishRuns
<1>4. HeardInv'
  BY <1>1, <1>3 DEF ConnectionInv, HeardInv, Silent
<1>5. AnswerInv'
  <2>1. CASE C!StartReads
    BY <1>1, <2>1 DEF C!StartReads, C!core, ConnectionInv, AnswerInv
  <2>2. CASE C!StartLaunches
    BY <1>1, <2>2 DEF C!StartLaunches, C!core, ConnectionInv, AnswerInv
  <2>3. CASE C!StartRechecks
    BY <1>1, <2>3 DEF C!StartRechecks, C!core, ConnectionInv, AnswerInv
  <2>4. CASE C!StartPublishes
    BY <1>1, <2>4 DEF C!StartPublishes, ConnectionInv, AnswerInv
  <2>5. CASE C!FinishRuns
    BY <1>1, <2>5 DEF C!FinishRuns, ConnectionInv, AnswerInv, HeardInv, Ending
  <2> QED
    BY <2>1, <2>2, <2>3, <2>4, <2>5 DEF C!Threads
<1> QED
  BY <1>2, <1>4, <1>5 DEF ConnectionInv

\* A way out takes nothing more from the inbox and feeds nothing.
LEMMA WayOut ==
    ASSUME ConnectionInv, Silent, handler' \in {"closing", "closed"},
           handler # "await" \/ session' = session,
           UNCHANGED <<starter, finisher>>,
           answered' = answered \/ answered' = FALSE \/ finisher = "event",
           session' = session \/ (session # "finished" /\ session' \in {"cancelled", "failed"})
    PROVE  ConnectionInv'
<1>1. InboxInv' /\ TakenInv'
  BY DEF ConnectionInv, InboxInv, TakenInv, Stored, TakenOut, Silent, Ending
<1>2. HeardInv'
  BY DEF ConnectionInv, HeardInv, Silent, Ending
<1>3. AnswerInv'
  BY DEF ConnectionInv, AnswerInv
<1> QED
  BY <1>1, <1>2, <1>3 DEF ConnectionInv

\* The next message is the one behind those that were taken.
LEMMA Takes ==
    ASSUME ConnectionInv, inbox # <<>>, inbox' = Tail(inbox), UNCHANGED <<sent, received, held>>
    PROVE  /\ Head(inbox) = TakenOut + 1 /\ TakenOut' = TakenOut + 1
           /\ TakenOut \in Nat /\ TakenOut + 1 <= Len(sent) /\ Len(sent) \in Nat
           /\ InboxInv'
<1>1. /\ inbox \in Seq(Nat) /\ Len(inbox) \in Nat /\ Len(inbox) >= 1 /\ Len(inbox) <= Stored
      /\ received \in 0..Len(sent) /\ held \in {0, received} /\ Len(sent) \in Nat
      /\ \A i \in 1..Len(inbox) : inbox[i] = TakenOut + i
  BY DEF ConnectionInv, InboxInv
<1>2. Stored \in Nat /\ Stored <= Len(sent) /\ Stored' = Stored
  BY <1>1 DEF Stored
<1>3. /\ inbox' \in Seq(Nat) /\ Len(inbox') = Len(inbox) - 1 /\ Head(inbox) = inbox[1]
      /\ \A i \in 1..Len(inbox') : inbox'[i] = inbox[i + 1] /\ i + 1 \in 1..Len(inbox)
  BY <1>1
<1>4. TakenOut' = TakenOut + 1 /\ TakenOut \in Nat /\ TakenOut + 1 <= Len(sent)
  BY <1>1, <1>2, <1>3 DEF TakenOut
<1>5. Head(inbox) = TakenOut + 1
  BY <1>1, <1>3
<1>6. \A i \in 1..Len(inbox') : inbox'[i] = TakenOut' + i
  BY <1>1, <1>3, <1>4
<1> QED
  BY <1>1, <1>2, <1>3, <1>4, <1>5, <1>6 DEF ConnectionInv, InboxInv

\* The handler takes the first message, audio, a finish, or one that ends it all.
LEMMA TakeStep == ASSUME ConnectionInv, C!Takes PROVE ConnectionInv'
<1>1. /\ inbox # <<>> /\ inbox' = Tail(inbox)
      /\ UNCHANGED <<sent, received, held, answered>>
  BY DEF C!Takes, C!TakeFirst, C!PumpAudio, C!PumpFinish, C!PumpStops, C!End, C!client, C!receiver
<1>2. /\ Head(inbox) = TakenOut + 1 /\ TakenOut' = TakenOut + 1
      /\ TakenOut \in Nat /\ TakenOut + 1 <= Len(sent) /\ Len(sent) \in Nat /\ InboxInv'
  BY <1>1, Takes
<1>3. CASE C!TakeFirst
  <2>1. /\ handler = "await" /\ audio' = audio /\ finisher' = finisher
        /\ \/ sent[Head(inbox)] = "start" /\ handler' = "starting" /\ session' = "created"
              /\ starter' = "check"
           \/ handler' = "closing" /\ UNCHANGED <<session, starter>>
    BY <1>3 DEF C!TakeFirst, C!End
  <2>2. audio = <<>> /\ TakenOut = 0 /\ finisher = "off" /\ starter = "off" /\ session = "none"
    BY <2>1 DEF ConnectionInv, TakenInv, HeardInv, AnswerInv, Ending
  <2>3. TakenInv'
    BY <1>1, <1>2, <2>1, <2>2 DEF TakenInv, Ending
  <2>4. HeardInv'
    BY <1>1, <2>1, <2>2 DEF ConnectionInv, HeardInv
  <2>5. AnswerInv'
    BY <1>1, <2>1, <2>2 DEF ConnectionInv, AnswerInv
  <2> QED
    BY <1>2, <2>3, <2>4, <2>5 DEF ConnectionInv
<1>4. CASE C!PumpAudio
  <2>1. /\ handler = "pump" /\ sent[Head(inbox)] = "audio"
        /\ UNCHANGED <<session, process, starter, finisher>>
        /\ \/ audio' = Append(audio, Head(inbox)) /\ handler' = handler
           \/ handler' = "closing" /\ audio' = audio
    BY <1>4 DEF C!PumpAudio, C!core, C!threads
  <2>2. /\ TakenOut = Len(audio) + 1 /\ sent[1] = "start" /\ audio \in Seq(Nat)
        /\ Len(audio) \in Nat /\ finisher = "off"
    BY <2>1 DEF ConnectionInv, TakenInv, HeardInv, Ending
  <2>3. CASE audio' = Append(audio, Head(inbox)) /\ handler' = handler
    <3>1. /\ audio' \in Seq(Nat) /\ Len(audio') = Len(audio) + 1
          /\ audio'[Len(audio) + 1] = Len(audio) + 2
          /\ \A i \in 1..Len(audio) : audio'[i] = audio[i]
      BY <1>2, <2>2, <2>3
    <3>2. \A i \in 1..Len(audio') : audio'[i] = i + 1 /\ sent[i + 1] = "audio"
      <4>1. sent[Len(audio) + 2] = "audio"
        BY <1>2, <2>1, <2>2
      <4> QED
        BY <2>2, <3>1, <4>1 DEF ConnectionInv, HeardInv
    <3>3. HeardInv'
      BY <1>1, <1>2, <2>1, <2>2, <3>1, <3>2 DEF HeardInv
    <3>4. TakenInv'
      BY <1>1, <1>2, <2>1, <2>2, <2>3, <3>1 DEF TakenInv, Ending
    <3> QED
      BY <1>1, <1>2, <2>1, <2>3, <3>3, <3>4 DEF ConnectionInv, AnswerInv
  <2>4. CASE handler' = "closing" /\ audio' = audio
    BY <1>1, <1>2, <2>1, <2>4 DEF ConnectionInv, TakenInv, HeardInv, AnswerInv, Ending
  <2> QED
    BY <2>1, <2>3, <2>4
<1>5. CASE C!PumpFinish
  <2>1. /\ handler = "pump" /\ sent[Head(inbox)] = "finish" /\ handler' = "finishing"
        /\ finisher' = "run" /\ UNCHANGED <<audio, session, starter>>
    BY <1>5 DEF C!PumpFinish, C!End, C!core
  <2>2. /\ TakenOut = Len(audio) + 1 /\ Len(audio) \in Nat /\ finisher = "off"
    BY <2>1 DEF ConnectionInv, TakenInv, HeardInv, Ending
  <2>3. Len(audio) + 2 <= Len(sent) /\ sent[Len(audio) + 2] = "finish"
    BY <1>2, <2>1, <2>2
  <2> QED
    BY <1>1, <1>2, <2>1, <2>2, <2>3 DEF ConnectionInv, TakenInv, HeardInv, AnswerInv, Ending
<1>6. CASE C!PumpStops
  <2>1. handler = "pump" /\ handler' = "closing" /\ UNCHANGED <<audio, session, starter, finisher>>
    BY <1>6 DEF C!PumpStops, C!End, C!core, C!threads
  <2> QED
    BY <1>1, <1>2, <2>1 DEF ConnectionInv, TakenInv, HeardInv, AnswerInv, Ending
<1> QED
  BY <1>3, <1>4, <1>5, <1>6 DEF C!Takes

\* The handler goes on, gives up, or leaves.
LEMMA HandlerStep ==
    ASSUME ConnectionInv,
           \/ C!StartGone \/ C!FinishGone \/ C!Close \/ C!Answers \/ C!Timeouts
           \/ C!PumpFault \/ C!HandlerCancelled
    PROVE  ConnectionInv'
<1>1. Silent /\ UNCHANGED <<starter, finisher>>
  BY DEF C!StartGone, C!FinishGone, C!Close, C!Answers, C!StartDone, C!FinishDone, C!Timeouts,
         C!HandshakeTimeout, C!StartTimeout, C!PumpIdle, C!FinishTimeout, C!PumpFault,
         C!HandlerCancelled, C!End, C!client, C!receiver, C!threads, Silent
<1>2. CASE C!StartDone
  <2>1. /\ handler = "starting" /\ handler' \in {"pump", "closing"}
        /\ UNCHANGED <<session, answered>>
    BY <1>2 DEF C!StartDone, C!End, C!core
  <2>2. audio = <<>> /\ TakenOut = 1 /\ sent[1] = "start" /\ finisher = "off"
    BY <2>1 DEF ConnectionInv, TakenInv, HeardInv, Ending
  <2>3. InboxInv' /\ TakenOut' = TakenOut
    BY <1>1 DEF ConnectionInv, InboxInv, Stored, TakenOut, Silent
  <2>4. TakenInv'
    BY <1>1, <2>1, <2>2, <2>3 DEF TakenInv, Ending, Silent
  <2>5. HeardInv' /\ AnswerInv'
    BY <1>1, <2>1, <2>2 DEF ConnectionInv, HeardInv, AnswerInv, Silent
  <2> QED
    BY <2>3, <2>4, <2>5 DEF ConnectionInv
<1>3. CASE C!FinishDone
  <2>1. /\ handler = "finishing" /\ handler' = "closing" /\ session' = session
        /\ \/ answered' = FALSE
           \/ finisher = "event"
    BY <1>3 DEF C!FinishDone, C!End, C!core
  <2> QED
    BY <1>1, <2>1, WayOut
<1>4. CASE C!HandshakeTimeout \/ C!PumpIdle
  BY <1>1, <1>4, WayOut DEF C!HandshakeTimeout, C!PumpIdle, C!End, C!core
<1>5. CASE C!PumpFault
  BY <1>1, <1>5, WayOut DEF C!PumpFault, C!End, C!core
<1>6. CASE \/ C!StartGone \/ C!FinishGone \/ C!StartTimeout \/ C!FinishTimeout
           \/ C!HandlerCancelled \/ C!Close
  <2>1. /\ handler' \in {"closing", "closed"} /\ answered' = answered
        /\ C!Cancel
    BY <1>6 DEF C!StartGone, C!FinishGone, C!StartTimeout, C!FinishTimeout,
                C!HandlerCancelled, C!Close, C!End
  <2>2. \/ session' = session
        \/ session \in {"created", "running"} /\ session' = "cancelled"
    BY <2>1 DEF C!Cancel, C!Live, C!core
  <2>3. handler # "await" \/ session' = session
    BY <2>2 DEF ConnectionInv, AnswerInv
  <2> QED
    BY <1>1, <2>1, <2>2, <2>3, WayOut
<1> QED
  BY <1>2, <1>3, <1>4, <1>5, <1>6 DEF C!Answers, C!Timeouts

\* Whatever the client sends and whenever it leaves, the core is fed the audio
\* that followed start, in order and without a hole, and a final message answers
\* all of it up to the finish, from a session that no cancel reached.
THEOREM FinalAnswersAllAudio == AllSpec => []AudioAccountedFor
<1>1. AllInit => ConnectionInv
  <2>1. ASSUME C!Init PROVE ConnectionInv
    <3>1. held = 0 /\ received = 0 /\ inbox = <<>>
      BY <2>1 DEF C!Init
    <3>2. Stored = 0 /\ Len(inbox) = 0
      BY <3>1 DEF Stored
    <3>3. TakenOut = 0
      BY <3>2 DEF TakenOut
    <3> QED
      BY <2>1, <3>2, <3>3 DEF C!Init, ConnectionInv, InboxInv, TakenInv, HeardInv, AnswerInv
  <2> QED
    BY <2>1 DEF AllInit
<1>2. ConnectionInv /\ [AllNext]_all => ConnectionInv'
  <2>1. ConnectionInv /\ UNCHANGED connectionVars => ConnectionInv'
    BY DEF connectionVars, ConnectionInv, InboxInv, TakenInv, HeardInv, AnswerInv, Stored,
           TakenOut
  <2>2. ASSUME ConnectionInv, C!Next PROVE ConnectionInv'
    <3>1. C!Over => UNCHANGED connectionVars
      BY DEF C!Over, C!vars, connectionVars
    <3>2. CASE C!Over
      BY <2>1, <2>2, <3>1, <3>2
    <3> QED
      BY <2>2, <3>2, ClientStep, ReceiverStep, ThreadStep, TakeStep, HandlerStep
         DEF C!Next, C!Receiver, C!Prompt
  <2> QED
    BY <2>1, <2>2 DEF AllNext, all
<1>3. ConnectionInv => AudioAccountedFor
  <2> SUFFICES ASSUME ConnectionInv PROVE C!FedInOrder /\ C!FinalIsWhole
    BY DEF AudioAccountedFor, C!AudioAccountedFor
  <2>1. C!FedInOrder
    BY DEF ConnectionInv, HeardInv, C!FedInOrder
  <2>2. C!FinalIsWhole
    BY DEF ConnectionInv, HeardInv, AnswerInv, InboxInv, C!FinalIsWhole
  <2> QED
    BY <2>1, <2>2
<1> QED
  BY <1>1, <1>2, <1>3, PTL DEF AllSpec
-----------------------------------------------------------------------------
(* The audio of a session                                                    *)

Kinds  == {"event", "final", "done", "error", "flood", "eof"}
Record == [kind : Kinds, clock : Nat]
Places == {"idle", "finishing", "rearm", "clear", "ended", "stalled", "flushed"}

AudioTypes ==
    /\ fed \in Nat /\ processed \in Nat /\ consumed \in Nat /\ emitted \in Nat
    /\ final \in Nat
    /\ toChild \in Seq({"frame", "finish"}) /\ records \in Seq(Record)
    /\ engine \in {"running", "unstopped", "exited", "posted", "over"}
    /\ feeder \in {"idle", "checked", "handed", "counted"}
    /\ reader \in [at : Places, home : {"idle", "finishing"}]
    /\ writeError \in BOOLEAN /\ faulted \in BOOLEAN
    /\ status \in {"running", "failed", "finished"}

\* A frame with the child that is not counted yet, one that feed let in, and the
\* frames on their way.
Handed  == IF feeder = "handed" THEN 1 ELSE 0
Claimed == IF feeder \in {"checked", "handed"} THEN 1 ELSE 0
Frames  == IF A!Finishing /\ toChild # <<>> THEN Len(toChild) - 1 ELSE Len(toChild)

\* The records of the child that were taken so far: the next is the one behind.
Heard == processed + (IF final = A!NoClock THEN 0 ELSE 1)
                   + (IF A!At("flushed") THEN 1 ELSE 0)

\* Every frame is counted on one side of the child, and finish comes last.
FeedInv ==
    /\ consumed + Frames = fed + Handed
    /\ fed + Claimed <= MaxFrames /\ fed + Claimed <= processed + MaxQueue
    /\ A!Finishing => feeder = "idle"
    /\ \A i \in 1..Len(toChild) : toChild[i] = "finish" <=> A!Finishing /\ i = Len(toChild)
    /\ A!Finishing /\ engine = "running" => toChild # <<>>

\* One event for each frame that was acknowledged; the final record is behind
\* them all.
ReadInv ==
    /\ processed <= consumed /\ processed <= fed /\ emitted = processed
    /\ final # A!NoClock =>
           final = consumed /\ processed = consumed /\ A!Finishing /\ engine # "running"
    /\ A!At("flushed") => final # A!NoClock

\* What the child and the threads at its pipes can still have in the queue.
RoomInv ==
    /\ engine = "running" => Len(records) = consumed - processed /\ ~writeError
    /\ Len(records) <= consumed - processed + 2
                         + (IF engine \in {"posted", "over"} THEN 1 ELSE 0)
                         + (IF writeError THEN 1 ELSE 0)

\* The place of a record in the queue is what it says.
RecordInv(i) ==
    /\ records[i].kind = "event" => records[i].clock = Heard + i /\ Heard + i <= consumed
    /\ records[i].kind = "final" => /\ records[i].clock = consumed
                                   /\ Heard + i = consumed + 1
                                   /\ A!Finishing /\ engine # "running"
    /\ records[i].kind = "done" => Heard + i = consumed + 2
    /\ records[i].kind # "flood"
    /\ records[i].kind = "eof" =>
           /\ engine \in {"posted", "over"}
           /\ \A j \in i + 1..Len(records) : records[j].kind = "error"

RecordsInv == \A i \in 1..Len(records) : RecordInv(i)

LiveInv == FeedInv /\ ReadInv /\ RoomInv /\ RecordsInv

\* A finished session has counted every frame four times over, and nothing of it
\* moves any more.
FinishedInv ==
    /\ feeder = "idle" /\ engine # "running"
    /\ processed = fed /\ consumed = fed /\ emitted = fed

AudioInv ==
    /\ AudioTypes
    /\ status = "running" => LiveInv
    /\ status = "finished" => FinishedInv

Roomy == MaxQueue + 4 <= MaxRecords

\* Append puts an element behind the others.
LEMMA Appended ==
    ASSUME NEW S, NEW q \in Seq(S), NEW e \in S
    PROVE  /\ Append(q, e) \in Seq(S) /\ Len(Append(q, e)) = Len(q) + 1
           /\ Append(q, e)[Len(q) + 1] = e
           /\ \A i \in 1..Len(q) : Append(q, e)[i] = q[i]
OBVIOUS

\* Tail moves every element up by one.
LEMMA Shortened ==
    ASSUME NEW S, NEW q \in Seq(S), q # <<>>
    PROVE  /\ Tail(q) \in Seq(S) /\ Len(Tail(q)) = Len(q) - 1
           /\ Len(q) >= 1 /\ Len(q) \in Nat /\ Head(q) = q[1] /\ Head(q) \in S
           /\ \A i \in 1..Len(Tail(q)) : Tail(q)[i] = q[i + 1] /\ i + 1 \in 1..Len(q)
OBVIOUS

\* With room in the queue a record is posted behind the others.
LEMMA Posted ==
    ASSUME NEW q \in Seq(Record), NEW rec, Len(q) < MaxRecords
    PROVE  A!Post(q, rec) = Append(q, rec)
BY DEF A!Post

\* The records of the model are records.
LEMMA Recorded == ASSUME NEW kind \in Kinds, NEW clock \in Nat
                  PROVE  /\ A!Rec(kind, clock) \in Record
                         /\ A!Rec(kind, clock).kind = kind /\ A!Rec(kind, clock).clock = clock
BY DEF A!Rec, Record

\* What is posted is a queue of records, with room or without.
LEMMA PostTyped ==
    ASSUME Roomy, NEW q \in Seq(Record), NEW rec \in Record
    PROVE  A!Post(q, rec) \in Seq(Record)
<1>1. CASE Len(q) < MaxRecords
  BY <1>1, Posted, Appended
<1>2. CASE ~(Len(q) < MaxRecords)
  <2>1. q # <<>>
    BY <1>2, AudioAssumption DEF Roomy
  <2>2. Tail(q) \in Seq(Record) /\ A!Rec("flood", 0) \in Record
    BY <2>1, Shortened, Recorded DEF Kinds
  <2> QED
    BY <1>2, <2>2, Appended DEF A!Post
<1> QED
  BY <1>1, <1>2

\* The actions that only move the reader, the feeder, the time or the verdict.
QuietAudio ==
    \/ A!FeedCheck \/ A!FeedArm \/ A!StdoutThreadEnds \/ A!ReadRaises \/ A!CheckEnded
    \/ A!CheckStalled \/ A!Rearm \/ A!Clear \/ A!FinishTimesOut \/ A!Tick

\* Every action of the audio keeps the types of its variables.
LEMMA AudioTypesKeep == ASSUME Roomy, AudioTypes, A!Next PROVE AudioTypes'
<1> USE DEF AudioTypes
<1>1. CASE QuietAudio
  <2>1. UNCHANGED <<fed, processed, consumed, emitted, final, toChild, records, writeError, faulted>>
    BY <1>1 DEF QuietAudio, A!FeedCheck, A!FeedArm, A!StdoutThreadEnds, A!ReadRaises, A!CheckEnded,
                A!CheckStalled, A!Rearm, A!Clear, A!FinishTimesOut, A!Tick
  <2>2. engine' \in {"running", "unstopped", "exited", "posted", "over"}
    BY <1>1 DEF QuietAudio, A!FeedCheck, A!FeedArm, A!StdoutThreadEnds, A!ReadRaises, A!CheckEnded,
                A!CheckStalled, A!Rearm, A!Clear, A!FinishTimesOut, A!Tick
  <2>3. feeder' \in {"idle", "checked", "handed", "counted"}
    BY <1>1 DEF QuietAudio, A!FeedCheck, A!FeedArm, A!StdoutThreadEnds, A!ReadRaises, A!CheckEnded,
                A!CheckStalled, A!Rearm, A!Clear, A!FinishTimesOut, A!Tick
  <2>4. reader' \in [at : Places, home : {"idle", "finishing"}]
    BY <1>1 DEF QuietAudio, A!FeedCheck, A!FeedArm, A!StdoutThreadEnds, A!ReadRaises, A!CheckEnded,
                A!CheckStalled, A!Rearm, A!Clear, A!FinishTimesOut, A!Tick, A!Goto, Places
  <2>5. status' \in {"running", "failed", "finished"}
    BY <1>1 DEF QuietAudio, A!FeedCheck, A!FeedArm, A!StdoutThreadEnds, A!ReadRaises, A!CheckEnded,
                A!CheckStalled, A!Rearm, A!Clear, A!FinishTimesOut, A!Tick, A!Fail, A!StaysUp
  <2> QED
    BY <2>1, <2>2, <2>3, <2>4, <2>5
<1>2. CASE A!FeedHand \/ A!FinishBegin
  <2>1. /\ Append(toChild, "frame") \in Seq({"frame", "finish"})
        /\ Append(toChild, "finish") \in Seq({"frame", "finish"})
    OBVIOUS
  <2>2. \/ toChild' = toChild
        \/ toChild' = Append(toChild, "frame")
        \/ toChild' = Append(toChild, "finish")
    BY <1>2 DEF A!FeedHand, A!FinishBegin
  <2>3. toChild' \in Seq({"frame", "finish"})
    BY <2>1, <2>2
  <2> QED
    BY <1>2, <2>3 DEF A!FeedHand, A!FinishBegin, A!Fail, A!StaysUp, Places
<1>3. CASE A!FeedCount
  BY <1>3 DEF A!FeedCount
<1>4. CASE A!ChildFrame
  <2>1. toChild' \in Seq({"frame", "finish"})
    BY <1>4, Shortened DEF A!ChildFrame
  <2>2. \/ records' = A!Post(records, A!Rec("event", consumed + 1))
        \/ records' = A!Post(records, A!Rec("error", 0))
    BY <1>4 DEF A!ChildFrame
  <2>3. A!Rec("event", consumed + 1) \in Record /\ A!Rec("error", 0) \in Record
    BY Recorded DEF Kinds
  <2>4. records' \in Seq(Record)
    <3>1. /\ A!Post(records, A!Rec("event", consumed + 1)) \in Seq(Record)
          /\ A!Post(records, A!Rec("error", 0)) \in Seq(Record)
      BY <2>3, PostTyped
    <3> QED
      BY <2>2, <3>1
  <2>5. faulted' \in BOOLEAN
    BY <1>4 DEF A!ChildFrame
  <2> QED
    BY <1>4, <2>1, <2>4, <2>5 DEF A!ChildFrame
<1>5. CASE A!ChildFinish
  <2>1. toChild' \in Seq({"frame", "finish"})
    BY <1>5, Shortened DEF A!ChildFinish
  <2>2. A!Rec("final", consumed) \in Record /\ A!Rec("done", 0) \in Record
    BY Recorded DEF Kinds
  <2>3. records' = A!Post(A!Post(records, A!Rec("final", consumed)), A!Rec("done", 0))
    BY <1>5 DEF A!ChildFinish
  <2>4. records' \in Seq(Record)
    BY <2>2, <2>3, PostTyped
  <2> QED
    BY <1>5, <2>1, <2>4 DEF A!ChildFinish
<1>6. CASE A!ChildDies
  BY <1>6 DEF A!ChildDies
<1>7. CASE A!PostEof
  <2>1. records' \in Seq(Record)
    BY <1>7, PostTyped, Recorded DEF A!PostEof, Kinds
  <2> QED
    BY <1>7, <2>1 DEF A!PostEof
<1>8. CASE A!WriteBreaks
  <2>1. A!Rec("error", 0) \in Record
    BY Recorded DEF Kinds
  <2>2. records' \in Seq(Record)
    BY <1>8, <2>1, Appended DEF A!WriteBreaks
  <2> QED
    BY <1>8, <2>2 DEF A!WriteBreaks
<1>9. CASE A!TakeEvent \/ A!TakeError \/ A!TakeFinal \/ A!TakeDone \/ A!TakeNothing
  <2>1. /\ records' = records \/ (records # <<>> /\ records' = Tail(records))
        /\ UNCHANGED <<fed, toChild, consumed, engine, writeError, faulted, feeder>>
    BY <1>9 DEF A!TakeEvent, A!TakeError, A!TakeFinal, A!TakeDone, A!TakeNothing, A!Take
  <2>2. records' \in Seq(Record)
    <3>1. records # <<>> => Tail(records) \in Seq(Record)
      BY Shortened
    <3> QED
      BY <2>1, <3>1
  <2>3. records # <<>> => Head(records).clock \in Nat
    <3>1. records # <<>> => Head(records) \in Record
      BY Shortened
    <3> QED
      BY <3>1 DEF Record
  <2>4. /\ final' \in Nat
        /\ emitted' \in Nat
        /\ status' \in {"running", "failed", "finished"}
    <3>1. CASE A!TakeEvent
      <4>1. UNCHANGED final /\ emitted' \in {emitted, emitted + 1}
        BY <3>1 DEF A!TakeEvent
      <4>2. A!StaysUp \/ A!Fail("clock")
        BY <3>1 DEF A!TakeEvent
      <4>3. status' \in {"running", "failed", "finished"}
        BY <4>2 DEF A!StaysUp, A!Fail
      <4> QED
        BY <4>1, <4>3
    <3>2. CASE A!TakeError
      BY <3>2 DEF A!TakeError, A!Take, A!Fail
    <3>3. CASE A!TakeFinal
      BY <3>3, <2>3 DEF A!TakeFinal, A!Take, A!Fail, A!StaysUp
    <3>4. CASE A!TakeDone
      BY <3>4 DEF A!TakeDone, A!Take, A!Fail, A!StaysUp
    <3>5. CASE A!TakeNothing
      BY <3>5 DEF A!TakeNothing, A!Take, A!Fail, A!StaysUp
    <3> QED
      BY <1>9, <3>1, <3>2, <3>3, <3>4, <3>5
  <2>5. processed' \in Nat
    BY <1>9, <2>3 DEF A!TakeEvent, A!TakeError, A!TakeFinal, A!TakeDone, A!TakeNothing, A!Take
  <2>6. reader' \in [at : Places, home : {"idle", "finishing"}]
    BY <1>9 DEF A!TakeEvent, A!TakeError, A!TakeFinal, A!TakeDone, A!TakeNothing, A!Goto, Places
  <2> QED
    BY <2>1, <2>2, <2>4, <2>5, <2>6
<1>10. CASE A!Finalize
  BY <1>10 DEF A!Finalize, A!Fail
<1>11. CASE A!ChildStopFails
  <2>1. toChild' \in Seq({"frame", "finish"})
    BY <1>11, Shortened DEF A!ChildStopFails
  <2>2. A!Rec("error", 0) \in Record /\ records' = A!Post(records, A!Rec("error", 0))
    BY <1>11, Recorded DEF A!ChildStopFails, Kinds
  <2>3. records' \in Seq(Record)
    BY <2>2, PostTyped
  <2> QED
    BY <1>11, <2>1, <2>3 DEF A!ChildStopFails
<1> QED
  BY <1>1, <1>2, <1>3, <1>4, <1>5, <1>6, <1>7, <1>8, <1>9, <1>10, <1>11
     DEF A!Next, A!FeedStep, A!ChildStep, A!ReadStep, QuietAudio

\* What the invariant says of the numbers.
LEMMA AudioNumbers ==
    ASSUME Roomy, AudioTypes, LiveInv
    PROVE  /\ Len(toChild) \in Nat /\ Len(records) \in Nat /\ Frames \in Nat /\ Heard \in Nat
           /\ Handed \in {0, 1} /\ Claimed \in {0, 1} /\ Handed <= Claimed
           /\ consumed <= MaxFrames /\ consumed <= processed + MaxQueue
           /\ A!NoClock = MaxFrames + 1 /\ consumed # A!NoClock
           /\ engine = "running" => Heard = processed /\ Len(records) + 3 < MaxRecords
           /\ Len(records) <= MaxQueue + 4
           /\ engine = "exited" => Len(records) < MaxRecords
           /\ MaxFrames \in Nat /\ MaxQueue \in Nat /\ MaxRecords \in Nat
<1> USE AudioAssumption
<1>1. Len(toChild) \in Nat /\ Len(records) \in Nat
  BY DEF AudioTypes
<1>2. Frames \in Nat
  <2>1. toChild # <<>> => Len(toChild) >= 1
    BY DEF AudioTypes
  <2> QED
    BY <1>1, <2>1 DEF Frames
<1>3. Handed \in {0, 1} /\ Claimed \in {0, 1} /\ Handed <= Claimed
  BY DEF Handed, Claimed
<1>4. consumed <= MaxFrames /\ consumed <= processed + MaxQueue
  BY <1>2, <1>3 DEF LiveInv, FeedInv, AudioTypes
<1>5. A!NoClock = MaxFrames + 1 /\ consumed # A!NoClock
  BY <1>4 DEF A!NoClock, AudioTypes
<1>6. Heard \in Nat
  BY DEF Heard, AudioTypes
<1>7. engine = "running" => Heard = processed
  BY DEF Heard, AudioTypes, LiveInv, ReadInv
<1>8. /\ engine = "running" => Len(records) + 3 < MaxRecords
      /\ Len(records) <= MaxQueue + 4
      /\ engine = "exited" => Len(records) < MaxRecords
  BY <1>1, <1>4 DEF LiveInv, RoomInv, Roomy, AudioTypes
<1> QED
  BY <1>1, <1>2, <1>3, <1>4, <1>5, <1>6, <1>7, <1>8

\* A session that is running was running before.
LEMMA RunningStays == ASSUME A!Next, status' = "running" PROVE status = "running"
BY DEF A!Next, A!FeedStep, A!ChildStep, A!ReadStep, A!FeedCheck, A!FeedHand, A!FeedCount, A!FeedArm,
       A!ChildFrame, A!ChildFinish, A!ChildStopFails, A!ChildDies, A!PostEof, A!StdoutThreadEnds,
       A!WriteBreaks,
       A!ReadRaises, A!TakeEvent, A!TakeError, A!TakeFinal, A!TakeDone, A!TakeNothing,
       A!CheckEnded, A!CheckStalled, A!Rearm, A!Clear, A!Finalize, A!FinishBegin,
       A!FinishTimesOut, A!Tick, A!Fail, A!StaysUp, A!Take, A!Reading, A!Running

\* The reader's own places, and the time, are not in the invariant.
LEMMA QuietLive ==
    ASSUME Roomy, AudioTypes, LiveInv, status' = "running",
           \/ A!FeedArm \/ A!StdoutThreadEnds \/ A!CheckEnded \/ A!CheckStalled \/ A!Rearm
           \/ A!Clear \/ A!Tick
    PROVE  LiveInv'
<1> USE DEF AudioTypes
<1>1. UNCHANGED <<fed, processed, consumed, emitted, final, toChild, records, writeError>>
  BY DEF A!FeedArm, A!StdoutThreadEnds, A!CheckEnded, A!CheckStalled, A!Rearm, A!Clear, A!Tick
<1>2. engine' = engine \/ (engine = "posted" /\ engine' = "over")
  BY DEF A!FeedArm, A!StdoutThreadEnds, A!CheckEnded, A!CheckStalled, A!Rearm, A!Clear, A!Tick
<1>3. feeder' = feeder \/ (feeder = "counted" /\ feeder' = "idle")
  BY DEF A!FeedArm, A!StdoutThreadEnds, A!CheckEnded, A!CheckStalled, A!Rearm, A!Clear, A!Tick
<1>4. /\ reader'.home = reader.home
      /\ reader'.at = "flushed" <=> reader.at = "flushed"
  BY DEF A!FeedArm, A!StdoutThreadEnds, A!CheckEnded, A!CheckStalled, A!Rearm, A!Clear, A!Tick,
         A!Goto, A!At, A!Fail
<1>5. (A!Finishing)' = A!Finishing /\ A!At("flushed")' = A!At("flushed")
  BY <1>4 DEF A!Finishing, A!At
<1>6. Handed' = Handed /\ Claimed' = Claimed /\ Heard' = Heard /\ Frames' = Frames
  BY <1>1, <1>3, <1>5 DEF Handed, Claimed, Heard, Frames, A!NoClock
<1>7. FeedInv'
  BY <1>1, <1>2, <1>3, <1>5, <1>6 DEF LiveInv, FeedInv
<1>8. ReadInv'
  BY <1>1, <1>2, <1>5 DEF LiveInv, ReadInv, A!NoClock
<1>9. RoomInv'
  BY <1>1, <1>2 DEF LiveInv, RoomInv
<1>10. RecordsInv'
  BY <1>1, <1>2, <1>5, <1>6 DEF LiveInv, RecordsInv, RecordInv
<1> QED
  BY <1>7, <1>8, <1>9, <1>10 DEF LiveInv

\* feed lets in a frame when there is room for it, hands it to the child, counts it.
LEMMA FeedLive ==
    ASSUME Roomy, AudioTypes, LiveInv, status' = "running",
           A!FeedCheck \/ A!FeedHand \/ A!FeedCount
    PROVE  LiveInv'
<1> USE DEF AudioTypes
<1>1. UNCHANGED <<processed, consumed, emitted, final, records, writeError, engine, reader>>
  BY DEF A!FeedCheck, A!FeedHand, A!FeedCount
<1>2. Heard' = Heard /\ (A!Finishing)' = A!Finishing /\ A!At("flushed")' = A!At("flushed")
  BY <1>1 DEF Heard, A!Finishing, A!At, A!NoClock
<1>3. ReadInv'
  BY <1>1, <1>2 DEF LiveInv, ReadInv, A!FeedCheck, A!FeedHand, A!FeedCount, A!NoClock
<1>4. RoomInv' /\ RecordsInv'
  BY <1>1, <1>2 DEF LiveInv, RoomInv, RecordsInv, RecordInv
<1>5. ~A!Finishing
  BY DEF LiveInv, FeedInv, A!FeedCheck, A!FeedHand, A!FeedCount
<1>6. Frames = Len(toChild) /\ Frames' = Len(toChild') /\ Len(toChild) \in Nat
  BY <1>2, <1>5 DEF Frames
<1>7. FeedInv'
  <2>1. CASE A!FeedCheck
    <3>1. feeder = "idle" /\ feeder' = "checked" /\ fed' = fed /\ toChild' = toChild
          /\ fed < MaxFrames /\ fed - processed + 1 <= MaxQueue
      BY <2>1 DEF A!FeedCheck
    <3>2. Handed = 0 /\ Handed' = 0 /\ Claimed' = 1
      BY <3>1 DEF Handed, Claimed
    <3>3. fed + 1 <= MaxFrames /\ fed + 1 <= processed + MaxQueue
      BY <3>1, AudioAssumption
    <3> QED
      BY <1>1, <1>2, <1>5, <1>6, <3>1, <3>2, <3>3 DEF LiveInv, FeedInv
  <2>2. CASE A!FeedHand /\ writeError
    <3>1. feeder = "checked" /\ feeder' = "idle" /\ fed' = fed /\ toChild' = toChild
      BY <2>2 DEF A!FeedHand
    <3>2. Handed = 0 /\ Handed' = 0 /\ Claimed = 1 /\ Claimed' = 0
      BY <3>1 DEF Handed, Claimed
    <3>3. fed + Claimed' <= MaxFrames /\ fed + Claimed' <= processed + MaxQueue
      BY <3>2, AudioAssumption DEF LiveInv, FeedInv
    <3> QED
      BY <1>1, <1>2, <1>5, <1>6, <3>1, <3>2, <3>3 DEF LiveInv, FeedInv
  <2>3. CASE A!FeedHand /\ ~writeError
    <3>1. feeder = "checked" /\ feeder' = "handed" /\ fed' = fed
          /\ toChild' = Append(toChild, "frame")
      BY <2>3 DEF A!FeedHand
    <3>2. Handed = 0 /\ Handed' = 1 /\ Claimed' = Claimed
      BY <3>1 DEF Handed, Claimed
    <3>3. /\ Len(toChild') = Len(toChild) + 1 /\ toChild'[Len(toChild) + 1] = "frame"
          /\ \A i \in 1..Len(toChild) : toChild'[i] = toChild[i]
      BY <3>1
    <3>4. \A i \in 1..Len(toChild') : toChild'[i] # "finish"
      BY <1>5, <1>6, <3>3 DEF LiveInv, FeedInv
    <3>5. consumed + Frames' = fed + Handed'
      BY <1>6, <3>2, <3>3 DEF LiveInv, FeedInv
    <3> QED
      BY <1>1, <1>2, <1>5, <3>1, <3>2, <3>4, <3>5 DEF LiveInv, FeedInv
  <2>4. CASE A!FeedCount
    <3>1. feeder = "handed" /\ feeder' = "counted" /\ fed' = fed + 1 /\ toChild' = toChild
      BY <2>4 DEF A!FeedCount
    <3>2. Handed = 1 /\ Handed' = 0 /\ Claimed = 1 /\ Claimed' = 0
      BY <3>1 DEF Handed, Claimed
    <3>3. /\ consumed + Frames' = fed' + Handed'
          /\ fed' + Claimed' = fed + Claimed
      BY <1>6, <3>1, <3>2 DEF LiveInv, FeedInv
    <3> QED
      BY <1>1, <1>2, <1>5, <3>1, <3>3 DEF LiveInv, FeedInv
  <2> QED
    BY <2>1, <2>2, <2>3, <2>4
<1> QED
  BY <1>3, <1>4, <1>7 DEF LiveInv

\* A child that takes a frame says one thing about it, behind what it said before.
LEMMA ChildFrameLive ==
    ASSUME Roomy, AudioTypes, LiveInv, status' = "running", A!ChildFrame PROVE LiveInv'
<1> USE DEF AudioTypes
<1>1. /\ engine = "running" /\ toChild # <<>> /\ Head(toChild) = "frame"
      /\ toChild' = Tail(toChild) /\ consumed' = consumed + 1
      /\ UNCHANGED <<fed, processed, timer, engine, writeError, feeder, reader, final, emitted>>
  BY DEF A!ChildFrame
<1>2. /\ Len(records) < MaxRecords /\ Heard = processed /\ Len(records) \in Nat
      /\ consumed # A!NoClock
  BY <1>1, AudioNumbers, AudioAssumption
<1>3. /\ Len(toChild') = Len(toChild) - 1 /\ Len(toChild) >= 1 /\ Len(toChild) \in Nat
      /\ toChild[1] = "frame"
      /\ \A i \in 1..Len(toChild') : toChild'[i] = toChild[i + 1] /\ i + 1 \in 1..Len(toChild)
  BY <1>1, Shortened
<1>4. PICK rec \in {A!Rec("event", consumed + 1), A!Rec("error", 0)} :
          records' = A!Post(records, rec)
  BY DEF A!ChildFrame
<1>5. /\ rec \in Record
      /\ \/ rec.kind = "event" /\ rec.clock = consumed + 1
         \/ rec.kind = "error"
  BY Recorded DEF Kinds
<1>6. /\ Len(records') = Len(records) + 1 /\ records'[Len(records) + 1] = rec
      /\ \A i \in 1..Len(records) : records'[i] = records[i]
  BY <1>2, <1>4, <1>5, Posted, Appended
<1>7. (A!Finishing)' = A!Finishing /\ A!At("flushed")' = A!At("flushed")
  BY <1>1 DEF A!Finishing, A!At
<1>8. Heard' = Heard /\ Handed' = Handed /\ Claimed' = Claimed
  BY <1>1, <1>7 DEF Heard, Handed, Claimed, A!NoClock
<1>9. final = A!NoClock /\ Len(records) = consumed - processed
  BY <1>1 DEF LiveInv, ReadInv, RoomInv
<1>10. FeedInv'
  <2>1. CASE A!Finishing
    <3>1. Len(toChild) >= 2
      BY <1>3, <2>1 DEF LiveInv, FeedInv
    <3>2. toChild' # <<>> /\ toChild # <<>>
      <4>1. Len(toChild') # 0
        BY <1>3, <3>1
      <4>2. Len(<<>>) = 0
        OBVIOUS
      <4> QED
        BY <1>1, <4>1, <4>2, ZenonT(30)
    <3>3. Frames' = Frames - 1 /\ Frames \in Nat
      BY <1>3, <1>7, <2>1, <3>2 DEF Frames
    <3>4. consumed' + Frames' = fed' + Handed'
      BY <1>1, <1>8, <3>3 DEF LiveInv, FeedInv
    <3>5. \A i \in 1..Len(toChild') : toChild'[i] = "finish" <=> i = Len(toChild')
      BY <1>3, <2>1 DEF LiveInv, FeedInv
    <3> QED
      BY <1>1, <1>7, <1>8, <2>1, <3>2, <3>4, <3>5 DEF LiveInv, FeedInv
  <2>2. CASE ~A!Finishing
    <3>1. Frames' = Frames - 1 /\ Frames \in Nat
      BY <1>3, <1>7, <2>2 DEF Frames
    <3>2. consumed' + Frames' = fed' + Handed'
      BY <1>1, <1>8, <3>1 DEF LiveInv, FeedInv
    <3>3. \A i \in 1..Len(toChild') : toChild'[i] # "finish"
      BY <1>3, <2>2 DEF LiveInv, FeedInv
    <3> QED
      BY <1>1, <1>7, <1>8, <2>2, <3>2, <3>3 DEF LiveInv, FeedInv
  <2> QED
    BY <2>1, <2>2
<1>11. ReadInv'
  BY <1>1, <1>7, <1>9 DEF LiveInv, ReadInv, A!NoClock
<1>12. RoomInv'
  BY <1>1, <1>2, <1>6 DEF LiveInv, RoomInv
<1>13. RecordsInv'
  <2> SUFFICES ASSUME NEW i \in 1..Len(records')
               PROVE  /\ records'[i].kind = "event" =>
                             records'[i].clock = Heard + i /\ Heard + i <= consumed + 1
                      /\ records'[i].kind \in {"event", "error"}
    BY <1>1, <1>8 DEF RecordsInv, RecordInv
  <2>1. CASE i = Len(records) + 1
    <3>1. records'[i] = rec /\ Heard + i = consumed + 1
      BY <1>2, <1>6, <1>9, <2>1
    <3> QED
      BY <1>5, <3>1
  <2>2. CASE i \in 1..Len(records)
    <3>1. Heard + i <= consumed
      BY <1>2, <1>9, <2>2
    <3>2. records'[i] = records[i] /\ records[i].kind \in Kinds
      <4>1. records[i] \in Record
        BY <2>2
      <4> QED
        BY <1>6, <2>2, <4>1 DEF Record
    <3>3. records[i].kind \notin {"final", "done", "flood", "eof"}
      <4>1. RecordInv(i)
        BY <2>2 DEF LiveInv, RecordsInv
      <4>2. records[i].kind # "done"
        BY <1>2, <3>1, <4>1 DEF RecordInv
      <4> QED
        BY <1>1, <4>1, <4>2 DEF RecordInv
    <3>4. records[i].kind = "event" => records[i].clock = Heard + i
      BY <2>2 DEF LiveInv, RecordsInv, RecordInv
    <3>5. records'[i].kind \in {"event", "error"}
      BY <3>2, <3>3 DEF Kinds
    <3>6. Heard + i <= consumed + 1
      BY <1>2, <2>2, <3>1
    <3> QED
      BY <3>2, <3>4, <3>5, <3>6
  <2> QED
    BY <1>2, <1>6, <2>1, <2>2
<1> QED
  BY <1>10, <1>11, <1>12, <1>13 DEF LiveInv

\* A child that is told to finish posts the final record and "done" behind all its
\* events, and has nothing left to take.
LEMMA ChildFinishLive ==
    ASSUME Roomy, AudioTypes, LiveInv, status' = "running", A!ChildFinish
    PROVE  LiveInv' /\ toChild' = <<>> /\ A!Finishing
<1> USE DEF AudioTypes
<1>1. /\ engine = "running" /\ engine' = "exited" /\ toChild # <<>> /\ Head(toChild) = "finish"
      /\ toChild' = Tail(toChild)
      /\ UNCHANGED <<fed, processed, consumed, writeError, feeder, reader, final, emitted>>
      /\ records' = A!Post(A!Post(records, A!Rec("final", consumed)), A!Rec("done", 0))
  BY DEF A!ChildFinish
<1>2. /\ Len(records) + 3 < MaxRecords /\ Heard = processed /\ Len(records) \in Nat
      /\ MaxRecords \in Nat
  BY <1>1, AudioNumbers
<1>3. /\ Len(toChild') = Len(toChild) - 1 /\ Len(toChild) >= 1 /\ Len(toChild) \in Nat
      /\ toChild[1] = "finish"
  BY <1>1, Shortened
<1>4. A!Finishing /\ Len(toChild) = 1
  BY <1>3 DEF LiveInv, FeedInv
<1>5. toChild' = <<>> /\ Len(toChild') = 0
  BY <1>1, <1>3, <1>4
<1>6. (A!Finishing)' = A!Finishing /\ A!At("flushed")' = A!At("flushed")
  BY <1>1 DEF A!Finishing, A!At
<1>7. Heard' = Heard /\ Handed' = Handed /\ Claimed' = Claimed /\ Frames' = 0 /\ Frames = 0
  BY <1>1, <1>3, <1>4, <1>5, <1>6 DEF Heard, Handed, Claimed, Frames, A!NoClock
<1>8. final = A!NoClock /\ Len(records) = consumed - processed /\ ~writeError /\ ~A!At("flushed")
  BY <1>1 DEF LiveInv, ReadInv, RoomInv
<1>9. PICK last \in Record, end \in Record :
          /\ last.kind = "final" /\ last.clock = consumed /\ end.kind = "done"
          /\ records' = A!Post(A!Post(records, last), end)
  BY <1>1, Recorded DEF Kinds
<1>10. A!Post(records, last) = Append(records, last)
  BY <1>2, Posted
<1>11. /\ Append(records, last) \in Seq(Record)
       /\ Len(Append(records, last)) = Len(records) + 1
       /\ Append(records, last)[Len(records) + 1] = last
       /\ \A i \in 1..Len(records) : Append(records, last)[i] = records[i]
  BY Appended
<1>12. records' = Append(Append(records, last), end)
  <2>1. Len(Append(records, last)) < MaxRecords
    BY <1>2, <1>11
  <2>2. A!Post(Append(records, last), end) = Append(Append(records, last), end)
    BY <1>11, <2>1, Posted
  <2> QED
    BY <1>9, <1>10, <2>2
<1>13. /\ Len(records') = Len(records) + 2
       /\ records'[Len(records) + 2] = end
       /\ \A i \in 1..Len(records) + 1 : records'[i] = Append(records, last)[i]
  BY <1>11, <1>12, Appended
<1>14. FeedInv'
  BY <1>1, <1>4, <1>5, <1>6, <1>7 DEF LiveInv, FeedInv
<1>15. ReadInv'
  BY <1>1, <1>6, <1>8 DEF LiveInv, ReadInv, A!NoClock
<1>16. RoomInv'
  BY <1>1, <1>2, <1>8, <1>13 DEF LiveInv, RoomInv
<1>17. RecordsInv'
  <2> SUFFICES ASSUME NEW i \in 1..Len(records')
               PROVE  /\ records'[i].kind = "event" =>
                             records'[i].clock = Heard + i /\ Heard + i <= consumed
                      /\ records'[i].kind = "final" => /\ records'[i].clock = consumed
                                                       /\ Heard + i = consumed + 1
                      /\ records'[i].kind = "done" => Heard + i = consumed + 2
                      /\ records'[i].kind \notin {"flood", "eof"}
    BY <1>1, <1>4, <1>6, <1>7 DEF RecordsInv, RecordInv
  <2>1. CASE i = Len(records) + 2
    BY <1>2, <1>8, <1>9, <1>13, <2>1
  <2>2. CASE i = Len(records) + 1
    <3>1. records'[i] = last
      BY <1>2, <1>11, <1>13, <2>2
    <3>2. Heard + i = consumed + 1
      BY <1>2, <1>8, <2>2
    <3> QED
      BY <1>9, <3>1, <3>2
  <2>3. CASE i \in 1..Len(records)
    <3>1. records'[i] = records[i]
      BY <1>2, <1>11, <1>13, <2>3
    <3> QED
      BY <1>1, <2>3, <3>1 DEF LiveInv, RecordsInv, RecordInv
  <2>4. i = Len(records) + 2 \/ i = Len(records) + 1 \/ i \in 1..Len(records)
    <3>1. Len(records') = Len(records) + 2 /\ Len(records) \in Nat
      BY <1>2, <1>13
    <3> QED
      BY <3>1
  <2> QED
    BY <2>1, <2>2, <2>3, <2>4
<1> QED
  BY <1>4, <1>5, <1>14, <1>15, <1>16, <1>17 DEF LiveInv

\* A child whose native stop fails says that instead, and has nothing left to take.
LEMMA ChildStopFailsLive ==
    ASSUME Roomy, AudioTypes, LiveInv, status' = "running", A!ChildStopFails
    PROVE  LiveInv'
<1> USE DEF AudioTypes
<1>1. /\ engine = "running" /\ engine' = "unstopped" /\ toChild # <<>>
      /\ Head(toChild) = "finish" /\ toChild' = Tail(toChild)
      /\ UNCHANGED <<fed, processed, consumed, writeError, feeder, reader, final, emitted>>
      /\ records' = A!Post(records, A!Rec("error", 0))
  BY DEF A!ChildStopFails
<1>2. Len(records) < MaxRecords /\ Heard = processed /\ Len(records) \in Nat
  BY <1>1, AudioNumbers, AudioAssumption
<1>3. /\ Len(toChild') = Len(toChild) - 1 /\ Len(toChild) >= 1 /\ Len(toChild) \in Nat
      /\ toChild[1] = "finish"
  BY <1>1, Shortened
<1>4. A!Finishing /\ Len(toChild) = 1
  BY <1>3 DEF LiveInv, FeedInv
<1>5. toChild' = <<>> /\ Len(toChild') = 0
  BY <1>1, <1>3, <1>4
<1>6. (A!Finishing)' = A!Finishing /\ A!At("flushed")' = A!At("flushed")
  BY <1>1 DEF A!Finishing, A!At
<1>7. Heard' = Heard /\ Handed' = Handed /\ Claimed' = Claimed /\ Frames' = 0 /\ Frames = 0
  BY <1>1, <1>3, <1>4, <1>5, <1>6 DEF Heard, Handed, Claimed, Frames, A!NoClock
<1>8. final = A!NoClock /\ Len(records) = consumed - processed /\ ~writeError /\ ~A!At("flushed")
  BY <1>1 DEF LiveInv, ReadInv, RoomInv
<1>9. A!Rec("error", 0) \in Record /\ A!Rec("error", 0).kind = "error"
  BY Recorded DEF Kinds
<1>10. /\ Len(records') = Len(records) + 1 /\ records'[Len(records) + 1].kind = "error"
       /\ \A i \in 1..Len(records) : records'[i] = records[i]
  <2>1. PICK rec \in Record : rec.kind = "error" /\ records' = A!Post(records, rec)
    BY <1>1, <1>9
  <2>2. records' = Append(records, rec)
    BY <1>2, <2>1, Posted
  <2> QED
    BY <2>1, <2>2, Appended
<1>11. FeedInv'
  <2>1. consumed' + Frames' = fed' + Handed' /\ (A!Finishing)' /\ feeder' = "idle"
    BY <1>1, <1>4, <1>6, <1>7 DEF LiveInv, FeedInv
  <2>2. fed' + Claimed' <= MaxFrames /\ fed' + Claimed' <= processed' + MaxQueue
    BY <1>1, <1>7 DEF LiveInv, FeedInv
  <2>3. engine' # "running" /\ 1..Len(toChild') = {}
    BY <1>1, <1>5
  <2> QED
    BY <2>1, <2>2, <2>3 DEF FeedInv
<1>12. ReadInv'
  BY <1>1, <1>6, <1>8 DEF LiveInv, ReadInv, A!NoClock
<1>13. RoomInv'
  BY <1>1, <1>2, <1>8, <1>10 DEF LiveInv, RoomInv
<1>14. RecordsInv'
  <2> SUFFICES ASSUME NEW i \in 1..Len(records') PROVE RecordInv(i)'
    BY DEF RecordsInv
  <2>1. CASE i = Len(records) + 1
    BY <1>10, <2>1 DEF RecordInv
  <2>2. CASE i \in 1..Len(records)
    <3>1. records'[i] = records[i] /\ RecordInv(i)
      BY <1>10, <2>2 DEF LiveInv, RecordsInv
    <3>2. records[i].kind # "final" /\ records[i].kind # "eof"
      BY <1>1, <3>1 DEF RecordInv
    <3> QED
      BY <1>1, <1>7, <3>1, <3>2 DEF RecordInv
  <2>3. i = Len(records) + 1 \/ i \in 1..Len(records)
    BY <1>2, <1>10
  <2> QED
    BY <2>1, <2>2, <2>3
<1> QED
  BY <1>11, <1>12, <1>13, <1>14 DEF LiveInv

\* A child that died says nothing more; then come the end of its output and, if
\* something was still on its way to it, the error of the writer.
LEMMA ChildEndsLive ==
    ASSUME Roomy, AudioTypes, LiveInv, status' = "running",
           A!ChildDies \/ A!PostEof \/ A!WriteBreaks
    PROVE  LiveInv'
<1> USE DEF AudioTypes
<1>1. UNCHANGED <<fed, processed, toChild, consumed, feeder, reader, final, emitted>>
  BY DEF A!ChildDies, A!PostEof, A!WriteBreaks
<1>2. (A!Finishing)' = A!Finishing /\ A!At("flushed")' = A!At("flushed")
  BY <1>1 DEF A!Finishing, A!At
<1>3. Heard' = Heard /\ Handed' = Handed /\ Claimed' = Claimed /\ Frames' = Frames
  BY <1>1, <1>2 DEF Heard, Handed, Claimed, Frames, A!NoClock
<1>4. Len(records) \in Nat /\ (engine = "exited" => Len(records) < MaxRecords)
  BY AudioNumbers
<1>5. engine' # "running"
  BY DEF A!ChildDies, A!PostEof, A!WriteBreaks
<1>6. FeedInv' /\ ReadInv'
  BY <1>1, <1>2, <1>3, <1>5 DEF LiveInv, FeedInv, ReadInv, A!NoClock
<1>7. CASE A!ChildDies
  <2>1. /\ records' = records /\ writeError' = writeError
        /\ engine \in {"running", "unstopped"} /\ engine' = "exited"
    BY <1>7 DEF A!ChildDies
  <2>2. RoomInv'
    BY <1>1, <1>4, <2>1 DEF LiveInv, RoomInv
  <2>3. RecordsInv'
    BY <1>1, <1>2, <1>3, <2>1 DEF LiveInv, RecordsInv, RecordInv
  <2> QED
    BY <1>6, <2>2, <2>3 DEF LiveInv
<1>8. CASE A!PostEof
  <2>1. /\ engine = "exited" /\ engine' = "posted" /\ writeError' = writeError
        /\ records' = A!Post(records, A!Rec("eof", 0))
    BY <1>8 DEF A!PostEof
  <2>2. A!Rec("eof", 0) \in Record /\ A!Rec("eof", 0).kind = "eof"
    BY Recorded DEF Kinds
  <2>3. /\ Len(records') = Len(records) + 1 /\ records'[Len(records) + 1].kind = "eof"
        /\ \A i \in 1..Len(records) : records'[i] = records[i]
    <3>1. PICK rec \in Record : rec.kind = "eof" /\ records' = A!Post(records, rec)
      BY <2>1, <2>2
    <3>2. records' = Append(records, rec)
      BY <1>4, <2>1, <3>1, Posted
    <3> QED
      BY <3>1, <3>2, Appended
  <2>4. RoomInv'
    BY <1>1, <1>4, <2>1, <2>3 DEF LiveInv, RoomInv
  <2>5. \A i \in 1..Len(records) : records[i].kind # "eof"
    BY <2>1 DEF LiveInv, RecordsInv, RecordInv
  <2>6. RecordsInv'
    BY <1>1, <1>2, <1>3, <1>4, <2>1, <2>3, <2>5 DEF LiveInv, RecordsInv, RecordInv
  <2> QED
    BY <1>6, <2>4, <2>6 DEF LiveInv
<1>9. CASE A!WriteBreaks
  <2>1. /\ engine' = engine /\ engine # "running" /\ ~writeError /\ writeError' = TRUE
        /\ \/ records' = records
           \/ records' = Append(records, A!Rec("error", 0))
    BY <1>9 DEF A!WriteBreaks
  <2>2. A!Rec("error", 0) \in Record /\ A!Rec("error", 0).kind = "error"
    BY Recorded DEF Kinds
  <2>3. CASE records' = records
    <3>1. RoomInv'
      BY <1>1, <1>4, <2>1, <2>3 DEF LiveInv, RoomInv
    <3>2. RecordsInv'
      BY <1>1, <1>2, <1>3, <2>1, <2>3 DEF LiveInv, RecordsInv, RecordInv
    <3> QED
      BY <1>6, <3>1, <3>2 DEF LiveInv
  <2>4. CASE records' = Append(records, A!Rec("error", 0))
    <3>1. /\ Len(records') = Len(records) + 1 /\ records'[Len(records) + 1].kind = "error"
          /\ \A i \in 1..Len(records) : records'[i] = records[i]
      BY <2>2, <2>4, Appended
    <3>2. RoomInv'
      BY <1>1, <1>4, <2>1, <3>1 DEF LiveInv, RoomInv
    <3>3. ASSUME NEW i \in 1..Len(records), records[i].kind = "eof",
                 NEW j \in i + 1..Len(records')
          PROVE  records'[j].kind = "error"
      <4>1. CASE j = Len(records) + 1
        BY <3>1, <4>1
      <4>2. CASE j \in i + 1..Len(records)
        <5>1. records[j].kind = "error"
          BY <3>3, <4>2 DEF LiveInv, RecordsInv, RecordInv
        <5>2. j \in 1..Len(records)
          BY <1>4, <4>2
        <5> QED
          BY <3>1, <5>1, <5>2
      <4>3. j = Len(records) + 1 \/ j \in i + 1..Len(records)
        <5>1. Len(records') = Len(records) + 1 /\ Len(records) \in Nat
          BY <1>4, <3>1
        <5> QED
          BY <5>1
      <4> QED
        BY <4>1, <4>2, <4>3
    <3>4. RecordsInv'
      <4> SUFFICES ASSUME NEW i \in 1..Len(records') PROVE RecordInv(i)'
        BY DEF RecordsInv
      <4>1. CASE i = Len(records) + 1
        BY <3>1, <4>1 DEF RecordInv
      <4>2. CASE i \in 1..Len(records)
        BY <1>1, <1>2, <1>3, <2>1, <3>1, <3>3, <4>2 DEF LiveInv, RecordsInv, RecordInv
      <4>3. i = Len(records) + 1 \/ i \in 1..Len(records)
        BY <1>4, <3>1
      <4> QED
        BY <4>1, <4>2, <4>3
    <3> QED
      BY <1>6, <3>2, <3>4 DEF LiveInv
  <2> QED
    BY <2>1, <2>3, <2>4
<1> QED
  BY <1>7, <1>8, <1>9

\* One record less, and at most one frame less between the child and the reader.
LEMMA OneLess ==
    ASSUME NEW l \in Int, NEW m, NEW c \in Int, NEW p \in Int, NEW q \in {p, p + 1},
           NEW e \in Int, NEW w \in Int, l <= c - p + 2 + e + w, m = l - 1
    PROVE  m <= c - q + 2 + e + w
OBVIOUS

\* The reader takes the record that is next, counts what it says, and says it is heard.
LEMMA TakenLive ==
    ASSUME Roomy, AudioTypes, LiveInv, status = "running", status' = "running",
           records # <<>>, records' = Tail(records),
           UNCHANGED <<fed, toChild, consumed, engine, writeError, feeder>>,
           reader'.home = reader.home,
           processed' <= consumed, processed' \in {processed, processed + 1},
           engine = "running" => processed' = processed + 1,
           \/ Heard' = Heard + 1
           \/ Heard' = Heard /\ records[1].kind = "eof",
           ReadInv'
    PROVE  LiveInv'
<1> USE DEF AudioTypes
<1>1. /\ Len(records') = Len(records) - 1 /\ Len(records) >= 1 /\ Len(records) \in Nat
      /\ \A i \in 1..Len(records') : records'[i] = records[i + 1] /\ i + 1 \in 1..Len(records)
  BY Shortened
<1>2. (A!Finishing)' = A!Finishing /\ Handed' = Handed /\ Claimed' = Claimed
  BY DEF A!Finishing, Handed, Claimed
<1>3. Frames' = Frames
  BY <1>2 DEF Frames
<1>4. FeedInv'
  <2>1. Claimed \in Nat /\ fed + Claimed <= processed' + MaxQueue
    BY AudioAssumption DEF LiveInv, FeedInv, Claimed
  <2> QED
    BY <1>2, <1>3, <2>1 DEF LiveInv, FeedInv
<1>5. RoomInv'
  <2>1. engine = "running" => Len(records') = consumed - processed' /\ ~writeError
    BY <1>1 DEF LiveInv, RoomInv
  <2>2. Len(records') <= consumed - processed' + 2
                           + (IF engine \in {"posted", "over"} THEN 1 ELSE 0)
                           + (IF writeError THEN 1 ELSE 0)
    <3>1. Len(records) <= consumed - processed + 2
                            + (IF engine \in {"posted", "over"} THEN 1 ELSE 0)
                            + (IF writeError THEN 1 ELSE 0)
      BY DEF LiveInv, RoomInv
    <3>2. PICK e \in {0, 1}, w \in {0, 1} :
              /\ e = IF engine \in {"posted", "over"} THEN 1 ELSE 0
              /\ w = IF writeError THEN 1 ELSE 0
      OBVIOUS
    <3>3. Len(records) <= consumed - processed + 2 + e + w
      BY <3>1, <3>2
    <3>4. Len(records') <= consumed - processed' + 2 + e + w
      <4>1. /\ Len(records') = Len(records) - 1 /\ Len(records) \in Int
            /\ consumed \in Int /\ processed \in Int /\ e \in Int /\ w \in Int
        BY <1>1
      <4>2. processed' \in {processed, processed + 1}
        OBVIOUS
      <4> QED
        BY <3>3, <4>1, <4>2, OneLess
    <3> QED
      BY <3>2, <3>4
  <2>3. engine' = engine /\ writeError' = writeError /\ consumed' = consumed
    OBVIOUS
  <2> QED
    BY <2>1, <2>2, <2>3 DEF RoomInv
<1>6. RecordsInv'
  <2>1. Heard \in Nat
    BY DEF Heard
  <2>2. CASE Heard' = Heard + 1
    <3> SUFFICES ASSUME NEW i \in 1..Len(records') PROVE RecordInv(i)'
      BY DEF RecordsInv
    <3>1. RecordInv(i + 1) /\ records'[i] = records[i + 1]
      BY <1>1 DEF LiveInv, RecordsInv
    <3>2. Heard' + i = Heard + (i + 1)
      BY <2>1, <2>2
    <3>3. ASSUME records[i + 1].kind = "eof", NEW j \in i + 1..Len(records')
          PROVE  records'[j].kind = "error"
      <4>1. j + 1 \in (i + 1) + 1..Len(records) /\ j \in 1..Len(records')
        BY <1>1
      <4> QED
        BY <1>1, <3>1, <3>3, <4>1 DEF RecordInv
    <3> QED
      BY <1>2, <3>1, <3>2, <3>3 DEF RecordInv
  <2>3. CASE Heard' = Heard /\ records[1].kind = "eof"
    <3>1. ASSUME NEW i \in 1..Len(records') PROVE records'[i].kind = "error"
      <4>1. RecordInv(1) /\ i + 1 \in 1 + 1..Len(records)
        BY <1>1 DEF LiveInv, RecordsInv
      <4> QED
        BY <1>1, <2>3, <4>1 DEF RecordInv
    <3> QED
      BY <3>1 DEF RecordsInv, RecordInv
  <2> QED
    BY <2>2, <2>3
<1> QED
  BY <1>4, <1>5, <1>6 DEF LiveInv

\* Whatever record it is; only the end of the output says nothing.
LEMMA ReadLive ==
    ASSUME Roomy, AudioTypes, LiveInv, status = "running", status' = "running",
           A!TakeEvent \/ A!TakeFinal \/ A!TakeDone \/ A!TakeNothing
    PROVE  /\ LiveInv'
           /\ Heard' = Heard + 1 \/ records = <<>> \/ Head(records).kind = "eof"
<1> USE DEF AudioTypes
<1>1. A!NoClock = MaxFrames + 1 /\ consumed # A!NoClock /\ MaxFrames \in Nat
  BY AudioNumbers
<1>2. A!NoClock' = A!NoClock
  BY DEF A!NoClock
<1>3. CASE records # <<>> /\ records' = Tail(records)
  <2>1. /\ Head(records) = records[1] /\ Len(records) >= 1 /\ RecordInv(1)
        /\ records[1] \in Record
    <3>1. Len(records) >= 1 /\ Head(records) = records[1] /\ Head(records) \in Record
      BY <1>3, Shortened
    <3>2. 1 \in 1..Len(records)
      BY <3>1
    <3> QED
      BY <3>1, <3>2 DEF LiveInv, RecordsInv
  <2>2. /\ UNCHANGED <<fed, toChild, consumed, engine, writeError, feeder>>
        /\ reader'.home = reader.home
    BY DEF A!TakeEvent, A!TakeFinal, A!TakeDone, A!TakeNothing, A!Take, A!Goto
  <2>3. /\ processed <= consumed /\ processed <= fed /\ emitted = processed
        /\ final # A!NoClock => /\ final = consumed /\ processed = consumed
                                /\ A!Finishing /\ engine # "running"
    BY DEF LiveInv, ReadInv
  <2>4. (A!Finishing)' = A!Finishing
    BY <2>2 DEF A!Finishing
  <2>5. ~A!At("flushed")
    BY <1>3 DEF A!TakeEvent, A!TakeFinal, A!TakeDone, A!TakeNothing, A!Take, A!Reading, A!At
  <2>6. Heard = processed + (IF final = A!NoClock THEN 0 ELSE 1)
    BY <2>5 DEF Heard
  <2>7. CASE A!TakeEvent
    <3>1. /\ records[1].kind = "event" /\ processed' = records[1].clock
          /\ processed' \in processed..fed /\ emitted' = emitted + 1 /\ final' = final
          /\ reader'.at = "rearm"
      BY <2>1, <2>7 DEF A!TakeEvent, A!Take, A!Goto, A!Fail
    <3>2. processed' = Heard + 1 /\ Heard + 1 <= consumed
      BY <2>1, <3>1 DEF RecordInv
    <3>3. final = A!NoClock /\ Heard = processed
      BY <2>3, <2>6, <3>2
    <3>4. ~A!At("flushed")'
      BY <3>1 DEF A!At
    <3>5. Heard' = Heard + 1
      BY <1>2, <3>1, <3>2, <3>3, <3>4 DEF Heard
    <3>6. ReadInv'
      BY <1>2, <2>2, <2>3, <3>1, <3>2, <3>3, <3>4 DEF ReadInv
    <3>7. processed' <= consumed /\ processed' = processed + 1
      BY <3>2, <3>3
    <3> QED
      BY <1>3, <2>2, <3>5, <3>6, <3>7, TakenLive
  <2>8. CASE A!TakeFinal
    <3>1. /\ records[1].kind = "final" /\ processed' = processed /\ emitted' = emitted
          /\ reader' = reader
          /\ A!Finishing => final = A!NoClock /\ final' = records[1].clock
      BY <2>1, <2>8 DEF A!TakeFinal, A!Take, A!Fail
    <3>2. A!Finishing /\ records[1].clock = consumed /\ Heard + 1 = consumed + 1
          /\ engine # "running"
      BY <2>1, <3>1 DEF RecordInv
    <3>3. Heard = processed /\ processed = consumed /\ final' = consumed
      BY <2>3, <2>6, <3>1, <3>2
    <3>4. ~A!At("flushed")'
      BY <2>5, <3>1 DEF A!At
    <3>5. Heard' = Heard + 1
      BY <1>1, <1>2, <3>1, <3>3, <3>4 DEF Heard
    <3>6. ReadInv'
      BY <1>2, <2>2, <2>3, <2>4, <3>1, <3>2, <3>3, <3>4 DEF ReadInv
    <3> QED
      BY <1>3, <2>2, <2>3, <3>1, <3>2, <3>5, <3>6, TakenLive
  <2>9. CASE A!TakeDone
    <3>1. /\ records[1].kind = "done" /\ processed' = processed /\ emitted' = emitted
          /\ final' = final /\ final # A!NoClock /\ reader'.at = "flushed"
      BY <2>1, <2>9 DEF A!TakeDone, A!Take, A!Goto, A!Fail
    <3>2. A!At("flushed")'
      BY <3>1 DEF A!At
    <3>3. Heard' = Heard + 1
      BY <1>2, <2>6, <3>1, <3>2 DEF Heard
    <3>4. ReadInv'
      BY <1>2, <2>2, <2>3, <2>4, <3>1 DEF ReadInv
    <3> QED
      BY <1>3, <2>2, <2>3, <3>1, <3>3, <3>4, TakenLive
  <2>10. CASE A!TakeNothing
    <3>1. /\ records[1].kind = "eof" /\ processed' = processed /\ emitted' = emitted
          /\ final' = final /\ reader'.at = "ended"
      BY <1>3, <2>1, <2>10 DEF A!TakeNothing, A!Take, A!Goto
    <3>2. ~A!At("flushed")'
      BY <3>1 DEF A!At
    <3>3. Heard' = Heard
      BY <1>2, <2>6, <3>1, <3>2 DEF Heard
    <3>4. ReadInv'
      BY <1>2, <2>2, <2>3, <2>4, <3>1, <3>2 DEF ReadInv
    <3>5. engine # "running"
      BY <2>1, <3>1 DEF RecordInv
    <3> QED
      BY <1>3, <2>1, <2>2, <2>3, <3>1, <3>3, <3>4, <3>5, TakenLive
  <2> QED
    BY <2>7, <2>8, <2>9, <2>10
<1>4. CASE ~(records # <<>> /\ records' = Tail(records))
  <2>1. A!TakeNothing
    BY <1>4 DEF A!TakeEvent, A!TakeFinal, A!TakeDone, A!Take
  <2>2. /\ A!Reading /\ reader'.at = "ended" /\ reader'.home = reader.home
        /\ records = <<>>
        /\ UNCHANGED <<fed, processed, toChild, consumed, engine, writeError, feeder, records,
                       final, emitted>>
    BY <1>4, <2>1 DEF A!TakeNothing, A!Take, A!Goto
  <2>3. /\ (A!Finishing)' = A!Finishing /\ ~A!At("flushed") /\ ~A!At("flushed")'
    BY <2>2 DEF A!Finishing, A!At, A!Reading
  <2>4. Heard' = Heard /\ Handed' = Handed /\ Claimed' = Claimed /\ Frames' = Frames
    BY <1>2, <2>2, <2>3 DEF Heard, Handed, Claimed, Frames
  <2>5. FeedInv' /\ RoomInv'
    BY <2>2, <2>3, <2>4 DEF LiveInv, FeedInv, RoomInv
  <2>6. ReadInv'
    BY <1>2, <2>2, <2>3 DEF LiveInv, ReadInv
  <2>7. RecordsInv'
    BY <2>2, <2>3, <2>4 DEF LiveInv, RecordsInv, RecordInv
  <2> QED
    BY <2>2, <2>5, <2>6, <2>7 DEF LiveInv
<1> QED
  BY <1>3, <1>4

\* finish puts its word behind the frames.
LEMMA FinishBeginLive ==
    ASSUME Roomy, AudioTypes, LiveInv, status' = "running", A!FinishBegin PROVE LiveInv'
<1> USE DEF AudioTypes
<1>1. /\ ~A!Finishing /\ feeder = "idle" /\ ~A!At("flushed")
      /\ reader' = [at |-> "finishing", home |-> "finishing"]
      /\ toChild' = Append(toChild, "finish")
      /\ UNCHANGED <<fed, processed, consumed, engine, records, writeError, feeder, final, emitted>>
  BY DEF A!FinishBegin, A!Fail, A!At
<1>2. (A!Finishing)' /\ ~A!At("flushed")' /\ A!NoClock' = A!NoClock
  BY <1>1 DEF A!Finishing, A!At, A!NoClock
<1>3. /\ Len(toChild') = Len(toChild) + 1 /\ toChild'[Len(toChild) + 1] = "finish"
      /\ \A i \in 1..Len(toChild) : toChild'[i] = toChild[i]
      /\ Len(toChild) \in Nat
  BY <1>1
<1>4. toChild' # <<>>
  <2>1. Len(toChild') # 0
    BY <1>3
  <2>2. Len(<<>>) = 0
    OBVIOUS
  <2> QED
    BY <2>1, <2>2, ZenonT(30)
<1>5. Frames = Len(toChild) /\ Frames' = Len(toChild)
  BY <1>1, <1>2, <1>3, <1>4 DEF Frames
<1>6. Heard' = Heard /\ Handed' = Handed /\ Claimed' = Claimed
  BY <1>1, <1>2 DEF Heard, Handed, Claimed
<1>7. \A i \in 1..Len(toChild) : toChild[i] # "finish"
  BY <1>1 DEF LiveInv, FeedInv
<1>8. \A i \in 1..Len(toChild') : toChild'[i] = "finish" <=> i = Len(toChild')
  BY <1>3, <1>7
<1>9. FeedInv'
  BY <1>1, <1>2, <1>4, <1>5, <1>6, <1>8 DEF LiveInv, FeedInv
<1>10. ReadInv'
  BY <1>1, <1>2 DEF LiveInv, ReadInv
<1>11. RoomInv' /\ RecordsInv'
  BY <1>1, <1>2, <1>6 DEF LiveInv, RoomInv, RecordsInv, RecordInv
<1> QED
  BY <1>9, <1>10, <1>11 DEF LiveInv

\* Every step of the audio keeps its invariant.
LEMMA AudioStep == ASSUME Roomy, AudioInv, A!Next PROVE AudioInv'
<1>1. AudioTypes'
  BY AudioTypesKeep DEF AudioInv
<1>2. ASSUME status' = "running" PROVE LiveInv'
  <2>1. status = "running" /\ AudioTypes /\ LiveInv
    BY <1>2, RunningStays DEF AudioInv
  <2>2. ~A!ReadRaises /\ ~A!TakeError /\ ~A!FinishTimesOut /\ ~A!Finalize
    BY <1>2 DEF A!ReadRaises, A!TakeError, A!FinishTimesOut, A!Finalize, A!Fail
  <2> QED
    BY <1>2, <2>1, <2>2, QuietLive, FeedLive, ChildFrameLive, ChildFinishLive,
       ChildStopFailsLive, ChildEndsLive, ReadLive, FinishBeginLive
       DEF A!Next, A!FeedStep, A!ChildStep, A!ReadStep
<1>3. ASSUME status' = "finished" PROVE FinishedInv'
  <2>1. CASE status = "finished"
    <3>1. FinishedInv
      BY <2>1 DEF AudioInv
    <3>2. /\ feeder' = feeder /\ UNCHANGED <<fed, processed, consumed, emitted>>
          /\ engine' # "running"
      BY <2>1, <3>1 DEF FinishedInv, A!Next, A!FeedStep, A!ChildStep, A!ReadStep, A!FeedCheck,
           A!FeedHand, A!FeedCount, A!FeedArm, A!ChildFrame, A!ChildFinish, A!ChildStopFails,
           A!ChildDies, A!PostEof,
           A!StdoutThreadEnds, A!WriteBreaks, A!ReadRaises, A!TakeEvent, A!TakeError,
           A!TakeFinal, A!TakeDone, A!TakeNothing, A!CheckEnded, A!CheckStalled, A!Rearm, A!Clear,
           A!Finalize, A!FinishBegin, A!FinishTimesOut, A!Tick, A!Take, A!Reading, A!Running
    <3> QED
      BY <3>1, <3>2 DEF FinishedInv
  <2>2. CASE status # "finished"
    <3>1. A!Finalize /\ final = fed
      BY <1>3, <2>2 DEF A!Next, A!FeedStep, A!ChildStep, A!ReadStep, A!FeedCheck,
           A!FeedHand, A!FeedCount, A!FeedArm, A!ChildFrame, A!ChildFinish, A!ChildStopFails,
           A!ChildDies, A!PostEof,
           A!StdoutThreadEnds, A!WriteBreaks, A!ReadRaises, A!TakeEvent, A!TakeError,
           A!TakeFinal, A!TakeDone, A!TakeNothing, A!CheckEnded, A!CheckStalled, A!Rearm, A!Clear,
           A!Finalize, A!FinishBegin, A!FinishTimesOut, A!Tick, A!Fail, A!StaysUp, A!Take
    <3>2. /\ status = "running" /\ A!At("flushed") /\ processed' = fed
          /\ UNCHANGED <<fed, consumed, engine, feeder, emitted>>
      BY <3>1 DEF A!Finalize, A!Running
    <3>3. LiveInv
      BY <3>2 DEF AudioInv
    <3>4. final # A!NoClock /\ final = consumed /\ processed = consumed /\ A!Finishing
          /\ engine # "running" /\ emitted = processed /\ feeder = "idle"
      BY <3>2, <3>3 DEF LiveInv, ReadInv, FeedInv
    <3> QED
      BY <3>1, <3>2, <3>4 DEF FinishedInv
  <2> QED
    BY <2>1, <2>2
<1> QED
  BY <1>1, <1>2, <1>3 DEF AudioInv

\* The steps of the other layers leave it alone.
LEMMA AudioKept == ASSUME AudioInv, UNCHANGED audioVars PROVE AudioInv'
<1>1. /\ (A!Finishing)' = A!Finishing /\ A!At("flushed")' = A!At("flushed")
      /\ A!NoClock' = A!NoClock
  BY DEF audioVars, A!Finishing, A!At, A!NoClock
<1>2. Heard' = Heard /\ Handed' = Handed /\ Claimed' = Claimed /\ Frames' = Frames
  BY <1>1 DEF audioVars, Heard, Handed, Claimed, Frames
<1>3. AudioTypes' = AudioTypes
  BY DEF audioVars, AudioTypes
<1>4. LiveInv => LiveInv'
  BY <1>1, <1>2 DEF audioVars, LiveInv, FeedInv, ReadInv, RoomInv, RecordsInv, RecordInv
<1>5. FinishedInv' = FinishedInv
  BY DEF audioVars, FinishedInv
<1> QED
  BY <1>3, <1>4, <1>5 DEF AudioInv, audioVars

\* At first nothing is fed and nothing is queued.
LEMMA AudioStart == ASSUME A!Init PROVE AudioInv
<1>1. AudioTypes
  <2>1. final \in Nat /\ reader \in [at : Places, home : {"idle", "finishing"}]
    BY AudioAssumption DEF A!Init, A!NoClock, Places
  <2>2. toChild \in Seq({"frame", "finish"}) /\ records \in Seq(Record)
    BY DEF A!Init
  <2> QED
    BY <2>1, <2>2 DEF A!Init, AudioTypes
<1>2. /\ Len(toChild) = 0 /\ Len(records) = 0 /\ ~A!Finishing /\ ~A!At("flushed")
      /\ final = A!NoClock
  BY DEF A!Init, A!Finishing, A!At
<1>3. Frames = 0 /\ Handed = 0 /\ Claimed = 0
  BY <1>2 DEF A!Init, Frames, Handed, Claimed
<1>4. FeedInv /\ ReadInv /\ RoomInv /\ RecordsInv
  BY <1>2, <1>3, AudioAssumption DEF A!Init, FeedInv, ReadInv, RoomInv, RecordsInv
<1> QED
  BY <1>1, <1>4 DEF AudioInv, LiveInv, A!Init

\* "Every fed sample is processed by the time the tail flushes" (streaming.py,
\* finish): however the child errs, dies or lags, and whichever thread reads while
\* another feeds, a session that finished has counted and emitted every frame it
\* took, if its records have room for the audio feed lets wait.
THEOREM FinishedHasHeardAll == ASSUME Roomy PROVE AllSpec => []FinishedIsComplete
<1>1. AllInit => AudioInv
  BY AudioStart DEF AllInit
<1>2. AudioInv /\ [AllNext]_all => AudioInv'
  BY AudioKept, AudioStep DEF AllNext, all
<1>3. AudioInv => FinishedIsComplete
  BY DEF AudioInv, FinishedInv, FinishedIsComplete, A!FinishedIsComplete
<1> QED
  BY <1>1, <1>2, <1>3, PTL DEF AllSpec

\* A child that does its part says an event for each frame, then final and "done",
\* and its output ends: what comes at each place, and how much there is.
Due(k) == IF k <= consumed THEN "event"
          ELSE IF k = consumed + 1 THEN "final"
          ELSE IF k = consumed + 2 THEN "done" ELSE "eof"

Said == consumed + (IF engine = "running" THEN 0 ELSE IF engine = "exited" THEN 2 ELSE 3)

HonestInv ==
    /\ ~writeError
    /\ engine # "running" => toChild = <<>> /\ A!Finishing
    /\ Heard + Len(records) = Said
    /\ \A i \in 1..Len(records) : records[i].kind = Due(Heard + i)
    /\ A!Finishing => reader.at \in {"finishing", "rearm", "clear", "flushed"}

HonestAudio ==
    ~faulted => /\ reason \in {A!None, "stalled", "timeout"}
                /\ status = "running" => HonestInv

\* What the next record can be, and what it then says of the reader.
LEMMA NextIsDue ==
    ASSUME ~Overlap, Roomy, AudioTypes, LiveInv, HonestInv, A!Reading, records # <<>>
    PROVE  /\ Head(records).kind \in {"event", "final", "done"}
           /\ Head(records).kind = "event" => Head(records).clock \in processed..fed
           /\ Head(records).kind = "final" => A!Finishing /\ final = A!NoClock
           /\ Head(records).kind = "done" => A!Finishing /\ final # A!NoClock
<1> USE DEF AudioTypes
<1>1. /\ Len(records) \in Nat /\ Len(records) >= 1 /\ Head(records) = records[1]
  BY Shortened
<1>2. RecordInv(1) /\ records[1].kind = Due(Heard + 1)
  BY <1>1 DEF LiveInv, RecordsInv, HonestInv
<1>3. ~A!At("flushed") /\ feeder = "idle"
  BY DEF A!Reading, A!At
<1>4. /\ processed <= consumed /\ Heard \in Nat
      /\ \/ final = A!NoClock /\ Heard = processed
         \/ final # A!NoClock /\ Heard = consumed + 1 /\ processed = consumed /\ A!Finishing
  BY <1>3 DEF Heard, LiveInv, ReadInv
<1>5. Handed = 0 /\ Frames \in Nat
  BY <1>3, AudioNumbers DEF Handed
<1>6. consumed <= fed
  BY <1>5 DEF LiveInv, FeedInv
<1>7. records[1].kind \in {"event", "final", "done"}
  BY <1>2, <1>4 DEF Due
<1>8. ASSUME records[1].kind = "event" PROVE records[1].clock \in processed..fed
  <2>1. records[1].clock = Heard + 1 /\ Heard + 1 <= consumed
    BY <1>2, <1>8 DEF RecordInv
  <2> QED
    BY <1>4, <1>6, <2>1
<1>9. ASSUME records[1].kind = "final" PROVE A!Finishing /\ final = A!NoClock
  BY <1>2, <1>4, <1>9 DEF RecordInv
<1>10. ASSUME records[1].kind = "done" PROVE A!Finishing /\ final # A!NoClock
  BY <1>2, <1>4, <1>10 DEF RecordInv
<1> QED
  BY <1>1, <1>7, <1>8, <1>9, <1>10

\* With an honest child no step ends the session but a deadline.
LEMMA HonestReason ==
    ASSUME ~Overlap, Roomy, AudioInv, HonestAudio, A!Next, ~faulted'
    PROVE  ~faulted /\ reason' \in {A!None, "stalled", "timeout"}
<1>1. ~faulted
  BY DEF A!Next, A!FeedStep, A!ChildStep, A!ReadStep, A!FeedCheck, A!FeedHand, A!FeedCount,
         A!FeedArm, A!ChildFrame, A!ChildFinish, A!ChildStopFails, A!ChildDies, A!PostEof,
         A!StdoutThreadEnds,
         A!WriteBreaks, A!ReadRaises, A!TakeEvent, A!TakeError, A!TakeFinal, A!TakeDone,
         A!TakeNothing, A!CheckEnded, A!CheckStalled, A!Rearm, A!Clear, A!Finalize,
         A!FinishBegin, A!FinishTimesOut, A!Tick, A!Take
<1>2. reason \in {A!None, "stalled", "timeout"}
  BY <1>1 DEF HonestAudio
<1>3. ASSUME A!Running PROVE AudioTypes /\ LiveInv /\ HonestInv
  BY <1>1, <1>3 DEF AudioInv, HonestAudio, A!Running
<1>4. CASE reason' = reason
  BY <1>1, <1>2, <1>4
<1>5. CASE A!TakeEvent \/ A!TakeError \/ A!TakeFinal \/ A!TakeDone
  <2>1. A!Running /\ A!Reading /\ records # <<>>
    BY <1>5 DEF A!TakeEvent, A!TakeError, A!TakeFinal, A!TakeDone, A!Take, A!Reading
  <2>2. /\ Head(records).kind \in {"event", "final", "done"}
        /\ Head(records).kind = "event" => Head(records).clock \in processed..fed
        /\ Head(records).kind = "final" => A!Finishing /\ final = A!NoClock
        /\ Head(records).kind = "done" => A!Finishing /\ final # A!NoClock
    BY <1>3, <2>1, NextIsDue
  <2>3. reason' = reason
    BY <1>5, <2>2 DEF A!TakeEvent, A!TakeError, A!TakeFinal, A!TakeDone, A!Take, A!StaysUp
  <2> QED
    BY <1>1, <1>2, <2>3
<1>6. CASE A!Finalize
  <2>1. A!Running /\ A!At("flushed")
    BY <1>6 DEF A!Finalize
  <2>2. /\ final = consumed /\ A!Finishing /\ toChild = <<>> /\ feeder = "idle"
        /\ consumed + Frames = fed + Handed /\ consumed \in Nat /\ fed \in Nat
    BY <1>3, <2>1 DEF LiveInv, ReadInv, FeedInv, HonestInv, AudioTypes
  <2>3. Frames = 0 /\ Handed = 0
    BY <2>2 DEF Frames, Handed
  <2>4. final = fed
    BY <2>2, <2>3
  <2> QED
    BY <1>2, <1>6, <2>4 DEF A!Finalize
<1>7. CASE A!CheckEnded
  <2>1. A!Running /\ reader.at = "ended"
    BY <1>7 DEF A!CheckEnded, A!At
  <2>2. engine # "over"
    BY <1>3, <2>1 DEF HonestInv
  <2> QED
    BY <1>2, <1>7, <2>2 DEF A!CheckEnded, A!StaysUp
<1>8. CASE A!ReadRaises \/ A!FinishBegin
  <2>1. ~writeError
    BY <1>3, <1>8 DEF A!ReadRaises, A!FinishBegin, A!Reading, HonestInv
  <2> QED
    BY <1>2, <1>8, <2>1 DEF A!ReadRaises, A!FinishBegin, A!StaysUp
<1>9. CASE A!CheckStalled \/ A!FinishTimesOut
  BY <1>2, <1>9 DEF A!CheckStalled, A!FinishTimesOut, A!Fail, A!StaysUp
<1>10. CASE A!TakeNothing
  BY <1>1, <1>2, <1>10 DEF A!TakeNothing, A!StaysUp
<1>11. \/ reason' = reason \/ A!TakeEvent \/ A!TakeError \/ A!TakeFinal \/ A!TakeDone
       \/ A!Finalize \/ A!CheckEnded \/ A!ReadRaises \/ A!FinishBegin
       \/ A!CheckStalled \/ A!FinishTimesOut \/ A!TakeNothing
  BY DEF A!Next, A!FeedStep, A!ChildStep, A!ReadStep, A!FeedCheck, A!FeedHand, A!FeedCount,
         A!FeedArm, A!ChildFrame, A!ChildFinish, A!ChildStopFails, A!ChildDies, A!PostEof,
         A!StdoutThreadEnds,
         A!WriteBreaks, A!Rearm, A!Clear, A!Tick
<1> QED
  BY <1>1, <1>4, <1>5, <1>6, <1>7, <1>8, <1>9, <1>10, <1>11

\* The child, honest so far, keeps to what is due.
LEMMA HonestChildStep ==
    ASSUME Roomy, AudioTypes, LiveInv, HonestInv, status' = "running", ~faulted', LiveInv',
           A!ChildFrame \/ A!ChildFinish \/ A!PostEof
    PROVE  HonestInv'
<1> USE DEF AudioTypes
<1>1. UNCHANGED <<processed, final, reader, writeError>>
  BY DEF A!ChildFrame, A!ChildFinish, A!PostEof
<1>2. /\ (A!Finishing)' = A!Finishing /\ A!At("flushed")' = A!At("flushed")
      /\ A!NoClock' = A!NoClock
  BY <1>1 DEF A!Finishing, A!At, A!NoClock
<1>3. Heard' = Heard /\ Heard \in Nat /\ Len(records) \in Nat
  BY <1>1, <1>2, AudioNumbers DEF Heard
<1>4. Heard + Len(records) = Said
  BY DEF HonestInv
<1>5. CASE A!ChildFrame
  <2>1. /\ engine = "running" /\ engine' = engine /\ consumed' = consumed + 1
        /\ records' = A!Post(records, A!Rec("event", consumed + 1))
    BY <1>5 DEF A!ChildFrame
  <2>2. /\ A!Rec("event", consumed + 1) \in Record /\ A!Rec("event", consumed + 1).kind = "event"
        /\ Len(records) < MaxRecords
    BY <2>1, Recorded, AudioNumbers DEF Kinds
  <2>3. /\ Len(records') = Len(records) + 1 /\ records'[Len(records) + 1].kind = "event"
        /\ \A i \in 1..Len(records) : records'[i] = records[i]
    <3>1. PICK rec \in Record :
              rec.kind = "event" /\ records' = A!Post(records, rec)
      BY <2>1, <2>2
    <3>2. records' = Append(records, rec)
      BY <2>2, <3>1, Posted
    <3> QED
      BY <3>1, <3>2, Appended
  <2>4. Said = consumed /\ Said' = consumed + 1
    BY <2>1 DEF Said
  <2>5. ASSUME NEW i \in 1..Len(records') PROVE records'[i].kind = Due(Heard + i)'
    <3>1. Heard' + i <= consumed'
      BY <1>3, <1>4, <2>1, <2>3, <2>4
    <3>2. Due(Heard + i)' = "event"
      BY <3>1 DEF Due
    <3>3. CASE i = Len(records) + 1
      BY <2>3, <3>2, <3>3
    <3>4. CASE i \in 1..Len(records)
      <4>1. Heard + i <= consumed
        BY <1>3, <1>4, <2>4, <3>4
      <4>2. records[i].kind = "event"
        BY <3>4, <4>1 DEF HonestInv, Due
      <4> QED
        BY <2>3, <3>2, <3>4, <4>2
    <3> QED
      BY <1>3, <2>3, <3>3, <3>4
  <2>6. Heard' + Len(records') = Said'
    <3>1. Heard' + Len(records') = Heard + (Len(records) + 1)
      BY <1>3, <2>3
    <3> QED
      BY <1>3, <1>4, <2>4, <3>1
  <2> QED
    BY <1>1, <1>2, <2>1, <2>5, <2>6 DEF HonestInv
<1>6. CASE A!ChildFinish
  <2>1. /\ engine = "running" /\ engine' = "exited" /\ consumed' = consumed
        /\ records' = A!Post(A!Post(records, A!Rec("final", consumed)), A!Rec("done", 0))
        /\ toChild' = <<>> /\ A!Finishing
    BY <1>6, ChildFinishLive DEF A!ChildFinish
  <2>2. Len(records) + 3 < MaxRecords /\ MaxRecords \in Nat
    BY <2>1, AudioNumbers
  <2>3. PICK last \in Record, end \in Record :
            /\ last.kind = "final" /\ end.kind = "done"
            /\ records' = A!Post(A!Post(records, last), end)
    BY <2>1, Recorded DEF Kinds
  <2>4. A!Post(records, last) = Append(records, last)
    BY <1>3, <2>2, Posted
  <2>5. /\ Append(records, last) \in Seq(Record)
        /\ Len(Append(records, last)) = Len(records) + 1
        /\ Append(records, last)[Len(records) + 1] = last
        /\ \A i \in 1..Len(records) : Append(records, last)[i] = records[i]
    BY Appended
  <2>6. records' = Append(Append(records, last), end)
    <3>1. Len(Append(records, last)) < MaxRecords
      BY <1>3, <2>2, <2>5
    <3>2. A!Post(Append(records, last), end) = Append(Append(records, last), end)
      BY <2>5, <3>1, Posted
    <3> QED
      BY <2>3, <2>4, <3>2
  <2>7. /\ Len(records') = Len(records) + 2 /\ records'[Len(records) + 2] = end
        /\ \A i \in 1..Len(records) + 1 : records'[i] = Append(records, last)[i]
    BY <2>5, <2>6, Appended
  <2>8. Said = consumed /\ Said' = consumed + 2
    BY <2>1 DEF Said
  <2>9. ASSUME NEW i \in 1..Len(records') PROVE records'[i].kind = Due(Heard + i)'
    <3>1. Due(Heard + i)' = Due(Heard + i)
      BY <1>3, <2>1 DEF Due
    <3>2. CASE i = Len(records) + 2
      <4>1. Due(Heard + i) = "done"
        BY <1>3, <1>4, <2>8, <3>2 DEF Due
      <4> QED
        BY <2>3, <2>7, <3>1, <3>2, <4>1
    <3>3. CASE i = Len(records) + 1
      <4>1. Due(Heard + i) = "final"
        BY <1>3, <1>4, <2>8, <3>3 DEF Due
      <4>2. records'[i] = last
        BY <1>3, <2>5, <2>7, <3>3
      <4> QED
        BY <2>3, <3>1, <4>1, <4>2
    <3>4. CASE i \in 1..Len(records)
      <4>1. records'[i] = records[i]
        BY <1>3, <2>5, <2>7, <3>4
      <4> QED
        BY <3>1, <3>4, <4>1 DEF HonestInv
    <3> QED
      BY <1>3, <2>7, <3>2, <3>3, <3>4
  <2>10. Heard' + Len(records') = Said'
    BY <1>3, <1>4, <2>7, <2>8
  <2> QED
    BY <1>1, <1>2, <2>1, <2>9, <2>10 DEF HonestInv
<1>7. CASE A!PostEof
  <2>1. /\ engine = "exited" /\ engine' = "posted" /\ consumed' = consumed /\ toChild' = toChild
        /\ records' = A!Post(records, A!Rec("eof", 0))
    BY <1>7 DEF A!PostEof
  <2>2. /\ A!Rec("eof", 0) \in Record /\ A!Rec("eof", 0).kind = "eof" /\ Len(records) < MaxRecords
    BY <2>1, Recorded, AudioNumbers DEF Kinds
  <2>3. /\ Len(records') = Len(records) + 1 /\ records'[Len(records) + 1].kind = "eof"
        /\ \A i \in 1..Len(records) : records'[i] = records[i]
    BY <2>1, <2>2, Posted, Appended
  <2>4. Said = consumed + 2 /\ Said' = consumed + 3
    BY <2>1 DEF Said
  <2>5. ASSUME NEW i \in 1..Len(records') PROVE records'[i].kind = Due(Heard + i)'
    <3>1. Due(Heard + i)' = Due(Heard + i)
      BY <1>3, <2>1 DEF Due
    <3>2. CASE i = Len(records) + 1
      <4>1. Due(Heard + i) = "eof"
        BY <1>3, <1>4, <2>4, <3>2 DEF Due
      <4> QED
        BY <2>3, <3>1, <3>2, <4>1
    <3>3. CASE i \in 1..Len(records)
      BY <2>3, <3>1, <3>3 DEF HonestInv
    <3> QED
      BY <1>3, <2>3, <3>2, <3>3
  <2>6. Heard' + Len(records') = Said'
    BY <1>3, <1>4, <2>3, <2>4
  <2> QED
    BY <1>1, <1>2, <2>1, <2>5, <2>6 DEF HonestInv
<1> QED
  BY <1>5, <1>6, <1>7

\* The reader takes what is due.
LEMMA HonestReadStep ==
    ASSUME ~Overlap, Roomy, AudioTypes, LiveInv, HonestInv, status = "running",
           status' = "running",
           A!TakeEvent \/ A!TakeFinal \/ A!TakeDone \/ A!TakeNothing
    PROVE  HonestInv'
<1> USE DEF AudioTypes
<1>1. /\ UNCHANGED <<consumed, engine, toChild, writeError>> /\ reader'.home = reader.home
      /\ A!Reading
  BY DEF A!TakeEvent, A!TakeFinal, A!TakeDone, A!TakeNothing, A!Take, A!Goto
<1>2. (A!Finishing)' = A!Finishing /\ Said' = Said
  BY <1>1 DEF A!Finishing, Said
<1>3. Heard \in Nat /\ Len(records) \in Nat /\ Heard + Len(records) = Said
  BY AudioNumbers DEF HonestInv
<1>4. CASE A!TakeEvent \/ A!TakeFinal \/ A!TakeDone
  <2>1. records # <<>> /\ records' = Tail(records)
    BY <1>4 DEF A!TakeEvent, A!TakeFinal, A!TakeDone, A!Take
  <2>2. Heard' = Heard + 1
    <3>1. Head(records).kind # "eof"
      BY <1>1, <2>1, NextIsDue
    <3> QED
      BY <1>4, <2>1, <3>1, ReadLive
  <2>3. /\ Len(records') = Len(records) - 1
        /\ \A i \in 1..Len(records') : records'[i] = records[i + 1] /\ i + 1 \in 1..Len(records)
    BY <2>1, Shortened
  <2>4. ASSUME NEW i \in 1..Len(records') PROVE records'[i].kind = Due(Heard + i)'
    <3>1. Heard' + i = Heard + (i + 1)
      BY <1>3, <2>2
    <3>2. Due(Heard + i)' = Due(Heard + (i + 1))
      BY <1>1, <3>1 DEF Due
    <3> QED
      BY <2>3, <3>2 DEF HonestInv
  <2>5. Heard' + Len(records') = Said'
    BY <1>2, <1>3, <2>2, <2>3
  <2>6. (A!Finishing)' => reader'.at \in {"finishing", "rearm", "clear", "flushed"}
    BY <1>1, <1>2, <1>4 DEF A!TakeEvent, A!TakeFinal, A!TakeDone, A!Goto, A!Fail, HonestInv
  <2> QED
    BY <1>1, <1>2, <2>4, <2>5, <2>6 DEF HonestInv
<1>5. CASE A!TakeNothing
  <2>1. records # <<>> => Head(records).kind # "eof"
    BY <1>1, NextIsDue
  <2>2. ~A!Finishing /\ UNCHANGED <<records, processed, final>> /\ reader'.at = "ended"
    BY <1>5, <2>1 DEF A!TakeNothing, A!Take, A!Goto
  <2>3. ~A!At("flushed") /\ ~A!At("flushed")' /\ A!NoClock' = A!NoClock
    BY <1>1, <2>2 DEF A!At, A!Reading, A!NoClock
  <2>4. Heard' = Heard
    BY <2>2, <2>3 DEF Heard
  <2>5. \A i \in 1..Len(records') : records'[i].kind = Due(Heard + i)'
    BY <1>1, <2>2, <2>4 DEF HonestInv, Due
  <2> QED
    BY <1>1, <1>2, <1>3, <2>2, <2>4, <2>5 DEF HonestInv
<1> QED
  BY <1>4, <1>5

\* Nothing else changes what is due.
LEMMA HonestQuietStep ==
    ASSUME Roomy, AudioTypes, LiveInv, HonestInv, status' = "running",
           \/ A!FeedCheck \/ A!FeedHand \/ A!FeedCount \/ A!FeedArm \/ A!StdoutThreadEnds
           \/ A!CheckEnded \/ A!CheckStalled \/ A!Rearm \/ A!Clear \/ A!Tick \/ A!FinishBegin
    PROVE  HonestInv'
<1> USE DEF AudioTypes
<1>1. UNCHANGED <<processed, consumed, final, records, writeError>>
  BY DEF A!FeedCheck, A!FeedHand, A!FeedCount, A!FeedArm, A!StdoutThreadEnds, A!CheckEnded,
         A!CheckStalled, A!Rearm, A!Clear, A!Tick, A!FinishBegin
<1>2. engine' = engine \/ (engine = "posted" /\ engine' = "over")
  BY DEF A!FeedCheck, A!FeedHand, A!FeedCount, A!FeedArm, A!StdoutThreadEnds, A!CheckEnded,
         A!CheckStalled, A!Rearm, A!Clear, A!Tick, A!FinishBegin
<1>3. reader'.at = "flushed" <=> reader.at = "flushed"
  BY DEF A!FeedCheck, A!FeedHand, A!FeedCount, A!FeedArm, A!StdoutThreadEnds, A!CheckEnded,
         A!CheckStalled, A!Rearm, A!Clear, A!Tick, A!FinishBegin, A!Goto, A!At, A!Fail
<1>4. Said' = Said /\ Heard' = Heard
  BY <1>1, <1>2, <1>3 DEF Said, Heard, A!At, A!NoClock
<1>5. \A i \in 1..Len(records') : records'[i].kind = Due(Heard + i)'
  BY <1>1, <1>4 DEF HonestInv, Due
<1>6. ASSUME engine' # "running" PROVE toChild' = <<>> /\ (A!Finishing)'
  <2>1. toChild = <<>> /\ A!Finishing /\ feeder = "idle"
    BY <1>2, <1>6 DEF HonestInv, LiveInv, FeedInv
  <2>2. toChild' = toChild
    BY <2>1 DEF A!FeedCheck, A!FeedHand, A!FeedCount, A!FeedArm, A!StdoutThreadEnds, A!CheckEnded,
                A!CheckStalled, A!Rearm, A!Clear, A!Tick, A!FinishBegin
  <2>3. reader'.home = reader.home
    BY <2>1 DEF A!FeedCheck, A!FeedHand, A!FeedCount, A!FeedArm, A!StdoutThreadEnds, A!CheckEnded,
                A!CheckStalled, A!Rearm, A!Clear, A!Tick, A!FinishBegin, A!Goto
  <2> QED
    BY <2>1, <2>2, <2>3 DEF A!Finishing
<1>7. ASSUME (A!Finishing)' PROVE reader'.at \in {"finishing", "rearm", "clear", "flushed"}
  <2>1. CASE A!FinishBegin
    BY <2>1 DEF A!FinishBegin
  <2>2. CASE ~A!FinishBegin
    <3>1. reader'.home = reader.home
      BY <2>2 DEF A!FeedCheck, A!FeedHand, A!FeedCount, A!FeedArm, A!StdoutThreadEnds,
                  A!CheckEnded, A!CheckStalled, A!Rearm, A!Clear, A!Tick, A!Goto
    <3>2. A!Finishing /\ reader.home = "finishing"
      BY <1>7, <3>1 DEF A!Finishing
    <3>3. reader.at \in {"finishing", "rearm", "clear", "flushed"}
      BY <3>2 DEF HonestInv
    <3> QED
      BY <2>2, <3>2, <3>3 DEF A!FeedCheck, A!FeedHand, A!FeedCount, A!FeedArm,
         A!StdoutThreadEnds, A!CheckEnded, A!CheckStalled, A!Rearm, A!Clear, A!Tick, A!Goto, A!At
  <2> QED
    BY <2>1, <2>2
<1> QED
  BY <1>1, <1>4, <1>5, <1>6, <1>7 DEF HonestInv

\* Every step of an honest child's session.
LEMMA HonestStep ==
    ASSUME ~Overlap, Roomy, AudioInv, HonestAudio, A!Next PROVE HonestAudio'
<1> SUFFICES ASSUME ~faulted' PROVE HonestAudio'
  BY DEF HonestAudio
<1>1. ~faulted /\ reason' \in {A!None, "stalled", "timeout"} /\ AudioInv'
  BY HonestReason, AudioStep
<1>2. ASSUME status' = "running" PROVE HonestInv'
  <2>1. status = "running" /\ AudioTypes /\ LiveInv /\ HonestInv /\ LiveInv'
    BY <1>1, <1>2, RunningStays DEF AudioInv, HonestAudio
  <2>2. ~A!ReadRaises /\ ~A!TakeError /\ ~A!FinishTimesOut /\ ~A!Finalize
    BY <1>2 DEF A!ReadRaises, A!TakeError, A!FinishTimesOut, A!Finalize, A!Fail
  <2>3. ~A!ChildStopFails /\ ~A!ChildDies /\ ~A!WriteBreaks
    BY <2>1 DEF A!ChildStopFails, A!ChildDies, A!WriteBreaks, HonestInv
  <2> QED
    BY <1>2, <2>1, <2>2, <2>3, HonestChildStep, HonestReadStep, HonestQuietStep
       DEF A!Next, A!FeedStep, A!ChildStep, A!ReadStep
<1> QED
  BY <1>1, <1>2 DEF HonestAudio, A!None

\* A child that acknowledges what it was handed and leaves when it is told to is
\* never failed by its clocks, its records or its exit (streaming.py: _emit,
\* _finalize, _raise_if_stream_ended), when one thread at a time feeds and reads and
\* the records have room for the audio feed lets wait.
THEOREM HonestChildStands ==
    ASSUME ~Overlap, Roomy PROVE AllSpec => []HonestChildAccepted
<1>1. AllInit => AudioInv /\ HonestAudio
  <2>1. ASSUME A!Init PROVE HonestAudio
    <3>1. /\ ~A!Finishing /\ ~A!At("flushed") /\ final = A!NoClock /\ processed = 0
          /\ Len(records) = 0 /\ consumed = 0 /\ engine = "running" /\ ~writeError
          /\ reason = A!None
      BY <2>1 DEF A!Init, A!Finishing, A!At
    <3>2. Heard = 0 /\ Said = 0
      BY <3>1 DEF Heard, Said
    <3> QED
      BY <3>1, <3>2 DEF HonestAudio, HonestInv
  <2> QED
    BY <2>1, AudioStart DEF AllInit
<1>2. AudioInv /\ HonestAudio /\ [AllNext]_all => AudioInv' /\ HonestAudio'
  <2>1. ASSUME HonestAudio, UNCHANGED audioVars PROVE HonestAudio'
    <3>1. /\ (A!Finishing)' = A!Finishing /\ A!At("flushed")' = A!At("flushed")
          /\ A!NoClock' = A!NoClock /\ A!None' = A!None
      BY <2>1 DEF audioVars, A!Finishing, A!At, A!NoClock, A!None
    <3>2. Heard' = Heard /\ Said' = Said
      BY <2>1, <3>1 DEF audioVars, Heard, Said
    <3>3. HonestInv => HonestInv'
      BY <2>1, <3>1, <3>2 DEF audioVars, HonestInv, Due
    <3> QED
      BY <2>1, <3>1, <3>3 DEF HonestAudio, audioVars
  <2> QED
    BY <2>1, AudioStep, AudioKept, HonestStep DEF AllNext, all
<1>3. HonestAudio => HonestChildAccepted
  BY DEF HonestAudio, HonestChildAccepted, A!HonestChildAccepted
<1> QED
  BY <1>1, <1>2, <1>3, PTL DEF AllSpec
-----------------------------------------------------------------------------
(* The text of one session: three facts side by side.  The kept deltas are as *)
(* long as was charged; the window is the last events; and the queue goes on  *)
(* where the reads stopped, with at most one sentinel among its events.       *)

Sizes == [size : Nat, words : Nat]

Parts(s) == {i \in DOMAIN s : s[i].size > 0}
Letters(s) == UNION {{i} \X (1..s[i].size) : i \in Parts(s)}

TextTypes ==
    /\ standing \in {"running", "failed", "cancelled", "finished"}
    /\ finishing \in BOOLEAN /\ failure \in BOOLEAN /\ waking \in BOOLEAN
    /\ taken \in T!Records \cup {T!NoRecord}
    /\ kept \in Seq(Sizes) /\ chars \in Nat /\ words \in Nat /\ seq \in Nat
    /\ history \in Seq(Int) /\ oldest \in Int
    /\ queue \in Seq(Int) /\ given \in Seq(Int)

\* The text is as long as was charged.
BudgetInv ==
    /\ IsFiniteSet(Letters(kept))
    /\ chars = T!TextLength /\ chars <= MaxChars /\ words <= MaxWords

\* The window is the last events.
HistoryInv ==
    /\ \A i \in 1..Len(history) : history[i] = seq - Len(history) + i - 1
    /\ oldest = seq - Len(history) /\ oldest >= 0
    /\ Len(history) < MaxHistory => oldest = 0

Follows(s, n) == \A i \in 1..Len(s) : s[i] = n + i - 1

\* The sentinel is at place w of a queue, the events after the first g around it.
WokenAt(q, g, w) ==
    /\ q[w] = T!Wake
    /\ \A i \in 1..Len(q) : i < w => q[i] = g + i - 1
    /\ \A i \in 1..Len(q) : i > w => q[i] = g + i - 2

\* Of n events the first g were given, and q has the others.
Reaches(q, g, n) ==
    \/ Follows(q, g) /\ n = g + Len(q)
    \/ (\E w \in 1..Len(q) : WokenAt(q, g, w)) /\ n = g + Len(q) - 1

Over == ~finishing /\ taken = T!NoRecord /\ standing \in {"failed", "cancelled"}

QueueInv ==
    /\ Follows(given, 0)
    /\ \/ Reaches(queue, Len(given), seq)
       \/ Over /\ Reaches(queue, Len(given), seq - 1)
    /\ standing = "running" \/ waking => Follows(queue, Len(given))
    /\ waking => standing = "cancelled"
    /\ finishing \/ taken # T!NoRecord => standing \in {"running", "cancelled"}

TextInv == TextTypes /\ BudgetInv /\ HistoryInv /\ QueueInv

\* The text's Cardinality is everybody's.
LEMMA TextCount == ASSUME NEW S PROVE T!Cardinality(S) = Cardinality(S)
BY DEF T!Cardinality, Cardinality

\* The length of the text by its parts and their letters.
LEMMA LengthIs ==
    T!TextLength = Cardinality(Letters(kept))
                   + (IF Parts(kept) = {} THEN 0 ELSE Cardinality(Parts(kept)) - 1)
BY TextCount DEF T!TextLength, Letters, Parts

\* A kept text one delta longer.
LEMMA PartsGrow ==
    ASSUME NEW s \in Seq(Sizes), NEW e \in Sizes, IsFiniteSet(Letters(s))
    PROVE  /\ IsFiniteSet(Parts(s)) /\ Cardinality(Parts(s)) \in Nat
           /\ IsFiniteSet(Letters(Append(s, e)))
           /\ Cardinality(Letters(Append(s, e))) = Cardinality(Letters(s)) + e.size
           /\ Cardinality(Letters(s)) \in Nat
           /\ e.size = 0 => Parts(Append(s, e)) = Parts(s)
           /\ e.size > 0 => /\ Parts(Append(s, e)) # {}
                            /\ Cardinality(Parts(Append(s, e))) = Cardinality(Parts(s)) + 1
<1> DEFINE n == Len(s) + 1
           more == {n} \X (1..e.size)
<1>1. /\ Append(s, e) \in Seq(Sizes) /\ Len(Append(s, e)) = n /\ Append(s, e)[n] = e
      /\ \A i \in 1..Len(s) : Append(s, e)[i] = s[i]
      /\ n \in Nat /\ Len(s) \in Nat /\ DOMAIN s = 1..Len(s) /\ n \notin 1..Len(s)
      /\ DOMAIN Append(s, e) = 1..n /\ 1..n = (1..Len(s)) \cup {n} /\ e.size \in Nat
  BY Appended DEF Sizes
<1>2. IsFiniteSet(Parts(s)) /\ Cardinality(Parts(s)) \in Nat
  <2>1. IsFiniteSet(1..Len(s)) /\ Parts(s) \in SUBSET (1..Len(s))
    BY <1>1, FS_Interval DEF Parts
  <2> QED
    BY <2>1, FS_Subset, FS_CardinalityType
<1>3. Parts(Append(s, e)) = IF e.size > 0 THEN Parts(s) \cup {n} ELSE Parts(s)
  <2> HIDE DEF n
  <2>1. \A i \in 1..Len(s) : Append(s, e)[i].size = s[i].size
    BY <1>1
  <2> QED
    BY <1>1, <2>1 DEF Parts
<1>4. Letters(Append(s, e)) = Letters(s) \cup more /\ Letters(s) \cap more = {}
  <2> HIDE DEF n
  <2>1. \A i \in Parts(s) : i \in 1..Len(s) /\ Append(s, e)[i].size = s[i].size
    BY <1>1 DEF Parts
  <2>2. CASE e.size > 0
    BY <1>1, <1>3, <2>1, <2>2 DEF Letters
  <2>3. CASE ~(e.size > 0)
    <3>1. more = {}
      BY <1>1, <2>3
    <3>2. Letters(Append(s, e)) = Letters(s)
      BY <1>3, <2>1, <2>3 DEF Letters
    <3> QED
      BY <3>1, <3>2
  <2> QED
    BY <2>2, <2>3
<1>5. IsFiniteSet(more) /\ Cardinality(more) = e.size
  <2>1. /\ IsFiniteSet(1..e.size) /\ Cardinality(1..e.size) = e.size
        /\ IsFiniteSet({n}) /\ Cardinality({n}) = 1
    <3>1. IsFiniteSet(1..e.size) /\ Cardinality(1..e.size) = e.size
      <4> HIDE DEF n
      <4>1. e.size \in Int /\ 1 \in Int /\ e.size >= 0
        BY <1>1
      <4>2. /\ IsFiniteSet(1..e.size)
            /\ Cardinality(1..e.size) = IF 1 > e.size THEN 0 ELSE e.size - 1 + 1
        BY <4>1, FS_Interval
      <4> QED
        BY <4>1, <4>2
    <3> QED
      BY <3>1, FS_Singleton
  <2>2. IsFiniteSet(more) /\ Cardinality(more) = Cardinality({n}) * Cardinality(1..e.size)
    <3> HIDE DEF n
    <3> QED
      BY <2>1, FS_Product
  <2> HIDE DEF n
  <2>3. e.size \in Nat
    BY <1>1
  <2>4. Cardinality(more) = 1 * e.size
    BY <2>1, <2>2
  <2> QED
    BY <2>2, <2>3, <2>4
<1>6. /\ IsFiniteSet(Letters(Append(s, e)))
      /\ Cardinality(Letters(Append(s, e))) = Cardinality(Letters(s)) + e.size
      /\ Cardinality(Letters(s)) \in Nat
  <2> HIDE DEF more
  <2>1. Cardinality({}) = 0 /\ Cardinality(Letters(s)) \in Nat
    BY FS_EmptySet, FS_CardinalityType
  <2>2. /\ IsFiniteSet(Letters(s) \cup more)
        /\ Cardinality(Letters(s) \cup more)
             = Cardinality(Letters(s)) + Cardinality(more) - Cardinality(Letters(s) \cap more)
    BY <1>5, FS_Union
  <2>3. Cardinality(Letters(s) \cap more) = 0
    BY <1>4, <2>1
  <2>4. /\ IsFiniteSet(Letters(Append(s, e)))
        /\ Cardinality(Letters(Append(s, e))) = Cardinality(Letters(s) \cup more)
    BY <1>4, <2>2
  <2>5. e.size \in Nat
    BY <1>1
  <2>6. Cardinality(Letters(Append(s, e))) = Cardinality(Letters(s)) + e.size - 0
    <3> HIDE DEF n
    <3> QED
      BY <1>5, <2>2, <2>3, <2>4
  <2> HIDE DEF n
  <2> QED
    BY <2>1, <2>4, <2>5, <2>6
<1>7. n \notin Parts(s)
  BY <1>1 DEF Parts
<1>8. e.size > 0 => Cardinality(Parts(Append(s, e))) = Cardinality(Parts(s)) + 1
  BY <1>2, <1>3, <1>7, FS_AddElement
<1>9. /\ e.size = 0 => Parts(Append(s, e)) = Parts(s)
      /\ e.size > 0 => Parts(Append(s, e)) # {}
  <2>1. CASE e.size = 0
    BY <1>3, <2>1
  <2>2. CASE e.size > 0
    BY <1>3, <2>2
  <2>3. CASE ~(e.size > 0) /\ e.size # 0
    BY <1>1, <2>3
  <2> QED
    BY <2>1, <2>2, <2>3
<1> HIDE DEF n, more
<1> QED
  BY <1>2, <1>6, <1>8, <1>9

\* The text's Range is everybody's.
LEMMA Ranged == ASSUME NEW s PROVE T!Range(s) = {s[i] : i \in DOMAIN s}
BY DEF T!Range

\* What an event adds to the text is what it is charged for.
LEMMA ChargedIsAdded ==
    ASSUME kept \in Seq(Sizes), IsFiniteSet(Letters(kept)),
           NEW r, r.size \in Nat, r.words \in Nat, T!Accumulate(r), chars = T!TextLength
    PROVE  /\ kept' \in Seq(Sizes) /\ IsFiniteSet(Letters(kept')) /\ chars' = T!TextLength'
           /\ T!Added(r) \in Nat
<1> DEFINE e == [size |-> r.size, words |-> r.words]
<1>1. e \in Sizes /\ e.size = r.size /\ kept' = Append(kept, e) /\ chars' = chars + T!Added(r)
  BY DEF Sizes, T!Accumulate
<1> HIDE DEF e
<1>2. /\ IsFiniteSet(Letters(kept'))
      /\ Cardinality(Letters(kept')) = Cardinality(Letters(kept)) + r.size
      /\ Cardinality(Parts(kept)) \in Nat /\ Cardinality(Letters(kept)) \in Nat
      /\ IsFiniteSet(Parts(kept))
      /\ r.size = 0 => Parts(kept') = Parts(kept)
      /\ r.size > 0 => Parts(kept') # {} /\ Cardinality(Parts(kept')) = Cardinality(Parts(kept)) + 1
  BY <1>1, PartsGrow
<1>3. T!TextLength' = Cardinality(Letters(kept'))
                      + (IF Parts(kept') = {} THEN 0 ELSE Cardinality(Parts(kept')) - 1)
  BY TextCount DEF T!TextLength, Letters, Parts
<1>4. (\E f \in T!Range(kept) : f.size > 0) <=> Parts(kept) # {}
  BY Ranged DEF Parts
<1>5. Parts(kept) = {} => Cardinality(Parts(kept)) = 0
  BY FS_EmptySet
<1>6. CASE r.size = 0
  <2>1. T!Added(r) = 0
    BY <1>6 DEF T!Added
  <2> QED
    BY <1>1, <1>2, <1>3, <1>6, <2>1, LengthIs, Appended
<1>7. CASE r.size > 0 /\ Parts(kept) = {}
  <2>1. T!Added(r) = r.size
    BY <1>7, <1>4 DEF T!Added
  <2> QED
    BY <1>1, <1>2, <1>3, <1>5, <1>7, <2>1, LengthIs, Appended
<1>8. CASE r.size > 0 /\ Parts(kept) # {}
  <2>1. T!Added(r) = r.size + 1
    BY <1>8, <1>4 DEF T!Added
  <2>2. T!TextLength = Cardinality(Letters(kept)) + (Cardinality(Parts(kept)) - 1)
    BY <1>8, LengthIs
  <2>3. T!TextLength' = Cardinality(Letters(kept')) + (Cardinality(Parts(kept')) - 1)
    BY <1>2, <1>3, <1>8
  <2>4. kept' \in Seq(Sizes)
    BY <1>1, Appended
  <2> QED
    BY <1>1, <1>2, <1>8, <2>1, <2>2, <2>3, <2>4
<1> QED
  BY <1>6, <1>7, <1>8
-----------------------------------------------------------------------------
\* The window is moved on by one event.
LEMMA Remembered ==
    ASSUME TextTypes, HistoryInv, T!Remember, seq' = seq + 1
    PROVE  HistoryInv' /\ history' \in Seq(Int) /\ oldest' \in Int
<1> DEFINE window == Append(history, seq)
           n == Len(history) + 1
           last == IF n >= MaxHistory THEN SubSeq(window, n - MaxHistory + 1, n) ELSE window
<1>1. /\ seq \in Nat /\ oldest \in Int /\ MaxHistory \in Nat /\ MaxHistory >= 1
      /\ history \in Seq(Int) /\ n \in Nat /\ n >= 1 /\ seq \in Int
  BY TextAssumption DEF TextTypes
<1>2. window \in Seq(Int) /\ Len(window) = n
  BY <1>1, Appended
<1>3. ASSUME NEW i \in 1..n PROVE window[i] = seq - n + i
  <2>1. i = n \/ i \in 1..Len(history)
    BY <1>1
  <2>2. CASE i = n
    BY <1>1, <2>2, Appended
  <2>3. CASE i \in 1..Len(history)
    <3>1. window[i] = history[i]
      BY <1>1, <2>3, Appended
    <3>2. history[i] = seq - Len(history) + i - 1
      BY <2>3 DEF HistoryInv
    <3> HIDE DEF window
    <3> QED
      BY <1>1, <2>3, <3>1, <3>2
  <2> QED
    BY <2>1, <2>2, <2>3
<1>4. history' = last /\ oldest' = IF n >= MaxHistory THEN Head(last) ELSE oldest
  BY <1>2 DEF T!Remember
<1> HIDE DEF window, n
<1>5. oldest = seq - (n - 1) /\ oldest >= 0 /\ (n - 1 < MaxHistory => oldest = 0)
  BY <1>1 DEF HistoryInv, n
<1>6. CASE n >= MaxHistory
  <2>1. last = SubSeq(window, n - MaxHistory + 1, n)
    BY <1>6
  <2>2. /\ last \in Seq(Int) /\ Len(last) = MaxHistory
        /\ \A i \in 1..MaxHistory : last[i] = window[n - MaxHistory + i]
    <3> HIDE DEF last
    <3> QED
      BY <1>1, <1>2, <1>6, <2>1
  <2>3. \A i \in 1..MaxHistory : last[i] = seq - MaxHistory + i
    <3> HIDE DEF last
    <3> TAKE i \in 1..MaxHistory
    <3>1. n - MaxHistory + i \in 1..n /\ i \in Int /\ n \in Int /\ MaxHistory \in Int
      BY <1>1, <1>6
    <3>2. last[i] = seq - n + (n - MaxHistory + i)
      BY <1>3, <2>2, <3>1
    <3> QED
      BY <1>1, <3>1, <3>2
  <2>4. Head(last) = last[1] /\ 1 \in 1..MaxHistory
    <3> HIDE DEF last
    <3> QED
      BY <1>1, <2>2
  <2> HIDE DEF last
  <2>5. oldest' = seq - MaxHistory + 1
    BY <1>1, <1>4, <1>6, <2>3, <2>4
  <2> QED
    BY <1>1, <1>4, <1>5, <1>6, <2>2, <2>3, <2>5 DEF HistoryInv
<1>7. CASE ~(n >= MaxHistory)
  <2>1. history' = window /\ oldest' = oldest
    BY <1>4, <1>7
  <2> HIDE DEF last
  <2>2. history' \in Seq(Int) /\ Len(history') = n /\ oldest' = 0 /\ oldest' = seq' - n
    BY <1>1, <1>2, <1>5, <1>7, <2>1
  <2>3. \A i \in 1..n : history'[i] = seq' - n + i - 1
    <3> TAKE i \in 1..n
    <3>1. history'[i] = seq - n + i /\ i \in Int
      BY <1>1, <1>3, <2>1
    <3> QED
      BY <1>1, <3>1
  <2> QED
    BY <2>2, <2>3 DEF HistoryInv
<1> QED
  BY <1>6, <1>7

\* The next event is put behind the others.
LEMMA NextQueued ==
    ASSUME NEW q \in Seq(Int), NEW g \in Nat, NEW n \in Nat, Reaches(q, g, n)
    PROVE  /\ Reaches(Append(q, n), g, n + 1)
           /\ Follows(q, g) => Follows(Append(q, n), g)
<1>1. /\ n \in Int /\ Append(q, n) \in Seq(Int) /\ Len(Append(q, n)) = Len(q) + 1
      /\ Append(q, n)[Len(q) + 1] = n /\ \A i \in 1..Len(q) : Append(q, n)[i] = q[i]
      /\ Len(q) \in Nat
  BY Appended
<1>2. \A i \in 1..(Len(q) + 1) : i = Len(q) + 1 \/ i \in 1..Len(q)
  BY <1>1
<1>3. CASE Follows(q, g) /\ n = g + Len(q)
  <2>1. ASSUME NEW i \in 1..(Len(q) + 1) PROVE Append(q, n)[i] = g + i - 1
    <3>1. CASE i = Len(q) + 1
      BY <1>1, <1>3, <3>1
    <3>2. CASE i \in 1..Len(q)
      BY <1>1, <1>3, <3>2 DEF Follows
    <3> QED
      BY <1>2, <3>1, <3>2
  <2>2. Follows(Append(q, n), g)
    BY <1>1, <2>1 DEF Follows
  <2> QED
    BY <1>1, <1>3, <2>2 DEF Reaches
<1>4. ASSUME NEW w \in 1..Len(q), WokenAt(q, g, w), n = g + Len(q) - 1
      PROVE  Reaches(Append(q, n), g, n + 1) /\ ~Follows(q, g)
  <2>1. WokenAt(Append(q, n), g, w)
    <3>1. ASSUME NEW i \in 1..(Len(q) + 1)
          PROVE  /\ i < w => Append(q, n)[i] = g + i - 1
                 /\ i > w => Append(q, n)[i] = g + i - 2
      <4>1. CASE i = Len(q) + 1
        BY <1>1, <1>4, <4>1
      <4>2. CASE i \in 1..Len(q)
        BY <1>1, <1>4, <4>2 DEF WokenAt
      <4> QED
        BY <1>2, <4>1, <4>2
    <3> QED
      BY <1>1, <1>4, <3>1 DEF WokenAt
  <2>2. w \in 1..Len(Append(q, n))
    BY <1>1
  <2>3. q[w] = -1
    BY <1>4 DEF WokenAt, T!Wake
  <2>4. ~Follows(q, g)
    BY <1>1, <2>3 DEF Follows
  <2> QED
    BY <1>1, <1>4, <2>1, <2>2, <2>4 DEF Reaches
<1> QED
  BY <1>3, <1>4 DEF Reaches

\* A sentinel is put behind the events.
LEMMA WakeQueued ==
    ASSUME NEW q \in Seq(Int), NEW g \in Nat, Follows(q, g)
    PROVE  Append(q, T!Wake) \in Seq(Int) /\ Reaches(Append(q, T!Wake), g, g + Len(q))
<1>1. T!Wake \in Int /\ Len(q) \in Nat
  BY DEF T!Wake
<1>2. /\ Append(q, T!Wake) \in Seq(Int) /\ Len(Append(q, T!Wake)) = Len(q) + 1
      /\ Append(q, T!Wake)[Len(q) + 1] = T!Wake
      /\ \A i \in 1..Len(q) : Append(q, T!Wake)[i] = q[i]
  BY <1>1, Appended
<1>3. WokenAt(Append(q, T!Wake), g, Len(q) + 1)
  BY <1>1, <1>2 DEF WokenAt, Follows
<1>4. Len(q) + 1 \in 1..Len(Append(q, T!Wake))
  BY <1>1, <1>2
<1> QED
  BY <1>1, <1>2, <1>3, <1>4 DEF Reaches

\* One is taken from the front: an event, which is the next, or the sentinel.
LEMMA NextTaken ==
    ASSUME NEW q \in Seq(Int), NEW g \in Nat, NEW n \in Int, Reaches(q, g, n), q # <<>>
    PROVE  /\ Head(q) = T!Wake => Reaches(Tail(q), g, n)
           /\ Head(q) # T!Wake => Reaches(Tail(q), g + 1, n) /\ Head(q) = g
           /\ Follows(q, g) => /\ Head(q) # T!Wake
                               /\ Follows(Tail(q), g + 1)
<1>1. /\ Tail(q) \in Seq(Int) /\ Len(Tail(q)) = Len(q) - 1
      /\ Len(q) >= 1 /\ Len(q) \in Nat /\ Head(q) = q[1] /\ Head(q) \in Int
      /\ \A i \in 1..Len(Tail(q)) : Tail(q)[i] = q[i + 1] /\ i + 1 \in 1..Len(q)
      /\ 1 \in 1..Len(q)
  BY Shortened
<1>2. T!Wake = -1
  BY DEF T!Wake
<1>3. Follows(q, g) => /\ Head(q) = g /\ Head(q) # T!Wake
                       /\ Follows(Tail(q), g + 1)
  BY <1>1, <1>2 DEF Follows
<1>4. CASE Follows(q, g) /\ n = g + Len(q)
  BY <1>1, <1>3, <1>4 DEF Reaches
<1>5. ASSUME NEW w \in 1..Len(q), WokenAt(q, g, w), n = g + Len(q) - 1
      PROVE  /\ Head(q) = T!Wake => Reaches(Tail(q), g, n)
             /\ Head(q) # T!Wake => Reaches(Tail(q), g + 1, n) /\ Head(q) = g
  <2>1. CASE w = 1
    <3>1. Head(q) = T!Wake /\ Follows(Tail(q), g)
      BY <1>1, <1>5, <2>1 DEF WokenAt, Follows
    <3> QED
      BY <1>1, <1>5, <3>1 DEF Reaches
  <2>2. CASE w # 1
    <3>1. Head(q) = g /\ w - 1 \in 1..Len(Tail(q)) /\ Head(q) # T!Wake
      BY <1>1, <1>2, <1>5, <2>2 DEF WokenAt
    <3>2. WokenAt(Tail(q), g + 1, w - 1)
      BY <1>1, <1>5, <2>2, <3>1 DEF WokenAt
    <3> QED
      BY <1>1, <1>5, <3>1, <3>2 DEF Reaches
  <2> QED
    BY <2>1, <2>2
<1> QED
  BY <1>3, <1>4, <1>5 DEF Reaches
\* A queue without the sentinel has exactly the events up to its last.
LEMMA PlainQueue ==
    ASSUME NEW q \in Seq(Int), NEW g \in Nat, NEW n, Follows(q, g), Reaches(q, g, n)
    PROVE  n = g + Len(q)
<1>1. ASSUME NEW w \in 1..Len(q), WokenAt(q, g, w) PROVE FALSE
  BY <1>1 DEF WokenAt, Follows, T!Wake
<1> QED
  BY <1>1 DEF Reaches

Working == finishing \/ taken # T!NoRecord \/ standing = "running"

\* The end of a session that was at work: the sentinel, where it still is owed.
LEMMA FailedStep ==
    ASSUME TextTypes, QueueInv, Working, NEW sticky \in BOOLEAN, T!Fail(sticky),
           UNCHANGED <<kept, chars, words, seq, history, oldest, waking, given>>
    PROVE  TextTypes' /\ QueueInv'
<1>1. /\ queue \in Seq(Int) /\ Len(given) \in Nat /\ seq \in Nat
      /\ standing \in {"running", "failed", "cancelled", "finished"}
  BY DEF TextTypes
<1>2. Reaches(queue, Len(given), seq)
  BY DEF QueueInv, Over, Working
<1>3. CASE standing = "running"
  <2>1. /\ standing' = "failed" /\ ~waking /\ Follows(queue, Len(given))
        /\ finishing' = FALSE /\ taken' = T!NoRecord
    BY <1>3 DEF QueueInv, T!Fail
  <2>2. /\ queue' \in Seq(Int) /\ Reaches(queue', Len(given), seq)
    <3>1. CASE T!HasRoom
      <4>1. queue' = Append(queue, T!Wake)
        BY <1>3, <3>1 DEF T!Fail
      <4>2. seq = Len(given) + Len(queue)
        BY <1>1, <1>2, <2>1, PlainQueue
      <4> QED
        BY <1>1, <2>1, <4>1, <4>2, WakeQueued
    <3>2. CASE ~T!HasRoom
      BY <1>1, <1>2, <1>3, <3>2 DEF T!Fail
    <3> QED
      BY <3>1, <3>2
  <2>3. TextTypes'
    BY <2>1, <2>2 DEF TextTypes, T!Fail
  <2> QED
    BY <2>1, <2>2, <2>3 DEF QueueInv
<1>4. CASE standing # "running"
  <2>1. /\ standing' = standing /\ queue' = queue
        /\ finishing' = FALSE /\ taken' = T!NoRecord
    BY <1>4 DEF T!Fail
  <2>2. TextTypes'
    BY <2>1 DEF TextTypes, T!Fail
  <2> QED
    BY <1>2, <1>4, <2>1, <2>2 DEF QueueInv
<1> QED
  BY <1>3, <1>4

\* The record that is dispatched is one of the model's, or there is none.
LEMMA TakenTyped ==
    ASSUME TextTypes
    PROVE  /\ taken.size \in Nat /\ taken.words \in Nat
           /\ taken.kind # "none" => taken # T!NoRecord
<1>1. taken \in T!Records \/ taken = T!NoRecord
  BY DEF TextTypes
<1>2. CASE taken = T!NoRecord
  BY <1>2 DEF T!NoRecord
<1>3. CASE taken \in T!Records
  <2>1. taken.size \in Nat /\ taken.words \in Nat /\ taken.kind \in {"event", "final"}
    <3>1. CASE taken \in [kind : {"event", "final"}, valid : {TRUE}, size : 0..2, words : 0..1]
      BY <3>1
    <3>2. CASE taken \in [kind : {"event", "final"}, valid : {FALSE}, size : {0}, words : {0}]
      BY <3>2
    <3> QED
      BY <1>3, <3>1, <3>2 DEF T!Records
  <2>2. T!NoRecord.kind = "none"
    BY DEF T!NoRecord
  <2> QED
    BY <2>1, <2>2
<1> QED
  BY <1>1, <1>2, <1>3

\* An event or the final is taken: charged, remembered and put in the queue, or
\* refused by a full one, over which the session ends.
LEMMA DispatchStep ==
    ASSUME TextInv, T!EmitEvent \/ T!Finalize
    PROVE  TextInv'
<1>1. /\ taken.kind # "none" /\ taken # T!NoRecord /\ ~T!OverBudget(taken)
      /\ T!Accumulate(taken) /\ T!Remember /\ UNCHANGED <<waking, given>>
      /\ taken.size \in Nat /\ taken.words \in Nat
  BY TakenTyped DEF TextInv, T!EmitEvent, T!Finalize
<1>2. seq' = seq + 1
  BY <1>1 DEF T!Accumulate
<1>3. HistoryInv' /\ history' \in Seq(Int) /\ oldest' \in Int
  BY <1>1, <1>2, Remembered DEF TextInv
<1>4. /\ kept' \in Seq(Sizes) /\ IsFiniteSet(Letters(kept')) /\ chars' = T!TextLength'
      /\ T!Added(taken) \in Nat
  BY <1>1, ChargedIsAdded DEF TextInv, TextTypes, BudgetInv
<1>5. /\ chars' \in Nat /\ words' \in Nat /\ seq' \in Nat
      /\ chars' <= MaxChars /\ words' <= MaxWords
  <2>1. /\ chars \in Nat /\ words \in Nat /\ seq \in Nat
        /\ MaxChars \in Nat /\ MaxWords \in Nat
    BY TextAssumption DEF TextInv, TextTypes
  <2>2. ~(chars + T!Added(taken) > MaxChars) /\ ~(words + taken.words > MaxWords)
    BY <1>1 DEF T!OverBudget
  <2>3. chars' = chars + T!Added(taken) /\ words' = words + taken.words
    BY <1>1 DEF T!Accumulate
  <2>4. chars' \in Nat /\ chars' <= MaxChars
    BY <1>4, <2>1, <2>2, <2>3
  <2>5. words' \in Nat /\ words' <= MaxWords
    BY <1>1, <2>1, <2>2, <2>3
  <2> QED
    BY <1>2, <2>1, <2>4, <2>5
<1>6. BudgetInv'
  BY <1>4, <1>5 DEF BudgetInv
<1>7. /\ Reaches(queue, Len(given), seq) /\ standing \in {"running", "cancelled"}
      /\ queue \in Seq(Int) /\ Len(given) \in Nat /\ seq \in Nat /\ seq \in Int
  BY <1>1 DEF TextInv, QueueInv, Over, TextTypes
<1>8. CASE T!HasRoom
  <2>1. /\ queue' = Append(queue, seq) /\ taken' = T!NoRecord /\ failure' = failure
        /\ \/ standing' = standing /\ finishing' = finishing
           \/ standing' = standing /\ finishing' = FALSE
           \/ standing' = "finished" /\ finishing' = FALSE /\ standing # "cancelled"
    BY <1>8 DEF T!EmitEvent, T!Finalize
  <2>2. /\ Reaches(queue', Len(given), seq')
        /\ Follows(queue, Len(given)) => Follows(queue', Len(given))
    BY <1>2, <1>7, <2>1, NextQueued
  <2>3. queue' \in Seq(Int)
    BY <1>7, <2>1, Appended
  <2>4. TextTypes'
    BY <1>1, <1>3, <1>4, <1>5, <2>1, <2>3 DEF TextInv, TextTypes
  <2>5. QueueInv'
    BY <1>1, <1>7, <2>1, <2>2 DEF TextInv, QueueInv
  <2> QED
    BY <1>3, <1>6, <2>4, <2>5 DEF TextInv
<1>9. CASE ~T!HasRoom
  <2>1. PICK sticky \in BOOLEAN : T!Fail(sticky)
    BY <1>9 DEF T!EmitEvent, T!Finalize
  <2>2. /\ standing' \in {"failed", "cancelled"} /\ queue' = queue
        /\ finishing' = FALSE /\ taken' = T!NoRecord /\ failure' = (failure \/ sticky)
        /\ waking => standing' = "cancelled"
    BY <1>7, <1>9, <2>1 DEF T!Fail, TextInv, QueueInv
  <2>3. seq' - 1 = seq
    BY <1>2, <1>7
  <2>4. failure' \in BOOLEAN
    BY <2>2 DEF TextInv, TextTypes
  <2>5. TextTypes'
    BY <1>1, <1>3, <1>4, <1>5, <2>2, <2>4 DEF TextInv, TextTypes
  <2>6. QueueInv'
    BY <1>1, <1>7, <2>2, <2>3 DEF TextInv, QueueInv, Over
  <2> QED
    BY <1>3, <1>6, <2>5, <2>6 DEF TextInv
<1> QED
  BY <1>8, <1>9

\* A read takes what is first in the queue.
LEMMA ReadStep ==
    ASSUME TextInv, T!ReadQueued
    PROVE  TextInv'
<1>1. /\ queue \in Seq(Int) /\ queue # <<>> /\ Len(given) \in Nat /\ given \in Seq(Int)
      /\ queue' = Tail(queue) /\ seq \in Int /\ seq - 1 \in Int
      /\ given' = IF Head(queue) = T!Wake THEN given ELSE Append(given, Head(queue))
      /\ UNCHANGED <<standing, finishing, taken, kept, chars, words, seq, history, oldest,
                     failure, waking>>
  BY DEF T!ReadQueued, T!accumulators, TextInv, TextTypes
<1>2. Tail(queue) \in Seq(Int) /\ Head(queue) \in Int
  BY <1>1, Shortened
<1>3. BudgetInv' /\ HistoryInv'
  BY <1>1 DEF TextInv, BudgetInv, HistoryInv, T!TextLength
<1>4. PICK n \in {seq, seq - 1} : /\ Reaches(queue, Len(given), n)
                                  /\ n = seq \/ Over
  BY DEF TextInv, QueueInv
<1>5. CASE Head(queue) = T!Wake
  <2>1. given' = given /\ Reaches(queue', Len(given), n) /\ ~Follows(queue, Len(given))
    BY <1>1, <1>4, <1>5, NextTaken
  <2>2. TextTypes'
    BY <1>1, <1>2, <2>1 DEF TextInv, TextTypes
  <2>3. QueueInv'
    BY <1>1, <1>4, <2>1 DEF TextInv, QueueInv, Over
  <2> QED
    BY <1>3, <2>2, <2>3 DEF TextInv
<1>6. CASE Head(queue) # T!Wake
  <2>1. /\ given' = Append(given, Head(queue)) /\ Head(queue) = Len(given)
        /\ Reaches(queue', Len(given) + 1, n)
        /\ Follows(queue, Len(given)) => Follows(queue', Len(given) + 1)
    BY <1>1, <1>4, <1>6, NextTaken
  <2>2. /\ given' \in Seq(Int) /\ Len(given') = Len(given) + 1
        /\ given'[Len(given) + 1] = Len(given)
        /\ \A i \in 1..Len(given) : given'[i] = given[i]
    BY <1>1, <1>2, <2>1, Appended
  <2>3. Follows(given', 0)
    <3>1. ASSUME NEW i \in 1..(Len(given) + 1) PROVE given'[i] = 0 + i - 1
      <4>1. i = Len(given) + 1 \/ i \in 1..Len(given)
        BY <1>1
      <4>2. CASE i = Len(given) + 1
        BY <1>1, <2>2, <4>2
      <4>3. CASE i \in 1..Len(given)
        BY <2>2, <4>3 DEF TextInv, QueueInv, Follows
      <4> QED
        BY <4>1, <4>2, <4>3
    <3> QED
      BY <2>2, <3>1 DEF Follows
  <2>4. TextTypes'
    BY <1>1, <1>2, <2>2 DEF TextInv, TextTypes
  <2>5. QueueInv'
    BY <1>1, <1>4, <2>1, <2>2, <2>3 DEF TextInv, QueueInv, Over
  <2> QED
    BY <1>3, <2>4, <2>5 DEF TextInv
<1> QED
  BY <1>5, <1>6

\* The steps that only move the reader, finish or cancel.
LEMMA QuietTextStep ==
    ASSUME TextInv, T!BeginFinish \/ T!Cancel \/ (\E r \in T!Records : T!ReadRecord(r))
    PROVE  TextInv'
<1>1. UNCHANGED <<kept, chars, words, seq, history, oldest, queue, failure, given>>
  BY DEF T!BeginFinish, T!Cancel, T!ReadRecord, T!accumulators
<1>2. BudgetInv' /\ HistoryInv'
  BY <1>1 DEF TextInv, BudgetInv, HistoryInv, T!TextLength
<1>3. TextTypes'
  BY <1>1 DEF TextInv, TextTypes, T!BeginFinish, T!Cancel, T!ReadRecord
<1>4. ASSUME T!BeginFinish PROVE QueueInv'
  <2>1. standing = "running" /\ UNCHANGED <<standing, taken, waking, seq>>
    BY <1>4 DEF T!BeginFinish, T!accumulators
  <2>2. Reaches(queue, Len(given), seq) /\ Follows(given, 0)
    BY <2>1 DEF TextInv, QueueInv, Over
  <2>3. Follows(queue, Len(given)) /\ ~waking
    BY <2>1 DEF TextInv, QueueInv
  <2> QED
    BY <1>1, <2>1, <2>2, <2>3 DEF QueueInv
<1>5. ASSUME T!Cancel PROVE QueueInv'
  <2>1. /\ standing = "running" /\ standing' = "cancelled"
        /\ UNCHANGED <<finishing, taken, seq>>
    BY <1>5 DEF T!Cancel, T!accumulators
  <2>2. /\ Reaches(queue, Len(given), seq) /\ Follows(given, 0)
        /\ Follows(queue, Len(given))
    BY <2>1 DEF TextInv, QueueInv, Over
  <2> QED
    BY <1>1, <2>1, <2>2 DEF QueueInv
<1>6. ASSUME NEW r \in T!Records, T!ReadRecord(r)
      PROVE  QueueInv'
  BY <1>1, <1>6 DEF TextInv, QueueInv, Over, T!ReadRecord
<1>7. QueueInv'
  BY <1>4, <1>5, <1>6 DEF TextInv
<1> QED
  BY <1>2, <1>3, <1>7 DEF TextInv

\* The sentinel of a cancel goes behind what is there, if there is room.
LEMMA CancelWakesStep ==
    ASSUME TextInv, T!CancelWakes
    PROVE  TextInv'
<1>1. /\ waking /\ waking' = FALSE /\ queue \in Seq(Int) /\ Len(given) \in Nat
      /\ standing = "cancelled" /\ Follows(queue, Len(given))
      /\ queue' = IF T!HasRoom THEN Append(queue, T!Wake) ELSE queue
      /\ UNCHANGED <<standing, finishing, taken, kept, chars, words, seq, history, oldest,
                     failure, given>>
  BY DEF T!CancelWakes, T!accumulators, TextInv, TextTypes, QueueInv
<1>2. BudgetInv' /\ HistoryInv'
  BY <1>1 DEF TextInv, BudgetInv, HistoryInv, T!TextLength
<1>3. PICK n \in {seq, seq - 1} : /\ Reaches(queue, Len(given), n)
                                  /\ n = seq \/ Over
  BY DEF TextInv, QueueInv
<1>4. n = Len(given) + Len(queue)
  BY <1>1, <1>3, PlainQueue
<1>5. queue' \in Seq(Int) /\ Reaches(queue', Len(given), n)
  BY <1>1, <1>3, <1>4, WakeQueued
<1>6. TextTypes'
  BY <1>1, <1>5 DEF TextInv, TextTypes
<1>7. QueueInv'
  BY <1>1, <1>3, <1>5 DEF TextInv, QueueInv, Over
<1> QED
  BY <1>2, <1>6, <1>7 DEF TextInv

\* Every action of a session's text keeps the invariant.
LEMMA TextStep == ASSUME TextInv, T!Next PROVE TextInv'
<1>1. CASE T!RefuseEvent \/ T!ReadFails \/ T!FinishFails
  <2>1. PICK sticky \in BOOLEAN : T!Fail(sticky)
    BY <1>1 DEF T!RefuseEvent, T!ReadFails, T!FinishFails
  <2>2. UNCHANGED <<kept, chars, words, seq, history, oldest, waking, given>>
    BY <1>1 DEF T!RefuseEvent, T!ReadFails, T!FinishFails, T!accumulators
  <2>3. Working
    BY <1>1, TakenTyped DEF T!RefuseEvent, T!ReadFails, T!FinishFails, Working, TextInv
  <2>4. BudgetInv' /\ HistoryInv'
    BY <2>2 DEF TextInv, BudgetInv, HistoryInv, T!TextLength
  <2> QED
    BY <2>1, <2>2, <2>3, <2>4, FailedStep DEF TextInv
<1>2. CASE T!EmitEvent \/ T!Finalize
  BY <1>2, DispatchStep
<1>3. CASE T!ReadQueued
  BY <1>3, ReadStep
<1>4. CASE T!BeginFinish \/ T!Cancel \/ (\E r \in T!Records : T!ReadRecord(r))
  BY <1>4, QuietTextStep
<1>5. CASE T!CancelWakes
  BY <1>5, CancelWakesStep
<1> QED
  BY <1>1, <1>2, <1>3, <1>4, <1>5 DEF T!Next

\* A new session has no text, no events and an empty queue.
LEMMA TextStart == ASSUME T!Init PROVE TextInv
<1>1. /\ IsFiniteSet({}) /\ Cardinality({}) = 0
      /\ Parts(<<>>) = {} /\ Letters(<<>>) = {}
  BY FS_EmptySet DEF Parts, Letters
<1>2. BudgetInv
  BY <1>1, LengthIs, TextAssumption DEF T!Init, BudgetInv
<1>3. /\ kept \in Seq(Sizes) /\ history \in Seq(Int) /\ queue \in Seq(Int)
      /\ given \in Seq(Int) /\ Len(history) = 0
  <2>1. <<>> \in Seq(Int) /\ <<>> \in Seq(Sizes) /\ Len(<<>>) = 0
    OBVIOUS
  <2> QED
    BY <2>1 DEF T!Init
<1>6. TextTypes
  <2>1. /\ standing = "running" /\ finishing = FALSE /\ taken = T!NoRecord
        /\ failure = FALSE /\ waking = FALSE /\ chars = 0 /\ words = 0 /\ seq = 0 /\ oldest = 0
    BY DEF T!Init
  <2>2. seq \in Nat /\ oldest \in Int /\ chars \in Nat /\ words \in Nat
    BY <2>1
  <2>3. /\ standing \in {"running", "failed", "cancelled", "finished"}
        /\ finishing \in BOOLEAN /\ failure \in BOOLEAN /\ waking \in BOOLEAN
        /\ taken \in T!Records \cup {T!NoRecord}
    BY <2>1, Zenon
  <2> QED
    BY <1>3, <2>2, <2>3 DEF TextTypes
<1>7. HistoryInv
  <2>1. seq = 0 /\ oldest = 0
    BY DEF T!Init
  <2> QED
    BY <1>3, <2>1 DEF HistoryInv
<1>4. Len(<<>>) = 0
  OBVIOUS
<1>5. QueueInv
  BY <1>4 DEF T!Init, QueueInv, Follows, Reaches
<1> QED
  BY <1>2, <1>5, <1>6, <1>7 DEF TextInv
-----------------------------------------------------------------------------
\* The events from one number to another, in order; none when it is before.
LEMMA EventsAre ==
    ASSUME NEW first \in Int, NEW last \in Int
    PROVE  /\ T!Events(first, last) \in Seq(Int)
           /\ last < first => T!Events(first, last) = <<>>
           /\ last >= first - 1 =>
                 /\ Len(T!Events(first, last)) = last - first + 1
                 /\ \A i \in 1..(last - first + 1) : T!Events(first, last)[i] = first + i - 1
<1>1. CASE last < first
  <2>1. 1..(last - first + 1) = {}
    BY <1>1
  <2>2. T!Events(first, last) = <<>>
    BY <2>1 DEF T!Events
  <2> QED
    BY <1>1, <2>2 DEF T!Events
<1>2. CASE last >= first
  BY <1>2 DEF T!Events
<1> QED
  BY <1>1, <1>2

\* The numbers from first to one, and the next.
LEMMA OneMoreEvent ==
    ASSUME NEW first \in Int, NEW last \in Int, last >= first
    PROVE  T!Events(first, last) = Append(T!Events(first, last - 1), last)
<1> DEFINE s == T!Events(first, last - 1)
           t == T!Events(first, last)
<1>1. /\ s \in Seq(Int) /\ t \in Seq(Int) /\ last - 1 \in Int
      /\ Len(s) = last - first /\ Len(t) = last - first + 1
      /\ \A i \in 1..(last - first) : s[i] = first + i - 1
      /\ \A i \in 1..(last - first + 1) : t[i] = first + i - 1
  BY EventsAre
<1> HIDE DEF s, t
<1>2. /\ Append(s, last) \in Seq(Int) /\ Len(Append(s, last)) = Len(s) + 1
      /\ Append(s, last)[Len(s) + 1] = last
      /\ \A i \in 1..Len(s) : Append(s, last)[i] = s[i]
  <2>1. s \in Seq(Int) /\ last \in Int
    BY <1>1
  <2> QED
    BY <2>1, Appended
<1>3. ASSUME NEW i \in 1..Len(t) PROVE t[i] = Append(s, last)[i]
  <2>1. CASE i = Len(s) + 1
    BY <1>1, <1>2, <2>1
  <2>2. CASE i \in 1..Len(s)
    BY <1>1, <1>2, <2>2
  <2> QED
    BY <1>1, <2>1, <2>2
<1>4. Len(t) = Len(Append(s, last))
  BY <1>1, <1>2
<1> QED
  BY <1>1, <1>2, <1>3, <1>4, SeqEqual DEF s, t

\* The replay: from any number that is not declared expired, the filtered window
\* is every event from it on.
LEMMA ReplayIsComplete ==
    ASSUME TextTypes, HistoryInv, NEW k \in oldest..seq
    PROVE  T!EventsSince(k) = T!Events(k, seq - 1)
<1> DEFINE n == Len(history)
           last(i) == seq - n + i - 1
           step(f) == [i \in 0..n |->
                         IF i = 0 THEN <<>>
                         ELSE IF history[i] >= k THEN Append(f[i - 1], history[i])
                         ELSE f[i - 1]]
           upTo == CHOOSE f : f = step(f)
           sofar == [i \in 0..n |-> T!Events(k, last(i))]
<1>1. /\ n \in Nat /\ seq \in Nat /\ seq \in Int /\ oldest = seq - n /\ oldest >= 0
      /\ k \in Int /\ k >= oldest
      /\ \A i \in 1..n : history[i] = last(i)
  BY DEF TextTypes, HistoryInv
<1>2. T!EventsSince(k) = upTo[n]
  BY DEF T!EventsSince
<1> HIDE DEF n
<1>3. ASSUME NEW i \in 1..n
      PROVE  T!Events(k, last(i)) = IF history[i] >= k
                                    THEN Append(T!Events(k, last(i - 1)), history[i])
                                    ELSE T!Events(k, last(i - 1))
  <2>1. last(i) \in Int /\ last(i - 1) = last(i) - 1 /\ last(i - 1) \in Int
        /\ history[i] = last(i)
    BY <1>1
  <2> HIDE DEF last
  <2>2. CASE last(i) >= k
    BY <1>1, <2>1, <2>2, OneMoreEvent
  <2>3. CASE ~(last(i) >= k)
    <3>1. last(i) < k /\ last(i - 1) < k
      BY <1>1, <2>1, <2>3
    <3>2. T!Events(k, last(i)) = <<>> /\ T!Events(k, last(i - 1)) = <<>>
      BY <1>1, <2>1, <3>1, EventsAre
    <3> QED
      BY <2>1, <2>3, <3>2
  <2> QED
    BY <2>2, <2>3
<1>4. T!Events(k, last(0)) = <<>>
  <2>1. last(0) \in Int /\ last(0) < k
    BY <1>1
  <2> HIDE DEF last
  <2> QED
    BY <1>1, <2>1, EventsAre
<1> HIDE DEF last
<1>5. sofar = step(sofar)
  BY <1>1, <1>3, <1>4
<1>6. upTo = step(upTo)
  <2>1. \E f : f = step(f)
    BY <1>5
  <2> QED
    BY <2>1
<1> HIDE DEF upTo
<1>7. \A i \in 0..n : upTo[i] = IF i = 0 THEN <<>>
                                 ELSE IF history[i] >= k THEN Append(upTo[i - 1], history[i])
                                 ELSE upTo[i - 1]
  BY <1>6
<1> DEFINE P == {i \in Nat : upTo[i] = T!Events(k, last(i))}
<1>8. 0..n \subseteq P
  <2>1. 0 \in P
    BY <1>1, <1>4, <1>7
  <2>2. ASSUME NEW i \in 1..n, i - 1 \in P PROVE i \in P
    <3>1. i \in 0..n /\ i # 0 /\ i \in Nat
      BY <1>1
    <3> QED
      BY <1>3, <1>7, <2>2, <3>1
  <2> HIDE DEF P
  <2> QED
    BY <1>1, <2>1, <2>2, AlongASequence
<1>9. upTo[n] = T!Events(k, last(n)) /\ last(n) = seq - 1
  BY <1>1, <1>8 DEF last
<1> QED
  BY <1>2, <1>9
\* What was read and what is queued, the sentinel left out, are the events.
LEMMA ReachedAreAll ==
    ASSUME NEW q \in Seq(Int), NEW s \in Seq(Int), NEW n \in Int,
           Follows(s, 0), Reaches(q, Len(s), n)
    PROVE  s \o T!RemoveFirst(q, T!Wake) = T!Events(0, n - 1)
<1> DEFINE g == Len(s)
           left == T!RemoveFirst(q, T!Wake)
<1>1. g \in Nat /\ Len(q) \in Nat /\ T!Wake = -1
  BY DEF T!Wake
<1>2. left \in Seq(Int) /\ Len(left) = n - g /\ Follows(left, g) /\ n >= g
  <2>1. CASE Follows(q, g) /\ n = g + Len(q)
    <3>1. ~ \E i \in 1..Len(q) : q[i] = T!Wake
      BY <1>1, <2>1 DEF Follows
    <3>2. left = q
      BY <3>1 DEF T!RemoveFirst
    <3> QED
      BY <1>1, <2>1, <3>2
  <2>2. ASSUME NEW w \in 1..Len(q), WokenAt(q, g, w), n = g + Len(q) - 1
        PROVE  left \in Seq(Int) /\ Len(left) = n - g /\ Follows(left, g) /\ n >= g
    <3>1. \A i \in 1..Len(q) : q[i] = T!Wake <=> i = w
      BY <1>1, <2>2 DEF WokenAt
    <3>2. T!SelectInSeq(q, LAMBDA v : v = T!Wake) = w
      <4>1. {i \in 1..Len(q) : q[i] = T!Wake} = {w}
        BY <3>1
      <4>2. T!Min({w}) = w
        BY DEF T!Min
      <4> QED
        BY <4>1, <4>2 DEF T!SelectInSeq
    <3>3. left = SubSeq(q, 1, w - 1) \o SubSeq(q, w + 1, Len(q))
      BY <3>1, <3>2 DEF T!RemoveFirst, T!RemoveAt
    <3> DEFINE a == SubSeq(q, 1, w - 1)
               b == SubSeq(q, w + 1, Len(q))
    <3>4. /\ a \in Seq(Int) /\ Len(a) = w - 1
          /\ \A i \in 1..(w - 1) : a[i] = q[i]
      BY <1>1
    <3>5. /\ b \in Seq(Int) /\ Len(b) = Len(q) - w
          /\ \A i \in 1..(Len(q) - w) : b[i] = q[w + i]
      BY <1>1
    <3> HIDE DEF a, b
    <3>6. /\ a \o b \in Seq(Int) /\ Len(a \o b) = Len(q) - 1
          /\ \A i \in 1..(Len(q) - 1) : (a \o b)[i] = IF i < w THEN q[i] ELSE q[i + 1]
      <4>1. /\ a \o b \in Seq(Int) /\ Len(a \o b) = Len(a) + Len(b)
            /\ \A i \in 1..(Len(a) + Len(b)) :
                  (a \o b)[i] = IF i <= Len(a) THEN a[i] ELSE b[i - Len(a)]
        BY <3>4, <3>5, ConcatProperties
      <4>2. ASSUME NEW i \in 1..(Len(q) - 1)
            PROVE  (a \o b)[i] = IF i < w THEN q[i] ELSE q[i + 1]
        <5>1. CASE i < w
          BY <1>1, <3>4, <3>5, <4>1, <5>1
        <5>2. CASE ~(i < w)
          <6>1. i \in 1..(Len(a) + Len(b)) /\ ~(i <= Len(a))
            BY <1>1, <3>4, <3>5, <5>2
          <6>2. i - Len(a) \in 1..(Len(q) - w) /\ w + (i - Len(a)) = i + 1
            BY <1>1, <3>4, <3>5, <5>2
          <6> QED
            BY <3>5, <4>1, <5>2, <6>1, <6>2
        <5> QED
          BY <5>1, <5>2
      <4>3. Len(a) + Len(b) = Len(q) - 1
        BY <1>1, <3>4, <3>5
      <4> QED
        BY <4>1, <4>2, <4>3
    <3>7. left = a \o b
      BY <3>3 DEF a, b
    <3> HIDE DEF left
    <3>8. Follows(left, g)
      <4>1. ASSUME NEW i \in 1..(Len(q) - 1) PROVE left[i] = g + i - 1
        <5>1. CASE i < w
          <6>1. left[i] = q[i]
            BY <3>6, <3>7, <5>1
          <6>3. i \in 1..Len(q)
            BY <1>1
          <6> QED
            BY <2>2, <5>1, <6>1, <6>3 DEF WokenAt
        <5>2. CASE ~(i < w)
          <6>3. left[i] = q[i + 1]
            BY <3>6, <3>7, <5>2
          <6>4. i + 1 \in 1..Len(q) /\ i + 1 > w
            BY <1>1, <5>2
          <6>1. left[i] = q[i + 1] /\ i + 1 \in 1..Len(q) /\ i + 1 > w
            BY <6>3, <6>4
          <6>2. q[i + 1] = g + (i + 1) - 2
            BY <2>2, <6>1 DEF WokenAt
          <6> QED
            BY <1>1, <6>1, <6>2
        <5> QED
          BY <5>1, <5>2
      <4> QED
        BY <3>6, <3>7, <4>1 DEF Follows
    <3>9. n - g = Len(q) - 1 /\ n >= g
      <4> HIDE DEF g
      <4> QED
        BY <1>1, <2>2
    <3> QED
      BY <3>6, <3>7, <3>8, <3>9
  <2> QED
    BY <2>1, <2>2 DEF Reaches
<1> HIDE DEF left
<1>3. /\ s \o left \in Seq(Int) /\ Len(s \o left) = g + Len(left)
      /\ \A i \in 1..(g + Len(left)) : (s \o left)[i] = IF i <= g THEN s[i] ELSE left[i - g]
  BY <1>2, ConcatProperties
<1>4. n - 1 \in Int /\ n - 1 >= 0 - 1 /\ n = g + Len(left)
  BY <1>1, <1>2
<1>5. /\ T!Events(0, n - 1) \in Seq(Int) /\ Len(T!Events(0, n - 1)) = n
      /\ \A i \in 1..n : T!Events(0, n - 1)[i] = 0 + i - 1
  <2>1. 0 \in Int /\ (n - 1) - 0 + 1 = n
    OBVIOUS
  <2>2. /\ T!Events(0, n - 1) \in Seq(Int) /\ Len(T!Events(0, n - 1)) = (n - 1) - 0 + 1
        /\ \A i \in 1..((n - 1) - 0 + 1) : T!Events(0, n - 1)[i] = 0 + i - 1
    BY <1>4, <2>1, EventsAre
  <2> QED
    BY <2>1, <2>2
<1>6. ASSUME NEW i \in 1..n PROVE (s \o left)[i] = T!Events(0, n - 1)[i]
  <2>1. CASE i <= g
    BY <1>1, <1>3, <1>4, <1>5, <2>1 DEF Follows
  <2>2. CASE ~(i <= g)
    <3>1. i - g \in 1..Len(left)
      BY <1>1, <1>2, <1>4, <2>2
    <3>2. left[i - g] = g + (i - g) - 1
      BY <1>2, <3>1 DEF Follows
    <3>3. (s \o left)[i] = left[i - g]
      BY <1>3, <1>4, <2>2
    <3> QED
      BY <1>1, <1>5, <3>2, <3>3
  <2> QED
    BY <2>1, <2>2
<1>7. Len(s \o left) = Len(T!Events(0, n - 1)) /\ Len(s \o left) = n
  BY <1>3, <1>4, <1>5
<1> HIDE DEF g
<1>8. s \o left = T!Events(0, n - 1)
  BY <1>3, <1>5, <1>6, <1>7, SeqEqual
<1> QED
  BY <1>8 DEF left

\* A slow or late consumer never holds a text with a hole it cannot see.
THEOREM NothingIsMissedUnseen == AllSpec => []NoUnseenHole
<1>1. AllInit => TextInv
  BY TextStart DEF AllInit
<1>2. TextInv /\ [AllNext]_all => TextInv'
  <2>1. TextInv /\ UNCHANGED textVars => TextInv'
    BY DEF textVars, TextInv, TextTypes, BudgetInv, HistoryInv, QueueInv, Over, T!TextLength
  <2> QED
    BY <2>1, TextStep DEF AllNext, all
<1>3. TextInv => NoUnseenHole
  <2> SUFFICES ASSUME TextInv PROVE T!NoUnseenHole
    BY DEF NoUnseenHole
  <2>1. /\ given \in Seq(Int) /\ queue \in Seq(Int) /\ Follows(given, 0) /\ seq \in Int
        /\ seq - 1 \in Int
    BY DEF TextInv, TextTypes, QueueInv
  <2>2. \A k \in oldest..seq : T!EventsSince(k) = T!Events(k, seq - 1)
    BY ReplayIsComplete DEF TextInv
  <2>3. chars = T!TextLength /\ chars <= MaxChars /\ words <= MaxWords
    BY DEF TextInv, BudgetInv
  <2>4. \/ given \o T!RemoveFirst(queue, T!Wake) = T!Events(0, seq - 1)
        \/ /\ standing \in {"failed", "cancelled"}
           /\ given \o T!RemoveFirst(queue, T!Wake) = T!Events(0, seq - 2)
    <3>1. CASE Reaches(queue, Len(given), seq)
      BY <2>1, <3>1, ReachedAreAll
    <3>2. CASE Over /\ Reaches(queue, Len(given), seq - 1)
      <4>1. given \o T!RemoveFirst(queue, T!Wake) = T!Events(0, (seq - 1) - 1)
        BY <2>1, <3>2, ReachedAreAll
      <4>2. (seq - 1) - 1 = seq - 2
        BY <2>1
      <4> QED
        BY <3>2, <4>1, <4>2 DEF Over
    <3> QED
      BY <3>1, <3>2 DEF TextInv, QueueInv
  <2> QED
    BY <2>2, <2>3, <2>4 DEF T!NoUnseenHole
<1> QED
  BY <1>1, <1>2, <1>3, PTL DEF AllSpec
=============================================================================
