----------------------- MODULE StreamingConnection -----------------------
(***************************************************************************)
(* One accepted connection of adapters/streaming_ws.py: the client, the    *)
(* receiver task that reads the socket into a bounded inbox and raises     *)
(* "gone", the handler task that takes messages from the inbox and drives  *)
(* the core, and the worker threads that run the core's start and finish.  *)
(* A thread that the handler stops waiting for is not stopped with it.     *)
(*                                                                         *)
(* Messages are numbered as the client sent them. The core session is      *)
(* reduced to its state and its child; StreamingSession models it whole.   *)
(* Events on their way to the client carry no decision and are left out;   *)
(* a send that fails ends the connection like any other fault.             *)
(*                                                                         *)
(* A definition that no other uses is a mistake the code could contain,    *)
(* stated just before the definition it would replace.                     *)
(***************************************************************************)
EXTENDS Naturals, Sequences

CONSTANTS
    MaxInbox,           \* MAX_INBOX
    MaxSent,            \* bound: messages one client sends
    CoreKeepsPromise    \* TRUE: start never overwrites a cancel, as its
                        \* documentation has it; FALSE: as it is coded

VARIABLES
    sent,       \* the kinds of the client's messages, the last one may be its end
    received,   \* how many of them receive() has returned
    held,       \* the message the receiver is putting, 0 when none
    gone,       \* _Connection.gone
    inbox,      \* the asyncio.Queue: numbers of messages
    phase,      \* the handler
    session,    \* the core session's _state, "none" before it is built
    child,      \* the owned process
    starter,    \* the thread in start
    finisher,   \* the thread in finish, and what came of it
    fed,        \* numbers of the messages given to the core's feed
    final       \* the final message was sent

client   == <<sent>>
receiver == <<received, held, gone>>
core     == <<session, child>>
threads  == <<starter, finisher>>
vars == <<sent, received, held, gone, inbox, phase, session, child, starter, finisher,
          fed, final>>

\* "bad" is any message the handler refuses wherever it meets it: malformed,
\* too large, unauthorised, unknown. "gone" is the end of the socket.
Kinds == {"start", "bad", "audio", "finish", "cancel", "gone"}
Live  == {"created", "running"}

Init ==
    /\ sent = <<>> /\ received = 0 /\ held = 0 /\ gone = FALSE /\ inbox = <<>>
    /\ phase = "await" /\ session = "none" /\ child = "none"
    /\ starter = "off" /\ finisher = "off"
    /\ fed = <<>> /\ final = FALSE

-----------------------------------------------------------------------------
(* The client and the receiver task                                         *)

Left == sent # <<>> /\ sent[Len(sent)] = "gone"

ClientSends(k) ==
    /\ ~Left /\ Len(sent) < MaxSent
    /\ sent' = Append(sent, k)
    /\ UNCHANGED <<receiver, inbox, phase, core, threads, fed, final>>

ReceiveNoticesHangupOnly ==
    /\ phase # "closed" /\ held = 0 /\ received < Len(sent)
    /\ received' = received + 1 /\ held' = received + 1
    /\ gone' = (gone \/ sent[received + 1] = "gone")
    /\ UNCHANGED <<client, inbox, phase, core, threads, fed, final>>

Receive ==
    /\ phase # "closed" /\ held = 0 /\ received < Len(sent)
    /\ received' = received + 1 /\ held' = received + 1
    /\ gone' = (gone \/ sent[received + 1] \in {"gone", "cancel"})
    /\ UNCHANGED <<client, inbox, phase, core, threads, fed, final>>

PutDropsWhenFull ==
    /\ phase # "closed" /\ held # 0
    /\ inbox' = IF Len(inbox) < MaxInbox THEN Append(inbox, held) ELSE inbox
    /\ held' = 0
    /\ UNCHANGED <<client, received, gone, phase, core, threads, fed, final>>

Put ==
    /\ phase # "closed" /\ held # 0 /\ Len(inbox) < MaxInbox
    /\ inbox' = Append(inbox, held) /\ held' = 0
    /\ UNCHANGED <<client, received, gone, phase, core, threads, fed, final>>

-----------------------------------------------------------------------------
(* The core                                                                 *)

\* session.cancel: nothing on a terminal session, else the child goes.
Cancel ==
    IF session \in Live
    THEN /\ session' = "cancelled"
         /\ child' = IF child = "alive" THEN "gone" ELSE child
    ELSE UNCHANGED core

\* session.start reads its state, launches the child, reads the state again and
\* publishes. A cancel that comes before the launch finds no process and closes
\* nothing: the second reading finds the cancel, and ends the child then.
StartReads ==
    /\ starter = "check"
    /\ starter' = IF session = "created" THEN "popen" ELSE "done"
    /\ UNCHANGED <<client, receiver, inbox, phase, core, finisher, fed, final>>

StartLaunches ==
    /\ starter = "popen"
    /\ \/ child' = "alive" /\ starter' = "launched" /\ UNCHANGED session
       \/ /\ session' = IF session = "created" THEN "failed" ELSE session
          /\ starter' = "done" /\ UNCHANGED child
    /\ UNCHANGED <<client, receiver, inbox, phase, finisher, fed, final>>

\* The child did not report in time, or the session is not "created" any more:
\* start ends the child and raises.
StartRechecks ==
    /\ starter = "launched"
    /\ \/ session = "created" /\ starter' = "publish" /\ UNCHANGED core
       \/ /\ starter' = "done" /\ child' = "gone"
          /\ session' = IF session = "created" THEN "failed" ELSE session
    /\ UNCHANGED <<client, receiver, inbox, phase, finisher, fed, final>>

\* self._state = "running", under no lock and with no further look.
StartPublishes ==
    /\ starter = "publish"
    /\ starter' = "done"
    /\ session' = IF CoreKeepsPromise /\ session # "created" THEN session ELSE "running"
    /\ UNCHANGED <<client, receiver, inbox, phase, child, finisher, fed, final>>

FinishRuns ==
    /\ finisher = "run"
    /\ \/ session = "running" /\ session' = "finished" /\ finisher' = "event"
       \/ /\ session' = IF session = "running" THEN "failed" ELSE session
          /\ finisher' = "error"
    /\ child' = IF session = "running" THEN "gone" ELSE child
    /\ UNCHANGED <<client, receiver, inbox, phase, starter, fed, final>>

-----------------------------------------------------------------------------
(* The handler task. The session is published to the connection before it  *)
(* is started; from there every way out passes through Close.              *)

End(p) == phase' = p /\ UNCHANGED <<client, receiver, fed>>

\* _await_start: nothing is allocated until the first message is a good start.
TakeFirst ==
    /\ phase = "await" /\ inbox # <<>>
    /\ inbox' = Tail(inbox)
    /\ IF sent[Head(inbox)] = "start"
       THEN End("starting") /\ session' = "created" /\ starter' = "check"
       ELSE End("closing") /\ UNCHANGED <<session, starter>>
    /\ UNCHANGED <<child, finisher, final>>

HandshakeTimeout ==
    /\ phase = "await" /\ inbox = <<>>
    /\ End("closing")
    /\ UNCHANGED <<inbox, core, threads, final>>

\* _start_session_guarded: the start's end, the client's end, or the timeout.
StartDone ==
    /\ phase = "starting" /\ starter = "done"
    /\ \/ session = "running" /\ End("pump")
       \/ End("closing")
    /\ UNCHANGED <<inbox, core, threads, final>>

StartGone ==
    /\ phase = "starting" /\ gone
    /\ Cancel /\ End("closing")
    /\ UNCHANGED <<inbox, threads, final>>

StartTimeout ==
    /\ phase = "starting" /\ starter # "done"
    /\ Cancel /\ End("closing")
    /\ UNCHANGED <<inbox, threads, final>>

PumpAudio ==
    /\ phase = "pump" /\ inbox # <<>> /\ sent[Head(inbox)] = "audio"
    /\ inbox' = Tail(inbox)
    /\ \/ session = "running" /\ fed' = Append(fed, Head(inbox)) /\ UNCHANGED phase
       \/ phase' = "closing" /\ UNCHANGED fed
    /\ UNCHANGED <<client, receiver, core, threads, final>>

PumpFinish ==
    /\ phase = "pump" /\ inbox # <<>> /\ sent[Head(inbox)] = "finish"
    /\ inbox' = Tail(inbox)
    /\ End("finishing") /\ finisher' = "run"
    /\ UNCHANGED <<core, starter, final>>

PumpStops ==
    /\ phase = "pump" /\ inbox # <<>> /\ sent[Head(inbox)] \notin {"audio", "finish"}
    /\ inbox' = Tail(inbox)
    /\ End("closing")
    /\ UNCHANGED <<core, threads, final>>

\* The idle timeout.
PumpIdleAfterAudio ==
    /\ phase = "pump" /\ inbox = <<>> /\ fed # <<>>
    /\ End("closing")
    /\ UNCHANGED <<inbox, core, threads, final>>

PumpIdle ==
    /\ phase = "pump" /\ inbox = <<>>
    /\ End("closing")
    /\ UNCHANGED <<inbox, core, threads, final>>

\* A read fails the session in the core, or an event cannot be sent.
PumpFault ==
    /\ phase = "pump"
    /\ \/ session = "running" /\ session' = "failed" /\ child' = "gone"
       \/ UNCHANGED core
    /\ End("closing")
    /\ UNCHANGED <<inbox, threads, final>>

\* _do_finish: the same three ways out of the wait.
FinishDone ==
    /\ phase = "finishing" /\ finisher \in {"event", "error"}
    /\ final' \in (IF finisher = "event" THEN BOOLEAN ELSE {FALSE})
    /\ End("closing")
    /\ UNCHANGED <<inbox, core, threads>>

FinishGone ==
    /\ phase = "finishing" /\ gone
    /\ Cancel /\ End("closing")
    /\ UNCHANGED <<inbox, threads, final>>

FinishTimeout ==
    /\ phase = "finishing" /\ finisher = "run"
    /\ Cancel /\ End("closing")
    /\ UNCHANGED <<inbox, threads, final>>

\* The task is cancelled at an await, by the server's shutdown.
HandlerCancelled ==
    /\ phase \in {"await", "starting", "pump", "finishing"}
    /\ Cancel /\ End("closing")
    /\ UNCHANGED <<inbox, threads, final>>

\* The finally clause: the receiver ends, a live session is cancelled.
Close ==
    /\ phase = "closing"
    /\ Cancel /\ End("closed")
    /\ UNCHANGED <<inbox, threads, final>>

\* Nothing moves any more: the socket is closed and no thread is left.
Over ==
    /\ phase = "closed" /\ starter \in {"off", "done"} /\ finisher # "run"
    /\ UNCHANGED vars

-----------------------------------------------------------------------------
Receiver == Receive \/ Put
Threads  == StartReads \/ StartLaunches \/ StartRechecks \/ StartPublishes \/ FinishRuns
Takes    == TakeFirst \/ PumpAudio \/ PumpFinish \/ PumpStops
Timeouts == HandshakeTimeout \/ StartTimeout \/ PumpIdle \/ FinishTimeout
Prompt   == Takes \/ StartGone \/ FinishGone \/ Close
Answers  == StartDone \/ FinishDone

Next ==
    \/ \E k \in Kinds : ClientSends(k)
    \/ Receiver \/ Threads \/ Prompt \/ Answers \/ Timeouts
    \/ PumpFault \/ HandlerCancelled \/ Over

Spec == Init /\ [][Next]_vars

\* The event loop runs its tasks; nothing is assumed of threads and timers.
LoopRuns == WF_vars(Receiver) /\ WF_vars(Prompt)

\* Every thread ends and is answered, and every timer fires.
ThreadsReturn ==
    /\ WF_vars(StartReads) /\ WF_vars(StartLaunches) /\ WF_vars(StartRechecks)
    /\ WF_vars(StartPublishes) /\ WF_vars(FinishRuns) /\ WF_vars(Answers)
TimersFire == WF_vars(Timeouts)

-----------------------------------------------------------------------------
(* Properties                                                               *)

\* What the core was fed is the audio that followed start, in order, without
\* a hole, and nothing from behind the message that ended the input, whatever
\* was queued while start and finish blocked the handler.
FedInOrder ==
    /\ fed # <<>> => sent[1] = "start"
    /\ \A i \in 1 .. Len(fed) : fed[i] = i + 1 /\ sent[i + 1] = "audio"

\* A final message answers all the audio up to the finish and no less: the
\* client that reads it lost no frame, and no cancel took effect before it.
FinalIsWhole ==
    final => /\ session = "finished"
             /\ Len(sent) >= Len(fed) + 2 /\ sent[Len(fed) + 2] = "finish"

\* What the client is told and what the core heard agree.
AudioAccountedFor == FedInOrder /\ FinalIsWhole

\* (streaming_ws.py:791) "a disconnect or a cancel during the launch cancels the
\* session - whose own ``start`` is cancel-safe and will not resurrect a cancelled
\* state - and the owned child is released": once the connection of a client that
\* left is closed and its threads have returned, the session is over, its child too.
DiesWithConnection ==
    (gone /\ phase = "closed" /\ starter \in {"off", "done"} /\ finisher # "run")
        => child # "alive" /\ session \notin Live

\* A client that cancels or hangs up is noticed by the event loop alone: the
\* connection closes though no thread returns and no timer fires. The inbox
\* must have room for what the client sends while the handler is blocked.
PromptRelease ==
    (\E i \in 1 .. Len(sent) : sent[i] \in {"cancel", "gone"}) ~> phase = "closed"

\* Whatever the client does, or does not do, its connection ends, and the
\* child with it.
ConnectionEnds ==
    ThreadsReturn /\ TimersFire => <>[](phase = "closed" /\ child # "alive")

=============================================================================
