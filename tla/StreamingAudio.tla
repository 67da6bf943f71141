-------------------------- MODULE StreamingAudio --------------------------
(***************************************************************************)
(* The audio of one running live session: frames fed to the child, the     *)
(* child's acknowledgements read back, the chunk deadline on audio that is *)
(* not acknowledged, and the finish that flushes the tail                  *)
(* (core/streaming.py, core/streaming_process.py, core/stream_worker.py).  *)
(*                                                                         *)
(* A frame is one unit of audio.  The child's pipes and the two queues of  *)
(* the worker are the sequences toChild and records.  Time is the chunk    *)
(* deadline counted down by Tick.  Cancels, and what a failure does to the *)
(* slot and the child, are StreamingSession's.                             *)
(*                                                                         *)
(* A definition that no other uses is a mistake the code could contain,    *)
(* stated just before the definition it would replace.                     *)
(***************************************************************************)
EXTENDS Naturals, Sequences

CONSTANTS
    MaxFrames,   \* bound of the model: frames fed in a session
    MaxQueue,    \* _max_queue_bytes, in frames
    MaxRecords,  \* MAX_QUEUED_RECORDS
    Deadline,    \* CHUNK_DEADLINE_S, in ticks
    Overlap      \* TRUE: feed is called while another thread reads

VARIABLES
    fed,         \* _samples_fed
    processed,   \* _samples_processed
    timer,       \* what is left of _chunk_deadline_at, or Off
    toChild,     \* the commands on their way to the child
    consumed,    \* the child's own consumed_samples
    child,       \* the child, "unstopped" once its native stop failed, then the
                 \* thread that reads its stdout
    faulted,     \* the engine erred or the child died, for the properties only
    records,     \* _record_q: [kind, clock] of "event", "final", "done", "error",
                 \* "flood" (it overflowed) and "eof"
    writeError,  \* _write_error
    feeder,      \* the place of the thread in feed, under _feed_lock
    reader,      \* the place of the thread in read_event or finish: "finishing"
                 \* and "flushed" are finish's own, and finish goes through the
                 \* others and comes back (home)
    final,       \* final_raw: the clock of the final record, or NoClock
    emitted,     \* the events emitted, _seq
    status,      \* _state
    reason,      \* why the session failed
    waits        \* how long each unacknowledged frame has waited, for the
                 \* properties only

vars == <<fed, processed, timer, toChild, consumed, child, faulted, records,
          writeError, feeder, reader, final, emitted, status, reason, waits>>

None    == "none"
Off     == Deadline + 1    \* no chunk deadline
NoClock == MaxFrames + 1   \* no final record yet

Init ==
    /\ fed = 0 /\ processed = 0 /\ consumed = 0 /\ emitted = 0
    /\ timer = Off /\ toChild = <<>> /\ records = <<>> /\ waits = <<>>
    /\ child = "running" /\ faulted = FALSE /\ writeError = FALSE
    /\ feeder = "idle" /\ reader = [at |-> "idle", home |-> "idle"]
    /\ final = NoClock /\ status = "running" /\ reason = None

Running == status = "running"
At(place) == reader.at = place
Goto(place) == reader' = [reader EXCEPT !.at = place]
Finishing == reader.home = "finishing"

\* _fail_live on the read side, _fail_and_release on finish's.
Fail(why) == status' = "failed" /\ reason' = why
StaysUp == UNCHANGED <<status, reason>>

-----------------------------------------------------------------------------
(* feed: the check, worker.feed, the count and the deadline are four steps  *)
(* to a thread that reads meanwhile.  finish and feed never overlap.        *)

FeedCheck ==
    /\ Running /\ feeder = "idle" /\ ~Finishing
    /\ Overlap \/ At("idle")
    /\ fed < MaxFrames
    /\ fed - processed + 1 <= MaxQueue
    /\ ~writeError
    /\ feeder' = "checked"
    /\ UNCHANGED <<fed, processed, timer, toChild, consumed, child, records,
                   writeError, faulted,
                   reader, final, emitted, status, reason, waits>>

\* worker.feed, which raises once a write has failed: the frame was not taken.
FeedHand ==
    /\ feeder = "checked"
    /\ IF writeError
       THEN feeder' = "idle" /\ UNCHANGED toChild
       ELSE feeder' = "handed" /\ toChild' = Append(toChild, "frame")
    /\ UNCHANGED <<fed, processed, timer, consumed, child, records, writeError, faulted,
                   reader, final, emitted, status, reason, waits>>

FeedCount ==
    /\ feeder = "handed"
    /\ fed' = fed + 1
    /\ waits' = Append(waits, 0)
    /\ feeder' = "counted"
    /\ UNCHANGED <<processed, timer, toChild, consumed, child, records, writeError, faulted,
                   reader, final, emitted, status, reason>>

FeedForgetsArm ==
    /\ feeder = "counted"
    /\ feeder' = "idle"
    /\ UNCHANGED <<fed, processed, timer, toChild, consumed, child, records,
                   writeError, faulted,
                   reader, final, emitted, status, reason, waits>>

FeedArm ==
    /\ feeder = "counted"
    /\ timer' = IF processed < fed /\ timer = Off THEN Deadline ELSE timer
    /\ feeder' = "idle"
    /\ UNCHANGED <<fed, processed, toChild, consumed, child, records, writeError, faulted,
                   reader, final, emitted, status, reason, waits>>

-----------------------------------------------------------------------------
(* The child, and the thread that posts what it says.                       *)

Rec(kind, clock) == [kind |-> kind, clock |-> clock]

\* _post: past the bound the oldest record makes room for an error.
Post(queue, rec) ==
    IF Len(queue) < MaxRecords THEN Append(queue, rec)
                               ELSE Append(Tail(queue), Rec("flood", 0))

ChildFrame ==
    /\ child = "running" /\ toChild # <<>> /\ Head(toChild) = "frame"
    /\ toChild' = Tail(toChild)
    /\ consumed' = consumed + 1
    /\ \/ records' = Post(records, Rec("event", consumed + 1)) /\ UNCHANGED faulted
       \/ records' = Post(records, Rec("error", 0)) /\ faulted' = TRUE
    /\ UNCHANGED <<fed, processed, timer, child, writeError, feeder, reader, final,
                   emitted, status, reason, waits>>

ChildDoneFirst ==
    /\ child = "running" /\ toChild # <<>> /\ Head(toChild) = "finish"
    /\ toChild' = Tail(toChild)
    /\ records' = Post(Post(records, Rec("done", 0)), Rec("final", consumed))
    /\ child' = "exited"
    /\ UNCHANGED <<fed, processed, timer, consumed,
                   writeError, faulted, feeder, reader, final,
                   emitted, status, reason, waits>>

\* The native stop runs once; then the child leaves.
ChildFinish ==
    /\ child = "running" /\ toChild # <<>> /\ Head(toChild) = "finish"
    /\ toChild' = Tail(toChild)
    /\ records' = Post(Post(records, Rec("final", consumed)), Rec("done", 0))
    /\ child' = "exited"
    /\ UNCHANGED <<fed, processed, timer, consumed,
                   writeError, faulted, feeder, reader, final,
                   emitted, status, reason, waits>>

\* The native stop raises: the child says so and waits for a command that does
\* not come any more.
ChildStopFails ==
    /\ child = "running" /\ toChild # <<>> /\ Head(toChild) = "finish"
    /\ toChild' = Tail(toChild)
    /\ records' = Post(records, Rec("error", 0))
    /\ child' = "unstopped" /\ faulted' = TRUE
    /\ UNCHANGED <<fed, processed, timer, consumed, writeError, feeder, reader, final,
                   emitted, status, reason, waits>>

ChildDies ==
    /\ child \in {"running", "unstopped"}
    /\ child' = "exited" /\ faulted' = TRUE
    /\ UNCHANGED <<fed, processed, timer, toChild, consumed, records, writeError, feeder,
                   reader, final, emitted, status, reason, waits>>

\* _read_stdout ends: first its sentinel is posted, then the thread is over,
\* which is what at_eof asks.
PostEof ==
    /\ child = "exited"
    /\ records' = Post(records, Rec("eof", 0))
    /\ child' = "posted"
    /\ UNCHANGED <<fed, processed, timer, toChild, consumed,
                   writeError, faulted, feeder, reader,
                   final, emitted, status, reason, waits>>

StdoutThreadEnds ==
    /\ child = "posted"
    /\ child' = "over"
    /\ UNCHANGED <<fed, processed, timer, toChild, consumed, records,
                   writeError, faulted, feeder,
                   reader, final, emitted, status, reason, waits>>

\* _fail_write: the pipe of a child that left breaks under the writer thread;
\* its error finds no room in a full queue.
WriteBreaks ==
    /\ child \notin {"running", "unstopped"} /\ toChild # <<>> /\ ~writeError
    /\ writeError' = TRUE
    /\ records' = IF Len(records) < MaxRecords THEN Append(records, Rec("error", 0))
                                               ELSE records
    /\ UNCHANGED <<fed, processed, timer, toChild, consumed, child, faulted, feeder, reader, final,
                   emitted, status, reason, waits>>

-----------------------------------------------------------------------------
(* Reading, by read_event or by the loop of finish.  A clock that runs back *)
(* or ahead of what was fed fails the session.                              *)

Reading == Running /\ (At("idle") \/ At("finishing")) /\ (Overlap \/ feeder = "idle")

\* read_record raises once a write has failed.
ReadRaises ==
    /\ Reading /\ writeError
    /\ Fail("write")
    /\ UNCHANGED <<fed, processed, timer, toChild, consumed, child, records,
                   writeError, faulted,
                   feeder, reader, final, emitted, waits>>

Take(kind) ==
    /\ Reading /\ ~writeError
    /\ records # <<>> /\ Head(records).kind = kind
    /\ records' = Tail(records)
    /\ UNCHANGED <<fed, timer, toChild, consumed, child, writeError, faulted, feeder>>

\* _emit: the clock first, then the event is numbered.
TakeEvent ==
    /\ Take("event")
    /\ LET clock == Head(records).clock IN
       IF clock \in processed .. fed
       THEN /\ processed' = clock
            /\ waits' = SubSeq(waits, clock - processed + 1, Len(waits))
            /\ emitted' = emitted + 1
            /\ Goto("rearm") /\ StaysUp
       ELSE Fail("clock") /\ UNCHANGED <<processed, waits, emitted, reader>>
    /\ UNCHANGED final

TakeErrorLightly ==
    /\ Take("error") \/ Take("flood")
    /\ StaysUp
    /\ UNCHANGED <<processed, reader, final, emitted, waits>>

TakeError ==
    /\ Take("error") \/ Take("flood")
    /\ Fail("worker")
    /\ UNCHANGED <<processed, reader, final, emitted, waits>>

\* A live read passes over a final record.
TakeFinal ==
    /\ Take("final")
    /\ IF Finishing /\ final # NoClock
       THEN Fail("protocol") /\ UNCHANGED final
       ELSE StaysUp /\ final' = IF Finishing THEN Head(records).clock ELSE final
    /\ UNCHANGED <<processed, reader, emitted, waits>>

TakeDone ==
    /\ Take("done")
    /\ IF Finishing /\ final # NoClock
       THEN Goto("flushed") /\ StaysUp
       ELSE Fail("protocol") /\ UNCHANGED reader
    /\ UNCHANGED <<processed, final, emitted, waits>>

\* read_record came back with None: the sentinel, or nothing in the time of
\* read_event's caller; finish waits for its whole deadline (FinishTimesOut).
TakeNothing ==
    /\ \/ Take("eof")
       \/ /\ Reading /\ ~Finishing /\ ~writeError /\ records = <<>>
          /\ UNCHANGED <<fed, timer, toChild, consumed, child, writeError, faulted, feeder, records>>
    /\ Goto("ended") /\ StaysUp
    /\ UNCHANGED <<processed, final, emitted, waits>>

\* _raise_if_stream_ended, and finish's _worker_alive_or_reading.
CheckEnded ==
    /\ Running /\ At("ended")
    /\ IF child = "over"
       THEN Fail(IF Finishing THEN "exited" ELSE "ended") /\ UNCHANGED reader
       ELSE Goto(IF Finishing THEN "finishing" ELSE "stalled") /\ StaysUp
    /\ UNCHANGED <<fed, processed, timer, toChild, consumed, child, records,
                   writeError, faulted,
                   feeder, final, emitted, waits>>

CheckStalled ==
    /\ Running /\ At("stalled")
    /\ IF processed < fed /\ timer = 0 THEN Fail("stalled") ELSE StaysUp
    /\ Goto("idle")
    /\ UNCHANGED <<fed, processed, timer, toChild, consumed, child, records,
                   writeError, faulted,
                   feeder, final, emitted, waits>>

\* _rearm_chunk_deadline: the comparison, and the deadline it clears.
Rearm ==
    /\ Running /\ At("rearm")
    /\ Goto(IF processed >= fed THEN "clear" ELSE reader.home)
    /\ UNCHANGED <<fed, processed, timer, toChild, consumed, child, records,
                   writeError, faulted,
                   feeder, final, emitted, status, reason, waits>>

Clear ==
    /\ Running /\ At("clear")
    /\ timer' = Off
    /\ Goto(reader.home)
    /\ UNCHANGED <<fed, processed, toChild, consumed, child, records, writeError, faulted,
                   feeder, final, emitted, status, reason, waits>>

-----------------------------------------------------------------------------
(* finish                                                                   *)

FinishBegin ==
    /\ Running /\ At("idle") /\ ~Finishing /\ feeder = "idle"
    /\ reader' = [at |-> "finishing", home |-> "finishing"]
    /\ IF writeError
       THEN Fail("write") /\ UNCHANGED toChild
       ELSE toChild' = Append(toChild, "finish") /\ StaysUp
    /\ UNCHANGED <<fed, processed, timer, consumed, child, records,
                   writeError, faulted, feeder,
                   final, emitted, waits>>

FinishTimesOut ==
    /\ Running /\ At("finishing")
    /\ Fail("timeout")
    /\ UNCHANGED <<fed, processed, timer, toChild, consumed, child, records,
                   writeError, faulted,
                   feeder, reader, final, emitted, waits>>

\* _finalize: the clock is set to what was fed, and the final record must say
\* the same.
Finalize ==
    /\ Running /\ At("flushed")
    /\ processed' = fed
    /\ IF final = fed
       THEN status' = "finished" /\ timer' = Off /\ waits' = <<>> /\ UNCHANGED reason
       ELSE Fail("clock") /\ UNCHANGED <<timer, waits>>
    /\ UNCHANGED <<fed, toChild, consumed, child, records,
                   writeError, faulted, feeder, reader,
                   final, emitted>>

-----------------------------------------------------------------------------
Older(n) == IF n < Deadline THEN n + 1 ELSE n

Tick ==
    /\ Running
    /\ timer \in 1 .. Deadline \/ \E i \in 1 .. Len(waits) : waits[i] < Deadline
    /\ waits' = [i \in 1 .. Len(waits) |-> Older(waits[i])]
    /\ timer' = IF timer \in {Off, 0} THEN timer ELSE timer - 1
    /\ UNCHANGED <<fed, processed, toChild, consumed, child, records,
                   writeError, faulted, feeder,
                   reader, final, emitted, status, reason>>

FeedStep  == FeedHand \/ FeedCount \/ FeedArm
ChildStep == ChildFrame \/ ChildFinish \/ ChildStopFails \/ ChildDies
             \/ PostEof \/ StdoutThreadEnds \/ WriteBreaks
ReadStep  == ReadRaises \/ TakeEvent \/ TakeError \/ TakeFinal \/ TakeDone \/ TakeNothing
             \/ CheckEnded \/ CheckStalled \/ Rearm \/ Clear \/ Finalize

Next == FeedCheck \/ FeedStep \/ ChildStep \/ ReadStep \/ FinishBegin \/ FinishTimesOut \/ Tick

\* The owner keeps reading and time passes; the child need not do anything.
Fairness ==
    WF_vars(FeedStep) /\ WF_vars(ReadStep) /\ WF_vars(FinishTimesOut) /\ WF_vars(Tick)

-----------------------------------------------------------------------------
(* Safety.                                                                  *)

\* "Every fed sample is processed by the time the tail flushes": a finished
\* session accounts for every frame it accepted and has emitted every event.
FinishedIsComplete ==
    status = "finished" =>
        processed = fed /\ consumed = fed /\ emitted = fed

\* A child that acknowledges what it was handed and leaves when it is told to
\* never fails the session by its clocks, its records or its exit.
HonestChildAccepted ==
    ~faulted => reason \in {None, "stalled", "timeout"}

-----------------------------------------------------------------------------
(* Liveness.                                                                *)

\* A frame the child never acknowledges does not leave the session running.
StallIsNoticed ==
    (Running /\ waits # <<>>) ~> (status # "running" \/ waits = <<>>)

=============================================================================
