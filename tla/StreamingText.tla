---------------------------- MODULE StreamingText ----------------------------
(* What a live session keeps of the worker's events, and what its consumer is   *)
(* given (core/streaming.py): the canonical text with its budgets, the bounded  *)
(* queue read_event empties, and the bounded window a late consumer replays.    *)
(* The reader or finish works under _read_lock; cancel comes from another       *)
(* thread, and the record in hand is still dispatched after it.                 *)
EXTENDS Integers, SequencesExt

CONSTANTS
    MaxChars, MaxWords,     \* MAX_TRANSCRIPT_CHARS, MAX_TRANSCRIPT_WORDS
    MaxEvents,              \* MAX_EVENTS, the room of the queue
    MaxHistory,             \* MAX_HISTORY_EVENTS
    MaxSeq                  \* bound: events of a session

VARIABLES
    standing,   \* _state
    finishing,  \* finish holds the read lock
    taken,      \* the record read and not yet dispatched
    kept,       \* the sizes of what _committed_parts and _all_words hold, by event
    chars, words,           \* _committed_chars, _word_count
    seq,
    history, oldest,        \* _history (of seqs), _history_oldest_seq
    queue,
    failure,    \* _failure is set: every later read raises
    waking,     \* a cancel on its way to put its sentinel
    given       \* the events read_event returned

vars == <<standing, finishing, taken, kept, chars, words, seq, history, oldest,
          queue, failure, waking, given>>
accumulators == <<kept, chars, words, seq, history, oldest>>

\* valid: StreamEvent.from_record takes it, and a final has nothing pending.
Records ==
    [kind : {"event", "final"}, valid : {TRUE}, size : 0..2, words : 0..1]
    \cup [kind : {"event", "final"}, valid : {FALSE}, size : {0}, words : {0}]
NoRecord == [kind |-> "none", valid |-> FALSE, size |-> 0, words |-> 0]
Wake == -1      \* the seq of _SENTINEL

Init ==
    /\ standing = "running" /\ finishing = FALSE /\ taken = NoRecord
    /\ kept = << >> /\ chars = 0 /\ words = 0 /\ seq = 0
    /\ history = << >> /\ oldest = 0 /\ queue = << >>
    /\ failure = FALSE /\ waking = FALSE /\ given = << >>

LockFree == ~ finishing /\ taken = NoRecord

\* read_event with something queued; a sentinel is returned as nothing.
ReadQueued ==
    /\ LockFree /\ ~ failure /\ queue # << >>
    /\ queue' = Tail(queue)
    /\ given' = IF Head(queue) = Wake THEN given ELSE Append(given, Head(queue))
    /\ UNCHANGED <<standing, finishing, taken, accumulators, failure, waking>>

\* A live read reaches for the worker only when nothing is queued; the drain of
\* finish does not look, and reads on until the cancelled worker is gone.
ReadRecord(r) ==
    /\ taken = NoRecord /\ seq < MaxSeq
    /\ IF finishing
       THEN standing \in {"running", "cancelled"}
       ELSE ~ failure /\ queue = << >> /\ standing = "running" /\ r.kind = "event"
    /\ taken' = r
    /\ UNCHANGED <<standing, finishing, accumulators, queue, failure, waking, given>>

\* (mutant: the joining space is not counted)
AddedUnjoined(r) == r.size

\* A delta after the first is joined by a space.
Added(r) == r.size + (IF r.size > 0 /\ \E e \in Range(kept) : e.size > 0 THEN 1 ELSE 0)

OverBudget(r) == chars + Added(r) > MaxChars \/ words + r.words > MaxWords

\* Both budgets were checked before anything is changed.
Accumulate(r) ==
    /\ kept' = Append(kept, [size |-> r.size, words |-> r.words])
    /\ chars' = chars + Added(r)
    /\ words' = words + r.words
    /\ seq' = seq + 1

Remember ==
    LET window == Append(history, seq)
        full == Len(window) >= MaxHistory
        last == IF full THEN SubSeq(window, Len(window) - MaxHistory + 1, Len(window)) ELSE window
    IN  history' = last /\ oldest' = IF full THEN Head(last) ELSE oldest

HasRoom == Len(queue) < MaxEvents

\* _fail_and_release: the first terminal state stands, and only its maker wakes
\* the reader, if the queue has room.
Fail(sticky) ==
    /\ standing' = IF standing = "running" THEN "failed" ELSE standing
    /\ failure' = (failure \/ sticky)
    /\ queue' = IF standing = "running" /\ HasRoom THEN Append(queue, Wake) ELSE queue
    /\ finishing' = FALSE /\ taken' = NoRecord

\* _emit of an event that is refused for its shape or a budget.
RefuseEvent ==
    /\ taken.kind = "event" /\ (~ taken.valid \/ OverBudget(taken))
    /\ Fail(TRUE)
    /\ UNCHANGED <<accumulators, waking, given>>

\* _emit of an event that is taken; the queue may still refuse it.
EmitEvent ==
    /\ taken.kind = "event" /\ taken.valid /\ ~ OverBudget(taken)
    /\ Accumulate(taken) /\ Remember
    /\ IF HasRoom
       THEN /\ queue' = Append(queue, seq) /\ taken' = NoRecord
            /\ UNCHANGED <<standing, failure, finishing>>
       ELSE Fail(TRUE)
    /\ UNCHANGED <<waking, given>>

\* The worker ends or breaks under a live read, or stalls.
ReadFails ==
    /\ LockFree /\ standing = "running" /\ queue = << >> /\ Fail(TRUE)
    /\ UNCHANGED <<accumulators, waking, given>>

BeginFinish ==
    /\ LockFree /\ standing = "running" /\ finishing' = TRUE
    /\ UNCHANGED <<standing, taken, accumulators, queue, failure, waking, given>>

\* finish runs out of time, loses the worker, or is handed a final it refuses.
FinishFails ==
    /\ finishing
    /\ \/ taken = NoRecord
       \/ taken.kind = "final" /\ (~ taken.valid \/ OverBudget(taken))
    /\ Fail(FALSE)
    /\ UNCHANGED <<accumulators, waking, given>>

\* _finalize: a cancel that came first keeps its state, the event is recorded.
Finalize ==
    /\ taken.kind = "final" /\ taken.valid /\ ~ OverBudget(taken)
    /\ Accumulate(taken) /\ Remember
    /\ IF HasRoom
       THEN /\ queue' = Append(queue, seq)
            /\ standing' = IF standing = "cancelled" THEN standing ELSE "finished"
            /\ finishing' = FALSE /\ taken' = NoRecord
            /\ UNCHANGED failure
       ELSE Fail(FALSE)
    /\ UNCHANGED <<waking, given>>

\* cancel: the state at once, the sentinel when the worker was terminated.
Cancel ==
    /\ standing = "running" /\ standing' = "cancelled" /\ waking' = TRUE
    /\ UNCHANGED <<finishing, taken, accumulators, queue, failure, given>>

CancelWakes ==
    /\ waking /\ waking' = FALSE
    /\ queue' = IF HasRoom THEN Append(queue, Wake) ELSE queue
    /\ UNCHANGED <<standing, finishing, taken, accumulators, failure, given>>

Next ==
    \/ ReadQueued \/ RefuseEvent \/ EmitEvent \/ ReadFails
    \/ BeginFinish \/ FinishFails \/ Finalize \/ Cancel \/ CancelWakes
    \/ \E r \in Records : ReadRecord(r)

-----------------------------------------------------------------------------
\* events_since
EventsSince(k) ==
    LET upTo[i \in 0..Len(history)] ==
            IF i = 0 THEN << >>
            ELSE IF history[i] >= k THEN Append(upTo[i - 1], history[i])
            ELSE upTo[i - 1]
    IN  upTo[Len(history)]

Events(first, last) == [i \in 1..(last - first + 1) |-> first + i - 1]

\* The length of the kept deltas, joined: what committed_text returns.
TextLength ==
    LET parts == {i \in DOMAIN kept : kept[i].size > 0}
        letters == UNION {{i} \X (1..kept[i].size) : i \in parts}
    IN  Cardinality(letters) + (IF parts = {} THEN 0 ELSE Cardinality(parts) - 1)

\* A slow or late consumer never holds a text with a hole it cannot see: the
\* transcript is exactly as long as its budget was charged for; what was read and
\* what is queued, one sentinel left out, are all its events in order, the one a
\* full queue refused missing only when the session ended over it; and the replay window gives every
\* event from any sequence it does not declare expired.
NoUnseenHole ==
    LET reached == given \o RemoveFirst(queue, Wake)
    IN  /\ chars = TextLength /\ chars <= MaxChars /\ words <= MaxWords
        /\ \/ reached = Events(0, seq - 1)
           \/ standing \in {"failed", "cancelled"} /\ reached = Events(0, seq - 2)
        /\ \A k \in oldest..seq : EventsSince(k) = Events(k, seq - 1)
=============================================================================
