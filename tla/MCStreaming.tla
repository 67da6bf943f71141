---------------------------- MODULE MCStreaming -----------------------------
(* Live transcription for TLC, its layers side by side: the sessions of the    *)
(* core, the audio of one of them, one connection of the socket that drives    *)
(* it, the leases that bound the connections, and the text of one session.  A  *)
(* behaviour is a behaviour of one layer; the others stay as they begin.       *)
EXTENDS StreamingSession, Sequences

CONSTANTS
    MaxFrames, MaxQueue, MaxRecords, Deadline, Overlap,
    MaxInbox, MaxSent, CoreKeepsPromise,
    Connections, HandshakeLimit, TotalLimit,
    MaxChars, MaxWords, MaxEvents, MaxHistory, MaxSeq

\* A session has so many frames, so many of them unread, and its records so much
\* room.
ASSUME AudioAssumption == MaxFrames \in Nat /\ MaxQueue \in Nat /\ MaxRecords \in Nat

\* The text and its words have a budget, the queue and the window have room.
ASSUME TextAssumption ==
    /\ MaxChars \in Nat /\ MaxWords \in Nat
    /\ MaxEvents \in Nat \ {0} /\ MaxHistory \in Nat \ {0}

VARIABLES
    layer,
    fed, processed, timer, toChild, consumed, engine, faulted, records, writeError,
    feeder, reader, final, emitted, status, reason, waits,
    sent, received, held, gone, inbox, handler, session, process, starter, finisher,
    audio, answered,
    phase, handshakeLease, totalLease, handshaking, total, refusedAt,
    standing, finishing, taken, kept, chars, words, seq, history, oldest,
    queue, failure, waking, given

Layers == {"sessions", "audio", "connection", "limiter", "text"}

A == INSTANCE StreamingAudio WITH child <- engine

C == INSTANCE StreamingConnection WITH
         phase <- handler, child <- process, fed <- audio, final <- answered

L == INSTANCE ConnectionLimiter

T == INSTANCE StreamingText

audioVars == <<fed, processed, timer, toChild, consumed, engine, faulted, records,
               writeError, feeder, reader, final, emitted, status, reason, waits>>
connectionVars == <<sent, received, held, gone, inbox, handler, session, process,
                    starter, finisher, audio, answered>>
limiterVars == <<phase, handshakeLease, totalLease, handshaking, total, refusedAt>>
textVars == <<standing, finishing, taken, kept, chars, words, seq, history, oldest,
              queue, failure, waking, given>>
all == <<layer, vars, audioVars, connectionVars, limiterVars, textVars>>

AllInit == layer \in Layers /\ Init /\ A!Init /\ C!Init /\ L!Init /\ T!Init

AllNext ==
    /\ UNCHANGED layer
    /\ \/ /\ layer = "sessions" /\ Next
          /\ UNCHANGED <<audioVars, connectionVars, limiterVars, textVars>>
       \/ /\ layer = "audio" /\ A!Next
          /\ UNCHANGED <<vars, connectionVars, limiterVars, textVars>>
       \/ /\ layer = "connection" /\ C!Next
          /\ UNCHANGED <<vars, audioVars, limiterVars, textVars>>
       \/ /\ layer = "limiter" /\ L!Next
          /\ UNCHANGED <<vars, audioVars, connectionVars, textVars>>
       \/ /\ layer = "text" /\ T!Next
          /\ UNCHANGED <<vars, audioVars, connectionVars, limiterVars>>

AllSpec ==
    /\ AllInit /\ [][AllNext]_all
    /\ \/ layer = "sessions" /\ Fairness
       \/ layer = "audio" /\ A!Fairness
       \/ layer = "connection" /\ C!LoopRuns
       \/ layer \in {"limiter", "text"}

HonestChildAccepted == A!HonestChildAccepted
FinishedIsComplete == A!FinishedIsComplete
StallIsNoticed == A!StallIsNoticed
AudioAccountedFor == C!AudioAccountedFor
PromptRelease == C!PromptRelease
ConnectionEnds == C!ConnectionEnds \/ layer # "connection"
CountersMatchLeases == L!CountersMatchLeases
NoUnseenHole == T!NoUnseenHole
=============================================================================
