------------------------------ MODULE Decoding ------------------------------
(* The decode of a source to the audio a run transcribes (extract_audio of      *)
(* sources/acquire.py): ffmpeg writes into a pipe, a thread moves the pipe into *)
(* the file, and the caller polls both until the end, a stop asked by its job,  *)
(* a limit or a deadline.  ffmpeg is external: it may fail or hang at any       *)
(* point, and it ends well only when the whole source is out.                   *)
(*                                                                            *)
(* A chunk stands for what one read moves.  A child that was killed, and a      *)
(* reader at the end of its pipe, end within the five seconds of their join.    *)
EXTENDS Naturals

CONSTANTS
    MaxChunks,  \* what the limits on duration and size admit
    Longest,    \* the longest source
    Pipe,       \* what the pipe holds
    Absent

VARIABLES
    length,     \* the source
    caller,     \* the caller's place
    child,      \* "unborn", "running", or its end: "well", "badly"
    emitted, pipe,
    reader,     \* the thread's place
    failed,     \* `failures` is not empty
    out,        \* chunks in the file, or Absent
    stop, late  \* the job was cancelled; the deadline is over

vars == <<length, caller, child, emitted, pipe, reader, failed, out, stop, late>>

Init ==
    /\ length \in 0 .. Longest
    /\ caller = "asked" /\ child = "unborn" /\ reader = "unborn"
    /\ emitted = 0 /\ pipe = 0 /\ failed = FALSE
    /\ out = Absent
    /\ stop = FALSE /\ late = FALSE

Over == child \in {"well", "badly"}

(* ffmpeg and the world *****************************************************)

Emit ==
    /\ child = "running" /\ emitted < length /\ pipe < Pipe
    /\ emitted' = emitted + 1 /\ pipe' = pipe + 1
    /\ UNCHANGED <<length, caller, child, reader, failed, out, stop, late>>

Exit ==
    /\ child = "running"
    /\ \/ emitted = length /\ child' = "well"
       \/ child' = "badly"
    /\ UNCHANGED <<length, caller, emitted, pipe, reader, failed, out, stop, late>>

Cancel ==
    /\ stop' = TRUE
    /\ UNCHANGED <<length, caller, child, emitted, pipe, reader, failed, out, late>>

Deadline ==
    /\ child # "unborn" /\ late' = TRUE
    /\ UNCHANGED <<length, caller, child, emitted, pipe, reader, failed, out, stop>>

(* The thread that reads the pipe *******************************************)

ReaderFails ==
    /\ failed' = TRUE /\ reader' = "over"
    /\ UNCHANGED <<length, caller, child, emitted, stop, late>>

OpenFile ==
    /\ reader = "opening"
    /\ \/ /\ out' = 0 /\ reader' = "reading"
          /\ UNCHANGED <<length, caller, child, emitted, pipe, failed, stop, late>>
       \/ ReaderFails /\ UNCHANGED <<pipe, out>>

\* A chunk over a limit, and one the disk refuses, end the thread.
MoveChunk ==
    /\ reader = "reading" /\ pipe > 0
    /\ pipe' = pipe - 1
    /\ \/ /\ out < MaxChunks /\ out' = out + 1
          /\ UNCHANGED <<length, caller, child, emitted, reader, failed, stop, late>>
       \/ ReaderFails /\ UNCHANGED out

EndOfPipe ==
    /\ reader = "reading" /\ pipe = 0 /\ Over
    /\ reader' = "over"
    /\ UNCHANGED <<length, caller, child, emitted, pipe, failed, out, stop, late>>

(* The caller ***************************************************************)

CallerGoes(to) ==
    /\ caller' = to
    /\ UNCHANGED <<length, emitted, pipe, failed, out, stop, late>>

\* A stop before the launch, or a tool that does not start.
NotStarted ==
    /\ caller = "asked"
    /\ CallerGoes("raised") /\ UNCHANGED <<child, reader>>

Launch ==
    /\ caller = "asked" /\ ~ stop
    /\ CallerGoes("polling")
    /\ child' = "running" /\ reader' = "opening"

\* The loop goes on while the child runs or the thread lives.
Poll ==
    /\ caller = "polling"
    /\ CallerGoes(IF Over /\ reader = "over" THEN "joined" ELSE "checking")
    /\ UNCHANGED <<child, reader>>

Check ==
    /\ caller = "checking"
    /\ CallerGoes(IF stop \/ failed \/ late THEN "killing" ELSE "polling")
    /\ UNCHANGED <<child, reader>>

\* (mutant: the exit of the child alone decides, a failure of the thread that
\* came after the last check is not seen)
ConcludeByExit ==
    /\ caller = "joined"
    /\ CallerGoes(IF child # "well" \/ out = Absent THEN "killing" ELSE "returned")
    /\ UNCHANGED <<child, reader>>

\* After the loop: a failure of the thread first, then the exit of the child.
Conclude ==
    /\ caller = "joined"
    /\ CallerGoes(IF failed \/ child # "well" \/ out = Absent THEN "killing" ELSE "returned")
    /\ UNCHANGED <<child, reader>>

Kill ==
    /\ caller = "killing"
    /\ CallerGoes("reaping")
    /\ child' = IF child = "running" THEN "badly" ELSE child
    /\ UNCHANGED reader

\* After both joins the file goes, and the failure is raised.
Discard ==
    /\ caller = "reaping" /\ reader = "over"
    /\ caller' = "raised" /\ out' = Absent
    /\ UNCHANGED <<length, child, emitted, pipe, reader, failed, stop, late>>

Next ==
    \/ Emit \/ Exit \/ Cancel \/ Deadline
    \/ OpenFile \/ MoveChunk \/ EndOfPipe
    \/ NotStarted \/ Launch \/ Poll \/ Check \/ Conclude \/ Kill \/ Discard

-----------------------------------------------------------------------------
\* A decode that returns hands over the whole source, within the limits, whatever
\* the thread, the child and the caller saw in which order; one that raises leaves
\* neither a child nor a thread nor a piece of audio that a later stage could take.
WholeOrNothing ==
    /\ caller = "returned" =>
          out = length /\ length <= MaxChunks /\ Over /\ reader = "over"
    /\ caller = "raised" =>
          out = Absent /\ child # "running" /\ reader \in {"unborn", "over"}
=============================================================================
