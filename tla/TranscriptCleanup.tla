-------------------------- MODULE TranscriptCleanup --------------------------
(* The optional proofreading of a finished transcript (ui/cleanup.py,          *)
(* CleanupService): one background run at a time, a sidecar database that      *)
(* outlives the process with one row per job, and a lease in the row that      *)
(* frees it when the process died.  A run asks a local model for one group of  *)
(* segments after the other, under a limit for all of them and one for each    *)
(* request; its result is saved by the job's name alone.                       *)
(*                                                                            *)
(* The clock counts ticks of about two hundred seconds, rounded up: requests   *)
(* are bounded by Request ticks, a whole run by Total, and what a row's        *)
(* deadline adds for the writes is Grace.                                      *)
EXTENDS Naturals, FiniteSets

CONSTANTS
    Procs,      \* the processes that serve this database's sidecar
    Jobs,       \* the finished jobs
    Total, Request, Grace,
    MaxText,    \* how often a job's transcript may change
    Horizon     \* the last tick

VARIABLES
    clock,
    text,       \* the version of each job's transcript
    row,        \* of each job: [hash, state, deadline, variant], or NoRow
    run         \* of each process: its run, or NoRun; it holds _flight meanwhile

vars == <<clock, text, row, run>>

NoRow == [hash |-> 0, state |-> "none", deadline |-> 0, variant |-> 0]
NoRun == [at |-> "idle", job |-> 0, hash |-> 0, deadline |-> 0, until |-> 0]

Lesser(a, b) == IF a < b THEN a ELSE b

Init ==
    /\ clock = 0
    /\ text = [j \in Jobs |-> 1]
    /\ row = [j \in Jobs |-> NoRow]
    /\ run = [p \in Procs |-> NoRun]

(* A run ********************************************************************)

\* (mutant: the lease covers the run's own limit, and not the request under way)
RunLimit == Total + Grace

\* How long a started row keeps other runs out.
Lease == Total + Request + Grace

\* The handler read the transcript before it asked Ollama for its models, so the
\* snapshot may be an earlier one.  The variant of an earlier run is kept.
Start(p, j, snapshot) ==
    /\ run[p] = NoRun
    /\ ~ \E k \in Jobs : row[k].state = "running" /\ row[k].deadline > clock
    /\ snapshot <= text[j]
    /\ row' = [row EXCEPT ![j] = [@ EXCEPT !.hash = snapshot, !.state = "running",
                                           !.deadline = clock + Lease]]
    /\ run' = [run EXCEPT ![p] = [at |-> "next", job |-> j, hash |-> snapshot,
                                  deadline |-> clock + Total, until |-> clock]]
    /\ UNCHANGED <<clock, text>>

\* A request may wait its timeout out twice: for the head of the answer, and, if
\* that came in time, for one more block of its body.
AskGroup(p) ==
    /\ run[p].at = "next" /\ clock < run[p].deadline
    /\ run' = [run EXCEPT ![p].at = "asking",
                          ![p].until = clock + 2 * Lesser(Request, run[p].deadline - clock)]
    /\ UNCHANGED <<clock, text, row>>

\* A whole and valid answer; then the next group, or the end.
TakeAnswer(p) ==
    /\ run[p].at = "asking"
    /\ \E at \in {"next", "corrected"} : run' = [run EXCEPT ![p].at = at, ![p].until = clock]
    /\ UNCHANGED <<clock, text, row>>

\* A refused connection, a timeout, an answer that does not validate, or a group
\* or an end after the run's deadline.
Failing(p) ==
    \/ run[p].at = "asking"
    \/ run[p].at = "next" /\ clock >= run[p].deadline
    \/ run[p].at = "corrected" /\ clock > run[p].deadline

\* The sidecar is written, or stays locked: the run ends in either case.
SaveError(p) ==
    /\ Failing(p)
    /\ run' = [run EXCEPT ![p] = NoRun]
    /\ row' \in {row, [row EXCEPT ![run[p].job].state = "error"]}
    /\ UNCHANGED <<clock, text>>

SaveVariant(p) ==
    /\ run[p].at = "corrected" /\ clock <= run[p].deadline
    /\ run' = [run EXCEPT ![p] = NoRun]
    /\ LET done == [row EXCEPT ![run[p].job] =
                       [@ EXCEPT !.state = "done", !.variant = run[p].hash]]
       IN  row' \in {row, done, [row EXCEPT ![run[p].job].state = "error"]}
    /\ UNCHANGED <<clock, text>>

(* The world ****************************************************************)

Crash(p) ==
    /\ run[p] # NoRun
    /\ run' = [run EXCEPT ![p] = NoRun]
    /\ UNCHANGED <<clock, text, row>>

ReviseText(j) ==
    /\ text[j] < MaxText
    /\ text' = [text EXCEPT ![j] = @ + 1]
    /\ UNCHANGED <<clock, row, run>>

\* Only a request takes time.
Tick ==
    /\ clock < Horizon
    /\ \A p \in Procs : run[p].at = "idle" \/ clock < run[p].until
    /\ clock' = clock + 1
    /\ UNCHANGED <<text, row, run>>

Next ==
    \/ \E p \in Procs :
          \/ \E j \in Jobs, snapshot \in 1..MaxText : Start(p, j, snapshot)
          \/ AskGroup(p) \/ TakeAnswer(p) \/ SaveError(p) \/ SaveVariant(p) \/ Crash(p)
    \/ \E j \in Jobs : ReviseText(j)
    \/ Tick

(* What a reader is told ****************************************************)

Answer(state, variant) == [state |-> state, variant |-> variant]

StateNow(j) ==
    IF row[j].state = "running" /\ row[j].deadline < clock THEN "error" ELSE row[j].state

\* (mutant: the kept variant is shown whichever text it corrects)
StatusOfRow(j) ==
    IF row[j] = NoRow THEN Answer("none", 0)
    ELSE IF row[j].hash # text[j] THEN Answer("stale", 0)
    ELSE Answer(StateNow(j), row[j].variant)

Status(j) ==
    IF row[j] = NoRow THEN Answer("none", 0)
    ELSE IF row[j].hash # text[j] THEN Answer("stale", 0)
    ELSE Answer(StateNow(j), IF row[j].variant = row[j].hash THEN row[j].variant ELSE 0)

(* Properties ***************************************************************)

\* Over all processes one run is under way, and until it ends the row it will
\* write is the one it opened: no later run has taken it meanwhile.
OneCleanupAtATime ==
    \A p \in Procs : run[p] # NoRun =>
        /\ \A q \in Procs : run[q] # NoRun => q = p
        /\ row[run[p].job].state = "running" /\ row[run[p].job].hash = run[p].hash

\* A correction that is shown, copied or downloaded is of the transcript that is
\* there now, though a new run keeps the old variant until it has its own; and
\* when a cleanup is said to be done there is one to show.
ShownIsOfThisText ==
    \A j \in Jobs :
        /\ Status(j).variant # 0 => Status(j).variant = text[j]
        /\ Status(j).state = "done" => Status(j).variant = text[j]
=============================================================================
