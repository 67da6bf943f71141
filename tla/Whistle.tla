------------------------------ MODULE Whistle -------------------------------
(* WhistleEngine.transcribe (core/whistle.py): a recording cut into windows,   *)
(* one native call for each and at most two more for the short gaps of its     *)
(* words, each call bounded and killed with its tree; a snapshot saved after   *)
(* each window, and a later run that takes it up.                              *)
(*                                                                            *)
(* The engine is external: it hears every occurrence whose middle is in the    *)
(* clip, with the times it estimates, which differ between two calls; it may   *)
(* skip a word it should have heard, and fail in every way a child can.        *)
EXTENDS WhistleWords

CONSTANTS
    Recordings,     \* what may be spoken: sequences of [tok, start, end]
    Jitters,        \* the errors of an estimate: pairs <<of start, of end>>
    MaxSkips,       \* bound: words an answer leaves out although it heard them
    MaxRuns         \* bound: runs

\* A recording says words, at some time; an estimate is off by some time.
ASSUME RecordingsAssumption ==
    /\ \A r \in Recordings : r \in Seq([tok : STRING, start : Int, end : Int])
    /\ Jitters \subseteq Int \X Int

VARIABLES
    spoken,     \* what the recording says
    saved,      \* the snapshot the caller keeps
    me,         \* the run: where it is, and what it would lose by dying
    child,      \* its native child: "none", "running", "answered", "flooding"
                \* (its output passed the limit) or "failed"
    stop,       \* somebody asked the job to stop
    skips,      \* words left out so far
    runs        \* runs begun so far

vars == <<spoken, saved, me, child, stop, skips, runs>>

Fresh == [identity |-> "mine", completed |-> 0, segs |-> <<>>, seam |-> <<>>]
Foreign == [identity |-> "other", completed |-> 1, seam |-> <<>>,
            segs |-> <<<<[tok |-> "x", src |-> 0, start |-> 1, end |-> 4]>>>>]

\* `todo` is what the window owns and has not yet passed, `out` what it passed,
\* `parsed` what it heard and `found` what its gaps gave; `tries` counts the
\* gap calls of the window.
Idle == [pc |-> "idle", prog |-> Fresh, todo |-> <<>>, out |-> <<>>, parsed |-> <<>>,
         found |-> <<>>, tries |-> 0, answer |-> <<>>]

Stopped == {"idle", "done", "refused", "failed", "cancelled"}

Init ==
    /\ spoken \in Recordings
    /\ saved \in {Fresh, Foreign}
    /\ me = Idle /\ child = "none" /\ stop = FALSE /\ skips = 0 /\ runs = 0

Window == me.prog.completed + 1

(* The engine, from outside ***********************************************)

Heard(from, to) == {o \in DOMAIN spoken : /\ spoken[o].start + spoken[o].end >= 2 * from
                                          /\ spoken[o].start + spoken[o].end < 2 * to}

\* The estimates of one answer agree with the order of its words.
Orderly(raw) == \A i, j \in DOMAIN raw : i < j => /\ raw[i].start <= raw[j].start
                                                  /\ raw[i].end <= raw[j].end

Answers(from, to) ==
    UNION {LET at == ThoseAt([o \in DOMAIN spoken |-> o], S)
               word(o, by) == [tok |-> spoken[o].tok, src |-> o,
                               start |-> spoken[o].start - from + by[1],
                               end |-> spoken[o].end - from + by[2]]
               heard(by) == [n \in DOMAIN at |-> word(at[n], by[n])]
           IN  {heard(by) : by \in {f \in [DOMAIN at -> Jitters] : Orderly(heard(f))}}
           : S \in {T \in SUBSET Heard(from, to) :
                       Cardinality(Heard(from, to) \ T) <= MaxSkips - skips}}

(* The run ****************************************************************)

\* The recording is read, and a snapshot adopted or refused.
Begin ==
    /\ me.pc = "idle" /\ runs < MaxRuns
    /\ runs' = runs + 1
    /\ me' = IF saved = Fresh THEN [Idle EXCEPT !.pc = "window"]
             ELSE IF ValidProgress(saved, "mine")
             THEN [Idle EXCEPT !.pc = "window", !.prog = saved]
             ELSE [Idle EXCEPT !.pc = "refused"]
    /\ UNCHANGED <<spoken, saved, child, stop, skips>>

Leave(pc) == me' = [me EXCEPT !.pc = pc]

\* Every call starts with a look at the cancellation, and so does every window.
Spawn(pc) == IF stop THEN /\ Leave("cancelled") /\ UNCHANGED child
             ELSE Leave(pc) /\ child' = "running"

StartWindow ==
    /\ me.pc = "window" /\ Window \in Windows
    /\ Spawn("call")
    /\ UNCHANGED <<spoken, saved, stop, skips, runs>>

\* The clip a call is given: the window's, or the gap between two words.
Left == IF me.out # <<>> THEN me.out[Len(me.out)]
        ELSE IF me.prog.segs # <<>>
        THEN LET seg == me.prog.segs[Len(me.prog.segs)] IN seg[Len(seg)]
        ELSE [tok |-> "", src |-> 0, start |-> 0, end |-> 0]
HasLeft == me.out # <<>> \/ me.prog.segs # <<>>
Right == me.todo[1]

From == IF me.pc = "call" THEN ClipStart(Window) ELSE Larger(0, Left.start - 2)
To == IF me.pc = "call" THEN ClipEnd(Window) ELSE Smaller(Duration, Right.end + 2)

Calling == me.pc \in {"call", "gapcall"}

\* The child ends, or floods its output.
ChildAnswers ==
    /\ Calling /\ child = "running"
    /\ \E raw \in Answers(From, To) :
          /\ me' = [me EXCEPT !.answer = raw]
          /\ skips' = skips + Cardinality(Heard(From, To)) - Len(raw)
    /\ child' = "answered"
    /\ UNCHANGED <<spoken, saved, stop, runs>>

ChildMisbehaves ==
    /\ Calling /\ child = "running"
    /\ child' \in {"flooding", "failed"}
    /\ UNCHANGED <<spoken, saved, me, stop, skips, runs>>

\* The poll of a child that has not ended: cancelled first, then flooded, then
\* past the deadline; each kills the tree.
Kill == child' = "none"

StopCall ==
    /\ Calling /\ child \in {"running", "flooding"} /\ stop
    /\ Leave("cancelled") /\ Kill
    /\ UNCHANGED <<spoken, saved, stop, skips, runs>>

\* (mutant: the wait for the child has no deadline)
AbandonFlooded ==
    /\ Calling /\ child = "flooding" /\ ~stop
    /\ Leave("failed") /\ Kill
    /\ UNCHANGED <<spoken, saved, stop, skips, runs>>

AbandonCall ==
    /\ Calling /\ child \in {"running", "flooding"} /\ ~stop
    /\ Leave("failed") /\ Kill
    /\ UNCHANGED <<spoken, saved, stop, skips, runs>>

\* A nonzero exit, or an answer that is not one object of words; no call is
\* made twice.
CallFailed ==
    /\ Calling
    /\ \/ child = "failed"
       \/ child = "answered" /\ me.pc = "call" /\ Unusable(me.answer, From, To)
       \/ child = "answered" /\ me.pc = "gapcall" /\ Defective(me.answer, From, To)
    /\ Leave("failed") /\ Kill
    /\ UNCHANGED <<spoken, saved, stop, skips, runs>>

\* The window's words are placed, and those it owns are next.
TakeAnswer ==
    /\ me.pc = "call" /\ child = "answered" /\ ~Unusable(me.answer, From, To)
    /\ LET parsed == ParseWords(me.answer, From, To)
       IN  me' = [me EXCEPT !.pc = "gaps", !.parsed = parsed, !.answer = <<>>,
                            !.todo = Owned(Window, me.prog.seam, parsed)]
    /\ child' = "none"
    /\ UNCHANGED <<spoken, saved, stop, skips, runs>>

(* Short gaps *************************************************************)

MaxTries == 2

GapIsShort == /\ HasLeft /\ me.tries < MaxTries
              /\ Right.start - Left.end \in 16..44
              /\ Smaller(Duration, Right.end + 2) - Larger(0, Left.start - 2) <= MaxClip

PassWord ==
    /\ me.pc = "gaps" /\ me.todo # <<>> /\ ~GapIsShort
    /\ me' = [me EXCEPT !.out = Append(@, Right), !.todo = Tail(@)]
    /\ UNCHANGED <<spoken, saved, child, stop, skips, runs>>

StartGapCall ==
    /\ me.pc = "gaps" /\ me.todo # <<>> /\ GapIsShort
    /\ Spawn("gapcall")
    /\ UNCHANGED <<spoken, saved, stop, skips, runs>>

\* The nearest word of the gap's answer that is the target heard again; none
\* is 0.
Anchor(target, words) ==
    LET near == {i \in DOMAIN words : /\ words[i].tok = target.tok
                                      /\ Gap(words[i].end, target.end) <= 3
                                      /\ Gap(words[i].start, target.start) <= 4}
    IN  IF near = {} THEN 0
        ELSE CHOOSE i \in near : \A j \in near \ {i} :
                \/ Distance(words[i], target) < Distance(words[j], target)
                \/ Distance(words[i], target) = Distance(words[j], target) /\ i < j

\* The words between the two anchors that lie in the gap.
Additions(words) ==
    LET a == Anchor(Left, words)
        b == Anchor(Right, words)
        inGap(w) == /\ w.start >= Left.start
                    /\ w.start + w.end >= 2 * Left.end /\ w.start + w.end <= 2 * Right.start
    IN  IF a # 0 /\ a < b THEN ThoseAt(words, {i \in (a + 1)..(b - 1) : inGap(words[i])})
        ELSE <<>>

TakeGapAnswer ==
    /\ me.pc = "gapcall" /\ child = "answered"
    /\ ~Defective(me.answer, From, To)
    /\ LET more == Additions(ParseWords(me.answer, From, To))
       IN  me' = [me EXCEPT !.pc = "gaps", !.tries = @ + 1, !.answer = <<>>,
                            !.out = (@ \o more) \o <<Right>>, !.todo = Tail(@),
                            !.found = @ \o more]
    /\ child' = "none"
    /\ UNCHANGED <<spoken, saved, stop, skips, runs>>

(* The end of a window ****************************************************)

Earlier(v, w) == v.start < w.start \/ (v.start = w.start /\ v.end <= w.end)

\* A word is put behind those that are not later.
Sorted(words) ==
    LET upTo[i \in 0..Len(words)] ==
            IF i = 0 THEN <<>>
            ELSE LET before == {j \in DOMAIN upTo[i - 1] : Earlier(upTo[i - 1][j], words[i])}
                 IN  InsertAt(upTo[i - 1], Cardinality(before) + 1, words[i])
    IN  upTo[Len(words)]

SeamWords(k, words) ==
    LET sorted == Sorted(words)
    IN  ThoseAt(sorted, {i \in DOMAIN sorted : sorted[i].end >= CoreEnd(k) - Context})

\* The progress after window k, which kept `words`, heard `parsed` and whose
\* gaps gave `found`.
After(k, words, parsed, found) ==
    LET floor == IF me.prog.segs # <<>>
                 THEN LET seg == me.prog.segs[Len(me.prog.segs)] IN seg[Len(seg)].start
                 ELSE 0
    IN  [identity |-> "mine", completed |-> k,
         segs |-> me.prog.segs \o SegmentWords(MoveForward(words, floor)),
         seam |-> SeamWords(k, parsed \o found)]

\* The window is committed and the snapshot given to the caller, who saves it.
CommitWindow ==
    /\ me.pc = "gaps" /\ me.todo = <<>>
    /\ LET prog == After(Window, me.out, me.parsed, me.found)
       IN  /\ me' = [Idle EXCEPT !.pc = "window", !.prog = prog]
           /\ saved' = prog
    /\ UNCHANGED <<spoken, child, stop, skips, runs>>

Finish ==
    /\ me.pc = "window" /\ Window \notin Windows
    /\ Leave("done")
    /\ UNCHANGED <<spoken, saved, child, stop, skips, runs>>

(* Around the run *********************************************************)

Cancel ==
    /\ me.pc \notin Stopped /\ ~stop
    /\ stop' = TRUE
    /\ UNCHANGED <<spoken, saved, me, child, skips, runs>>

\* The process dies at any step; its child ends by itself.
Crash ==
    /\ me.pc \notin Stopped
    /\ me' = Idle /\ child' = "none" /\ stop' = FALSE
    /\ UNCHANGED <<spoken, saved, skips, runs>>

\* The caller runs the job again.
Again ==
    /\ me.pc \in {"failed", "cancelled"} /\ runs < MaxRuns
    /\ me' = Idle /\ stop' = FALSE
    /\ UNCHANGED <<spoken, saved, child, skips, runs>>

Poll == StopCall \/ AbandonCall \/ CallFailed

Next ==
    \/ Begin \/ StartWindow \/ ChildAnswers \/ ChildMisbehaves \/ Poll \/ TakeAnswer
    \/ PassWord \/ StartGapCall \/ TakeGapAnswer \/ CommitWindow \/ Finish
    \/ Cancel \/ Crash \/ Again

\* A call is polled while it lasts, and its deadline comes.
Spec == Init /\ [][Next]_vars /\ WF_vars(Poll)

(* Properties *************************************************************)

Transcript == FlattenSeq(me.prog.segs)
Copies(o) == {i \in DOMAIN Transcript : Transcript[i].src = o}
SpokenOnce(o) == \A q \in DOMAIN spoken \ {o} : spoken[q].tok # spoken[o].tok

\* A word spoken once is in the finished transcript once, or not at all if an
\* answer skipped it: two windows that hear it on both sides of their boundary
\* neither keep it both nor leave it to each other, wherever the job was broken
\* off and taken up.  Nothing else is in it, not even what a snapshot of other
\* audio held.
EachWordOnce ==
    me.pc = "done" =>
        /\ \A o \in DOMAIN spoken :
              SpokenOnce(o) => Cardinality(Copies(o)) \in (IF skips > 0 THEN {0, 1} ELSE {1})
        /\ Copies(0) = {}

\* The transcript can be played: words start in the order they are given, last
\* some time, and end within the recording, although neighbouring words may
\* come from two answers that disagree.
PlayableInOrder ==
    \A i \in DOMAIN Transcript :
        /\ Transcript[i].start < Transcript[i].end /\ Transcript[i].end <= Duration
        /\ i > 1 => Transcript[i - 1].start <= Transcript[i].start

\* No child outlives its call: one that never ends is killed at the deadline,
\* one that writes without end when it passed the limit, and any of them when
\* the job is cancelled.
CallsEnd == child \in {"running", "flooding", "failed"} ~> child \in {"none", "answered"}

\* What a run saves for its resumption, it accepts.
OwnSnapshotAccepted == saved # Foreign => me.pc # "refused"
=============================================================================
