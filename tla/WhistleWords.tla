---------------------------- MODULE WhistleWords ----------------------------
(* What core/whistle.py computes on words between two calls of the engine:     *)
(* the windows a recording is cut into, the placing of an answer's words in    *)
(* absolute time, which window owns a word, the reconciliation of the two      *)
(* hearings of a shared context, the segments, and the check of a snapshot.    *)
(*                                                                            *)
(* Time is in ticks of a quarter second and the thresholds are the code's at   *)
(* that scale, so a comparison with 0.8 s becomes one with 3 ticks and an      *)
(* epsilon becomes none.  A repaired word lasts one tick instead of a           *)
(* millisecond.  A midpoint is compared by its double, start + end.            *)
EXTENDS Integers, Sequences, FiniteSets, SequencesExt, Functions

CONSTANTS
    Duration,   \* of the recording, in ticks
    Stops       \* the words that end a sentence

ASSUME DurationAssumption == Duration \in Nat \ {0}

MaxClip == 60
Context == 8
Core == MaxClip - 2 * Context
Repair == 1
Tolerance == 2
PauseSplit == 4
MaxSegment == 48
NearShift == 3
FarShift == 12

Smaller(a, b) == IF a < b THEN a ELSE b
Larger(a, b) == IF a > b THEN a ELSE b

(* The windows ***********************************************************)

\* The elements of s at some of its places, in their order.
ThoseAt(s, places) == FlattenSeq([i \in DOMAIN s |-> IF i \in places THEN <<s[i]>> ELSE <<>>])

Windows == 1..((Duration + Core - 1) \div Core)
LastWindow == (Duration + Core - 1) \div Core
CoreStart(k) == (k - 1) * Core
CoreEnd(k) == Smaller(k * Core, Duration)
ClipStart(k) == Larger(0, CoreStart(k) - Context)
ClipEnd(k) == Smaller(Smaller(Duration, CoreEnd(k) + Context), ClipStart(k) + MaxClip)

(* The words of one answer ************************************************)

\* A word of an answer, in time relative to its clip, reversed.
Reversed(w) == w.end < w.start

\* The word in absolute time, clamped to the clip and given a duration; or none,
\* when it lies outside the clip.
InReach(w, from, to) == w.start + from >= from - Tolerance /\ w.end + from <= to + Tolerance

Lengthened(w, from, to) ==
    IF w.end > w.start THEN <<w>>
    ELSE IF w.start + Repair <= to THEN <<[w EXCEPT !.end = w.start + Repair]>>
    ELSE IF w.end - Repair >= from THEN <<[w EXCEPT !.start = w.end - Repair]>>
    ELSE <<>>

PlaceWord(w, from, to) ==
    IF InReach(w, from, to)
    THEN Lengthened([w EXCEPT !.start = Larger(w.start + from, from),
                              !.end = Smaller(w.end + from, to)], from, to)
    ELSE <<>>

ParseWords(raw, from, to) == FlattenSeq([i \in DOMAIN raw |-> PlaceWord(raw[i], from, to)])

\* A word that ends before it starts is a defect of the answer, and so is an
\* answer of which no word is left: it is refused, and no word of it dropped.
Defective(raw, from, to) == \E i \in DOMAIN raw : InReach(raw[i], from, to) /\ Reversed(raw[i])

Unusable(raw, from, to) == \/ Defective(raw, from, to)
                           \/ raw # <<>> /\ ParseWords(raw, from, to) = <<>>

(* Ownership **************************************************************)

\* The places of the words whose midpoint is in the core of window k.
OwnInCore(k, words) ==
    {i \in DOMAIN words : /\ words[i].start + words[i].end >= 2 * CoreStart(k)
                          /\ \/ words[i].start + words[i].end < 2 * CoreEnd(k)
                             \/ k = LastWindow}

(* Two hearings of the context around a boundary **************************)

InContext(w, boundary) == w.end >= boundary - Context /\ w.start <= boundary + Context

Overlap(v, w) == Smaller(v.end, w.end) - Larger(v.start, w.start)
Gap(s, t) == Larger(s, t) - Smaller(s, t)
Apart(v, w) == <<Gap(v.start, w.start), Gap(v.end, w.end)>>
Distance(v, w) == Apart(v, w)[1] + Apart(v, w)[2]

Count(words, tok) == Cardinality({i \in DOMAIN words : words[i].tok = tok})
Collapsed(words, tok) ==
    Cardinality({i \in DOMAIN words : /\ words[i].tok = tok
                                      /\ words[i].end - words[i].start <= Repair})

\* Repetitions whose times were repaired tell nothing about who is who.
Ambiguous(tok, left, right) ==
    /\ Count(left, tok) # Count(right, tok)
    /\ Larger(Collapsed(left, tok), Collapsed(right, tok)) >= 2

SpansRepetitions(w, others) ==
    Cardinality({i \in DOMAIN others : others[i].tok = w.tok /\ Overlap(w, others[i]) > 0}) > 1

SameOccurrence(v, w, left, right) ==
    /\ v.tok = w.tok
    /\ ~SpansRepetitions(v, right) /\ ~SpansRepetitions(w, left)
    /\ ~Ambiguous(v.tok, left, right)
    /\ Smaller(Apart(v, w)[1], Apart(v, w)[2]) <= NearShift
    /\ Larger(Apart(v, w)[1], Apart(v, w)[2]) <= FarShift
    /\ Overlap(v, w) >= 0

\* An alignment names for each left word the right word it is matched with, or
\* the number past the last right word.
Matched(m, left, right) == {i \in DOMAIN left : m[i] <= Len(right)}

Alignments(left, right) ==
    {m \in [DOMAIN left -> 1..(Len(right) + 1)] :
        /\ \A i \in Matched(m, left, right) : SameOccurrence(left[i], right[m[i]], left, right)
        /\ \A i, j \in Matched(m, left, right) : i < j => m[i] < m[j]}

TotalDistance(m, left, right) ==
    FoldFunction(LAMBDA d, sum : d + sum, 0,
                 [i \in Matched(m, left, right) |-> Distance(left[i], right[m[i]])])

\* More pairs first, then the nearer ones; among equals the recursion of
\* `align` skips a left word where it can, else a right one.
Preferred(m, n, left, right) ==
    LET size(f) == Cardinality(Matched(f, left, right))
        far(f) == TotalDistance(f, left, right)
    IN  \/ size(m) > size(n)
        \/ size(m) = size(n) /\ far(m) < far(n)
        \/ /\ size(m) = size(n) /\ far(m) = far(n)
           /\ \E i \in DOMAIN m : m[i] > n[i] /\ \A j \in 1..(i - 1) : m[j] = n[j]

Align(left, right) ==
    LET all == Alignments(left, right)
    IN  CHOOSE m \in all : \A n \in all \ {m} : Preferred(m, n, left, right)

\* (mutant: a window keeps what its core owns, whatever the one before kept)
ReconcileByMidpoint(previous, current, boundary, owned) ==
    ThoseAt(current, owned)

\* What the window keeps of `current`, of which it owns the places `owned`: a
\* matched word iff the left hearing was not committed, in the left hearing's
\* time when the window did not own it; every other word by its midpoint.
ReconcileBoundary(previous, current, boundary, owned) ==
    LET inContext(words) == {i \in DOMAIN words : InContext(words[i], boundary)}
        left == ThoseAt(previous, inContext(previous))
        places == ThoseAt([j \in DOMAIN current |-> j], inContext(current))
        right == [n \in DOMAIN places |-> current[places[n]]]
        pairing == Align(left, right)
        pairs == {<<left[i], places[pairing[i]]>> : i \in Matched(pairing, left, right)}
        committed(w) == w.start + w.end < 2 * boundary
        copy(j) == (CHOOSE p \in pairs : p[2] = j)[1]
        kept(j) == IF \E p \in pairs : p[2] = j
                   THEN IF committed(copy(j)) THEN <<>>
                        ELSE IF j \in owned THEN <<current[j]>> ELSE <<copy(j)>>
                   ELSE IF j \in owned THEN <<current[j]>> ELSE <<>>
    IN  FlattenSeq([j \in DOMAIN current |-> kept(j)])

Owned(k, previous, current) ==
    LET own == OwnInCore(k, current)
    IN  IF k = 1
        THEN ThoseAt(current, own)
        ELSE ReconcileBoundary(previous, current, CoreStart(k), own)

\* (mutant: the starts of the words are compared within the window only)
MoveWithinWindow(words, floor) ==
    LET start[i \in 0..Len(words)] ==
            IF i = 0 THEN 0 ELSE Larger(start[i - 1], words[i].start)
    IN  [i \in DOMAIN words |-> [words[i] EXCEPT !.start = start[i],
                                    !.end = Larger(@, start[i] + Repair)]]

\* Starts never go back: a word that would is moved to the start before it.
MoveForward(words, floor) ==
    LET start[i \in 0..Len(words)] ==
            IF i = 0 THEN floor ELSE Larger(start[i - 1], words[i].start)
    IN  [i \in DOMAIN words |->
            IF words[i].start >= start[i - 1] THEN words[i]
            ELSE [words[i] EXCEPT !.start = start[i],
                    !.end = Smaller(Duration, Larger(words[i].end, start[i] + Repair))]]

\* The segments with one more word: sentence- or pause-sized runs of words, none
\* longer than MaxSegment.
Split(segs, w) ==
    LET now == segs[Len(segs)]
        fits == /\ w.start - now[Len(now)].end < PauseSplit
                /\ w.end - now[1].start <= MaxSegment
                /\ now[Len(now)].tok \notin Stops
    IN  IF segs # <<>> /\ fits THEN [segs EXCEPT ![Len(segs)] = Append(now, w)]
        ELSE Append(segs, <<w>>)

SegmentWords(words) ==
    LET upTo[i \in 0..Len(words)] == IF i = 0 THEN <<>> ELSE Split(upTo[i - 1], words[i])
    IN  upTo[Len(words)]

(* A stored snapshot *******************************************************)

SegStart(seg) == seg[1].start
SegEnd(seg) == seg[Len(seg)].end

WordsFit(words, from, to, limit) ==
    \A i \in DOMAIN words :
        /\ words[i].start >= 0 /\ words[i].end > words[i].start
        /\ words[i].start >= from - Tolerance /\ words[i].end <= to + Tolerance
        /\ i > 1 => words[i].start >= words[i - 1].start
        /\ limit > 0 => words[i].start + words[i].end <= 2 * limit

SegmentsFit(segs, limit) ==
    \A i \in DOMAIN segs :
        /\ SegStart(segs[i]) >= 0 /\ SegEnd(segs[i]) >= SegStart(segs[i])
        /\ SegEnd(segs[i]) <= Duration
        /\ i > 1 => SegStart(segs[i]) >= SegStart(segs[i - 1])
        /\ limit > 0 => SegStart(segs[i]) <= limit
        /\ WordsFit(segs[i], SegStart(segs[i]), SegEnd(segs[i]), limit)

SeamFits(words, k) ==
    /\ WordsFit(words, ClipStart(k), ClipEnd(k), 0)
    /\ \A i \in DOMAIN words : /\ words[i].start >= ClipStart(k) /\ words[i].end <= ClipEnd(k)
                               /\ words[i].end >= CoreEnd(k) - Context

\* What a run accepts of the progress it is given: of its own audio and
\* configuration, and of the completed windows.
ValidProgress(p, identity) ==
    /\ p.identity = identity
    /\ p.completed \in 0..LastWindow
    /\ p.completed = 0 => p.segs = <<>> /\ p.seam = <<>>
    /\ SegmentsFit(p.segs, IF p.completed = 0 THEN 0 ELSE CoreEnd(p.completed))
    /\ p.completed > 0 => SeamFits(p.seam, p.completed)
=============================================================================
