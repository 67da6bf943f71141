--------------------------- MODULE Whistle_proofs ---------------------------
(***************************************************************************)
(* The words of a chunked recording can be played in order, whatever the   *)
(* engine answers, however the answers are paired, and wherever the job is *)
(* broken off and taken up.                                                *)
(*                                                                         *)
(* The operators on words are recursive functions; what they compute is    *)
(* proved by induction along a sequence (SequenceInduction).               *)
(*                                                                         *)
(* The inductive invariant says of every list of words a run holds that    *)
(* each word lasts some time within the recording (Playable), and of the   *)
(* segments that their words are ordered by their starts.                  *)
(***************************************************************************)
EXTENDS Whistle, SequenceInduction, FiniteSetTheorems

(* The elements of a sequence at some places ********************************)

\* What is chosen from a sequence is of the same set.
LEMMA ThoseAtType ==
    ASSUME NEW X, NEW s \in Seq(X), NEW places
    PROVE  ThoseAt(s, places) \in Seq(X)
<1> DEFINE one(i) == IF i \in places THEN <<s[i]>> ELSE <<>>
           q == [i \in DOMAIN s |-> one(i)]
<1>1. DOMAIN s = 1..Len(s) /\ Len(s) \in Nat /\ \A i \in 1..Len(s) : s[i] \in X
  OBVIOUS
<1>2. \A i \in 1..Len(s) : one(i) \in Seq(X)
  BY <1>1
<1>3. q \in Seq(Seq(X))
  <2> HIDE DEF one
  <2> QED
    BY <1>1, <1>2
<1> QED
  BY <1>3, FlattenType DEF ThoseAt

(* Words ********************************************************************)

\* A word that somebody spoke: only the snapshot of other audio has words of
\* source 0.
Word == [tok : STRING, src : Nat \ {0}, start : Int, end : Int]

\* A word that lasts some time, within the recording.
Playable == {w \in Word : 0 <= w.start /\ w.start < w.end /\ w.end <= Duration}

\* Every list of a run's words is made of such.
Words == Seq(Playable)

\* The clip of a window lies within the recording.
LEMMA ClipInRecording ==
    ASSUME NEW k \in Nat \ {0}
    PROVE  ClipStart(k) \in Nat /\ ClipEnd(k) \in Int /\ ClipEnd(k) <= Duration
BY DurationAssumption DEF ClipStart, ClipEnd, CoreStart, CoreEnd, Larger, Smaller,
                          Core, Context, MaxClip

\* Changing the times of a word gives a word.
LEMMA Retimed ==
    ASSUME NEW w \in Word, NEW a \in Int, NEW b \in Int
    PROVE  /\ [w EXCEPT !.start = a, !.end = b] \in Word
           /\ [w EXCEPT !.start = a, !.end = b].start = a
           /\ [w EXCEPT !.start = a, !.end = b].end = b
           /\ [w EXCEPT !.start = a] \in Word
           /\ [w EXCEPT !.start = a].start = a /\ [w EXCEPT !.start = a].end = w.end
           /\ [w EXCEPT !.end = b] \in Word
           /\ [w EXCEPT !.end = b].end = b /\ [w EXCEPT !.end = b].start = w.start
BY DEF Word

\* What is placed in a clip lasts some time and lies in the clip.
LEMMA PlacedType ==
    ASSUME NEW w \in Word, NEW from \in Nat, NEW to \in Int, to <= Duration
    PROVE  PlaceWord(w, from, to) \in Words
<1> DEFINE a == Larger(w.start + from, from)
           b == Smaller(w.end + from, to)
           v == [w EXCEPT !.start = a, !.end = b]
<1>1. a \in Int /\ a >= from /\ b \in Int /\ b <= to
  BY DEF Larger, Smaller, Word
<1> HIDE DEF a, b
<1>2. v \in Word /\ v.start = a /\ v.end = b
  <2>1. a \in Int /\ b \in Int
    BY <1>1
  <2> QED
    BY <2>1 DEF Word
<1> HIDE DEF v
<1>3. Lengthened(v, from, to) \in Words
  <2>1. CASE b > a
    <3>1. v \in Playable
      BY <2>1, <1>1, <1>2, DurationAssumption DEF Playable
    <3> QED
      BY <3>1, <2>1, <1>2 DEF Lengthened, Words
  <2>2. CASE b <= a /\ a + Repair <= to
    <3>1. a + 1 \in Int
      BY <1>1
    <3> DEFINE u == [v EXCEPT !.end = a + 1]
    <3>2. u \in Word /\ u.start = a /\ u.end = a + 1
      BY <3>1, <1>2 DEF Word
    <3> HIDE DEF u
    <3>3. u \in Playable
      BY <3>1, <3>2, <2>2, <1>1, DurationAssumption DEF Playable, Repair
    <3> QED
      BY <3>3, <2>2, <1>1, <1>2 DEF Lengthened, Words, Repair, u
  <2>3. CASE b <= a /\ ~(a + Repair <= to) /\ b - Repair >= from
    <3>1. b - 1 \in Int
      BY <1>1
    <3> DEFINE u == [v EXCEPT !.start = b - 1]
    <3>2. u \in Word /\ u.start = b - 1 /\ u.end = b
      BY <3>1, <1>2 DEF Word
    <3> HIDE DEF u
    <3>3. u \in Playable
      BY <3>1, <3>2, <2>3, <1>1, DurationAssumption DEF Playable, Repair
    <3> QED
      BY <3>3, <2>3, <1>1, <1>2 DEF Lengthened, Words, Repair, u
  <2>4. CASE b <= a /\ ~(a + Repair <= to) /\ ~(b - Repair >= from)
    BY <2>4, <1>1, <1>2 DEF Lengthened, Words
  <2> QED
    BY <2>1, <2>2, <2>3, <2>4, <1>1
<1> QED
  BY <1>3 DEF PlaceWord, Words, a, b, v

\* So do all words of a parsed answer.
LEMMA ParsedType ==
    ASSUME NEW raw \in Seq(Word), NEW from \in Nat, NEW to \in Int, to <= Duration
    PROVE  ParseWords(raw, from, to) \in Words
<1> DEFINE q == [i \in DOMAIN raw |-> PlaceWord(raw[i], from, to)]
<1>1. DOMAIN raw = 1..Len(raw) /\ Len(raw) \in Nat
  OBVIOUS
<1>2. \A i \in 1..Len(raw) : PlaceWord(raw[i], from, to) \in Words
  BY PlacedType
<1>3. q \in Seq(Seq(Playable))
  BY <1>1, <1>2 DEF Words
<1> HIDE DEF q
<1>4. FlattenSeq(q) \in Seq(Playable)
  BY <1>3, FlattenType
<1> QED
  BY <1>4 DEF ParseWords, Words, q

\* However the hearings of a shared context are paired, what a window keeps are
\* words one of them has.
LEMMA ReconciledType ==
    ASSUME NEW previous \in Words, NEW current \in Words, NEW boundary, NEW owned
    PROVE  ReconcileBoundary(previous, current, boundary, owned) \in Words
<1> DEFINE inContext(words) == {i \in DOMAIN words : InContext(words[i], boundary)}
           left == ThoseAt(previous, inContext(previous))
           places == ThoseAt([j \in DOMAIN current |-> j], inContext(current))
           right == [n \in DOMAIN places |-> current[places[n]]]
           pairing == Align(left, right)
           pairs == {<<left[i], places[pairing[i]]>> : i \in Matched(pairing, left, right)}
           committed(w) == w.start + w.end < 2 * boundary
           copy(j) == (CHOOSE p \in pairs : p[2] = j)[1]
           kept(j) == IF \E p \in pairs : p[2] = j
                      THEN IF committed(copy(j)) THEN <<>>
                           ELSE IF j \in owned THEN <<current[j]>> ELSE <<copy(j)>>
                      ELSE IF j \in owned THEN <<current[j]>> ELSE <<>>
           q == [j \in DOMAIN current |-> kept(j)]
<1>1. left \in Words
  BY ThoseAtType DEF Words
<1> HIDE DEF left, places, right, pairing
<1>2. \A p \in pairs : p[1] \in Playable
  <2>1. Matched(pairing, left, right) \subseteq 1..Len(left)
    BY <1>1 DEF Matched, Words
  <2>2. \A i \in 1..Len(left) : left[i] \in Playable
    BY <1>1 DEF Words
  <2> QED
    BY <2>1, <2>2
<1> HIDE DEF pairs
<1>3. \A j : (\E p \in pairs : p[2] = j) => copy(j) \in Playable
  BY <1>2
<1> HIDE DEF copy, committed
<1>4. DOMAIN current = 1..Len(current) /\ Len(current) \in Nat
  BY DEF Words
<1>5. \A j \in 1..Len(current) : current[j] \in Playable
  BY DEF Words
<1>6. \A j \in 1..Len(current) : kept(j) \in Seq(Playable)
  BY <1>3, <1>5
<1> HIDE DEF kept
<1>7. q \in Seq(Seq(Playable))
  BY <1>4, <1>6
<1> HIDE DEF q
<1>8. FlattenSeq(q) \in Seq(Playable)
  BY <1>7, FlattenType
<1>9. ReconcileBoundary(previous, current, boundary, owned) = FlattenSeq(q)
  BY DEF ReconcileBoundary, q, kept, copy, committed, pairs, pairing, right, places, left
<1> QED
  BY <1>8, <1>9 DEF Words

\* What a window owns are words.
LEMMA OwnedType ==
    ASSUME NEW k, NEW previous \in Words, NEW current \in Words
    PROVE  Owned(k, previous, current) \in Words
<1>1. ThoseAt(current, OwnInCore(k, current)) \in Words
  BY ThoseAtType DEF Words
<1>2. ReconcileBoundary(previous, current, CoreStart(k), OwnInCore(k, current)) \in Words
  BY ReconciledType
<1> QED
  BY <1>1, <1>2 DEF Owned

\* Words given in the order of their starts.
Ordered(words) == \A i \in 1..Len(words) : i > 1 => words[i - 1].start <= words[i].start

\* The starts that a word of the recording may have.
Starts == 0..(Duration - 1)

\* Moved forward, words are ordered from the floor on, and still playable.
LEMMA MovedForward ==
    ASSUME NEW words \in Words, NEW floor \in Starts
    PROVE  /\ MoveForward(words, floor) \in Words
           /\ Ordered(MoveForward(words, floor))
           /\ Len(MoveForward(words, floor)) = Len(words)
           /\ \A i \in 1..Len(words) : MoveForward(words, floor)[i].start >= floor
<1> DEFINE n == Len(words)
           step == [i \in 1..n |-> [s \in Starts |-> Larger(s, words[i].start)]]
           next(g) == [i \in 0..n |-> IF i = 0 THEN floor
                                      ELSE Larger(g[i - 1], words[i].start)]
           start == CHOOSE g : g = next(g)
           moved(i) == IF words[i].start >= start[i - 1] THEN words[i]
                       ELSE [words[i] EXCEPT !.start = start[i],
                               !.end = Smaller(Duration, Larger(words[i].end, start[i] + Repair))]
<1>1. /\ n \in Nat /\ DOMAIN words = 1..n /\ Duration \in Nat
      /\ \A i \in 1..n : words[i] \in Playable
  BY DurationAssumption DEF Words
<1>2. \A i \in 1..n : \A s \in Starts : Larger(s, words[i].start) \in Starts
  BY <1>1 DEF Playable, Starts, Larger, Word
<1>3. MoveForward(words, floor) = [i \in 1..n |-> moved(i)]
  BY <1>1 DEF MoveForward
<1> HIDE DEF n, moved
<1>4. start = next(start)
  <2>1. step \in Steps(Starts, n)
    BY <1>2 DEF Steps
  <2>2. Courses(Starts, n, floor, step) # {}
    <3> HIDE DEF step
    <3> QED
      BY <1>1, <2>1, StepByStep
  <2>3. PICK f \in [0..n -> Starts] : f[0] = floor /\ \A i \in 1..n : f[i] = step[i][f[i - 1]]
    <3> HIDE DEF step
    <3> QED
      BY <2>2 DEF Courses
  <2>4. \A i \in 1..n : i - 1 \in 0..n /\ f[i - 1] \in Starts
    BY <1>1, <2>3
  <2>5. \A i \in 1..n : f[i] = Larger(f[i - 1], words[i].start)
    BY <2>3, <2>4
  <2>6. f = next(f)
    BY <2>3, <2>5, <1>1
  <2> HIDE DEF next
  <2> QED
    BY <2>6
<1>5. start[0] = floor /\ \A i \in 1..n : start[i] = Larger(start[i - 1], words[i].start)
  <2> HIDE DEF start
  <2> QED
    BY <1>4, <1>1
<1> HIDE DEF start, next
<1>6. \A i \in 0..n : start[i] \in Starts
  <2> DEFINE P == {i \in 0..n : start[i] \in Starts}
  <2>1. 0 \in P
    BY <1>1, <1>5
  <2>2. ASSUME NEW i \in 1..n, i - 1 \in P PROVE i \in P
    BY <2>2, <1>1, <1>2, <1>5
  <2>3. 0..n \subseteq P
    <3> HIDE DEF P
    <3> QED
      BY <1>1, <2>1, <2>2, AlongASequence
  <2> QED
    BY <2>3
<1>7. \A i \in 1..n : /\ start[i] \in Starts /\ start[i - 1] \in Starts
                      /\ start[i] >= start[i - 1] /\ start[i] >= words[i].start
                      /\ words[i].start >= start[i - 1] => start[i] = words[i].start
  <2>1. \A i \in 1..n : i - 1 \in 0..n /\ i \in 0..n
    BY <1>1
  <2>2. \A i \in 1..n : words[i].start \in Int
    BY <1>1 DEF Playable, Word
  <2> QED
    BY <1>1, <1>5, <1>6, <2>1, <2>2 DEF Larger, Starts
<1>8. \A i \in 1..n : start[i] >= floor
  <2> DEFINE P == {i \in 0..n : start[i] >= floor}
  <2>1. 0 \in P
    BY <1>1, <1>5, <1>6 DEF Starts
  <2>2. ASSUME NEW i \in 1..n, i - 1 \in P PROVE i \in P
    BY <2>2, <1>1, <1>7 DEF Starts
  <2>3. 0..n \subseteq P
    <3> HIDE DEF P
    <3> QED
      BY <1>1, <2>1, <2>2, AlongASequence
  <2> QED
    BY <2>3, <1>1
<1>9. ASSUME NEW i \in 1..n
      PROVE  moved(i) \in Playable /\ moved(i).start = start[i]
  <2> DEFINE w == words[i]
             a == start[i]
             b == Smaller(Duration, Larger(w.end, a + Repair))
             v == [w EXCEPT !.start = a, !.end = b]
  <2>1. w \in Playable /\ w \in Word /\ a \in Int /\ a >= 0 /\ a < Duration
    BY <1>1, <1>7 DEF Playable, Starts
  <2>2. b \in Int /\ b > a /\ b <= Duration
    BY <2>1, <1>1 DEF Smaller, Larger, Repair, Word
  <2>3. CASE w.start >= start[i - 1]
    BY <2>1, <2>3, <1>7 DEF moved
  <2>4. CASE ~(w.start >= start[i - 1])
    <3>1. moved(i) = v
      BY <2>4 DEF moved
    <3> HIDE DEF a, b, w
    <3>2. a \in Int /\ b \in Int /\ w \in Word
      BY <2>1, <2>2
    <3>3. v \in Word /\ v.start = a /\ v.end = b
      BY <3>2 DEF Word
    <3> HIDE DEF v
    <3>4. v \in Playable
      BY <3>3, <2>1, <2>2, <1>1 DEF Playable
    <3> QED
      BY <3>1, <3>3, <3>4 DEF a
  <2> QED
    BY <2>3, <2>4
<1> DEFINE t == MoveForward(words, floor)
<1>10. t \in Words /\ Len(t) = n /\ \A i \in 1..n : t[i].start = start[i]
  BY <1>1, <1>3, <1>9 DEF Words
<1> HIDE DEF t
<1>11. Ordered(t)
  <2>1. ASSUME NEW i \in 1..n, i > 1 PROVE t[i - 1].start <= t[i].start
    <3>1. i - 1 \in 1..n
      BY <2>1, <1>1
    <3> QED
      BY <3>1, <1>7, <1>10 DEF Starts
  <2> QED
    BY <2>1, <1>10 DEF Ordered
<1> QED
  BY <1>8, <1>10, <1>11 DEF t, n

\* The segments of a progress: none is empty.
Segments == Seq({seg \in Words : seg # <<>>})

\* Segments are lists of lists of words.
LEMMA SegmentsAreLists ==
    ASSUME NEW segs \in Segments
    PROVE  /\ segs \in Seq(Seq(Playable)) /\ FlattenSeq(segs) \in Words
           /\ \A i \in 1..Len(segs) : segs[i] \in Words /\ segs[i] # <<>>
<1>1. segs \in Seq(Seq(Playable)) /\ \A i \in 1..Len(segs) : segs[i] \in Words /\ segs[i] # <<>>
  BY DEF Segments, Words
<1> QED
  BY <1>1, FlattenType DEF Words

LastWord(segs) == segs[Len(segs)][Len(segs[Len(segs)])]

\* The last word of the last segment is the last word of all.
LEMMA LastIsLast ==
    ASSUME NEW segs \in Segments, segs # <<>>
    PROVE  /\ FlattenSeq(segs) # <<>> /\ LastWord(segs) \in Playable
           /\ FlattenSeq(segs)[Len(FlattenSeq(segs))] = LastWord(segs)
<1> DEFINE seg == segs[Len(segs)]
           L == Seq(Playable)
           N == {s \in L : s # <<>>}
<1>1. PICK front \in Seq(N) : segs = Append(front, seg) /\ seg \in N
  <2>1. segs \in Seq(N)
    BY DEF Segments, Words
  <2> HIDE DEF N
  <2> QED
    BY <2>1, FrontAndLast
<1> HIDE DEF seg
<1>2. front \in Seq(L) /\ seg \in Seq(Playable) /\ seg # <<>>
  <2>1. N \subseteq L
    OBVIOUS
  <2>2. front \in Seq(L)
    <3> HIDE DEF N, L
    <3> QED
      BY <1>1, <2>1, SeqMonotonic
  <2> QED
    BY <1>1, <2>2
<1>3. FlattenSeq(segs) = FlattenSeq(front) \o seg /\ FlattenSeq(front) \in Seq(Playable)
  BY <1>1, <1>2, FlattenAppend, FlattenType
<1> DEFINE a == FlattenSeq(front)
<1> HIDE DEF a
<1>4. a \o seg # <<>> /\ (a \o seg)[Len(a \o seg)] = seg[Len(seg)] /\ seg[Len(seg)] \in Playable
  <2>1. a \in Seq(Playable) /\ Len(a) \in Nat /\ Len(seg) \in Nat \ {0}
    BY <1>2, <1>3 DEF a
  <2>2. /\ Len(a \o seg) = Len(a) + Len(seg)
        /\ \A i \in 1..(Len(a) + Len(seg)) :
              (a \o seg)[i] = IF i <= Len(a) THEN a[i] ELSE seg[i - Len(a)]
    BY <1>2, <2>1, ConcatProperties
  <2>3. Len(a) + Len(seg) \in 1..(Len(a) + Len(seg)) /\ ~(Len(a) + Len(seg) <= Len(a))
        /\ (Len(a) + Len(seg)) - Len(a) = Len(seg)
    BY <2>1
  <2>4. (a \o seg)[Len(a \o seg)] = seg[Len(seg)]
    BY <2>2, <2>3
  <2>5. seg[Len(seg)] \in Playable
    BY <1>2, <2>1
  <2>6. a \o seg # <<>>
    BY <2>1, <2>2
  <2> QED
    BY <2>4, <2>5, <2>6
<1> QED
  BY <1>3, <1>4 DEF a, seg, LastWord

\* One more word is one more word of the last segment or a segment of its own.
LEMMA SplitAdds ==
    ASSUME NEW segs \in Segments, NEW w \in Playable
    PROVE  /\ Split(segs, w) \in Segments
           /\ FlattenSeq(Split(segs, w)) = Append(FlattenSeq(segs), w)
<1> DEFINE L == Seq(Playable)
           N == {s \in L : s # <<>>}
           all == FlattenSeq(segs)
           seg == segs[Len(segs)]
<1>1. segs \in Seq(N) /\ segs \in Seq(L) /\ all \in L
  BY SegmentsAreLists DEF Segments, Words
<1>2. /\ Append(segs, <<w>>) \in Seq(N)
      /\ FlattenSeq(Append(segs, <<w>>)) = Append(all, w)
  <2>1. <<w>> \in L /\ <<w>> # <<>>
    OBVIOUS
  <2>2. Append(segs, <<w>>) \in Seq(N)
    <3>1. <<w>> \in N
      BY <2>1
    <3> HIDE DEF N
    <3> QED
      BY <1>1, <3>1
  <2>3. FlattenSeq(Append(segs, <<w>>)) = all \o <<w>>
    BY <1>1, <2>1, FlattenAppend
  <2> HIDE DEF all
  <2>4. all \o <<w>> = Append(all, w)
    BY <1>1
  <2> QED
    BY <2>2, <2>3, <2>4
<1>3. ASSUME segs # <<>>
      PROVE  /\ [segs EXCEPT ![Len(segs)] = Append(seg, w)] \in Seq(N)
             /\ FlattenSeq([segs EXCEPT ![Len(segs)] = Append(seg, w)]) = Append(all, w)
  <2> DEFINE longer == Append(seg, w)
             r == [segs EXCEPT ![Len(segs)] = longer]
             n == Len(segs)
  <2>1. PICK front \in Seq(N) : /\ segs = Append(front, seg) /\ Len(front) = n - 1
                                /\ seg \in N /\ n \in Nat \ {0}
    <3> HIDE DEF N
    <3> QED
      BY <1>1, <1>3, FrontAndLast
  <2> HIDE DEF seg
  <2>2. longer \in N
    BY <2>1
  <2> HIDE DEF longer
  <2>3. r \in Seq(N) /\ Len(r) = n /\ \A j \in 1..n : r[j] = IF j = n THEN longer ELSE segs[j]
    <3>1. n \in 1..Len(segs)
      BY <2>1
    <3> HIDE DEF N
    <3> QED
      BY <1>1, <2>2, <3>1, ExceptSeq
  <2>4. r = Append(front, longer)
    <3> DEFINE t == Append(front, longer)
               u == Append(front, seg)
    <3> HIDE DEF N, r
    <3>1. /\ t \in Seq(N) /\ Len(t) = n /\ t[n] = longer
          /\ \A j \in 1..(n - 1) : t[j] = front[j]
      BY <2>1, <2>2
    <3>2. \A j \in 1..(n - 1) : u[j] = front[j]
      BY <2>1
    <3> HIDE DEF t, u
    <3>3. \A j \in 1..(n - 1) : segs[j] = front[j]
      BY <2>1, <3>2 DEF u
    <3>4. \A j \in 1..n : r[j] = t[j]
      BY <2>1, <2>3, <3>1, <3>3
    <3>5. r = t
      BY <2>3, <3>1, <3>4, SeqEqual
    <3> QED
      BY <3>5 DEF t
  <2> HIDE DEF r
  <2>5. front \in Seq(L)
    <3>1. N \subseteq L
      OBVIOUS
    <3> HIDE DEF N, L
    <3> QED
      BY <2>1, <3>1, SeqMonotonic
  <2>6. seg \in L /\ longer \in L
    BY <2>1, <2>2
  <2>7. /\ FlattenSeq(r) = FlattenSeq(front) \o longer
        /\ all = FlattenSeq(front) \o seg
        /\ FlattenSeq(front) \in L
    <3>1. all = FlattenSeq(Append(front, seg))
      BY <2>1
    <3> QED
      BY <2>4, <2>5, <2>6, <3>1, FlattenAppend, FlattenType
  <2> DEFINE a == FlattenSeq(front)
  <2> HIDE DEF a, all
  <2>8. a \o Append(seg, w) = Append(a \o seg, w)
    <3>1. a \in Seq(Playable) /\ seg \in Seq(Playable)
      BY <2>6, <2>7 DEF a
    <3> HIDE DEF L, N
    <3> QED
      BY <3>1
  <2>9. FlattenSeq(r) = Append(all, w)
    BY <2>7, <2>8 DEF a, longer
  <2> QED
    BY <2>3, <2>9 DEF r, longer, n
<1>4. \/ Split(segs, w) = Append(segs, <<w>>)
      \/ segs # <<>> /\ Split(segs, w) = [segs EXCEPT ![Len(segs)] = Append(seg, w)]
  BY DEF Split
<1>5. Split(segs, w) \in Seq(N) /\ FlattenSeq(Split(segs, w)) = Append(all, w)
  <2> HIDE DEF N, all, seg
  <2> QED
    BY <1>2, <1>3, <1>4
<1> QED
  BY <1>5 DEF Segments, Words

\* The segments of some words are made of these words, in their order.
LEMMA SegmentsOf ==
    ASSUME NEW words \in Words
    PROVE  SegmentWords(words) \in Segments /\ FlattenSeq(SegmentWords(words)) = words
<1> DEFINE n == Len(words)
           step == [i \in 1..n |-> [s \in Segments |-> Split(s, words[i])]]
           next(g) == [i \in 0..n |-> IF i = 0 THEN <<>> ELSE Split(g[i - 1], words[i])]
           upTo == CHOOSE g : g = next(g)
           none == <<>>
<1>1. /\ n \in Nat /\ none \in Segments /\ \A i \in 1..n : words[i] \in Playable
  BY DEF Words, Segments
<1>2. SegmentWords(words) = upTo[n]
  BY DEF SegmentWords
<1>3. upTo = next(upTo)
  <2>1. step \in Steps(Segments, n)
    <3>1. \A i \in 1..n : \A s \in Segments : Split(s, words[i]) \in Segments
      BY <1>1, SplitAdds
    <3> HIDE DEF n
    <3> QED
      BY <3>1 DEF Steps
  <2>2. Courses(Segments, n, none, step) # {}
    <3> HIDE DEF step, n, none
    <3> QED
      BY <1>1, <2>1, StepByStep
  <2>3. PICK f \in [0..n -> Segments] : f[0] = none /\ \A i \in 1..n : f[i] = step[i][f[i - 1]]
    <3> HIDE DEF step, n, none
    <3> QED
      BY <2>2 DEF Courses
  <2> HIDE DEF n
  <2>4. \A i \in 1..n : i - 1 \in 0..n /\ f[i - 1] \in Segments
    BY <1>1, <2>3
  <2>5. \A i \in 1..n : f[i] = Split(f[i - 1], words[i])
    BY <2>3, <2>4
  <2>6. f = next(f)
    BY <2>3, <2>5, <1>1
  <2> HIDE DEF next
  <2> QED
    BY <2>6
<1>4. upTo[0] = <<>> /\ \A i \in 1..n : upTo[i] = Split(upTo[i - 1], words[i])
  <2> HIDE DEF upTo, n
  <2> QED
    BY <1>3, <1>1
<1> HIDE DEF upTo, next, step
<1> DEFINE front(i) == SubSeq(words, 1, i)
           P == {i \in 0..n : upTo[i] \in Segments /\ FlattenSeq(upTo[i]) = front(i)}
<1>5. 0 \in P
  <2>1. front(0) = <<>>
    BY SubSeqEmpty
  <2>2. FlattenSeq(<<>>) = <<>>
    <3>1. <<>> \in Seq(Seq(Playable))
      OBVIOUS
    <3> QED
      BY <3>1, FlattenType
  <2>3. upTo[0] = <<>> /\ 0 \in 0..n /\ <<>> \in Segments
    BY <1>1, <1>4
  <2> HIDE DEF front, n
  <2>4. FlattenSeq(upTo[0]) = front(0)
    BY <2>1, <2>2, <2>3
  <2>5. upTo[0] \in Segments
    BY <2>3
  <2> QED
    BY <2>3, <2>4, <2>5
<1>6. ASSUME NEW i \in 1..n, i - 1 \in P PROVE i \in P
  <2>1. upTo[i - 1] \in Segments /\ FlattenSeq(upTo[i - 1]) = front(i - 1)
    BY <1>6
  <2>2. words[i] \in Playable /\ upTo[i] = Split(upTo[i - 1], words[i]) /\ i \in 0..n
    BY <1>1, <1>4
  <2>3. upTo[i] \in Segments /\ FlattenSeq(upTo[i]) = Append(front(i - 1), words[i])
    <3> HIDE DEF front, P, n
    <3> QED
      BY <2>1, <2>2, SplitAdds
  <2>4. Append(front(i - 1), words[i]) = front(i)
    <3>1. words \in Seq(Playable) /\ 1 \in 1..n /\ i \in 1..n
      BY <1>1 DEF Words
    <3>2. SubSeq(words, 1, i) = SubSeq(words, 1, i - 1) \o <<words[i]>>
      BY <3>1, SubSeqRecursiveSecond
    <3>3. SubSeq(words, 1, i - 1) \in Seq(Playable)
      <4>1. 1 \in Int /\ i - 1 \in Int /\ \A j \in 1..(i - 1) : words[j] \in Playable
        BY <1>1
      <4> QED
        BY <4>1, SubSeqProperties
    <3> DEFINE t == SubSeq(words, 1, i - 1)
               w == words[i]
    <3> HIDE DEF t, w
    <3>4. t \o <<w>> = Append(t, w)
      <4>1. t \in Seq(Playable) /\ w \in Playable
        BY <3>3, <2>2 DEF t, w
      <4> QED
        BY <4>1
    <3> QED
      BY <3>2, <3>4 DEF t, w
  <2>5. FlattenSeq(upTo[i]) = front(i)
    BY <2>3, <2>4
  <2> HIDE DEF front
  <2> QED
    BY <2>2, <2>3, <2>5
<1>7. 0..n \subseteq P
  <2> HIDE DEF P, n
  <2> QED
    BY <1>1, <1>5, <1>6, AlongASequence
<1>8. upTo[n] \in Segments /\ FlattenSeq(upTo[n]) = front(n)
  <2>1. n \in P
    <3> HIDE DEF P, n
    <3> QED
      BY <1>1, <1>7
  <2> QED
    BY <2>1
<1>9. front(n) = words
  BY SubSeqFull DEF Words
<1> QED
  BY <1>2, <1>8, <1>9

\* A word put among others gives words.
LEMMA InsertedType ==
    ASSUME NEW words \in Words, NEW w \in Playable, NEW p \in 1..(Len(words) + 1)
    PROVE  InsertAt(words, p, w) \in Words
<1> DEFINE n == Len(words)
           a == SubSeq(words, 1, p - 1)
           b == SubSeq(words, p, n)
           c == <<w>>
<1>1. n \in Nat /\ p \in Int /\ p - 1 \in Int /\ n \in Int /\ 1 \in Int
  BY DEF Words
<1>2. \A i \in 1..n : words[i] \in Playable
  BY DEF Words
<1>3. (\A i \in 1..(p - 1) : words[i] \in Playable) /\ \A i \in p..n : words[i] \in Playable
  BY <1>1, <1>2
<1>4. a \in Seq(Playable) /\ b \in Seq(Playable)
  <2> HIDE DEF n
  <2> QED
    BY <1>1, <1>3, SubSeqProperties
<1>5. c \in Seq(Playable)
  OBVIOUS
<1>6. InsertAt(words, p, w) = a \o c \o b
  BY DEF InsertAt
<1> HIDE DEF a, b, c
<1>7. a \o c \in Seq(Playable)
  BY <1>4, <1>5, ConcatProperties
<1>8. (a \o c) \o b \in Seq(Playable)
  BY <1>4, <1>7, ConcatProperties
<1> QED
  BY <1>6, <1>8 DEF Words

\* The sorted words are words.
LEMMA SortedType ==
    ASSUME NEW words \in Words
    PROVE  Sorted(words) \in Words
<1> DEFINE n == Len(words)
           before(s, w) == {j \in DOMAIN s : Earlier(s[j], w)}
           put(s, w) == InsertAt(s, Cardinality(before(s, w)) + 1, w)
           step == [i \in 1..n |-> [s \in Words |-> put(s, words[i])]]
           next(g) == [i \in 0..n |-> IF i = 0 THEN <<>> ELSE put(g[i - 1], words[i])]
           upTo == CHOOSE g : g = next(g)
           none == <<>>
<1>1. /\ n \in Nat /\ none \in Words /\ \A i \in 1..n : words[i] \in Playable
  BY DEF Words
<1>2. ASSUME NEW s \in Words, NEW w \in Playable PROVE put(s, w) \in Words
  <2>1. DOMAIN s = 1..Len(s) /\ Len(s) \in Nat
    BY DEF Words
  <2>2. IsFiniteSet(1..Len(s)) /\ Cardinality(1..Len(s)) = Len(s)
    <3>1. 1 \in Int /\ Len(s) \in Int
      BY <2>1
    <3>2. /\ IsFiniteSet(1..Len(s))
          /\ Cardinality(1..Len(s)) = IF 1 > Len(s) THEN 0 ELSE Len(s) - 1 + 1
      BY <3>1, FS_Interval
    <3> QED
      BY <2>1, <3>2
  <2>3. before(s, w) \in SUBSET (1..Len(s))
    BY <2>1
  <2> DEFINE B == before(s, w)
  <2> HIDE DEF B
  <2>4. IsFiniteSet(B) /\ Cardinality(B) <= Len(s)
    BY <2>2, <2>3, FS_Subset DEF B
  <2>5. Cardinality(B) \in Nat
    BY <2>4, FS_CardinalityType
  <2>6. Cardinality(B) + 1 \in 1..(Len(s) + 1)
    BY <2>1, <2>4, <2>5
  <2>7. InsertAt(s, Cardinality(B) + 1, w) \in Words
    BY <2>6, InsertedType
  <2> QED
    BY <2>7 DEF B
<1>3. Sorted(words) = upTo[n]
  BY DEF Sorted
<1> HIDE DEF put
<1>4. upTo = next(upTo)
  <2>1. step \in Steps(Words, n)
    <3>1. \A i \in 1..n : \A s \in Words : put(s, words[i]) \in Words
      BY <1>1, <1>2
    <3> HIDE DEF n
    <3> QED
      BY <3>1 DEF Steps
  <2>2. Courses(Words, n, none, step) # {}
    <3> HIDE DEF step, n, none
    <3> QED
      BY <1>1, <2>1, StepByStep
  <2>3. PICK f \in [0..n -> Words] : f[0] = none /\ \A i \in 1..n : f[i] = step[i][f[i - 1]]
    <3> HIDE DEF step, n, none
    <3> QED
      BY <2>2 DEF Courses
  <2> HIDE DEF n
  <2>4. \A i \in 1..n : i - 1 \in 0..n /\ f[i - 1] \in Words
    BY <1>1, <2>3
  <2>5. \A i \in 1..n : f[i] = put(f[i - 1], words[i])
    BY <2>3, <2>4
  <2>6. f = next(f)
    BY <2>3, <2>5, <1>1
  <2> HIDE DEF next
  <2> QED
    BY <2>6
<1>5. upTo[0] = none /\ \A i \in 1..n : upTo[i] = put(upTo[i - 1], words[i])
  <2> HIDE DEF upTo, n
  <2> QED
    BY <1>4, <1>1
<1> HIDE DEF upTo, next, step, none, n
<1> DEFINE P == {i \in 0..n : upTo[i] \in Words}
<1>6. 0 \in P
  BY <1>1, <1>5
<1>7. ASSUME NEW i \in 1..n, i - 1 \in P PROVE i \in P
  <2>1. upTo[i - 1] \in Words /\ words[i] \in Playable /\ i \in 0..n
    BY <1>1, <1>7
  <2>2. upTo[i] \in Words
    BY <2>1, <1>2, <1>5
  <2> QED
    BY <2>1, <2>2
<1>8. 0..n \subseteq P
  <2> HIDE DEF P
  <2> QED
    BY <1>1, <1>6, <1>7, AlongASequence
<1>9. upTo[n] \in Words
  BY <1>1, <1>8
<1> QED
  BY <1>3, <1>9

\* The words kept for the next boundary are words.
LEMMA SeamType ==
    ASSUME NEW k, NEW words \in Words
    PROVE  SeamWords(k, words) \in Words
BY SortedType, ThoseAtType DEF SeamWords, Words

\* Ordered words behind ordered words are ordered when they start no earlier.
LEMMA OrderedConcat ==
    ASSUME NEW a \in Words, NEW b \in Words, Ordered(a), Ordered(b),
           a # <<>> /\ b # <<>> => a[Len(a)].start <= b[1].start
    PROVE  Ordered(a \o b)
<1> DEFINE m == Len(a)
           n == Len(b)
           c == a \o b
<1>1. m \in Nat /\ n \in Nat
  BY DEF Words
<1>2. /\ Len(c) = m + n
      /\ \A i \in 1..(m + n) : c[i] = IF i <= m THEN a[i] ELSE b[i - m]
  BY ConcatProperties DEF Words
<1>3. (m > 0 <=> a # <<>>) /\ (n > 0 <=> b # <<>>)
  BY DEF Words
<1> HIDE DEF c
<1>4. ASSUME NEW i \in 1..(m + n), i > 1 PROVE c[i - 1].start <= c[i].start
  <2>0. i - 1 \in 1..(m + n) /\ i \in 1..(m + n)
    BY <1>1, <1>4
  <2>1. CASE i <= m
    <3>1. c[i] = a[i] /\ c[i - 1] = a[i - 1] /\ i \in 1..m
      BY <2>0, <2>1, <1>1, <1>2
    <3> QED
      BY <3>1, <1>4 DEF Ordered
  <2>2. CASE i = m + 1
    <3>1. c[i] = b[1] /\ c[i - 1] = a[m] /\ m > 0 /\ n > 0
      BY <2>0, <2>2, <1>1, <1>2, <1>4
    <3> QED
      BY <3>1, <1>3
  <2>3. CASE i > m + 1
    <3> DEFINE j == i - m
    <3>1. c[i] = b[j] /\ c[i - 1] = b[j - 1] /\ j \in 1..n /\ j > 1
      BY <2>0, <2>3, <1>1, <1>2
    <3> HIDE DEF j
    <3> QED
      BY <3>1 DEF Ordered
  <2> QED
    BY <2>1, <2>2, <2>3, <1>1
<1> QED
  BY <1>2, <1>4 DEF Ordered, c

(* The invariant ************************************************************)

\* The progress of this job: what its segments say is ordered.
Progress == [identity : {"mine"}, completed : Nat, segs : Segments, seam : Words]

Playing(prog) == prog \in Progress /\ Ordered(FlattenSeq(prog.segs))

Pcs == {"window", "call", "gaps", "gapcall"} \cup Stopped

Run == [pc : Pcs, prog : Progress, todo : Words, out : Words, parsed : Words,
        found : Words, tries : Nat, answer : Seq(Word)]

\* Every list a run holds is made of playable words, its progress is ordered,
\* and what the caller keeps is such a progress, or that of other audio.
WhistleInv ==
    /\ spoken \in Recordings
    /\ me \in Run
    /\ Playing(me.prog)
    /\ me.pc = "gapcall" => me.todo # <<>>
    /\ saved # Foreign => Playing(saved)

\* The parts of a run.
LEMMA RunParts ==
    ASSUME NEW r \in Run
    PROVE  /\ r.todo \in Words /\ r.out \in Words /\ r.parsed \in Words /\ r.found \in Words
           /\ r.tries \in Nat /\ r.answer \in Seq(Word) /\ r.prog \in Progress
           /\ r.prog.segs \in Segments /\ r.prog.seam \in Words /\ r.prog.completed \in Nat
BY DEF Run, Progress

\* A list of words, and its last or first.
LEMMA EndsOfWords ==
    ASSUME NEW words \in Words, words # <<>>
    PROVE  /\ words[Len(words)] \in Playable /\ words[1] \in Playable
           /\ Tail(words) \in Words
BY DEF Words

\* A job that has done nothing holds nothing.
LEMMA IdleIsARun == Idle \in Run /\ Fresh \in Progress /\ Playing(Fresh)
<1>1. <<>> \in Words /\ <<>> \in Segments /\ <<>> \in Seq(Word)
  BY DEF Words, Segments
<1>2. Ordered(FlattenSeq(<<>>))
  <2>1. <<>> \in Seq(Seq(Playable))
    OBVIOUS
  <2>2. FlattenSeq(<<>>) = <<>>
    BY <2>1, FlattenType
  <2> QED
    BY <2>2 DEF Ordered
<1>3. Fresh \in Progress
  BY <1>1 DEF Fresh, Progress
<1>4. Playing(Fresh)
  BY <1>2, <1>3 DEF Fresh, Playing
<1>5. Idle \in Run
  <2> DEFINE F == Fresh
             E == <<>>
  <2>1. /\ F \in Progress /\ E \in Words /\ E \in Seq(Word)
        /\ Idle = [pc |-> "idle", prog |-> F, todo |-> E, out |-> E, parsed |-> E,
                   found |-> E, tries |-> 0, answer |-> E]
    BY <1>1, <1>3 DEF Idle
  <2> HIDE DEF F, E
  <2>2. [pc |-> "idle", prog |-> F, todo |-> E, out |-> E, parsed |-> E,
         found |-> E, tries |-> 0, answer |-> E] \in Run
    <3>1. F \in Progress /\ E \in Words /\ E \in Seq(Word)
      BY <2>1
    <3> DEFINE A == Seq(Word)
    <3> HIDE DEF A
    <3>2. E \in A
      BY <3>1 DEF A
    <3>3. [pc |-> "idle", prog |-> F, todo |-> E, out |-> E, parsed |-> E,
           found |-> E, tries |-> 0, answer |-> E]
             \in [pc : Pcs, prog : Progress, todo : Words, out : Words, parsed : Words,
                  found : Words, tries : Nat, answer : A]
      BY <3>1, <3>2 DEF Pcs, Stopped
    <3> QED
      BY <3>3 DEF A, Run
  <2> QED
    BY <2>1, <2>2
<1> QED
  BY <1>3, <1>4, <1>5

\* The invariant holds before the first run.
LEMMA WhistleInit == Init => WhistleInv
BY IdleIsARun DEF Init, WhistleInv, Run, Playing, Idle, Fresh

\* The clip of a call lies within the recording.
LEMMA ClipType ==
    ASSUME WhistleInv, Calling
    PROVE  From \in Nat /\ To \in Int /\ To <= Duration
<1>1. me \in Run /\ Duration \in Nat
  BY DurationAssumption DEF WhistleInv, Run
<1>2. CASE me.pc = "call"
  <2>1. Window \in Nat \ {0}
    BY <1>1, RunParts DEF Window
  <2> QED
    BY <1>2, <2>1, ClipInRecording DEF From, To
<1>3. CASE me.pc = "gapcall"
  <2>1. Right \in Playable
    BY <1>1, <1>3, RunParts, EndsOfWords DEF WhistleInv, Right
  <2>2. Left.start \in Int
    <3>1. CASE me.out # <<>>
      <4>1. Left \in Playable
        BY <3>1, <1>1, RunParts, EndsOfWords DEF Left
      <4> QED
        BY <4>1 DEF Playable, Word
    <3>2. CASE me.out = <<>> /\ me.prog.segs # <<>>
      <4>1. me.prog.segs \in Segments
        BY <1>1, RunParts
      <4>2. LastWord(me.prog.segs) \in Playable
        BY <3>2, <4>1, LastIsLast
      <4>3. Left = LastWord(me.prog.segs)
        BY <3>2 DEF Left, LastWord
      <4> QED
        BY <4>2, <4>3 DEF Playable, Word
    <3>3. CASE me.out = <<>> /\ me.prog.segs = <<>>
      BY <3>3 DEF Left
    <3> QED
      BY <3>1, <3>2, <3>3
  <2>3. Right.end \in Int
    BY <2>1 DEF Playable, Word
  <2>4. From = Larger(0, Left.start - 2) /\ To = Smaller(Duration, Right.end + 2)
    BY <1>3 DEF From, To
  <2> QED
    BY <1>1, <2>2, <2>3, <2>4 DEF Larger, Smaller
<1> QED
  BY <1>2, <1>3 DEF Calling

\* An answer of the engine is a list of words.
LEMMA AnswerType ==
    ASSUME spoken \in Recordings, NEW from \in Nat, NEW to \in Int,
           NEW raw \in Answers(from, to)
    PROVE  raw \in Seq(Word)
<1> DEFINE T == [tok : STRING, start : Int, end : Int]
           n == Len(spoken)
           places == [o \in DOMAIN spoken |-> o]
           word(o, by) == [tok |-> spoken[o].tok, src |-> o,
                           start |-> spoken[o].start - from + by[1],
                           end |-> spoken[o].end - from + by[2]]
<1>1. /\ n \in Nat /\ DOMAIN spoken = 1..n /\ Jitters \subseteq Int \X Int
      /\ \A o \in 1..n : spoken[o] \in T
  <2>1. spoken \in Seq(T) /\ Jitters \subseteq Int \X Int
    BY RecordingsAssumption
  <2> HIDE DEF T
  <2> QED
    BY <2>1
<1> DEFINE heard(S, by) == [i \in DOMAIN ThoseAt(places, S) |-> word(ThoseAt(places, S)[i], by[i])]
           Skipped(S) == Cardinality(Heard(from, to) \ S) <= MaxSkips - skips
<1>2. PICK S, by :
          /\ by \in [DOMAIN ThoseAt(places, S) -> Jitters]
          /\ raw = heard(S, by)
  <2>1. Answers(from, to)
          = UNION {{heard(S, by) : by \in {f \in [DOMAIN ThoseAt(places, S) -> Jitters] :
                                              Orderly(heard(S, f))}}
                   : S \in {U \in SUBSET Heard(from, to) : Skipped(U)}}
    BY DEF Answers
  <2> HIDE DEF heard, places, Skipped
  <2> QED
    BY <2>1
<1> DEFINE at == ThoseAt(places, S)
           Y == 1..n
<1>3. at \in Seq(Y)
  <2>1. places \in Seq(Y)
    BY <1>1
  <2> HIDE DEF places, Y
  <2> QED
    BY <2>1, ThoseAtType
<1> HIDE DEF at, places
<1>4. DOMAIN at = 1..Len(at) /\ Len(at) \in Nat /\ \A i \in 1..Len(at) : at[i] \in Y
  <2> HIDE DEF Y
  <2> QED
    BY <1>3
<1>5. ASSUME NEW o \in 1..n, NEW b \in Int \X Int PROVE word(o, b) \in Word
  <2>1. spoken[o].tok \in STRING /\ spoken[o].start \in Int /\ spoken[o].end \in Int
    BY <1>1
  <2>2. b[1] \in Int /\ b[2] \in Int /\ o \in Nat \ {0}
    BY <1>1
  <2>3. \A x, y \in Int : x - from + y \in Int
    OBVIOUS
  <2>4. spoken[o].start - from + b[1] \in Int /\ spoken[o].end - from + b[2] \in Int
    BY <2>1, <2>2, <2>3
  <2> QED
    BY <2>1, <2>2, <2>4 DEF Word
<1>6. by \in [1..Len(at) -> Jitters]
  BY <1>2, <1>4 DEF at
<1>7. \A i \in 1..Len(at) : word(at[i], by[i]) \in Word
  <2>1. \A i \in 1..Len(at) : at[i] \in 1..n /\ by[i] \in Int \X Int
    BY <1>1, <1>4, <1>6
  <2> HIDE DEF word, n
  <2> QED
    BY <2>1, <1>5
<1>8. raw = [i \in 1..Len(at) |-> word(at[i], by[i])]
  BY <1>2, <1>4 DEF at
<1> HIDE DEF word
<1> QED
  BY <1>4, <1>7, <1>8

\* A run that only moves on, or takes or drops an answer, keeps what it holds.
LEMMA RunUpdate ==
    ASSUME NEW r \in Run, NEW q, NEW pc \in Pcs, NEW raw \in Seq(Word),
           \/ q = [r EXCEPT !.pc = pc]
           \/ q = [r EXCEPT !.answer = raw]
    PROVE  q \in Run /\ q.prog = r.prog /\ q.todo = r.todo
           /\ (q = [r EXCEPT !.pc = pc] => q.pc = pc)
           /\ (q = [r EXCEPT !.answer = raw] => q.pc = r.pc)
<1> DEFINE A == Seq(Word)
<1> HIDE DEF A
<1>1. raw \in A /\ r \in [pc : Pcs, prog : Progress, todo : Words, out : Words, parsed : Words,
                          found : Words, tries : Nat, answer : A]
  BY DEF Run, A
<1>2. q \in [pc : Pcs, prog : Progress, todo : Words, out : Words, parsed : Words,
             found : Words, tries : Nat, answer : A]
  BY <1>1
<1> QED
  BY <1>1, <1>2 DEF Run, A

\* What a run in its other places may do is leave for another.
LEMMA LeaveKeeps ==
    ASSUME WhistleInv, NEW pc \in Pcs, Leave(pc), UNCHANGED <<spoken, saved>>,
           pc = "gapcall" => me.todo # <<>>
    PROVE  WhistleInv'
<1>1. <<>> \in Seq(Word) /\ me \in Run
  BY DEF WhistleInv
<1> DEFINE run == me
           next == me'
           none == <<>>
<1>2. run \in Run /\ none \in Seq(Word) /\ next = [run EXCEPT !.pc = pc]
  BY <1>1 DEF Leave
<1>3. next \in Run /\ next.prog = run.prog /\ next.todo = run.todo /\ next.pc = pc
  <2> HIDE DEF run, next, none
  <2> QED
    BY <1>2, RunUpdate
<1> QED
  BY <1>3 DEF WhistleInv

\* A run that has nothing begun starts from nothing.
LEMMA IdleKeeps ==
    ASSUME WhistleInv, me' = Idle, UNCHANGED <<spoken, saved>>
    PROVE  WhistleInv'
<1>1. me' \in Run /\ me'.prog = Fresh /\ me'.pc = "idle"
  BY IdleIsARun DEF Idle
<1>2. Playing(me'.prog)
  BY <1>1, IdleIsARun
<1> QED
  BY <1>1, <1>2 DEF WhistleInv

\* The progress of other audio is refused, so what is adopted can be played.
LEMMA BeginStep == ASSUME WhistleInv, Begin PROVE WhistleInv'
<1>1. Idle \in Run /\ Playing(Fresh) /\ Idle.prog = Fresh
  BY IdleIsARun DEF Idle
<1>2. me' \in Run /\ Playing(me'.prog) /\ me'.pc # "gapcall"
  <2>1. CASE me' = [Idle EXCEPT !.pc = "window"] \/ me' = [Idle EXCEPT !.pc = "refused"]
    <3>1. <<>> \in Seq(Word) /\ "window" \in Pcs /\ "refused" \in Pcs
      BY DEF Pcs, Stopped
    <3>2. me' \in Run /\ me'.prog = Fresh /\ me'.pc \in {"window", "refused"}
      <4> DEFINE none == <<>>
                 idle == Idle
                 next == me'
      <4> HIDE DEF none, idle, next
      <4>1. none \in Seq(Word) /\ idle \in Run /\ idle.prog = Fresh
        BY <3>1, <1>1 DEF none, idle
      <4>2. ASSUME NEW pc \in {"window", "refused"}, next = [idle EXCEPT !.pc = pc]
            PROVE  next \in Run /\ next.prog = Fresh /\ next.pc = pc
        <5>1. pc \in Pcs
          BY <4>2, <3>1
        <5> QED
          BY <4>1, <4>2, <5>1, RunUpdate
      <4> QED
        BY <2>1, <4>2 DEF idle, next
    <3> QED
      BY <3>2, <1>1
  <2>2. CASE ValidProgress(saved, "mine") /\ me' = [Idle EXCEPT !.pc = "window", !.prog = saved]
    <3>1. saved # Foreign
      BY <2>2 DEF ValidProgress, Foreign
    <3>2. Playing(saved) /\ saved \in Progress
      BY <3>1 DEF WhistleInv, Playing
    <3> DEFINE A == Seq(Word)
    <3> HIDE DEF A
    <3>3. Idle \in [pc : Pcs, prog : Progress, todo : Words, out : Words, parsed : Words,
                    found : Words, tries : Nat, answer : A]
      BY <1>1 DEF Run, A
    <3>4. me' \in [pc : Pcs, prog : Progress, todo : Words, out : Words, parsed : Words,
                   found : Words, tries : Nat, answer : A]
          /\ me'.prog = saved /\ me'.pc = "window"
      BY <2>2, <3>2, <3>3 DEF Pcs
    <3> QED
      BY <3>2, <3>4 DEF Run, A
  <2> QED
    BY <2>1, <2>2 DEF Begin
<1> QED
  BY <1>2 DEF WhistleInv, Begin

\* An answer arrives.
LEMMA AnswersStep == ASSUME WhistleInv, ChildAnswers PROVE WhistleInv'
<1>1. PICK raw \in Answers(From, To) : me' = [me EXCEPT !.answer = raw]
  BY DEF ChildAnswers
<1>2. From \in Nat /\ To \in Int
  BY ClipType DEF ChildAnswers
<1>3. raw \in Seq(Word)
  BY <1>1, <1>2, AnswerType DEF WhistleInv
<1>4. me \in Run /\ "idle" \in Pcs
  BY DEF WhistleInv, Pcs, Stopped
<1>5. me' \in Run /\ me'.prog = me.prog /\ me'.todo = me.todo /\ me'.pc = me.pc
  BY <1>1, <1>3, <1>4, RunUpdate
<1> QED
  BY <1>5 DEF WhistleInv, ChildAnswers

\* A window's words are placed and chosen.
LEMMA TakeAnswerStep == ASSUME WhistleInv, TakeAnswer PROVE WhistleInv'
<1> DEFINE parsed == ParseWords(me.answer, From, To)
           owned == Owned(Window, me.prog.seam, parsed)
           A == Seq(Word)
<1>1. me \in Run
  BY DEF WhistleInv
<1>2. parsed \in Words
  BY <1>1, ClipType, RunParts, ParsedType DEF TakeAnswer, Calling
<1> HIDE DEF parsed
<1>3. owned \in Words
  BY <1>1, <1>2, RunParts, OwnedType
<1> HIDE DEF owned
<1>4. me' = [me EXCEPT !.pc = "gaps", !.parsed = parsed, !.answer = <<>>, !.todo = owned]
  BY DEF TakeAnswer, parsed, owned
<1>5. <<>> \in A
  OBVIOUS
<1> HIDE DEF A
<1>6. me \in [pc : Pcs, prog : Progress, todo : Words, out : Words, parsed : Words,
              found : Words, tries : Nat, answer : A]
  BY <1>1 DEF Run, A
<1>7. /\ me' \in [pc : Pcs, prog : Progress, todo : Words, out : Words, parsed : Words,
                  found : Words, tries : Nat, answer : A]
      /\ me'.prog = me.prog /\ me'.pc = "gaps"
  BY <1>2, <1>3, <1>4, <1>5, <1>6 DEF Pcs
<1> QED
  BY <1>7 DEF WhistleInv, TakeAnswer, Run, A

\* A word is passed.
LEMMA PassStep == ASSUME WhistleInv, PassWord PROVE WhistleInv'
<1> DEFINE A == Seq(Word)
<1> HIDE DEF A
<1>1. me \in Run /\ me.todo # <<>>
  BY DEF WhistleInv, PassWord
<1>2. Right \in Playable /\ Tail(me.todo) \in Words
  BY <1>1, RunParts, EndsOfWords DEF Right
<1>3. Append(me.out, Right) \in Words
  BY <1>1, <1>2, RunParts DEF Words
<1>4. me' = [me EXCEPT !.out = Append(me.out, Right), !.todo = Tail(me.todo)]
  BY DEF PassWord
<1>5. me \in [pc : Pcs, prog : Progress, todo : Words, out : Words, parsed : Words,
              found : Words, tries : Nat, answer : A]
  BY <1>1 DEF Run, A
<1>6. /\ me' \in [pc : Pcs, prog : Progress, todo : Words, out : Words, parsed : Words,
                  found : Words, tries : Nat, answer : A]
      /\ me'.prog = me.prog /\ me'.pc = me.pc
  BY <1>2, <1>3, <1>4, <1>5
<1> QED
  BY <1>6 DEF WhistleInv, PassWord, Run, A

\* What a gap gave is put before the word behind it.
LEMMA GapAnswerStep == ASSUME WhistleInv, TakeGapAnswer PROVE WhistleInv'
<1> DEFINE A == Seq(Word)
           parsed == ParseWords(me.answer, From, To)
           more == Additions(parsed)
           out == (me.out \o more) \o <<Right>>
           found == me.found \o more
<1>1. me \in Run /\ me.todo # <<>>
  BY DEF WhistleInv, TakeGapAnswer
<1>2. parsed \in Words
  BY <1>1, ClipType, RunParts, ParsedType DEF TakeGapAnswer, Calling
<1> HIDE DEF parsed
<1>3. more \in Words
  <2>1. <<>> \in Words
    BY DEF Words
  <2> QED
    BY <1>2, <2>1, ThoseAtType DEF Additions, Words
<1> HIDE DEF more
<1>4. Right \in Playable /\ Tail(me.todo) \in Words
  BY <1>1, RunParts, EndsOfWords DEF Right
<1>5. out \in Words /\ found \in Words
  <2>1. me.out \in Seq(Playable) /\ me.found \in Seq(Playable) /\ more \in Seq(Playable)
    BY <1>1, <1>3, RunParts DEF Words
  <2>2. <<Right>> \in Seq(Playable)
    BY <1>4
  <2>3. me.out \o more \in Seq(Playable) /\ found \in Seq(Playable)
    BY <2>1, ConcatProperties
  <2> QED
    BY <2>2, <2>3, ConcatProperties DEF Words
<1> HIDE DEF out, found
<1>6. me' = [me EXCEPT !.pc = "gaps", !.tries = me.tries + 1, !.answer = <<>>,
                       !.out = out, !.todo = Tail(me.todo), !.found = found]
  BY DEF TakeGapAnswer, out, found, more, parsed
<1>7. <<>> \in A
  OBVIOUS
<1> HIDE DEF A
<1>8. me \in [pc : Pcs, prog : Progress, todo : Words, out : Words, parsed : Words,
              found : Words, tries : Nat, answer : A]
  BY <1>1 DEF Run, A
<1>9. /\ me' \in [pc : Pcs, prog : Progress, todo : Words, out : Words, parsed : Words,
                  found : Words, tries : Nat, answer : A]
      /\ me'.prog = me.prog /\ me'.pc = "gaps"
  <2>1. me.tries + 1 \in Nat /\ "gaps" \in Pcs
    BY <1>8 DEF Pcs
  <2> QED
    BY <1>4, <1>5, <1>6, <1>7, <1>8, <2>1
<1> QED
  BY <1>9 DEF WhistleInv, TakeGapAnswer, Run, A

\* The last start of a progress is one that a word may have.
LEMMA FloorType ==
    ASSUME NEW segs \in Segments
    PROVE  (IF segs # <<>> THEN LET seg == segs[Len(segs)] IN seg[Len(seg)].start ELSE 0)
              \in Starts
<1>1. 0 \in Starts /\ Duration \in Nat
  BY DurationAssumption DEF Starts
<1>2. CASE segs # <<>>
  <2>1. LastWord(segs) \in Playable
    BY <1>2, LastIsLast
  <2>2. LastWord(segs).start \in Starts
    BY <2>1, <1>1 DEF Playable, Word, Starts
  <2> QED
    BY <1>2, <2>2 DEF LastWord
<1> QED
  BY <1>1, <1>2

\* After a window the progress can be played: its words are moved to the last
\* start before them and cut into segments behind the others.
LEMMA AfterPlays ==
    ASSUME me \in Run, Playing(me.prog), NEW k \in Nat, NEW words \in Words,
           NEW parsed \in Words, NEW found \in Words
    PROVE  Playing(After(k, words, parsed, found))
<1> DEFINE segs == me.prog.segs
           floor == IF segs # <<>> THEN LET seg == segs[Len(segs)] IN seg[Len(seg)].start ELSE 0
           moved == MoveForward(words, floor)
           more == SegmentWords(moved)
           seam == SeamWords(k, parsed \o found)
           all == segs \o more
<1>1. segs \in Segments
  BY RunParts
<1>2. floor \in Starts
  <2> HIDE DEF segs
  <2> QED
    BY <1>1, FloorType
<1>3. segs # <<>> => floor = LastWord(segs).start
  BY DEF LastWord
<1>4. After(k, words, parsed, found)
        = [identity |-> "mine", completed |-> k, segs |-> all, seam |-> seam]
  BY DEF After
<1> HIDE DEF segs, floor
<1>5. /\ moved \in Words /\ Ordered(moved)
      /\ moved # <<>> => moved[1].start >= floor
  <2>1. /\ moved \in Words /\ Ordered(moved) /\ Len(moved) = Len(words)
        /\ \A i \in 1..Len(words) : moved[i].start >= floor
    BY <1>2, MovedForward
  <2> HIDE DEF moved
  <2>2. moved # <<>> => 1 \in 1..Len(moved)
    BY <2>1 DEF Words
  <2> QED
    BY <2>1, <2>2
<1> HIDE DEF moved
<1>6. more \in Segments /\ FlattenSeq(more) = moved
  BY <1>5, SegmentsOf
<1> HIDE DEF more
<1>7. seam \in Words
  <2>1. parsed \o found \in Words
    BY ConcatProperties DEF Words
  <2> QED
    BY <2>1, SeamType
<1> HIDE DEF seam
<1>8. all \in Segments
  <2> DEFINE N == {seg \in Words : seg # <<>>}
  <2>1. segs \in Seq(N) /\ more \in Seq(N)
    BY <1>1, <1>6 DEF Segments
  <2> HIDE DEF N
  <2>2. segs \o more \in Seq(N)
    BY <2>1, ConcatProperties
  <2> QED
    BY <2>2 DEF N, Segments
<1>9. Ordered(FlattenSeq(all))
  <2> DEFINE a == FlattenSeq(segs)
  <2>1. a \in Words /\ Ordered(a)
    BY <1>1, SegmentsAreLists DEF Playing, segs
  <2>2. a # <<>> => segs # <<>>
    <3>1. segs \in Seq(Seq(Playable))
      BY <1>1, SegmentsAreLists
    <3> QED
      BY <3>1, FlattenType
  <2>3. segs # <<>> => a[Len(a)].start = floor
    BY <1>1, <1>3, LastIsLast
  <2>4. FlattenSeq(all) = a \o moved
    <3>1. segs \in Seq(Seq(Playable)) /\ more \in Seq(Seq(Playable))
      BY <1>1, <1>6, SegmentsAreLists
    <3> QED
      BY <3>1, <1>6, FlattenConcat
  <2> HIDE DEF a
  <2>5. a # <<>> /\ moved # <<>> => a[Len(a)].start <= moved[1].start
    <3>1. ASSUME a # <<>>, moved # <<>> PROVE a[Len(a)].start <= moved[1].start
      <4>1. a[Len(a)].start = floor /\ moved[1].start >= floor
        BY <3>1, <1>5, <2>2, <2>3
      <4>2. floor \in Int /\ moved[1].start \in Int
        <5>1. moved[1] \in Playable
          BY <3>1, <1>5, EndsOfWords
        <5> QED
          BY <5>1, <1>2 DEF Starts, Playable, Word
      <4> QED
        BY <4>1, <4>2
    <3> QED
      BY <3>1
  <2>6. Ordered(a \o moved)
    BY <2>1, <2>5, <1>5, OrderedConcat
  <2> QED
    BY <2>4, <2>6
<1> HIDE DEF all
<1>10. [identity |-> "mine", completed |-> k, segs |-> all, seam |-> seam] \in Progress
  BY <1>7, <1>8 DEF Progress
<1> QED
  BY <1>4, <1>9, <1>10 DEF Playing

\* A window is committed.
LEMMA CommitStep == ASSUME WhistleInv, CommitWindow PROVE WhistleInv'
<1> DEFINE prog == After(Window, me.out, me.parsed, me.found)
           A == Seq(Word)
<1> HIDE DEF A
<1>1. me \in Run /\ Playing(me.prog)
  BY DEF WhistleInv
<1>2. Window \in Nat
  BY <1>1, RunParts DEF Window
<1>3. Playing(prog)
  BY <1>1, <1>2, RunParts, AfterPlays
<1>4. me' = [Idle EXCEPT !.pc = "window", !.prog = prog] /\ saved' = prog
  BY DEF CommitWindow
<1> HIDE DEF prog
<1>5. Idle \in [pc : Pcs, prog : Progress, todo : Words, out : Words, parsed : Words,
                found : Words, tries : Nat, answer : A]
  BY IdleIsARun DEF Run, A
<1>6. /\ me' \in [pc : Pcs, prog : Progress, todo : Words, out : Words, parsed : Words,
                  found : Words, tries : Nat, answer : A]
      /\ me'.prog = prog /\ me'.pc = "window"
  BY <1>3, <1>4, <1>5 DEF Pcs, Playing
<1> QED
  BY <1>3, <1>4, <1>6 DEF WhistleInv, CommitWindow, Run, A

\* Every step keeps the invariant.
LEMMA WhistleStep == ASSUME WhistleInv, [Next]_vars PROVE WhistleInv'
<1>1. CASE Begin
  BY <1>1, BeginStep
<1>2. CASE StartWindow
  <2>1. CASE stop
    BY <1>2, <2>1, LeaveKeeps DEF StartWindow, Spawn, Pcs, Stopped
  <2>2. CASE ~stop
    BY <1>2, <2>2, LeaveKeeps DEF StartWindow, Spawn, Pcs, Stopped
  <2> QED
    BY <2>1, <2>2
<1>3. CASE ChildAnswers
  BY <1>3, AnswersStep
<1>4. CASE ChildMisbehaves
  BY <1>4 DEF ChildMisbehaves, WhistleInv
<1>5. CASE Poll
  <2>1. /\ "cancelled" \in Pcs /\ "failed" \in Pcs
        /\ Leave("cancelled") \/ Leave("failed")
        /\ UNCHANGED <<spoken, saved>>
    BY <1>5 DEF Poll, StopCall, AbandonCall, CallFailed, Pcs, Stopped
  <2> QED
    BY <2>1, LeaveKeeps
<1>6. CASE TakeAnswer
  BY <1>6, TakeAnswerStep
<1>7. CASE PassWord
  BY <1>7, PassStep
<1>8. CASE StartGapCall
  <2>1. CASE stop
    BY <1>8, <2>1, LeaveKeeps DEF StartGapCall, Spawn, Pcs, Stopped
  <2>2. CASE ~stop
    BY <1>8, <2>2, LeaveKeeps DEF StartGapCall, Spawn, Pcs, Stopped
  <2> QED
    BY <2>1, <2>2
<1>9. CASE TakeGapAnswer
  BY <1>9, GapAnswerStep
<1>10. CASE CommitWindow
  BY <1>10, CommitStep
<1>11. CASE Finish
  BY <1>11, LeaveKeeps DEF Finish, Pcs, Stopped
<1>12. CASE Cancel
  BY <1>12 DEF Cancel, WhistleInv
<1>13. CASE Crash
  BY <1>13, IdleKeeps DEF Crash
<1>14. CASE Again
  BY <1>14, IdleKeeps DEF Again
<1>15. CASE UNCHANGED vars
  BY <1>15 DEF vars, WhistleInv
<1> QED
  BY <1>1, <1>2, <1>3, <1>4, <1>5, <1>6, <1>7, <1>8, <1>9, <1>10, <1>11, <1>12, <1>13,
     <1>14, <1>15 DEF Next

\* What a run holds is words of the recording, and its progress is in order.
THEOREM WhistleInvariant == Spec => []WhistleInv
BY WhistleInit, WhistleStep, PTL DEF Spec

\* The transcript of a chunked recording can be played: whatever the engine
\* hears, skips or fails, and wherever the job is broken off and taken up, its
\* words start in the order they are given, last some time and end within the
\* recording.
THEOREM TranscriptsPlay == Spec => []PlayableInOrder
<1>1. WhistleInv => PlayableInOrder
  <2>1. ASSUME WhistleInv PROVE PlayableInOrder
    <3>1. Transcript \in Words /\ Ordered(Transcript)
      BY <2>1, RunParts, SegmentsAreLists DEF WhistleInv, Playing, Transcript
    <3> DEFINE t == Transcript
    <3> HIDE DEF t
    <3>2. /\ DOMAIN t = 1..Len(t)
          /\ \A i \in 1..Len(t) : t[i] \in Playable
          /\ \A i \in 1..Len(t) : i > 1 => t[i - 1].start <= t[i].start
      BY <3>1 DEF t, Words, Ordered
    <3>3. \A i \in DOMAIN t : /\ t[i].start < t[i].end /\ t[i].end <= Duration
                              /\ i > 1 => t[i - 1].start <= t[i].start
      BY <3>2 DEF Playable
    <3> QED
      BY <3>3 DEF t, PlayableInOrder
  <2> QED
    BY <2>1
<1> QED
  BY <1>1, WhistleInvariant, PTL

\* Nothing of other audio gets into a transcript, although a run may be given
\* the snapshot of other audio to take up.
THEOREM NothingOfOtherAudio == Spec => [](Copies(0) = {})
<1>1. WhistleInv => Copies(0) = {}
  <2>1. ASSUME WhistleInv PROVE Copies(0) = {}
    <3>1. Transcript \in Words
      BY <2>1, RunParts, SegmentsAreLists DEF WhistleInv, Transcript
    <3> DEFINE t == Transcript
    <3> HIDE DEF t
    <3>2. \A i \in DOMAIN t : t[i] \in Word
      BY <3>1 DEF t, Words, Playable
    <3>3. {i \in DOMAIN t : t[i].src = 0} = {}
      BY <3>2 DEF Word
    <3> QED
      BY <3>3 DEF t, Copies
  <2> QED
    BY <2>1
<1> QED
  BY <1>1, WhistleInvariant, PTL
=============================================================================
