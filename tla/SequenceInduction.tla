-------------------------- MODULE SequenceInduction --------------------------
(***************************************************************************)
(* Induction along a sequence, and what it shows of recursive functions    *)
(* and of FlattenSeq.                                                      *)
(*                                                                         *)
(* A set of naturals has a least element, so a set that holds 0 and, with  *)
(* each place before a place, that place too, holds them all               *)
(* (AlongASequence).  A recursion along a sequence has a solution          *)
(* (StepByStep), so the function a definition chooses is one, and its      *)
(* values are found place by place.                                        *)
(***************************************************************************)
EXTENDS Integers, SequencesExt, SequenceTheorems, WellFoundedInduction, TLAPS

(* Induction ****************************************************************)

\* A set of naturals has a least one.
LEMMA Least ==
    ASSUME NEW S \in SUBSET Nat, S # {}
    PROVE  \E n \in S : \A m \in S : n <= m
<1> DEFINE R == OpToRel(<, Nat)
<1>1. IsWellFoundedOn(R, Nat)
  BY NatLessThanWellFounded
<1>2. PICK n \in S : \A m \in S : ~(<<m, n>> \in R)
  <2> HIDE DEF R
  <2> QED
    BY <1>1, WFMin
<1>3. \A m \in S : ~(m < n)
  BY <1>2 DEF OpToRel
<1> HIDE DEF R
<1> QED
  BY <1>3

\* What holds at 0, and at each place when it holds at the one before, holds to
\* the end: a place outside P would have a first one.
LEMMA AlongASequence ==
    ASSUME NEW n \in Nat, NEW P, 0 \in P, \A i \in 1..n : i - 1 \in P => i \in P
    PROVE  0..n \subseteq P
<1> DEFINE Out == (0..n) \ P
<1>1. Out \subseteq Nat
  OBVIOUS
<1>2. SUFFICES ASSUME Out # {} PROVE FALSE
  OBVIOUS
<1>3. PICK i \in Out : \A m \in Out : i <= m
  <2> HIDE DEF Out
  <2> QED
    BY <1>1, <1>2, Least
<1>4. i \in 1..n /\ i - 1 \in 0..n
  BY <1>3
<1>5. i - 1 \in P
  BY <1>3, <1>4
<1> QED
  BY <1>3, <1>4, <1>5

\* The n steps of a recursion over S, and what they make of a first value.
Steps(S, n) == [1..n -> [S -> S]]

Courses(S, n, first, step) ==
    {f \in [0..n -> S] : f[0] = first /\ \A i \in 1..n : f[i] = step[i][f[i - 1]]}

\* A sequence of steps, from a first value on, has its values.
LEMMA StepByStep ==
    ASSUME NEW S, NEW n \in Nat, NEW first \in S, NEW step \in Steps(S, n)
    PROVE  Courses(S, n, first, step) # {}
<1> DEFINE Upto(k, f) == /\ f[0] = first
                         /\ \A i \in 1..k : f[i] = step[i][f[i - 1]]
           P == {k \in 0..n : \E f \in [0..k -> S] : Upto(k, f)}
<1>1. 0 \in P
  <2>1. [i \in 0..0 |-> first] \in [0..0 -> S] /\ Upto(0, [i \in 0..0 |-> first])
    OBVIOUS
  <2>2. \E f \in [0..0 -> S] : Upto(0, f)
    <3> HIDE DEF Upto
    <3> QED
      BY <2>1
  <2>3. 0 \in 0..n
    OBVIOUS
  <2> QED
    BY <2>2, <2>3
<1>2. ASSUME NEW k \in 1..n, k - 1 \in P PROVE k \in P
  <2>1. PICK f \in [0..(k - 1) -> S] : Upto(k - 1, f)
    BY <1>2
  <2> DEFINE g == [i \in 0..k |-> IF i = k THEN step[k][f[k - 1]] ELSE f[i]]
  <2>2. f[k - 1] \in S /\ step[k] \in [S -> S]
    BY DEF Steps
  <2>3. step[k][f[k - 1]] \in S
    BY <2>2
  <2>4. g \in [0..k -> S]
    BY <2>3
  <2>5. g[k] = step[k][f[k - 1]] /\ \A i \in 0..(k - 1) : g[i] = f[i]
    OBVIOUS
  <2> HIDE DEF g
  <2>6. g[0] = first
    BY <2>1, <2>5
  <2>7. ASSUME NEW i \in 1..k PROVE g[i] = step[i][g[i - 1]]
    <3>1. CASE i = k
      BY <3>1, <2>5
    <3>2. CASE i # k
      <4>1. i \in 1..(k - 1) /\ i \in 0..(k - 1) /\ i - 1 \in 0..(k - 1)
        BY <3>2
      <4> QED
        BY <4>1, <2>1, <2>5
    <3> QED
      BY <3>1, <3>2
  <2> QED
    BY <2>4, <2>6, <2>7
<1>3. 0..n \subseteq P
  <2> HIDE DEF P
  <2> QED
    BY <1>1, <1>2, AlongASequence
<1> QED
  BY <1>3 DEF Courses

(* Joining sequences ********************************************************)

\* FlattenSeq joins a sequence of sequences one by one.
LEMMA Flattening ==
    ASSUME NEW X, NEW q \in Seq(Seq(X))
    PROVE  \E f \in [0..Len(q) -> Seq(X)] :
              /\ f[0] = <<>>
              /\ \A i \in 1..Len(q) : f[i] = f[i - 1] \o q[i]
              /\ FlattenSeq(q) = f[Len(q)]
<1> DEFINE n == Len(q)
           step == [i \in 1..n |-> [s \in Seq(X) |-> s \o q[i]]]
<1>1. n \in Nat /\ <<>> \in Seq(X) /\ \A i \in 1..n : q[i] \in Seq(X)
  OBVIOUS
<1>2. step \in Steps(Seq(X), n)
  <2>1. \A i \in 1..n : \A s \in Seq(X) : s \o q[i] \in Seq(X)
    BY <1>1, ConcatProperties
  <2> QED
    BY <2>1 DEF Steps
<1>3. \A i \in 1..n : \A s \in Seq(X) : step[i][s] = s \o q[i]
  OBVIOUS
<1>4. PICK f \in [0..n -> Seq(X)] : /\ f[0] = <<>>
                                    /\ \A i \in 1..n : f[i] = step[i][f[i - 1]]
  <2>1. Courses(Seq(X), n, <<>>, step) # {}
    <3> HIDE DEF step, n
    <3> QED
      BY <1>1, <1>2, StepByStep
  <2> HIDE DEF step, n
  <2> QED
    BY <2>1 DEF Courses
<1>5. \A i \in 1..n : f[i] = f[i - 1] \o q[i]
  <2>0. \A i \in 1..n : i - 1 \in 0..n
    BY <1>1
  <2>1. \A i \in 1..n : f[i - 1] \in Seq(X)
    BY <2>0, <1>4
  <2> HIDE DEF step
  <2> QED
    BY <1>3, <1>4, <2>1
<1> HIDE DEF step
<1>6. CASE n = 0
  <2>1. q = <<>>
    BY <1>6
  <2>2. FlattenSeq(q) = <<>>
    BY <2>1 DEF FlattenSeq
  <2> QED
    BY <2>2, <1>4, <1>5, <1>6
<1>7. CASE n # 0
  <2> DEFINE next(g) == [i \in 1..n |-> IF i = 1 THEN q[i] ELSE g[i - 1] \o q[i]]
             own == [i \in 1..n |-> f[i]]
             flat == CHOOSE g : g = next(g)
  <2>1. own = next(own)
    <3>1. ASSUME NEW i \in 1..n
          PROVE  f[i] = IF i = 1 THEN q[i] ELSE own[i - 1] \o q[i]
      <4>1. CASE i = 1
        <5>1. q[i] \in Seq(X) /\ f[i] = f[i - 1] \o q[i]
          BY <1>1, <1>5
        <5>2. <<>> \o q[i] = q[i]
          BY <5>1, ConcatEmptySeq
        <5> QED
          BY <4>1, <5>1, <5>2, <1>4, 1 - 1 = 0
      <4>2. CASE i # 1
        <5>1. i - 1 \in 1..n
          BY <4>2
        <5> QED
          BY <4>2, <5>1, <1>5
      <4> QED
        BY <4>1, <4>2
    <3> QED
      BY <3>1
  <2>2. flat = next(flat)
    <3> HIDE DEF next, own
    <3> QED
      BY <2>1
  <2>3. FlattenSeq(q) = flat[n]
    BY <1>7 DEF FlattenSeq
  <2> HIDE DEF flat
  <2>4. \A i \in 1..n : flat[i] = IF i = 1 THEN q[i] ELSE flat[i - 1] \o q[i]
    BY <2>2
  <2> DEFINE Same == {i \in 0..n : i # 0 => flat[i] = f[i]}
  <2>5. 0 \in Same
    BY <1>1
  <2>6. ASSUME NEW i \in 1..n, i - 1 \in Same PROVE i \in Same
    <3>1. CASE i = 1
      <4>1. f[1] = own[1] /\ own[1] = q[1]
        BY <2>1, <3>1
      <4> QED
        BY <4>1, <2>4, <3>1
    <3>2. CASE i # 1
      <4>1. flat[i - 1] = f[i - 1] /\ i \in 0..n
        BY <2>6, <3>2
      <4>2. flat[i] = flat[i - 1] \o q[i] /\ f[i] = f[i - 1] \o q[i]
        BY <3>2, <2>4, <1>5
      <4> QED
        BY <4>1, <4>2
    <3> QED
      BY <3>1, <3>2
  <2>7. 0..n \subseteq Same
    <3> HIDE DEF Same, n
    <3> QED
      BY <1>1, <2>5, <2>6, AlongASequence
  <2>8. flat[n] = f[n]
    BY <2>7, <1>1, <1>7
  <2> QED
    BY <2>3, <2>8, <1>4, <1>5
<1> QED
  BY <1>6, <1>7

\* What is joined is a sequence of the same kind; of none it is none.
LEMMA FlattenType ==
    ASSUME NEW X, NEW q \in Seq(Seq(X))
    PROVE  /\ FlattenSeq(q) \in Seq(X)
           /\ q = <<>> => FlattenSeq(q) = <<>>
<1>1. PICK f \in [0..Len(q) -> Seq(X)] : f[0] = <<>> /\ FlattenSeq(q) = f[Len(q)]
  BY Flattening
<1>2. Len(q) \in 0..Len(q)
  OBVIOUS
<1> QED
  BY <1>1, <1>2

\* A joined sequence and one more.
LEMMA FlattenAppend ==
    ASSUME NEW X, NEW q \in Seq(Seq(X)), NEW s \in Seq(X)
    PROVE  FlattenSeq(Append(q, s)) = FlattenSeq(q) \o s
<1> DEFINE n == Len(q)
           r == Append(q, s)
<1>1. r \in Seq(Seq(X)) /\ n \in Nat /\ Len(r) = n + 1 /\ r[n + 1] = s
  OBVIOUS
<1>2. \A i \in 1..n : r[i] = q[i]
  OBVIOUS
<1> HIDE DEF r
<1>3. PICK f \in [0..n -> Seq(X)] :
          /\ f[0] = <<>> /\ FlattenSeq(q) = f[n]
          /\ \A i \in 1..n : f[i] = f[i - 1] \o q[i]
  BY Flattening
<1>4. PICK g \in [0..(n + 1) -> Seq(X)] :
          /\ g[0] = <<>> /\ FlattenSeq(r) = g[n + 1]
          /\ \A i \in 1..(n + 1) : g[i] = g[i - 1] \o r[i]
  <2>1. \E g \in [0..Len(r) -> Seq(X)] :
          /\ g[0] = <<>> /\ FlattenSeq(r) = g[Len(r)]
          /\ \A i \in 1..Len(r) : g[i] = g[i - 1] \o r[i]
    BY <1>1, Flattening
  <2> HIDE DEF n
  <2> QED
    BY <2>1, <1>1
<1> HIDE DEF n
<1> DEFINE Same == {i \in 0..n : f[i] = g[i]}
<1>5. 0 \in Same
  BY <1>1, <1>3, <1>4
<1>6. ASSUME NEW i \in 1..n, i - 1 \in Same PROVE i \in Same
  <2>1. i \in 1..(n + 1) /\ f[i - 1] = g[i - 1] /\ i \in 0..n
    BY <1>1, <1>6
  <2>2. f[i] = f[i - 1] \o q[i] /\ g[i] = g[i - 1] \o r[i] /\ r[i] = q[i]
    BY <2>1, <1>2, <1>3, <1>4 DEF n
  <2>3. f[i] = g[i]
    BY <2>1, <2>2
  <2> QED
    BY <2>1, <2>3
<1>7. 0..n \subseteq Same
  <2> HIDE DEF Same
  <2> QED
    BY <1>1, <1>5, <1>6, AlongASequence
<1>8. f[n] = g[n] /\ n + 1 \in 1..(n + 1) /\ (n + 1) - 1 = n
  BY <1>7, <1>1
<1>9. g[n + 1] = g[n] \o s
  BY <1>1, <1>4, <1>8
<1> QED
  BY <1>3, <1>4, <1>8, <1>9 DEF r

\* Two sequences of sequences, joined and then put behind each other.
LEMMA FlattenConcat ==
    ASSUME NEW X, NEW p \in Seq(Seq(X)), NEW q \in Seq(Seq(X))
    PROVE  FlattenSeq(p \o q) = FlattenSeq(p) \o FlattenSeq(q)
<1> DEFINE n == Len(q)
           Upto(i) == SubSeq(q, 1, i)
           Joined == {i \in 0..n : FlattenSeq(p \o Upto(i))
                                     = FlattenSeq(p) \o FlattenSeq(Upto(i))}
<1>1. n \in Nat /\ \A i \in 1..n : q[i] \in Seq(X)
  OBVIOUS
<1>2. \A i \in 0..n : Upto(i) \in Seq(Seq(X))
  BY <1>1, SubSeqProperties
<1>3. FlattenSeq(p) \in Seq(X)
  BY FlattenType
<1>4. 0 \in Joined
  <2>1. Upto(0) = <<>>
    BY SubSeqEmpty
  <2>2. p \o <<>> = p /\ FlattenSeq(<<>>) = <<>> /\ FlattenSeq(p) \o <<>> = FlattenSeq(p)
    <3>1. p \o <<>> = p
      BY ConcatEmptySeq
    <3>2. FlattenSeq(p) \o <<>> = FlattenSeq(p)
      BY <1>3, ConcatEmptySeq
    <3>3. <<>> \in Seq(Seq(X))
      OBVIOUS
    <3> QED
      BY <3>1, <3>2, <3>3, FlattenType
  <2>3. FlattenSeq(p \o Upto(0)) = FlattenSeq(p) \o FlattenSeq(Upto(0))
    BY <2>1, <2>2
  <2> QED
    BY <2>3, <1>1
<1>5. ASSUME NEW i \in 1..n, i - 1 \in Joined PROVE i \in Joined
  <2> DEFINE h == Upto(i - 1)
             x == q[i]
  <2>1. h \in Seq(Seq(X)) /\ x \in Seq(X) /\ FlattenSeq(h) \in Seq(X)
    <3>1. i - 1 \in 0..n
      BY <1>1
    <3>2. h \in Seq(Seq(X)) /\ x \in Seq(X)
      BY <3>1, <1>1, <1>2
    <3> HIDE DEF h
    <3> QED
      BY <3>2, FlattenType
  <2>2. Upto(i) = Append(h, x)
    <3>1. Upto(i) = h \o <<x>>
      BY <1>1, SubSeqRecursiveSecond
    <3> HIDE DEF h, x
    <3>2. h \o <<x>> = Append(h, x)
      BY <2>1
    <3> QED
      BY <3>1, <3>2
  <2> HIDE DEF h, x
  <2>3. p \o Append(h, x) = Append(p \o h, x) /\ p \o h \in Seq(Seq(X))
    BY <2>1, SMTT(30)
  <2>4. FlattenSeq(p \o h) = FlattenSeq(p) \o FlattenSeq(h)
    BY <1>5 DEF h
  <2>5. /\ FlattenSeq(Append(p \o h, x)) = (FlattenSeq(p) \o FlattenSeq(h)) \o x
        /\ FlattenSeq(Append(h, x)) = FlattenSeq(h) \o x
    BY <2>1, <2>3, <2>4, FlattenAppend
  <2>6. (FlattenSeq(p) \o FlattenSeq(h)) \o x = FlattenSeq(p) \o (FlattenSeq(h) \o x)
    <3>1. ASSUME NEW a \in Seq(X), NEW b \in Seq(X), NEW c \in Seq(X)
          PROVE  (a \o b) \o c = a \o (b \o c)
      BY SMTT(30)
    <3> QED
      BY <3>1, <1>3, <2>1, ZenonT(30)
  <2>7. FlattenSeq(p \o Upto(i)) = FlattenSeq(p) \o FlattenSeq(Upto(i))
    BY <2>2, <2>3, <2>5, <2>6
  <2> QED
    BY <2>7
<1>6. 0..n \subseteq Joined
  <2> HIDE DEF Joined, n
  <2> QED
    BY <1>1, <1>4, <1>5, AlongASequence
<1>7. FlattenSeq(p \o Upto(n)) = FlattenSeq(p) \o FlattenSeq(Upto(n))
  <2>1. n \in Joined
    <3> HIDE DEF Joined, n
    <3> QED
      BY <1>1, <1>6
  <2> QED
    BY <2>1
<1>8. Upto(n) = q
  BY SubSeqFull
<1> QED
  BY <1>7, <1>8

\* A sequence that is not empty is its front and its last element.
LEMMA FrontAndLast ==
    ASSUME NEW S, NEW q \in Seq(S), q # <<>>
    PROVE  \E front \in Seq(S) : /\ q = Append(front, q[Len(q)]) /\ Len(front) = Len(q) - 1
                                 /\ q[Len(q)] \in S /\ Len(q) \in Nat \ {0}
<1> DEFINE n == Len(q)
           front == SubSeq(q, 1, n - 1)
<1>1. n \in Nat \ {0} /\ \A i \in 1..n : q[i] \in S
  OBVIOUS
<1>2. front \in Seq(S) /\ Len(front) = n - 1
  <2>1. 1 \in Int /\ n - 1 \in Int /\ \A i \in 1..(n - 1) : q[i] \in S
    BY <1>1
  <2> HIDE DEF n
  <2>2. front \in Seq(S) /\ Len(front) = IF 1 <= n - 1 THEN (n - 1) - 1 + 1 ELSE 0
    BY <2>1, SubSeqProperties
  <2> QED
    BY <2>2, <1>1
<1>3. q = Append(front, q[n])
  <2>1. /\ Append(front, q[n]) \in Seq(S) /\ Len(Append(front, q[n])) = n
        /\ Append(front, q[n])[n] = q[n]
        /\ \A i \in 1..(n - 1) : Append(front, q[n])[i] = front[i]
    <3>1. q[n] \in S
      BY <1>1
    <3> HIDE DEF front
    <3> QED
      BY <1>1, <1>2, <3>1
  <2>2. \A i \in 1..(n - 1) : front[i] = q[i]
    BY <1>1, SubSeqProperties
  <2> HIDE DEF front
  <2> DEFINE r == Append(front, q[n])
  <2>3. r \in Seq(S) /\ Len(r) = n /\ r[n] = q[n] /\ \A i \in 1..(n - 1) : r[i] = q[i]
    BY <2>1, <2>2
  <2> HIDE DEF r
  <2>4. \A i \in 1..n : q[i] = r[i]
    BY <1>1, <2>3
  <2>5. q = r
    BY <2>3, <2>4, SeqEqual
  <2> QED
    BY <2>5 DEF r
<1>4. q[n] \in S
  BY <1>1
<1> HIDE DEF front, n
<1>5. \E f \in Seq(S) : q = Append(f, q[n]) /\ Len(f) = n - 1
  BY <1>2, <1>3
<1> QED
  BY <1>1, <1>4, <1>5 DEF n

(* The pieces of a joined sequence ******************************************)

\* The first k pieces joined, and where they end.
JoinedUpto(q, k) == FlattenSeq(SubSeq(q, 1, k))

EndOf(q, k) == Len(JoinedUpto(q, k))

\* Each piece is joined to those before it.
LEMMA JoinedByPieces ==
    ASSUME NEW X, NEW q \in Seq(Seq(X))
    PROVE  /\ \A k \in 0..Len(q) : JoinedUpto(q, k) \in Seq(X)
           /\ JoinedUpto(q, 0) = <<>> /\ JoinedUpto(q, Len(q)) = FlattenSeq(q)
           /\ \A k \in 1..Len(q) : JoinedUpto(q, k) = JoinedUpto(q, k - 1) \o q[k]
<1> DEFINE Y == Seq(X)
           n == Len(q)
<1>1. q \in Seq(Y) /\ n \in Nat /\ \A k \in 1..n : q[k] \in Y
  OBVIOUS
<1>2. \A k \in 0..n : SubSeq(q, 1, k) \in Seq(Y)
  <2> HIDE DEF Y
  <2>1. ASSUME NEW k \in 0..n PROVE SubSeq(q, 1, k) \in Seq(Y)
    <3>1. 1 \in Int /\ k \in Int /\ \A i \in 1..k : q[i] \in Y
      BY <1>1
    <3> QED
      BY <3>1, SubSeqProperties
  <2> QED
    BY <2>1
<1>3. \A k \in 0..n : JoinedUpto(q, k) \in Seq(X)
  BY <1>2, FlattenType DEF JoinedUpto
<1>4. JoinedUpto(q, 0) = <<>>
  <2>1. SubSeq(q, 1, 0) = <<>> /\ SubSeq(q, 1, 0) \in Seq(Seq(X))
    BY <1>1, <1>2, SubSeqEmpty
  <2> QED
    BY <2>1, FlattenType DEF JoinedUpto
<1>5. JoinedUpto(q, n) = FlattenSeq(q)
  <2>1. SubSeq(q, 1, n) = q
    BY SubSeqFull
  <2> QED
    BY <2>1 DEF JoinedUpto
<1>6. ASSUME NEW k \in 1..n PROVE JoinedUpto(q, k) = JoinedUpto(q, k - 1) \o q[k]
  <2> DEFINE h == SubSeq(q, 1, k - 1)
             x == q[k]
  <2>1. h \in Seq(Seq(X)) /\ x \in Seq(X)
    <3>1. k - 1 \in 0..n
      BY <1>1
    <3> QED
      BY <3>1, <1>1, <1>2
  <2>2. SubSeq(q, 1, k) = Append(h, x)
    <3>1. SubSeq(q, 1, k) = h \o <<x>>
      <4>1. 1 \in 1..n /\ k \in 1..n
        BY <1>1
      <4> QED
        BY <4>1, SubSeqRecursiveSecond
    <3> HIDE DEF h, x
    <3>2. h \o <<x>> = Append(h, x)
      BY <2>1
    <3> QED
      BY <3>1, <3>2
  <2> HIDE DEF h, x
  <2>3. FlattenSeq(Append(h, x)) = FlattenSeq(h) \o x
    BY <2>1, FlattenAppend
  <2> QED
    BY <2>2, <2>3 DEF JoinedUpto, h, x
<1> QED
  BY <1>3, <1>4, <1>5, <1>6

\* A piece ends its own length behind the one before it, so the ends go up.
LEMMA EndsOfPieces ==
    ASSUME NEW X, NEW q \in Seq(Seq(X))
    PROVE  /\ Len(q) \in Nat /\ \A k \in 0..Len(q) : EndOf(q, k) \in Nat
           /\ EndOf(q, 0) = 0 /\ EndOf(q, Len(q)) = Len(FlattenSeq(q))
           /\ \A k \in 1..Len(q) : /\ EndOf(q, k) = EndOf(q, k - 1) + Len(q[k])
                                   /\ Len(q[k]) \in Nat
           /\ \A j, k \in 0..Len(q) : j <= k => EndOf(q, j) <= EndOf(q, k)
<1> DEFINE n == Len(q)
           a(k) == EndOf(q, k)
<1>1. n \in Nat /\ \A k \in 1..n : q[k] \in Seq(X) /\ Len(q[k]) \in Nat
  OBVIOUS
<1>2. /\ \A k \in 0..n : JoinedUpto(q, k) \in Seq(X)
      /\ JoinedUpto(q, 0) = <<>> /\ JoinedUpto(q, n) = FlattenSeq(q)
      /\ \A k \in 1..n : JoinedUpto(q, k) = JoinedUpto(q, k - 1) \o q[k]
  BY JoinedByPieces
<1> HIDE DEF n
<1>3. \A k \in 0..n : a(k) \in Nat
  BY <1>2 DEF EndOf
<1>4. a(0) = 0 /\ a(n) = Len(FlattenSeq(q))
  BY <1>2 DEF EndOf
<1>5. ASSUME NEW k \in 1..n PROVE a(k) = a(k - 1) + Len(q[k])
  <2>1. k - 1 \in 0..n /\ k \in 0..n
    BY <1>1
  <2> DEFINE s == JoinedUpto(q, k - 1)
             x == q[k]
  <2>2. s \in Seq(X) /\ x \in Seq(X) /\ JoinedUpto(q, k) = s \o x
    BY <2>1, <1>1, <1>2
  <2> HIDE DEF s, x
  <2>3. Len(s \o x) = Len(s) + Len(x)
    BY <2>2, ConcatProperties
  <2> QED
    BY <2>2, <2>3 DEF EndOf, s, x
<1> HIDE DEF a
<1>6. ASSUME NEW j \in 0..n PROVE \A k \in 0..n : j <= k => a(j) <= a(k)
  <2> DEFINE P == {k \in 0..n : j <= k => a(j) <= a(k)}
  <2>1. 0 \in P
    BY <1>1, <1>3
  <2>2. ASSUME NEW k \in 1..n, k - 1 \in P PROVE k \in P
    <3>1. k \in 0..n /\ k - 1 \in 0..n /\ a(k) \in Nat /\ a(k - 1) \in Nat /\ a(j) \in Nat
      BY <1>1, <1>3
    <3>2. a(k) = a(k - 1) + Len(q[k]) /\ Len(q[k]) \in Nat
      BY <1>1, <1>5
    <3>3. CASE j = k
      BY <3>1, <3>3
    <3>4. CASE j # k
      BY <2>2, <3>1, <3>2, <3>4, <1>1
    <3> QED
      BY <3>3, <3>4
  <2>3. 0..n \subseteq P
    <3> HIDE DEF P
    <3> QED
      BY <1>1, <2>1, <2>2, AlongASequence
  <2> QED
    BY <2>3
<1> QED
  BY <1>1, <1>3, <1>4, <1>5, <1>6 DEF a, n

\* Each element of a piece is in the joined sequence behind the pieces before,
\* and every element of the joined sequence is one of a piece.
LEMMA ElementsOfPieces ==
    ASSUME NEW X, NEW q \in Seq(Seq(X))
    PROVE  /\ \A k \in 1..Len(q) : \A i \in 1..Len(q[k]) :
                 FlattenSeq(q)[EndOf(q, k - 1) + i] = q[k][i]
           /\ \A i \in 1..Len(FlattenSeq(q)) : \E k \in 1..Len(q) :
                 EndOf(q, k - 1) < i /\ i <= EndOf(q, k)
<1> DEFINE n == Len(q)
           a(k) == EndOf(q, k)
           t(k) == JoinedUpto(q, k)
           Held(k) == \A j \in 1..k : \A i \in 1..Len(q[j]) : t(k)[a(j - 1) + i] = q[j][i]
           Covered(k) == \A i \in 1..a(k) : \E j \in 1..k : a(j - 1) < i /\ i <= a(j)
           P == {k \in 0..n : Held(k) /\ Covered(k)}
<1>1. /\ n \in Nat /\ \A k \in 1..n : q[k] \in Seq(X) /\ Len(q[k]) \in Nat
      /\ \A k \in 0..n : a(k) \in Nat /\ t(k) \in Seq(X) /\ Len(t(k)) = a(k)
      /\ a(0) = 0 /\ t(n) = FlattenSeq(q)
      /\ \A k \in 1..n : t(k) = t(k - 1) \o q[k] /\ a(k) = a(k - 1) + Len(q[k])
      /\ \A j, k \in 0..n : j <= k => a(j) <= a(k)
  <2>1. \A k \in 1..n : q[k] \in Seq(X)
    OBVIOUS
  <2>2. /\ \A k \in 0..n : t(k) \in Seq(X)
        /\ t(n) = FlattenSeq(q)
        /\ \A k \in 1..n : t(k) = t(k - 1) \o q[k]
    BY JoinedByPieces
  <2>3. /\ n \in Nat /\ \A k \in 0..n : a(k) \in Nat
        /\ a(0) = 0
        /\ \A k \in 1..n : a(k) = a(k - 1) + Len(q[k]) /\ Len(q[k]) \in Nat
        /\ \A j, k \in 0..n : j <= k => a(j) <= a(k)
    BY EndsOfPieces
  <2>4. \A k \in 0..n : Len(t(k)) = a(k)
    BY DEF EndOf
  <2> HIDE DEF n, a, t
  <2> QED
    BY <2>1, <2>2, <2>3, <2>4
<1> HIDE DEF n, a, t
<1>2. 0 \in P
  BY <1>1
<1>3. ASSUME NEW k \in 1..n, k - 1 \in P PROVE k \in P
  <2>1. k \in 0..n /\ k - 1 \in 0..n /\ Held(k - 1) /\ Covered(k - 1)
    BY <1>1, <1>3
  <2> DEFINE s == t(k - 1)
             x == q[k]
  <2>2. /\ s \in Seq(X) /\ x \in Seq(X) /\ t(k) = s \o x /\ Len(s) = a(k - 1) /\ Len(x) \in Nat
        /\ Len(s) \in Nat /\ a(k) = a(k - 1) + Len(x)
    BY <2>1, <1>1
  <2>3. \A i \in 1..(Len(s) + Len(x)) : t(k)[i] = IF i <= Len(s) THEN s[i] ELSE x[i - Len(s)]
    <3> HIDE DEF s, x
    <3> QED
      BY <2>2, ConcatProperties
  <2>4. ASSUME NEW j \in 1..k, NEW i \in 1..Len(q[j]) PROVE t(k)[a(j - 1) + i] = q[j][i]
    <3>1. CASE j = k
      <4>0. i \in 1..Len(x)
        BY <3>1
      <4> HIDE DEF s, x
      <4>1. a(k - 1) + i \in 1..(Len(s) + Len(x)) /\ ~(a(k - 1) + i <= Len(s))
            /\ (a(k - 1) + i) - Len(s) = i
        BY <2>2, <4>0
      <4>2. t(k)[a(k - 1) + i] = x[i]
        BY <2>3, <4>1
      <4> QED
        BY <3>1, <4>2 DEF x
    <3>2. CASE j # k
      <4>1. j \in 1..(k - 1) /\ j \in 1..n /\ j \in 0..n /\ j - 1 \in 0..n /\ j <= k - 1
        BY <3>2, <1>1
      <4>2. a(j) = a(j - 1) + Len(q[j]) /\ a(j) <= a(k - 1) /\ a(j - 1) \in Nat
        BY <4>1, <2>1, <1>1
      <4>3. a(j - 1) + i \in 1..(Len(s) + Len(x)) /\ a(j - 1) + i <= Len(s)
        <5>1. Len(q[j]) \in Nat /\ i \in 1..Len(q[j])
          BY <4>1, <1>1
        <5>2. a(j - 1) + i <= a(k - 1) /\ a(j - 1) + i >= 1 /\ a(j - 1) + i \in Nat
          <6>1. a(j) \in Nat /\ a(k - 1) \in Nat
            BY <4>1, <2>1, <1>1
          <6> QED
            BY <4>2, <5>1, <6>1
        <5> HIDE DEF s, x
        <5> QED
          BY <5>2, <2>2
      <4>4. t(k)[a(j - 1) + i] = s[a(j - 1) + i]
        <5> HIDE DEF s, x
        <5> QED
          BY <2>3, <4>3
      <4>5. s[a(j - 1) + i] = q[j][i]
        BY <2>1, <4>1
      <4> QED
        BY <4>4, <4>5
    <3> QED
      BY <3>1, <3>2
  <2>5. ASSUME NEW i \in 1..a(k) PROVE \E j \in 1..k : a(j - 1) < i /\ i <= a(j)
    <3>1. CASE i <= a(k - 1)
      <4>1. i \in 1..a(k - 1)
        BY <3>1, <2>1, <1>1
      <4>2. PICK j \in 1..(k - 1) : a(j - 1) < i /\ i <= a(j)
        BY <4>1, <2>1
      <4>3. j \in 1..k
        BY <4>2
      <4> QED
        BY <4>2, <4>3
    <3>2. CASE ~(i <= a(k - 1))
      <4>1. a(k - 1) < i /\ i <= a(k) /\ k \in 1..k
        BY <3>2, <2>1, <1>1
      <4> QED
        BY <4>1
    <3> QED
      BY <3>1, <3>2
  <2> QED
    BY <2>1, <2>4, <2>5
<1>4. 0..n \subseteq P
  <2> HIDE DEF P
  <2> QED
    BY <1>1, <1>2, <1>3, AlongASequence
<1>5. Held(n) /\ Covered(n)
  <2>1. n \in P
    <3> HIDE DEF P
    <3> QED
      BY <1>1, <1>4
  <2> QED
    BY <2>1
<1>6. a(n) = Len(FlattenSeq(q))
  BY EndsOfPieces DEF a, n
<1> QED
  BY <1>1, <1>5, <1>6 DEF a, n
=============================================================================
