----------------------------- MODULE MCWhistle ------------------------------
(* Small instances of Whistle for TLC: 25 s of audio, three windows with the   *)
(* boundaries at ticks 44 and 88; or 16.5 s and two windows.                   *)
EXTENDS Whistle

W(tok, start, end) == [tok |-> tok, start |-> start, end |-> end]

\* Two words around the boundary, different and repeated; words apart by a
\* gap that is checked again, across the boundary and within a window.
AroundBoundary == {<<W(t, s, s + 4), W("b", s + 4 + g, s + 8 + g)>> :
                      t \in {"a", "b"}, s \in {36, 38, 41, 43}, g \in {0, 2}}
WithGaps == {<<W("a", 38, 42), W("b", 42, 50)>>,
             <<W("a", 14, 18), W("b", 26, 30), W("a", 42, 46)>>,
             <<W("a", 26, 30), W("b", 42, 46), W("c", 62, 66)>>,
             <<W("a", 41, 45), W("b", 85, 89)>>}
Recorded == AroundBoundary \cup WithGaps

\* Estimates a quarter to three quarters of a second off.
Off == {<<0, 0>>, <<3, 3>>, <<-2, 2>>}

\* A word across the boundary and a short one behind it, and two windows that
\* disagree about their times by a second at most.
ShortBehindBoundary == {<<W("a", 41, 45), W("b", 45, 47)>>}
SecondOff == {<<2, 3>>, <<-1, -1>>, <<-1, -2>>}
=============================================================================
