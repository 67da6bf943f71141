---------------------------- MODULE Proofreading ----------------------------
(* What becomes of one segment's proposed correction (ui/cleanup.py,           *)
(* preserve_uncertainties): the edits that touch a span the model is not sure  *)
(* of are dropped, the others are taken, and every flag is placed again in the *)
(* result; where that fails, the segment keeps its own text.                   *)
(*                                                                            *)
(* A text is the sequence of its tokens.  The two texts come as the script     *)
(* difflib makes of them: stretches they share and edits between those, each   *)
(* an [old, new] pair, in any turn that a script can have.                     *)
EXTENDS Naturals, Sequences, SequencesExt

CONSTANTS
    Words, Marks,   \* the tokens: words, and blanks or punctuation
    Guess,          \* a word that only the model has
    Longest,        \* bound: the tokens of a shared stretch
    MaxEdit,        \* bound: the tokens an edit takes out, or puts in
    MaxPieces,      \* bound: stretches and edits of a script
    MaxSpans        \* bound: flags of a segment

VARIABLES
    script,     \* the segment and its proposed correction
    spans,      \* the flagged spans, in order: token ranges [first, last] of the segment
    result      \* [text, at]: the outcome and where each span begins in it, or Pending

vars == <<script, spans, result>>

Pending == [text |-> <<>>, at |-> <<>>]

Texts(tokens, n) == UNION {[1..k -> tokens] : k \in 0..n}

Shared == {[old |-> t, new |-> t] : t \in Texts(Words \cup Marks, Longest) \ {<<>>}}
Edits == {e \in [old : Texts(Words \cup Marks, MaxEdit),
                 new : Texts(Words \cup Marks \cup {Guess}, MaxEdit)] : e.old # e.new}

Joined(parts) == FlattenSeq(parts)
Old(s) == Joined([k \in DOMAIN s |-> s[k].old])
New(s) == Joined([k \in DOMAIN s |-> s[k].new])

\* Two words of a text never touch.
IsText(t) == \A i \in 1..(Len(t) - 1) : t[i] \in Marks \/ t[i + 1] \in Marks

\* Stretches and edits take turns.
Scripts ==
    {s \in UNION {[1..k -> Shared \cup Edits] : k \in 1..MaxPieces} :
        /\ \A i \in 1..(Len(s) - 1) : (s[i] \in Edits) # (s[i + 1] \in Edits)
        /\ IsText(Old(s)) /\ IsText(New(s))}

\* The lists of flags resolve_uncertainties accepts: spans in order, apart, and
\* none of them blank.
SpanLists(t) ==
    LET Span == {s \in [first : 1..Len(t), last : 1..Len(t)] :
                    \E i \in s.first..s.last : t[i] \in Words}
    IN  {p \in UNION {[1..k -> Span] : k \in 1..MaxSpans} :
            \A i \in 1..(Len(p) - 1) : p[i].last < p[i + 1].first}

Init ==
    /\ script \in Scripts
    /\ spans \in SpanLists(Old(script))
    /\ result = Pending

Source == Old(script)

(* The algorithm: boundaries lie before a token, 0 before the first one ********)

Start(k) == Len(Old(SubSeq(script, 1, k - 1)))
End(k) == Start(k) + Len(script[k].old)

\* A span with the marks on either side of it.
Guard(s) ==
    [from |-> CHOOSE i \in 0..(s.first - 1) :
                  /\ \A m \in (i + 1)..(s.first - 1) : Source[m] \in Marks
                  /\ i = 0 \/ Source[i] \in Words,
     to |-> CHOOSE j \in s.last..Len(Source) :
                  /\ \A m \in (s.last + 1)..j : Source[m] \in Marks
                  /\ j = Len(Source) \/ Source[j + 1] \in Words]

Guards == {Guard(spans[n]) : n \in DOMAIN spans}

\* (mutant: an insertion on the edge of a guard is let through)
ProtectedInside(k) ==
    \E g \in Guards :
        IF Start(k) = End(k) THEN g.from < Start(k) /\ Start(k) < g.to
        ELSE Start(k) < g.to /\ End(k) > g.from

Protected(k) ==
    \E g \in Guards :
        IF Start(k) = End(k) THEN g.from <= Start(k) /\ Start(k) <= g.to
        ELSE Start(k) < g.to /\ End(k) > g.from

Copied(k) == script[k].old = script[k].new \/ Protected(k)

Piece(k) == IF Copied(k) THEN script[k].old ELSE script[k].new

TextUpto(k) == Joined([m \in 1..k |-> Piece(m)])

\* The copied stretches that hold a span whole.
Holding(s) == {k \in DOMAIN script : Copied(k) /\ Start(k) < s.first /\ s.last <= End(k)}

\* Where the span begins in the result.
Placed(s) ==
    LET k == CHOOSE m \in Holding(s) : TRUE
    IN  Len(TextUpto(k - 1)) + s.first - Start(k)

Preserve ==
    /\ result = Pending
    /\ result' =
          IF \A n \in DOMAIN spans : Holding(spans[n]) # {}
          THEN [text |-> TextUpto(Len(script)),
                at |-> [n \in DOMAIN spans |-> Placed(spans[n])]]
          ELSE [text |-> Source, at |-> [n \in DOMAIN spans |-> spans[n].first]]
    /\ UNCHANGED <<script, spans>>

Next == Preserve

(* Properties ***************************************************************)

\* What was unsure is still there, where its flag points, with the same marks
\* around it; and on either side follows what followed it in the segment, unless
\* that was itself corrected: no guess takes its place or slips in beside it.
UnsureSpansStand ==
    result # Pending =>
        \A n \in DOMAIN spans :
            LET g == Guard(spans[n])
                shift == result.at[n] - spans[n].first
                Unedited(i) == \E k \in DOMAIN script :
                    script[k].old = script[k].new /\ Start(k) < i /\ i <= End(k)
            IN  /\ SubSeq(result.text, g.from + 1 + shift, g.to + shift)
                      = SubSeq(Source, g.from + 1, g.to)
                /\ g.from = 0 => shift = 0
                /\ g.to = Len(Source) => Len(result.text) = g.to + shift
                /\ g.from > 0 /\ Unedited(g.from) => result.text[g.from + shift] = Source[g.from]
                /\ g.to < Len(Source) /\ Unedited(g.to + 1) =>
                       result.text[g.to + 1 + shift] = Source[g.to + 1]
=============================================================================
