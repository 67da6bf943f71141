--------------------------- MODULE Pipeline_proofs ---------------------------
(* Proofs about Pipeline, for every number of runs, versions, blocks, formats   *)
(* and requests.                                                               *)
(*                                                                            *)
(* The argument.  A run saves whatever it learns in the step that it learns it, *)
(* so the record of the run that owns the row is exactly its knowledge          *)
(* (InStep), and what is true of every run's knowledge (Known, and under one    *)
(* request Asked and Tagged) is true of the record, also of the one the next    *)
(* run is handed.  What a run has published is its rendering of its words, and  *)
(* those are the words of the record once a first file is out (Outputs).       *)
EXTENDS Pipeline, TLAPS

-----------------------------------------------------------------------------
(* Types.                                                                     *)

Whats == {Off} \cup {q.dia : q \in Requests} \cup {q.tr : q \in Requests}
Asks == Requests \cup {[dia |-> Off, tr |-> Off]}
Label == [what : Whats, run : Nat]
Heard == [src : Nat, dia : Label, tr : Label]
Blocks == [n : 0..Cores, src : Nat]
Stages == {"source", "fetch", "extract", "transcribe", "diarize", "translate",
           "postprocess", "render"}

Record == [version : 0..CurrentVersion, req : Asks, stages : SUBSET Stages,
           text : Heard, part : Blocks, ident : Nat]

Knowledge == [pc : {"unborn", "over"} \cup Working, req : Asks, given : Record,
              stages : SUBSET Stages, text : Heard, part : Blocks, ident : Nat,
              media : Nat, audio : Nat, done : 0..Len(Formats)]

File == [by : {Mine, Theirs, "nobody"}, words : Heard, stamp : Nat, whole : BOOLEAN]

RowType == [state : {"fresh", "running", "error", "done"}, attempt : 0..MaxRuns,
            req : Asks, ckpt : Record, words : Heard, outputs : SUBSET FormatSet]

USE DEF RowType

TypeOK ==
    /\ kind \in {"url", "plain", "confined"}
    /\ version \in Nat \ {0}
    /\ row \in RowType
    /\ run \in [Runs -> Knowledge]
    /\ disk \in [FormatSet -> File]
    /\ overlapped \in BOOLEAN /\ intruders \in Nat /\ removals \in Nat

-----------------------------------------------------------------------------
(* What is true of a run's knowledge and of the record.                       *)

\* Words are marked, supersede the blocks, and are of the fingerprinted recording.
Kept(c) ==
    /\ HasText(c) => "transcribe" \in c.stages /\ ~HasPart(c)
    /\ "transcribe" \in c.stages => HasText(c)
    /\ IsFile /\ HasText(c) => c.text.src = c.ident

\* A record that holds work can be read back.
Readable(c) ==
    /\ HasText(c) \/ HasPart(c) => c.version \in 1..CurrentVersion
    /\ HasPart(c) => c.version = CurrentVersion

Written == {"diarize", "translate", "mark", "publish", "link", "refused", "finalize"}
Saving == Working \ {"open"}

\* The knowledge of a run that has got as far as its pc says.
Known(me) ==
    /\ Kept(me)
    /\ Kept(me.given) /\ Readable(me.given)
    /\ me.given = NoRecord \/ HasText(me.given) \/ HasPart(me.given)
    /\ me.pc = "open" => /\ me.stages = {} /\ me.text = NoWords /\ me.part = NoPart
                         /\ me.ident = 0 /\ me.done = 0
    /\ me.pc \in {"fetch", "extract"} => (CanResume(me.given) <=> HasText(me))
    /\ me.pc \in {"core", "recheck"} => ~CanResume(me.given) /\ ~HasText(me)
    /\ me.pc \in Written => HasText(me)
    /\ me.pc = "extract" => me.media \in 1..version
    /\ me.pc = "extract" /\ IsFile /\ ~CanResume(me.given) => me.media = me.ident
    /\ me.pc \in {"core", "recheck"} => me.audio \in 1..version
    /\ me.pc \in {"core", "recheck"} /\ IsFile => me.ident <= me.audio
    /\ me.pc = "recheck" => me.part.n = Cores
    /\ me.pc \in {"link", "refused"} => me.done < Len(Formats)

Understood == \A r \in Runs : Live(r) => Known(run[r])

Stored ==
    /\ row.state # "done" => Kept(row.ckpt) /\ Readable(row.ckpt)
    /\ row.state = "fresh" => row.ckpt = NoRecord
    /\ row.state = "done" =>
          /\ ~HasText(row.ckpt) /\ ~HasPart(row.ckpt)
          /\ IsFile => row.words.src = row.ckpt.ident

\* The record of the run that owns the row is what that run knows; before its
\* first save it is what the run was handed.
InStep ==
    \A r \in Runs : Owned(r) /\ Live(r) =>
        /\ row.req = run[r].req
        /\ run[r].pc # "open" => row.ckpt = Snapshot(run[r])
        /\ run[r].pc = "open" =>
              IF run[r].given # NoRecord THEN row.ckpt = run[r].given
              ELSE ~HasText(row.ckpt) /\ ~HasPart(row.ckpt)

Ordered == \A r \in Runs : r > row.attempt => run[r].pc = "unborn"

Core_IInv == TypeOK /\ Understood /\ Stored /\ InStep /\ Ordered

-----------------------------------------------------------------------------
(* What is true besides when every resume repeats the request.                *)

\* Marks and labels agree, and a mark stands for what the request asked for.
Tagged(c) ==
    /\ ~HasText(c) => c.stages \cap {"diarize", "translate", "postprocess"} = {}
    /\ c.text.dia.what # Off => {"diarize", "postprocess"} \cap c.stages # {}
    /\ c.text.tr.what # Off => {"translate", "postprocess"} \cap c.stages # {}
    /\ StageCompleted(c, "diarize", c.req.dia) => c.text.dia.what = c.req.dia
    /\ StageCompleted(c, "translate", c.req.tr) => c.text.tr.what = c.req.tr

Publishing == {"publish", "link", "refused", "finalize"}

Asked(me) ==
    /\ Tagged(me) /\ Tagged(me.given)
    /\ me.given # NoRecord => me.given.req = me.req
    /\ me.pc \in {"fetch", "extract", "diarize"} /\ CanResume(me.given) =>
          me.text = me.given.text
    /\ me.pc = "diarize" /\ ~CanResume(me.given) => me.text.dia = Untouched
    /\ me.pc \in {"diarize", "translate"} =>
          me.text.tr = IF CanResume(me.given) THEN me.given.text.tr ELSE Untouched
    /\ me.pc \in {"translate", "mark"} \cup Publishing =>
          (me.req.dia # Off => me.text.dia.what = me.req.dia)
    /\ me.pc \in {"mark"} \cup Publishing =>
          (me.req.tr # Off => me.text.tr.what = me.req.tr)
    /\ me.pc \notin Publishing /\ "postprocess" \in me.stages =>
          "postprocess" \in me.given.stages
    /\ me.pc \in Publishing => "postprocess" \in me.stages

Answered == \A r \in Runs : Live(r) => Asked(run[r])

Served ==
    /\ row.state # "done" => Tagged(row.ckpt)
    /\ row.state # "done" /\ row.ckpt # NoRecord => row.ckpt.req = row.req
    /\ row.state = "done" =>
          /\ row.req.dia # Off => row.words.dia.what = row.req.dia
          /\ row.req.tr # Off => row.words.tr.what = row.req.tr

Request_IInv == Core_IInv /\ Answered /\ Served

-----------------------------------------------------------------------------
(* What is true of the output directory.                                      *)

Ours(f) == disk[f].by = Mine

Shaped ==
    \A f \in FormatSet :
        /\ disk[f].by = "nobody" => disk[f] = NoFile
        /\ Ours(f) => disk[f].whole /\ (f \notin Stamped => disk[f].stamp = 0)

\* What a live run has published, and how far it is.
Printed(me) ==
    /\ \A i \in 1..me.done : Ours(Formats[i]) /\ disk[Formats[i]].words = me.text
    /\ me.pc \notin Publishing => me.done = 0
    /\ me.pc = "finalize" => me.done = Len(Formats)

Outputs == \A r \in Runs : Live(r) => Printed(run[r])

Finished ==
    /\ row.state = "done" => \A f \in FormatSet :
          /\ Ours(f) => disk[f].words = row.words
          /\ removals = 0 => Ours(f)
    /\ removals # 0 => row.state = "done" /\ \A r \in Runs : ~Live(r)

Publication_IInv == Core_IInv /\ Shaped /\ Outputs /\ Finished

\* While no row was reaped under a working run, every file of ours is a rendering
\* of the words on record, which no later run will change.
Consistent ==
    ~overlapped =>
        /\ \A r \in Runs : Live(r) => Owned(r)
        /\ \A f \in FormatSet : row.state # "done" /\ Ours(f) =>
              /\ HasText(row.ckpt) /\ "postprocess" \in row.ckpt.stages
              /\ row.ckpt.text = disk[f].words
        /\ \A r \in Runs, f \in FormatSet :
              Live(r) /\ run[r].given = NoRecord /\ Ours(f) =>
                  \E i \in 1..run[r].done : Formats[i] = f
        /\ \A r \in Runs :
              /\ run[r].pc = "link" => ~Ours(Formats[run[r].done + 1])
              /\ run[r].pc = "refused" => disk[Formats[run[r].done + 1]].by = Theirs

Refusal_IInv == Request_IInv /\ Shaped /\ Outputs /\ Finished /\ Consistent

-----------------------------------------------------------------------------
(* The operators.                                                             *)

\* The constants and the default values have their types.
LEMMA ConstantFacts ==
    /\ Cores \in Nat /\ 1 <= Cores /\ MaxRuns \in Nat /\ Len(Formats) \in Nat
    /\ NoWords \in Heard /\ NoPart \in Blocks /\ Untouched \in Label
    /\ NoRecord \in Record /\ Unborn \in Knowledge /\ Over \in Knowledge
    /\ NoFile \in File /\ Foreign \in File
<1>1. /\ Cores \in Nat /\ 1 <= Cores /\ MaxRuns \in Nat /\ Len(Formats) \in Nat
  BY BoundsAssumption, FormatsAssumption
<1>2. Untouched \in Label /\ NoPart \in Blocks
  BY <1>1 DEF Untouched, Label, Whats, NoPart, Blocks
<1>3. NoWords \in Heard
  BY <1>2 DEF NoWords, Heard
<1>4. NoRecord \in Record
  BY <1>2, <1>3 DEF NoRecord, Record, Asks, CurrentVersion
<1>5. Unborn \in Knowledge
  BY <1>1, <1>2, <1>3, <1>4 DEF Unborn, Knowledge, Asks
<1>6. Over \in Knowledge
  BY <1>5 DEF Over, Knowledge
<1>7. NoFile \in File /\ Foreign \in File
  BY <1>3 DEF NoFile, Foreign, File
<1>8. QED  BY <1>1, <1>2, <1>3, <1>4, <1>5, <1>6, <1>7

\* What a run saves has the type of a record.
LEMMA SnapshotType ==
    ASSUME NEW me \in Knowledge  PROVE  Snapshot(me) \in Record
BY DEF Snapshot, Knowledge, Record, CurrentVersion

\* Reading a record back changes its fingerprint at most, and a record that is
\* not read back holds no work.
LEMMA ParseFacts ==
    ASSUME NEW c \in Record
    PROVE  /\ Parse(c) \in Record
           /\ Parse(c) # NoRecord =>
                 /\ Parse(c).req = c.req /\ Parse(c).stages = c.stages
                 /\ Parse(c).text = c.text /\ Parse(c).part = c.part
                 /\ Parse(c).version = c.version /\ Coherent(c)
                 /\ Parse(c).ident # 0 => Parse(c).ident = c.ident
           /\ Kept(c) /\ Readable(c) /\ Parse(c) = NoRecord => ~HasText(c) /\ ~HasPart(c)
<1>1. Parse(c) \in Record
  BY ConstantFacts DEF Parse, Decoded, Record
<1>2. ASSUME Parse(c) # NoRecord
      PROVE  /\ Parse(c).req = c.req /\ Parse(c).stages = c.stages
             /\ Parse(c).text = c.text /\ Parse(c).part = c.part
             /\ Parse(c).version = c.version /\ Coherent(c)
             /\ Parse(c).ident # 0 => Parse(c).ident = c.ident
  BY <1>2 DEF Parse, Decoded, Record
<1>3. ASSUME Kept(c), Readable(c), Parse(c) = NoRecord  PROVE  ~HasText(c) /\ ~HasPart(c)
  <2>1. SUFFICES ASSUME HasText(c) \/ HasPart(c)  PROVE FALSE
    OBVIOUS
  <2>2. Coherent(c) /\ c.version \in 1..CurrentVersion
    BY <1>3, <2>1 DEF Kept, Readable, Coherent
  <2>3. Parse(c).version = c.version
    BY <2>2 DEF Parse, Decoded, Record
  <2>4. QED  BY <1>3, <2>2, <2>3 DEF NoRecord
<1>4. QED  BY <1>1, <1>2, <1>3

\* The version of the recording moves forward only, and nothing known depends on
\* more than that.
LEMMA KnownLater ==
    ASSUME TypeOK, NEW me \in Knowledge, Known(me), kind' = kind,
           version' \in Nat, version <= version'
    PROVE  Known(me)'
BY DEF Known, Kept, Readable, HasText, HasPart, CanResume, IsFile, TypeOK, Knowledge, Written, NoRecord, NoWords, NoPart, Untouched, CurrentVersion

-----------------------------------------------------------------------------
(* The steps of one run, as far as they concern the row and the run.          *)

\* A step that saves all that the run knows after it.
LEMMA SavesKeep ==
    ASSUME Core_IInv, NEW r \in Runs, NEW me \in Knowledge,
           Live(r), me.pc \in Saving, me.req = run[r].req, Known(me),
           Saved(r, me), run' = [run EXCEPT ![r] = me], World' = World
    PROVE  Core_IInv'
<1> USE DEF Core_IInv, World
<1>1. Snapshot(me) \in Record
  BY SnapshotType
<1>2. TypeOK'
  BY <1>1 DEF TypeOK, Saved
<1>3. row'.state = row.state /\ row'.attempt = row.attempt /\ row'.req = row.req
      /\ row'.words = row.words
  BY DEF Saved, TypeOK
<1>4. Owned(r)' <=> Owned(r)
  BY <1>3 DEF Owned
<1>5. Understood'
  <2> SUFFICES ASSUME NEW q \in Runs, Live(q)'  PROVE Known(run[q])'
    BY DEF Understood
  <2>1. CASE q = r
    BY <2>1, KnownLater DEF TypeOK
  <2>2. CASE q # r
    <3>1. run'[q] = run[q] /\ run[q] \in Knowledge
      BY <2>2 DEF TypeOK
    <3>2. Known(run[q])
      BY <3>1 DEF Understood, Live
    <3>3. QED  BY <3>1, <3>2, KnownLater DEF TypeOK
  <2>3. QED  BY <2>1, <2>2
<1>6. CASE Owned(r)
  <2>1. row'.ckpt = Snapshot(me)
    BY <1>6 DEF Saved, TypeOK
  <2>2. row.state = "running"
    BY <1>6 DEF Owned
  <2>3. Kept(row.ckpt)' /\ Readable(row.ckpt)'
    BY <2>1 DEF Known, Kept, Readable, Snapshot, HasText, HasPart, CurrentVersion, IsFile
  <2>4. Stored'
    BY <1>3, <2>2, <2>3 DEF Stored
  <2>5. InStep'
    <3> SUFFICES ASSUME NEW q \in Runs, Owned(q)', Live(q)'
        PROVE /\ row'.req = run'[q].req
              /\ run'[q].pc # "open" => row'.ckpt = Snapshot(run[q])'
              /\ run'[q].pc # "open"
      BY DEF InStep
    <3>1. q = r /\ run'[q] = me
      BY <1>3, <1>6 DEF Owned, TypeOK
    <3>2. Snapshot(run[q])' = Snapshot(me)
      BY <3>1 DEF Snapshot
    <3>3. QED  BY <1>3, <1>6, <2>1, <3>1, <3>2 DEF InStep, Saving
  <2>6. Ordered'
    BY <1>3 DEF Ordered, TypeOK, Live, Working
  <2>7. QED  BY <1>2, <1>5, <2>4, <2>5, <2>6
<1>7. CASE ~Owned(r)
  <2>1. row' = row
    BY <1>7 DEF Saved
  <2>2. Stored'
    BY <2>1 DEF Stored, Kept, Readable, HasText, HasPart, IsFile
  <2>3. InStep'
    <3> SUFFICES ASSUME NEW q \in Runs, Owned(q)', Live(q)'
        PROVE /\ row'.req = run'[q].req
              /\ run'[q].pc # "open" => row'.ckpt = Snapshot(run[q])'
              /\ run'[q].pc = "open" =>
                    IF run'[q].given # NoRecord THEN row'.ckpt = run'[q].given
                    ELSE ~HasText(row.ckpt)' /\ ~HasPart(row.ckpt)'
      BY DEF InStep
    <3>1. q # r /\ run'[q] = run[q] /\ Owned(q) /\ Live(q)
      BY <1>7, <2>1 DEF Owned, Live, TypeOK
    <3>2. QED  BY <2>1, <3>1 DEF InStep, Snapshot, HasText, HasPart
  <2>4. Ordered'
    BY <2>1 DEF Ordered, TypeOK, Live, Working
  <2>5. QED  BY <1>2, <1>5, <2>2, <2>3, <2>4
<1>8. QED  BY <1>6, <1>7

\* A step that learns nothing it would save.
LEMMA MovesKeep ==
    ASSUME Core_IInv, NEW r \in Runs, NEW me \in Knowledge,
           Live(r), run[r].pc # "open", me.pc \in Saving, me.req = run[r].req,
           Known(me), Snapshot(me) = Snapshot(run[r]),
           Move(r, me), kind' = kind, version' = version, overlapped' = overlapped,
           intruders' = intruders, removals' = removals, disk' \in [FormatSet -> File]
    PROVE  Core_IInv'
<1> USE DEF Core_IInv, Move
<1>1. TypeOK'
  BY DEF TypeOK
<1>2. Understood'
  <2> SUFFICES ASSUME NEW q \in Runs, Live(q)'  PROVE Known(run[q])'
    BY DEF Understood
  <2>1. CASE q = r
    BY <2>1, KnownLater DEF TypeOK
  <2>2. CASE q # r
    <3>1. run'[q] = run[q] /\ run[q] \in Knowledge
      BY <2>2 DEF TypeOK
    <3>2. Known(run[q])
      BY <3>1 DEF Understood, Live
    <3>3. QED  BY <3>1, <3>2, KnownLater DEF TypeOK
  <2>3. QED  BY <2>1, <2>2
<1>3. Stored'
  BY DEF Stored, Kept, Readable, HasText, HasPart, IsFile
<1>4. InStep'
  <2> SUFFICES ASSUME NEW q \in Runs, Owned(q)', Live(q)'
      PROVE /\ row'.req = run'[q].req
            /\ run'[q].pc # "open" => row'.ckpt = Snapshot(run[q])'
            /\ run'[q].pc = "open" =>
                  IF run'[q].given # NoRecord THEN row'.ckpt = run'[q].given
                  ELSE ~HasText(row.ckpt)' /\ ~HasPart(row.ckpt)'
    BY DEF InStep
  <2>1. Owned(q)
    BY DEF Owned
  <2>2. CASE q = r
    <3>1. run'[q] = me
      BY <2>2 DEF TypeOK
    <3>2. Snapshot(run[q])' = Snapshot(me)
      BY <3>1 DEF Snapshot
    <3>3. QED  BY <2>1, <2>2, <3>1, <3>2 DEF InStep, Saving
  <2>3. CASE q # r
    <3>1. run'[q] = run[q] /\ Live(q)
      BY <2>3 DEF Live, TypeOK
    <3>2. QED  BY <2>1, <3>1 DEF InStep, Snapshot, HasText, HasPart
  <2>4. QED  BY <2>2, <2>3
<1>5. Ordered'
  BY DEF Ordered, TypeOK, Live, Working
<1>6. QED  BY <1>1, <1>2, <1>3, <1>4, <1>5

-----------------------------------------------------------------------------
(* What each step of a run makes of its knowledge.                            *)

Marked(me, stage) == [me EXCEPT !.stages = @ \cup {stage}]

Opened(me) ==
    Marked([me EXCEPT !.stages = me.given.stages, !.text = me.given.text,
                      !.part = me.given.part, !.ident = me.given.ident,
                      !.pc = IF ~CanResume(me.given) \/ Due(me, "diarize", me.req.dia)
                             THEN "fetch" ELSE "diarize"], "source")
Fetched(me) ==
    Marked([me EXCEPT !.media = version, !.ident = IF IsFile THEN version ELSE @,
                      !.pc = "extract"], "fetch")
Reacquired(me) == Marked([me EXCEPT !.media = version, !.pc = "extract"], "fetch")
Extracted(me) ==
    Marked([me EXCEPT !.audio = IF kind = "plain" THEN version ELSE me.media,
                      !.pc = IF CanResume(me.given) THEN "diarize" ELSE "core"], "extract")
Grown(me) == [me EXCEPT !.part = [n |-> me.part.n + 1, src |-> me.audio]]
Transcribed(me) ==
    Marked([me EXCEPT !.text = [NoWords EXCEPT !.src = me.audio], !.part = NoPart,
                      !.pc = "diarize"], "transcribe")
Diarized(me, r) ==
    Marked([me EXCEPT !.text.dia = [what |-> me.req.dia, run |-> r], !.pc = "translate"],
           "diarize")
Translated(me, r) ==
    Marked([me EXCEPT !.text.tr = [what |-> me.req.tr, run |-> r], !.pc = "mark"],
           "translate")
MarkedAll(me) == Marked([me EXCEPT !.pc = "publish"], "postprocess")
AllPublished(me) == Marked([me EXCEPT !.pc = "finalize"], "render")

Saves(r, me) ==
    Saved(r, me) /\ run' = [run EXCEPT ![r] = me] /\ World' = World

\* The types, and what Known needs of each step.
LEMMA AfterOpen ==
    ASSUME TypeOK, NEW me \in Knowledge, Known(me)
    PROVE  Opened(me) \in Knowledge /\ Known(Opened(me))
<1>1. Opened(me) \in Knowledge
  BY DEF Opened, Marked, Knowledge, Record, Working, Stages
<1>2. Kept(Opened(me))
  BY DEF Opened, Marked, Knowledge, Record, Known, Kept, HasText, HasPart
<1>3. HasText(me.given) <=> CanResume(me.given)
  BY DEF Known, Kept, CanResume
<1>4. QED
  BY <1>1, <1>2, <1>3 DEF Opened, Marked, Knowledge, Known, HasText, Written

\* Its knowledge is right after the source is acquired,
LEMMA AfterFetch ==
    ASSUME TypeOK, NEW me \in Knowledge, Known(me), me.pc = "fetch"
    PROVE  /\ ~CanResume(me.given) => Fetched(me) \in Knowledge /\ Known(Fetched(me))
           /\ CanResume(me.given) => Reacquired(me) \in Knowledge /\ Known(Reacquired(me))
<1>1. ASSUME ~CanResume(me.given)
      PROVE  Fetched(me) \in Knowledge /\ Known(Fetched(me))
  <2>1. Fetched(me) \in Knowledge
    BY DEF Fetched, Marked, Knowledge, Working, Stages, TypeOK
  <2>2. ~HasText(me)
    BY <1>1 DEF Known
  <2>3. Kept(Fetched(me))
    BY <2>2 DEF Fetched, Marked, Knowledge, Known, Kept, HasText, HasPart
  <2>4. QED
    BY <1>1, <2>1, <2>2, <2>3 DEF Fetched, Marked, Knowledge, Known, HasText, Written, TypeOK
<1>2. ASSUME CanResume(me.given)
      PROVE  Reacquired(me) \in Knowledge /\ Known(Reacquired(me))
  <2>1. Reacquired(me) \in Knowledge
    BY DEF Reacquired, Marked, Knowledge, Working, Stages, TypeOK
  <2>2. Kept(Reacquired(me))
    BY DEF Reacquired, Marked, Knowledge, Known, Kept, HasText, HasPart
  <2>3. QED
    BY <1>2, <2>1, <2>2 DEF Reacquired, Marked, Knowledge, Known, HasText, Written, TypeOK
<1>3. QED  BY <1>1, <1>2

\* after the audio is extracted,
LEMMA AfterExtract ==
    ASSUME TypeOK, NEW me \in Knowledge, Known(me), me.pc = "extract"
    PROVE  Extracted(me) \in Knowledge /\ Known(Extracted(me))
<1>1. Extracted(me) \in Knowledge
  BY DEF Extracted, Marked, Knowledge, Working, Stages, TypeOK
<1>2. Kept(Extracted(me))
  BY DEF Extracted, Marked, Knowledge, Known, Kept, HasText, HasPart
<1>3. Extracted(me).audio \in 1..version
  BY DEF Extracted, Marked, Knowledge, Known, TypeOK
<1>4. IsFile /\ ~CanResume(me.given) => Extracted(me).ident <= Extracted(me).audio
  BY DEF Extracted, Marked, Knowledge, Known, TypeOK
<1>5. QED
  BY <1>1, <1>2, <1>3, <1>4 DEF Extracted, Marked, Knowledge, Known, HasText, Written

\* after one more block of words,
LEMMA AfterCore ==
    ASSUME TypeOK, NEW me \in Knowledge, Known(me), me.pc = "core", me.part.n < Cores
    PROVE  Grown(me) \in Knowledge /\ Known(Grown(me))
<1>0. me.part.n + 1 \in 0..Cores /\ me.audio \in Nat
  <2>1. me.part.n \in 0..Cores /\ me.audio \in Nat
    BY DEF Knowledge, Blocks
  <2>2. QED  BY <2>1, BoundsAssumption
<1>1. Grown(me) \in Knowledge
  BY <1>0 DEF Grown, Knowledge, Blocks
<1>2. Kept(Grown(me))
  BY DEF Grown, Knowledge, Known, Kept, HasText
<1>3. QED
  BY <1>1, <1>2 DEF Grown, Knowledge, Known, HasText, Written

\* after the blocks became the transcript of an unchanged recording,
LEMMA AfterRecheck ==
    ASSUME TypeOK, NEW me \in Knowledge, Known(me), me.pc = "recheck",
           IsFile => version = me.ident
    PROVE  /\ Transcribed(me) \in Knowledge /\ Known(Transcribed(me))
           /\ HasText(Transcribed(me))
<1>1. Transcribed(me) \in Knowledge
  BY ConstantFacts DEF Transcribed, Marked, Knowledge, Working, Stages, Heard, NoWords
<1>2. /\ Transcribed(me).text.src = me.audio /\ Transcribed(me).ident = me.ident
      /\ Transcribed(me).part = NoPart /\ "transcribe" \in Transcribed(me).stages
  BY DEF Transcribed, Marked, Knowledge, NoWords
<1>3. me.audio # 0 /\ (IsFile => me.audio = me.ident)
  BY DEF Known, TypeOK, Knowledge
<1>4. Kept(Transcribed(me)) /\ HasText(Transcribed(me))
  BY <1>2, <1>3 DEF Kept, HasText, HasPart, NoPart
<1>5. QED
  BY <1>1, <1>4 DEF Transcribed, Marked, Knowledge, Known, Written

\* after an optional stage,
LEMMA AfterLabels ==
    ASSUME TypeOK, NEW me \in Knowledge, Known(me), NEW r \in Runs
    PROVE  /\ me.pc = "diarize" => Diarized(me, r) \in Knowledge /\ Known(Diarized(me, r))
           /\ me.pc = "translate" => Translated(me, r) \in Knowledge /\ Known(Translated(me, r))
<1>0. me.req.dia \in Whats /\ me.req.tr \in Whats /\ r \in Nat
  BY ConstantFacts DEF Knowledge, Asks, Whats, Runs
<1>1. ASSUME me.pc = "diarize"
      PROVE  Diarized(me, r) \in Knowledge /\ Known(Diarized(me, r))
  <2>1. Diarized(me, r) \in Knowledge
    BY <1>0 DEF Diarized, Marked, Knowledge, Working, Stages, Heard, Label
  <2>2. /\ Diarized(me, r).text.src = me.text.src /\ Diarized(me, r).ident = me.ident
        /\ Diarized(me, r).part = me.part
        /\ Diarized(me, r).stages = me.stages \cup {"diarize"}
    BY DEF Diarized, Marked, Knowledge, Heard
  <2>3. Kept(Diarized(me, r)) /\ HasText(Diarized(me, r))
    BY <1>1, <2>2 DEF Known, Kept, HasText, HasPart, Written
  <2>4. QED
    BY <1>1, <2>1, <2>3 DEF Diarized, Marked, Knowledge, Known, Written
<1>2. ASSUME me.pc = "translate"
      PROVE  Translated(me, r) \in Knowledge /\ Known(Translated(me, r))
  <2>1. Translated(me, r) \in Knowledge
    BY <1>0 DEF Translated, Marked, Knowledge, Working, Stages, Heard, Label
  <2>2. /\ Translated(me, r).text.src = me.text.src /\ Translated(me, r).ident = me.ident
        /\ Translated(me, r).part = me.part
        /\ Translated(me, r).stages = me.stages \cup {"translate"}
    BY DEF Translated, Marked, Knowledge, Heard
  <2>3. Kept(Translated(me, r)) /\ HasText(Translated(me, r))
    BY <1>2, <2>2 DEF Known, Kept, HasText, HasPart, Written
  <2>4. QED
    BY <1>2, <2>1, <2>3 DEF Translated, Marked, Knowledge, Known, Written
<1>3. QED  BY <1>1, <1>2

\* and after the stages are marked.
LEMMA AfterMarks ==
    ASSUME TypeOK, NEW me \in Knowledge, Known(me)
    PROVE  /\ me.pc = "mark" => MarkedAll(me) \in Knowledge /\ Known(MarkedAll(me))
           /\ me.pc = "publish" => AllPublished(me) \in Knowledge /\ Known(AllPublished(me))
<1>1. MarkedAll(me) \in Knowledge /\ AllPublished(me) \in Knowledge
  BY DEF MarkedAll, AllPublished, Marked, Knowledge, Working, Stages
<1>2. Kept(MarkedAll(me)) /\ Kept(AllPublished(me))
  BY DEF MarkedAll, AllPublished, Marked, Knowledge, Known, Kept, HasText, HasPart
<1>3. QED
  BY <1>1, <1>2 DEF MarkedAll, AllPublished, Marked, Knowledge, Known, HasText, Written

\* Going on without learning anything.
LEMMA AfterMove ==
    ASSUME TypeOK, NEW me \in Knowledge, Known(me), NEW pc, NEW done \in 0..Len(Formats),
           \/ me.pc = "core" /\ pc = "recheck" /\ me.part.n = Cores
           \/ me.pc \in Written /\ pc \in Written,
           pc \in {"link", "refused"} => done < Len(Formats)
    PROVE  LET next == [me EXCEPT !.pc = pc, !.done = done]
           IN  /\ next \in Knowledge /\ Known(next)
               /\ Snapshot(next) = Snapshot(me)
<1> DEFINE next == [me EXCEPT !.pc = pc, !.done = done]
<1>1. next \in Knowledge
  BY DEF Knowledge, Working, Written
<1>2. Kept(next)
  BY DEF Knowledge, Known, Kept, HasText, HasPart
<1>3. Known(next)
  BY <1>2 DEF Knowledge, Known, HasText, Written
<1>4. Snapshot(next) = Snapshot(me)
  BY DEF Knowledge, Snapshot
<1>5. QED  BY <1>1, <1>3, <1>4

\* Each stage of a run, as a save of what it makes of the run's knowledge.
LEMMA StageSteps ==
    ASSUME NEW r \in Runs
    PROVE  /\ Open(r) => run[r].pc = "open" /\ Saves(r, Opened(run[r]))
           /\ Fetch(r) => /\ run[r].pc = "fetch" /\ ~CanResume(run[r].given)
                          /\ Saves(r, Fetched(run[r]))
           /\ Reacquire(r) => /\ run[r].pc = "fetch" /\ CanResume(run[r].given)
                              /\ Saves(r, Reacquired(run[r]))
           /\ Extract(r) => run[r].pc = "extract" /\ Saves(r, Extracted(run[r]))
           /\ Core(r) => /\ run[r].pc = "core" /\ run[r].part.n < Cores
                         /\ Saves(r, Grown(run[r]))
           /\ Recheck(r) => /\ run[r].pc = "recheck" /\ (IsFile => version = run[r].ident)
                            /\ Saves(r, Transcribed(run[r]))
           /\ Mark(r) => run[r].pc = "mark" /\ Saves(r, MarkedAll(run[r]))
           /\ Published(r) => /\ run[r].pc = "publish" /\ run[r].done = Len(Formats)
                              /\ Saves(r, AllPublished(run[r]))
<1> USE DEF Saves, SaveStage, Marked, World
<1>1. Open(r) => run[r].pc = "open" /\ Saves(r, Opened(run[r]))
  BY DEF Open, Opened
<1>2. Fetch(r) => /\ run[r].pc = "fetch" /\ ~CanResume(run[r].given)
                  /\ Saves(r, Fetched(run[r]))
  BY DEF Fetch, Fetched
<1>3. Reacquire(r) => /\ run[r].pc = "fetch" /\ CanResume(run[r].given)
                      /\ Saves(r, Reacquired(run[r]))
  BY DEF Reacquire, Reacquired
<1>4. Extract(r) => run[r].pc = "extract" /\ Saves(r, Extracted(run[r]))
  BY DEF Extract, Extracted
<1>5. Core(r) => /\ run[r].pc = "core" /\ run[r].part.n < Cores
                 /\ Saves(r, Grown(run[r]))
  BY DEF Core, Grown
<1>6. Recheck(r) => /\ run[r].pc = "recheck" /\ (IsFile => version = run[r].ident)
                    /\ Saves(r, Transcribed(run[r]))
  BY DEF Recheck, Transcribed
<1>7. Mark(r) => run[r].pc = "mark" /\ Saves(r, MarkedAll(run[r]))
  BY DEF Mark, MarkedAll
<1>8. Published(r) => /\ run[r].pc = "publish" /\ run[r].done = Len(Formats)
                      /\ Saves(r, AllPublished(run[r]))
  BY DEF Published, AllPublished
<1>9. QED  BY <1>1, <1>2, <1>3, <1>4, <1>5, <1>6, <1>7, <1>8

\* An optional stage is done, or passed over.
LEMMA LabelSteps ==
    ASSUME NEW r \in Runs
    PROVE  /\ Diarize(r) => /\ run[r].pc = "diarize"
                            /\ IF Due(run[r], "diarize", run[r].req.dia)
                               THEN Saves(r, Diarized(run[r], r))
                               ELSE Move(r, [run[r] EXCEPT !.pc = "translate"])
                            /\ World' = World
           /\ Translate(r) => /\ run[r].pc = "translate"
                              /\ IF Due(run[r], "translate", run[r].req.tr)
                                 THEN Saves(r, Translated(run[r], r))
                                 ELSE Move(r, [run[r] EXCEPT !.pc = "mark"])
                              /\ World' = World
<1>1. Diarize(r) => /\ run[r].pc = "diarize"
                    /\ IF Due(run[r], "diarize", run[r].req.dia)
                       THEN Saves(r, Diarized(run[r], r))
                       ELSE Move(r, [run[r] EXCEPT !.pc = "translate"])
                    /\ World' = World
  BY DEF Diarize, Diarized, Saves, SaveStage, Marked, World
<1>2. Translate(r) => /\ run[r].pc = "translate"
                      /\ IF Due(run[r], "translate", run[r].req.tr)
                         THEN Saves(r, Translated(run[r], r))
                         ELSE Move(r, [run[r] EXCEPT !.pc = "mark"])
                      /\ World' = World
  BY DEF Translate, Translated, Saves, SaveStage, Marked, World
<1>3. QED  BY <1>1, <1>2

\* What a run at work knows is right.
LEMMA KnownNow ==
    ASSUME Core_IInv, NEW r \in Runs, Live(r)
    PROVE  run[r] \in Knowledge /\ Known(run[r])
BY DEF Core_IInv, TypeOK, Understood

\* What a save leaves as it was: the request, what the run was handed, how many
\* formats it published.
LEMMA SavedFields ==
    ASSUME NEW me \in Knowledge, NEW r \in Runs, TypeOK
    PROVE  /\ Opened(me).pc \in Saving /\ Fetched(me).pc = "extract"
           /\ Reacquired(me).pc = "extract" /\ Extracted(me).pc \in {"diarize", "core"}
           /\ Grown(me).pc = me.pc /\ Transcribed(me).pc = "diarize"
           /\ Diarized(me, r).pc = "translate" /\ Translated(me, r).pc = "mark"
           /\ MarkedAll(me).pc = "publish" /\ AllPublished(me).pc = "finalize"
           /\ \A next \in {Opened(me), Fetched(me), Reacquired(me), Extracted(me), Grown(me),
                           Transcribed(me), Diarized(me, r), Translated(me, r),
                           MarkedAll(me), AllPublished(me)} :
                 next.req = me.req /\ next.given = me.given /\ next.done = me.done
BY DEF Opened, Fetched, Reacquired, Extracted, Grown, Transcribed, Diarized, Translated, MarkedAll, AllPublished, Marked, Knowledge, Saving, Working

\* The required stages keep the core of the argument.
LEMMA StagesKeep ==
    ASSUME Core_IInv, NEW r \in Runs,
           \/ Open(r) \/ Fetch(r) \/ Reacquire(r) \/ Extract(r) \/ Core(r) \/ Recheck(r)
           \/ Mark(r) \/ Published(r)
    PROVE  Core_IInv'
<1>1. Live(r)
  BY StageSteps DEF Live, Working
<1>2. run[r] \in Knowledge /\ Known(run[r]) /\ TypeOK
  BY <1>1, KnownNow DEF Core_IInv
<1> USE <1>1, <1>2, SavesKeep, SavedFields, StageSteps DEF Saves, Saving, Working
<1>3. CASE Open(r)
  BY <1>3, AfterOpen
<1>4. CASE Fetch(r)
  BY <1>4, AfterFetch
<1>5. CASE Reacquire(r)
  BY <1>5, AfterFetch
<1>6. CASE Extract(r)
  BY <1>6, AfterExtract
<1>7. CASE Core(r)
  BY <1>7, AfterCore
<1>8. CASE Recheck(r)
  BY <1>8, AfterRecheck
<1>9. CASE Mark(r)
  BY <1>9, AfterMarks
<1>10. CASE Published(r)
  BY <1>10, AfterMarks
<1>11. QED
  BY <1>3, <1>4, <1>5, <1>6, <1>7, <1>8, <1>9, <1>10

\* So does a run that moves on without saving.
LEMMA MovesOn ==
    ASSUME Core_IInv, NEW r \in Runs, Live(r), NEW pc, NEW done \in 0..Len(Formats),
           \/ run[r].pc = "core" /\ pc = "recheck" /\ run[r].part.n = Cores
           \/ run[r].pc \in Written /\ pc \in Written,
           pc \in {"link", "refused"} => done < Len(Formats),
           Move(r, [run[r] EXCEPT !.pc = pc, !.done = done]),
           kind' = kind, version' = version, overlapped' = overlapped,
           intruders' = intruders, removals' = removals, disk' \in [FormatSet -> File]
    PROVE  Core_IInv'
<1> DEFINE next == [run[r] EXCEPT !.pc = pc, !.done = done]
<1>1. run[r] \in Knowledge /\ Known(run[r]) /\ TypeOK
  BY KnownNow DEF Core_IInv
<1>2. next \in Knowledge /\ Known(next) /\ Snapshot(next) = Snapshot(run[r])
  BY <1>1, AfterMove
<1>3. next.pc = pc /\ next.req = run[r].req
  BY <1>1 DEF Knowledge
<1>4. run[r].pc # "open" /\ pc \in Saving
  BY DEF Written, Saving, Working
<1>5. QED
  BY <1>2, <1>3, <1>4, MovesKeep

\* A record with its own field put back is itself.
LEMMA SamePlace ==
    ASSUME NEW me \in Knowledge, NEW pc
    PROVE  /\ me.done \in 0..Len(Formats)
           /\ [me EXCEPT !.pc = pc] = [me EXCEPT !.pc = pc, !.done = me.done]
BY DEF Knowledge

\* The optional stages keep it.
LEMMA LabelsKeep ==
    ASSUME Core_IInv, NEW r \in Runs, Diarize(r) \/ Translate(r)
    PROVE  Core_IInv'
<1>1. Live(r)
  BY LabelSteps DEF Live, Working
<1>2. run[r] \in Knowledge /\ Known(run[r]) /\ TypeOK
  BY <1>1, KnownNow DEF Core_IInv
<1>3. CASE Diarize(r)
  <2>1. CASE Due(run[r], "diarize", run[r].req.dia)
    <3>1. run[r].pc = "diarize" /\ Saves(r, Diarized(run[r], r))
      BY <1>3, <2>1, LabelSteps
    <3>2. Diarized(run[r], r) \in Knowledge /\ Known(Diarized(run[r], r))
      BY <1>2, <3>1, AfterLabels
    <3>3. /\ Diarized(run[r], r).req = run[r].req
          /\ Diarized(run[r], r).pc \in Saving
      BY <1>2, SavedFields DEF Saving, Working
    <3>4. QED  BY <1>1, <3>1, <3>2, <3>3, SavesKeep DEF Saves
  <2>2. CASE ~Due(run[r], "diarize", run[r].req.dia)
    <3>1. Move(r, [run[r] EXCEPT !.pc = "translate", !.done = run[r].done])
          /\ run[r].pc = "diarize" /\ World' = World
      BY <1>2, <1>3, <2>2, LabelSteps, SamePlace
    <3>2. QED  BY <1>1, <1>2, <3>1, MovesOn, SamePlace, ZenonT(30) DEF World, Written, TypeOK
  <2>3. QED  BY <2>1, <2>2
<1>4. CASE Translate(r)
  <2>1. CASE Due(run[r], "translate", run[r].req.tr)
    <3>1. run[r].pc = "translate" /\ Saves(r, Translated(run[r], r))
      BY <1>4, <2>1, LabelSteps
    <3>2. Translated(run[r], r) \in Knowledge /\ Known(Translated(run[r], r))
      BY <1>2, <3>1, AfterLabels
    <3>3. /\ Translated(run[r], r).req = run[r].req
          /\ Translated(run[r], r).pc \in Saving
      BY <1>2, SavedFields DEF Saving, Working
    <3>4. QED  BY <1>1, <3>1, <3>2, <3>3, SavesKeep DEF Saves
  <2>2. CASE ~Due(run[r], "translate", run[r].req.tr)
    <3>1. Move(r, [run[r] EXCEPT !.pc = "mark", !.done = run[r].done])
          /\ run[r].pc = "translate" /\ World' = World
      BY <1>2, <1>4, <2>2, LabelSteps, SamePlace
    <3>2. QED  BY <1>1, <1>2, <3>1, MovesOn, SamePlace, ZenonT(30) DEF World, Written, TypeOK
  <2>3. QED  BY <2>1, <2>2
<1>5. QED  BY <1>3, <1>4

\* Publication: one format adopted, linked or refused.  What is written are the
\* run's words.
LEMMA RenderedType ==
    ASSUME NEW words \in Heard, NEW stamp \in Nat, NEW f
    PROVE  /\ Rendered(f, words, stamp) \in File
           /\ Rendered(f, words, stamp).by = Mine /\ Rendered(f, words, stamp).words = words
           /\ Rendered(f, words, stamp).whole
           /\ f \notin Stamped => Rendered(f, words, stamp).stamp = 0
BY DEF Rendered, File

\* The next format to publish is one of those requested.
LEMMA FormatAt ==
    ASSUME NEW done \in 0..Len(Formats), done < Len(Formats)
    PROVE  /\ done + 1 \in 1..Len(Formats) /\ done + 1 \in 0..Len(Formats)
           /\ Formats[done + 1] \in FormatSet
BY ConstantFacts DEF FormatSet

\* Writing the outputs keeps it.
LEMMA PublishingKeeps ==
    ASSUME Core_IInv, NEW r \in Runs, CoresDone(r) \/ Publish(r) \/ Link(r)
    PROVE  Core_IInv'
<1> DEFINE me == run[r]
<1>1. Live(r)
  BY DEF CoresDone, Publish, Link, Live, Working
<1>2. me \in Knowledge /\ Known(me) /\ TypeOK
  BY <1>1, KnownNow DEF Core_IInv
<1>3. CASE CoresDone(r)
  <2>1. /\ Move(r, [me EXCEPT !.pc = "recheck", !.done = me.done])
        /\ me.pc = "core" /\ me.part.n = Cores /\ World' = World
    BY <1>2, <1>3, SamePlace DEF CoresDone, World
  <2>2. QED  BY <1>1, <1>2, <2>1, MovesOn, SamePlace DEF World, TypeOK
<1>4. CASE Publish(r)
  <2>1. me.pc = "publish" /\ me.done < Len(Formats) /\ World' = World
    BY <1>4 DEF Publish, World
  <2>2. me.done + 1 \in 0..Len(Formats)
    BY <1>2, <2>1, FormatAt, SamePlace
  <2>3. \/ Move(r, [me EXCEPT !.pc = "publish", !.done = me.done + 1])
        \/ Move(r, [me EXCEPT !.pc = "link", !.done = me.done])
    <3>1. Move(r, [me EXCEPT !.done = @ + 1]) \/ Move(r, [me EXCEPT !.pc = "link"])
      BY <1>4 DEF Publish
    <3>2. [me EXCEPT !.done = @ + 1] = [me EXCEPT !.pc = "publish", !.done = me.done + 1]
      BY <1>2, <2>1 DEF Knowledge
    <3>3. QED  BY <1>2, <3>1, <3>2, SamePlace
  <2>4. QED  BY <1>1, <1>2, <2>1, <2>2, <2>3, MovesOn, SamePlace DEF World, TypeOK, Written
<1>5. CASE Link(r)
  <2>1. me.pc = "link" /\ me.done < Len(Formats)
    BY <1>2, <1>5 DEF Link, Known
  <2>2. me.done + 1 \in 0..Len(Formats)
    BY <1>2, <2>1, FormatAt, SamePlace
  <2>3. disk' \in [FormatSet -> File]
    <3>1. Rendered(Formats[me.done + 1], me.text, r) \in File
      <4>1. me.text \in Heard /\ r \in Nat
        BY <1>2, BoundsAssumption DEF Knowledge, Runs
      <4>2. QED  BY <4>1, RenderedType
    <3>2. QED  BY <1>2, <1>5, <3>1 DEF Link, TypeOK
  <2>4. \/ Move(r, [me EXCEPT !.pc = "publish", !.done = me.done + 1])
        \/ Move(r, [me EXCEPT !.pc = "refused", !.done = me.done])
    <3>1. \/ Move(r, [me EXCEPT !.done = @ + 1, !.pc = "publish"])
          \/ Move(r, [me EXCEPT !.pc = "refused"])
      BY <1>5 DEF Link
    <3>2. [me EXCEPT !.done = @ + 1, !.pc = "publish"]
            = [me EXCEPT !.pc = "publish", !.done = me.done + 1]
      BY <1>2 DEF Knowledge
    <3>3. QED  BY <1>2, <3>1, <3>2, SamePlace
  <2>5. /\ kind' = kind /\ version' = version /\ overlapped' = overlapped
        /\ intruders' = intruders /\ removals' = removals
    BY <1>5 DEF Link
  <2>6. CASE Move(r, [me EXCEPT !.pc = "publish", !.done = me.done + 1])
    <3>1. run[r].pc \in Written /\ "publish" \in Written /\ "publish" \notin {"link", "refused"}
      BY <2>1 DEF Written
    <3>2. QED  BY <1>1, <2>2, <2>3, <2>5, <2>6, <3>1, MovesOn
  <2>7. CASE Move(r, [me EXCEPT !.pc = "refused", !.done = me.done])
    <3>1. me.done \in 0..Len(Formats)
      BY <1>2, SamePlace
    <3>2. QED  BY <1>1, <2>1, <2>3, <2>5, <2>7, <3>1, MovesOn DEF Written
  <2>8. QED  BY <2>4, <2>6, <2>7
<1>6. QED  BY <1>3, <1>4, <1>5

\* A run is over, and its row may have been settled.
LEMMA EndingKeeps ==
    ASSUME Core_IInv, NEW r \in Runs, Finalize(r) \/ Fail(r) \/ Die(r)
    PROVE  Core_IInv'
<1> USE DEF Core_IInv
<1>1. Live(r) /\ run' = [run EXCEPT ![r] = Over] /\ World' = World
  BY DEF Finalize, Fail, Die, World, Live, Working
<1>2. \A q \in Runs : /\ q # r => run'[q] = run[q]
                      /\ run'[r].pc = "over"
                      /\ Live(q)' => q # r /\ Live(q)
  BY <1>1 DEF TypeOK, Over, Unborn, Live, Working
<1>3. run[r] \in Knowledge /\ Known(run[r])
  BY <1>1, KnownNow
<1>4. \/ row' = row
      \/ Owned(r) /\ row' = [row EXCEPT !.state = "error"]
      \/ /\ Owned(r) /\ run[r].pc = "finalize"
         /\ row' = [row EXCEPT !.state = "done", !.words = run[r].text,
                               !.outputs = FormatSet, !.ckpt = MetadataOnly(@)]
  BY DEF Finalize, Fail, Die
<1>5. TypeOK'
  <2>1. row' \in RowType
    <3>1. MetadataOnly(row.ckpt) \in Record
      BY ConstantFacts DEF MetadataOnly, TypeOK, Record
    <3>2. QED  BY <1>3, <1>4, <3>1 DEF TypeOK, Knowledge
  <2>2. QED  BY <1>1, <2>1, ConstantFacts DEF TypeOK, World
<1>6. Understood'
  <2> SUFFICES ASSUME NEW q \in Runs, Live(q)'  PROVE Known(run[q])'
    BY DEF Understood
  <2>1. run'[q] = run[q] /\ run[q] \in Knowledge /\ Known(run[q])
    BY <1>2, KnownNow
  <2>2. QED  BY <1>1, <2>1, KnownLater DEF TypeOK, World
<1>7. Stored'
  <2>1. CASE row' = row
    BY <1>1, <2>1 DEF Stored, Kept, Readable, HasText, HasPart, IsFile, World
  <2>2. CASE Owned(r) /\ row' = [row EXCEPT !.state = "error"]
    BY <1>1, <2>2 DEF Stored, Kept, Readable, HasText, HasPart, IsFile, World, TypeOK, Owned
  <2>3. CASE /\ Owned(r) /\ run[r].pc = "finalize"
             /\ row' = [row EXCEPT !.state = "done", !.words = run[r].text,
                                   !.outputs = FormatSet, !.ckpt = MetadataOnly(@)]
    <3>1. row.ckpt = Snapshot(run[r])
      BY <1>1, <2>3 DEF InStep
    <3>2. row'.ckpt.ident = run[r].ident /\ row'.words = run[r].text /\ row'.state = "done"
          /\ row'.ckpt.text = NoWords /\ row'.ckpt.part = NoPart
      <4>1. row.ckpt \in Record /\ row.ckpt.ident = run[r].ident
        BY <3>1 DEF TypeOK, Snapshot
      <4>2. /\ MetadataOnly(row.ckpt).ident = row.ckpt.ident
            /\ MetadataOnly(row.ckpt).text = NoWords /\ MetadataOnly(row.ckpt).part = NoPart
        BY <4>1 DEF MetadataOnly, Record
      <4>3. QED  BY <2>3, <4>1, <4>2 DEF TypeOK
    <3>3. IsFile => run[r].text.src = run[r].ident
      BY <1>3, <2>3 DEF Known, Kept, Written
    <3>4. QED  BY <1>1, <3>2, <3>3 DEF Stored, HasText, HasPart, NoWords, NoPart, IsFile, World
  <2>4. QED  BY <1>4, <2>1, <2>2, <2>3
<1>8. InStep'
  <2> SUFFICES ASSUME NEW q \in Runs, Owned(q)', Live(q)'
      PROVE /\ row'.req = run'[q].req
            /\ run'[q].pc # "open" => row'.ckpt = Snapshot(run[q])'
            /\ run'[q].pc = "open" =>
                  IF run'[q].given # NoRecord THEN row'.ckpt = run'[q].given
                  ELSE ~HasText(row.ckpt)' /\ ~HasPart(row.ckpt)'
    BY DEF InStep
  <2>1. row' = row
    BY <1>4 DEF Owned, TypeOK
  <2>2. run'[q] = run[q] /\ Owned(q) /\ Live(q)
    BY <1>2, <2>1 DEF Owned
  <2>3. QED  BY <2>1, <2>2 DEF InStep, Snapshot, HasText, HasPart
<1>9. Ordered'
  <2>1. row'.attempt = row.attempt
    BY <1>4 DEF TypeOK
  <2>2. QED  BY <1>1, <1>2, <2>1 DEF Ordered, Live, Working
<1>10. QED  BY <1>5, <1>6, <1>7, <1>8, <1>9

\* What a run that was just launched knows.
Launched(req, record) ==
    [Unborn EXCEPT !.pc = "open", !.req = req, !.given = record]

Record_At(r) == IF row.state = "fresh" THEN NoRecord ELSE Parse(row.ckpt)

\* A launch takes over a row that nobody works on, and hands its record to the run.
LEMMA LaunchFacts ==
    ASSUME Core_IInv, NEW r \in Runs, NEW req \in Requests, Launch(r, req)
    PROVE  /\ row.state \in {"fresh", "error"} /\ r = row.attempt + 1
           /\ row'.state = "running" /\ row'.attempt = r /\ row'.req = req
           /\ row'.words = row.words /\ row' \in RowType
           /\ row'.ckpt = IF Record_At(r) = NoRecord THEN row.ckpt ELSE Record_At(r)
           /\ run' = [run EXCEPT ![r] = Launched(req, Record_At(r))]
           /\ Launched(req, Record_At(r)) \in Knowledge /\ Record_At(r) \in Record
           /\ World' = World
           /\ SameRequest /\ Record_At(r) # NoRecord => row.ckpt.req = req
           /\ (SameRequest \/ row.state = "fresh") => req = row.req
           /\ IsFile /\ Record_At(r) # NoRecord => LocalUnchanged(Record_At(r), version)
<1> USE DEF Core_IInv
<1>1. Record_At(r) \in Record
  BY ParseFacts, ConstantFacts DEF Record_At, TypeOK
<1>2. Launched(req, Record_At(r)) \in Knowledge
  BY <1>1, ConstantFacts DEF Launched, Knowledge, Asks, Working
<1>3. /\ row.state \in {"fresh", "error"} /\ r = row.attempt + 1
      /\ row' = [row EXCEPT !.state = "running", !.attempt = r, !.req = req,
                            !.ckpt = IF Record_At(r) = NoRecord THEN @ ELSE Record_At(r)]
      /\ run' = [run EXCEPT ![r] = Launched(req, Record_At(r))]
      /\ World' = World
      /\ (SameRequest \/ row.state = "fresh") => req = row.req
      /\ SameRequest /\ Record_At(r) # NoRecord => SameOptions(Record_At(r), req)
      /\ IsFile /\ Record_At(r) # NoRecord => LocalUnchanged(Record_At(r), version)
  BY DEF Launch, Record_At, Launched, World
<1>4. SameRequest /\ Record_At(r) # NoRecord => row.ckpt.req = req
  BY <1>3, ParseFacts DEF SameOptions, Record_At, TypeOK
<1>5. row' = [row EXCEPT !.state = "running", !.attempt = r, !.req = req,
                         !.ckpt = IF Record_At(r) = NoRecord THEN row.ckpt ELSE Record_At(r)]
  BY <1>3
<1>6. r \in 0..MaxRuns /\ req \in Asks
  BY ConstantFacts DEF Runs, Asks
<1>7. row' \in RowType
  BY <1>1, <1>5, <1>6 DEF TypeOK, RowType
<1>8. QED  BY <1>1, <1>2, <1>3, <1>4, <1>5, <1>7 DEF TypeOK, RowType

\* The record a run is handed, whatever the row holds.
LEMMA HandedFacts ==
    ASSUME Core_IInv, NEW r \in Runs, row.state \in {"fresh", "error"},
           IsFile /\ Record_At(r) # NoRecord => LocalUnchanged(Record_At(r), version)
    PROVE  LET record == Record_At(r)
           IN  /\ Kept(record) /\ Readable(record)
               /\ record = NoRecord \/ HasText(record) \/ HasPart(record)
               /\ record = NoRecord => ~HasText(row.ckpt) /\ ~HasPart(row.ckpt)
               /\ record # NoRecord => /\ record.text = row.ckpt.text
                                       /\ record.part = row.ckpt.part
                                       /\ record.stages = row.ckpt.stages
                                       /\ record.req = row.ckpt.req
<1> DEFINE record == Record_At(r)
<1> USE DEF Core_IInv
<1>1. row.ckpt \in Record /\ Kept(row.ckpt) /\ Readable(row.ckpt)
  BY DEF TypeOK, Stored
<1>2. CASE record = NoRecord
  <2>1. ~HasText(row.ckpt) /\ ~HasPart(row.ckpt)
    <3>1. CASE row.state = "fresh"
      BY <3>1 DEF Stored, NoRecord, HasText, HasPart, NoWords, NoPart
    <3>2. CASE row.state # "fresh"
      BY <1>1, <1>2, <3>2, ParseFacts DEF Record_At
    <3>3. QED  BY <3>1, <3>2
  <2>2. Kept(record) /\ Readable(record)
    BY <1>2 DEF Kept, Readable, NoRecord, HasText, HasPart, NoWords, NoPart
  <2>3. QED  BY <1>2, <2>1, <2>2
<1>3. CASE record # NoRecord
  <2>1. /\ record.text = row.ckpt.text /\ record.part = row.ckpt.part
        /\ record.stages = row.ckpt.stages /\ record.req = row.ckpt.req
        /\ record.version = row.ckpt.version /\ Coherent(row.ckpt)
        /\ record.ident # 0 => record.ident = row.ckpt.ident
    BY <1>1, <1>3, ParseFacts DEF Record_At
  <2>2. IsFile => record.ident # 0
    BY <1>3 DEF LocalUnchanged
  <2>3. Kept(record) /\ Readable(record)
    BY <1>1, <2>1, <2>2 DEF Kept, Readable, HasText, HasPart
  <2>4. HasText(record) \/ HasPart(record)
    BY <2>1 DEF Coherent, HasText, HasPart
  <2>5. QED  BY <1>3, <2>1, <2>3, <2>4
<1>4. QED  BY <1>2, <1>3

\* A launch keeps the core of the argument.
LEMMA LaunchKeeps ==
    ASSUME Core_IInv, NEW r \in Runs, NEW req \in Requests, Launch(r, req)
    PROVE  Core_IInv'
<1> DEFINE record == Record_At(r)
           me == Launched(req, record)
<1>1. /\ row.state \in {"fresh", "error"} /\ r = row.attempt + 1
      /\ row'.state = "running" /\ row'.attempt = r /\ row'.req = req
      /\ row'.ckpt = IF record = NoRecord THEN row.ckpt ELSE record
      /\ run' = [run EXCEPT ![r] = me]
      /\ me \in Knowledge /\ record \in Record /\ World' = World
  BY LaunchFacts
<1>2. /\ Kept(record) /\ Readable(record)
      /\ record = NoRecord \/ HasText(record) \/ HasPart(record)
      /\ record = NoRecord => ~HasText(row.ckpt) /\ ~HasPart(row.ckpt)
  BY <1>1, LaunchFacts, HandedFacts
<1>3. /\ me.pc = "open" /\ me.req = req /\ me.given = record /\ me.stages = {}
      /\ me.text = NoWords /\ me.part = NoPart /\ me.ident = 0 /\ me.done = 0
  BY DEF Launched, Unborn
<1>4. Known(me)
  BY <1>2, <1>3 DEF Known, Kept, HasText, HasPart, NoWords, NoPart, Written
<1> USE DEF Core_IInv
<1>5. \A q \in Runs : q # r => run'[q] = run[q]
  BY <1>1 DEF TypeOK
<1>6. run'[r] = me
  BY <1>1 DEF TypeOK
<1>7. TypeOK'
  <2>1. row' \in RowType
    BY LaunchFacts
  <2>2. QED  BY <1>1, <2>1 DEF TypeOK, RowType, World
<1>8. Understood'
  <2> SUFFICES ASSUME NEW q \in Runs, Live(q)'  PROVE Known(run[q])'
    BY DEF Understood
  <2>1. CASE q = r
    BY <1>1, <1>4, <1>6, <2>1, KnownLater DEF TypeOK, World
  <2>2. CASE q # r
    <3>1. run'[q] = run[q] /\ run[q] \in Knowledge /\ Known(run[q])
      BY <1>5, <2>2, KnownNow DEF Live
    <3>2. QED  BY <1>1, <3>1, KnownLater DEF TypeOK, World
  <2>3. QED  BY <2>1, <2>2
<1>9. Stored'
  <2>1. row'.ckpt \in {row.ckpt, record}
    BY <1>1
  <2>2. Kept(row.ckpt) /\ Readable(row.ckpt)
    BY <1>1 DEF Stored
  <2>3. QED  BY <1>1, <1>2, <2>1, <2>2 DEF Stored, Kept, Readable, HasText, HasPart, IsFile, World
<1>10. InStep'
  <2> SUFFICES ASSUME NEW q \in Runs, Owned(q)', Live(q)'
      PROVE /\ row'.req = run'[q].req
            /\ run'[q].pc = "open"
            /\ IF run'[q].given # NoRecord THEN row'.ckpt = run'[q].given
               ELSE ~HasText(row.ckpt)' /\ ~HasPart(row.ckpt)'
    BY DEF InStep
  <2>1. q = r
    BY <1>1 DEF Owned
  <2>2. QED  BY <1>1, <1>2, <1>3, <1>6, <2>1 DEF HasText, HasPart
<1>11. Ordered'
  <2> SUFFICES ASSUME NEW q \in Runs, q > row'.attempt  PROVE run'[q].pc = "unborn"
    BY DEF Ordered
  <2>1. q # r /\ q > row.attempt
    BY <1>1 DEF Runs, TypeOK
  <2>2. QED  BY <1>5, <2>1 DEF Ordered
<1>12. QED  BY <1>7, <1>8, <1>9, <1>10, <1>11

\* The steps of everybody else leave the runs and the record alone.
LEMMA EnsuredFiles ==
    ASSUME TypeOK, NEW stamp \in Nat, NEW volume \in Volumes
    PROVE  LET result == Ensured(disk, row.outputs, Formats, row.words, stamp, volume)
           IN  /\ result.disk \in [FormatSet -> File]
               /\ \A f \in FormatSet : result.disk[f] \in {disk[f], Rendered(f, row.words, stamp)}
<1> DEFINE result == Ensured(disk, row.outputs, Formats, row.words, stamp, volume)
<1>1. DOMAIN disk = FormatSet /\ row.words \in Heard
  BY DEF TypeOK
<1>2. \A f \in FormatSet : result.disk[f] \in {disk[f], Rendered(f, row.words, stamp)}
  BY <1>1 DEF Ensured
<1>3. \A f \in FormatSet : Rendered(f, row.words, stamp) \in File
  BY <1>1, RenderedType
<1>4. result.disk = [f \in FormatSet |-> result.disk[f]]
  BY <1>1 DEF Ensured
<1>5. result.disk \in [FormatSet -> File]
  BY <1>2, <1>3, <1>4 DEF TypeOK
<1>6. QED  BY <1>2, <1>5

\* A reader of a finished job, a reap, an edit and the directory keep it.
LEMMA OthersKeep ==
    ASSUME Core_IInv,
           \/ \E volume \in Volumes : ReuseDone(row.attempt + 1, volume)
           \/ Reap \/ Edit \/ \E f \in FormatSet : Intrude(f) \/ Remove(f)
           \/ UNCHANGED vars
    PROVE  Core_IInv'
<1> USE DEF Core_IInv
<1> DEFINE Quiet ==
      /\ run' = run /\ kind' = kind
      /\ \/ row' = row
         \/ row.state = "running" /\ row' = [row EXCEPT !.state = "error"]
         \/ row.state = "done" /\ row' = [row EXCEPT !.outputs = FormatSet]
      /\ version' \in Nat \ {0} /\ version <= version'
      /\ overlapped' \in BOOLEAN /\ intruders' \in Nat /\ removals' \in Nat
<1>1. Quiet
  <2>1. ASSUME NEW volume \in Volumes, ReuseDone(row.attempt + 1, volume)
        PROVE  Quiet
    BY <2>1 DEF ReuseDone, TypeOK
  <2>2. CASE Reap
    BY <2>2 DEF Reap, TypeOK
  <2>3. CASE Edit
    BY <2>3, BoundsAssumption DEF Edit, TypeOK
  <2>4. ASSUME NEW f \in FormatSet, Intrude(f) \/ Remove(f)
        PROVE  Quiet
    BY <2>4 DEF Intrude, Remove, TypeOK
  <2>5. CASE UNCHANGED vars
    BY <2>5 DEF vars, TypeOK
  <2>6. QED  BY <2>1, <2>2, <2>3, <2>4, <2>5
<1>2. disk' \in [FormatSet -> File]
  <2>1. CASE \E volume \in Volumes : ReuseDone(row.attempt + 1, volume)
    <3>1. row.attempt + 1 \in Nat
      BY DEF TypeOK
    <3>2. QED  BY <2>1, <3>1, EnsuredFiles DEF ReuseDone
  <2>2. CASE Reap \/ Edit \/ \E f \in FormatSet : Intrude(f) \/ Remove(f)
    BY <2>2, ConstantFacts DEF Reap, Edit, Intrude, Remove, TypeOK
  <2>3. CASE UNCHANGED vars
    BY <2>3 DEF vars, TypeOK
  <2>4. QED  BY <2>1, <2>2, <2>3
<1>3. /\ row'.attempt = row.attempt /\ row'.req = row.req /\ row'.ckpt = row.ckpt
      /\ row'.words = row.words /\ row'.state \in {row.state, "error"}
      /\ row'.state = "error" => row.state # "done"
      /\ row'.state # row.state => row.state = "running"
      /\ row' \in RowType
  BY <1>1 DEF TypeOK
<1>4. TypeOK'
  BY <1>1, <1>2, <1>3 DEF TypeOK
<1>5. Understood'
  <2> SUFFICES ASSUME NEW q \in Runs, Live(q)'  PROVE Known(run[q])'
    BY DEF Understood
  <2>1. run'[q] = run[q] /\ run[q] \in Knowledge /\ Known(run[q])
    BY <1>1, KnownNow DEF Live
  <2>2. QED  BY <1>1, <2>1, KnownLater DEF TypeOK
<1>6. Stored'
  BY <1>1, <1>3 DEF Stored, Kept, Readable, HasText, HasPart, IsFile
<1>7. InStep'
  <2> SUFFICES ASSUME NEW q \in Runs, Owned(q)', Live(q)'
      PROVE /\ row'.req = run'[q].req
            /\ run'[q].pc # "open" => row'.ckpt = Snapshot(run[q])'
            /\ run'[q].pc = "open" =>
                  IF run'[q].given # NoRecord THEN row'.ckpt = run'[q].given
                  ELSE ~HasText(row.ckpt)' /\ ~HasPart(row.ckpt)'
    BY DEF InStep
  <2>1. run' = run /\ Owned(q) /\ Live(q)
    BY <1>1, <1>3 DEF Owned, Live
  <2>2. QED  BY <1>3, <2>1 DEF InStep, Snapshot, HasText, HasPart
<1>8. Ordered'
  BY <1>1, <1>3 DEF Ordered
<1>9. QED  BY <1>4, <1>5, <1>6, <1>7, <1>8


-----------------------------------------------------------------------------
(* The core of the argument, put together.                                    *)

\* The records that Init may find are complete and can be read back.
LEMMA EarlierFacts ==
    ASSUME NEW c \in EarlierRecords
    PROVE  c \in Record /\ Kept(c) /\ Readable(c)
<1>1. \A q \in Requests : q \in Asks /\ q.dia \in Whats /\ q.tr \in Whats
  BY DEF Asks, Whats
<1>2. \A q \in Requests : [what |-> q.dia, run |-> 0] \in Label /\ [what |-> q.tr, run |-> 0] \in Label
  BY <1>1 DEF Label
<1> DEFINE mark == IF IsFile THEN 1 ELSE 0
<1>3. CASE \E v \in 1..2, q \in Requests :
             c = [version |-> v, req |-> q, stages |-> {"source", "transcribe", "postprocess"},
                  text |-> [src |-> 1, dia |-> [what |-> q.dia, run |-> 0],
                            tr |-> [what |-> q.tr, run |-> 0]],
                  part |-> NoPart, ident |-> mark]
  <2>1. PICK v \in 1..2, q \in Requests :
             c = [version |-> v, req |-> q, stages |-> {"source", "transcribe", "postprocess"},
                  text |-> [src |-> 1, dia |-> [what |-> q.dia, run |-> 0],
                            tr |-> [what |-> q.tr, run |-> 0]],
                  part |-> NoPart, ident |-> mark]
    BY <1>3
  <2>2. c.text \in Heard /\ c.req \in Asks
    BY <1>1, <1>2, <2>1 DEF Heard
  <2>3. c \in Record
    BY <2>1, <2>2, ConstantFacts DEF Record, Stages, CurrentVersion
  <2>4. QED  BY <2>1, <2>3 DEF Kept, Readable, HasText, HasPart, NoPart, CurrentVersion
<1>4. CASE \E q \in Requests :
             c = [version |-> 3, req |-> q, stages |-> {"source", "fetch", "extract"},
                  text |-> NoWords, part |-> [n |-> 1, src |-> 1], ident |-> mark]
  <2>1. PICK q \in Requests :
             c = [version |-> 3, req |-> q, stages |-> {"source", "fetch", "extract"},
                  text |-> NoWords, part |-> [n |-> 1, src |-> 1], ident |-> mark]
    BY <1>4
  <2>2. [n |-> 1, src |-> 1] \in Blocks
    BY ConstantFacts DEF Blocks
  <2>3. c \in Record
    BY <1>1, <2>1, <2>2, ConstantFacts DEF Record, Stages, CurrentVersion
  <2>4. QED  BY <2>1, <2>3 DEF Kept, Readable, HasText, HasPart, NoWords, CurrentVersion
<1>5. QED  BY <1>3, <1>4 DEF EarlierRecords

\* It holds at first, whatever record is found,
LEMMA CoreInit == Init => Core_IInv
<1> SUFFICES ASSUME Init  PROVE Core_IInv
  OBVIOUS
<1>1. /\ run = [r \in Runs |-> Unborn] /\ \A r \in Runs : run[r].pc = "unborn"
      /\ \A r \in Runs : ~Live(r)
  BY DEF Init, Unborn, Live, Working
<1>2. /\ row \in RowType /\ row.state \in {"fresh", "error"}
      /\ Kept(row.ckpt) /\ Readable(row.ckpt)
      /\ row.state = "fresh" => row.ckpt = NoRecord
  <2>1. ASSUME NEW q \in Requests, row = Row("fresh", 0, q, NoRecord, NoWords)
        PROVE  <1>2
    BY <2>1, ConstantFacts DEF Row, Asks, Kept, Readable, HasText, HasPart, NoRecord, NoWords, NoPart
  <2>2. ASSUME NEW c \in EarlierRecords, row = Row("error", 0, c.req, c, NoWords)
        PROVE  <1>2
    BY <2>2, ConstantFacts, EarlierFacts DEF Row, Record
  <2>3. QED  BY <2>1, <2>2 DEF Init
<1>3. /\ kind \in {"url", "plain", "confined"} /\ version = 1
      /\ disk = [f \in FormatSet |-> NoFile] /\ overlapped = FALSE
      /\ intruders = 0 /\ removals = 0
  BY DEF Init
<1>4. TypeOK
  <2>1. run \in [Runs -> Knowledge]
    BY <1>1, ConstantFacts
  <2>2. disk \in [FormatSet -> File]
    BY <1>3, ConstantFacts
  <2>3. row \in RowType
    BY <1>2
  <2>4. overlapped \in BOOLEAN
    BY <1>3
  <2>5. version \in Nat \ {0} /\ intruders \in Nat /\ removals \in Nat
    BY <1>3
  <2>6. QED  BY <1>3, <2>1, <2>2, <2>3, <2>4, <2>5 DEF TypeOK
<1>5. QED  BY <1>1, <1>2, <1>4 DEF Core_IInv, Understood, Stored, InStep, Ordered

\* and is inductive.
LEMMA CoreNext == Core_IInv /\ [Next]_vars => Core_IInv'
<1> SUFFICES ASSUME Core_IInv, [Next]_vars  PROVE Core_IInv'
  OBVIOUS
<1>1. ASSUME NEW r \in Runs, NEW q \in Requests, Launch(r, q)  PROVE Core_IInv'
  BY <1>1, LaunchKeeps
<1>2. ASSUME NEW r \in Runs, Step(r)  PROVE Core_IInv'
  BY <1>2, StagesKeep, LabelsKeep, PublishingKeeps, EndingKeeps DEF Step
<1>3. QED  BY <1>1, <1>2, OthersKeep DEF Next

\* Everything the model keeps has the type it is meant to have.
THEOREM PipelineTypes == Spec => []TypeOK
<1>1. Core_IInv => TypeOK
  BY DEF Core_IInv
<1>2. QED  BY <1>1, CoreInit, CoreNext, PTL DEF Spec

\* What is stored of a job always reads back as the kind of record it claims to
\* be, and its words are those of the recording whose fingerprint stands beside
\* them: through failures, crashes, reaps and edits, for any number of runs.
THEOREM StoredRecordIsCoherent == Spec => []RecordIsCoherent
<1>1. Core_IInv => RecordIsCoherent
  <2> SUFFICES ASSUME Core_IInv  PROVE RecordIsCoherent
    OBVIOUS
  <2>1. Stored /\ (row.state = "done" => ~HasText(row.ckpt) /\ ~HasPart(row.ckpt))
    BY DEF Core_IInv, Stored
  <2>2. QED  BY <2>1 DEF Stored, RecordIsCoherent, Kept, Readable, Coherent, HasText, HasPart
<1>2. QED  BY <1>1, CoreInit, CoreNext, PTL DEF Spec

-----------------------------------------------------------------------------
(* No save loses work.                                                        *)

\* A record with words is worth more than any number of blocks.
LEMMA WorthFacts ==
    ASSUME NEW c \in Record
    PROVE  /\ Worth(c) \in Nat
           /\ ~HasText(c) => Worth(c) = c.part.n /\ Worth(c) <= Cores
           /\ HasText(c) => Worth(c) >= Cores + 1
           /\ \A d \in Record :
                 d.text = c.text /\ d.part = c.part => Worth(d) = Worth(c)
<1>1. Cores \in Nat /\ c.part.n \in 0..Cores
  BY ConstantFacts DEF Record, Blocks
<1>2. QED  BY <1>1 DEF Worth, HasText

\* A save of a run that owns the row keeps what the record was worth when it keeps
\* the run's words and blocks or adds to them.
LEMMA SavedWorth ==
    ASSUME Core_IInv, NEW r \in Runs, NEW me \in Knowledge, Live(r), Saves(r, me),
           \/ run[r].pc = "open" /\ (run[r].given # NoRecord =>
                    me.text = run[r].given.text /\ me.part = run[r].given.part)
           \/ run[r].pc # "open" /\ Worth(Snapshot(me)) >= Worth(Snapshot(run[r]))
    PROVE  Worth(row'.ckpt) >= Worth(row.ckpt)
<1>1. row.ckpt \in Record /\ Snapshot(me) \in Record /\ run[r] \in Knowledge
  BY SnapshotType DEF Core_IInv, TypeOK
<1>2. CASE Owned(r)
  <2>1. row'.ckpt = Snapshot(me)
    BY <1>2 DEF Saves, Saved, Core_IInv, TypeOK
  <2>2. CASE run[r].pc # "open"
    <3>1. row.ckpt = Snapshot(run[r])
      BY <1>2, <2>2 DEF Core_IInv, InStep
    <3>2. QED  BY <2>1, <2>2, <3>1
  <2>3. CASE run[r].pc = "open" /\ run[r].given # NoRecord
    <3>1. row.ckpt = run[r].given
      BY <1>2, <2>3 DEF Core_IInv, InStep
    <3>2. Snapshot(me).text = row.ckpt.text /\ Snapshot(me).part = row.ckpt.part
      BY <2>3, <3>1 DEF Snapshot
    <3>3. QED  BY <1>1, <2>1, <3>2, WorthFacts
  <2>4. CASE run[r].pc = "open" /\ run[r].given = NoRecord
    <3>1. ~HasText(row.ckpt) /\ ~HasPart(row.ckpt)
      BY <1>2, <2>4 DEF Core_IInv, InStep
    <3>2. Worth(row.ckpt) = 0 /\ Worth(row'.ckpt) \in Nat
      BY <1>1, <2>1, <3>1, WorthFacts DEF HasPart
    <3>3. QED  BY <3>2
  <2>5. QED  BY <2>2, <2>3, <2>4
<1>3. CASE ~Owned(r)
  <2>1. row' = row
    BY <1>3 DEF Saves, Saved
  <2>2. QED  BY <1>1, <2>1, WorthFacts
<1>4. QED  BY <1>2, <1>3

\* A required stage loses no work,
LEMMA StageWorth ==
    ASSUME Core_IInv, NEW r \in Runs,
           \/ Open(r) \/ Fetch(r) \/ Reacquire(r) \/ Extract(r) \/ Core(r) \/ Recheck(r)
           \/ Mark(r) \/ Published(r)
    PROVE  Worth(row'.ckpt) >= Worth(row.ckpt)
<1> DEFINE me == run[r]
<1>1. Live(r)
  BY StageSteps DEF Live, Working
<1>2. me \in Knowledge /\ Known(me) /\ TypeOK
  BY <1>1, KnownNow DEF Core_IInv
<1>3. CASE Open(r)
  <2>1. me.pc = "open" /\ Saves(r, Opened(me)) /\ Opened(me) \in Knowledge
    BY <1>2, <1>3, StageSteps, AfterOpen
  <2>2. Opened(me).text = me.given.text /\ Opened(me).part = me.given.part
    BY <1>2 DEF Opened, Marked, Knowledge
  <2>3. QED  BY <1>1, <2>1, <2>2, SavedWorth
<1> DEFINE Keeps(next) == next.text = me.text /\ next.part = me.part
<1>4. ASSUME NEW next \in Knowledge, Keeps(next)
      PROVE  Worth(Snapshot(next)) >= Worth(Snapshot(me))
  <2>1. Snapshot(next) \in Record /\ Snapshot(me) \in Record
    BY <1>2, SnapshotType
  <2>2. Snapshot(next).text = Snapshot(me).text /\ Snapshot(next).part = Snapshot(me).part
    BY <1>4 DEF Snapshot
  <2>3. QED  BY <2>1, <2>2, WorthFacts
<1>5. CASE Fetch(r) \/ Reacquire(r)
  <2>1. Keeps(Fetched(me)) /\ Keeps(Reacquired(me))
    BY <1>2 DEF Fetched, Reacquired, Marked, Knowledge
  <2>2. CASE Fetch(r)
    <3>1. me.pc = "fetch" /\ Saves(r, Fetched(me)) /\ Fetched(me) \in Knowledge
      BY <1>2, <2>2, StageSteps, AfterFetch
    <3>2. Worth(Snapshot(Fetched(me))) >= Worth(Snapshot(me))
      BY <1>4, <2>1, <3>1
    <3>3. QED  BY <1>1, <3>1, <3>2, SavedWorth
  <2>3. CASE Reacquire(r)
    <3>1. me.pc = "fetch" /\ Saves(r, Reacquired(me)) /\ Reacquired(me) \in Knowledge
      BY <1>2, <2>3, StageSteps, AfterFetch
    <3>2. Worth(Snapshot(Reacquired(me))) >= Worth(Snapshot(me))
      BY <1>4, <2>1, <3>1
    <3>3. QED  BY <1>1, <3>1, <3>2, SavedWorth
  <2>4. QED  BY <1>5, <2>2, <2>3
<1>6. CASE Extract(r)
  <2>1. me.pc = "extract" /\ Saves(r, Extracted(me)) /\ Extracted(me) \in Knowledge
    BY <1>2, <1>6, StageSteps, AfterExtract
  <2>2. Keeps(Extracted(me))
    BY <1>2 DEF Extracted, Marked, Knowledge
  <2>3. Worth(Snapshot(Extracted(me))) >= Worth(Snapshot(me))
    BY <1>4, <2>1, <2>2
  <2>4. QED  BY <1>1, <2>1, <2>3, SavedWorth
<1>7. CASE Core(r)
  <2>1. /\ me.pc = "core" /\ me.part.n < Cores /\ Saves(r, Grown(me))
        /\ Grown(me) \in Knowledge
    BY <1>2, <1>7, StageSteps, AfterCore
  <2>2. ~HasText(Snapshot(me)) /\ ~HasText(Snapshot(Grown(me)))
    BY <1>2, <2>1 DEF Known, Snapshot, Grown, Knowledge, HasText
  <2>3. Snapshot(Grown(me)).part.n = Snapshot(me).part.n + 1
    BY <1>2 DEF Snapshot, Grown, Knowledge
  <2>4. Snapshot(me) \in Record /\ Snapshot(Grown(me)) \in Record
    BY <1>2, <2>1, SnapshotType
  <2>5. /\ Worth(Snapshot(me)) = Snapshot(me).part.n /\ Worth(Snapshot(me)) \in Nat
        /\ Worth(Snapshot(Grown(me))) = Snapshot(Grown(me)).part.n
    BY <2>2, <2>4, WorthFacts
  <2>6. Worth(Snapshot(Grown(me))) >= Worth(Snapshot(me))
    BY <2>3, <2>5
  <2>7. QED  BY <1>1, <2>1, <2>6, SavedWorth
<1>8. CASE Recheck(r)
  <2>1. /\ me.pc = "recheck" /\ Saves(r, Transcribed(me))
        /\ Transcribed(me) \in Knowledge /\ HasText(Transcribed(me))
    BY <1>2, <1>8, StageSteps, AfterRecheck
  <2>2. ~HasText(Snapshot(me)) /\ HasText(Snapshot(Transcribed(me)))
    BY <1>2, <2>1 DEF Known, Snapshot, HasText
  <2>3. Snapshot(me) \in Record /\ Snapshot(Transcribed(me)) \in Record
    BY <1>2, <2>1, SnapshotType
  <2>4. /\ Worth(Snapshot(me)) <= Cores /\ Worth(Snapshot(Transcribed(me))) >= Cores + 1
        /\ Worth(Snapshot(me)) \in Nat /\ Worth(Snapshot(Transcribed(me))) \in Nat
    BY <2>2, <2>3, WorthFacts
  <2>5. Worth(Snapshot(Transcribed(me))) >= Worth(Snapshot(me))
    BY <2>4, ConstantFacts
  <2>6. QED  BY <1>1, <2>1, <2>5, SavedWorth
<1>9. CASE Mark(r) \/ Published(r)
  <2>1. Keeps(MarkedAll(me)) /\ Keeps(AllPublished(me))
    BY <1>2 DEF MarkedAll, AllPublished, Marked, Knowledge
  <2>2. CASE Mark(r)
    <3>1. me.pc = "mark" /\ Saves(r, MarkedAll(me)) /\ MarkedAll(me) \in Knowledge
      BY <1>2, <2>2, StageSteps, AfterMarks
    <3>2. Worth(Snapshot(MarkedAll(me))) >= Worth(Snapshot(me))
      BY <1>4, <2>1, <3>1
    <3>3. QED  BY <1>1, <3>1, <3>2, SavedWorth
  <2>3. CASE Published(r)
    <3>1. me.pc = "publish" /\ Saves(r, AllPublished(me)) /\ AllPublished(me) \in Knowledge
      BY <1>2, <2>3, StageSteps, AfterMarks
    <3>2. Worth(Snapshot(AllPublished(me))) >= Worth(Snapshot(me))
      BY <1>4, <2>1, <3>1
    <3>3. QED  BY <1>1, <3>1, <3>2, SavedWorth
  <2>4. QED  BY <1>9, <2>2, <2>3
<1>10. QED  BY <1>3, <1>5, <1>6, <1>7, <1>8, <1>9

\* nor does an optional one.
LEMMA LabelWorth ==
    ASSUME Core_IInv, NEW r \in Runs, Diarize(r) \/ Translate(r)
    PROVE  Worth(row'.ckpt) >= Worth(row.ckpt)
<1> DEFINE me == run[r]
<1>1. Live(r)
  BY LabelSteps DEF Live, Working
<1>2. me \in Knowledge /\ Known(me) /\ TypeOK /\ row.ckpt \in Record
  BY <1>1, KnownNow DEF Core_IInv, TypeOK
<1>3. row'.ckpt = row.ckpt => Worth(row'.ckpt) >= Worth(row.ckpt)
  BY <1>2, WorthFacts
<1>4. CASE Diarize(r) /\ Due(me, "diarize", me.req.dia)
  <2>1. me.pc = "diarize" /\ Saves(r, Diarized(me, r)) /\ Diarized(me, r) \in Knowledge
    BY <1>2, <1>4, LabelSteps, AfterLabels
  <2>2. /\ Snapshot(Diarized(me, r)).text.src = Snapshot(me).text.src
        /\ Snapshot(Diarized(me, r)).text.tr = Snapshot(me).text.tr
        /\ Snapshot(Diarized(me, r)).text.dia.what = me.req.dia
    BY <1>2 DEF Diarized, Marked, Snapshot, Knowledge, Heard
  <2>3. HasText(Snapshot(me)) /\ me.req.dia # Off
    BY <1>2, <1>4, <2>1 DEF Known, Written, HasText, Snapshot, Due
  <2>4. Worth(Snapshot(Diarized(me, r))) >= Worth(Snapshot(me))
    BY <2>2, <2>3, ConstantFacts DEF Worth, HasText
  <2>5. QED  BY <1>1, <2>1, <2>4, SavedWorth
<1>5. CASE Translate(r) /\ Due(me, "translate", me.req.tr)
  <2>1. me.pc = "translate" /\ Saves(r, Translated(me, r)) /\ Translated(me, r) \in Knowledge
    BY <1>2, <1>5, LabelSteps, AfterLabels
  <2>2. /\ Snapshot(Translated(me, r)).text.src = Snapshot(me).text.src
        /\ Snapshot(Translated(me, r)).text.dia = Snapshot(me).text.dia
        /\ Snapshot(Translated(me, r)).text.tr.what = me.req.tr
    BY <1>2 DEF Translated, Marked, Snapshot, Knowledge, Heard
  <2>3. HasText(Snapshot(me)) /\ me.req.tr # Off
    BY <1>2, <1>5, <2>1 DEF Known, Written, HasText, Snapshot, Due
  <2>4. Worth(Snapshot(Translated(me, r))) >= Worth(Snapshot(me))
    BY <2>2, <2>3, ConstantFacts DEF Worth, HasText
  <2>5. QED  BY <1>1, <2>1, <2>4, SavedWorth
<1>6. CASE \/ Diarize(r) /\ ~Due(me, "diarize", me.req.dia)
           \/ Translate(r) /\ ~Due(me, "translate", me.req.tr)
  <2>1. row' = row
    BY <1>6, LabelSteps DEF Move
  <2>2. QED  BY <1>3, <2>1
<1>7. QED  BY <1>4, <1>5, <1>6

\* Only a finished job gives its record up.
LEMMA EndWorth ==
    ASSUME Core_IInv, NEW r \in Runs,
           CoresDone(r) \/ Publish(r) \/ Link(r) \/ Finalize(r) \/ Fail(r) \/ Die(r)
    PROVE  row'.state = "done" \/ Worth(row'.ckpt) >= Worth(row.ckpt)
<1>1. row \in RowType /\ row.ckpt \in Record
  BY DEF Core_IInv, TypeOK
<1>2. row' = row \/ row' = [row EXCEPT !.state = "error"] \/ row'.state = "done"
  <2>1. CASE CoresDone(r) \/ Publish(r) \/ Link(r) \/ Die(r)
    BY <2>1 DEF CoresDone, Publish, Link, Die, Move
  <2>2. CASE Finalize(r)
    BY <1>1, <2>2 DEF Finalize
  <2>3. CASE Fail(r)
    BY <2>3 DEF Fail
  <2>4. QED  BY <2>1, <2>2, <2>3
<1>3. row'.state = "done" \/ row'.ckpt = row.ckpt
  BY <1>1, <1>2
<1>4. QED  BY <1>1, <1>3, WorthFacts

\* Launches, readers, reaps, edits and the directory lose none.
LEMMA OtherWorth ==
    ASSUME Core_IInv,
           \/ \E volume \in Volumes : ReuseDone(row.attempt + 1, volume)
           \/ Reap \/ Edit \/ \E f \in FormatSet : Intrude(f) \/ Remove(f)
           \/ \E r \in Runs, q \in Requests : Launch(r, q)
    PROVE  Worth(row'.ckpt) >= Worth(row.ckpt)
<1>1. row \in RowType /\ row.ckpt \in Record
  BY DEF Core_IInv, TypeOK
<1>2. ASSUME NEW volume \in Volumes, ReuseDone(row.attempt + 1, volume)
      PROVE  row'.ckpt = row.ckpt
  BY <1>1, <1>2 DEF ReuseDone
<1>3. CASE Reap
  BY <1>1, <1>3, WorthFacts DEF Reap
<1>4. ASSUME Edit \/ \E f \in FormatSet : Intrude(f) \/ Remove(f)
      PROVE  row'.ckpt = row.ckpt
  BY <1>4 DEF Edit, Intrude, Remove
<1>5. ASSUME NEW r \in Runs, NEW q \in Requests, Launch(r, q)
      PROVE  Worth(row'.ckpt) >= Worth(row.ckpt)
  <2>1. row'.ckpt = IF Record_At(r) = NoRecord THEN row.ckpt ELSE Record_At(r)
    BY <1>5, LaunchFacts
  <2>2. Record_At(r) # NoRecord =>
          /\ Record_At(r) \in Record /\ Record_At(r).text = row.ckpt.text
          /\ Record_At(r).part = row.ckpt.part
    BY <1>5, LaunchFacts, HandedFacts
  <2>3. QED  BY <1>1, <2>1, <2>2, WorthFacts
<1>6. QED  BY <1>1, <1>2, <1>3, <1>4, <1>5, WorthFacts

\* What the next run may start from only grows, whatever run saves, fails, dies,
\* is reaped or has lost the row, until the job is done.
THEOREM NoSaveLosesWork == Spec => WorkIsKept
<1>1. Core_IInv /\ [Next]_vars =>
          [row'.state = "done" \/ Worth(row'.ckpt) >= Worth(row.ckpt)]_vars
  <2> SUFFICES ASSUME Core_IInv, Next
               PROVE  row'.state = "done" \/ Worth(row'.ckpt) >= Worth(row.ckpt)
    OBVIOUS
  <2>1. ASSUME NEW r \in Runs, Step(r)
        PROVE  row'.state = "done" \/ Worth(row'.ckpt) >= Worth(row.ckpt)
    BY <2>1, StageWorth, LabelWorth, EndWorth DEF Step
  <2>2. QED  BY <2>1, OtherWorth DEF Next
<1>2. QED  BY <1>1, CoreInit, CoreNext, PTL DEF Spec, WorkIsKept

-----------------------------------------------------------------------------
(* When every resume repeats the request.                                     *)

Marks(c) == c.stages \cap {"diarize", "translate", "postprocess"}

\* Labels, request and marks are all that Tagged reads.
LEMMA TaggedSame ==
    ASSUME NEW c, NEW d, Tagged(c), d.text = c.text, d.req = c.req, Marks(d) = Marks(c)
    PROVE  Tagged(d)
<1>1. \A s \in {"diarize", "translate", "postprocess"} : s \in d.stages <=> s \in c.stages
  BY DEF Marks
<1>2. /\ StageCompleted(d, "diarize", d.req.dia) <=> StageCompleted(c, "diarize", c.req.dia)
      /\ StageCompleted(d, "translate", d.req.tr) <=> StageCompleted(c, "translate", c.req.tr)
  BY <1>1 DEF StageCompleted
<1>3. /\ ~HasText(d) => Marks(d) = {}
      /\ d.text.dia.what # Off => {"diarize", "postprocess"} \cap d.stages # {}
      /\ d.text.tr.what # Off => {"translate", "postprocess"} \cap d.stages # {}
  BY <1>1 DEF Tagged, HasText, Marks
<1>4. QED  BY <1>2, <1>3 DEF Tagged, Marks

\* Nothing is marked, nothing is labelled.
LEMMA TaggedBlank ==
    ASSUME NEW c, Marks(c) = {}, c.text.dia = Untouched, c.text.tr = Untouched
    PROVE  Tagged(c)
<1>1. \A s \in {"diarize", "translate", "postprocess"} : s \notin c.stages
  BY DEF Marks
<1>2. ~StageCompleted(c, "diarize", c.req.dia) /\ ~StageCompleted(c, "translate", c.req.tr)
  BY <1>1 DEF StageCompleted
<1>3. QED  BY <1>2 DEF Tagged, Marks, Untouched

\* What the labels of a record prove to a run with the same request.
LEMMA TaggedDue ==
    ASSUME NEW c, NEW req, Tagged(c), c.req = req
    PROVE  /\ req.dia # Off => (StageCompleted(c, "diarize", req.dia) <=> c.text.dia.what = req.dia)
           /\ req.tr # Off => (StageCompleted(c, "translate", req.tr) <=> c.text.tr.what = req.tr)
BY DEF Tagged, StageCompleted

\* A run that opens the record of the same request takes over what fits it.
LEMMA AskedOpen ==
    ASSUME TypeOK, NEW me \in Knowledge, Known(me), Asked(me), me.pc = "open"
    PROVE  Asked(Opened(me))
<1> DEFINE next == Opened(me)
<1>1. /\ next.given = me.given /\ next.req = me.req /\ next.text = me.given.text
      /\ next.stages = me.given.stages \cup {"source"}
      /\ next.pc \in {"fetch", "diarize"} /\ (~CanResume(me.given) => next.pc = "fetch")
  BY DEF Opened, Marked, Knowledge
<1>2. Tagged(next)
  <2>1. CASE me.given # NoRecord
    <3>1. Tagged(me.given) /\ me.given.req = me.req
      BY <2>1 DEF Asked
    <3>2. Marks(next) = Marks(me.given)
      BY <1>1 DEF Marks
    <3>3. QED  BY <1>1, <3>1, <3>2, TaggedSame
  <2>2. CASE me.given = NoRecord
    <3>1. Marks(next) = {} /\ next.text.dia = Untouched /\ next.text.tr = Untouched
      BY <1>1, <2>2 DEF Marks, NoRecord, NoWords
    <3>2. QED  BY <3>1, TaggedBlank
  <2>3. QED  BY <2>1, <2>2
<1>3. QED  BY <1>1, <1>2 DEF Asked, Publishing

\* A step before the labels that learns neither words nor marks.
LEMMA AskedBefore ==
    ASSUME NEW me \in Knowledge, NEW next \in Knowledge, Asked(me),
           next.given = me.given, next.req = me.req, next.text = me.text,
           Marks(next) = Marks(me),
           \/ next.pc \in {"core", "recheck"} /\ me.pc \notin Publishing
           \/ /\ me.pc \in {"fetch", "extract"} /\ next.pc \in {"extract", "diarize"}
              /\ next.pc = "diarize" => CanResume(me.given)
    PROVE  Asked(next)
<1>1. Tagged(next)
  BY TaggedSame DEF Asked
<1>2. "postprocess" \in next.stages <=> "postprocess" \in me.stages
  BY DEF Marks
<1>3. QED  BY <1>1, <1>2 DEF Asked, Publishing

\* Fresh words carry no labels yet.
LEMMA AskedRecheck ==
    ASSUME TypeOK, NEW me \in Knowledge, Known(me), Asked(me), me.pc = "recheck"
    PROVE  Asked(Transcribed(me))
<1> DEFINE next == Transcribed(me)
<1>1. /\ next.given = me.given /\ next.req = me.req /\ next.pc = "diarize"
      /\ next.text.dia = Untouched /\ next.text.tr = Untouched
      /\ next.stages = me.stages \cup {"transcribe"}
  BY DEF Transcribed, Marked, Knowledge, NoWords
<1>2. ~HasText(me) /\ ~CanResume(me.given)
  BY DEF Known
<1>3. Marks(me) = {}
  BY <1>2 DEF Asked, Tagged, Marks
<1>4. Marks(next) = {}
  BY <1>1, <1>3 DEF Marks
<1>5. Tagged(next)
  BY <1>1, <1>4, TaggedBlank
<1>6. "postprocess" \notin next.stages
  BY <1>4 DEF Marks
<1>7. QED  BY <1>1, <1>2, <1>5, <1>6 DEF Asked, Publishing

\* The speakers are labelled as asked, or were.
LEMMA AskedDiarize ==
    ASSUME TypeOK, NEW me \in Knowledge, Known(me), Asked(me), me.pc = "diarize", NEW r \in Runs
    PROVE  /\ Due(me, "diarize", me.req.dia) => Asked(Diarized(me, r))
           /\ ~Due(me, "diarize", me.req.dia) => Asked([me EXCEPT !.pc = "translate"])
<1>1. HasText(me) /\ Tagged(me) /\ Tagged(me.given)
  BY DEF Known, Written, Asked
<1>2. ASSUME Due(me, "diarize", me.req.dia)  PROVE Asked(Diarized(me, r))
  <2> DEFINE next == Diarized(me, r)
  <2>1. /\ next.given = me.given /\ next.req = me.req /\ next.pc = "translate"
        /\ next.text.dia.what = me.req.dia /\ next.text.tr = me.text.tr
        /\ next.text.src = me.text.src /\ next.stages = me.stages \cup {"diarize"}
    BY DEF Diarized, Marked, Knowledge, Heard
  <2>2. StageCompleted(next, "translate", next.req.tr) <=> StageCompleted(me, "translate", me.req.tr)
    BY <2>1 DEF StageCompleted
  <2>3. HasText(next) /\ "diarize" \in next.stages
    BY <1>1, <2>1 DEF HasText
  <2>4. next.text.tr.what # Off => {"translate", "postprocess"} \cap next.stages # {}
    BY <1>1, <2>1 DEF Tagged
  <2>5. Tagged(next)
    BY <1>1, <2>1, <2>2, <2>3, <2>4 DEF Tagged
  <2>6. "postprocess" \in next.stages => "postprocess" \in me.stages
    BY <2>1
  <2>7. QED  BY <2>1, <2>5, <2>6 DEF Asked, Publishing
<1>3. ASSUME ~Due(me, "diarize", me.req.dia)  PROVE Asked([me EXCEPT !.pc = "translate"])
  <2> DEFINE next == [me EXCEPT !.pc = "translate"]
  <2>1. /\ next.given = me.given /\ next.req = me.req /\ next.pc = "translate"
        /\ next.text = me.text /\ next.stages = me.stages
    BY DEF Knowledge
  <2>2. Tagged(next)
    BY <1>1, <2>1, TaggedSame DEF Marks
  <2>3. me.req.dia # Off => me.text.dia.what = me.req.dia
    <3> SUFFICES ASSUME me.req.dia # Off  PROVE me.text.dia.what = me.req.dia
      OBVIOUS
    <3>1. CanResume(me.given) /\ StageCompleted(me.given, "diarize", me.req.dia)
      BY <1>3 DEF Due
    <3>2. me.given # NoRecord
      BY <3>1 DEF CanResume, HasText, NoRecord, NoWords
    <3>3. me.given.req = me.req /\ me.text = me.given.text
      BY <3>1, <3>2 DEF Asked
    <3>4. QED  BY <1>1, <3>1, <3>3, TaggedDue
  <2>4. QED  BY <2>1, <2>2, <2>3 DEF Asked, Publishing
<1>4. QED  BY <1>2, <1>3

\* The words are translated as asked, or were.
LEMMA AskedTranslate ==
    ASSUME TypeOK, NEW me \in Knowledge, Known(me), Asked(me), me.pc = "translate", NEW r \in Runs
    PROVE  /\ Due(me, "translate", me.req.tr) => Asked(Translated(me, r))
           /\ ~Due(me, "translate", me.req.tr) => Asked([me EXCEPT !.pc = "mark"])
<1>1. HasText(me) /\ Tagged(me) /\ Tagged(me.given)
  BY DEF Known, Written, Asked
<1>2. ASSUME Due(me, "translate", me.req.tr)  PROVE Asked(Translated(me, r))
  <2> DEFINE next == Translated(me, r)
  <2>1. /\ next.given = me.given /\ next.req = me.req /\ next.pc = "mark"
        /\ next.text.tr.what = me.req.tr /\ next.text.dia = me.text.dia
        /\ next.text.src = me.text.src /\ next.stages = me.stages \cup {"translate"}
    BY DEF Translated, Marked, Knowledge, Heard
  <2>2. StageCompleted(next, "diarize", next.req.dia) <=> StageCompleted(me, "diarize", me.req.dia)
    BY <2>1 DEF StageCompleted
  <2>3. HasText(next) /\ "translate" \in next.stages
    BY <1>1, <2>1 DEF HasText
  <2>4. next.text.dia.what # Off => {"diarize", "postprocess"} \cap next.stages # {}
    BY <1>1, <2>1 DEF Tagged
  <2>5. Tagged(next)
    BY <1>1, <2>1, <2>2, <2>3, <2>4 DEF Tagged
  <2>6. "postprocess" \in next.stages => "postprocess" \in me.stages
    BY <2>1
  <2>7. QED  BY <2>1, <2>5, <2>6 DEF Asked, Publishing
<1>3. ASSUME ~Due(me, "translate", me.req.tr)  PROVE Asked([me EXCEPT !.pc = "mark"])
  <2> DEFINE next == [me EXCEPT !.pc = "mark"]
  <2>1. /\ next.given = me.given /\ next.req = me.req /\ next.pc = "mark"
        /\ next.text = me.text /\ next.stages = me.stages
    BY DEF Knowledge
  <2>2. Tagged(next)
    BY <1>1, <2>1, TaggedSame DEF Marks
  <2>3. me.req.tr # Off => me.text.tr.what = me.req.tr
    <3> SUFFICES ASSUME me.req.tr # Off  PROVE me.text.tr.what = me.req.tr
      OBVIOUS
    <3>1. CanResume(me.given) /\ StageCompleted(me.given, "translate", me.req.tr)
      BY <1>3 DEF Due
    <3>2. me.given # NoRecord
      BY <3>1 DEF CanResume, HasText, NoRecord, NoWords
    <3>3. me.given.req = me.req /\ me.text.tr = me.given.text.tr
      BY <3>1, <3>2 DEF Asked
    <3>4. QED  BY <1>1, <3>1, <3>3, TaggedDue
  <2>4. QED  BY <2>1, <2>2, <2>3 DEF Asked, Publishing
<1>4. QED  BY <1>2, <1>3

\* The marks come when all that was asked for is there.
LEMMA AskedMark ==
    ASSUME TypeOK, NEW me \in Knowledge, Known(me), Asked(me), me.pc = "mark"
    PROVE  Asked(MarkedAll(me))
<1> DEFINE next == MarkedAll(me)
<1>1. /\ next.given = me.given /\ next.req = me.req /\ next.pc = "publish"
      /\ next.text = me.text /\ next.stages = me.stages \cup {"postprocess"}
  BY DEF MarkedAll, Marked, Knowledge
<1>2. HasText(next)
  BY <1>1 DEF Known, Written, HasText
<1>3. /\ me.req.dia # Off => me.text.dia.what = me.req.dia
      /\ me.req.tr # Off => me.text.tr.what = me.req.tr
  BY DEF Asked
<1>4. Tagged(next)
  BY <1>1, <1>2, <1>3 DEF Tagged, StageCompleted
<1>5. QED  BY <1>1, <1>3, <1>4 DEF Asked, Publishing

\* On the way from one format to the next.
LEMMA AskedPublishing ==
    ASSUME NEW me \in Knowledge, NEW next \in Knowledge, Asked(me), me.pc \in Publishing,
           next.pc \in Publishing, next.given = me.given, next.req = me.req,
           next.text = me.text, Marks(next) = Marks(me)
    PROVE  Asked(next)
<1>1. Tagged(next)
  BY TaggedSame DEF Asked
<1>2. "postprocess" \in next.stages <=> "postprocess" \in me.stages
  BY DEF Marks
<1>3. QED  BY <1>1, <1>2 DEF Asked, Publishing

\* Everybody is asked the same as before when one run's knowledge is replaced.
LEMMA AskedFrame ==
    ASSUME Core_IInv, Answered, NEW r \in Runs, NEW me \in Knowledge,
           run' = [run EXCEPT ![r] = me], me.pc \in Working => Asked(me)
    PROVE  Answered'
<1> SUFFICES ASSUME NEW q \in Runs, Live(q)'  PROVE Asked(run'[q])
  BY DEF Answered
<1>1. run \in [Runs -> Knowledge]
  BY DEF Core_IInv, TypeOK
<1>2. CASE q = r
  BY <1>1, <1>2 DEF Live
<1>3. CASE q # r
  <2>1. run'[q] = run[q] /\ Live(q)
    BY <1>1, <1>3 DEF Live
  <2>2. QED  BY <2>1 DEF Answered
<1>4. QED  BY <1>2, <1>3

\* A save of what was asked for leaves the record serving the request,
LEMMA ServedBySave ==
    ASSUME Request_IInv, NEW r \in Runs, NEW me \in Knowledge, Live(r), Saves(r, me),
           Asked(me), me.req = run[r].req, Core_IInv'
    PROVE  Request_IInv'
<1>1. Answered'
  BY AskedFrame DEF Request_IInv, Saves
<1>2. CASE Owned(r)
  <2>1. row' = [row EXCEPT !.ckpt = Snapshot(me)] /\ row \in RowType
    BY <1>2 DEF Saves, Saved, Request_IInv, Core_IInv, TypeOK
  <2>2. row'.state = "running" /\ row'.ckpt = Snapshot(me) /\ row'.req = row.req
    BY <1>2, <2>1 DEF Owned
  <2>3. row.req = me.req
    BY <1>2 DEF Request_IInv, Core_IInv, InStep
  <2>4. Tagged(Snapshot(me)) /\ Snapshot(me).req = me.req
    BY TaggedSame DEF Asked, Snapshot, Marks
  <2>5. Served'
    BY <2>2, <2>3, <2>4 DEF Served
  <2>6. QED  BY <1>1, <2>5 DEF Request_IInv
<1>3. CASE ~Owned(r)
  <2>1. row' = row
    BY <1>3 DEF Saves, Saved
  <2>2. Served'
    BY <2>1 DEF Served, Request_IInv
  <2>3. QED  BY <1>1, <2>2 DEF Request_IInv
<1>4. QED  BY <1>2, <1>3

\* and so does a move without one.
LEMMA ServedByMove ==
    ASSUME Request_IInv, NEW r \in Runs, NEW me \in Knowledge, Move(r, me), Asked(me),
           Core_IInv'
    PROVE  Request_IInv'
<1>1. Answered'
  BY AskedFrame DEF Request_IInv, Move
<1>2. row' = row
  BY DEF Move
<1>3. QED  BY <1>1, <1>2 DEF Request_IInv, Served

\* The required stages keep to the request,
LEMMA RequestStages ==
    ASSUME Request_IInv, NEW r \in Runs, Core_IInv',
           \/ Open(r) \/ Fetch(r) \/ Reacquire(r) \/ Extract(r) \/ Core(r) \/ Recheck(r)
           \/ Mark(r) \/ Published(r)
    PROVE  Request_IInv'
<1> DEFINE me == run[r]
<1>1. Live(r)
  BY StageSteps DEF Live, Working
<1>2. me \in Knowledge /\ Known(me) /\ TypeOK /\ Asked(me)
  BY <1>1, KnownNow DEF Request_IInv, Core_IInv, Answered
<1>3. CASE Open(r)
  <2>1. me.pc = "open" /\ Saves(r, Opened(me)) /\ Opened(me) \in Knowledge
    BY <1>2, <1>3, StageSteps, AfterOpen
  <2>2. Asked(Opened(me)) /\ Opened(me).req = me.req
    BY <1>2, <2>1, AskedOpen, SavedFields
  <2>3. QED  BY <1>1, <2>1, <2>2, ServedBySave
<1>4. CASE Fetch(r)
  <2>1. me.pc = "fetch" /\ Saves(r, Fetched(me)) /\ Fetched(me) \in Knowledge
    BY <1>2, <1>4, StageSteps, AfterFetch
  <2>2. /\ Fetched(me).given = me.given /\ Fetched(me).req = me.req
        /\ Fetched(me).text = me.text /\ Fetched(me).stages = me.stages \cup {"fetch"}
        /\ Fetched(me).pc = "extract"
    BY <1>2 DEF Fetched, Marked, Knowledge
  <2>3. Marks(Fetched(me)) = Marks(me)
    BY <2>2 DEF Marks
  <2>4. Asked(Fetched(me))
    BY <1>2, <2>1, <2>2, <2>3, AskedBefore
  <2>5. QED  BY <1>1, <2>1, <2>2, <2>4, ServedBySave
<1>5. CASE Reacquire(r)
  <2>1. me.pc = "fetch" /\ Saves(r, Reacquired(me)) /\ Reacquired(me) \in Knowledge
    BY <1>2, <1>5, StageSteps, AfterFetch
  <2>2. /\ Reacquired(me).given = me.given /\ Reacquired(me).req = me.req
        /\ Reacquired(me).text = me.text /\ Reacquired(me).stages = me.stages \cup {"fetch"}
        /\ Reacquired(me).pc = "extract"
    BY <1>2 DEF Reacquired, Marked, Knowledge
  <2>3. Marks(Reacquired(me)) = Marks(me)
    BY <2>2 DEF Marks
  <2>4. Asked(Reacquired(me))
    BY <1>2, <2>1, <2>2, <2>3, AskedBefore
  <2>5. QED  BY <1>1, <2>1, <2>2, <2>4, ServedBySave
<1>6. CASE Extract(r)
  <2>1. me.pc = "extract" /\ Saves(r, Extracted(me)) /\ Extracted(me) \in Knowledge
    BY <1>2, <1>6, StageSteps, AfterExtract
  <2>2. /\ Extracted(me).given = me.given /\ Extracted(me).req = me.req
        /\ Extracted(me).text = me.text /\ Extracted(me).stages = me.stages \cup {"extract"}
        /\ Extracted(me).pc = IF CanResume(me.given) THEN "diarize" ELSE "core"
    BY <1>2 DEF Extracted, Marked, Knowledge
  <2>3. Marks(Extracted(me)) = Marks(me)
    BY <2>2 DEF Marks
  <2>4. Asked(Extracted(me))
    BY <1>2, <2>1, <2>2, <2>3, AskedBefore DEF Publishing
  <2>5. QED  BY <1>1, <2>1, <2>2, <2>4, ServedBySave
<1>7. CASE Core(r)
  <2>1. /\ me.pc = "core" /\ me.part.n < Cores /\ Saves(r, Grown(me))
        /\ Grown(me) \in Knowledge
    BY <1>2, <1>7, StageSteps, AfterCore
  <2>2. /\ Grown(me).given = me.given /\ Grown(me).req = me.req
        /\ Grown(me).text = me.text /\ Grown(me).stages = me.stages /\ Grown(me).pc = "core"
    BY <1>2, <2>1 DEF Grown, Knowledge
  <2>3. Asked(Grown(me))
    BY <1>2, <2>1, <2>2, AskedBefore DEF Marks, Publishing
  <2>4. QED  BY <1>1, <2>1, <2>2, <2>3, ServedBySave
<1>8. CASE Recheck(r)
  <2>1. me.pc = "recheck" /\ Saves(r, Transcribed(me)) /\ Transcribed(me) \in Knowledge
    BY <1>2, <1>8, StageSteps, AfterRecheck
  <2>2. Asked(Transcribed(me)) /\ Transcribed(me).req = me.req
    BY <1>2, <2>1, AskedRecheck, SavedFields
  <2>3. QED  BY <1>1, <2>1, <2>2, ServedBySave
<1>9. CASE Mark(r)
  <2>1. me.pc = "mark" /\ Saves(r, MarkedAll(me)) /\ MarkedAll(me) \in Knowledge
    BY <1>2, <1>9, StageSteps, AfterMarks
  <2>2. Asked(MarkedAll(me)) /\ MarkedAll(me).req = me.req
    BY <1>2, <2>1, AskedMark, SavedFields
  <2>3. QED  BY <1>1, <2>1, <2>2, ServedBySave
<1>10. CASE Published(r)
  <2>1. me.pc = "publish" /\ Saves(r, AllPublished(me)) /\ AllPublished(me) \in Knowledge
    BY <1>2, <1>10, StageSteps, AfterMarks
  <2>2. /\ AllPublished(me).given = me.given /\ AllPublished(me).req = me.req
        /\ AllPublished(me).text = me.text /\ AllPublished(me).pc = "finalize"
        /\ AllPublished(me).stages = me.stages \cup {"render"}
    BY <1>2 DEF AllPublished, Marked, Knowledge
  <2>3. Marks(AllPublished(me)) = Marks(me)
    BY <2>2 DEF Marks
  <2>4. Asked(AllPublished(me))
    BY <1>2, <2>1, <2>2, <2>3, AskedPublishing DEF Publishing
  <2>5. QED  BY <1>1, <2>1, <2>2, <2>4, ServedBySave
<1>11. QED  BY <1>3, <1>4, <1>5, <1>6, <1>7, <1>8, <1>9, <1>10

\* the optional ones,
LEMMA RequestLabels ==
    ASSUME Request_IInv, NEW r \in Runs, Core_IInv', Diarize(r) \/ Translate(r)
    PROVE  Request_IInv'
<1> DEFINE me == run[r]
<1>1. Live(r)
  BY LabelSteps DEF Live, Working
<1>2. me \in Knowledge /\ Known(me) /\ TypeOK /\ Asked(me)
  BY <1>1, KnownNow DEF Request_IInv, Core_IInv, Answered
<1>3. \A pc \in Working : [me EXCEPT !.pc = pc] \in Knowledge
  BY <1>2 DEF Knowledge
<1>4. CASE Diarize(r)
  <2>1. me.pc = "diarize"
    BY <1>4, LabelSteps
  <2>2. CASE Due(me, "diarize", me.req.dia)
    <3>1. Saves(r, Diarized(me, r)) /\ Diarized(me, r) \in Knowledge
      BY <1>2, <1>4, <2>1, <2>2, LabelSteps, AfterLabels
    <3>2. Asked(Diarized(me, r))
      BY <1>2, <2>1, <2>2, AskedDiarize
    <3>3. Diarized(me, r).req = me.req
      BY <1>2, SavedFields
    <3>4. QED  BY <1>1, <3>1, <3>2, <3>3, ServedBySave
  <2>3. CASE ~Due(me, "diarize", me.req.dia)
    <3>1. Move(r, [me EXCEPT !.pc = "translate"])
      BY <1>4, <2>3, LabelSteps
    <3>2. Asked([me EXCEPT !.pc = "translate"]) /\ [me EXCEPT !.pc = "translate"] \in Knowledge
      BY <1>2, <1>3, <2>1, <2>3, AskedDiarize DEF Working
    <3>3. QED  BY <3>1, <3>2, ServedByMove DEF Request_IInv
  <2>4. QED  BY <2>2, <2>3
<1>5. CASE Translate(r)
  <2>1. me.pc = "translate"
    BY <1>5, LabelSteps
  <2>2. CASE Due(me, "translate", me.req.tr)
    <3>1. Saves(r, Translated(me, r)) /\ Translated(me, r) \in Knowledge
      BY <1>2, <1>5, <2>1, <2>2, LabelSteps, AfterLabels
    <3>2. Asked(Translated(me, r))
      BY <1>2, <2>1, <2>2, AskedTranslate
    <3>3. Translated(me, r).req = me.req
      BY <1>2, SavedFields
    <3>4. QED  BY <1>1, <3>1, <3>2, <3>3, ServedBySave
  <2>3. CASE ~Due(me, "translate", me.req.tr)
    <3>1. Move(r, [me EXCEPT !.pc = "mark"])
      BY <1>5, <2>3, LabelSteps
    <3>2. Asked([me EXCEPT !.pc = "mark"]) /\ [me EXCEPT !.pc = "mark"] \in Knowledge
      BY <1>2, <1>3, <2>1, <2>3, AskedTranslate DEF Working
    <3>3. QED  BY <3>1, <3>2, ServedByMove DEF Request_IInv
  <2>4. QED  BY <2>2, <2>3
<1>6. QED  BY <1>4, <1>5

\* the outputs,
LEMMA RequestPublishing ==
    ASSUME Request_IInv, NEW r \in Runs, Core_IInv', CoresDone(r) \/ Publish(r) \/ Link(r)
    PROVE  Request_IInv'
<1> DEFINE me == run[r]
<1>1. Live(r)
  BY DEF CoresDone, Publish, Link, Live, Working
<1>2. me \in Knowledge /\ Known(me) /\ TypeOK /\ Asked(me)
  BY <1>1, KnownNow DEF Request_IInv, Core_IInv, Answered
<1>3. PICK next : Move(r, next) /\ \/ me.pc = "core" /\ next = [me EXCEPT !.pc = "recheck"]
                                   \/ /\ me.pc \in {"publish", "link"}
                                      /\ \/ next = [me EXCEPT !.done = @ + 1]
                                         \/ next = [me EXCEPT !.pc = "link"]
                                         \/ next = [me EXCEPT !.done = @ + 1, !.pc = "publish"]
                                         \/ next = [me EXCEPT !.pc = "refused"]
  BY DEF CoresDone, Publish, Link
<1>4. next \in Knowledge
  <2>1. run' = [run EXCEPT ![r] = next]
    BY <1>3 DEF Move
  <2>2. run'[r] = next
    BY <1>2, <2>1 DEF TypeOK
  <2>3. QED  BY <2>2 DEF Core_IInv, TypeOK
<1>5. /\ next.given = me.given /\ next.req = me.req /\ next.text = me.text
      /\ next.stages = me.stages
      /\ \/ me.pc = "core" /\ next.pc = "recheck"
         \/ me.pc \in Publishing /\ next.pc \in Publishing
  BY <1>2, <1>3 DEF Knowledge, Publishing
<1>6. Asked(next)
  <2>1. CASE me.pc = "core"
    BY <1>2, <1>4, <1>5, <2>1, AskedBefore DEF Marks, Publishing
  <2>2. CASE me.pc \in Publishing
    BY <1>2, <1>4, <1>5, <2>2, AskedPublishing DEF Marks, Publishing
  <2>3. QED  BY <1>5, <2>1, <2>2
<1>7. QED  BY <1>3, <1>4, <1>6, ServedByMove DEF Request_IInv

\* the end of a run,
LEMMA RequestEnds ==
    ASSUME Request_IInv, NEW r \in Runs, Core_IInv', Finalize(r) \/ Fail(r) \/ Die(r)
    PROVE  Request_IInv'
<1>1. Live(r) /\ run' = [run EXCEPT ![r] = Over] /\ Over.pc \notin Working
  BY DEF Finalize, Fail, Die, Live, Working, Over, Unborn
<1>2. run[r] \in Knowledge /\ Asked(run[r]) /\ row \in RowType /\ Over \in Knowledge
  BY <1>1, ConstantFacts DEF Request_IInv, Core_IInv, TypeOK, Answered
<1>3. Answered'
  BY <1>1, <1>2, AskedFrame DEF Request_IInv
<1>4. Served'
  <2>1. CASE row' = row
    BY <2>1 DEF Request_IInv, Served
  <2>2. CASE Owned(r) /\ row' = [row EXCEPT !.state = "error"]
    <3>1. /\ row'.state = "error" /\ row'.ckpt = row.ckpt /\ row'.req = row.req
          /\ row.state = "running"
      BY <1>2, <2>2 DEF Owned
    <3>2. QED  BY <3>1 DEF Request_IInv, Served
  <2>3. CASE Owned(r) /\ Finalize(r)
    <3>1. run[r].pc = "finalize" /\ row.req = run[r].req
      BY <1>1, <2>3 DEF Finalize, Request_IInv, Core_IInv, InStep
    <3>2. row'.state = "done" /\ row'.words = run[r].text /\ row'.req = row.req
      BY <1>2, <2>3 DEF Finalize
    <3>3. /\ run[r].req.dia # Off => run[r].text.dia.what = run[r].req.dia
          /\ run[r].req.tr # Off => run[r].text.tr.what = run[r].req.tr
      BY <1>2, <3>1 DEF Asked, Publishing
    <3>4. QED  BY <3>1, <3>2, <3>3 DEF Served
  <2>4. QED  BY <2>1, <2>2, <2>3 DEF Finalize, Fail, Die
<1>5. QED  BY <1>3, <1>4 DEF Request_IInv

\* the launch of a run for the same request,
LEMMA RequestLaunch ==
    ASSUME SameRequest, Request_IInv, NEW r \in Runs, NEW req \in Requests, Core_IInv',
           Launch(r, req)
    PROVE  Request_IInv'
<1> DEFINE record == Record_At(r)
           me == Launched(req, record)
<1> USE DEF Request_IInv
<1>1. /\ row.state \in {"fresh", "error"} /\ row'.state = "running" /\ row'.req = req
      /\ row'.ckpt = IF record = NoRecord THEN row.ckpt ELSE record
      /\ run' = [run EXCEPT ![r] = me] /\ me \in Knowledge
      /\ record # NoRecord => row.ckpt.req = req
      /\ req = row.req
  BY LaunchFacts
<1>2. record # NoRecord => /\ record.text = row.ckpt.text /\ record.stages = row.ckpt.stages
                           /\ record.req = row.ckpt.req
  BY <1>1, LaunchFacts, HandedFacts
<1>3. Tagged(row.ckpt)
  BY <1>1 DEF Served
<1>4. Tagged(record)
  <2>1. CASE record = NoRecord
    <3>1. Marks(record) = {} /\ record.text.dia = Untouched /\ record.text.tr = Untouched
      BY <2>1 DEF Marks, NoRecord, NoWords
    <3>2. QED  BY <3>1, TaggedBlank
  <2>2. CASE record # NoRecord
    BY <1>2, <1>3, <2>2, TaggedSame DEF Marks
  <2>3. QED  BY <2>1, <2>2
<1>5. /\ me.pc = "open" /\ me.req = req /\ me.given = record /\ me.stages = {}
      /\ me.text = NoWords
  BY DEF Launched, Unborn
<1>6. Tagged(me)
  <2>1. Marks(me) = {} /\ me.text.dia = Untouched /\ me.text.tr = Untouched
    BY <1>5 DEF Marks, NoWords
  <2>2. QED  BY <2>1, TaggedBlank
<1>7. Asked(me)
  BY <1>1, <1>2, <1>4, <1>5, <1>6 DEF Asked, Publishing
<1>8. Answered'
  BY <1>1, <1>7, AskedFrame
<1>9. Tagged(row'.ckpt) /\ (row'.ckpt # NoRecord => row'.ckpt.req = row'.req)
  BY <1>1, <1>2, <1>3, <1>4 DEF Served
<1>10. QED  BY <1>1, <1>8, <1>9 DEF Served

\* and everybody else.
LEMMA RequestOthers ==
    ASSUME Request_IInv, Core_IInv',
           \/ \E volume \in Volumes : ReuseDone(row.attempt + 1, volume)
           \/ Reap \/ Edit \/ \E f \in FormatSet : Intrude(f) \/ Remove(f)
           \/ UNCHANGED vars
    PROVE  Request_IInv'
<1>1. row \in RowType
  BY DEF Request_IInv, Core_IInv, TypeOK
<1>2. run' = run
  BY DEF ReuseDone, Reap, Edit, Intrude, Remove, vars
<1>3. Answered'
  BY <1>2 DEF Request_IInv, Answered, Live
<1> DEFINE Quiet == /\ row'.ckpt = row.ckpt /\ row'.req = row.req /\ row'.words = row.words
                    /\ row'.state = "done" <=> row.state = "done"
<1>4. Quiet
  <2>1. ASSUME NEW volume \in Volumes, ReuseDone(row.attempt + 1, volume)
        PROVE  Quiet
    BY <1>1, <2>1 DEF ReuseDone
  <2>2. CASE Reap
    BY <1>1, <2>2 DEF Reap
  <2>3. CASE Edit \/ (\E f \in FormatSet : Intrude(f) \/ Remove(f)) \/ UNCHANGED vars
    BY <2>3 DEF Edit, Intrude, Remove, vars
  <2>4. QED  BY <2>1, <2>2, <2>3
<1>5. Served'
  BY <1>4 DEF Request_IInv, Served
<1>6. QED  BY <1>3, <1>5 DEF Request_IInv

\* It holds at first,
LEMMA RequestInit == Init => Request_IInv
<1> SUFFICES ASSUME Init  PROVE Request_IInv
  OBVIOUS
<1>1. \A r \in Runs : ~Live(r)
  BY DEF Init, Unborn, Live, Working
<1>2. Tagged(NoRecord)
  <2>1. /\ Marks(NoRecord) = {} /\ NoRecord.text.dia = Untouched
        /\ NoRecord.text.tr = Untouched
    BY DEF Marks, NoRecord, NoWords
  <2>2. QED  BY <2>1, TaggedBlank
<1>3. ASSUME NEW c \in EarlierRecords  PROVE Tagged(c)
  <2>1. CASE c.text = NoWords
    <3>1. Marks(c) = {}
      BY <1>3, <2>1 DEF Marks, EarlierRecords, NoWords
    <3>2. c.text.dia = Untouched /\ c.text.tr = Untouched
      BY <2>1 DEF NoWords
    <3>3. QED  BY <3>1, <3>2, TaggedBlank
  <2>2. CASE c.text # NoWords
    <3>1. /\ c.stages = {"source", "transcribe", "postprocess"} /\ c.text.src = 1
          /\ c.text.dia.what = c.req.dia /\ c.text.tr.what = c.req.tr
      BY <1>3, <2>2 DEF EarlierRecords
    <3>2. QED  BY <3>1 DEF Tagged, HasText, StageCompleted
  <2>3. QED  BY <2>1, <2>2
<1>4. Served
  <2>1. ASSUME NEW q \in Requests, row = Row("fresh", 0, q, NoRecord, NoWords)
        PROVE  Served
    BY <1>2, <2>1 DEF Row, Served
  <2>2. ASSUME NEW c \in EarlierRecords, row = Row("error", 0, c.req, c, NoWords)
        PROVE  Served
    BY <1>3, <2>2 DEF Row, Served
  <2>3. QED  BY <2>1, <2>2 DEF Init
<1>5. QED  BY <1>1, <1>4, CoreInit DEF Request_IInv, Answered

\* and is inductive.
LEMMA RequestNext ==
    ASSUME SameRequest, Request_IInv, [Next]_vars
    PROVE  Request_IInv'
<1>1. Core_IInv'
  BY CoreNext DEF Request_IInv
<1>2. ASSUME NEW r \in Runs, NEW q \in Requests, Launch(r, q)  PROVE Request_IInv'
  BY <1>1, <1>2, RequestLaunch
<1>3. ASSUME NEW r \in Runs, Step(r)  PROVE Request_IInv'
  BY <1>1, <1>3, RequestStages, RequestLabels, RequestPublishing, RequestEnds DEF Step
<1>4. QED  BY <1>1, <1>2, <1>3, RequestOthers DEF Next

\* The run that owns the row does no work that the record proves done.
LEMMA RequestNotRedone == Request_IInv => NoWorkIsRedone
<1> SUFFICES ASSUME Request_IInv, NEW r \in Runs, Owned(r)
             PROVE  /\ run[r].pc \in {"core", "recheck"} =>
                          ~HasText(row.ckpt) /\ row.ckpt.part.n <= run[r].part.n
                    /\ run[r].pc = "diarize" /\ Due(run[r], "diarize", run[r].req.dia) =>
                          row.ckpt.text.dia.what # run[r].req.dia
                    /\ run[r].pc = "translate" /\ Due(run[r], "translate", run[r].req.tr) =>
                          row.ckpt.text.tr.what # run[r].req.tr
  BY DEF NoWorkIsRedone
<1> DEFINE me == run[r]
<1>1. CASE me.pc \notin {"core", "recheck", "diarize", "translate"}
  BY <1>1
<1>2. CASE me.pc \in {"core", "recheck", "diarize", "translate"}
  <2>1. Live(r) /\ me.pc # "open"
    BY <1>2 DEF Live, Working
  <2>2. me \in Knowledge /\ Known(me) /\ Asked(me) /\ row.ckpt = Snapshot(me)
    BY <2>1, KnownNow DEF Request_IInv, Core_IInv, Answered, InStep
  <2>3. row.ckpt.text = me.text /\ row.ckpt.part = me.part
    BY <2>2 DEF Snapshot
  <2>4. CASE me.pc \in {"core", "recheck"}
    <3>1. ~HasText(row.ckpt)
      BY <2>2, <2>3, <2>4 DEF Known, HasText
    <3>2. me.part \in Blocks
      BY <2>2 DEF Knowledge
    <3>3. me.part.n \in Nat
      BY <3>2, ConstantFacts DEF Blocks
    <3>4. QED  BY <2>3, <2>4, <3>1, <3>3
  <2>5. CASE me.pc = "diarize" /\ Due(me, "diarize", me.req.dia)
    <3>1. me.req.dia # Off
      BY <2>5 DEF Due
    <3>2. CASE ~CanResume(me.given)
      BY <2>2, <2>3, <2>5, <3>1, <3>2 DEF Asked, Untouched
    <3>3. CASE CanResume(me.given)
      <4>1. me.given # NoRecord
        BY <3>3 DEF CanResume, HasText, NoRecord, NoWords
      <4>2. ~StageCompleted(me.given, "diarize", me.req.dia)
        BY <2>5, <3>3 DEF Due
      <4>3. Tagged(me.given) /\ me.given.req = me.req /\ me.text = me.given.text
        BY <2>2, <2>5, <3>3, <4>1 DEF Asked
      <4>4. me.given.text.dia.what # me.req.dia
        BY <3>1, <4>2, <4>3, TaggedDue
      <4>5. QED  BY <2>3, <2>5, <4>3, <4>4
    <3>4. QED  BY <3>2, <3>3
  <2>6. CASE me.pc = "translate" /\ Due(me, "translate", me.req.tr)
    <3>1. me.req.tr # Off
      BY <2>6 DEF Due
    <3>2. CASE ~CanResume(me.given)
      BY <2>2, <2>3, <2>6, <3>1, <3>2 DEF Asked, Untouched
    <3>3. CASE CanResume(me.given)
      <4>1. me.given # NoRecord
        BY <3>3 DEF CanResume, HasText, NoRecord, NoWords
      <4>2. ~StageCompleted(me.given, "translate", me.req.tr)
        BY <2>6, <3>3 DEF Due
      <4>3. Tagged(me.given) /\ me.given.req = me.req /\ me.text.tr = me.given.text.tr
        BY <2>2, <2>6, <3>3, <4>1 DEF Asked
      <4>4. me.given.text.tr.what # me.req.tr
        BY <3>1, <4>2, <4>3, TaggedDue
      <4>5. QED  BY <2>3, <2>6, <4>3, <4>4
    <3>4. QED  BY <3>2, <3>3
  <2>7. QED  BY <1>2, <2>4, <2>5, <2>6
<1>3. QED  BY <1>1, <1>2

\* A run that owns the row never transcribes words, decodes a block or applies a
\* stage that the record already proves done, when every resume repeats the
\* request (submit_request refuses any other).
THEOREM NothingIsRedone ==
    ASSUME SameRequest
    PROVE  Spec => []NoWorkIsRedone
<1>1. Request_IInv /\ [Next]_vars => Request_IInv'
  BY RequestNext
<1>2. QED  BY <1>1, RequestInit, RequestNotRedone, PTL DEF Spec

\* A finished job carries the labels and the language it was asked for, however
\* many runs it took and whatever each of them found done.
THEOREM WordsAreAsRequested ==
    ASSUME SameRequest
    PROVE  Spec => []ServedAsRequested
<1>1. Request_IInv /\ [Next]_vars => Request_IInv'
  BY RequestNext
<1>2. Request_IInv => ServedAsRequested
  BY DEF Request_IInv, Served, ServedAsRequested
<1>3. QED  BY <1>1, <1>2, RequestInit, PTL DEF Spec

-----------------------------------------------------------------------------
(* The output directory.                                                      *)

\* A step of one run that leaves the files alone.
LEMMA FilesKept ==
    ASSUME Publication_IInv, Core_IInv', NEW r \in Runs, NEW me \in Knowledge, Live(r),
           run' = [run EXCEPT ![r] = me], disk' = disk, removals' = removals,
           me.pc \in Working => Printed(me),
           row'.state = "done" => row.state = "done" /\ row'.words = row.words
    PROVE  Publication_IInv'
<1> USE DEF Publication_IInv
<1>1. run \in [Runs -> Knowledge]
  BY DEF Core_IInv, TypeOK
<1>2. Shaped'
  BY DEF Shaped, Ours
<1>3. Outputs'
  <2> SUFFICES ASSUME NEW q \in Runs, Live(q)'  PROVE Printed(run[q])'
    BY DEF Outputs
  <2>1. run'[q].pc \in Working /\ Printed(run'[q])
    <3>1. CASE q = r
      BY <1>1, <3>1 DEF Live
    <3>2. CASE q # r
      <4>1. run'[q] = run[q] /\ Live(q)
        BY <1>1, <3>2 DEF Live
      <4>2. QED  BY <4>1 DEF Outputs, Live
    <3>3. QED  BY <3>1, <3>2
  <2>2. QED  BY <2>1 DEF Printed, Ours
<1>4. removals = 0
  BY DEF Finished
<1>5. Finished'
  BY <1>4 DEF Finished, Ours
<1>6. QED  BY <1>2, <1>3, <1>5

\* Renaming the place where a run stands, or its words while it has no files yet.
LEMMA PrintedSame ==
    ASSUME NEW me, NEW next, Printed(me), next.done = me.done,
           \/ me.pc \notin Publishing /\ next.pc # "finalize"
           \/ /\ next.text = me.text /\ next.pc \in Publishing
              /\ next.pc = "finalize" => next.done = Len(Formats)
    PROVE  Printed(next)
<1>1. CASE me.pc \notin Publishing /\ next.pc # "finalize"
  <2>1. next.done = 0
    BY <1>1 DEF Printed
  <2>2. QED  BY <1>1, <2>1 DEF Printed
<1>2. CASE /\ next.text = me.text /\ next.pc \in Publishing
           /\ next.pc = "finalize" => next.done = Len(Formats)
  BY <1>2 DEF Printed
<1>3. QED  BY <1>1, <1>2

\* A save that keeps the words, or comes before the first file, keeps what is out.
LEMMA SavesPublish ==
    ASSUME Publication_IInv, Core_IInv', NEW r \in Runs, NEW me \in Knowledge, Live(r),
           Saves(r, me), me.done = run[r].done,
           \/ run[r].pc \notin Publishing /\ me.pc # "finalize"
           \/ /\ me.text = run[r].text /\ me.pc \in Publishing
              /\ me.pc = "finalize" => me.done = Len(Formats)
    PROVE  Publication_IInv'
<1>1. Printed(run[r])
  BY DEF Publication_IInv, Outputs
<1>2. Printed(me)
  BY <1>1, PrintedSame
<1>3. row'.state = row.state /\ row'.words = row.words
  BY DEF Saves, Saved, Publication_IInv, Core_IInv, TypeOK
<1>4. run' = [run EXCEPT ![r] = me] /\ disk' = disk /\ removals' = removals
  BY DEF Saves, World
<1>5. QED  BY <1>2, <1>3, <1>4, FilesKept

\* The required stages touch no file,
LEMMA StagesPublish ==
    ASSUME Publication_IInv, Core_IInv', NEW r \in Runs,
           \/ Open(r) \/ Fetch(r) \/ Reacquire(r) \/ Extract(r) \/ Core(r) \/ Recheck(r)
           \/ Mark(r) \/ Published(r)
    PROVE  Publication_IInv'
<1> DEFINE me == run[r]
<1>1. Live(r)
  BY StageSteps DEF Live, Working
<1>2. me \in Knowledge /\ Known(me) /\ TypeOK
  BY <1>1, KnownNow DEF Publication_IInv, Core_IInv
<1>3. ASSUME NEW next \in Knowledge, Saves(r, next), next.done = me.done,
             me.pc \notin Publishing, next.pc # "finalize"
      PROVE  Publication_IInv'
  BY <1>1, <1>3, SavesPublish
<1>4. /\ Opened(me).pc # "finalize" /\ Fetched(me).pc # "finalize"
      /\ Reacquired(me).pc # "finalize" /\ Extracted(me).pc # "finalize"
      /\ Grown(me).pc = me.pc /\ Transcribed(me).pc # "finalize"
      /\ MarkedAll(me).pc # "finalize" /\ AllPublished(me).pc = "finalize"
      /\ Opened(me).done = me.done /\ Fetched(me).done = me.done
      /\ Reacquired(me).done = me.done /\ Extracted(me).done = me.done
      /\ Grown(me).done = me.done /\ Transcribed(me).done = me.done
      /\ MarkedAll(me).done = me.done /\ AllPublished(me).done = me.done
  <2>1. Opened(me).pc # "finalize"
    BY <1>2 DEF Opened, Marked, Knowledge
  <2>2. QED  BY <1>2, <2>1, SavedFields
<1>5. CASE Open(r)
  <2>1. me.pc = "open" /\ Saves(r, Opened(me)) /\ Opened(me) \in Knowledge
    BY <1>2, <1>5, StageSteps, AfterOpen
  <2>2. QED  BY <1>3, <1>4, <2>1 DEF Publishing
<1>6. CASE Fetch(r)
  <2>1. me.pc = "fetch" /\ Saves(r, Fetched(me)) /\ Fetched(me) \in Knowledge
    BY <1>2, <1>6, StageSteps, AfterFetch
  <2>2. QED  BY <1>3, <1>4, <2>1 DEF Publishing
<1>7. CASE Reacquire(r)
  <2>1. me.pc = "fetch" /\ Saves(r, Reacquired(me)) /\ Reacquired(me) \in Knowledge
    BY <1>2, <1>7, StageSteps, AfterFetch
  <2>2. QED  BY <1>3, <1>4, <2>1 DEF Publishing
<1>8. CASE Extract(r)
  <2>1. me.pc = "extract" /\ Saves(r, Extracted(me)) /\ Extracted(me) \in Knowledge
    BY <1>2, <1>8, StageSteps, AfterExtract
  <2>2. QED  BY <1>3, <1>4, <2>1 DEF Publishing
<1>9. CASE Core(r)
  <2>1. me.pc = "core" /\ Saves(r, Grown(me)) /\ Grown(me) \in Knowledge
    BY <1>2, <1>9, StageSteps, AfterCore
  <2>2. QED  BY <1>3, <1>4, <2>1 DEF Publishing
<1>10. CASE Recheck(r)
  <2>1. me.pc = "recheck" /\ Saves(r, Transcribed(me)) /\ Transcribed(me) \in Knowledge
    BY <1>2, <1>10, StageSteps, AfterRecheck
  <2>2. QED  BY <1>3, <1>4, <2>1 DEF Publishing
<1>11. CASE Mark(r)
  <2>1. me.pc = "mark" /\ Saves(r, MarkedAll(me)) /\ MarkedAll(me) \in Knowledge
    BY <1>2, <1>11, StageSteps, AfterMarks
  <2>2. QED  BY <1>3, <1>4, <2>1 DEF Publishing
<1>12. CASE Published(r)
  <2>1. /\ me.pc = "publish" /\ me.done = Len(Formats)
        /\ Saves(r, AllPublished(me)) /\ AllPublished(me) \in Knowledge
    BY <1>2, <1>12, StageSteps, AfterMarks
  <2>2. AllPublished(me).text = me.text
    BY <1>2 DEF AllPublished, Marked, Knowledge
  <2>3. QED  BY <1>1, <1>4, <2>1, <2>2, SavesPublish DEF Publishing
<1>13. QED  BY <1>5, <1>6, <1>7, <1>8, <1>9, <1>10, <1>11, <1>12

\* nor do the optional ones.
LEMMA LabelsPublish ==
    ASSUME Publication_IInv, Core_IInv', NEW r \in Runs, Diarize(r) \/ Translate(r)
    PROVE  Publication_IInv'
<1> DEFINE me == run[r]
<1>1. Live(r) /\ me.pc \in {"diarize", "translate"} /\ me.pc \notin Publishing
  BY LabelSteps DEF Live, Working, Publishing
<1>2. me \in Knowledge /\ Known(me) /\ TypeOK /\ Printed(me)
  BY <1>1, KnownNow DEF Publication_IInv, Core_IInv, Outputs
<1>3. /\ Diarized(me, r).done = me.done /\ Translated(me, r).done = me.done
      /\ Diarized(me, r).pc # "finalize" /\ Translated(me, r).pc # "finalize"
  BY <1>2, SavedFields
<1>4. CASE Diarize(r) /\ Due(me, "diarize", me.req.dia)
  <2>1. Saves(r, Diarized(me, r)) /\ Diarized(me, r) \in Knowledge
    BY <1>2, <1>4, LabelSteps, AfterLabels
  <2>2. QED  BY <1>1, <1>3, <2>1, SavesPublish
<1>5. CASE Translate(r) /\ Due(me, "translate", me.req.tr)
  <2>1. Saves(r, Translated(me, r)) /\ Translated(me, r) \in Knowledge
    BY <1>2, <1>5, LabelSteps, AfterLabels
  <2>2. QED  BY <1>1, <1>3, <2>1, SavesPublish
<1>6. CASE \/ Diarize(r) /\ ~Due(me, "diarize", me.req.dia)
           \/ Translate(r) /\ ~Due(me, "translate", me.req.tr)
  <2>1. PICK pc \in {"translate", "mark"} : Move(r, [me EXCEPT !.pc = pc]) /\ World' = World
    BY <1>6, LabelSteps
  <2> DEFINE next == [me EXCEPT !.pc = pc]
  <2>2. /\ next \in Knowledge /\ next.done = me.done /\ next.pc # "finalize"
    BY <1>2, <2>1 DEF Knowledge, Working
  <2>3. Printed(next)
    BY <1>1, <1>2, <2>2, PrintedSame
  <2>4. QED  BY <1>1, <2>1, <2>2, <2>3, FilesKept DEF Move, World
<1>7. QED  BY <1>4, <1>5, <1>6

\* A file that a run adopts is its rendering of its words.
LEMMA AdoptedFacts ==
    ASSUME NEW file \in File, NEW words \in Heard, NEW stamp \in Nat, NEW f,
           IsOwnPublication(file, Rendered(f, words, stamp), f)
    PROVE  file.by = Mine /\ file.words = words
<1> DEFINE data == Rendered(f, words, stamp)
<1>1. data \in File /\ data.by = Mine /\ data.words = words
  BY RenderedType
<1>2. CASE f \notin Stamped
  BY <1>1, <1>2 DEF IsOwnPublication, HoldsExactly
<1>3. CASE f \in Stamped
  <2>1. [file EXCEPT !.stamp = 0] = [data EXCEPT !.stamp = 0]
    BY <1>3 DEF IsOwnPublication, MatchesButStamp, Normalised
  <2>2. /\ [file EXCEPT !.stamp = 0].by = file.by
        /\ [file EXCEPT !.stamp = 0].words = file.words
        /\ [data EXCEPT !.stamp = 0].by = data.by
        /\ [data EXCEPT !.stamp = 0].words = data.words
    BY <1>1 DEF File
  <2>3. QED  BY <1>1, <2>1, <2>2
<1>4. QED  BY <1>2, <1>3

\* A write that is not told "taken" found the name free.
LEMMA FreeFacts ==
    ASSUME NEW volume, NEW file
    PROVE  /\ AtomicWrite(volume, file) = "published" => file = NoFile
           /\ AtomicWrite(volume, file) = "taken" => file # NoFile
BY DEF AtomicWrite, LinkOrTaken, RenameNoReplace, RenameExclusive, Exists

\* A format is asked for once.
LEMMA FormatsDiffer ==
    ASSUME NEW i \in 1..Len(Formats), NEW k \in 1..Len(Formats), Formats[i] = Formats[k]
    PROVE  i = k
BY FormatsAssumption

\* Writing or adopting a format puts this run's words out.
LEMMA PublishFiles ==
    ASSUME Publication_IInv, Core_IInv', NEW r \in Runs, CoresDone(r) \/ Publish(r)
    PROVE  Publication_IInv'
<1> DEFINE me == run[r]
<1>1. Live(r) /\ row' = row /\ World' = World
  BY DEF CoresDone, Publish, Move, Live, Working, World
<1>2. me \in Knowledge /\ TypeOK /\ Printed(me)
  BY <1>1, KnownNow DEF Publication_IInv, Core_IInv, Outputs
<1>3. CASE CoresDone(r)
  <2> DEFINE next == [me EXCEPT !.pc = "recheck"]
  <2>1. me.pc = "core" /\ run' = [run EXCEPT ![r] = next]
    BY <1>3 DEF CoresDone, Move
  <2>2. next \in Knowledge /\ next.done = me.done /\ next.pc = "recheck"
    BY <1>2 DEF Knowledge, Working
  <2>3. Printed(next)
    BY <1>2, <2>1, <2>2, PrintedSame DEF Publishing
  <2>4. QED  BY <1>1, <2>1, <2>2, <2>3, FilesKept DEF World
<1>4. CASE Publish(r)
  <2> DEFINE format == Formats[me.done + 1]
             adopts == me.given # NoRecord
                       /\ IsOwnPublication(disk[format], Rendered(format, me.text, r), format)
  <2>1. /\ me.pc = "publish" /\ me.done \in 0..Len(Formats) /\ me.done < Len(Formats)
        /\ run' = [run EXCEPT ![r] = IF adopts THEN [me EXCEPT !.done = @ + 1]
                                               ELSE [me EXCEPT !.pc = "link"]]
    BY <1>2, <1>4 DEF Publish, Move, Knowledge
  <2>2. CASE ~adopts
    <3> DEFINE next == [me EXCEPT !.pc = "link"]
    <3>1. next \in Knowledge /\ next.done = me.done /\ next.text = me.text /\ next.pc = "link"
      BY <1>2 DEF Knowledge, Working
    <3>2. Printed(next)
      BY <1>2, <3>1, PrintedSame DEF Publishing
    <3>3. run' = [run EXCEPT ![r] = next]
      BY <2>1, <2>2
    <3>4. QED  BY <1>1, <3>1, <3>2, <3>3, FilesKept DEF World
  <2>3. CASE adopts
    <3> DEFINE next == [me EXCEPT !.done = @ + 1]
    <3>1. format \in FormatSet /\ me.done + 1 \in 0..Len(Formats)
      BY <2>1, FormatAt
    <3>2. /\ next \in Knowledge /\ next.done = me.done + 1 /\ next.text = me.text
          /\ next.pc = "publish"
      BY <1>2, <2>1, <3>1 DEF Knowledge
    <3>3. disk[format] \in File /\ me.text \in Heard /\ r \in Nat
      BY <1>2, <3>1 DEF TypeOK, Knowledge, Runs
    <3>4. Ours(format) /\ disk[format].words = me.text
      BY <2>3, <3>3, AdoptedFacts DEF Ours
    <3>5. \A i \in 1..next.done : i \in 1..me.done \/ i = me.done + 1
      BY <2>1, <3>2
    <3>6. Printed(next)
      BY <1>2, <3>2, <3>4, <3>5 DEF Printed, Publishing
    <3>7. run' = [run EXCEPT ![r] = next]
      BY <2>1, <2>3
    <3>8. QED  BY <1>1, <3>2, <3>6, <3>7, FilesKept DEF World
  <2>4. QED  BY <2>2, <2>3
<1>5. QED  BY <1>3, <1>4

\* So does the link that completes the write of a free name.
LEMMA LinkFiles ==
    ASSUME Publication_IInv, Core_IInv', NEW r \in Runs, Link(r)
    PROVE  Publication_IInv'
<1> DEFINE me == run[r]
           format == Formats[me.done + 1]
           data == Rendered(format, me.text, r)
<1> USE DEF Publication_IInv
<1>1. Live(r) /\ me.pc = "link" /\ row' = row /\ removals' = removals
  BY DEF Link, Move, Live, Working
<1>2. me \in Knowledge /\ Known(me) /\ TypeOK /\ Printed(me) /\ removals = 0
  BY <1>1, KnownNow DEF Core_IInv, Outputs, Finished
<1>3. me.done \in 0..Len(Formats) /\ me.done < Len(Formats)
  BY <1>1, <1>2 DEF Known, Knowledge
<1>4. format \in FormatSet /\ me.done + 1 \in 0..Len(Formats)
  BY <1>3, FormatAt
<1>5. PICK volume \in Volumes :
        \/ /\ AtomicWrite(volume, disk[format]) = "published"
           /\ disk' = [disk EXCEPT ![format] = data]
           /\ run' = [run EXCEPT ![r] = [me EXCEPT !.done = @ + 1, !.pc = "publish"]]
        \/ /\ AtomicWrite(volume, disk[format]) = "taken"
           /\ run' = [run EXCEPT ![r] = [me EXCEPT !.pc = "refused"]]
           /\ disk' = disk
  BY DEF Link, Move
<1>6. CASE AtomicWrite(volume, disk[format]) = "taken"
  <2> DEFINE next == [me EXCEPT !.pc = "refused"]
  <2>1. disk' = disk /\ run' = [run EXCEPT ![r] = next]
    BY <1>5, <1>6
  <2>2. next \in Knowledge /\ next.done = me.done /\ next.text = me.text /\ next.pc = "refused"
    BY <1>2 DEF Knowledge, Working
  <2>3. Printed(next)
    BY <1>2, <2>2, PrintedSame DEF Publishing
  <2>4. QED  BY <1>1, <2>1, <2>2, <2>3, FilesKept
<1>7. CASE AtomicWrite(volume, disk[format]) = "published"
  <2> DEFINE next == [me EXCEPT !.done = @ + 1, !.pc = "publish"]
  <2>1. disk' = [disk EXCEPT ![format] = data] /\ run' = [run EXCEPT ![r] = next]
    BY <1>5, <1>7
  <2>2. disk[format] = NoFile /\ ~Ours(format)
    <3>1. disk[format] = NoFile
      BY <1>7, FreeFacts
    <3>2. QED  BY <3>1, OwnersAssumption DEF Ours, NoFile
  <2>3. row.state # "done"
    BY <1>2, <1>4, <2>2 DEF Finished
  <2>4. /\ data.by = Mine /\ data.words = me.text /\ data.whole
        /\ format \notin Stamped => data.stamp = 0
    BY <1>2, RenderedType DEF Knowledge, Runs
  <2>5. \A f \in FormatSet : disk'[f] = IF f = format THEN data ELSE disk[f]
    BY <1>2, <2>1 DEF TypeOK
  <2>6. Shaped'
    BY <1>4, <2>4, <2>5, OwnersAssumption DEF Shaped, Ours
  <2>7. /\ next.done = me.done + 1 /\ next.text = me.text /\ next.pc = "publish"
    BY <1>2 DEF Knowledge
  <2>8. \A i \in 1..Len(Formats) : Formats[i] \in FormatSet
    BY DEF FormatSet
  <2>9. ASSUME NEW q \in Runs, Live(q), NEW i \in 1..run[q].done
        PROVE  /\ Ours(Formats[i])' /\ disk'[Formats[i]].words = run[q].text
    <3>1. Ours(Formats[i]) /\ disk[Formats[i]].words = run[q].text
      BY <2>9 DEF Outputs, Printed
    <3>2. run[q].done \in 0..Len(Formats)
      BY <1>2 DEF TypeOK, Knowledge
    <3>3. Formats[i] \in FormatSet /\ Formats[i] # format
      BY <2>2, <2>8, <3>1, <3>2
    <3>4. QED  BY <2>5, <3>1, <3>3 DEF Ours
  <2>10. Outputs'
    <3> SUFFICES ASSUME NEW q \in Runs, Live(q)'  PROVE Printed(run[q])'
      BY DEF Outputs
    <3>1. CASE q # r
      <4>1. run'[q] = run[q] /\ Live(q)
        BY <1>2, <2>1, <3>1 DEF Live, TypeOK
      <4>2. Printed(run[q])
        BY <4>1 DEF Outputs
      <4>3. QED  BY <2>9, <4>1, <4>2 DEF Printed
    <3>2. CASE q = r
      <4>1. run'[r] = next
        BY <1>2, <2>1 DEF TypeOK
      <4>2. disk'[format].by = Mine /\ disk'[format].words = me.text
        BY <1>4, <2>4, <2>5
      <4>3. \A i \in 1..next.done : i \in 1..me.done \/ i = me.done + 1
        BY <1>3, <2>7
      <4>4. \A i \in 1..next.done :
               disk'[Formats[i]].by = Mine /\ disk'[Formats[i]].words = me.text
        BY <1>1, <2>9, <4>2, <4>3 DEF Ours
      <4>5. QED  BY <2>7, <3>2, <4>1, <4>4 DEF Printed, Publishing, Ours
    <3>3. QED  BY <3>1, <3>2
  <2>11. Finished'
    BY <1>1, <1>2, <2>3 DEF Finished
  <2>12. QED  BY <2>6, <2>10, <2>11
<1>8. QED  BY <1>5, <1>6, <1>7

\* A run that finishes has every format out.
LEMMA EndFiles ==
    ASSUME Publication_IInv, Core_IInv', NEW r \in Runs, Finalize(r) \/ Fail(r) \/ Die(r)
    PROVE  Publication_IInv'
<1> USE DEF Publication_IInv
<1>1. /\ Live(r) /\ run' = [run EXCEPT ![r] = Over] /\ Over.pc \notin Working
      /\ disk' = disk /\ removals' = removals
  BY DEF Finalize, Fail, Die, Live, Working, Over, Unborn, World
<1>2. /\ run[r] \in Knowledge /\ Printed(run[r]) /\ row \in RowType /\ Over \in Knowledge
      /\ run \in [Runs -> Knowledge]
  BY <1>1, ConstantFacts DEF Core_IInv, TypeOK, Outputs
<1>3. CASE row'.state = "done" => row.state = "done" /\ row'.words = row.words
  BY <1>1, <1>2, <1>3, FilesKept
<1>4. CASE Finalize(r) /\ Owned(r)
  <2>1. /\ run[r].pc = "finalize" /\ row'.state = "done" /\ row'.words = run[r].text
    BY <1>2, <1>4 DEF Finalize
  <2>2. run[r].done = Len(Formats)
    BY <1>2, <2>1 DEF Printed
  <2>3. \A f \in FormatSet : Ours(f) /\ disk[f].words = run[r].text
    BY <1>2, <2>2 DEF FormatSet, Printed
  <2>4. removals = 0
    BY <1>1 DEF Finished
  <2>5. Finished'
    BY <1>1, <2>1, <2>3, <2>4 DEF Finished, Ours
  <2>6. Shaped'
    BY <1>1 DEF Shaped, Ours
  <2>7. Outputs'
    <3> SUFFICES ASSUME NEW q \in Runs, Live(q)'  PROVE Printed(run[q])'
      BY DEF Outputs
    <3>1. run'[q] = run[q] /\ Live(q)
      BY <1>1, <1>2 DEF Live
    <3>2. QED  BY <1>1, <3>1 DEF Outputs, Printed, Ours
  <2>8. QED  BY <2>5, <2>6, <2>7
<1>5. CASE ~(Finalize(r) /\ Owned(r))
  <2>1. row' = row \/ row'.state = "error"
    BY <1>2, <1>5 DEF Finalize, Fail, Die
  <2>2. QED  BY <1>3, <2>1
<1>6. QED  BY <1>4, <1>5

\* A launch starts with nothing out.
LEMMA LaunchFiles ==
    ASSUME Publication_IInv, Core_IInv', NEW r \in Runs, NEW req \in Requests, Launch(r, req)
    PROVE  Publication_IInv'
<1> DEFINE me == Launched(req, Record_At(r))
<1> USE DEF Publication_IInv
<1>1. /\ row.state \in {"fresh", "error"} /\ row'.state = "running"
      /\ run' = [run EXCEPT ![r] = me] /\ me \in Knowledge
      /\ disk' = disk /\ removals' = removals
  BY LaunchFacts DEF World
<1>2. me.pc = "open" /\ me.done = 0
  BY DEF Launched, Unborn
<1>3. Printed(me)
  BY <1>2 DEF Printed
<1>4. removals = 0 /\ run \in [Runs -> Knowledge]
  BY <1>1 DEF Finished, Core_IInv, TypeOK
<1>5. Shaped' /\ Finished'
  BY <1>1, <1>4 DEF Shaped, Finished, Ours
<1>6. Outputs'
  <2> SUFFICES ASSUME NEW q \in Runs, Live(q)'  PROVE Printed(run[q])'
    BY DEF Outputs
  <2>1. Printed(run'[q])
    BY <1>1, <1>3, <1>4 DEF Outputs, Live
  <2>2. QED  BY <1>1, <2>1 DEF Printed, Ours
<1>7. QED  BY <1>5, <1>6

\* A reader of a finished job writes the job's own words again.
LEMMA ReuseFiles ==
    ASSUME Publication_IInv, Core_IInv', NEW volume \in Volumes,
           ReuseDone(row.attempt + 1, volume)
    PROVE  Publication_IInv'
<1> DEFINE stamp == row.attempt + 1
           result == Ensured(disk, row.outputs, Formats, row.words, stamp, volume)
<1> USE DEF Publication_IInv
<1>1. /\ row.state = "done" /\ disk' = result.disk /\ run' = run /\ removals' = removals
      /\ row'.state = "done" /\ row'.words = row.words
  BY DEF ReuseDone, Core_IInv, TypeOK
<1>2. stamp \in Nat /\ row.words \in Heard /\ TypeOK
  BY DEF Core_IInv, TypeOK
<1>3. \A f \in FormatSet : disk'[f] \in {disk[f], Rendered(f, row.words, stamp)}
  BY <1>1, <1>2, EnsuredFiles
<1>4. \A f \in FormatSet :
        LET file == Rendered(f, row.words, stamp)
        IN  /\ file.by = Mine /\ file.words = row.words /\ file.whole
            /\ f \notin Stamped => file.stamp = 0
  BY <1>2, RenderedType
<1>5. \A f \in FormatSet :
        \/ disk'[f] = disk[f]
        \/ /\ disk'[f].by = Mine /\ disk'[f].words = row.words /\ disk'[f].whole
           /\ f \notin Stamped => disk'[f].stamp = 0
  BY <1>3, <1>4
<1>6. Shaped'
  BY <1>5, OwnersAssumption DEF Shaped, Ours
<1>7. \A f \in FormatSet : /\ Ours(f) => disk[f].words = row.words
                           /\ removals = 0 => Ours(f)
  BY <1>1 DEF Finished
<1>8. \A f \in FormatSet : /\ Ours(f)' => disk'[f].words = row.words
                           /\ Ours(f) => Ours(f)'
  BY <1>5, <1>7 DEF Ours
<1>9. Finished'
  BY <1>1, <1>7, <1>8 DEF Finished, Live
<1>10. Outputs'
  <2> SUFFICES ASSUME NEW q \in Runs, Live(q)'  PROVE Printed(run[q])'
    BY DEF Outputs
  <2>1. Live(q) /\ Printed(run[q]) /\ run'[q] = run[q]
    BY <1>1 DEF Live, Outputs
  <2>2. run[q].done \in 0..Len(Formats)
    BY <1>2 DEF TypeOK, Knowledge
  <2>3. ASSUME NEW i \in 1..run[q].done
        PROVE  Ours(Formats[i])' /\ disk'[Formats[i]].words = run[q].text
    <3>1. Formats[i] \in FormatSet
      BY <2>2, ConstantFacts DEF FormatSet
    <3>2. Ours(Formats[i]) /\ disk[Formats[i]].words = run[q].text
      BY <2>1 DEF Printed
    <3>3. QED  BY <1>7, <1>8, <3>1, <3>2
  <2>4. QED  BY <2>1, <2>3 DEF Printed
<1>11. QED  BY <1>6, <1>9, <1>10

\* Reaps, edits and others in the directory take none of our files but after the end.
LEMMA OtherFiles ==
    ASSUME Publication_IInv, Core_IInv',
           Reap \/ Edit \/ (\E f \in FormatSet : Intrude(f) \/ Remove(f)) \/ UNCHANGED vars
    PROVE  Publication_IInv'
<1> USE DEF Publication_IInv
<1>1. run' = run /\ row \in RowType /\ TypeOK
  BY DEF Reap, Edit, Intrude, Remove, vars, Core_IInv, TypeOK
<1>2. CASE Reap \/ Edit \/ UNCHANGED vars
  <2>1. disk' = disk /\ removals' = removals
    BY <1>2 DEF Reap, Edit, vars
  <2>2. /\ row'.words = row.words
        /\ row' = row \/ (row.state = "running" /\ row'.state = "error")
    BY <1>1, <1>2 DEF Reap, Edit, vars
  <2>3. Shaped' /\ Outputs'
    BY <1>1, <2>1 DEF Shaped, Outputs, Printed, Ours, Live
  <2>4. Finished'
    BY <1>1, <2>1, <2>2 DEF Finished, Ours, Live
  <2>5. QED  BY <2>3, <2>4
<1>3. ASSUME NEW f \in FormatSet, Intrude(f)
      PROVE  Publication_IInv'
  <2>1. /\ disk[f] = NoFile /\ disk' = [disk EXCEPT ![f] = Foreign]
        /\ row' = row /\ removals' = removals
    BY <1>3 DEF Intrude, Exists
  <2>2. /\ \A g \in FormatSet : g # f => disk'[g] = disk[g]
        /\ disk'[f] = Foreign
    BY <1>1, <2>1 DEF TypeOK
  <2>3. Foreign.by = Theirs /\ ~Ours(f) /\ ~Ours(f)'
    BY <2>1, <2>2, OwnersAssumption DEF Ours, Foreign, NoFile
  <2>4. Shaped'
    BY <2>2, <2>3, OwnersAssumption DEF Shaped, Ours
  <2>5. \A g \in FormatSet : (Ours(g) <=> Ours(g)') /\ (Ours(g) => disk'[g] = disk[g])
    BY <2>2, <2>3 DEF Ours
  <2>6. Finished'
    BY <1>1, <2>1, <2>5 DEF Finished, Live
  <2>7. Outputs'
    <3> SUFFICES ASSUME NEW q \in Runs, Live(q)'  PROVE Printed(run[q])'
      BY DEF Outputs
    <3>1. Live(q) /\ Printed(run[q])
      BY <1>1 DEF Live, Outputs
    <3>2. run[q].done \in 0..Len(Formats)
      BY <1>1 DEF TypeOK, Knowledge
    <3>3. \A i \in 1..run[q].done : Formats[i] \in FormatSet
      BY <3>2, ConstantFacts DEF FormatSet
    <3>4. QED  BY <1>1, <2>5, <3>1, <3>3 DEF Printed
  <2>8. QED  BY <2>4, <2>6, <2>7
<1>4. ASSUME NEW f \in FormatSet, Remove(f)
      PROVE  Publication_IInv'
  <2>1. /\ row.state = "done" /\ (\A q \in Runs : ~Live(q)) /\ row' = row
        /\ disk' = [disk EXCEPT ![f] = NoFile] /\ removals' = removals + 1
    BY <1>4 DEF Remove
  <2>2. removals' # 0
    BY <1>1, <2>1 DEF TypeOK
  <2>3. /\ \A g \in FormatSet : g # f => disk'[g] = disk[g]
        /\ disk'[f] = NoFile
    BY <1>1, <2>1 DEF TypeOK
  <2>4. NoFile.by = "nobody" /\ ~Ours(f)'
    BY <2>3, OwnersAssumption DEF Ours, NoFile
  <2>5. Shaped'
    BY <2>3, <2>4 DEF Shaped, Ours
  <2>6. \A g \in FormatSet : Ours(g)' => Ours(g) /\ disk'[g] = disk[g]
    BY <2>3, <2>4 DEF Ours
  <2>7. Finished'
    BY <1>1, <2>1, <2>2, <2>6 DEF Finished, Live
  <2>8. Outputs'
    BY <1>1, <2>1 DEF Outputs, Live
  <2>9. QED  BY <2>5, <2>7, <2>8
<1>5. QED  BY <1>2, <1>3, <1>4

\* It is inductive,
LEMMA PublicationNext ==
    ASSUME Publication_IInv, [Next]_vars
    PROVE  Publication_IInv'
<1>1. Core_IInv'
  BY CoreNext DEF Publication_IInv
<1>2. ASSUME NEW r \in Runs, NEW q \in Requests, Launch(r, q)  PROVE Publication_IInv'
  BY <1>1, <1>2, LaunchFiles
<1>3. ASSUME NEW r \in Runs, Step(r)  PROVE Publication_IInv'
  BY <1>1, <1>3, StagesPublish, LabelsPublish, PublishFiles, LinkFiles, EndFiles DEF Step
<1>4. QED  BY <1>1, <1>2, <1>3, ReuseFiles, OtherFiles DEF Next

\* and holds at first.
LEMMA PublicationInit == Init => Publication_IInv
<1> SUFFICES ASSUME Init  PROVE Publication_IInv
  OBVIOUS
<1>1. \A r \in Runs : ~Live(r)
  BY DEF Init, Unborn, Live, Working
<1>2. /\ row.state # "done" /\ removals = 0 /\ \A f \in FormatSet : disk[f] = NoFile
  BY DEF Init, Row
<1>3. NoFile.by = "nobody"
  BY DEF NoFile
<1>4. Shaped
  BY <1>2, <1>3, OwnersAssumption DEF Shaped, Ours
<1>5. QED  BY <1>1, <1>2, <1>4, CoreInit DEF Publication_IInv, Outputs, Finished

\* The files of a finished job are renderings of the words in its row, all of them
\* until the user deletes some, whichever runs published them, whatever else took
\* names in the directory and however often a reader had outputs written again.
THEOREM FinishedIsPublished == Spec => []DoneIsPublished
<1>1. Publication_IInv /\ [Next]_vars => Publication_IInv'
  BY PublicationNext
<1>2. Publication_IInv => DoneIsPublished
  BY DEF Publication_IInv, Finished, DoneIsPublished, Ours
<1>3. QED  BY <1>1, <1>2, PublicationInit, PTL DEF Spec

-----------------------------------------------------------------------------
(* Why a run is refused.                                                      *)

\* Without a premature reap the run at work owns the row, and works alone.
LEMMA Alone ==
    ASSUME Refusal_IInv, ~overlapped, NEW r \in Runs, Live(r)
    PROVE  /\ Owned(r) /\ row.state = "running" /\ row.attempt = r
           /\ \A q \in Runs : Live(q) => q = r
<1>1. \A q \in Runs : Live(q) => Owned(q)
  BY DEF Refusal_IInv, Consistent
<1>2. QED  BY <1>1 DEF Owned

\* Every file of ours is of the words on record, which are final.
Settled(c) ==
    \A f \in FormatSet : Ours(f) =>
        HasText(c) /\ "postprocess" \in c.stages /\ c.text = disk[f].words

\* A step of the run at work that leaves the files alone and the record settled.
LEMMA RefusalStep ==
    ASSUME Refusal_IInv, ~overlapped, NEW r \in Runs, NEW me \in Knowledge, Live(r),
           run' = [run EXCEPT ![r] = me], disk' = disk, overlapped' = overlapped,
           row'.state = row.state, row'.attempt = row.attempt,
           me.given = run[r].given, run[r].done <= me.done,
           Settled(row'.ckpt),
           me.pc = "link" => ~Ours(Formats[me.done + 1]),
           me.pc = "refused" => disk[Formats[me.done + 1]].by = Theirs
    PROVE  Consistent'
<1>1. Owned(r) /\ row.state = "running" /\ \A q \in Runs : Live(q) => q = r
  BY Alone
<1>2. run \in [Runs -> Knowledge] /\ run'[r] = me /\ run[r] \in Knowledge
  BY DEF Refusal_IInv, Request_IInv, Core_IInv, TypeOK
<1>3. \A q \in Runs : q # r => run'[q] = run[q] /\ ~Live(q)
  BY <1>1, <1>2
<1>4. \A q \in Runs : Live(q)' => Owned(q)'
  BY <1>1, <1>3 DEF Live, Owned
<1>5. \A f \in FormatSet : row'.state # "done" /\ Ours(f)' =>
        /\ HasText(row'.ckpt) /\ "postprocess" \in row'.ckpt.stages
        /\ row'.ckpt.text = disk'[f].words
  BY DEF Settled, Ours
<1>6. ASSUME NEW q \in Runs, NEW f \in FormatSet, Live(q)', run'[q].given = NoRecord, Ours(f)'
      PROVE  \E i \in 1..run'[q].done : Formats[i] = f
  <2>1. q = r /\ Ours(f) /\ run[r].given = NoRecord
    BY <1>2, <1>3, <1>6 DEF Live, Ours
  <2>2. PICK i \in 1..run[r].done : Formats[i] = f
    BY <2>1 DEF Refusal_IInv, Consistent
  <2>3. i \in 1..me.done
    BY <1>2, <2>2, ConstantFacts, SMTT(30) DEF Knowledge
  <2>4. QED  BY <1>2, <2>1, <2>2, <2>3
<1>7. \A q \in Runs :
        /\ run'[q].pc = "link" => disk'[Formats[run'[q].done + 1]].by # Mine
        /\ run'[q].pc = "refused" => disk'[Formats[run'[q].done + 1]].by = Theirs
  BY <1>2, <1>3 DEF Live, Working, Ours
<1>8. QED  BY <1>4, <1>5, <1>6, <1>7 DEF Consistent, HasText, Ours

\* A save that keeps words already final leaves it settled.
LEMMA SavesRefusal ==
    ASSUME Refusal_IInv, ~overlapped, NEW r \in Runs, NEW me \in Knowledge, Live(r),
           run[r].pc # "open", Saves(r, me), me.given = run[r].given,
           me.done = run[r].done, me.pc \notin {"link", "refused"},
           HasText(run[r]) /\ "postprocess" \in run[r].stages =>
              me.text = run[r].text /\ "postprocess" \in me.stages
    PROVE  Consistent'
<1>1. Owned(r) /\ row.state = "running"
  BY Alone
<1>2. row.ckpt = Snapshot(run[r]) /\ row \in RowType /\ run[r] \in Knowledge
  BY <1>1 DEF Refusal_IInv, Request_IInv, Core_IInv, InStep, TypeOK
<1>3. /\ row'.ckpt = Snapshot(me) /\ row'.state = row.state /\ row'.attempt = row.attempt
      /\ run' = [run EXCEPT ![r] = me] /\ disk' = disk /\ overlapped' = overlapped
  BY <1>1, <1>2 DEF Saves, Saved, World
<1>4. Settled(row'.ckpt)
  <2> SUFFICES ASSUME NEW f \in FormatSet, Ours(f)
               PROVE  /\ HasText(row'.ckpt) /\ "postprocess" \in row'.ckpt.stages
                      /\ row'.ckpt.text = disk[f].words
    BY DEF Settled
  <2>1. /\ HasText(row.ckpt) /\ "postprocess" \in row.ckpt.stages
        /\ row.ckpt.text = disk[f].words
    BY <1>1 DEF Refusal_IInv, Consistent
  <2>2. HasText(run[r]) /\ "postprocess" \in run[r].stages /\ run[r].text = disk[f].words
    BY <1>2, <2>1 DEF Snapshot, HasText
  <2>3. me.text = disk[f].words /\ "postprocess" \in me.stages
    BY <2>2
  <2>4. QED  BY <1>3, <2>2, <2>3 DEF Snapshot, HasText
<1>5. run[r].done <= me.done
  BY <1>2 DEF Knowledge
<1>6. QED  BY <1>3, <1>4, <1>5, RefusalStep

\* A run that was handed the last mark has no stage left to do.
LEMMA NothingDue ==
    ASSUME NEW me \in Knowledge, Known(me), Asked(me), me.pc \notin Publishing,
           "postprocess" \in me.stages
    PROVE  ~Due(me, "diarize", me.req.dia) /\ ~Due(me, "translate", me.req.tr)
<1>1. "postprocess" \in me.given.stages /\ Tagged(me.given) /\ Kept(me.given)
  BY DEF Asked, Known
<1>2. HasText(me.given)
  BY <1>1 DEF Tagged
<1>3. CanResume(me.given) /\ me.given # NoRecord
  BY <1>1, <1>2 DEF CanResume, Kept, HasText, NoRecord, NoWords
<1>4. me.given.req = me.req
  BY <1>3 DEF Asked
<1>5. /\ me.req.dia # Off => StageCompleted(me.given, "diarize", me.req.dia)
      /\ me.req.tr # Off => StageCompleted(me.given, "translate", me.req.tr)
  BY <1>1, <1>4 DEF StageCompleted
<1>6. QED  BY <1>3, <1>5 DEF Due

\* The required stages keep it settled,
LEMMA StagesRefusal ==
    ASSUME Refusal_IInv, ~overlapped, NEW r \in Runs,
           \/ Open(r) \/ Fetch(r) \/ Reacquire(r) \/ Extract(r) \/ Core(r) \/ Recheck(r)
           \/ Mark(r) \/ Published(r)
    PROVE  Consistent'
<1> DEFINE me == run[r]
<1>1. Live(r)
  BY StageSteps DEF Live, Working
<1>2. me \in Knowledge /\ Known(me) /\ TypeOK /\ Core_IInv
  BY <1>1, KnownNow DEF Refusal_IInv, Request_IInv, Core_IInv
<1>3. /\ Opened(me).given = me.given /\ Opened(me).done = me.done
      /\ Opened(me).text = me.given.text
      /\ Opened(me).stages = me.given.stages \cup {"source"}
      /\ Opened(me).pc \notin {"link", "refused"}
  BY <1>2 DEF Opened, Marked, Knowledge
<1>4. CASE Open(r)
  <2>1. me.pc = "open" /\ Saves(r, Opened(me)) /\ Opened(me) \in Knowledge
    BY <1>2, <1>4, StageSteps, AfterOpen
  <2>2. Owned(r) /\ row.state = "running"
    BY <1>1, Alone
  <2>3. /\ row'.ckpt = Snapshot(Opened(me)) /\ row'.state = row.state
        /\ row'.attempt = row.attempt /\ run' = [run EXCEPT ![r] = Opened(me)]
        /\ disk' = disk /\ overlapped' = overlapped
    BY <1>2, <2>1, <2>2 DEF Saves, Saved, World, TypeOK
  <2>4. Settled(row'.ckpt)
    <3> SUFFICES ASSUME NEW f \in FormatSet, Ours(f)
                 PROVE  /\ HasText(row'.ckpt) /\ "postprocess" \in row'.ckpt.stages
                        /\ row'.ckpt.text = disk[f].words
      BY DEF Settled
    <3>1. /\ HasText(row.ckpt) /\ "postprocess" \in row.ckpt.stages
          /\ row.ckpt.text = disk[f].words
      BY <2>2 DEF Refusal_IInv, Consistent
    <3>2. row.ckpt = me.given
      BY <1>1, <1>2, <2>1, <2>2, <3>1 DEF Core_IInv, InStep
    <3>3. row'.ckpt.text = me.given.text /\ row'.ckpt.stages = me.given.stages \cup {"source"}
      BY <1>3, <2>3 DEF Snapshot
    <3>4. QED  BY <3>1, <3>2, <3>3 DEF HasText
  <2>5. me.done <= Opened(me).done
    BY <1>2, <1>3 DEF Knowledge
  <2>6. QED  BY <1>1, <1>3, <2>1, <2>3, <2>4, <2>5, RefusalStep
<1>5. CASE Fetch(r)
  <2>1. me.pc = "fetch" /\ Saves(r, Fetched(me)) /\ Fetched(me) \in Knowledge
    BY <1>2, <1>5, StageSteps, AfterFetch
  <2>2. /\ Fetched(me).given = me.given /\ Fetched(me).done = me.done
        /\ Fetched(me).text = me.text /\ Fetched(me).stages = me.stages \cup {"fetch"}
        /\ Fetched(me).pc = "extract"
    BY <1>2 DEF Fetched, Marked, Knowledge
  <2>3. QED  BY <1>1, <2>1, <2>2, SavesRefusal
<1>6. CASE Reacquire(r)
  <2>1. me.pc = "fetch" /\ Saves(r, Reacquired(me)) /\ Reacquired(me) \in Knowledge
    BY <1>2, <1>6, StageSteps, AfterFetch
  <2>2. /\ Reacquired(me).given = me.given /\ Reacquired(me).done = me.done
        /\ Reacquired(me).text = me.text /\ Reacquired(me).stages = me.stages \cup {"fetch"}
        /\ Reacquired(me).pc = "extract"
    BY <1>2 DEF Reacquired, Marked, Knowledge
  <2>3. QED  BY <1>1, <2>1, <2>2, SavesRefusal
<1>7. CASE Extract(r)
  <2>1. me.pc = "extract" /\ Saves(r, Extracted(me)) /\ Extracted(me) \in Knowledge
    BY <1>2, <1>7, StageSteps, AfterExtract
  <2>2. /\ Extracted(me).given = me.given /\ Extracted(me).done = me.done
        /\ Extracted(me).text = me.text /\ Extracted(me).stages = me.stages \cup {"extract"}
        /\ Extracted(me).pc \notin {"link", "refused"}
    BY <1>2 DEF Extracted, Marked, Knowledge
  <2>3. QED  BY <1>1, <2>1, <2>2, SavesRefusal
<1>8. CASE Core(r)
  <2>1. /\ me.pc = "core" /\ me.part.n < Cores /\ Saves(r, Grown(me))
        /\ Grown(me) \in Knowledge
    BY <1>2, <1>8, StageSteps, AfterCore
  <2>2. /\ Grown(me).given = me.given /\ Grown(me).done = me.done
        /\ Grown(me).text = me.text /\ Grown(me).stages = me.stages
        /\ Grown(me).pc = "core"
    BY <1>2, <2>1 DEF Grown, Knowledge
  <2>3. QED  BY <1>1, <2>1, <2>2, SavesRefusal
<1>9. CASE Recheck(r)
  <2>1. me.pc = "recheck" /\ Saves(r, Transcribed(me)) /\ Transcribed(me) \in Knowledge
    BY <1>2, <1>9, StageSteps, AfterRecheck
  <2>2. /\ Transcribed(me).given = me.given /\ Transcribed(me).done = me.done
        /\ Transcribed(me).pc = "diarize"
    BY <1>2 DEF Transcribed, Marked, Knowledge
  <2>3. ~HasText(me)
    BY <1>2, <2>1 DEF Known
  <2>4. QED  BY <1>1, <2>1, <2>2, <2>3, SavesRefusal
<1>10. CASE Mark(r)
  <2>1. me.pc = "mark" /\ Saves(r, MarkedAll(me)) /\ MarkedAll(me) \in Knowledge
    BY <1>2, <1>10, StageSteps, AfterMarks
  <2>2. /\ MarkedAll(me).given = me.given /\ MarkedAll(me).done = me.done
        /\ MarkedAll(me).text = me.text /\ MarkedAll(me).stages = me.stages \cup {"postprocess"}
        /\ MarkedAll(me).pc = "publish"
    BY <1>2 DEF MarkedAll, Marked, Knowledge
  <2>3. QED  BY <1>1, <2>1, <2>2, SavesRefusal
<1>11. CASE Published(r)
  <2>1. /\ me.pc = "publish" /\ Saves(r, AllPublished(me)) /\ AllPublished(me) \in Knowledge
    BY <1>2, <1>11, StageSteps, AfterMarks
  <2>2. /\ AllPublished(me).given = me.given /\ AllPublished(me).done = me.done
        /\ AllPublished(me).text = me.text /\ AllPublished(me).stages = me.stages \cup {"render"}
        /\ AllPublished(me).pc = "finalize"
    BY <1>2 DEF AllPublished, Marked, Knowledge
  <2>3. QED  BY <1>1, <2>1, <2>2, SavesRefusal
<1>12. QED  BY <1>4, <1>5, <1>6, <1>7, <1>8, <1>9, <1>10, <1>11

\* A move keeps the record, so the files still are of the words in it.
LEMMA MovesRefusal ==
    ASSUME Refusal_IInv, ~overlapped, NEW r \in Runs, NEW me \in Knowledge, Live(r),
           run' = [run EXCEPT ![r] = me], row' = row, disk' = disk,
           overlapped' = overlapped, me.given = run[r].given, run[r].done <= me.done,
           me.pc = "link" => ~Ours(Formats[me.done + 1]),
           me.pc = "refused" => disk[Formats[me.done + 1]].by = Theirs
    PROVE  Consistent'
<1>1. row.state = "running"
  BY Alone
<1>2. Settled(row.ckpt)
  BY <1>1 DEF Settled, Refusal_IInv, Consistent
<1>3. QED  BY <1>2, RefusalStep

\* and the optional ones.
LEMMA LabelsRefusal ==
    ASSUME Refusal_IInv, ~overlapped, NEW r \in Runs, Diarize(r) \/ Translate(r)
    PROVE  Consistent'
<1> DEFINE me == run[r]
<1>1. Live(r) /\ me.pc \in {"diarize", "translate"}
  BY LabelSteps DEF Live, Working
<1>2. me \in Knowledge /\ Known(me) /\ TypeOK /\ Asked(me)
  BY <1>1, KnownNow DEF Refusal_IInv, Request_IInv, Core_IInv, Answered
<1>3. CASE Diarize(r) /\ Due(me, "diarize", me.req.dia)
  <2>1. Saves(r, Diarized(me, r)) /\ Diarized(me, r) \in Knowledge
    BY <1>2, <1>3, LabelSteps, AfterLabels
  <2>2. /\ Diarized(me, r).given = me.given /\ Diarized(me, r).done = me.done
        /\ Diarized(me, r).pc = "translate"
    BY <1>2 DEF Diarized, Marked, Knowledge
  <2>3. "postprocess" \notin me.stages
    BY <1>1, <1>2, <1>3, NothingDue DEF Publishing
  <2>4. QED  BY <1>1, <2>1, <2>2, <2>3, SavesRefusal
<1>4. CASE Translate(r) /\ Due(me, "translate", me.req.tr)
  <2>1. Saves(r, Translated(me, r)) /\ Translated(me, r) \in Knowledge
    BY <1>2, <1>4, LabelSteps, AfterLabels
  <2>2. /\ Translated(me, r).given = me.given /\ Translated(me, r).done = me.done
        /\ Translated(me, r).pc = "mark"
    BY <1>2 DEF Translated, Marked, Knowledge
  <2>3. "postprocess" \notin me.stages
    BY <1>1, <1>2, <1>4, NothingDue DEF Publishing
  <2>4. QED  BY <1>1, <2>1, <2>2, <2>3, SavesRefusal
<1>5. CASE \/ Diarize(r) /\ ~Due(me, "diarize", me.req.dia)
           \/ Translate(r) /\ ~Due(me, "translate", me.req.tr)
  <2>1. PICK pc \in {"translate", "mark"} : Move(r, [me EXCEPT !.pc = pc]) /\ World' = World
    BY <1>5, LabelSteps
  <2> DEFINE next == [me EXCEPT !.pc = pc]
  <2>2. next \in Knowledge /\ next.pc = pc /\ next.given = me.given /\ me.done <= next.done
    BY <1>2, <2>1 DEF Knowledge, Working
  <2>3. /\ run' = [run EXCEPT ![r] = next] /\ row' = row /\ disk' = disk
        /\ overlapped' = overlapped
    BY <2>1 DEF Move, World
  <2>4. QED  BY <1>1, <2>1, <2>2, <2>3, MovesRefusal
<1>6. QED  BY <1>3, <1>4, <1>5

\* A file of ours with the run's words is adopted by its next rendering.
LEMMA AdoptsOurs ==
    ASSUME NEW file \in File, NEW words \in Heard, NEW stamp \in Nat, NEW f,
           file.by = Mine, file.words = words, file.whole, f \notin Stamped => file.stamp = 0
    PROVE  IsOwnPublication(file, Rendered(f, words, stamp), f)
<1> DEFINE data == Rendered(f, words, stamp)
<1>1. /\ data \in File /\ data.by = Mine /\ data.words = words /\ data.whole
      /\ f \notin Stamped => data.stamp = 0
  BY RenderedType
<1>2. file # NoFile
  BY OwnersAssumption DEF NoFile
<1>3. file.whole = data.whole
  BY <1>1 DEF File
<1>4. CASE f \notin Stamped
  <2>1. file = data
    BY <1>1, <1>3, <1>4 DEF File
  <2>2. QED  BY <1>2, <1>4, <2>1 DEF IsOwnPublication, Exists, HoldsExactly
<1>5. CASE f \in Stamped
  <2>1. [file EXCEPT !.stamp = 0] = [data EXCEPT !.stamp = 0]
    BY <1>1, <1>3 DEF File
  <2>2. [file EXCEPT !.stamp = 0] \in Normalised(file) \cap Normalised(data)
    BY <1>1, <2>1 DEF Normalised
  <2>3. QED  BY <1>2, <1>5, <2>2 DEF IsOwnPublication, Exists, MatchesButStamp
<1>6. QED  BY <1>4, <1>5

\* A format is adopted when it is ours, and refused when it is not.
LEMMA PublishRefusal ==
    ASSUME Refusal_IInv, ~overlapped, NEW r \in Runs, CoresDone(r) \/ Publish(r)
    PROVE  Consistent'
<1> DEFINE me == run[r]
<1>1. Live(r) /\ row' = row /\ disk' = disk /\ overlapped' = overlapped
  BY DEF CoresDone, Publish, Move, Live, Working, World
<1>2. me \in Knowledge /\ Known(me) /\ TypeOK /\ Asked(me) /\ Printed(me) /\ Core_IInv
  BY <1>1, KnownNow DEF Refusal_IInv, Request_IInv, Core_IInv, Answered, Outputs
<1>3. CASE CoresDone(r)
  <2> DEFINE next == [me EXCEPT !.pc = "recheck"]
  <2>1. run' = [run EXCEPT ![r] = next]
    BY <1>3 DEF CoresDone, Move
  <2>2. /\ next \in Knowledge /\ next.pc = "recheck" /\ next.given = me.given
        /\ me.done <= next.done
    BY <1>2 DEF Knowledge, Working
  <2>3. QED  BY <1>1, <2>1, <2>2, MovesRefusal
<1>4. CASE Publish(r)
  <2> DEFINE format == Formats[me.done + 1]
             adopts == me.given # NoRecord
                       /\ IsOwnPublication(disk[format], Rendered(format, me.text, r), format)
  <2>1. /\ me.pc = "publish" /\ me.done \in 0..Len(Formats) /\ me.done < Len(Formats)
        /\ run' = [run EXCEPT ![r] = IF adopts THEN [me EXCEPT !.done = @ + 1]
                                               ELSE [me EXCEPT !.pc = "link"]]
    BY <1>2, <1>4 DEF Publish, Move, Knowledge
  <2>2. format \in FormatSet /\ me.done + 1 \in 0..Len(Formats) /\ me.done + 1 \in 1..Len(Formats)
    BY <2>1, FormatAt
  <2>3. CASE adopts
    <3> DEFINE next == [me EXCEPT !.done = @ + 1]
    <3>1. /\ next \in Knowledge /\ next.pc = "publish" /\ next.given = me.given
          /\ me.done <= next.done
      BY <1>2, <2>1, <2>2 DEF Knowledge
    <3>2. run' = [run EXCEPT ![r] = next]
      BY <2>1, <2>3
    <3>3. QED  BY <1>1, <3>1, <3>2, MovesRefusal
  <2>4. CASE ~adopts
    <3> DEFINE next == [me EXCEPT !.pc = "link"]
    <3>1. /\ next \in Knowledge /\ next.pc = "link" /\ next.given = me.given
          /\ next.done = me.done /\ me.done <= next.done
      BY <1>2 DEF Knowledge, Working
    <3>2. run' = [run EXCEPT ![r] = next]
      BY <2>1, <2>4
    <3>3. ~Ours(format)
      <4> SUFFICES ASSUME Ours(format)  PROVE FALSE
        OBVIOUS
      <4>1. me.given # NoRecord
        <5> SUFFICES ASSUME me.given = NoRecord  PROVE FALSE
          OBVIOUS
        <5>1. PICK i \in 1..me.done : Formats[i] = format
          BY <1>1, <2>2 DEF Refusal_IInv, Consistent
        <5>2. i \in 1..Len(Formats) /\ i # me.done + 1
          BY <2>1, <5>1
        <5>3. QED  BY <2>2, <5>1, <5>2, FormatsDiffer
      <4>2. Owned(r) /\ row.state = "running"
        BY <1>1, Alone
      <4>3. row.ckpt = Snapshot(me)
        BY <1>1, <1>2, <2>1, <4>2 DEF Core_IInv, InStep
      <4>4. disk[format].words = me.text
        BY <2>2, <4>2, <4>3 DEF Refusal_IInv, Consistent, Snapshot
      <4>5. /\ disk[format].by = Mine /\ disk[format].whole
            /\ format \notin Stamped => disk[format].stamp = 0
        BY <2>2 DEF Refusal_IInv, Shaped, Ours
      <4>6. disk[format] \in File /\ me.text \in Heard /\ r \in Nat
        BY <1>2, <2>2 DEF TypeOK, Knowledge, Runs
      <4>7. IsOwnPublication(disk[format], Rendered(format, me.text, r), format)
        BY <4>4, <4>5, <4>6, AdoptsOurs
      <4>8. QED  BY <2>4, <4>1, <4>7
    <3>4. QED  BY <1>1, <3>1, <3>2, <3>3, MovesRefusal
  <2>5. QED  BY <2>3, <2>4
<1>5. QED  BY <1>3, <1>4

\* The name a link finds taken was taken by somebody else.
LEMMA LinkRefusal ==
    ASSUME Refusal_IInv, ~overlapped, NEW r \in Runs, Link(r)
    PROVE  Consistent'
<1> DEFINE me == run[r]
           format == Formats[me.done + 1]
           data == Rendered(format, me.text, r)
<1>1. Live(r) /\ me.pc = "link" /\ row' = row /\ overlapped' = overlapped
  BY DEF Link, Move, Live, Working
<1>2. me \in Knowledge /\ Known(me) /\ TypeOK /\ Asked(me) /\ Core_IInv
  BY <1>1, KnownNow DEF Refusal_IInv, Request_IInv, Core_IInv, Answered
<1>3. me.done \in 0..Len(Formats) /\ me.done < Len(Formats)
  BY <1>1, <1>2 DEF Known, Knowledge
<1>4. format \in FormatSet /\ me.done + 1 \in 0..Len(Formats)
  BY <1>3, FormatAt
<1>5. PICK volume \in Volumes :
        \/ /\ AtomicWrite(volume, disk[format]) = "published"
           /\ disk' = [disk EXCEPT ![format] = data]
           /\ run' = [run EXCEPT ![r] = [me EXCEPT !.done = @ + 1, !.pc = "publish"]]
        \/ /\ AtomicWrite(volume, disk[format]) = "taken"
           /\ run' = [run EXCEPT ![r] = [me EXCEPT !.pc = "refused"]]
           /\ disk' = disk
  BY DEF Link, Move
<1>6. /\ Owned(r) /\ row.state = "running" /\ row.attempt = r
      /\ \A q \in Runs : Live(q) => q = r
  BY <1>1, Alone
<1>7. CASE AtomicWrite(volume, disk[format]) = "taken"
  <2> DEFINE next == [me EXCEPT !.pc = "refused"]
  <2>1. disk' = disk /\ run' = [run EXCEPT ![r] = next]
    BY <1>5, <1>7
  <2>2. /\ next \in Knowledge /\ next.done = me.done /\ next.given = me.given
        /\ next.pc = "refused" /\ me.done <= next.done
    BY <1>2 DEF Knowledge, Working
  <2>3. disk[format] # NoFile /\ disk[format] \in File /\ ~Ours(format)
    BY <1>1, <1>2, <1>4, <1>7, FreeFacts DEF Refusal_IInv, Consistent, TypeOK
  <2>4. disk[format].by = Theirs
    BY <1>4, <2>3 DEF Refusal_IInv, Shaped, Ours, File
  <2>5. QED  BY <1>1, <2>1, <2>2, <2>4, MovesRefusal
<1>8. CASE AtomicWrite(volume, disk[format]) = "published"
  <2> DEFINE next == [me EXCEPT !.done = @ + 1, !.pc = "publish"]
  <2>1. disk' = [disk EXCEPT ![format] = data] /\ run' = [run EXCEPT ![r] = next]
    BY <1>5, <1>8
  <2>2. data.words = me.text
    BY <1>2, RenderedType DEF Knowledge, Runs
  <2>3. \A f \in FormatSet : disk'[f] = IF f = format THEN data ELSE disk[f]
    BY <1>2, <2>1 DEF TypeOK
  <2>4. /\ next.done = me.done + 1 /\ next.given = me.given /\ next.pc = "publish"
    BY <1>2 DEF Knowledge
  <2>5. run'[r] = next /\ \A q \in Runs : q # r => run'[q] = run[q] /\ ~Live(q)
    BY <1>2, <1>6, <2>1 DEF TypeOK
  <2>6. \A q \in Runs : Live(q)' => Owned(q)'
    BY <1>1, <1>6, <2>5 DEF Live, Owned
  <2>7. row.ckpt = Snapshot(me) /\ HasText(me) /\ "postprocess" \in me.stages
    BY <1>1, <1>2, <1>6 DEF Core_IInv, InStep, Known, Written, Asked, Publishing
  <2>8. ASSUME NEW f \in FormatSet, Ours(f)'
        PROVE  /\ HasText(row.ckpt)' /\ "postprocess" \in row'.ckpt.stages
               /\ row'.ckpt.text = disk'[f].words
    <3>1. CASE f = format
      BY <1>1, <2>2, <2>3, <2>7, <3>1 DEF Snapshot, HasText
    <3>2. CASE f # format
      <4>1. disk'[f] = disk[f] /\ Ours(f)
        BY <2>3, <2>8, <3>2 DEF Ours
      <4>2. QED  BY <1>1, <1>6, <4>1 DEF Refusal_IInv, Consistent, HasText
    <3>3. QED  BY <3>1, <3>2
  <2>9. ASSUME NEW q \in Runs, NEW f \in FormatSet, Live(q)', run'[q].given = NoRecord, Ours(f)'
        PROVE  \E i \in 1..run'[q].done : Formats[i] = f
    <3>1. q = r /\ me.given = NoRecord
      BY <2>4, <2>5, <2>9 DEF Live
    <3>2. CASE f = format
      <4>1. me.done + 1 \in 1..next.done
        BY <1>3, <2>4
      <4>2. QED  BY <2>5, <3>1, <3>2, <4>1
    <3>3. CASE f # format
      <4>1. Ours(f)
        BY <2>3, <2>9, <3>3 DEF Ours
      <4>2. PICK i \in 1..me.done : Formats[i] = f
        BY <1>1, <3>1, <4>1 DEF Refusal_IInv, Consistent
      <4>3. i \in 1..next.done
        BY <1>3, <2>4, <4>2
      <4>4. QED  BY <2>5, <3>1, <4>2, <4>3
    <3>4. QED  BY <3>2, <3>3
  <2>10. \A q \in Runs : run'[q].pc \notin {"link", "refused"}
    BY <2>4, <2>5 DEF Live, Working
  <2>11. QED  BY <2>6, <2>8, <2>9, <2>10 DEF Consistent
<1>9. QED  BY <1>5, <1>7, <1>8

\* No run is at work, and the files of ours are still of the words on record.
LEMMA RestRefusal ==
    ASSUME \A q \in Runs : ~Live(q)',
           row'.state # "done" => Settled(row.ckpt)'
    PROVE  Consistent'
<1>1. \A q \in Runs : run'[q].pc \notin {"link", "refused"}
  BY DEF Live, Working
<1>2. QED  BY <1>1 DEF Consistent, Settled

\* The end of a run writes no file.
LEMMA EndRefusal ==
    ASSUME Refusal_IInv, ~overlapped, NEW r \in Runs, Finalize(r) \/ Fail(r) \/ Die(r)
    PROVE  Consistent'
<1>1. /\ Live(r) /\ run' = [run EXCEPT ![r] = Over] /\ Over.pc \notin Working
      /\ disk' = disk
  BY DEF Finalize, Fail, Die, Live, Working, Over, Unborn, World
<1>2. run \in [Runs -> Knowledge] /\ row \in RowType
  BY DEF Refusal_IInv, Request_IInv, Core_IInv, TypeOK
<1>3. Owned(r) /\ row.state = "running" /\ \A q \in Runs : Live(q) => q = r
  BY <1>1, Alone
<1>4. \A q \in Runs : ~Live(q)'
  BY <1>1, <1>2, <1>3 DEF Live
<1>5. row'.state = "done" \/ row'.ckpt = row.ckpt
  BY <1>2 DEF Finalize, Fail, Die
<1>6. Settled(row.ckpt)
  BY <1>3 DEF Settled, Refusal_IInv, Consistent
<1>7. row'.state # "done" => Settled(row.ckpt)'
  BY <1>1, <1>5, <1>6 DEF Settled, Ours, HasText
<1>8. QED  BY <1>1, <1>4, <1>7, RestRefusal

\* A launch without a record finds no file of ours.
LEMMA LaunchRefusal ==
    ASSUME Refusal_IInv, ~overlapped, NEW r \in Runs, NEW req \in Requests, Launch(r, req)
    PROVE  Consistent'
<1> DEFINE record == Record_At(r)
           me == Launched(req, record)
<1> USE DEF Refusal_IInv, Request_IInv
<1>1. /\ row.state \in {"fresh", "error"} /\ row'.state = "running" /\ row'.attempt = r
      /\ row'.ckpt = IF record = NoRecord THEN row.ckpt ELSE record
      /\ run' = [run EXCEPT ![r] = me] /\ me \in Knowledge /\ disk' = disk
  BY LaunchFacts DEF World
<1>2. /\ record = NoRecord => ~HasText(row.ckpt)
      /\ record # NoRecord => record.text = row.ckpt.text /\ record.stages = row.ckpt.stages
  BY <1>1, LaunchFacts, HandedFacts
<1>3. me.pc = "open" /\ me.given = record /\ me.done = 0
  BY DEF Launched, Unborn
<1>4. \A q \in Runs : ~Live(q)
  BY <1>1, Alone
<1>5. run'[r] = me /\ \A q \in Runs : q # r => run'[q] = run[q]
  BY <1>1 DEF Core_IInv, TypeOK
<1>6. \A q \in Runs : Live(q)' => q = r
  BY <1>4, <1>5 DEF Live
<1>7. \A q \in Runs : run'[q].pc \notin {"link", "refused"}
  BY <1>3, <1>4, <1>5 DEF Live, Working
<1>8. Settled(row.ckpt)
  BY <1>1 DEF Settled, Consistent
<1>9. Settled(row'.ckpt)
  BY <1>1, <1>2, <1>8 DEF Settled, HasText
<1>10. \A f \in FormatSet : Ours(f)' =>
         /\ HasText(row.ckpt)' /\ "postprocess" \in row'.ckpt.stages
         /\ row'.ckpt.text = disk'[f].words
  BY <1>1, <1>9 DEF Settled, Ours, HasText
<1>11. ASSUME NEW f \in FormatSet, me.given = NoRecord, Ours(f)'  PROVE FALSE
  BY <1>1, <1>2, <1>3, <1>8, <1>11 DEF Settled, Ours
<1>12. \A q \in Runs : Live(q)' => Owned(q)'
  BY <1>1, <1>6 DEF Owned
<1>13. \A q \in Runs, f \in FormatSet :
         Live(q)' /\ run'[q].given = NoRecord /\ Ours(f)' =>
            \E i \in 1..run'[q].done : Formats[i] = f
  BY <1>5, <1>6, <1>11
<1>14. QED  BY <1>7, <1>10, <1>12, <1>13 DEF Consistent

\* Everybody else adds no file of ours before the end.
LEMMA OtherRefusal ==
    ASSUME Refusal_IInv, ~overlapped, ~overlapped',
           \/ \E volume \in Volumes : ReuseDone(row.attempt + 1, volume)
           \/ Reap \/ Edit \/ (\E f \in FormatSet : Intrude(f) \/ Remove(f))
           \/ UNCHANGED vars
    PROVE  Consistent'
<1> USE DEF Refusal_IInv, Request_IInv
<1>1. run' = run /\ row \in RowType /\ TypeOK
  BY DEF ReuseDone, Reap, Edit, Intrude, Remove, vars, Core_IInv, TypeOK
<1>2. CASE row.state = "done" /\ row'.state = "done"
  <2>1. \A q \in Runs : ~Live(q)'
    BY <1>1, <1>2, Alone DEF Live
  <2>2. QED  BY <1>2, <2>1, RestRefusal
<1>3. ASSUME NEW volume \in Volumes, ReuseDone(row.attempt + 1, volume)
      PROVE  Consistent'
  BY <1>1, <1>2, <1>3 DEF ReuseDone
<1>4. ASSUME NEW f \in FormatSet, Remove(f)
      PROVE  Consistent'
  BY <1>2, <1>4 DEF Remove
<1>5. CASE Reap
  <2>1. row.state = "running" /\ row'.ckpt = row.ckpt /\ disk' = disk /\ ~Live(row.attempt)
    BY <1>1, <1>5 DEF Reap
  <2>2. \A q \in Runs : ~Live(q)'
    BY <1>1, <2>1, Alone DEF Live
  <2>3. Settled(row.ckpt)
    BY <2>1 DEF Settled, Consistent
  <2>4. Settled(row.ckpt)'
    BY <2>1, <2>3 DEF Settled, Ours, HasText
  <2>5. QED  BY <2>2, <2>4, RestRefusal
<1>6. CASE Edit \/ UNCHANGED vars
  <2>1. row' = row /\ disk' = disk /\ overlapped' = overlapped
    BY <1>6 DEF Edit, vars
  <2>2. QED  BY <1>1, <2>1 DEF Consistent, Live, Owned, Ours, HasText
<1>7. ASSUME NEW f \in FormatSet, Intrude(f)
      PROVE  Consistent'
  <2>1. disk[f] = NoFile /\ disk' = [disk EXCEPT ![f] = Foreign] /\ row' = row
    BY <1>7 DEF Intrude, Exists
  <2>2. \A g \in FormatSet : disk'[g] = IF g = f THEN Foreign ELSE disk[g]
    BY <1>1, <2>1 DEF TypeOK
  <2>3. Foreign.by = Theirs /\ ~Ours(f) /\ ~Ours(f)'
    BY <2>1, <2>2, OwnersAssumption DEF Ours, Foreign, NoFile
  <2>4. \A g \in FormatSet : /\ Ours(g)' <=> Ours(g)
                             /\ Ours(g) => disk'[g].words = disk[g].words
                             /\ disk[g].by = Theirs => disk'[g].by = Theirs
    BY <2>2, <2>3 DEF Ours
  <2>5. \A q \in Runs : Live(q)' => Owned(q)'
    BY <1>1, <2>1 DEF Live, Owned, Consistent
  <2>6. \A g \in FormatSet : row'.state # "done" /\ Ours(g)' =>
          /\ HasText(row.ckpt)' /\ "postprocess" \in row'.ckpt.stages
          /\ row'.ckpt.text = disk'[g].words
    BY <2>1, <2>4 DEF Consistent, HasText
  <2>7. \A q \in Runs, g \in FormatSet :
          Live(q)' /\ run'[q].given = NoRecord /\ Ours(g)' =>
             \E i \in 1..run'[q].done : Formats[i] = g
    BY <1>1, <2>4 DEF Consistent, Live
  <2>8. ASSUME NEW q \in Runs, run[q].pc \in {"link", "refused"}
        PROVE  /\ run[q].pc = "link" => disk'[Formats[run[q].done + 1]].by # Mine
               /\ run[q].pc = "refused" => disk'[Formats[run[q].done + 1]].by = Theirs
    <3>1. run[q].done \in 0..Len(Formats) /\ run[q].done < Len(Formats)
      BY <1>1, <2>8, KnownNow DEF Live, Working, Known, Knowledge
    <3>2. Formats[run[q].done + 1] \in FormatSet
      BY <3>1, FormatAt
    <3>3. QED  BY <2>4, <3>2 DEF Consistent, Ours
  <2>9. QED  BY <1>1, <2>5, <2>6, <2>7, <2>8 DEF Consistent, Ours
<1>8. QED  BY <1>3, <1>4, <1>5, <1>6, <1>7

\* It is inductive,
LEMMA RefusalNext ==
    ASSUME SameRequest, Refusal_IInv, [Next]_vars
    PROVE  Refusal_IInv'
<1>1. Request_IInv'
  BY RequestNext DEF Refusal_IInv
<1>2. Publication_IInv'
  BY PublicationNext DEF Refusal_IInv, Request_IInv, Publication_IInv
<1>3. Consistent'
  <2>1. CASE overlapped'
    BY <2>1 DEF Consistent
  <2>2. CASE ~overlapped'
    <3>1. ~overlapped
      <4>1. ASSUME NEW r \in Runs, Step(r)  PROVE overlapped' = overlapped
        BY <4>1 DEF Step, Open, Fetch, Reacquire, Extract, Core, CoresDone, Recheck, Diarize, Translate, Mark, Publish, Link, Published, Finalize, Fail, Die, World
      <4>2. ASSUME NEW r \in Runs, NEW q \in Requests, Launch(r, q)
            PROVE  overlapped' = overlapped
        BY <4>2 DEF Launch, World
      <4>3. ASSUME NEW f \in FormatSet, Intrude(f) \/ Remove(f)
            PROVE  overlapped' = overlapped
        BY <4>3 DEF Intrude, Remove
      <4>4. ASSUME NEW volume \in Volumes, ReuseDone(row.attempt + 1, volume)
            PROVE  overlapped' = overlapped
        BY <4>4 DEF ReuseDone
      <4>5. CASE Reap
        BY <2>2, <4>5 DEF Reap
      <4>6. CASE Edit \/ UNCHANGED vars
        BY <2>2, <4>6 DEF Edit, vars
      <4>7. QED  BY <2>2, <4>1, <4>2, <4>3, <4>4, <4>5, <4>6 DEF Next
    <3>2. ASSUME NEW r \in Runs, NEW q \in Requests, Launch(r, q)  PROVE Consistent'
      BY <3>1, <3>2, LaunchRefusal
    <3>3. ASSUME NEW r \in Runs, Step(r)  PROVE Consistent'
      BY <3>1, <3>3, StagesRefusal, LabelsRefusal, PublishRefusal, LinkRefusal, EndRefusal DEF Step
    <3>4. QED  BY <2>2, <3>1, <3>2, <3>3, OtherRefusal DEF Next
  <2>3. QED  BY <2>1, <2>2
<1>4. QED  BY <1>1, <1>2, <1>3 DEF Refusal_IInv, Publication_IInv

\* and holds at first.
LEMMA RefusalInit == Init => Refusal_IInv
<1> SUFFICES ASSUME Init  PROVE Refusal_IInv
  OBVIOUS
<1>1. \A r \in Runs : ~Live(r)
  BY DEF Init, Unborn, Live, Working
<1>2. \A f \in FormatSet : ~Ours(f)
  BY OwnersAssumption DEF Init, NoFile, Ours
<1>3. Consistent
  BY <1>1, <1>2 DEF Consistent, Live, Working
<1>4. QED  BY <1>3, RequestInit, PublicationInit DEF Refusal_IInv, Publication_IInv

\* A run is kept from publishing by somebody else's file only.  What an earlier run
\* of the job published before it failed or died is adopted by the next one,
\* although its stamps differ, as long as no row was reaped under a working run.
THEOREM OnlyTheirsRefuse ==
    ASSUME SameRequest
    PROVE  Spec => []RefusalIsForeign
<1>1. Refusal_IInv /\ [Next]_vars => Refusal_IInv'
  BY RefusalNext
<1>2. Refusal_IInv => RefusalIsForeign
  BY DEF Refusal_IInv, Consistent, RefusalIsForeign
<1>3. QED  BY <1>1, <1>2, RefusalInit, PTL DEF Spec
=============================================================================
