------------------------------ MODULE Pipeline ------------------------------
(* One job and the runs that try to finish it (core/pipeline.py, with the      *)
(* claims and the guarded writes of core/runner.py and core/submission.py):    *)
(* acquire, transcribe block by block, diarize, translate, publish.  A run      *)
(* saves what it has after every stage; it may fail, be cancelled or die with   *)
(* its process anywhere, the row may be reaped while the run still works, and   *)
(* the recording and the output directory change under it.  A later run starts *)
(* from what was saved.                                                        *)
(*                                                                            *)
(* Runs are numbered, and a run owns the row while the row still carries its    *)
(* number.  "error" stands for ERROR and CANCELLED, which a resume treats      *)
(* alike.  The queue between the claim and the start is in JobExecutor.        *)
EXTENDS Publication, FiniteSets

CONSTANTS
    Requests,       \* [dia, tr]: the optional stages a caller may ask for
    SameRequest,    \* every resume repeats the request of the job, as
                    \* submit_request demands; FALSE: a direct caller of
                    \* transcribe(resume_checkpoint=...), who may change it
    Formats,        \* the output formats of the request, in their order
    MaxRuns,        \* bound: runs of the job
    MaxVersion,     \* bound: versions of the recording
    MaxForeign,     \* bound: names that somebody else takes
    MaxRemovals     \* bound: outputs the user deletes

ASSUME BoundsAssumption ==
    /\ Cores \in Nat \ {0} /\ MaxRuns \in Nat \ {0} /\ MaxVersion \in Nat \ {0}
    /\ MaxForeign \in Nat /\ MaxRemovals \in Nat /\ SameRequest \in BOOLEAN

Runs == 1..MaxRuns
FormatSet == {Formats[k] : k \in 1..Len(Formats)}

\* submission.py:138 refuses a request that names a format twice.
ASSUME FormatsAssumption ==
    /\ Formats \in Seq(FormatSet)
    /\ \A i, k \in 1..Len(Formats) : Formats[i] = Formats[k] => i = k

\* Whose a file is can be told.
ASSUME OwnersAssumption == Mine # Theirs /\ "nobody" \notin {Mine, Theirs}

VARIABLES
    kind,       \* "url", "plain" (a local path) or "confined" (under a root,
                \* read from a staged copy); never changes
    version,    \* of the recording; edits move it forward
    row,        \* the job's row
    run,        \* what each run knows
    disk,       \* the output directory
    overlapped, \* a row was reaped while its run was still working
    intruders,  \* names taken by somebody else so far
    removals    \* outputs deleted by the user so far

vars == <<kind, version, row, run, disk, overlapped, intruders, removals>>

IsFile == kind # "url"

\* What a run has before it opened anything; `given` is the record it was
\* handed, `done` the formats it published or adopted.
Unborn == [pc |-> "unborn", req |-> [dia |-> Off, tr |-> Off], given |-> NoRecord,
           stages |-> {}, text |-> NoWords, part |-> NoPart, ident |-> 0,
           media |-> 0, audio |-> 0, done |-> 0]

\* Nothing a run knew outlives it.
Over == [Unborn EXCEPT !.pc = "over"]

Working == {"open", "fetch", "extract", "core", "recheck", "diarize", "translate",
            "mark", "publish", "link", "refused", "finalize"}

Live(r) == run[r].pc \in Working
Owned(r) == row.state = "running" /\ row.attempt = r

\* Records an earlier run may have left: version 1 has no fingerprint, version 2
\* has one, both know the coarse mark only; version 3 may hold a first block.
EarlierRecords ==
    LET fingerprint == IF IsFile THEN 1 ELSE 0
        Label(what) == [what |-> what, run |-> 0]
    IN  {[version |-> v, req |-> q, stages |-> {"source", "transcribe", "postprocess"},
          text |-> [src |-> 1, dia |-> Label(q.dia), tr |-> Label(q.tr)],
          part |-> NoPart, ident |-> fingerprint] : v \in 1..2, q \in Requests}
        \cup
        {[version |-> 3, req |-> q, stages |-> {"source", "fetch", "extract"},
          text |-> NoWords, part |-> [n |-> 1, src |-> 1],
          ident |-> fingerprint] : q \in Requests}

Row(state, attempt, req, ckpt, words) ==
    [state |-> state, attempt |-> attempt, req |-> req, ckpt |-> ckpt,
     words |-> words, outputs |-> {}]

\* A job that was just queued, or one was interrupted and left a record.
Init ==
    /\ kind \in {"url", "plain", "confined"}
    /\ version = 1
    /\ \/ \E q \in Requests : row = Row("fresh", 0, q, NoRecord, NoWords)
       \/ \E c \in EarlierRecords : row = Row("error", 0, c.req, c, NoWords)
    /\ run = [r \in Runs |-> Unborn]
    /\ disk = [f \in FormatSet |-> NoFile]
    /\ overlapped = FALSE /\ intruders = 0 /\ removals = 0

-----------------------------------------------------------------------------
(* What a run tells the store.                                                *)

\* _snapshot: everything this run knows, under the options of its own request.
Snapshot(me) ==
    [version |-> CurrentVersion, req |-> me.req, stages |-> me.stages,
     text |-> me.text, part |-> me.part, ident |-> me.ident]

\* write_checkpoint through update_owned: refused, and not noticed, once the
\* row has a verdict or a newer run; an accepted cancellation does not refuse it.
Saved(r, me) ==
    row' = IF Owned(r) THEN [row EXCEPT !.ckpt = Snapshot(me)] ELSE row

\* _checkpoint(stage)
SaveStage(r, me, stage) ==
    LET marked == [me EXCEPT !.stages = @ \cup {stage}]
    IN  Saved(r, marked) /\ run' = [run EXCEPT ![r] = marked]

Move(r, me) == run' = [run EXCEPT ![r] = me] /\ UNCHANGED row

World == <<kind, version, disk, overlapped, intruders, removals>>

-----------------------------------------------------------------------------
(* A caller: submit_request, or a direct call with a record in hand.          *)

Launch(r, req) ==
    LET record == IF row.state = "fresh" THEN NoRecord ELSE Parse(row.ckpt)
    IN  /\ row.state \in {"fresh", "error"}
        /\ r = row.attempt + 1
        /\ (SameRequest \/ row.state = "fresh") => req = row.req
        /\ SameRequest /\ record # NoRecord => SameOptions(record, req)
        /\ IsFile /\ record # NoRecord => LocalUnchanged(record, version)
        /\ row' = [row EXCEPT !.state = "running", !.attempt = r, !.req = req,
                              !.ckpt = IF record = NoRecord THEN @ ELSE record]
        /\ run' = [run EXCEPT ![r] = [Unborn EXCEPT !.pc = "open", !.req = req,
                                                    !.given = record]]
        /\ UNCHANGED World

\* reusable_done_result, for a request equal to the finished job's: outputs
\* that are gone are rendered again from the stored words.
ReuseDone(stamp, volume) ==
    LET record == Parse(Hydrated(row.ckpt, row.words))
        result == Ensured(disk, row.outputs, Formats, row.words, stamp, volume)
    IN  /\ row.state = "done"
        /\ record # NoRecord /\ SameOptions(record, row.req)
        /\ IsFile => LocalUnchanged(record, version)
        /\ disk' = result.disk
        /\ row' = IF result.complete THEN [row EXCEPT !.outputs = FormatSet] ELSE row
        /\ UNCHANGED <<kind, version, run, overlapped, intruders, removals>>

-----------------------------------------------------------------------------
(* The stages of one run.                                                     *)

\* _optional_stage_plan, for a run and one of its optional stages.
Due(me, stage, what) ==
    what # Off /\ ~(CanResume(me.given) /\ StageCompleted(me.given, stage, what))

OpenUnread(r) ==
    /\ run[r].pc = "open"
    /\ SaveStage(r, [run[r] EXCEPT !.pc = "fetch"], "source")
    /\ UNCHANGED World

\* transcribe() up to its first save: validate and read back what the record
\* holds, and only then replace it.  Audio is fetched for words that are missing
\* or for labels that are due.
Open(r) ==
    LET me == run[r]
        needsAudio == ~CanResume(me.given) \/ Due(me, "diarize", me.req.dia)
    IN  /\ me.pc = "open"
        /\ me.given # NoRecord /\ IsFile => LocalUnchanged(me.given, version)
        /\ SaveStage(r, [me EXCEPT !.stages = me.given.stages, !.text = me.given.text,
                                   !.part = me.given.part, !.ident = me.given.ident,
                                   !.pc = IF needsAudio THEN "fetch" ELSE "diarize"],
                     "source")
        /\ UNCHANGED World

\* A run that will transcribe stages the recording (confined), downloads it (url)
\* or uses it in place, and takes a fingerprint of a local one.
Fetch(r) ==
    LET me == run[r]
    IN  /\ me.pc = "fetch"
        /\ ~CanResume(me.given)
        /\ SaveStage(r, [me EXCEPT !.media = version,
                                   !.ident = IF IsFile THEN version ELSE @,
                                   !.pc = "extract"], "fetch")
        /\ UNCHANGED World

\* One that has the words and needs the audio for its labels keeps the
\* fingerprint of the words.
Reacquire(r) ==
    LET me == run[r]
    IN  /\ me.pc = "fetch"
        /\ CanResume(me.given)
        /\ SaveStage(r, [me EXCEPT !.media = version, !.pc = "extract"], "fetch")
        /\ UNCHANGED World

\* extract_audio: a path used in place is read as it is now.
Extract(r) ==
    LET me == run[r]
    IN  /\ me.pc = "extract"
        /\ SaveStage(r, [me EXCEPT
              !.audio = IF kind = "plain" THEN version ELSE me.media,
              !.pc = IF CanResume(me.given) THEN "diarize" ELSE "core"], "extract")
        /\ UNCHANGED World

\* One block of the engine, and its progress saved at once.  The engine refuses
\* partial progress that was computed from other audio (see Fail).
Core(r) ==
    LET me == run[r]
        grown == [me EXCEPT !.part = [n |-> me.part.n + 1, src |-> me.audio]]
    IN  /\ me.pc = "core"
        /\ me.part.n < Cores
        /\ HasPart(me) => me.part.src = me.audio
        /\ Saved(r, grown)
        /\ run' = [run EXCEPT ![r] = grown]
        /\ UNCHANGED World

CoresDone(r) ==
    LET me == run[r]
    IN  /\ me.pc = "core"
        /\ me.part.n = Cores
        /\ me.part.src = me.audio
        /\ Move(r, [me EXCEPT !.pc = "recheck"])
        /\ UNCHANGED World

RecheckTrusting(r) ==
    LET me == run[r]
    IN  /\ me.pc = "recheck"
        /\ SaveStage(r, [me EXCEPT !.text = [NoWords EXCEPT !.src = me.audio],
                                   !.part = NoPart, !.pc = "diarize"], "transcribe")
        /\ UNCHANGED World

\* A local recording is fingerprinted again before its words are believed; the
\* finished words supersede the partial ones.
Recheck(r) ==
    LET me == run[r]
    IN  /\ me.pc = "recheck"
        /\ IsFile => version = me.ident
        /\ SaveStage(r, [me EXCEPT !.text = [NoWords EXCEPT !.src = me.audio],
                                   !.part = NoPart, !.pc = "diarize"], "transcribe")
        /\ UNCHANGED World

DiarizeMarksAll(r) ==
    LET me == run[r]
    IN  /\ me.pc = "diarize"
        /\ IF Due(me, "diarize", me.req.dia)
           THEN /\ me.audio # 0
                /\ SaveStage(r, [me EXCEPT !.text.dia = [what |-> me.req.dia, run |-> r],
                                           !.pc = "translate"], "postprocess")
           ELSE Move(r, [me EXCEPT !.pc = "translate"])
        /\ UNCHANGED World

\* A stage the request does not ask for, or the record proves finished, is
\* passed over without a save.
Diarize(r) ==
    LET me == run[r]
    IN  /\ me.pc = "diarize"
        /\ IF Due(me, "diarize", me.req.dia)
           THEN /\ me.audio # 0
                /\ SaveStage(r, [me EXCEPT !.text.dia = [what |-> me.req.dia, run |-> r],
                                           !.pc = "translate"], "diarize")
           ELSE Move(r, [me EXCEPT !.pc = "translate"])
        /\ UNCHANGED World

Translate(r) ==
    LET me == run[r]
    IN  /\ me.pc = "translate"
        /\ IF Due(me, "translate", me.req.tr)
           THEN SaveStage(r, [me EXCEPT !.text.tr = [what |-> me.req.tr, run |-> r],
                                        !.pc = "mark"], "translate")
           ELSE Move(r, [me EXCEPT !.pc = "mark"])
        /\ UNCHANGED World

\* The coarse mark, last of the optional stages.
Mark(r) ==
    /\ run[r].pc = "mark"
    /\ SaveStage(r, [run[r] EXCEPT !.pc = "publish"], "postprocess")
    /\ UNCHANGED World

\* write_all, one format after the other: a resumed run adopts a file that is
\* already its own rendering.
Publish(r) ==
    LET me == run[r]
        format == Formats[me.done + 1]
        adopts == me.given # NoRecord
                  /\ IsOwnPublication(disk[format], Rendered(format, me.text, r), format)
    IN  /\ me.pc = "publish"
        /\ me.done < Len(Formats)
        /\ Move(r, IF adopts THEN [me EXCEPT !.done = @ + 1] ELSE [me EXCEPT !.pc = "link"])
        /\ UNCHANGED World

\* atomic_write_bytes: the staged file gets the name, or the name is taken; a
\* volume that cannot do it safely raises (see Fail).
Link(r) ==
    LET me == run[r]
        format == Formats[me.done + 1]
    IN  /\ me.pc = "link"
        /\ \E volume \in Volumes :
             \/ /\ AtomicWrite(volume, disk[format]) = "published"
                /\ disk' = [disk EXCEPT ![format] = Rendered(format, me.text, r)]
                /\ Move(r, [me EXCEPT !.done = @ + 1, !.pc = "publish"])
             \/ /\ AtomicWrite(volume, disk[format]) = "taken"
                /\ Move(r, [me EXCEPT !.pc = "refused"])
                /\ UNCHANGED disk
        /\ UNCHANGED <<kind, version, overlapped, intruders, removals>>

Published(r) ==
    /\ run[r].pc = "publish"
    /\ run[r].done = Len(Formats)
    /\ SaveStage(r, [run[r] EXCEPT !.pc = "finalize"], "render")
    /\ UNCHANGED World

\* finalize_done: words, outputs and the stripped record in one guarded write.
Finalize(r) ==
    LET me == run[r]
    IN  /\ me.pc = "finalize"
        /\ run' = [run EXCEPT ![r] = Over]
        /\ row' = IF Owned(r)
                  THEN [row EXCEPT !.state = "done", !.words = me.text,
                                   !.outputs = FormatSet, !.ckpt = MetadataOnly(@)]
                  ELSE row
        /\ UNCHANGED World

-----------------------------------------------------------------------------
(* What goes wrong.                                                           *)

\* Any stage may raise: a provider, the disk, the store, a cancellation, and
\* the refusals above (changed recording, foreign progress, taken name).
Fail(r) ==
    /\ Live(r)
    /\ run' = [run EXCEPT ![r] = Over]
    /\ row' = IF Owned(r) THEN [row EXCEPT !.state = "error"] ELSE row
    /\ UNCHANGED World

\* The process is killed: no verdict, no clean-up.
Die(r) ==
    /\ Live(r)
    /\ run' = [run EXCEPT ![r] = Over]
    /\ UNCHANGED <<row, World>>

\* The start-up reap of a process: after a crash, or of a second process on the
\* same store, which fails a row whose run is still at work in the first.
Reap ==
    /\ row.state = "running"
    /\ row' = [row EXCEPT !.state = "error"]
    /\ overlapped' = (overlapped \/ Live(row.attempt))
    /\ UNCHANGED <<kind, version, run, disk, intruders, removals>>

Edit ==
    /\ version < MaxVersion
    /\ version' = version + 1
    /\ UNCHANGED <<kind, row, run, disk, overlapped, intruders, removals>>

Intrude(f) ==
    /\ intruders < MaxForeign
    /\ ~Exists(disk[f])
    /\ intruders' = intruders + 1
    /\ disk' = [disk EXCEPT ![f] = Foreign]
    /\ UNCHANGED <<kind, version, row, run, overlapped, removals>>

\* The user deletes outputs of a finished job, when no run is writing them.
Remove(f) ==
    /\ removals < MaxRemovals
    /\ row.state = "done" /\ \A r \in Runs : ~Live(r)
    /\ Exists(disk[f])
    /\ removals' = removals + 1
    /\ disk' = [disk EXCEPT ![f] = NoFile]
    /\ UNCHANGED <<kind, version, row, run, overlapped, intruders>>

Step(r) == Open(r) \/ Fetch(r) \/ Reacquire(r) \/ Extract(r) \/ Core(r) \/ CoresDone(r)
           \/ Recheck(r) \/ Diarize(r) \/ Translate(r) \/ Mark(r) \/ Publish(r) \/ Link(r)
           \/ Published(r) \/ Finalize(r) \/ Fail(r) \/ Die(r)

Next ==
    \/ \E r \in Runs, q \in Requests : Launch(r, q)
    \/ \E volume \in Volumes : ReuseDone(row.attempt + 1, volume)
    \/ \E r \in Runs : Step(r)
    \/ Reap \/ Edit
    \/ \E f \in FormatSet : Intrude(f) \/ Remove(f)

Spec == Init /\ [][Next]_vars

-----------------------------------------------------------------------------
(* Properties.                                                                *)

\* Every stored record either parses as what it claims to be or holds no work
\* at all, and stored words are those of the recording whose fingerprint stands
\* beside them: no save of any run, in any order, mixes two recordings.
RecordIsCoherent ==
    /\ HasText(row.ckpt) \/ HasPart(row.ckpt) => Coherent(row.ckpt)
    /\ IsFile /\ HasText(row.ckpt) => row.ckpt.text.src = row.ckpt.ident
    /\ IsFile /\ row.state = "done" => row.words.src = row.ckpt.ident

\* No save loses finished work: through failures, crashes, reaps and runs that
\* lost the row, what the next run may start from only grows.
WorkIsKept ==
    [][row'.state = "done" \/ Worth(row'.ckpt) >= Worth(row.ckpt)]_vars

\* The run that owns the row never repeats what the stored record proves done:
\* it does not transcribe stored words, does not decode a stored block, and does
\* not relabel or retranslate what already is as it was asked for.
NoWorkIsRedone ==
    \A r \in Runs : Owned(r) =>
        LET me == run[r] IN
        /\ me.pc \in {"core", "recheck"} =>
               ~HasText(row.ckpt) /\ row.ckpt.part.n <= me.part.n
        /\ me.pc = "diarize" /\ Due(me, "diarize", me.req.dia) =>
               row.ckpt.text.dia.what # me.req.dia
        /\ me.pc = "translate" /\ Due(me, "translate", me.req.tr) =>
               row.ckpt.text.tr.what # me.req.tr

\* A finished job carries the labels and the language it was asked for: "a
\* finished stage under a different backend or translation target is not this
\* stage's work and must be redone rather than served" (pipeline.py:225-227).
ServedAsRequested ==
    row.state = "done" =>
        /\ row.req.dia # Off => row.words.dia.what = row.req.dia
        /\ row.req.tr # Off => row.words.tr.what = row.req.tr

\* A finished job's files are renderings of the words in its row, all of them
\* until the user deletes some, whichever runs published them.
DoneIsPublished ==
    row.state = "done" => \A f \in FormatSet :
        /\ disk[f].by = Mine => disk[f].words = row.words
        /\ removals = 0 => disk[f].by = Mine

\* A run is kept from publishing by somebody else's file only: what an earlier
\* run of the job published before it failed never stands in the way of the
\* next one, although its stamps differ.
RefusalIsForeign ==
    \A r \in Runs : run[r].pc = "refused" /\ ~overlapped =>
        disk[Formats[run[r].done + 1]].by = Theirs
=============================================================================
