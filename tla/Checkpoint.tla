----------------------------- MODULE Checkpoint -----------------------------
(* The durable snapshot of a run (core/checkpoint.py): what a stored record    *)
(* must hold to be resumable at all, when a request may adopt it, which        *)
(* optional stages it proves finished (core/pipeline.py), and what is left of  *)
(* it once the job is done.                                                    *)
(*                                                                            *)
(* Words are abstracted to where they come from: `src` is the version of the   *)
(* recording they were heard in (0: there are no words), `dia` and `tr` name   *)
(* the backend and the target that were applied to them and the run that did   *)
(* it, so two transcripts are equal exactly when their bytes would be.  Source,*)
(* model, language and engine of one job never change here; a record naming    *)
(* others is refused by the same comparison as one with other options.         *)
EXTENDS Naturals

CONSTANTS
    Cores,      \* number of blocks the engine cuts the recording into
    Off         \* "this optional stage is not asked for" / "was not applied"

CurrentVersion == 3
IdentityVersion == 2

Untouched == [what |-> Off, run |-> 0]
NoWords == [src |-> 0, dia |-> Untouched, tr |-> Untouched]
NoPart == [n |-> 0, src |-> 0]

\* A run that has neither words nor partial progress to save still saves a
\* record; the absent record is the one nothing was ever saved for.
NoRecord == [version |-> 0, req |-> [dia |-> Off, tr |-> Off], stages |-> {},
             text |-> NoWords, part |-> NoPart, ident |-> 0]

HasText(c) == c.text.src # 0
HasPart(c) == c.part.n # 0

\* CheckpointRecord.from_dict: a finished record carries its words and says so,
\* a partial one carries the engine's blocks and does not; nothing else parses.
Coherent(c) ==
    \/ HasText(c) /\ "transcribe" \in c.stages /\ ~HasPart(c)
    \/ ~HasText(c) /\ HasPart(c) /\ "transcribe" \notin c.stages
       /\ c.version = CurrentVersion

\* from_dict: a fingerprint in a record older than fingerprints is not read.
Decoded(c) == [c EXCEPT !.ident = IF c.version >= IdentityVersion THEN @ ELSE 0]

\* parse_checkpoint: an untrusted value is a record or nothing, never an error.
Parse(c) ==
    IF c.version \in 1..CurrentVersion /\ Coherent(c) THEN Decoded(c) ELSE NoRecord

\* matches(..., options=...), the comparison every surface makes before it
\* claims a row; the pipeline itself leaves the options out.
SameOptions(c, req) == c.req = req

\* validate_local_resume: fail closed without a fingerprint, or with another.
LocalUnchanged(c, now) ==
    c.version >= IdentityVersion /\ c.ident # 0 /\ c.ident = now

\* _resume_transcript and _checkpoint_paths_usable
CanResume(c) == HasText(c) /\ "transcribe" \in c.stages

StageCompletedByCoarseMark(c, stage, what) == "postprocess" \in c.stages /\ what # Off

\* _stage_completed: the marker and the configuration must both agree; the
\* coarse mark of older records stands for every stage that record asked for.
StageCompleted(c, stage, what) ==
    /\ {stage, "postprocess"} \cap c.stages # {}
    /\ what # Off
    /\ CASE stage = "diarize" -> c.req.dia = what
         [] stage = "translate" -> c.req.tr = what

\* load_checkpoint: a finished job keeps its words in the row, and a record that
\* lost its own body is read with them.
Hydrated(c, words) == IF HasText(c) THEN c ELSE [c EXCEPT !.text = words]

\* metadata_only_checkpoint: what a finished job's record keeps.
MetadataOnly(c) == [c EXCEPT !.text = NoWords, !.part = NoPart]

\* How much finished work a record holds, in the order it is done.
Worth(c) ==
    IF HasText(c)
    THEN Cores + 1 + (IF c.text.dia.what = Off THEN 0 ELSE 1)
                   + (IF c.text.tr.what = Off THEN 0 ELSE 1)
    ELSE c.part.n
=============================================================================
