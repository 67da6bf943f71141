----------------------------- MODULE Publication -----------------------------
(* No-clobber publication of one rendered format (render/__init__.py).  The    *)
(* bytes of a file are abstracted to the words that were rendered, the stamp    *)
(* the writer leaves in them (reportlab's document id and render time,          *)
(* python-docx's member times; 0 for a reproducible format) and whether the     *)
(* file still has the shape that writer produces.  Two renderings of the same   *)
(* words are equal in every byte, or in every byte but the stamp.              *)
EXTENDS Checkpoint, Sequences

CONSTANTS
    Stamped,    \* the formats whose writer stamps what it writes (pdf, docx)
    Mine,       \* a file this program published
    Theirs      \* a file somebody else put under the name, or made of ours

NoFile == [by |-> "nobody", words |-> NoWords, stamp |-> 0, whole |-> FALSE]
Foreign == [by |-> Theirs, words |-> NoWords, stamp |-> 0, whole |-> FALSE]
\* render_bytes: one rendering of `words`, by the run `stamp`.
Rendered(format, words, stamp) ==
    [by |-> Mine, words |-> words, whole |-> TRUE,
     stamp |-> IF format \in Stamped THEN stamp ELSE 0]

Exists(file) == file # NoFile

\* _holds_exactly
HoldsExactly(file, data) == file = data

\* _normalize_pdf_metadata, _docx_normalised: the file with its stamp blanked,
\* or nothing when the fields are absent, repeated, or not of the one shape the
\* writer produces.
Normalised(file) == IF file.whole THEN {[file EXCEPT !.stamp = 0]} ELSE {}

\* _matches_a_pdf_rendering, _matches_a_docx_rendering: an uncomparable side
\* matches nothing.
MatchesButStamp(file, data) == Normalised(file) \cap Normalised(data) # {}

IsOwnToTheByte(file, data, format) == Exists(file) /\ HoldsExactly(file, data)

\* _is_own_publication: the rule is chosen by the format being published.
IsOwnPublication(file, data, format) ==
    /\ Exists(file)
    /\ IF format \in Stamped THEN MatchesButStamp(file, data)
                             ELSE HoldsExactly(file, data)

\* What a volume can do: hard links, and a rename that refuses a taken name (on
\* Windows every rename; on Linux and macOS where libc and the volume have it).
Volumes == [links : BOOLEAN, platform : {"windows", "linux", "macos", "other"},
            exclusive : BOOLEAN]

LinkOrTaken(file) == IF Exists(file) THEN "taken" ELSE "published"

\* rename_noreplace (Linux) and rename_excl (macOS): the kernel's refusal of a
\* taken name is told from a host that cannot do it; a plain rename is never
\* tried.
RenameNoReplace(volume, file) ==
    IF volume.exclusive THEN LinkOrTaken(file) ELSE "unsupported"
RenameExclusive(volume, file) ==
    IF volume.exclusive THEN LinkOrTaken(file) ELSE "unsupported"

AtomicReplace(volume, file) == "published"

\* atomic_write_bytes with replace=False: a hard link of the staged file, and
\* where the volume has none its platform's second primitive.
AtomicWrite(volume, file) ==
    CASE volume.links -> LinkOrTaken(file)
      [] ~volume.links /\ volume.platform = "windows" -> LinkOrTaken(file)
      [] ~volume.links /\ volume.platform = "linux" -> RenameNoReplace(volume, file)
      [] ~volume.links /\ volume.platform = "macos" -> RenameExclusive(volume, file)
      [] OTHER -> "unsupported"

\* ensure_outputs, for the formats of a finished job in their order: a recorded
\* output that still holds this job's rendering is kept (_reusable_prior), a
\* missing one is written again, and the first name that holds anything else
\* ends the call with what was written before it in place.
Ensured(disk, existing, formats, words, stamp, volume) ==
    LET Kept(f) == f \in existing /\ IsOwnPublication(disk[f], Rendered(f, words, stamp), f)
        Passes(f) == Kept(f) \/ AtomicWrite(volume, disk[f]) = "published"
        Reached(f) == \E k \in 1..Len(formats) :
                         formats[k] = f /\ \A i \in 1..k : Passes(formats[i])
    IN  [disk |-> [f \in DOMAIN disk |->
                     IF Reached(f) /\ ~Kept(f) THEN Rendered(f, words, stamp) ELSE disk[f]],
         complete |-> \A k \in 1..Len(formats) : Reached(formats[k])]
=============================================================================
