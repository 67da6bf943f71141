----------------------------- MODULE MCPipeline -----------------------------
(***************************************************************************)
(* Small instances of Pipeline for TLC.                                    *)
(***************************************************************************)
EXTENDS Pipeline

CONSTANTS Diarizer, German, French

BothOrNeither == {[dia |-> Diarizer, tr |-> German], [dia |-> Off, tr |-> Off]}
TwoTargets == {[dia |-> Off, tr |-> German], [dia |-> Off, tr |-> French]}

\* One format whose writer stamps it, one whose bytes are reproducible.
TextAndPdf == <<"txt", "pdf">>
TextOnly == <<"txt">>
PdfOnly == {"pdf"}
=============================================================================
