--------------------------- MODULE MCJobExecutor ---------------------------
(***************************************************************************)
(* Small instances of JobExecutor for TLC.                                 *)
(***************************************************************************)
EXTENDS JobExecutor, TLC

\* Job ids are drawn at random and clients are interchangeable; sound only for
\* the runs without liveness.
Symmetry == Permutations(Jobs) \cup Permutations(Clients) \cup Permutations(Workers)

=============================================================================
