--------------------------- MODULE MCRunPipeline ---------------------------
(* Small instances of RunPipeline for TLC. *)
EXTENDS RunPipeline, TLC

\* Influencers and hashes are interchangeable; sound for the runs without liveness.
Interchangeable == Permutations(Influencers) \cup Permutations(Hashes)
=============================================================================
