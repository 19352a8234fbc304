----------------------------- MODULE Retrieval -----------------------------
(***************************************************************************)
(* The two reads that rank content, over one corpus that is being written. *)
(***************************************************************************)
EXTENDS Search, Themes

RetrievalInit == SearchInit /\ ThemesInit

RetrievalNext ==
    \/ SearchNext /\ UNCHANGED week
    \/ ThemesStep /\ UNCHANGED searchVars

RetrievalSpec == RetrievalInit /\ [][RetrievalNext]_<<searchVars, week>>

=============================================================================
