------------------------------- MODULE Search -------------------------------
(***************************************************************************)
(* Hybrid search (GET /search and the MCP tool) over the corpus that       *)
(* Embedding describes, while tasks, backfills and scrapes go on writing   *)
(* it.  A search is three statements that see different snapshots, with    *)
(* the fusion of the first two before the third.                           *)
(*                                                                         *)
(* The scores of Postgres are the lists they lead to, any list.            *)
(***************************************************************************)
EXTENDS Embedding, Fusion, Sequences

CONSTANT Asked      \* what `limit` of /search may be

ASSUME SearchAssumption == Asked \subseteq Nat \ {0}

\* The request; `posted` is a history: what had a row when the vectors were ranked.
VARIABLE req

searchVars == <<vars, req>>

SearchInit ==
    /\ Init
    /\ req = [step |-> "start", limit |-> 0, semantic |-> FALSE, fts |-> <<>>, vec |-> <<>>, posted |-> {}, hits |-> <<>>]

\* The query's vector: a model that is not set, and an EmbeddingError, leave the lexical
\* half alone.  Anything else that goes wrong is a 500.
EmbedQuery(limit, semantic) ==
    /\ req.step = "start"
    /\ req' = [req EXCEPT !.step = "lexical", !.limit = limit, !.semantic = semantic]
    /\ UNCHANGED vars

QueryFails ==
    /\ req.step = "start"
    /\ req' = [req EXCEPT !.step = "failed"]
    /\ UNCHANGED vars

\* Posts whose caption matches, each once however many influencers posted it.
FtsCandidates(list) ==
    /\ req.step = "lexical"
    /\ req' = [req EXCEPT !.step = IF req.semantic THEN "vector" ELSE "hydrate", !.fts = list]
    /\ UNCHANGED vars

\* The index of the vectors is approximate: the list need not hold all there is.  It asks
\* signal_embeddings alone, which has vectors of posts that were rolled back.
VectorCandidates(list) ==
    /\ req.step = "vector"
    /\ req' = [req EXCEPT !.step = "hydrate", !.vec = list, !.posted = signals]
    /\ UNCHANGED vars

Answer(found) ==
    /\ req.step = "hydrate"
    /\ req' = [req EXCEPT !.step = "answered", !.hits = Hits(req.fts, req.vec, req.limit, found)]
    /\ UNCHANGED vars

\* Mutant: an inner join on the vectors drops what only the words found.
HydrateEmbedded == Answer(stored)

\* Fusion, cut to the limit, then the display row of every winner, with a rating or without.
Hydrate == Answer(signals)

SearchStep ==
    \/ \E limit \in Asked, semantic \in BOOLEAN : EmbedQuery(limit, semantic)
    \/ QueryFails
    \/ \E list \in Lists(signals \cap Captioned) : FtsCandidates(list)
    \/ \E list \in Lists(stored) : VectorCandidates(list)
    \/ Hydrate

SearchNext == SearchStep \/ (Next /\ UNCHANGED req)

SearchSpec == SearchInit /\ [][SearchNext]_searchVars

-----------------------------------------------------------------------------
\* What the words found is still there when the rows are read: the corpus only grows.
SearchTypeOK ==
    /\ req \in [step : {"start", "lexical", "vector", "hydrate", "answered", "failed"},
                limit : Asked \cup {0}, semantic : BOOLEAN,
                fts : Lists(signals), vec : Lists(Hashes), posted : SUBSET signals, hits : Seq(signals)]

\* Vectors whose post was rolled back, or not yet stored, when they were ranked: their display
\* row may be missing.
Orphans == {h \in Range(req.vec) : h \notin Range(req.fts) \cup req.posted}

\* A search returns as many different hits as it was asked for or found, short of at most the
\* vectors that had no post: nothing else is lost between the statements that found it and
\* the one that reads its row.
NothingVanishes ==
    req.step = "answered" =>
        LET found == Candidates(req.fts, req.vec)
            due == IF req.limit < Cardinality(found) THEN req.limit ELSE Cardinality(found)
        IN  /\ Range(req.hits) \subseteq found /\ IsInjective(req.hits)
            /\ Len(req.hits) <= due /\ due <= Len(req.hits) + Cardinality(Orphans)

\* What is answered keeps the promise of the fusion: agreement across methods leads.
AgreementFirst == req.step = "answered" => AgreementLeads(req.fts, req.vec, req.hits)

=============================================================================
