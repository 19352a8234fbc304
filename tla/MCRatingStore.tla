--------------------------- MODULE MCRatingStore ---------------------------
(***************************************************************************)
(* Three captions in a row, each within the cache's distance of the next   *)
(* and the outer two beyond it.                                            *)
(***************************************************************************)
EXTENDS RatingStore

MCHashes == 1..3
MCNear == {<<1, 2>>, <<2, 1>>, <<2, 3>>, <<3, 2>>}

=============================================================================
