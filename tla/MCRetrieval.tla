---------------------------- MODULE MCRetrieval ----------------------------
(***************************************************************************)
(* Three posts, one shared by two influencers, one that a scrape brings.   *)
(* The pool is as deep as K allows for agreement to win.                   *)
(***************************************************************************)
EXTENDS Retrieval

MCCopies == [h \in Hashes |-> IF h = 2 THEN 2 ELSE 1]

\* Requests only read: two at a time show nothing that one does not.
OneRequest == req.step = "start" \/ week.step = "start"

=============================================================================
