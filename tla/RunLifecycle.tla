--------------------------- MODULE RunLifecycle ---------------------------
(***************************************************************************)
(* What a run promises to whoever watches it, with no queue, no counter    *)
(* and no message in sight: the set of scrapes still open, the set of      *)
(* ratings still open, and a status that leaves `running` only when the    *)
(* first set is empty and reaches `completed` only when both are.          *)
(* RunPipeline implements this with three integer columns and one SQL      *)
(* UPDATE per task.                                                        *)
(***************************************************************************)
CONSTANTS
    Influencers,    \* the influencers a run can fan out to
    Hashes          \* the content hashes a scrape can come back with

VARIABLES
    status,         \* runs.status, "absent" before the row exists
    fannedOut,      \* the fan-out has been decided
    openScrapes,    \* the influencers whose scrape has not been counted
    openRatings     \* the new signals whose rating has not been counted

lifecycleVars == <<status, fannedOut, openScrapes, openRatings>>

Init ==
    /\ status = "absent"
    /\ fannedOut = FALSE
    /\ openScrapes = {}
    /\ openRatings = {}

Create ==
    /\ status = "absent"
    /\ status' = "queued"
    /\ UNCHANGED <<fannedOut, openScrapes, openRatings>>

FanOut(watchlist) ==
    /\ status = "queued"
    /\ ~fannedOut
    /\ fannedOut' = TRUE
    /\ openScrapes' = watchlist
    /\ UNCHANGED <<status, openRatings>>

Begin ==
    /\ status = "queued"
    /\ openScrapes # {}
    /\ status' = "running"
    /\ UNCHANGED <<fannedOut, openScrapes, openRatings>>

FinishScrape(i, items) ==
    /\ status = "running"
    /\ i \in openScrapes
    /\ openScrapes' = openScrapes \ {i}
    /\ openRatings' = openRatings \cup items
    /\ UNCHANGED <<status, fannedOut>>

FanIn ==
    /\ status \in {"queued", "running"}
    /\ fannedOut
    /\ openScrapes = {}
    /\ \/ status' = "failed"
       \/ openRatings = {} /\ status' = "completed"
       \/ openRatings # {} /\ status' = "rating"
    /\ UNCHANGED <<fannedOut, openScrapes, openRatings>>

FinishRating(p) ==
    /\ p \in openRatings
    /\ openRatings' = openRatings \ {p}
    /\ status' = IF status = "rating" /\ openRatings' = {} THEN "completed" ELSE status
    /\ UNCHANGED <<fannedOut, openScrapes>>

Next ==
    \/ Create
    \/ \E watchlist \in SUBSET Influencers : FanOut(watchlist)
    \/ Begin
    \/ \E i \in Influencers : \E items \in SUBSET ({i} \X Hashes) : FinishScrape(i, items)
    \/ FanIn
    \/ \E p \in Influencers \X Hashes : FinishRating(p)

Spec == Init /\ [][Next]_lifecycleVars

=============================================================================
