---------------------------- MODULE RunPipeline ----------------------------
(***************************************************************************)
(* One scrape run, from POST /runs to its terminal status: the API handler *)
(* that writes the row and sends the dispatch task, the dispatch task that *)
(* builds the Celery chord, one scrape task per influencer, the fan-in     *)
(* callback, and one rating task per newly inserted signal.                *)
(*                                                                         *)
(* The row is the shared state; every UPDATE is one atomic step, and what  *)
(* a task does between two of them interleaves freely with every other     *)
(* task.  What a scrape fetches, what a model answers and the text of the  *)
(* messages are abstracted; who counts what, when, and what is announced   *)
(* is not.  Celery acknowledges a message before it runs the task (the     *)
(* default, celery_app.py does not set acks_late), so a task that dies is  *)
(* not delivered again.                                                    *)
(***************************************************************************)
EXTENDS Naturals, FiniteSets

CONSTANTS
    Influencers,    \* rows of the influencers table
    Hashes,         \* content hashes a scrape can insert as new signals
    MaxRetries,     \* rate_signal's max_retries
    HasEnv,         \* RATING_MODEL is set in the worker's environment
    Faults          \* what may go wrong, a subset of Fault

Fault ==
    { "broker",     \* the API dies, or send_task raises, after the row is committed
      "crash",      \* a worker process dies while it runs a task
      "publish",    \* a Redis PUBLISH raises out of the task
      "escape",     \* rate_signal raises something other than RatingError
      "refresh" }   \* REFRESH MATERIALIZED VIEW fails inside finalize_run

ASSUME PipelineAssumption ==
    /\ IsFiniteSet(Influencers)
    /\ IsFiniteSet(Hashes)
    /\ MaxRetries \in Nat
    /\ HasEnv \in BOOLEAN
    /\ Faults \subseteq Fault

VARIABLES
    \* the runs row
    status, model, total, done_count, inserted, rated_count, started_at, finished_at,
    \* the hand-off: create_run after its commit, and the dispatch task
    sender, dispatch, header,
    \* the chord: one scrape per influencer of the header, and the callback
    scrape, found, scrapeError, finalizer, refreshFailed,
    \* one rating task per new signal
    rate, retries,
    \* tasks whose process died or whose exception escaped
    deadScrapes, deadRatings,
    \* how many messages of each type were published on run:<id>
    sent

rowVars == <<status, model, total, done_count, inserted, rated_count, started_at, finished_at>>
handoffVars == <<sender, dispatch, header>>
scrapeVars == <<scrape, found, scrapeError, deadScrapes>>
finalizeVars == <<finalizer, refreshFailed>>
rateVars == <<rate, retries, deadRatings>>
vars == <<rowVars, handoffVars, scrapeVars, finalizeVars, rateVars, sent>>

Signal == Influencers \X Hashes
Status == {"absent", "queued", "running", "rating", "completed", "failed"}
Terminal == {"completed", "failed"}
MessageType == {"progress", "scrape_done", "rating", "done"}
ScrapePhase == {"none", "queued", "started", "counted", "published", "returned"}
RatePhase == {"none", "queued", "owesRating", "owesDone", "over"}
FinalizePhase == {"none", "queued", "refreshed", "owesScrapeDone", "owesDone", "over", "dead"}

\* A run rates its new signals when it carries a model or the worker has a default.
RatingOn == model \/ HasEnv

Publish(type) == sent' = [sent EXCEPT ![type] = @ + 1]

\* Sets that the three counters of the row stand for.
CountedScrapes == {i \in Influencers : scrape[i] \in {"counted", "published", "returned"}}
NewSignals == {p \in Signal : p[1] \in CountedScrapes /\ p[2] \in found[p[1]]}
CountedRatings == {p \in Signal : rate[p] \in {"owesRating", "owesDone", "over"}}

Init ==
    /\ status = "absent"
    /\ model = FALSE
    /\ total = 0
    /\ done_count = 0
    /\ inserted = 0
    /\ rated_count = 0
    /\ started_at = FALSE
    /\ finished_at = FALSE
    /\ sender = "none"
    /\ dispatch = "none"
    /\ header = {}
    /\ scrape = [i \in Influencers |-> "none"]
    /\ found = [i \in Influencers |-> {}]
    /\ scrapeError = [i \in Influencers |-> FALSE]
    /\ finalizer = "none"
    /\ refreshFailed = FALSE
    /\ rate = [p \in Signal |-> "none"]
    /\ retries = [p \in Signal |-> 0]
    /\ deadScrapes = {}
    /\ deadRatings = {}
    /\ sent = [t \in MessageType |-> 0]

-----------------------------------------------------------------------------
(***************************************************************************)
(* The hand-off.                                                           *)
(***************************************************************************)

\* create_run up to the commit: the row exists, nothing has been sent.  `m` says
\* whether the request named a model; `n` is the influencer count at that moment.
CreateRun(m, n) ==
    /\ status = "absent"
    /\ status' = "queued"
    /\ model' = m
    /\ total' = n
    /\ sender' = "committed"
    /\ UNCHANGED <<done_count, inserted, rated_count, started_at, finished_at, dispatch, header,
                   scrapeVars, finalizeVars, rateVars, sent>>

SendDispatch ==
    /\ sender = "committed"
    /\ sender' = "over"
    /\ dispatch' = "queued"
    /\ UNCHANGED <<rowVars, header, scrapeVars, finalizeVars, rateVars, sent>>

\* The row is committed and the message is never sent.
SendLost ==
    /\ "broker" \in Faults
    /\ sender = "committed"
    /\ sender' = "dead"
    /\ UNCHANGED <<rowVars, dispatch, header, scrapeVars, finalizeVars, rateVars, sent>>

\* dispatch_run re-reads the watchlist, which may have changed since create_run
\* counted it, and trues up total.
DispatchTotal(watchlist) ==
    /\ dispatch = "queued"
    /\ dispatch' = "totalled"
    /\ header' = watchlist
    /\ total' = Cardinality(watchlist)
    /\ UNCHANGED <<status, model, done_count, inserted, rated_count, started_at, finished_at,
                   sender, scrapeVars, finalizeVars, rateVars, sent>>

\* chord(header)(finalize_run): Celery sends the body at once when the header is empty.
DispatchChord ==
    /\ dispatch = "totalled"
    /\ dispatch' = "over"
    /\ scrape' = [i \in Influencers |-> IF i \in header THEN "queued" ELSE scrape[i]]
    /\ finalizer' = IF header = {} THEN "queued" ELSE finalizer
    /\ UNCHANGED <<rowVars, sender, header, found, scrapeError, deadScrapes, refreshFailed,
                   rateVars, sent>>

\* The dispatch task dies before, or part of the way through, sending the chord: the
\* header tasks in `reached` were sent.
DispatchDies(reached) ==
    /\ "crash" \in Faults
    /\ dispatch \in {"queued", "totalled"}
    /\ reached \subseteq header
    /\ dispatch = "queued" => reached = {}
    /\ reached # header \/ header = {}
    /\ dispatch' = "dead"
    /\ scrape' = [i \in Influencers |-> IF i \in reached THEN "queued" ELSE scrape[i]]
    /\ UNCHANGED <<rowVars, sender, header, found, scrapeError, deadScrapes, finalizeVars,
                   rateVars, sent>>

-----------------------------------------------------------------------------
(***************************************************************************)
(* scrape_influencer.                                                      *)
(***************************************************************************)

ScrapeRuns(i, phase) ==
    /\ i \notin deadScrapes
    /\ scrape[i] = phase

ScrapeMoves(i, phase) == scrape' = [scrape EXCEPT ![i] = phase]

\* The first task to arrive moves the run out of `queued`; COALESCE keeps started_at.
ScrapeStart(i) ==
    /\ ScrapeRuns(i, "queued")
    /\ ScrapeMoves(i, "started")
    /\ status' = IF status = "queued" THEN "running" ELSE status
    /\ started_at' = TRUE
    /\ UNCHANGED <<model, total, done_count, inserted, rated_count, finished_at, handoffVars,
                   found, scrapeError, deadScrapes, finalizeVars, rateVars, sent>>

\* The scrape itself and the UPDATE that counts it.  An exception inside the scrape is
\* caught: nothing is reported as inserted, and the task still counts as done.
ScrapeCount(i, new, failed) ==
    /\ ScrapeRuns(i, "started")
    /\ failed => new = {}
    /\ ScrapeMoves(i, "counted")
    /\ found' = [found EXCEPT ![i] = new]
    /\ scrapeError' = [scrapeError EXCEPT ![i] = failed]
    /\ done_count' = done_count + 1
    /\ inserted' = inserted + Cardinality(new)
    /\ UNCHANGED <<status, model, total, rated_count, started_at, finished_at, handoffVars,
                   deadScrapes, finalizeVars, rateVars, sent>>

\* rate_signal.delay for one new signal, after the count is committed.
EnqueueRating(i, h) ==
    /\ ScrapeRuns(i, "counted")
    /\ RatingOn
    /\ h \in found[i]
    /\ rate[<<i, h>>] = "none"
    /\ rate' = [rate EXCEPT ![<<i, h>>] = "queued"]
    /\ UNCHANGED <<rowVars, handoffVars, scrapeVars, finalizeVars, retries, deadRatings, sent>>

AllEnqueued(i) == RatingOn => \A h \in found[i] : rate[<<i, h>>] # "none"

ScrapePublish(i) ==
    /\ ScrapeRuns(i, "counted")
    /\ AllEnqueued(i)
    /\ ScrapeMoves(i, "published")
    /\ Publish("progress")
    /\ UNCHANGED <<rowVars, handoffVars, found, scrapeError, deadScrapes, finalizeVars, rateVars>>

\* The task returns; the one that completes the header enqueues the callback.
ScrapeReturn(i) ==
    /\ ScrapeRuns(i, "published")
    /\ ScrapeMoves(i, "returned")
    /\ finalizer' = IF \A j \in header : scrape'[j] = "returned" THEN "queued" ELSE finalizer
    /\ UNCHANGED <<rowVars, handoffVars, found, scrapeError, deadScrapes, refreshFailed,
                   rateVars, sent>>

\* The worker process dies under the task (acknowledged, so not redelivered), or the task
\* raises outside its try block.  The chord never fires.
ScrapeDies(i) ==
    /\ "crash" \in Faults
    /\ i \notin deadScrapes
    /\ scrape[i] \in {"queued", "started", "counted", "published"}
    /\ deadScrapes' = deadScrapes \cup {i}
    /\ UNCHANGED <<rowVars, handoffVars, scrape, found, scrapeError, finalizeVars, rateVars, sent>>

\* _publish raises: it is outside the task's try block, so the task fails and Celery
\* does not fire the callback of a chord with a failed header task.
ScrapePublishRaises(i) ==
    /\ "publish" \in Faults
    /\ ScrapeRuns(i, "counted")
    /\ AllEnqueued(i)
    /\ deadScrapes' = deadScrapes \cup {i}
    /\ UNCHANGED <<rowVars, handoffVars, scrape, found, scrapeError, finalizeVars, rateVars, sent>>

-----------------------------------------------------------------------------
(***************************************************************************)
(* finalize_run.                                                           *)
(***************************************************************************)

FinalizeRefresh(refused) ==
    /\ finalizer = "queued"
    /\ refused => "refresh" \in Faults
    /\ finalizer' = "refreshed"
    /\ refreshFailed' = refused
    /\ UNCHANGED <<rowVars, handoffVars, scrapeVars, rateVars, sent>>

AllErrored == header # {} /\ \A i \in header : scrapeError[i]

\* Mutant: the callback looks only at whether anything was inserted, as if no rating
\* could land before the fan-in.
RatingPendingIgnoresRated == RatingOn /\ inserted > 0

\* The CASE of the UPDATE reads the row's counters as they are now, not as they were
\* when the callback started.
RatingPending == RatingOn /\ inserted > 0 /\ rated_count < inserted

FinalStatus ==
    IF AllErrored \/ refreshFailed THEN "failed"
    ELSE IF RatingPending THEN "rating" ELSE "completed"

FinalizeUpdate ==
    /\ finalizer = "refreshed"
    /\ status' = FinalStatus
    /\ finished_at' = (finished_at \/ FinalStatus \in Terminal)
    /\ finalizer' = IF FinalStatus \in Terminal THEN "owesDone" ELSE "owesScrapeDone"
    /\ UNCHANGED <<model, total, done_count, inserted, rated_count, started_at, handoffVars,
                   scrapeVars, refreshFailed, rateVars, sent>>

\* What the UPDATE returned decides the message: the run may have moved on since.
FinalizePublish ==
    /\ \/ finalizer = "owesDone" /\ Publish("done")
       \/ finalizer = "owesScrapeDone" /\ Publish("scrape_done")
    /\ finalizer' = "over"
    /\ UNCHANGED <<rowVars, handoffVars, scrapeVars, refreshFailed, rateVars>>

FinalizeDies ==
    /\ \/ "crash" \in Faults /\ finalizer \in {"queued", "refreshed", "owesDone", "owesScrapeDone"}
       \/ "publish" \in Faults /\ finalizer \in {"owesDone", "owesScrapeDone"}
    /\ finalizer' = "dead"
    /\ UNCHANGED <<rowVars, handoffVars, scrapeVars, refreshFailed, rateVars, sent>>

-----------------------------------------------------------------------------
(***************************************************************************)
(* rate_signal, one task per <<influencer, hash>> the run inserted.        *)
(***************************************************************************)

RateRuns(p, phase) ==
    /\ p \notin deadRatings
    /\ rate[p] = phase

\* Mutant: an attempt that will be retried is announced too.
RateRetryAnnounced(p) ==
    /\ RateRuns(p, "queued")
    /\ retries[p] < MaxRetries
    /\ retries' = [retries EXCEPT ![p] = @ + 1]
    /\ rated_count' = rated_count + 1
    /\ UNCHANGED <<status, model, total, done_count, inserted, started_at, finished_at,
                   handoffVars, scrapeVars, finalizeVars, rate, deadRatings, sent>>

\* A RatingError with attempts left: Celery re-sends the task.
RateRetry(p) ==
    /\ RateRuns(p, "queued")
    /\ retries[p] < MaxRetries
    /\ retries' = [retries EXCEPT ![p] = @ + 1]
    /\ UNCHANGED <<rowVars, handoffVars, scrapeVars, finalizeVars, rate, deadRatings, sent>>

\* Mutant: the bump ends a run that the callback has not moved to `rating` yet.
LastRatingUnguarded == rated_count + 1 >= inserted

\* Mutant: one rating short.
LastRatingEarly == status = "rating" /\ rated_count + 2 >= inserted

\* The bump that brings rated_count up to inserted ends a run that is in `rating`.
LastRating == status = "rating" /\ rated_count + 1 >= inserted

\* Mutant: the message is decided by the status read before the UPDATE.
RateAnnounceStale(p) ==
    /\ RateRuns(p, "queued")
    /\ rated_count' = rated_count + 1
    /\ status' = IF LastRating THEN "completed" ELSE status
    /\ finished_at' = (finished_at \/ LastRating)
    /\ rate' = [rate EXCEPT ![p] = IF status = "completed" THEN "owesDone" ELSE "owesRating"]
    /\ UNCHANGED <<model, total, done_count, inserted, started_at, handoffVars, scrapeVars,
                   finalizeVars, retries, deadRatings, sent>>

\* An attempt that ends for good (rated, cached, already rated, lost the race, or given
\* up) up to the commit of _announce_rating's UPDATE.  The message is decided by the
\* status the UPDATE returned.
RateAnnounce(p) ==
    /\ RateRuns(p, "queued")
    /\ rated_count' = rated_count + 1
    /\ status' = IF LastRating THEN "completed" ELSE status
    /\ finished_at' = (finished_at \/ LastRating)
    /\ rate' = [rate EXCEPT ![p] = IF status' = "completed" THEN "owesDone" ELSE "owesRating"]
    /\ UNCHANGED <<model, total, done_count, inserted, started_at, handoffVars, scrapeVars,
                   finalizeVars, retries, deadRatings, sent>>

RatePublish(p) ==
    /\ \/ RateRuns(p, "owesDone") /\ Publish("done")
       \/ RateRuns(p, "owesRating") /\ Publish("rating")
    /\ rate' = [rate EXCEPT ![p] = "over"]
    /\ UNCHANGED <<rowVars, handoffVars, scrapeVars, finalizeVars, retries, deadRatings>>

\* The worker dies, an exception that is not a RatingError escapes the attempt, or
\* _publish raises after the UPDATE.
RateDies(p) ==
    /\ p \notin deadRatings
    /\ \/ "crash" \in Faults /\ rate[p] \in {"queued", "owesRating", "owesDone"}
       \/ "escape" \in Faults /\ rate[p] = "queued"
       \/ "publish" \in Faults /\ rate[p] \in {"owesRating", "owesDone"}
    /\ deadRatings' = deadRatings \cup {p}
    /\ UNCHANGED <<rowVars, handoffVars, scrapeVars, finalizeVars, rate, retries, sent>>

-----------------------------------------------------------------------------
ScrapeStep(i) ==
    \/ ScrapeStart(i)
    \/ \E new \in SUBSET Hashes : \E failed \in BOOLEAN : ScrapeCount(i, new, failed)
    \/ \E h \in Hashes : EnqueueRating(i, h)
    \/ ScrapePublish(i)
    \/ ScrapeReturn(i)

FinalizeStep == (\E refused \in BOOLEAN : FinalizeRefresh(refused)) \/ FinalizeUpdate \/ FinalizePublish

RateStep(p) == RateRetry(p) \/ RateAnnounce(p) \/ RatePublish(p)

DispatchStep == (\E watchlist \in SUBSET Influencers : DispatchTotal(watchlist)) \/ DispatchChord

Failure ==
    \/ SendLost
    \/ \E reached \in SUBSET Influencers : DispatchDies(reached)
    \/ \E i \in Influencers : ScrapeDies(i) \/ ScrapePublishRaises(i)
    \/ FinalizeDies
    \/ \E p \in Signal : RateDies(p)

\* Nothing of this run is left to do.
Quiet ==
    /\ status # "absent"
    /\ sender # "committed"
    /\ dispatch \in {"none", "over", "dead"}
    /\ \A i \in Influencers : scrape[i] \in {"none", "returned"} \/ i \in deadScrapes
    /\ finalizer \in {"none", "over", "dead"}
    /\ \A p \in Signal : rate[p] \in {"none", "over"} \/ p \in deadRatings

RunOver == Quiet /\ status \in Terminal /\ UNCHANGED vars

Next ==
    \/ \E m \in BOOLEAN : \E n \in 0..Cardinality(Influencers) : CreateRun(m, n)
    \/ SendDispatch
    \/ DispatchStep
    \/ \E i \in Influencers : ScrapeStep(i)
    \/ FinalizeStep
    \/ \E p \in Signal : RateStep(p)
    \/ Failure
    \/ RunOver

Spec == Init /\ [][Next]_vars

\* The API handler runs on, and the worker keeps taking tasks and keeps running the ones
\* it took.  Nobody owes a new run, and no fault has to happen.
Fairness ==
    /\ WF_vars(SendDispatch)
    /\ WF_vars(DispatchStep)
    /\ \A i \in Influencers : WF_vars(ScrapeStep(i))
    /\ WF_vars(FinalizeStep)
    /\ \A p \in Signal : WF_vars(RateStep(p))

FairSpec == Spec /\ Fairness

-----------------------------------------------------------------------------
(***************************************************************************)
(* Properties.                                                             *)
(***************************************************************************)

\* Every column and every task phase has its type.
TypeOK ==
    /\ status \in Status
    /\ model \in BOOLEAN
    /\ total \in Nat /\ done_count \in Nat /\ inserted \in Nat /\ rated_count \in Nat
    /\ started_at \in BOOLEAN /\ finished_at \in BOOLEAN
    /\ sender \in {"none", "committed", "over", "dead"}
    /\ dispatch \in {"none", "queued", "totalled", "over", "dead"}
    /\ header \subseteq Influencers
    /\ scrape \in [Influencers -> ScrapePhase]
    /\ found \in [Influencers -> SUBSET Hashes]
    /\ scrapeError \in [Influencers -> BOOLEAN]
    /\ finalizer \in FinalizePhase
    /\ refreshFailed \in BOOLEAN
    /\ rate \in [Signal -> RatePhase]
    /\ retries \in [Signal -> 0..MaxRetries]
    /\ deadScrapes \subseteq Influencers
    /\ deadRatings \subseteq Signal
    /\ sent \in [MessageType -> Nat]

\* The three counters a client reads are exactly the sets they stand for, whatever the
\* interleaving and whatever died: scrapes counted, signals those scrapes reported, and
\* ratings announced; and no rating is counted that the run did not insert.
CountersExact ==
    /\ done_count = Cardinality(CountedScrapes)
    /\ inserted = Cardinality(NewSignals)
    /\ rated_count = Cardinality(CountedRatings)
    /\ CountedRatings \subseteq NewSignals

\* `completed` means drained: every scrape of the header was counted and returned, and,
\* when rating is on, every signal the run inserted has had its rating counted.  This is
\* the contract of migration 20260711000002 ("`completed` only when the last rating lands").
CompletedMeansDrained ==
    status = "completed" =>
        /\ \A i \in header : scrape[i] = "returned"
        /\ RatingOn => CountedRatings = NewSignals

\* finished_at is stamped exactly when the status is terminal, on every path to it.
FinishedIffTerminal == finished_at <=> status \in Terminal

\* Postgres first, megaphone second: a `done` is heard only when the row a reconnecting
\* client would read is already terminal, and it is heard at most once.
DoneMatchesRow == sent["done"] <= 1 /\ (sent["done"] = 1 => status \in Terminal)

\* A run that nobody is working on any more and that is not terminal lost a task: with no
\* loss, the counters always lead the run to an end.
StrandedOnlyByLoss ==
    Quiet /\ status \notin Terminal =>
        \/ sender = "dead" \/ dispatch = "dead" \/ finalizer = "dead"
        \/ deadScrapes # {} \/ deadRatings # {}

\* A terminal run is never reopened or reclassified by a late task.
TerminalIsFinal ==
    [][(status \in Terminal) => (status' = status /\ finished_at' = finished_at)]_vars

-----------------------------------------------------------------------------
(***************************************************************************)
(* The inductive invariant behind the properties above.                    *)
(***************************************************************************)

\* Tasks exist only downstream of what sends them, and the callback only after every
\* header task has returned.
ChordInv ==
    /\ dispatch \in {"none", "queued", "totalled"} => \A i \in Influencers : scrape[i] = "none"
    /\ dispatch \in {"none", "queued"} => header = {}
    /\ \A i \in Influencers : scrape[i] # "none" => i \in header
    /\ dispatch = "dead" /\ header # {} => \E i \in header : scrape[i] = "none"
    /\ finalizer # "none" => dispatch = "over" /\ \A i \in header : scrape[i] = "returned"

\* A rating task stands for a signal that is already in `inserted`.
RatingInv == \A p \in Signal : rate[p] # "none" => RatingOn /\ p \in NewSignals

\* Where the callback is tells which half of its life the status is in, and a run is left
\* in `rating` only while a rating is still to be counted.
RowInv ==
    /\ finalizer \in {"none", "queued", "refreshed"} => status \in {"absent", "queued", "running"}
    /\ finalizer \in {"owesDone", "owesScrapeDone", "over"} => status \in {"rating"} \cup Terminal
    /\ status = "rating" => RatingOn /\ rated_count < inserted

\* The row leaves `queued` with the first scrape that starts, and not before.
BegunInv ==
    /\ status \in {"absent", "queued"} => \A i \in Influencers : scrape[i] \in {"none", "queued"}
    /\ status = "running" => \E i \in Influencers : scrape[i] \notin {"none", "queued"}

\* At most one task owes the `done` message, and only while none was sent.
DoneInv ==
    /\ finalizer = "owesDone" =>
          status \in Terminal /\ sent["done"] = 0 /\ \A p \in Signal : rate[p] # "owesDone"
    /\ \A p \in Signal : rate[p] = "owesDone" =>
          status = "completed" /\ sent["done"] = 0 /\ \A q \in Signal : rate[q] = "owesDone" => q = p

\* Whatever has to follow has been sent: the hand-off, the chord, the callback and one
\* rating task per new signal of a scrape that has published.
HandedOn ==
    /\ status = "absent" <=> sender = "none"
    /\ sender = "over" <=> dispatch # "none"
    /\ dispatch = "over" => \A i \in header : scrape[i] # "none"
    /\ dispatch = "over" /\ (\A i \in header : scrape[i] = "returned") => finalizer # "none"
    /\ \A i \in Influencers : scrape[i] \in {"published", "returned"} => AllEnqueued(i)

\* The conjunction every step preserves.
IInv ==
    /\ TypeOK /\ CountersExact /\ CompletedMeansDrained /\ FinishedIffTerminal /\ DoneMatchesRow
    /\ ChordInv /\ RatingInv /\ RowInv /\ BegunInv /\ DoneInv /\ HandedOn

-----------------------------------------------------------------------------
\* The counters and statuses implement the sets of RunLifecycle.
Lifecycle == INSTANCE RunLifecycle WITH
    fannedOut <- dispatch \in {"totalled", "over", "dead"},
    openScrapes <- header \ CountedScrapes,
    openRatings <- IF RatingOn THEN NewSignals \ CountedRatings ELSE {}

ImplementsLifecycle == Lifecycle!Spec

\* With no fault, a queued run reaches a terminal status.
RunCloses == status = "queued" ~> status \in Terminal

\* With no fault, every run that reaches a terminal status announces it.
DoneIsAnnounced == status \in Terminal ~> sent["done"] = 1

=============================================================================
