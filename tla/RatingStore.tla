---------------------------- MODULE RatingStore ----------------------------
(***************************************************************************)
(* What the rating tasks of every run and of the beat sweep write between  *)
(* them: one row of signal_ratings per content hash, by the model or       *)
(* copied from a near-identical caption (the semantic cache), and one row  *)
(* of signal_embeddings.  Neither refers to raw_signals: the rating of a   *)
(* post that the scrape's rollback undid is made and kept without a row.   *)
(*                                                                         *)
(* A rating is told apart by the hash it was copied from and by the hash   *)
(* whose caption the model judged in the end; the distance of two captions *)
(* by whether it is within _CACHE_MAX_DISTANCE.  What a task counts toward *)
(* its run is RunPipeline's part.                                          *)
(***************************************************************************)
EXTENDS Naturals, FiniteSets

CONSTANTS
    Hashes,         \* content hashes, as numbers: the sweeps take them in order
    Instagram,      \* those whose payload says source = 'instagram'
    Near,           \* pairs of hashes whose captions are within the cache's distance
    Poison,         \* hashes the model never gives a valid rating for
    Embedding,      \* EMBEDDING_MODEL is set
    MaxRetries,     \* rate_signal's max_retries
    Batch,          \* sweep_unrated's batch
    Slots           \* bound: rating tasks that exist at one time

ASSUME StoreAssumption ==
    /\ Hashes \subseteq Nat \ {0} /\ Instagram \subseteq Hashes /\ Poison \subseteq Hashes
    /\ Near \subseteq Hashes \X Hashes
    /\ Embedding \in BOOLEAN
    /\ MaxRetries \in Nat /\ Batch \in Nat \ {0}

VARIABLES
    signals,        \* content of raw_signals
    embedded,       \* signal_embeddings
    rating,         \* [Hashes -> signal_ratings' row, or Unrated]
    picked,         \* what a sweep has selected and not yet enqueued
    task            \* [Slots -> one delivery of rate_signal]

vars == <<signals, embedded, rating, picked, task>>

\* The row: copied from `donor`, judged on the caption of `origin`; both are the hash
\* itself when the model rated it.
Row == [donor : Hashes, origin : Hashes]
Unrated == [donor |-> 0, origin |-> 0]
ByModel(h) == [donor |-> h, origin |-> h]
IsRated(h) == rating[h] # Unrated

Task == [step : {"free", "queued", "probing", "calling", "storing"}, hash : Hashes \cup {0},
         retries : 0..MaxRetries, result : Row \cup {Unrated}]
Free == [step |-> "free", hash |-> 0, retries |-> 0, result |-> Unrated]
Queued(h, n) == [step |-> "queued", hash |-> h, retries |-> n, result |-> Unrated]
FreeSlots == {s \in Slots : task[s] = Free}

Init ==
    /\ signals = {}
    /\ embedded = {}
    /\ rating = [h \in Hashes |-> Unrated]
    /\ picked = {}
    /\ task = [s \in Slots |-> Free]

-----------------------------------------------------------------------------
(***************************************************************************)
(* New content, and the sweeps.                                            *)
(***************************************************************************)

\* A scrape has inserted a post, whose content another influencer may have posted before,
\* and enqueues its rating; so it does when a later post's rollback has undone the insert.
Scraped(h, s, kept) ==
    /\ s \in FreeSlots
    /\ signals' = IF kept THEN signals \cup {h} ELSE signals
    /\ task' = [task EXCEPT ![s] = Queued(h, 0)]
    /\ UNCHANGED <<embedded, rating, picked>>

\* POST /signals enqueues nothing.
Posted(h) ==
    /\ h \notin signals
    /\ signals' = signals \cup {h}
    /\ UNCHANGED <<embedded, rating, picked, task>>

\* Only real content: neither the seed nor the demo runs.
Backlog == {h \in signals \cap Instagram : ~IsRated(h)}

\* Mutant: the last of the batch is left out.
SweptShort == {h \in Backlog : Cardinality({g \in Backlog : g < h}) + 1 < Batch}

\* ORDER BY content_hash LIMIT batch, among the signals without a rating.
Swept == {h \in Backlog : Cardinality({g \in Backlog : g < h}) < Batch}

\* A tick of beat.
Sweep ==
    /\ picked = {}
    /\ picked' = Swept
    /\ UNCHANGED <<signals, embedded, rating, task>>

\* A task for each pick, in their order, whether or not one is on its way already.
Enqueue(h, s) ==
    /\ h \in picked
    /\ \A g \in picked : h <= g
    /\ s \in FreeSlots
    /\ picked' = picked \ {h}
    /\ task' = [task EXCEPT ![s] = Queued(h, 0)]
    /\ UNCHANGED <<signals, embedded, rating>>

\* embed_signal, sweep_unembedded or the backfill stores a vector.
Embed(h) ==
    /\ Embedding
    /\ h \notin embedded
    /\ embedded' = embedded \cup {h}
    /\ UNCHANGED <<signals, rating, picked, task>>

-----------------------------------------------------------------------------
(***************************************************************************)
(* rate_signal, with no connection held between its steps.                 *)
(***************************************************************************)

At(s, step) == task[s].step = step
Finish(s) == task' = [task EXCEPT ![s] = Free]

AlreadyRated(s) ==
    /\ At(s, "queued")
    /\ IsRated(task[s].hash)
    /\ Finish(s)
    /\ UNCHANGED <<signals, embedded, rating, picked>>

NotRated(s) ==
    /\ At(s, "queued")
    /\ ~IsRated(task[s].hash)
    /\ task' = [task EXCEPT ![s].step = IF Embedding THEN "probing" ELSE "calling"]
    /\ UNCHANGED <<signals, embedded, rating, picked>>

\* Rated and embedded content near enough to copy from.
Donors(h) == {d \in embedded \ {h} : IsRated(d) /\ <<d, h>> \in Near}

\* The probe embeds the signal if nobody has, then copies the row it finds.
CacheHit(s, d) ==
    /\ At(s, "probing")
    /\ d \in Donors(task[s].hash)
    /\ embedded' = embedded \cup {task[s].hash}
    /\ task' = [task EXCEPT ![s].step = "storing",
                            ![s].result = [donor |-> d, origin |-> rating[d].origin]]
    /\ UNCHANGED <<signals, rating, picked>>

\* Nothing near, or the approximate index does not find it, or the provider refuses the
\* embedding: rate normally.
CacheMiss(s, stored) ==
    /\ At(s, "probing")
    /\ embedded' = IF stored THEN embedded \cup {task[s].hash} ELSE embedded
    /\ task' = [task EXCEPT ![s].step = "calling"]
    /\ UNCHANGED <<signals, rating, picked>>

ModelAnswers(s) ==
    /\ At(s, "calling")
    /\ task[s].hash \notin Poison
    /\ task' = [task EXCEPT ![s].step = "storing", ![s].result = ByModel(task[s].hash)]
    /\ UNCHANGED <<signals, embedded, rating, picked>>

\* RatingError: the same task is delivered again, or gives up.
ModelFails(s) ==
    /\ At(s, "calling")
    /\ task' = [task EXCEPT ![s] = IF task[s].retries < MaxRetries
                                   THEN Queued(task[s].hash, task[s].retries + 1) ELSE Free]
    /\ UNCHANGED <<signals, embedded, rating, picked>>

\* Any other exception, or the worker is killed.
Dies(s) ==
    /\ task[s] # Free
    /\ Finish(s)
    /\ UNCHANGED <<signals, embedded, rating, picked>>

\* Mutant: the later of two ratings of one hash wins.
StoreLast(s) ==
    /\ At(s, "storing")
    /\ rating' = [rating EXCEPT ![task[s].hash] = task[s].result]
    /\ Finish(s)
    /\ UNCHANGED <<signals, embedded, picked>>

\* ON CONFLICT DO NOTHING: the first rating wins, and a late one is a lost race.
Store(s) ==
    /\ At(s, "storing")
    /\ rating' = [rating EXCEPT ![task[s].hash] = IF @ = Unrated THEN task[s].result ELSE @]
    /\ Finish(s)
    /\ UNCHANGED <<signals, embedded, picked>>

-----------------------------------------------------------------------------
Probed(s) == (\E d \in Hashes : CacheHit(s, d)) \/ (\E stored \in BOOLEAN : CacheMiss(s, stored))

RateStep(s) ==
    AlreadyRated(s) \/ NotRated(s) \/ Probed(s) \/ ModelAnswers(s) \/ ModelFails(s) \/ Store(s) \/ Dies(s)

Next ==
    \/ \E h \in Hashes : \/ Posted(h) \/ Embed(h)
                        \/ \E s \in Slots : Enqueue(h, s) \/ \E kept \in BOOLEAN : Scraped(h, s, kept)
    \/ Sweep
    \/ \E s \in Slots : RateStep(s)

Spec == Init /\ [][Next]_vars

\* Beat ticks and a sweep ends, also when scrapes are quick to take a slot (the queue has no
\* end, the slots are a bound); a task takes its next step; and tasks for the same hash that
\* come back again and again are not always killed, and the model, asked again and again,
\* answers at some point: that is an assumption about the provider, and the poisoned hashes
\* are those it does not hold for.
Fairness ==
    /\ WF_vars(Sweep)
    /\ SF_vars(\E h \in Hashes, s \in Slots : Enqueue(h, s))
    /\ \A s \in Slots : WF_vars(RateStep(s))
    /\ \A h \in Instagram \ Poison :
        /\ SF_vars(\E s \in Slots : task[s].hash = h /\ NotRated(s))
        /\ SF_vars(\E s \in Slots : task[s].hash = h /\ Probed(s))
        /\ SF_vars(\E s \in Slots : task[s].hash = h /\ ModelAnswers(s))
        /\ SF_vars(\E s \in Slots : task[s].hash = h /\ Store(s))

FairSpec == Spec /\ Fairness

-----------------------------------------------------------------------------
\* Types; a task has a rating in hand exactly when it is about to store it.
TypeOK ==
    /\ signals \subseteq Hashes
    /\ embedded \subseteq Hashes /\ picked \subseteq signals
    /\ rating \in [Hashes -> Row \cup {Unrated}]
    /\ task \in [Slots -> Task]
    /\ \A s \in Slots : task[s] = Free \/
          /\ task[s].step # "free"
          /\ task[s].hash \in Hashes
          /\ task[s].step = "storing" <=> task[s].result # Unrated

\* A rating for h that comes from donor d by way of a near caption.
CopiedFrom(d, h, origin) ==
    d # h /\ <<d, h>> \in Near /\ IsRated(d) /\ rating[d].origin = origin

\* Every rating in the store, or in the hands of a task that is about to store it, is one
\* the model gave for that content, or a copy of the rating a near-identical caption has
\* to this day; and what it was copied from goes back to a caption the model did judge.
RowsGrounded ==
    \A h \in Hashes : IsRated(h) =>
        /\ rating[h].donor = h \/ CopiedFrom(rating[h].donor, h, rating[h].origin)
        /\ rating[rating[h].origin] = ByModel(rating[h].origin)

HeldGrounded ==
    \A s \in Slots : At(s, "storing") =>
        \/ task[s].result = ByModel(task[s].hash)
        \/ CopiedFrom(task[s].result.donor, task[s].hash, task[s].result.origin)

RatingsGrounded == RowsGrounded /\ HeldGrounded

\* "each distinct piece of content gets rated once, ever": sweeps, runs and retries that
\* race on a hash never replace the rating that was there first.
FirstRatingStays == [][\A h \in Hashes : IsRated(h) => rating'[h] = rating[h]]_vars

\* The sweep's batch reaches h past the hashes before it that never get a rating, which
\* every tick selects again.
Reached(h) == Cardinality({g \in Instagram \cap Poison : g < h}) < Batch

\* Instagram content that slipped through (posted by the API, given up on, or lost with its
\* worker) is rated in the end, as long as no whole batch of content that cannot be rated
\* stands before it.
\* The docstring of sweep_unrated, tasks.py:388-391, has a backlog drain gradually.
BacklogDrains == \A h \in Instagram \ Poison : Reached(h) => (h \in signals ~> IsRated(h))

=============================================================================
