----------------------------- MODULE Embedding -----------------------------
(***************************************************************************)
(* Who writes signal_embeddings: the embed tasks that scrapes and the beat *)
(* sweep enqueue, one short transaction each, and the manual backfill      *)
(* (worker.backfill), which keeps a transaction open over up to Chunk rows *)
(* while it calls the provider for the next one.  A row that is inserted   *)
(* and not committed locks its hash: whoever inserts the same hash waits.  *)
(* A vector does not refer to raw_signals: a post that the scrape's        *)
(* rollback undid gets one too.                                            *)
(*                                                                         *)
(* Every process here has EMBEDDING_MODEL set; without it all of them      *)
(* return at their first line.  A caption is whether it is there, a vector *)
(* whether there is one: RatingStore says what is read from it.            *)
(***************************************************************************)
EXTENDS Naturals, FiniteSetsExt

CONSTANTS
    Hashes,         \* content hashes, as numbers: both selections are ordered by them
    Instagram,      \* those whose payload says source = 'instagram'
    Corpus,         \* those in the database when EMBEDDING_MODEL is set
    Captioned,      \* those with a caption that is not empty
    Scrapes,        \* those that scrapes bring; a seed or POST /signals may bring any
    MaxRetries,     \* embed_signal's max_retries
    Batch,          \* sweep_unembedded's batch
    Chunk,          \* rows between two commits of the backfill
    Limits,         \* what --limit is given; 0 is no limit
    Slots,          \* bound: embed tasks that exist at one time
    Fills           \* bound: invocations of the backfill

ASSUME EmbeddingAssumption ==
    /\ Hashes \subseteq Nat \ {0} /\ Instagram \subseteq Hashes /\ Captioned \subseteq Hashes
    /\ Corpus \subseteq Hashes /\ Scrapes \subseteq Hashes
    /\ MaxRetries \in Nat /\ Batch \in Nat \ {0} /\ Chunk \in Nat \ {0} /\ Limits \subseteq Nat

VARIABLES
    signals,        \* hashes in raw_signals
    stored,         \* committed rows of signal_embeddings
    task,           \* [Slots -> one delivery of embed_signal]
    fill,           \* [Fills -> one run of backfill()]
    reported        \* tasks that returned "embedded"

vars == <<signals, stored, task, fill, reported>>

Free == [step |-> "free", hash |-> 0, tries |-> 0]
Queued(h, n) == [step |-> "queued", hash |-> h, tries |-> n]
FreeSlots == {s \in Slots : task[s] = Free}

\* The first n of S in the order of the hashes.
First(S, n) == {h \in S : Cardinality({g \in S : g < h}) < n}
Least(S) == CHOOSE h \in S : \A g \in S : h <= g

\* Rows that some open transaction of the backfill has inserted.
HeldBy(b) == fill[b].held
Locked(h, others) == \E b \in others : h \in HeldBy(b)

Init ==
    /\ signals = Corpus
    /\ stored = {}
    /\ task = [s \in Slots |-> Free]
    /\ fill = [b \in Fills |-> [step |-> "ready", todo |-> {}, held |-> {}, done |-> 0, written |-> 0]]
    /\ reported = 0

-----------------------------------------------------------------------------
(***************************************************************************)
(* Scrapes, sweep and tasks.                                               *)
(***************************************************************************)

\* A seed or POST /signals, or a scrape that dies first: nothing is enqueued for it.
Arrive(h) ==
    /\ h \notin signals
    /\ signals' = signals \cup {h}
    /\ UNCHANGED <<stored, task, fill, reported>>

\* A scrape has inserted a post, whose content another influencer may have posted before, and
\* enqueues its embedding, instagram content or not; so it does when a later post's rollback
\* has undone the insert.
Scraped(h, s, kept) ==
    /\ s \in FreeSlots
    /\ signals' = IF kept THEN signals \cup {h} ELSE signals
    /\ task' = [task EXCEPT ![s] = Queued(h, 0)]
    /\ UNCHANGED <<stored, fill, reported>>

\* Mutant: the sweep asks for a caption, as the backfill does.
SweptCaptioned == First((signals \cap Instagram \cap Captioned) \ stored, Batch)

\* Only instagram content, captioned or not.
Swept == First((signals \cap Instagram) \ stored, Batch)

Sweep(slot) ==
    /\ Swept # {}
    /\ \A h, g \in Swept : slot[h] = slot[g] => h = g
    /\ task' = [s \in Slots |-> IF \E h \in Swept : slot[h] = s
                                THEN Queued(CHOOSE h \in Swept : slot[h] = s, 0) ELSE task[s]]
    /\ UNCHANGED <<signals, stored, fill, reported>>

At(s, step) == task[s].step = step

\* already-embedded, or not: rows of an open transaction are not seen.
Check(s) ==
    /\ At(s, "queued")
    /\ task' = [task EXCEPT ![s] = IF task[s].hash \in stored THEN Free ELSE [@ EXCEPT !.step = "calling"]]
    /\ UNCHANGED <<signals, stored, fill, reported>>

Answered(s) ==
    /\ At(s, "calling")
    /\ task' = [task EXCEPT ![s].step = "storing"]
    /\ UNCHANGED <<signals, stored, fill, reported>>

\* EmbeddingError: no connection, an error status, another shape or another width.
Refused(s) ==
    /\ At(s, "calling")
    /\ task' = [task EXCEPT ![s] = IF task[s].tries < MaxRetries
                                   THEN Queued(task[s].hash, task[s].tries + 1) ELSE Free]
    /\ UNCHANGED <<signals, stored, fill, reported>>

\* Any other exception, or the worker is killed.
Dies(s) ==
    /\ task[s] # Free
    /\ task' = [task EXCEPT ![s] = Free]
    /\ UNCHANGED <<signals, stored, fill, reported>>

\* The insert waits for a backfill that holds the hash, then inserts or has lost the race.
StoreTask(s) ==
    /\ At(s, "storing")
    /\ ~Locked(task[s].hash, Fills)
    /\ stored' = stored \cup {task[s].hash}
    /\ reported' = IF task[s].hash \in stored THEN reported ELSE reported + 1
    /\ task' = [task EXCEPT ![s] = Free]
    /\ UNCHANGED <<signals, fill>>

-----------------------------------------------------------------------------
(***************************************************************************)
(* backfill().                                                             *)
(***************************************************************************)

In(b, step) == fill[b].step = step

Selected(only, limit) ==
    LET all == {h \in (signals \cap Captioned) \ stored : only => h \in Instagram}
    IN  IF limit = 0 THEN all ELSE First(all, limit)

Start(b, only, limit) ==
    /\ In(b, "ready")
    /\ fill' = [fill EXCEPT ![b].todo = Selected(only, limit),
                            ![b].step = IF Selected(only, limit) = {} THEN "ended" ELSE "calling"]
    /\ UNCHANGED <<signals, stored, task, reported>>

Vectorised(b) ==
    /\ In(b, "calling")
    /\ fill' = [fill EXCEPT ![b].step = "inserting"]
    /\ UNCHANGED <<signals, stored, task, reported>>

\* The first EmbeddingError leaves the loop; what was inserted is committed.
Abort(b) ==
    /\ In(b, "calling")
    /\ fill' = [fill EXCEPT ![b].step = "committing", ![b].todo = {}]
    /\ UNCHANGED <<signals, stored, task, reported>>

\* Any other exception, or the process is killed: the open transaction is rolled back.
Crash(b) ==
    /\ fill[b].step \notin {"ready", "ended"}
    /\ fill' = [fill EXCEPT ![b].step = "ended", ![b].todo = {}, ![b].held = {}, ![b].written = 0]
    /\ UNCHANGED <<signals, stored, task, reported>>

NextRow(b) == Least(fill[b].todo)

InsertRow(b, h, new) ==
    /\ fill' = [fill EXCEPT
        ![b].todo = @ \ {h},
        ![b].held = IF h \in stored THEN @ ELSE @ \cup {h},
        ![b].done = (@ + 1) % Chunk,
        ![b].written = IF new THEN @ + 1 ELSE @,
        ![b].step = IF (fill[b].done + 1) % Chunk = 0 \/ fill[b].todo = {h} THEN "committing" ELSE "calling"]
    /\ UNCHANGED <<signals, stored, task, reported>>

\* Mutants: a row that was there already is counted; the rows are taken in any order.
InsertCountsAll(b) == In(b, "inserting") /\ ~Locked(NextRow(b), Fills \ {b}) /\ InsertRow(b, NextRow(b), TRUE)
InsertAnyOrder(b) == In(b, "inserting") /\ \E h \in fill[b].todo : ~Locked(h, Fills \ {b}) /\ InsertRow(b, h, h \notin stored)

\* insert_embedding within the open transaction, in the order of the selection.
Insert(b) == In(b, "inserting") /\ ~Locked(NextRow(b), Fills \ {b}) /\ InsertRow(b, NextRow(b), NextRow(b) \notin stored)

Commit(b) ==
    /\ In(b, "committing")
    /\ stored' = stored \cup HeldBy(b)
    /\ fill' = [fill EXCEPT ![b].held = {}, ![b].step = IF fill[b].todo = {} THEN "ended" ELSE "calling"]
    /\ UNCHANGED <<signals, task, reported>>

-----------------------------------------------------------------------------
BeatTick == \E slot \in [Swept -> FreeSlots] : Sweep(slot)
TaskStep(s) == Check(s) \/ Answered(s) \/ Refused(s) \/ Dies(s)
FillStep(b) == Vectorised(b) \/ Abort(b) \/ Crash(b) \/ Insert(b) \/ Commit(b)

Next ==
    \/ \E h \in Hashes : Arrive(h)
    \/ BeatTick
    \/ \E s \in Slots : TaskStep(s) \/ StoreTask(s) \/ \E h \in Scrapes, kept \in BOOLEAN : Scraped(h, s, kept)
    \/ \E b \in Fills : FillStep(b) \/ \E only \in BOOLEAN, limit \in Limits : Start(b, only, limit)

Spec == Init /\ [][Next]_vars

\* Beat ticks, also when scrapes are quick to take a slot (the queue has no end, the slots
\* are a bound); a task or a backfill that runs takes its next step (a call to the provider
\* ends within its timeout of 60 s); and a task for the same hash that comes back again and
\* again is not always killed, refused or beaten to the lock.  Nobody has to start a backfill.
Fairness ==
    /\ SF_vars(BeatTick)
    /\ \A s \in Slots : WF_vars(TaskStep(s))
    /\ \A b \in Fills : WF_vars(FillStep(b))
    /\ \A h \in Instagram :
        /\ SF_vars(\E s \in Slots : task[s].hash = h /\ Check(s))
        /\ SF_vars(\E s \in Slots : task[s].hash = h /\ Answered(s))
        /\ SF_vars(\E s \in Slots : task[s].hash = h /\ StoreTask(s))

FairSpec == Spec /\ Fairness

-----------------------------------------------------------------------------
\* Types; and a backfill holds only rows that nobody else holds and that are not in the
\* table, all of them before every row it has still to insert.
FillOK(b) ==
    /\ fill[b].todo \subseteq signals /\ HeldBy(b) \subseteq signals \ stored
    /\ fill[b].step \in {"calling", "inserting"} => fill[b].todo # {}
    /\ fill[b].step \in {"ready", "ended"} => HeldBy(b) = {} /\ fill[b].todo = {}
    /\ \A h \in HeldBy(b), g \in fill[b].todo : h < g
    /\ \A c \in Fills \ {b} : HeldBy(b) \cap HeldBy(c) = {}

TypeOK ==
    /\ signals \subseteq Hashes /\ stored \subseteq Hashes
    /\ task \in [Slots -> [step : {"free", "queued", "calling", "storing"}, hash : Hashes \cup {0}, tries : 0..MaxRetries]]
    /\ \A s \in Slots : task[s] = Free \/ (task[s].step # "free" /\ task[s].hash \in Hashes)
    /\ reported \in Nat
    /\ fill \in [Fills -> [step : {"ready", "calling", "inserting", "committing", "ended"},
                           todo : SUBSET Hashes, held : SUBSET Hashes, done : Nat, written : Nat]]
    /\ \A b \in Fills : FillOK(b)

\* Backfills that wait for each other's rows would be a deadlock, which Postgres ends by
\* aborting one of them.  Whoever waits does so for a backfill whose own next row comes
\* after the one it waits for, so the waits cannot close a cycle.
Waits(b, c) == b # c /\ In(b, "inserting") /\ NextRow(b) \in HeldBy(c)

NoLockCycle == \A b, c \in Fills : Waits(b, c) => \A g \in fill[c].todo : NextRow(b) < g

\* The rows there are, committed or not.
Rows == stored \cup UNION {HeldBy(b) : b \in Fills}

\* byTasks are the rows the tasks counted, byFill[b] those that backfill b counted.
Attributed(byTasks, byFill) ==
    /\ Cardinality(byTasks) = reported
    /\ \A b \in Fills : Cardinality(byFill[b]) = fill[b].written /\ byFill[b] \cap byTasks = {}
    /\ \A b, c \in Fills : b # c => byFill[b] \cap byFill[c] = {}

\* No vector is reported twice as written: to every one that the tasks and the running and
\* finished backfills count belongs a row of its own, so the counts never add up to more
\* than the rows there are.
CountedOnce ==
    \E byTasks \in SUBSET Rows : \E byFill \in [Fills -> SUBSET (Rows \ byTasks)] : Attributed(byTasks, byFill)

\* Whatever instagram content has no vector (posted through the API, given up on, or lost
\* with its worker) gets one in the end, captioned or not.
EmbedBacklogDrains == \A h \in Instagram : h \in signals ~> h \in stored

-----------------------------------------------------------------------------
\* The inductive form of CountedOnce: a task counts what it has committed, a backfill what
\* it holds and what it has committed, and nobody else counts a row that is held.
CountedInv ==
    \E byTasks \in SUBSET stored : \E byFill \in [Fills -> SUBSET Rows] :
        /\ Attributed(byTasks, byFill)
        /\ IsFiniteSet(byTasks)
        /\ \A b \in Fills : IsFiniteSet(byFill[b]) /\ byFill[b] \subseteq stored \cup HeldBy(b)

=============================================================================
