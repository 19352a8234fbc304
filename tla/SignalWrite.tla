---------------------------- MODULE SignalWrite ----------------------------
(***************************************************************************)
(* The signal write path for one influencer: live scrapes of several runs  *)
(* at once, and POST /signals, upserting the same posts through            *)
(* insert_signal, and the watermark that makes the next scrape             *)
(* incremental.                                                            *)
(*                                                                         *)
(* A post is the instant it was published, so a post and its unique key    *)
(* (influencer_id, content_hash, captured_at) are one number.  A scrape    *)
(* runs in one transaction: its inserts are `pending` until it commits,    *)
(* and an insert of a key another transaction holds waits for that one.    *)
(***************************************************************************)
EXTENDS Naturals, FiniteSets

CONSTANTS
    Runs,           \* runs that scrape this influencer
    Limit,          \* the run's `limit`
    Uncovered,      \* instants whose month has no partition
    MaxTime         \* bound: how far the clock goes

ASSUME WriteAssumption == Limit \in Nat \ {0} /\ MaxTime \in Nat /\ Uncovered \subseteq Nat

VARIABLES
    now, feed,      \* the clock, and the posts published on the influencer's page
    rows,           \* committed raw_signals of this influencer
    watermark,      \* influencers.last_scraped_at, 0 for NULL
    task,           \* [Runs -> the scrape task of that run]
    \* posts that were lost to the two ways a scrape may skip one
    cut,            \* newer than the watermark but over the limit of the fetch
    dropped         \* inserted and rolled back with a later post of the same scrape

vars == <<now, feed, rows, watermark, task, cut, dropped>>

NULL == 0
Phase == {"none", "dispatched", "inserting", "committed", "over", "failed"}

\* wm and run_ts travel in the task's arguments; left are the fetched posts still to be
\* inserted, pending the inserts of the open transaction, new_items what the task reports.
Idle == [phase |-> "none", wm |-> NULL, run_ts |-> 0, left |-> {}, pending |-> {}, new_items |-> {}]

Init ==
    /\ now = 1
    /\ feed \in SUBSET {1}
    /\ rows = {}
    /\ watermark = NULL
    /\ task = [r \in Runs |-> Idle]
    /\ cut = {}
    /\ dropped = {}

\* Time passes, and the influencer may post.
Tick(posted) ==
    /\ now < MaxTime
    /\ now' = now + 1
    /\ feed' = IF posted THEN feed \cup {now + 1} ELSE feed
    /\ UNCHANGED <<rows, watermark, task, cut, dropped>>

\* dispatch_run stamps the start of the run and reads the watermark the scrape will use.
Dispatch(r) ==
    /\ task[r].phase = "none"
    /\ task' = [task EXCEPT ![r] = [Idle EXCEPT !.phase = "dispatched", !.wm = watermark, !.run_ts = now]]
    /\ UNCHANGED <<now, feed, rows, watermark, cut, dropped>>

Newer(wm) == {p \in feed : p > wm}

\* What Apify answers: the top of the grid on a first run, else posts newer than the
\* watermark, in either case no more than asked for.  A creator may pin any post to the
\* top, so neither the choice nor the order is by date.
FetchSize(r) == IF task[r].wm = NULL THEN 1 ELSE Limit

Fetch(r, posts) ==
    /\ task[r].phase = "dispatched"
    /\ posts \subseteq Newer(task[r].wm)
    /\ Cardinality(posts) <= FetchSize(r)
    /\ Cardinality(posts) < FetchSize(r) => posts = Newer(task[r].wm)
    /\ task' = [task EXCEPT ![r].phase = "inserting", ![r].left = posts]
    /\ cut' = IF task[r].wm = NULL THEN cut ELSE cut \cup (Newer(task[r].wm) \ posts)
    /\ UNCHANGED <<now, feed, rows, watermark, dropped>>

HeldByOther(r, p) == \E q \in Runs \ {r} : p \in task[q].pending

\* Mutant: a conflict is reported as an insert.
InsertCountsConflicts(r, p) ==
    /\ task[r].phase = "inserting"
    /\ p \in task[r].left \ Uncovered
    /\ ~HeldByOther(r, p)
    /\ task' = [task EXCEPT ![r].left = @ \ {p}, ![r].pending = @ \cup ({p} \ rows),
                            ![r].new_items = @ \cup {p}]
    /\ UNCHANGED <<now, feed, rows, watermark, cut, dropped>>

\* ON CONFLICT DO NOTHING: only a row this transaction inserted is reported as new.
Insert(r, p) ==
    /\ task[r].phase = "inserting"
    /\ p \in task[r].left \ Uncovered
    /\ ~HeldByOther(r, p)
    /\ task' = [task EXCEPT ![r].left = @ \ {p}, ![r].pending = @ \cup ({p} \ rows),
                            ![r].new_items = @ \cup ({p} \ rows)]
    /\ UNCHANGED <<now, feed, rows, watermark, cut, dropped>>

\* No partition: conn.rollback() takes every earlier insert of this scrape with it, but
\* not what was counted for them.
InsertUncovered(r, p) ==
    /\ task[r].phase = "inserting"
    /\ p \in task[r].left \cap Uncovered
    /\ task' = [task EXCEPT ![r].left = @ \ {p}, ![r].pending = {}]
    /\ dropped' = dropped \cup task[r].pending
    /\ UNCHANGED <<now, feed, rows, watermark, cut>>

Commit(r) ==
    /\ task[r].phase = "inserting"
    /\ task[r].left = {}
    /\ rows' = rows \cup task[r].pending
    /\ task' = [task EXCEPT ![r].phase = "committed", ![r].pending = {}]
    /\ UNCHANGED <<now, feed, watermark, cut, dropped>>

\* Mutant: the watermark is the end of the scrape.
AdvanceToEnd(r) ==
    /\ task[r].phase = "committed"
    /\ watermark' = now
    /\ task' = [task EXCEPT ![r].phase = "over"]
    /\ UNCHANGED <<now, feed, rows, cut, dropped>>

\* The watermark is the start of the run; a slower run may set it back.
Advance(r) ==
    /\ task[r].phase = "committed"
    /\ watermark' = task[r].run_ts
    /\ task' = [task EXCEPT ![r].phase = "over"]
    /\ UNCHANGED <<now, feed, rows, cut, dropped>>

\* Apify or the database raises, Postgres breaks a cycle of waiting transactions, or the
\* worker dies: what is not committed is gone and nothing is reported.
Fail(r) ==
    /\ task[r].phase \in {"dispatched", "inserting", "committed"}
    /\ task' = [task EXCEPT ![r].phase = "failed", ![r].left = {}, ![r].pending = {}, ![r].new_items = {}]
    /\ UNCHANGED <<now, feed, rows, watermark, cut, dropped>>

\* POST /signals writes the same row through the same upsert, in a transaction of its own.
CreateSignal(p) ==
    /\ p \in feed \ Uncovered
    /\ \A r \in Runs : p \notin task[r].pending
    /\ rows' = rows \cup {p}
    /\ UNCHANGED <<now, feed, watermark, task, cut, dropped>>

Scrape(r) ==
    \/ Dispatch(r)
    \/ \E posts \in SUBSET feed : Fetch(r, posts)
    \/ \E p \in feed : Insert(r, p) \/ InsertUncovered(r, p)
    \/ Commit(r)
    \/ Advance(r)
    \/ Fail(r)

Next ==
    \/ \E posted \in BOOLEAN : Tick(posted)
    \/ \E r \in Runs : Scrape(r)
    \/ \E p \in feed : CreateSignal(p)

Spec == Init /\ [][Next]_vars

-----------------------------------------------------------------------------
\* Types, and that a transaction holds only rows nobody has committed or holds.
TypeOK ==
    /\ now \in Nat
    /\ feed \subseteq 1..now
    /\ rows \subseteq feed \ Uncovered
    /\ watermark \in 0..now
    /\ task \in [Runs -> [phase : Phase, wm : 0..now, run_ts : 0..now,
                          left : SUBSET feed, pending : SUBSET feed, new_items : SUBSET feed]]
    /\ \A r \in Runs : task[r].pending \cap rows = {} /\ \A p \in task[r].pending : ~HeldByOther(r, p)
    /\ cut \subseteq feed /\ dropped \subseteq feed

\* Among any number of scrapes that write one post, with POST /signals writing it too (whose
\* own answer counts for no run), at most one reports it as newly inserted, so
\* runs.inserted never counts a row twice and it is rated for one run; and what a finished
\* scrape reports is stored.  (Posts lost to a rollback aside: see CountsAreRows.)
ReportedOnce ==
    \A r \in Runs :
        /\ \A q \in Runs \ {r} : task[r].new_items \cap task[q].new_items \subseteq dropped
        /\ task[r].phase \in {"committed", "over"} => task[r].new_items \subseteq rows \cup dropped

\* Posts a first run leaves behind: it takes one post and starts the watermark there.
BeforeFirst(p) == \E r \in Runs : task[r].phase = "over" /\ task[r].wm = NULL /\ p <= task[r].run_ts

\* The watermark never runs ahead of what is stored: whatever was published up to it is a
\* row, however runs overlap, fail or finish in the wrong order, unless the limit cut it
\* off, its month has no partition, or a rollback dropped it.
WatermarkCovers ==
    \A p \in feed : watermark # NULL /\ p <= watermark =>
        p \in rows \cup cut \cup dropped \cup Uncovered \/ BeforeFirst(p)

\* The `inserted` column is commented "signals actually inserted" (20260709000001:33), and
\* scrape.py:105 says of a post without a partition "skip it".  The rollback there skips
\* the posts before it too, which stay counted.
CountsAreRows ==
    \A r \in Runs : task[r].phase = "over" => task[r].new_items \subseteq rows

=============================================================================
