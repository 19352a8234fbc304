# Influencer intelligence, specified

TLA+ modules for the concurrent parts of this repository, the TLC configurations that check
them on small instances, and machine-checked proofs in eight proof modules. Paths below are
relative to the repository root, which the project calls `src/`; `PROJECT.json` maps every
definition to the lines it models.

- [1. The system](#1-the-system)
- [2. Modules and code](#2-modules-and-code)
- [3. What is checked](#3-what-is-checked)
- [4. Bounds](#4-bounds)
- [5. Fairness](#5-fairness)
- [6. What is proved](#6-what-is-proved)
- [7. Where code and documentation disagree](#7-where-code-and-documentation-disagree)
- [8. What is not modelled](#8-what-is-not-modelled)
- [9. Plan](#9-plan)
- [10. Running it](#10-running-it)

## 1. The system

A watchlist of influencers is scraped by runs. The API accepts a run, Celery workers scrape one
influencer per task, each new post becomes a signal, each new signal is rated by a model, and a
browser watches the run over server-sent events. Beside it live a search and clustering layer
over embeddings, a chat agent and a weekly digest agent that read the results through the API,
a direct-messaging gateway, and scripts that create a preview environment per pull request.

| component | state | operations | interacts with |
|---|---|---|---|
| Run pipeline (`services/api/api/main.py`, `services/worker/worker/tasks.py`) | the `runs` row: status, four counters, two timestamps; Celery messages | `create_run`, `dispatch_run`, `scrape_influencer`, `finalize_run`, `rate_signal`, `_announce_rating` | Redis broker (chord), Postgres, pub/sub `run:<id>` |
| Run event stream (`main.py stream_run`) | a subscription and a snapshot per browser | subscribe, read the row, relay, close | pub/sub, the row |
| Signal write path (`scrape.py`, `signals.py`) | `raw_signals` (unique key), `influencers.last_scraped_at`, an open transaction per task | fetch, upsert, roll back, commit, move the watermark; `POST /signals` | Apify, Postgres, partitions |
| Rating store, cache, sweeps (`tasks.py`, `rating.py`) | `signal_ratings`, one row per content hash | probe, call the model, store, retry, sweep | embeddings, model provider, Celery beat |
| Embedding layer (`embedding.py`, `tasks.py`, `backfill.py`) | `signal_embeddings`, one row per content hash; a transaction with row locks per backfill | embed on probe, by sweep, by command | embedding provider, Celery beat |
| Chat gateway (`services/chat`) | `conns` and a subscriber task per instance; `msg_messages` | accept, send over WebSocket or REST, publish, deliver, history | Redis channel, Postgres |
| Preview environments (`preview-env.yml`, `railway-preview.py`, `agentctl.py`) | the pull request's label; the Railway environment; agent, deployment, credentials | `up`, `down`, `deploy`, `teardown` | GitHub concurrency group, Railway, agent control plane |
| Digests (`main.py`, `digests.py`) | `digests` row | create, deliver, stream | the managed agent |
| Search, clusters (`search.py`, `clusters.py`) | none; each request reads several snapshots | rank fusion and hydration, greedy clustering | embeddings, ratings |
| Chat agent (`services/agent`, `services/agent-ts`) | the conversation of a turn, the event stream | `run_agent`, the tools, the SSE response | model provider, API |
| Migrations (`packages/core/db`) | `schema_migrations` and the schema | apply pending files before a deploy serves | Postgres, Railway deploys |
| Variable sync (`infra/railway-env.py`) | `.env`; the variables of each Railway service | `sync`, `list` | Railway API, deploys |

What is hard, and what each component has to get right (the hazards, with their lines, are in
`PROJECT.json`):

- **Run pipeline.** Rating tasks start while other scrapes run, the fan-in reads the row while
  ratings bump it, and three different tasks may be the one that ends the run. Workers
  acknowledge a task before they run it, publishes may raise, and the row and the queue are two
  systems. The run must end exactly once, for the right reason, with counters that mean what
  they say.
- **Event stream.** Pub/sub has no history. A browser that comes and goes must still see every
  delta, in its snapshot or on the wire, and its stream must end.
- **Signal write path.** Runs overlap on an influencer, each with a watermark read earlier.
  A post is one row, reported as new once, and the watermark covers only what is stored.
- **Rating store.** Deliveries race on a hash, copies are made of copies, the sweep retries the
  same batch. The first rating stays, it is grounded in a model's answer for near content, and
  a backlog drains.
- **Chat gateway.** One registry per instance, handlers that outlive their sockets, a bus
  without memory, retries with the attempt they repeat still running. Stored before heard, once,
  and never missed by a client that connects and then reads the history.
- **Embedding layer.** Backfills hold row locks across provider calls of minutes while tasks
  and other backfills insert the same hashes. No circle of waits, no vector counted twice, and
  what failed gets its vector from a later sweep.
- **Search and themes.** The statements of a request see different snapshots of a corpus that
  grows. Fusion must put agreement first, no hit that has a row may be lost on the way to it, and the
  clusters must not depend on the order Postgres returns rows in.
- **Chat agent.** A generator that a response pulls, with a client that may go at any event and
  tools whose effect outlives their answer. Every call is answered in the next message, no run
  starts unannounced, and the stream is well formed and ends.
- **Production release.** A sync without a transaction, deploys that migrate one database side by
  side. Services agree on what they share, the ledger never claims too much, and code never
  serves ahead of its schema.
- **Preview environments.** Jobs of several remote calls each, any of which fails, driven by
  events that cancel one another, through a client that repeats a request whose effect it does not
  know. What an `up` or a `down` leaves must not depend on how earlier jobs ended.

## 2. Modules and code

### Run pipeline: `RunLifecycle`, `RunPipeline`, `MCRunPipeline`, `RunPipeline_proofs`

`RunLifecycle` is the promise: a status, a set of open scrapes, a set of open ratings; the run
leaves `running` when the first set is empty and is `completed` when both are. It knows no
counters, queues or messages.

`RunPipeline` is the code. Its variables are the row, the hand-off (`sender`, `dispatch`,
`header`), a phase per scrape task, the chord callback's phase, and a phase and retry count per
rating task. Each SQL UPDATE is one step and each publish another, because a task can die
between them and others run in between:

| actions | code |
|---|---|
| `CreateRun`, `SendDispatch`, `SendLost` | `create_run`: insert and commit, then `send_task`, which may not happen |
| `DispatchTotal`, `DispatchChord`, `DispatchDies` | `dispatch_run`: the watchlist is read again, `total` rewritten, the chord sent |
| `ScrapeStart`, `ScrapeCount`, `EnqueueRating`, `ScrapePublish`, `ScrapeReturn` | `scrape_influencer`: the guarded move to `running`, the scrape and its counter UPDATE, the rating tasks, the progress message, the return that lets the chord count it |
| `FinalizeRefresh`, `FinalizeUpdate`, `FinalizePublish` | `finalize_run`: rollup refresh, the UPDATE whose CASE reads the counters, `scrape_done` and possibly `done` |
| `RateRetry`, `RateAnnounce`, `RatePublish` | `rate_signal` to `_announce_rating`: one bump per signal, conditional completion, `rating` and possibly `done` |
| `...Dies`, `ScrapePublishRaises` | a killed worker, or an exception out of the task: acknowledged early, so gone |

What a scrape finds is any set of hashes; whether a model answers is a choice. One run: runs
share no state but the rating store, which has its own module.

### Run event stream: `RunStream`, proofs in `RunPipeline_proofs`

EXTENDS `RunPipeline` and adds, per browser, a phase (`stream`), the row it was shown
(`snapshot`), the messages buffered in its subscription (`inbox`) and a history variable
(`missed`) that counts what was published before it subscribed. `Subscribed`, `Snapshot`,
`Relay`, `Disconnect` are `stream_run`; a publish of the pipeline goes to every subscribed
browser in the same step.

### Signal write path: `SignalWrite`

One influencer, several runs. A post is the instant it was published. `Dispatch` stamps the run
and reads the watermark, `Fetch` takes what Apify may return, `Insert` is one
`insert_signal` inside the task's transaction (it waits while another transaction holds the
key), `InsertUncovered` is the `CheckViolation` branch with its `conn.rollback()`, `Commit`,
`Advance`. `CreateSignal` is the API: its row is modelled, its answer, which counts for no run, is not. `cut` and `dropped` are history variables: posts lost to
the limit and to a rollback.

### Rating store: `RatingStore`, `MCRatingStore`, `RatingStore_proofs`

Deliveries of `rate_signal` (in `Slots`) against a shared store. A row remembers its `donor`,
the hash it was copied from, and its `origin`, the hash whose caption the model judged; both
are the hash itself when the model answered for it. `Near` says which captions are within
`_CACHE_MAX_DISTANCE`. `Posted` and `Scraped` bring content; the post of a scrape may be one that a
later post's rollback has undone, and is rated all the same, without a row of `raw_signals`
(`signal_ratings` does not refer to it). `Sweep` is the selection of `sweep_unrated` (only content of
source `instagram`, a batch in the order of the hashes) and `Enqueue` its loop of `delay` calls.
`CacheHit`, `CacheMiss`, `ModelAnswers`, `ModelFails`, `Store`, `Dies` are the task; `Embed` stands
for `embed_signal`, the embedding sweep and the backfill.

### Chat gateway: `ChatGateway`, `MCChatGateway`, `ChatGateway_proofs`

Instances with their `conns` and `subscriber`, sockets in the order they were accepted, a
mailbox per instance (what its subscriber has still to deliver), the message table, and one
attempt per pass through `persist_and_fanout`. Code between two awaits of one event loop is one
step. `StoreOnce`, `Publish` and the answer are three steps, so an instance may die between
them; a delivery walks the recipients one `send_text` at a time.

### Preview environments: `PreviewEnv`, `PreviewEnv_proofs`

The webhook events of one pull request start workflow runs; `Start` is the concurrency group
(one running, one pending, a newer event cancels the pending one); `OtherLabel` is the event of another
label, whose run has nothing to do and enters the group like any other. A lookup and the creation after
it are two steps, and `Fail` may stop a job between any two. Calls that repeat one setting are one step:
`Retarget` (a trigger or a service each), `DeployServices` (a service each), `EnsureCredential` (its
lookup and its creation, of a name nobody else uses). Stopping between such calls leaves nothing that a
later `up` relies on, since it makes all of them again.

`gql` sends a request again, four times at most, when it ended in an HTTP error, and does not know
whether it took effect. `CreateEnv` and `EnsureDomain` therefore make up to `Calls` environments or
domains, and the job goes on with the one its last request answers with. A request whose last attempt
raises is a creation followed by `Fail`. `ant` repeats nothing. Objects of Railway and of the control
plane are sets, so two of one name are seen.

### Embedding layer: `Embedding`, `Embedding_proofs`

`Scraped` is a scrape that enqueues the embedding of a post, whose row a rollback may have undone by
then (`signal_embeddings` has no foreign key, so a vector may have no post); `Arrive` is a post nothing
is enqueued for; `BeatTick` is `sweep_unembedded`; `Check`, `Answered`, `Refused`,
`StoreTask` and `Dies` are `embed_signal` with its retries, one transaction per task. `Start`,
`Vectorised`, `Insert`, `Commit`, `Abort` and `Crash` are `backfill()`: it selects once, calls the
provider for one row while the rows before it are inserted and not committed, and commits every
`Chunk` rows. An inserted row is `held` until then, and whoever inserts the same hash waits.

### Hybrid search: `Listings`, `Fusion`, `Search`, proofs in `Embedding_proofs`

`Fusion` is reciprocal rank fusion of two lists, with exact fractions for the scores: `Score`,
`Before` (highest score, then id), `Fused`, and `Hits`, the first `limit` of them whose row is found.
`Listings` has the two operators on lists that it shares with `Themes`: a set in an order (`Sorted`) and
the members of a list at some positions (`Kept`).
`Search` EXTENDS `Embedding` and `Fusion`: a search is `EmbedQuery` (or `QueryFails`),
`FtsCandidates`, `VectorCandidates`, `Hydrate`, three statements that read what the scrapes, tasks and
backfills of `Embedding` have written and committed by then, and go on writing in between. The scores
of Postgres are replaced by any list they may lead to.

### Themes: `Themes`, `Retrieval`, `MCRetrieval`, proofs in `Embedding_proofs`

`Themes` EXTENDS `Embedding`: `CountRated` and `Cluster`, with `GreedyCluster` as the outer loop of
`greedy_cluster` (a recursive function of the number of rows visited) and `Absorb` as the inner one,
over rows that repeat a hash once per influencer. Which posts are rated by then is
arbitrary (`RatingStore` says how they come to be), and so are relevance and closeness.
`Retrieval` runs the search and the themes over one corpus.

### Chat agent: `AgentTurn`, `AgentTurn_proofs`

One `POST /chat`. `Pull` and `Leave` are the response and its client; `Text`, `ModelRaises`,
`NoFinal`, `Done` and `AskTools` are what a streamed reply may turn into; `Send`, `ToolResult`,
`NextCall`, `NextTurn` and `Exhausted` are the tools and the turn limit. Every event is a `yield`,
so the generator stands still until it is pulled again. `ApiFinishes` commits a run that
`trigger_run` asked for, perhaps after the tool's 30 seconds are over or the client is gone.

### Production release: `EnvSync`, `Migrate`, `Release`, `MCRelease`, `Release_proofs`

`EnvSync` is `cmd_sync`, one action per call to Railway, over the variables of the real manifest
(`Observed` selects the ones followed), with an operator who edits `.env` and creates services
between syncs. `Migrate` is `migrate.py` as several deploys run it at once: `Read` takes the list of
pending files, `Apply` runs one (in its transaction, or statement by statement outside of
one), `Record` writes the ledger, `Fail` stops it anywhere, `Serve` swaps the code. `Release` runs
the two side by side: `Migrators` are the services with a `preDeployCommand`, and a migration reads the
database only where `DATABASE_URL` is set and not blank by then (`Configured`).

## 3. What is checked

| run | states | shows |
|---|---|---|
| `pipeline` | 156,213 | every fault at once: exact counters, `completed` means drained, `done` only after the row is terminal and at most once, terminal rows are final, a run is stranded only by a lost task; the inductive invariant; refinement of `RunLifecycle` |
| `stream` | 66,154 | browsers at any moment of a run that loses no task: no delta falls between subscription and snapshot, a stream ends only on a terminal row and always ends, and the run itself closes and announces it |
| `signals` | 622,301 | three overlapping runs and POST: a post is reported new once, the watermark covers only what is stored or named as lost |
| `ratings` | 103,878 | two deliveries at once over three captions, with dying tasks, rolled-back posts and a hash that always fails at the front of the sweep: first rating stays, every copy grounded, the instagram backlog drains |
| `chat` | 381,766 | two instances, two users, one message with a retry, faults of every kind: newest socket registered, stored once, nothing missed |
| `preview` | 380,300 | four events with failures anywhere and creations sent twice: no two jobs create the same thing, an `up` that ends well is whole, a `down` that ends well leaves only the surplus of a repeated creation, other leaks only through a lost `down` |
| `embedding` | 31,720 | an embed task and two backfills with overlapping locks: waits never close a circle, no vector is counted twice, instagram content gets its vector in the end |
| `retrieval` | 61,815 | every pair of rankings, every closeness relation and relevance of three posts while they are scraped and embedded: agreement comes first, no hit is lost but those of vectors without a post, the greedy clusters are the one cover led by the strongest posts |
| `agent_turn` | 88,084 | a turn with a client that leaves, tools that fail or time out, a model that stops anywhere: calls answered, effects announced, stream well formed and ended |
| `release` | 1,012,872 | syncs cut off anywhere beside deploys of any release in any order, with a blank address among the values: shared variables agree, the ledger is true, no code ahead of its schema |
| `chat_subscriber`, `rollback` | | counterexamples; see section 7 |

Type invariants of modules with a proof are proved rather than listed in a run.
Every property of a passing run is broken by at least one mutant of a mapped definition: the
operators marked "Mutant" stand beside the definition they would replace and are used by
nothing else.

The properties that a reviewer would argue about:

- `StrandedOnlyByLoss` (RunPipeline). `finalize_run` decides between `rating` and `completed`
  in SQL, from the counters at that instant. Reading them earlier would leave a run in `rating`
  with nobody left to end it. The property says that a quiet, unfinished run has lost a task.
- `SnapshotCoversMissed` (RunStream). Subscribe before snapshot, UPDATE before publish: both
  orders are needed, in two processes.
- `WatermarkCovers` (SignalWrite). The watermark is the dispatch time, not the end, of the
  scrape, and runs finish in any order.
- `NothingMissed` (ChatGateway). An acknowledged message is with, or on its way to, every
  recipient that connected and then read the history, across instances, restarts and retries.
- `NoLockCycle` (Embedding). Two backfills may wait for each other's uncommitted rows only in one
  direction, because both insert in the order of their selection. `--limit` and `--source` select
  different rows, and the order is what is left to rely on.
- `CountedOnce` (Embedding). Insert-or-skip decides who counts a row, in one transaction for a task
  and in one that is still open for a backfill, which may yet be rolled back. The property asks for an
  attribution: to each counted vector a row of its own. An upper bound on the sum would let one
  counter be too high while another is too low.
- `AgreementFirst` (Search). A hit of both rankings precedes every hit of one, as long as the
  pool is no deeper than the constant of the fusion plus one (50 and 60 in the code).
- `StrongestCover` (Themes). The two loops give the one cover that a declarative reading
  allows, whatever the order of equal rows and however often a hash repeats.
- `EffectsAnnounced` (AgentTurn). The event is yielded before the tool runs; a client that leaves
  on it closes the generator, and the run is not started.
- `SchemaNeverClaimed`, `CodeAfterSchema` (Migrate). Deploys that read one pending list apply a
  file twice or find it half done; a ledger that named a file too early would let code serve.
- `UpEndsWell`, `DownLeavesNothing` (PreviewEnv). Idempotence of scripts whose earlier
  executions stopped anywhere. The surplus environments of a repeated `environmentCreate` are the
  exception that `DownLeavesNothing` and `OneOfEach` name; see section 7.
- `NothingVanishes` (Search). Three snapshots, and a corpus of vectors that is not the corpus of
  posts: what is missing from an answer is at most what had no post when the vectors were ranked.
- `BacklogDrains` (RatingStore). Beside tasks that die, and behind a hash that fails at every tick.

## 4. Bounds

| run | instance | why it is enough |
|---|---|---|
| `pipeline` | two influencers, two hashes, one retry, at most four signals | two scrapes are needed for a rating to land before the fan-in, two ratings to race on the last bump; one retry separates a retried from an abandoned attempt. The theorems hold for every number |
| `stream` | two influencers, one hash, one browser that may return any number of times | browsers do not interact |
| `signals` | three runs, three instants, the last without a partition, limit 2 | two runs that overlap and a third that finishes between. The limit never cuts anything off in three instants; with four and two runs it does, and both properties hold (145,906 states). The theorems hold for any limit |
| `ratings` | three captions, the ends of the chain too far apart; 1 and 3 are instagram, 1 is never rated; two slots, batch 2, no retry | a chain of two copies is the shortest that drifts; two slots make a race; with batch 2 the hash that always fails takes half of every sweep. A retry is a delivery that comes back, as the sweep's are; the `pipeline` run has retries, and the theorems hold for any `MaxRetries` |
| `chat` | two instances, two users, two sockets, two requests, one message | a retry through the other instance, a reconnect beside an old handler. Three requests (4.3 million states) and two messages (2.1 million) were checked as well and hold |
| `embedding` | four hashes (1 instagram without a caption, 2 instagram, 3 and 4 not), one task slot, two backfills, `Chunk` 2, one retry, scrapes that bring hash 2 | a circle of waits needs two backfills that hold a row each before they wait, which `Chunk` 2 allows; three rows cross a commit; the slot meets their locks. Two slots over three hashes without a retry hold as well (54,888 states) |
| `retrieval` | three hashes, one brought by a scrape, one shared by two influencers, one slot, no backfill, `K` 2, `Pool` 3, limits 1 and 3; one request (`OneRequest`) | `Pool` = `K` + 1 is the deepest for which agreement wins, as 50 < 61 in the code; a limit below and one above what is found; three posts make every shape of a closeness relation that separates a seed's from a member's neighbour. Requests only read, so two show nothing more. The search with a backfill beside it holds as well (467,695 states), and its theorems hold for every pool, limit and corpus |
| `agent_turn` | three turns of two calls | two calls separate the first, a next and the last of a turn; the third turn ends at the limit. The theorems hold for every number |
| `release` | `api`, `agent`, `messaging`; `DATABASE_URL` (an address or blank), `SYSDESIGN_API_KEY`, `LANGSMITH_API_KEY` (optional); two files, one outside a transaction; `BesideSync` | two pairs of services that share a variable, two that migrate and race. While a sync is under way, `BesideSync` leaves deploys idle or about to look at the variables, the one step of theirs that a sync can disturb; the later steps read nothing the sync writes, and the theorems have no such constraint. They hold for any services and variables of the manifest in the code, any values and any files |
| `preview` | four events, two domains, `Calls` 2 (4 in the code) | `up`, failed `down`, `up`, `down`; two requests are enough for a look-alike. The theorems hold for any number of each |

`OneRequest`, `MaxTime`, `MaxSockets`, `MaxRequests`, `MaxEvents`, `MaxCalls` and `Slots` are the only bounds on
behaviours (`MaxTurns`, `MaxRetries`, `Calls`, `Pool`, `Chunk` and `Batch` are the code's own limits, made small; `BesideSync` is a constraint on states), and each appears in the guards it limits. Deadlock is checked in `stream`, where
TLC's own stuttering would hide a stuck run; elsewhere the system may really stop (the counters
of the model are exhausted, a task was lost).

## 5. Fairness

- `RunPipeline.Fairness`: weak fairness of each task's next step. A Celery worker that is up
  takes the next message, and a task's steps are its own to take. No fairness for the API
  client, for a worker's death or for a failing publish.
- `RunStream.FairStreamSpec` adds weak fairness of each open stream's own steps. A browser is
  never obliged to connect or to leave.
- `RatingStore.FairSpec`: the beat ticks and workers take steps (weak); a sweep ends also when scrapes
  keep taking the slots (strong: the code's queue has no end, the slots of the model have). A task for
  one instagram hash that comes back tick after tick is not killed every time, and a provider asked
  again and again for one caption (not in `Poison`) answers validly sometimes (strong, per hash). The
  sweep is what asks again, so nothing of the kind is asked of content it does not select.
- `Embedding.Fairness`: tasks and backfills that run take steps (weak); the beat ticks, also when
  scrapes keep taking the slot (strong, because the code's queue has no end and the slots of the model
  have); a task for one
  instagram hash that comes back tick after tick is not killed, refused or kept from the lock every
  time (strong, per hash). Nobody has to start a backfill. The strong part is what the sweep is
  there for, and it can be asked only of content that the sweep selects.
- `AgentTurn.Fairness`: the response pulls and the thread runs on (weak), because every HTTP call
  has a timeout; a streamed reply has at most `MAX_TOKENS` tokens, so its text ends (strong on
  `ModelEnds`, which text may interrupt without end otherwise).
- The other specifications are checked for safety and carry none.

## 6. What is proved

`RunPipeline_proofs` (TLAPS, SMT, Zenon and LS4), for every finite set of influencers and
hashes, every retry limit and every subset of faults (`PipelineAssumption` is all that is
assumed):

| theorem | statement |
|---|---|
| `TypeCorrect` | `Spec => []TypeOK` |
| `Invariance` | `Spec => []IInv` |
| `CountersCorrect` | `Spec => []CountersExact` |
| `CompletionIsDrained` | `Spec => []CompletedMeansDrained` |
| `TerminalRowAndMessage` | `Spec => [](FinishedIffTerminal /\ DoneMatchesRow)` (`finished_at` is set exactly on a terminal row) |
| `OnlyLossStrands` | `Spec => []StrandedOnlyByLoss` |
| `TerminalStays` | `Spec => TerminalIsFinal` |
| `PipelineImplementsLifecycle` | `Spec => ImplementsLifecycle`, the refinement of `RunLifecycle` |

None of the properties is inductive by itself. `IInv` adds what they lean on: tasks exist only
downstream of what sends them (`ChordInv`); a rating task stands for a signal already counted in
`inserted` (`RatingInv`), which is what makes `rated_count < inserted` mean that a rating is
still to come; the callback's phase tells which half of its life the status is in (`RowInv`); the
first started scrape moves the row (`BegunInv`); at most one task owes `done` (`DoneInv`); and
whatever has to follow has been sent (`HandedOn`), which gives `StrandedOnlyByLoss`. There is
one lemma per action; each shows the conjuncts its action can disturb. The delicate one is
`RateAnnounce`: the bump that makes `rated_count` equal `inserted` must be that of the last
element of `NewSignals \ CountedRatings`, a fact about cardinalities (`LastRatingCounted`).

The refinement maps the open scrapes to `header \ CountedScrapes` and the open ratings to
`NewSignals \ CountedRatings` (none when rating is off). Every step of the pipeline is a
lifecycle step or leaves the mapped variables alone; the fan-in step needs `ChordInv` and
`CountersExact` to know that the sets are empty exactly when the integers say so.

Of the event stream, in the same module and for any number of browsers:

| theorem | statement |
|---|---|
| `StreamsOnlyWatch` | `StreamSpec => Spec` |
| `StreamTypeCorrect` | `StreamSpec => []StreamTypeOK` |
| `RefreshLosesNothing` | `StreamSpec => []SnapshotCoversMissed` |
| `OverIsDurable` | `StreamSpec => []EndedMeansTerminal` |

`StreamsOnlyWatch` carries everything proved of the pipeline over to the composition. `StreamInv` adds
what relates the wire to the row: messages lag behind the row (`MessageInv`: one `progress` per scrape
that published, at most one `rating` per rating task that is over, both counted before they were sent);
so whatever was sent before a subscription is in a row read after it (`SnapshotInv`); and no snapshot
and no buffered `done` is ahead of the row, whose terminal status stays (`BehindRowInv`). Swapping
either order, subscribe and snapshot or UPDATE and publish, breaks a conjunct.

`RatingStore_proofs`, for any set of hashes and near pairs, any number of task slots, retries and
any batch (`StoreAssumption`):

| theorem | statement |
|---|---|
| `StoreTypes` | `Spec => []TypeOK` |
| `EveryRatingGrounded` | `Spec => []RatingsGrounded` |
| `FirstRatingWins` | `Spec => FirstRatingStays` |

`TypeOK` and `RatingsGrounded` are inductive together (`StoreInv`). `RatingsGrounded` speaks of the
ratings that tasks hold as well as of those in the table (`TypeOK` says which tasks hold one), because a copy is taken in one
transaction and stored in another: between the two its donor must keep the rating it had, which
it does since `Store` (`StoreStep`) writes only where there is none.

`SignalWrite_proofs`, for any set of runs, any limit and any months without a partition
(`WriteAssumption`):

| theorem | statement |
|---|---|
| `WriteInvariant` | `Spec => []IInv` |
| `NewlyReportedOnce` | `Spec => []ReportedOnce` |
| `WatermarkNeverAhead` | `Spec => []WatermarkCovers` |

`WatermarkCovers` looks at one number, but the number was stamped when a run began and is written
when it ends, over one that another run may have written since. `Windows` says what makes that safe:
what came up to the watermark a scrape has *read* is accounted for, and once it has fetched, so is
what came up to the start of its run, but for the posts in its hands. `Holding` says what is in a
scrape's hands and what it has counted. Ten actions share one lemma (`ScrapeMoves`: one task moves,
nothing that is stored or lost is forgotten); only the clock has an argument of its own.

`Embedding_proofs`, for any hashes, chunks, limits and any number of backfills and tasks
(`EmbeddingAssumption`):

| theorem | statement |
|---|---|
| `FillInvariant` | `Spec => []TypeOK` |
| `BackfillsNeverDeadlock` | `Spec => []NoLockCycle` |
| `RowsCountedOnce` | `Spec => []CountedOnce` |

`TypeOK` carries `FillOK`, which is inductive: every row a backfill holds comes before every row it
has still to insert, is not in the table, and is nobody else's. If b waits for a row of c, that row
lies before all that c has still to insert, and this is `NoLockCycle`. That the next row exists is a
least element, taken from the well-foundedness of < on Nat. `CountedInv` is the attribution of
`CountedOnce`, with more said of it: what the tasks counted is committed, what a backfill counted is
committed or held by it. A held row is nobody else's and not in the table, so a task that finds its row
new, or a backfill that inserts one, gets a row that nobody has counted.

Of a search, in the same module, for any `K`, any pool no deeper than `K` + 1, and any limit
(`FusionAssumption`, `SearchAssumption`), over the corpus of `Embedding`:

| theorem | statement |
|---|---|
| `FusedIsRanking` | `Fused(f, v)` lists every candidate once, in the order of the scores |
| `AgreementWins` | `AgreementLeads(f, v, Fused(f, v))` |
| `SearchInvariant` | `SearchSpec => []SearchInv` |
| `HitsKeepTheirRows` | `RetrievalSpec => []NothingVanishes`: what is missing is at most `Orphans` |
| `AgreementAnswered` | `RetrievalSpec => []AgreementFirst` |

The scores are fractions that are compared by cross-multiplying, and the provers have no nonlinear
arithmetic, so the section starts from products of naturals (`TimesMore`, `MoreOrders`). Two ranks
within the pool beat any single one because (K+1+K+1)(K+1) is at least (K+1)(K+1) plus what the
deepest ranks lose (`TwoBeatOne`); this is where `Pool <= K + 1` is used. `Before` is a strict total
order (`BeforeOrders`), a finite set that is ordered can be listed (`SortExists`, a least
counterexample in its size), and so `Fused` exists and is a bijection. `SearchInv` adds that what
the words found, and what had a post when the vectors were ranked, is still in the corpus, which only
grows (`CorpusGrows`), so that only a vector without a post can lose its row;
`ThemesOnlyRead` brings in the requests for themes.

Of the themes, in the same module, for any finite set of posts, any ratings, any symmetric closeness and
any number of influencers per post (`ThemesAssumption`):

| theorem | statement |
|---|---|
| `ThemesCover` | `RetrievalSpec => []StrongestCover` |
| `SplitIsUnique` | two splits that satisfy `Covers` over the same posts have the same leaders and clusters |

`greedy_cluster` is a recursion over the rows, so its invariant `Looped` is carried from row to row
(`VisitKeeps`): the rows so far are assigned; each cluster is led by one of them, holds only what is near
the leader and behind it, and leaders get weaker; and whatever is near a leader went to its cluster *or
to an earlier one*. `Covers` alone is not inductive, since a post that a later leader has not met yet is
still unassigned; the last conjunct, with disjointness, gives at the end that nothing near a leader is
in a later cluster (`LoopedCovers`). The library's induction theorems cannot be used here, so the two
inductions are least counterexamples (`LoopExists`: the recursive function has a value; `GreedyLoops`).
`Absorb` takes the first row of each hash (`AbsorbFacts`, again a least element). `OrderedRows` says
that the joined rows, of which there are finitely many, can be sorted at all. `WeekInv` carries the
result from the statement that reads the rows to every later state. `SplitIsUnique` follows from
`WhoLeads` (a post leads exactly when no stronger leader is near it): two splits cannot first differ at
any post. Together they say that neither the order of equal rows nor a repeated post changes an answer.

`AgentTurn_proofs`, for any turn limit and any number of calls (`AgentAssumption`):

| theorem | statement |
|---|---|
| `TurnInvariant` | `Spec => []IInv` |
| `EveryCallAnswered` | `Spec => []CallsAnswered` |
| `NoSilentEffect` | `Spec => []EffectsAnnounced` |
| `StreamIsWellFormed` | `Spec => []StreamGrammar` |

The properties are about the past (`messages`, `sent`); `IInv` ties them to the place the generator
stands at: the last message holds the calls being answered (`Asking`), the call being run was the
last event (`Owed`), and between calls the last event was a result (`Calm`). The latter two are
asked only while somebody pulls or listens, since a generator that is left is not resumed.

`Release_proofs`, for any services and any variables of the manifest, each service with at least one,
and any values, blank ones among them (`EnvAssumption`), and for any files (`ReleaseAssumption`):

| theorem | statement |
|---|---|
| `ReleaseInvariant` | `RSpec => []RInv` |
| `SharedStayAlike` | `RSpec => []SharedAgree` |
| `RecordedWasApplied` | `RSpec => []SchemaNeverClaimed` |
| `SchemaComesFirst` | `RSpec => []CodeAfterSchema` |

`RInv` is the conjunction of an invariant of the sync (`EInv`: the services and names it has passed
are pushed, and what it remembers of the service it is at is still true or already replaced), one of
the deploys (`DInv`: the files a deploy has left behind are in the schema, also when another deploy
put them there). Each step of one half leaves the other
half's variables alone, so there is one lemma per action and one for the composition.

`PreviewEnv_proofs`, for any number of events, jobs, failures, cancellations and repeated requests
(`PreviewAssumption`):

| theorem | statement |
|---|---|
| `NoLookAlikes` | `Spec => []OneOfEach` |
| `LeaksAreLosses` | `Spec => []LeakedOnlyByLoss` |
| `UpsEndWell` | `Spec => UpEndsWell` |
| `DownsLeaveNothing` | `Spec => DownLeavesNothing` |

A script looks a name up and creates what it did not find, in two calls. What makes that safe is the
concurrency group: at most one run executes, and those after it have not begun (`GroupInv`). So what a
job has looked up or set stays so for the rest of it (`UpKnows`, `DownKnows`), and one of each name is
all there can be (`OneInv`), but for environments, which are those of one job's repeated request
(`EnvInv`); a `down` that has deleted the one it found leaves a surplus at most. For the leaks, `LabelInv` says which run was asked to clean up when the
label went, and `CleanInv` that a `down` that ended well is undone by no run that has nothing to do.
`JobKeeps` is the lemma all the steps of a job share.

`ChatGateway_proofs`, for any number of instances, users, sockets, messages, attempts and crashes
(`GatewayAssumption`):

| theorem | statement |
|---|---|
| `GatewayTypeCorrect` | `Spec => []TypeOK` |
| `NewestStays` | `Spec => []NewestIsRegistered` |
| `PersistThenDeliver` | `Spec => []StoredOnceThenHeard` |
| `NoGap` | `Spec => []NothingMissed` |

`NothingMissed` speaks of acknowledged messages, and the acknowledgement is not what delivers one: the
publish before it is. `PublishedInv` therefore says it of every message with an attempt that has
published, for each client that can be reached; `CommittedInv` says that such a message is a row already,
so that a client which connects later finds it in the history. Registries and mailboxes exist only in
processes that are up (`TypeOK`), so a restart leaves nobody who could have missed something.

Model-checked only: liveness everywhere, which is out of the prover's reach (`StreamEnds`, `RunCloses`,
`DoneIsAnnounced`, `BacklogDrains`, `EmbedBacklogDrains`, `ResponseEnds`). Every other property of a
passing run is a theorem. Of pure functions, the order and cut of the answered themes (`Leading`, a
library sort) is run by TLC and has neither property nor theorem.

## 7. Where code and documentation disagree

Two are runs with `expect: violation` and a finding that quotes the line.

- `chat_subscriber`. The subscriber "runs for the life of the process", but a `send_text` to a
  client that left raises out of it.
- `rollback`. A post without a partition is to be skipped; the rollback skips the posts before
  it too, after they were counted.

Met on the way, and not kept as runs:

- `scrape_influencer` says it never raises, but it publishes outside its `try` (tasks.py:110); a
  Redis error there fails the chord's header and the run stays `running`. The `pipeline` run has
  the fault, and `StrandedOnlyByLoss` names it.
- The cache is for near-duplicates of what was judged; a copy is a donor like any other
  (tasks.py:305), so that copies of copies drift away from what the model saw. `RatingsGrounded`
  claims nearness to the donor only.
- The docstring of `sweep_unrated` (tasks.py:388-391) has a backlog drain gradually. Hashes that always
  fail hold its front for ever (tasks.py:407): once a whole batch of them (50 in the code) is ahead of
  a hash, no sweep reaches it. `BacklogDrains` is claimed for what has fewer of them before it
  (`Reached`), and nothing of the rest.
- A post that a scrape's rollback undid is rated and embedded all the same (scrape.py:106,
  tasks.py:96-107). Neither `signal_ratings` nor `signal_embeddings` refers to `raw_signals`, so the
  rating and the vector stay without a post. The vector is ranked by `_vector_candidates`, `fused` is
  cut to the limit, and then `_hydrate` finds no row: a search returns fewer hits than were asked for
  although there are more (search.py:165-170). `NothingVanishes` bounds the loss by `Orphans`.
- railway-preview.py:19 calls what `up` does "all idempotent", and the header of preview-env.yml says
  "Remove the label -> environment deleted". `gql` repeats `environmentCreate` after an HTTP error that may
  have come too late to stop it (railway-preview.py:94-104); `down` deletes the first environment of
  the name alone (210-217), so another of that name outlives it and the next `up` may adopt it.
  `OnlySurplus` names exactly these.
- Removing the label deletes the environment; a workflow run with nothing to do cancels the pending
  `down` (preview-env.yml:21). `label`, then `unlabel` and `close` while `up` runs, is enough.
  `LeakedOnlyByLoss` names it.
- `railway-env.py` refuses "to sync a blank", and tests for a key that is missing; a line `KEY=` is
  present, and its blank is pushed over whatever Railway has (railway-env.py:237-239). .env.example:21
  ships `DATABASE_URL_SUPABASE=`, which is pushed to `DATABASE_URL`. `MCValues` has that blank, so no
  property says that a sync leaves a service its address: it may take it away. The next deploy then
  fails in migrate.py:56-59, and `CodeAfterSchema` holds.
- `get_signal_clusters` reports `embedded` beside `rated_in_window`; the join repeats a hash that
  several influencers posted, so the part may exceed the whole (clusters.py:209).
- The worker's `railway.json` runs no migration before it deploys, unlike that of the API and of
  messaging, so its code may be ahead of its schema. `Migrators` are the services that do migrate.
- A reply that stops at `max_tokens` may hold calls that nobody answers; the turn is over then, and
  only a conversation sent along afterwards would carry it (loop.py:122). `AgentTurn` ends such a turn
  in `Done` and does not tell a half call from a whole reply.
- The comment of the `runs` migration (20260709000001_runs_table.sql:7-8) has the stream read the row
  and "THEN" subscribe. main.py:444-446 subscribes first, as it must: `SnapshotCoversMissed` fails the
  other way round. The comment is stale.
- The docstring of `stream_run` (main.py:418-420) has `rating` events arrive after
  `scrape_done`. A rating task of the first scrape may announce before the second scrape is done.
- docs/module-2.md:710-711 has `failed` mean that all tasks errored. A rollup refresh that
  raises fails the run as well (tasks.py:144-150).
- An exception that is not a `RatingError` (a truncated JSON body, a reset connection) leaves
  `rate_signal` without `_announce_rating`, and the run stays in `rating`. The `escape` fault of
  `pipeline` includes it, and `StrandedOnlyByLoss` names it.
- `stream_run` relays a `done` it may never hear: if that publish fails after the terminal
  UPDATE, open streams wait and a reconnect ends them.
- docs/module-2.md:341-343 says of the chord that "no single crash loses the run"; with early
  acknowledgement a worker that dies inside a header task does lose it.
- The update of a preview agent keeps its MCP URL. After a `down` that deleted the environment
  and then failed, the next `up` may get another domain, and the agent dials the old one
  (agentctl.py:251-259). The model keeps the agent's URL, and no property is about it.

## 8. What is not modelled

The notes in `PROJECT.json` give the reason for each part. In short:

- Digests: single statements, and a stream whose `done` no code publishes.
- The prod and local tiers of `agentctl.py`: the upserts are those of `PreviewEnv`.
- API reads and CRUD, request validation, the MCP server's two reads: sequential.
- The TypeScript agent: the loop of `AgentTurn` in another language.
- Core utilities, seed data, build and dev-container files, teaching material.

Inside the modelled parts: provider protocols, logging and tracing (no property is about them), demo
mode and the operator's watermark override, pages of chat history, a graceful shutdown of the
gateway and an outage of its Redis, a history that a chat client sends along, the roll-back half of
`migrate.py`, more than one run, conversation or pull request at a time where these share nothing.

External systems are modelled from how the code uses them: Celery delivers a message once and
acknowledges it before it runs; a chord calls back when every header task returned; Redis
pub/sub reaches whoever is subscribed; Postgres statements are atomic and a unique key makes the
second writer wait; GitHub keeps one running and one pending run per concurrency group.

## 9. Plan

Done: all the components above but those of section 8, and proofs of every safety property of every
passing run.

Next, in this order:

1. Abstract specifications and their refinement proofs: the store as a write-once map for `RatingStore`,
   a perfect channel for `ChatGateway`, a schema that moves forward for `Migrate`.
2. The prod tier of `agentctl.py`, where two refs deploy at once.

## 10. Running it

    tlc -config RunPipeline_faults.cfg MCRunPipeline
    tlc -config RunStream.cfg RunStream
    tlc -config SignalWrite.cfg SignalWrite
    tlc -config RatingStore.cfg MCRatingStore
    tlc -config ChatGateway.cfg MCChatGateway
    tlc -config PreviewEnv.cfg PreviewEnv
    tlc -config Embedding.cfg Embedding
    tlc -config Retrieval.cfg MCRetrieval
    tlc -config AgentTurn.cfg AgentTurn
    tlc -config Release.cfg MCRelease
    tlapm RunPipeline_proofs.tla
    tlapm RatingStore_proofs.tla
    tlapm SignalWrite_proofs.tla
    tlapm Embedding_proofs.tla
    tlapm AgentTurn_proofs.tla
    tlapm Release_proofs.tla
    tlapm PreviewEnv_proofs.tla
    tlapm ChatGateway_proofs.tla

The runs take between five seconds and two minutes, each proof about a minute.
