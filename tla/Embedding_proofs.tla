------------------------- MODULE Embedding_proofs -------------------------
(***************************************************************************)
(* The backfills and the embed tasks never wait for each other in a        *)
(* circle, for any number of them and any --limit: each backfill inserts   *)
(* in the order of the hashes, and what it holds is behind it.  Each row   *)
(* is counted once, by whoever wrote it.  And a search over what they      *)
(* write ranks all it found, agreement first, and loses nothing that has a *)
(* post; and the clusters of a week are the only ones its posts can have.  *)
(***************************************************************************)
EXTENDS Retrieval, FiniteSetTheorems, WellFoundedInduction, TLAPS

-----------------------------------------------------------------------------
(***************************************************************************)
(* The next row.                                                           *)
(***************************************************************************)

\* A set of hashes that is not empty has a least one.
LEMMA LeastIsLeast ==
    ASSUME NEW S \in SUBSET Nat, S # {}
    PROVE  Least(S) \in S /\ \A g \in S : Least(S) <= g
<1> DEFINE R == {ss \in Nat \X Nat : ss[1] < ss[2]}
<1>1. IsWellFoundedOn(R, Nat)
  BY NatLessThanWellFounded, Zenon DEF OpToRel
<1>2. PICK h \in S : \A g \in S : ~(<<g, h>> \in R)
  BY <1>1, WFMin
<1>3. \A g \in S : h <= g
  <2> SUFFICES ASSUME NEW g \in S PROVE h <= g
    OBVIOUS
  <2>1. ~(g < h)
    <3>1. g < h => <<g, h>> \in R
      OBVIOUS
    <3> QED
      BY <1>2, <3>1
  <2> QED
    BY <2>1
<1> QED
  BY <1>3 DEF Least

LEMMA NextRowIsNext ==
    ASSUME TypeOK, NEW b \in Fills, fill[b].todo # {}
    PROVE  NextRow(b) \in fill[b].todo /\ \A g \in fill[b].todo : NextRow(b) <= g
<1>1. fill[b].todo \subseteq Nat
  BY EmbeddingAssumption DEF TypeOK, FillOK, EmbeddingAssumption
<1> QED
  BY <1>1, LeastIsLeast DEF NextRow

-----------------------------------------------------------------------------
(***************************************************************************)
(* The types, and what the backfills hold.                                 *)
(***************************************************************************)

Tasks == [step : {"free", "queued", "calling", "storing"}, hash : Hashes \cup {0}, tries : 0..MaxRetries]

\* The part of TypeOK about signals, rows and tasks.
TaskTypes ==
    /\ signals \subseteq Hashes /\ stored \subseteq Hashes
    /\ task \in [Slots -> Tasks]
    /\ \A s \in Slots : task[s] = Free \/ (task[s].step # "free" /\ task[s].hash \in Hashes)
    /\ reported \in Nat

Backfills ==
    [step : {"ready", "calling", "inserting", "committing", "ended"},
     todo : SUBSET Hashes, held : SUBSET Hashes, done : Nat, written : Nat]

FillTypes == fill \in [Fills -> Backfills] /\ \A b \in Fills : FillOK(b)

LEMMA Parts == TypeOK <=> TaskTypes /\ FillTypes
  BY DEF TypeOK, TaskTypes, FillTypes, Tasks, Backfills

LEMMA PartsAfter == TaskTypes' /\ FillTypes' => TypeOK'
  BY DEF TypeOK, TaskTypes, FillTypes, Tasks, Backfills

LEMMA InitTypes == Init => TypeOK
<1> SUFFICES ASSUME Init PROVE TypeOK
  OBVIOUS
<1>1. Free \in Tasks
  BY EmbeddingAssumption DEF Free, Tasks, EmbeddingAssumption
<1>2. TaskTypes
  BY <1>1, EmbeddingAssumption DEF Init, TaskTypes, EmbeddingAssumption
<1>3. FillTypes
  <2>1. fill \in [Fills -> Backfills]
    BY DEF Init, Backfills
  <2>2. \A b \in Fills : fill[b].step = "ready" /\ fill[b].todo = {} /\ fill[b].held = {}
    BY DEF Init
  <2> QED
    BY <2>1, <2>2 DEF FillTypes, FillOK, HeldBy
<1> QED
  BY <1>2, <1>3, Parts

\* A slot that a delivery moves to another legal state, or to none.
LEMMA SlotKeeps ==
    ASSUME TypeOK, NEW s \in Slots, NEW t \in Tasks, task' = [task EXCEPT ![s] = t],
           t = Free \/ (t.step # "free" /\ t.hash \in Hashes), UNCHANGED <<signals, stored, reported>>
    PROVE  TaskTypes'
  BY Parts DEF TaskTypes, Free

LEMMA FillUntouched ==
    ASSUME TypeOK, signals \subseteq signals', UNCHANGED <<stored, fill>>
    PROVE  FillTypes'
<1>1. \A b \in Fills : FillOK(b) => FillOK(b)'
  BY DEF FillOK, HeldBy
<1> QED
  BY <1>1, Parts DEF FillTypes

\* A backfill that moves, while the table stays: it must stay behind its own next row and
\* clear of the others.
LEMMA FillMoves ==
    ASSUME TypeOK, NEW b \in Fills, NEW r \in Backfills, fill' = [fill EXCEPT ![b] = r],
           UNCHANGED <<signals, stored, task, reported>>,
           r.todo \subseteq signals, r.held \subseteq signals \ stored,
           r.step \in {"calling", "inserting"} => r.todo # {},
           r.step \in {"ready", "ended"} => r.held = {} /\ r.todo = {},
           \A h \in r.held, g \in r.todo : h < g,
           \A c \in Fills \ {b} : r.held \cap fill[c].held = {}
    PROVE  TypeOK'
<1>1. fill'[b] = r /\ fill' \in [Fills -> Backfills] /\ \A c \in Fills \ {b} : fill'[c] = fill[c]
  BY Parts DEF FillTypes
<1>2. FillOK(b)'
  BY <1>1 DEF FillOK, HeldBy
<1>3. ASSUME NEW c \in Fills \ {b} PROVE FillOK(c)'
  <2>1. FillOK(c) /\ fill'[c] = fill[c]
    BY <1>1, Parts DEF FillTypes
  <2>2. \A d \in Fills \ {c} : HeldBy(c) \cap fill'[d].held = {}
    BY <1>1, <2>1 DEF FillOK, HeldBy
  <2> QED
    BY <2>1, <2>2 DEF FillOK, HeldBy
<1>4. TaskTypes'
  BY Parts DEF TaskTypes
<1>5. FillTypes'
  BY <1>1, <1>2, <1>3 DEF FillTypes
<1> QED
  BY <1>4, <1>5, PartsAfter

-----------------------------------------------------------------------------
(***************************************************************************)
(* The steps.                                                              *)
(***************************************************************************)

LEMMA ArriveKeeps == ASSUME TypeOK, NEW h \in Hashes, Arrive(h) PROVE TypeOK'
<1>1. TaskTypes'
  BY Parts DEF TaskTypes, Arrive, Free
<1>2. FillTypes'
  BY FillUntouched DEF Arrive
<1> QED
  BY <1>1, <1>2, PartsAfter

LEMMA ScrapedKeeps == ASSUME TypeOK, NEW h \in Scrapes, NEW s \in Slots, NEW kept \in BOOLEAN, Scraped(h, s, kept) PROVE TypeOK'
<1>1. h \in Hashes /\ Queued(h, 0) \in Tasks /\ Queued(h, 0) # Free /\ Queued(h, 0).step # "free" /\ Queued(h, 0).hash = h
  BY EmbeddingAssumption DEF Queued, Free, Tasks, EmbeddingAssumption
<1>2. TaskTypes'
  BY <1>1, Parts DEF TaskTypes, Scraped, Free
<1>3. FillTypes'
  BY FillUntouched DEF Scraped
<1> QED
  BY <1>2, <1>3, PartsAfter

LEMMA SweepKeeps == ASSUME TypeOK, NEW slot \in [Swept -> FreeSlots], Sweep(slot) PROVE TypeOK'
<1>1. ASSUME NEW s \in Slots, NEW h \in Swept, slot[h] = s
      PROVE  LET g == CHOOSE h_1 \in Swept : slot[h_1] = s
             IN  g \in Hashes /\ Queued(g, 0) \in Tasks /\ Queued(g, 0).step # "free" /\ Queued(g, 0).hash = g
  <2> DEFINE g == CHOOSE h_1 \in Swept : slot[h_1] = s
  <2>1. g \in Swept
    BY <1>1
  <2>2. g \in Hashes
    BY <2>1, Parts DEF Swept, First, TaskTypes
  <2> HIDE DEF g
  <2>3. Queued(g, 0) \in Tasks /\ Queued(g, 0).step # "free" /\ Queued(g, 0).hash = g
    BY <2>2, EmbeddingAssumption, Parts DEF Queued, Tasks, TaskTypes, EmbeddingAssumption
  <2> QED
    BY <2>2, <2>3 DEF g
<1>2. ASSUME NEW s \in Slots
      PROVE  task'[s] \in Tasks /\ (task'[s] = Free \/ (task'[s].step # "free" /\ task'[s].hash \in Hashes))
  <2>1. CASE \E h \in Swept : slot[h] = s
    <3> DEFINE g == CHOOSE h \in Swept : slot[h] = s
    <3>1. task'[s] = Queued(g, 0)
      BY <2>1 DEF Sweep
    <3>2. g \in Hashes /\ Queued(g, 0) \in Tasks /\ Queued(g, 0).step # "free" /\ Queued(g, 0).hash = g
      BY <1>1, <2>1
    <3> HIDE DEF g
    <3> QED
      BY <3>1, <3>2
  <2>2. CASE ~\E h \in Swept : slot[h] = s
    BY <2>2, Parts DEF Sweep, TaskTypes
  <2> QED
    BY <2>1, <2>2
<1>3. DOMAIN task' = Slots /\ task' = [s \in Slots |-> task'[s]]
  BY DEF Sweep
<1>4. TaskTypes'
  <2>1. task' \in [Slots -> Tasks]
    BY <1>2, <1>3
  <2> QED
    BY <1>2, <2>1, Parts DEF Sweep, TaskTypes, Free
<1>5. FillTypes'
  BY FillUntouched DEF Sweep
<1> QED
  BY <1>4, <1>5, PartsAfter

\* A task that moves within its slot.
LEMMA TaskStepKeeps == ASSUME TypeOK, NEW s \in Slots, TaskStep(s) PROVE TypeOK'
<1>0. task[s] \in Tasks /\ task \in [Slots -> Tasks] /\ (task[s] = Free \/ (task[s].step # "free" /\ task[s].hash \in Hashes))
  BY Parts DEF TaskTypes
<1>1. UNCHANGED <<signals, stored, fill, reported>>
  BY DEF TaskStep, Check, Answered, Refused, Dies
<1>2. Free \in Tasks
  BY EmbeddingAssumption DEF Free, Tasks, EmbeddingAssumption
<1>3. PICK t \in Tasks : /\ task' = [task EXCEPT ![s] = t]
                         /\ t = Free \/ (t.step # "free" /\ t.hash \in Hashes)
  <2>1. CASE Check(s)
    <3> DEFINE t == [task[s] EXCEPT !.step = "calling"]
    <3>1. t \in Tasks /\ t.step # "free" /\ t.hash \in Hashes
      BY <1>0, <2>1 DEF Check, At, Tasks, Free
    <3>2. task' = [task EXCEPT ![s] = IF task[s].hash \in stored THEN Free ELSE t]
      BY <2>1 DEF Check
    <3> HIDE DEF t
    <3> QED
      BY <1>2, <3>1, <3>2
  <2>2. CASE Answered(s)
    <3> DEFINE t == [task[s] EXCEPT !.step = "storing"]
    <3>1. t \in Tasks /\ t.step # "free" /\ t.hash \in Hashes
      BY <1>0, <2>2 DEF Answered, At, Tasks, Free
    <3>2. task' = [task EXCEPT ![s] = t]
      BY <2>2 DEF Answered
    <3> HIDE DEF t
    <3> QED
      BY <3>1, <3>2
  <2>3. CASE Refused(s)
    <3> DEFINE t == Queued(task[s].hash, task[s].tries + 1)
    <3>1. task[s].hash \in Hashes
      BY <1>0, <2>3 DEF Refused, At, Free
    <3>2. task[s].tries < MaxRetries => t \in Tasks
      BY <1>0, EmbeddingAssumption DEF Queued, Tasks, EmbeddingAssumption
    <3>3. t.step # "free" /\ t.hash \in Hashes
      BY <3>1 DEF Queued
    <3>4. task' = [task EXCEPT ![s] = IF task[s].tries < MaxRetries THEN t ELSE Free]
      BY <2>3 DEF Refused
    <3> HIDE DEF t
    <3> QED
      BY <1>2, <3>2, <3>3, <3>4
  <2>4. CASE Dies(s)
    BY <1>2, <2>4 DEF Dies
  <2> QED
    BY <2>1, <2>2, <2>3, <2>4 DEF TaskStep
<1>4. TaskTypes'
  BY <1>1, <1>3, SlotKeeps
<1>5. FillTypes'
  BY <1>1, FillUntouched
<1> QED
  BY <1>4, <1>5, PartsAfter

\* A task inserts a hash that no backfill holds.
LEMMA StoreTaskKeeps == ASSUME TypeOK, NEW s \in Slots, StoreTask(s) PROVE TypeOK'
<1>1. task[s].hash \in Hashes /\ \A b \in Fills : task[s].hash \notin HeldBy(b)
  BY Parts DEF StoreTask, At, TaskTypes, Free, Locked
<1>2. task' = [task EXCEPT ![s] = Free] /\ stored' = stored \cup {task[s].hash} /\ UNCHANGED <<signals, fill>>
  BY DEF StoreTask
<1>3. reported' \in Nat
  BY Parts DEF StoreTask, TaskTypes
<1>4. TaskTypes'
  <2>1. Free \in Tasks
    BY EmbeddingAssumption DEF Free, Tasks, EmbeddingAssumption
  <2> QED
    BY <1>1, <1>2, <1>3, <2>1, Parts DEF TaskTypes, Free
<1>5. ASSUME NEW b \in Fills PROVE FillOK(b)'
  <2>1. FillOK(b)
    BY Parts DEF FillTypes
  <2> QED
    BY <1>1, <1>2, <2>1 DEF FillOK, HeldBy
<1>6. FillTypes'
  BY <1>2, <1>5, Parts DEF FillTypes
<1> QED
  BY <1>4, <1>6, PartsAfter

\* What is known of a backfill.
LEMMA FillFacts ==
    ASSUME TypeOK, NEW b \in Fills
    PROVE  /\ fill[b] \in Backfills /\ fill[b].todo \subseteq signals /\ fill[b].held \subseteq signals \ stored
           /\ fill[b].step \in {"calling", "inserting"} => fill[b].todo # {}
           /\ fill[b].step \in {"ready", "ended"} => fill[b].held = {} /\ fill[b].todo = {}
           /\ \A h \in fill[b].held, g \in fill[b].todo : h < g
           /\ \A c \in Fills \ {b} : fill[b].held \cap fill[c].held = {}
           /\ fill \in [Fills -> Backfills] /\ signals \subseteq Hashes
  BY Parts DEF TaskTypes, FillTypes, FillOK, HeldBy

LEMMA StartKeeps == ASSUME TypeOK, NEW b \in Fills, NEW only \in BOOLEAN, NEW limit \in Limits, Start(b, only, limit) PROVE TypeOK'
<1> DEFINE T == Selected(only, limit)
           r == [fill[b] EXCEPT !.todo = T, !.step = IF T = {} THEN "ended" ELSE "calling"]
<1>1. T \subseteq signals
  BY DEF Selected, First
<1> HIDE DEF T
<1>2. r \in Backfills /\ r.held = {} /\ r.todo = T /\ r.step = (IF T = {} THEN "ended" ELSE "calling")
  BY <1>1, FillFacts DEF Backfills, Start, In
<1>3. fill' = [fill EXCEPT ![b] = r] /\ UNCHANGED <<signals, stored, task, reported>>
  BY FillFacts DEF Start, Backfills, T
<1> HIDE DEF r
<1> QED
  BY <1>1, <1>2, <1>3, FillMoves

\* Between the calls of the provider and at their failure.
LEMMA CallKeeps == ASSUME TypeOK, NEW b \in Fills, Vectorised(b) \/ Abort(b) \/ Crash(b) PROVE TypeOK'
<1>1. CASE Vectorised(b)
  <2> DEFINE r == [fill[b] EXCEPT !.step = "inserting"]
  <2>1. r \in Backfills /\ r.step = "inserting" /\ r.todo = fill[b].todo /\ r.held = fill[b].held /\ r.todo # {}
    BY <1>1, FillFacts DEF Vectorised, In, Backfills
  <2>2. fill' = [fill EXCEPT ![b] = r] /\ UNCHANGED <<signals, stored, task, reported>>
    BY <1>1 DEF Vectorised
  <2> HIDE DEF r
  <2>3. /\ r.todo \subseteq signals /\ r.held \subseteq signals \ stored
        /\ \A h \in r.held, g \in r.todo : h < g
        /\ \A c \in Fills \ {b} : r.held \cap fill[c].held = {}
    BY <2>1, FillFacts
  <2> QED
    BY <2>1, <2>2, <2>3, FillMoves
<1>2. CASE Abort(b)
  <2> DEFINE r == [fill[b] EXCEPT !.step = "committing", !.todo = {}]
  <2>1. r \in Backfills /\ r.step = "committing" /\ r.todo = {} /\ r.held = fill[b].held
    BY FillFacts DEF Backfills
  <2>2. fill' = [fill EXCEPT ![b] = r] /\ UNCHANGED <<signals, stored, task, reported>>
    BY <1>2, FillFacts DEF Abort, Backfills
  <2> HIDE DEF r
  <2>3. /\ r.todo \subseteq signals /\ r.held \subseteq signals \ stored
        /\ \A h \in r.held, g \in r.todo : h < g
        /\ \A c \in Fills \ {b} : r.held \cap fill[c].held = {}
    BY <2>1, FillFacts
  <2> QED
    BY <2>1, <2>2, <2>3, FillMoves
<1>3. CASE Crash(b)
  <2> DEFINE r == [fill[b] EXCEPT !.step = "ended", !.todo = {}, !.held = {}, !.written = 0]
  <2>1. r \in Backfills /\ r.step = "ended" /\ r.todo = {} /\ r.held = {}
    BY FillFacts DEF Backfills
  <2>2. fill' = [fill EXCEPT ![b] = r] /\ UNCHANGED <<signals, stored, task, reported>>
    BY <1>3, FillFacts DEF Crash, Backfills
  <2> HIDE DEF r
  <2>3. /\ r.todo \subseteq signals /\ r.held \subseteq signals \ stored
        /\ \A h \in r.held, g \in r.todo : h < g
        /\ \A c \in Fills \ {b} : r.held \cap fill[c].held = {}
    BY <2>1, FillFacts
  <2> QED
    BY <2>1, <2>2, <2>3, FillMoves
<1> QED
  BY <1>1, <1>2, <1>3

\* The next row: nobody else holds it, and it comes before all that are left.
LEMMA InsertKeeps == ASSUME TypeOK, NEW b \in Fills, Insert(b) PROVE TypeOK'
<1> DEFINE h == NextRow(b)
           last == (fill[b].done + 1) % Chunk = 0 \/ fill[b].todo = {h}
           r == [fill[b] EXCEPT !.todo = @ \ {h}, !.held = IF h \in stored THEN @ ELSE @ \cup {h},
                                !.done = (@ + 1) % Chunk, !.written = IF h \notin stored THEN @ + 1 ELSE @,
                                !.step = IF last THEN "committing" ELSE "calling"]
<1>1. fill[b].step = "inserting" /\ fill[b].todo # {} /\ fill[b].todo \subseteq signals
  BY FillFacts DEF Insert, In
<1>2. h \in fill[b].todo /\ \A g \in fill[b].todo : h <= g
  BY <1>1, NextRowIsNext
<1>3. \A c \in Fills \ {b} : h \notin fill[c].held
  BY DEF Insert, Locked, HeldBy
<1>4. fill' = [fill EXCEPT ![b] = r] /\ UNCHANGED <<signals, stored, task, reported>>
  BY FillFacts DEF Insert, InsertRow, Backfills
<1> HIDE DEF h
<1>5. (fill[b].done + 1) % Chunk \in Nat
  BY FillFacts, EmbeddingAssumption DEF Backfills, EmbeddingAssumption
<1> HIDE DEF last
<1>6. /\ r \in Backfills /\ r.todo = fill[b].todo \ {h}
      /\ r.held = IF h \in stored THEN fill[b].held ELSE fill[b].held \cup {h}
      /\ r.step = IF last THEN "committing" ELSE "calling"
  <2>1. fill[b] \in Backfills /\ h \in Hashes /\ fill[b].written + 1 \in Nat
    BY <1>1, <1>2, FillFacts DEF Backfills
  <2>2. /\ r.todo = fill[b].todo \ {h}
        /\ r.held = IF h \in stored THEN fill[b].held ELSE fill[b].held \cup {h}
        /\ r.step = IF last THEN "committing" ELSE "calling"
    BY <2>1 DEF Backfills
  <2>3. r \in Backfills
    BY <1>5, <2>1 DEF Backfills
  <2> QED
    BY <2>2, <2>3
<1> HIDE DEF r
<1>7. r.todo \subseteq signals /\ r.held \subseteq signals \ stored
  BY <1>1, <1>2, <1>6, FillFacts
<1>8. r.step \in {"calling", "inserting"} => r.todo # {}
  BY <1>2, <1>6 DEF last
<1>9. r.step \notin {"ready", "ended"}
  BY <1>6
<1>10. \A x \in r.held, g \in r.todo : x < g
  <2> SUFFICES ASSUME NEW x \in r.held, NEW g \in r.todo PROVE x < g
    OBVIOUS
  <2>1. CASE x = h
    <3>1. g \in fill[b].todo /\ g # h /\ h <= g /\ g \in Nat /\ h \in Nat
      BY <1>1, <1>2, <1>6, FillFacts, EmbeddingAssumption DEF EmbeddingAssumption
    <3> QED
      BY <2>1, <3>1
  <2>2. CASE x # h
    BY <1>6, <2>2, FillFacts
  <2> QED
    BY <2>1, <2>2
<1>11. \A c \in Fills \ {b} : r.held \cap fill[c].held = {}
  BY <1>3, <1>6, FillFacts
<1> QED
  BY <1>4, <1>6, <1>7, <1>8, <1>9, <1>10, <1>11, FillMoves

\* A commit turns what is held into rows; nobody else held it.
LEMMA CommitKeeps == ASSUME TypeOK, NEW b \in Fills, Commit(b) PROVE TypeOK'
<1> DEFINE r == [fill[b] EXCEPT !.held = {}, !.step = IF fill[b].todo = {} THEN "ended" ELSE "calling"]
<1>1. fill' = [fill EXCEPT ![b] = r] /\ stored' = stored \cup fill[b].held /\ UNCHANGED <<signals, task, reported>>
  BY FillFacts DEF Commit, Backfills, HeldBy
<1>2. /\ r \in Backfills /\ r.held = {} /\ r.todo = fill[b].todo
      /\ r.step = IF fill[b].todo = {} THEN "ended" ELSE "calling"
  BY FillFacts DEF Backfills
<1> HIDE DEF r
<1>3. fill' \in [Fills -> Backfills] /\ fill'[b] = r /\ \A c \in Fills \ {b} : fill'[c] = fill[c]
  BY <1>1, <1>2, FillFacts
<1>4. ASSUME NEW c \in Fills PROVE FillOK(c)'
  <2>1. FillOK(c) /\ fill[c].held \cap (IF c = b THEN {} ELSE fill[b].held) = {}
    BY Parts DEF FillTypes, FillOK, HeldBy
  <2>2. \A d \in Fills : fill'[d].held \subseteq fill[d].held
    BY <1>2, <1>3
  <2>3. CASE c = b
    BY <1>1, <1>2, <1>3, <2>1, <2>3 DEF FillOK, HeldBy
  <2>4. CASE c # b
    BY <1>1, <1>3, <2>1, <2>2, <2>4 DEF FillOK, HeldBy
  <2> QED
    BY <2>3, <2>4
<1>5. TaskTypes'
  BY <1>1, FillFacts, Parts DEF TaskTypes, Free
<1>6. FillTypes'
  BY <1>3, <1>4 DEF FillTypes
<1> QED
  BY <1>5, <1>6, PartsAfter

LEMMA StutterKeeps == TypeOK /\ UNCHANGED vars => TypeOK'
<1> SUFFICES ASSUME TypeOK, UNCHANGED vars PROVE TypeOK'
  OBVIOUS
<1>1. TaskTypes'
  BY Parts DEF TaskTypes, vars, Free
<1>2. FillTypes'
  BY FillUntouched DEF vars
<1> QED
  BY <1>1, <1>2, PartsAfter

LEMMA StepTypes == TypeOK /\ [Next]_vars => TypeOK'
<1> SUFFICES ASSUME TypeOK, [Next]_vars PROVE TypeOK'
  OBVIOUS
<1>1. ASSUME NEW b \in Fills, FillStep(b) PROVE TypeOK'
  BY <1>1, CallKeeps, InsertKeeps, CommitKeeps DEF FillStep
<1>2. CASE BeatTick
  BY <1>2, SweepKeeps DEF BeatTick
<1> QED
  BY <1>1, <1>2, ArriveKeeps, ScrapedKeeps, TaskStepKeeps, StoreTaskKeeps, StartKeeps, StutterKeeps DEF Next

-----------------------------------------------------------------------------
\* What is held is never in the table, in no other backfill's hands, and behind the rows
\* its holder has still to insert (backfill.py; tasks.py, embed_signal).
THEOREM FillInvariant == Spec => []TypeOK
  BY InitTypes, StepTypes, PTL DEF Spec

\* A backfill that waits, waits for one whose next row lies further on: with any number of
\* backfills no waits close a cycle (backfill.py, the ORDER BY of _select_unembedded).
THEOREM BackfillsNeverDeadlock == Spec => []NoLockCycle
<1>1. TypeOK => NoLockCycle
  BY FillFacts DEF NoLockCycle, Waits, HeldBy
<1> QED
  BY <1>1, FillInvariant, PTL

-----------------------------------------------------------------------------
(***************************************************************************)
(* Who counted which row.                                                  *)
(***************************************************************************)

\* CountedInv with its definitions expanded: T counted by the tasks, F[b] by backfill b.
LEMMA CountedNow ==
    ASSUME CountedInv
    PROVE  \E T, F : /\ T \subseteq stored /\ IsFiniteSet(T) /\ Cardinality(T) = reported
                     /\ F = [b \in Fills |-> F[b]]
                     /\ \A b \in Fills : /\ IsFiniteSet(F[b]) /\ F[b] \subseteq stored \cup fill[b].held
                                         /\ Cardinality(F[b]) = fill[b].written /\ F[b] \cap T = {}
                     /\ \A b, c \in Fills : b # c => F[b] \cap F[c] = {}
<1>1. PICK T \in SUBSET stored : \E F \in [Fills -> SUBSET Rows] :
         /\ Attributed(T, F) /\ IsFiniteSet(T)
         /\ \A b \in Fills : IsFiniteSet(F[b]) /\ F[b] \subseteq stored \cup HeldBy(b)
  BY DEF CountedInv
<1>2. PICK F \in [Fills -> SUBSET Rows] :
         /\ Attributed(T, F) /\ IsFiniteSet(T)
         /\ \A b \in Fills : IsFiniteSet(F[b]) /\ F[b] \subseteq stored \cup HeldBy(b)
  BY <1>1
<1>3. F = [b \in Fills |-> F[b]]
  OBVIOUS
<1> QED
  BY <1>2, <1>3 DEF Attributed, HeldBy

\* The same after a step, to be shown with whatever T and F the step leads to.
LEMMA CountedAfter ==
    ASSUME NEW T, NEW F, T \subseteq stored', IsFiniteSet(T), Cardinality(T) = reported',
           F = [b \in Fills |-> F[b]],
           \A b \in Fills : /\ IsFiniteSet(F[b]) /\ F[b] \subseteq stored' \cup fill'[b].held
                            /\ Cardinality(F[b]) = fill'[b].written /\ F[b] \cap T = {},
           \A b, c \in Fills : b # c => F[b] \cap F[c] = {}
    PROVE  CountedInv'
<1>1. \A b \in Fills : F[b] \subseteq Rows'
  BY DEF Rows, HeldBy
<1>2. F \in [Fills -> SUBSET Rows']
  BY <1>1
<1>3. Attributed(T, F)'
  BY DEF Attributed
<1>4. \A b \in Fills : IsFiniteSet(F[b]) /\ F[b] \subseteq stored' \cup HeldBy(b)'
  BY DEF HeldBy
<1> QED
  BY <1>2, <1>3, <1>4 DEF CountedInv

\* Nothing is counted, and no row that is counted goes.
LEMMA CountsQuiet ==
    ASSUME CountedInv, stored \subseteq stored', UNCHANGED reported,
           \A b \in Fills : /\ fill'[b].written = fill[b].written
                            /\ fill[b].held \subseteq stored' \cup fill'[b].held
    PROVE  CountedInv'
<1>1. PICK T, F : /\ T \subseteq stored /\ IsFiniteSet(T) /\ Cardinality(T) = reported
                  /\ F = [b \in Fills |-> F[b]]
                  /\ \A b \in Fills : /\ IsFiniteSet(F[b]) /\ F[b] \subseteq stored \cup fill[b].held
                                      /\ Cardinality(F[b]) = fill[b].written /\ F[b] \cap T = {}
                  /\ \A b, c \in Fills : b # c => F[b] \cap F[c] = {}
  BY CountedNow
<1>2. \A b \in Fills : /\ IsFiniteSet(F[b]) /\ F[b] \subseteq stored' \cup fill'[b].held
                       /\ Cardinality(F[b]) = fill'[b].written /\ F[b] \cap T = {}
  BY <1>1
<1>3. T \subseteq stored' /\ Cardinality(T) = reported'
  BY <1>1
<1> QED
  BY <1>1, <1>2, <1>3, CountedAfter

\* A task that wins its insert counts the row: it was in nobody's hands.
LEMMA StoreTaskCounts == ASSUME TypeOK, CountedInv, NEW s \in Slots, StoreTask(s) PROVE CountedInv'
<1>1. PICK h : h = task[s].hash
  OBVIOUS
<1>2. /\ stored' = stored \cup {h} /\ reported' = (IF h \in stored THEN reported ELSE reported + 1)
      /\ UNCHANGED fill /\ \A b \in Fills : h \notin fill[b].held
  BY <1>1 DEF StoreTask, Locked, HeldBy
<1>3. CASE h \in stored
  BY <1>2, <1>3, CountsQuiet
<1>4. CASE h \notin stored
  <2>1. PICK T, F : /\ T \subseteq stored /\ IsFiniteSet(T) /\ Cardinality(T) = reported
                    /\ F = [b \in Fills |-> F[b]]
                    /\ \A b \in Fills : /\ IsFiniteSet(F[b]) /\ F[b] \subseteq stored \cup fill[b].held
                                        /\ Cardinality(F[b]) = fill[b].written /\ F[b] \cap T = {}
                    /\ \A b, c \in Fills : b # c => F[b] \cap F[c] = {}
    BY CountedNow
  <2>2. PICK U : U = T \cup {h}
    OBVIOUS
  <2>3. h \notin T
    BY <1>4, <2>1
  <2>4. IsFiniteSet(U) /\ Cardinality(U) = Cardinality(T) + 1
    BY <2>1, <2>2, <2>3, FS_AddElement
  <2>5. U \subseteq stored' /\ Cardinality(U) = reported'
    BY <1>2, <1>4, <2>1, <2>2, <2>4
  <2>6. \A b \in Fills : /\ IsFiniteSet(F[b]) /\ F[b] \subseteq stored' \cup fill'[b].held
                         /\ Cardinality(F[b]) = fill'[b].written /\ F[b] \cap U = {}
    BY <1>2, <1>4, <2>1, <2>2
  <2> QED
    BY <2>1, <2>4, <2>5, <2>6, CountedAfter
<1> QED
  BY <1>3, <1>4

\* A row that a backfill finds in the table is not counted; one that it inserts is in no
\* other count.
LEMMA InsertCounts == ASSUME TypeOK, CountedInv, NEW b \in Fills, Insert(b) PROVE CountedInv'
<1>1. PICK h : h = NextRow(b)
  OBVIOUS
<1>2. fill[b] \in Backfills /\ fill[b].step = "inserting" /\ fill[b].todo # {} /\ fill[b].todo \subseteq Nat
  BY FillFacts, EmbeddingAssumption DEF Insert, In, EmbeddingAssumption
<1>3. h \in fill[b].todo /\ h \in Nat
  BY <1>1, <1>2, NextRowIsNext
<1>4. \A c \in Fills : h \notin fill[c].held
  <2>1. \A c \in Fills \ {b} : h \notin fill[c].held
    BY <1>1 DEF Insert, Locked, HeldBy
  <2>2. h \notin fill[b].held
    BY <1>3, FillFacts
  <2> QED
    BY <2>1, <2>2
<1>5. /\ fill'[b].held = (IF h \in stored THEN fill[b].held ELSE fill[b].held \cup {h})
      /\ fill'[b].written = (IF h \in stored THEN fill[b].written ELSE fill[b].written + 1)
      /\ \A c \in Fills \ {b} : fill'[c] = fill[c]
      /\ UNCHANGED <<stored, reported>>
  BY <1>1, FillFacts DEF Insert, InsertRow, Backfills
<1>6. CASE h \in stored
  <2>1. \A c \in Fills : fill'[c].written = fill[c].written /\ fill[c].held \subseteq stored' \cup fill'[c].held
    BY <1>5, <1>6
  <2> QED
    BY <1>5, <2>1, CountsQuiet
<1>7. CASE h \notin stored
  <2>1. PICK T, F : /\ T \subseteq stored /\ IsFiniteSet(T) /\ Cardinality(T) = reported
                    /\ F = [c \in Fills |-> F[c]]
                    /\ \A c \in Fills : /\ IsFiniteSet(F[c]) /\ F[c] \subseteq stored \cup fill[c].held
                                        /\ Cardinality(F[c]) = fill[c].written /\ F[c] \cap T = {}
                    /\ \A c, d \in Fills : c # d => F[c] \cap F[d] = {}
    BY CountedNow
  <2>2. PICK G : G = [c \in Fills |-> IF c = b THEN F[b] \cup {h} ELSE F[c]]
    OBVIOUS
  <2>3. \A c \in Fills : h \notin F[c]
    BY <1>4, <1>7, <2>1
  <2>4. G = [c \in Fills |-> G[c]] /\ G[b] = F[b] \cup {h} /\ \A c \in Fills \ {b} : G[c] = F[c]
    BY <2>2
  <2>5. IsFiniteSet(G[b]) /\ Cardinality(G[b]) = Cardinality(F[b]) + 1
    BY <2>1, <2>3, <2>4, FS_AddElement
  <2>6. /\ IsFiniteSet(G[b]) /\ G[b] \subseteq stored' \cup fill'[b].held
        /\ Cardinality(G[b]) = fill'[b].written /\ G[b] \cap T = {}
    BY <1>5, <1>7, <2>1, <2>4, <2>5
  <2>7. \A c \in Fills : /\ IsFiniteSet(G[c]) /\ G[c] \subseteq stored' \cup fill'[c].held
                         /\ Cardinality(G[c]) = fill'[c].written /\ G[c] \cap T = {}
    BY <1>5, <2>1, <2>4, <2>6
  <2>8. \A c, d \in Fills : c # d => G[c] \cap G[d] = {}
    BY <2>1, <2>3, <2>4
  <2>9. T \subseteq stored' /\ Cardinality(T) = reported'
    BY <1>5, <2>1
  <2> QED
    BY <2>1, <2>4, <2>7, <2>8, <2>9, CountedAfter
<1> QED
  BY <1>6, <1>7

\* A backfill that dies reports nothing any more; its rows go with its transaction.
LEMMA CrashCounts == ASSUME TypeOK, CountedInv, NEW b \in Fills, Crash(b) PROVE CountedInv'
<1>1. fill'[b].written = 0 /\ (\A c \in Fills \ {b} : fill'[c] = fill[c]) /\ UNCHANGED <<stored, reported>>
  BY FillFacts DEF Crash, Backfills
<1>2. PICK T, F : /\ T \subseteq stored /\ IsFiniteSet(T) /\ Cardinality(T) = reported
                  /\ F = [c \in Fills |-> F[c]]
                  /\ \A c \in Fills : /\ IsFiniteSet(F[c]) /\ F[c] \subseteq stored \cup fill[c].held
                                      /\ Cardinality(F[c]) = fill[c].written /\ F[c] \cap T = {}
                  /\ \A c, d \in Fills : c # d => F[c] \cap F[d] = {}
  BY CountedNow
<1>3. PICK G : G = [c \in Fills |-> IF c = b THEN {} ELSE F[c]]
  OBVIOUS
<1>4. G = [c \in Fills |-> G[c]] /\ G[b] = {} /\ \A c \in Fills \ {b} : G[c] = F[c]
  BY <1>3
<1>5. IsFiniteSet(G[b]) /\ Cardinality(G[b]) = 0
  BY <1>4, FS_EmptySet
<1>6. \A c \in Fills : /\ IsFiniteSet(G[c]) /\ G[c] \subseteq stored' \cup fill'[c].held
                       /\ Cardinality(G[c]) = fill'[c].written /\ G[c] \cap T = {}
  BY <1>1, <1>2, <1>4, <1>5
<1>7. \A c, d \in Fills : c # d => G[c] \cap G[d] = {}
  BY <1>2, <1>4
<1>8. T \subseteq stored' /\ Cardinality(T) = reported'
  BY <1>1, <1>2
<1> QED
  BY <1>2, <1>4, <1>6, <1>7, <1>8, CountedAfter

\* The other steps of a backfill count nothing.
LEMMA FillCounts ==
    ASSUME TypeOK, CountedInv, NEW b \in Fills,
           \/ Vectorised(b) \/ Abort(b) \/ Commit(b)
           \/ \E only \in BOOLEAN, limit \in Limits : Start(b, only, limit)
    PROVE  CountedInv'
<1>1. /\ UNCHANGED reported /\ stored \subseteq stored' /\ fill'[b].written = fill[b].written
      /\ fill[b].held \subseteq stored' \cup fill'[b].held
      /\ \A c \in Fills \ {b} : fill'[c] = fill[c]
  <2>0. fill \in [Fills -> Backfills] /\ fill[b] \in Backfills
    BY FillFacts
  <2>1. CASE Vectorised(b)
    BY <2>0, <2>1 DEF Vectorised, Backfills
  <2>2. CASE Abort(b)
    BY <2>0, <2>2 DEF Abort, Backfills
  <2>3. CASE Commit(b)
    <3>1. stored' = stored \cup fill[b].held /\ UNCHANGED reported
      BY <2>3 DEF Commit, HeldBy
    <3>2. fill'[b].written = fill[b].written /\ \A c \in Fills \ {b} : fill'[c] = fill[c]
      BY <2>0, <2>3 DEF Commit, Backfills
    <3> QED
      BY <3>1, <3>2
  <2>4. ASSUME NEW only \in BOOLEAN, NEW limit \in Limits, Start(b, only, limit)
        PROVE  /\ UNCHANGED <<stored, reported>> /\ fill'[b].written = fill[b].written
               /\ fill'[b].held = fill[b].held /\ \A c \in Fills \ {b} : fill'[c] = fill[c]
    BY <2>0, <2>4 DEF Start, Backfills
  <2> QED
    BY <2>1, <2>2, <2>3, <2>4
<1>2. \A c \in Fills : fill'[c].written = fill[c].written /\ fill[c].held \subseteq stored' \cup fill'[c].held
  BY <1>1
<1> QED
  BY <1>1, <1>2, CountsQuiet

LEMMA InitCounts == Init => CountedInv
<1> SUFFICES ASSUME Init PROVE CountedInv
  OBVIOUS
<1> DEFINE F == [b \in Fills |-> {}]
<1>1. IsFiniteSet({}) /\ Cardinality({}) = 0
  BY FS_EmptySet
<1>2. reported = 0 /\ \A b \in Fills : fill[b].written = 0 /\ F[b] = {}
  BY DEF Init
<1>3. F \in [Fills -> SUBSET Rows]
  OBVIOUS
<1> HIDE DEF F
<1>4. Attributed({}, F)
  BY <1>1, <1>2 DEF Attributed
<1> QED
  BY <1>1, <1>2, <1>3, <1>4 DEF CountedInv

LEMMA StepCounts == TypeOK /\ CountedInv /\ [Next]_vars => CountedInv'
<1> SUFFICES ASSUME TypeOK, CountedInv, [Next]_vars PROVE CountedInv'
  OBVIOUS
<1>1. ASSUME UNCHANGED <<stored, fill, reported>> PROVE CountedInv'
  BY <1>1, CountsQuiet
<1>2. ASSUME NEW b \in Fills, FillStep(b) PROVE CountedInv'
  BY <1>2, FillCounts, CrashCounts, InsertCounts DEF FillStep
<1>3. CASE BeatTick
  BY <1>1, <1>3 DEF BeatTick, Sweep
<1>4. ASSUME NEW s \in Slots, TaskStep(s) PROVE CountedInv'
  BY <1>1, <1>4 DEF TaskStep, Check, Answered, Refused, Dies
<1>5. ASSUME NEW h \in Hashes, Arrive(h) PROVE CountedInv'
  BY <1>1, <1>5 DEF Arrive
<1>6. ASSUME NEW h \in Scrapes, NEW s \in Slots, NEW kept \in BOOLEAN, Scraped(h, s, kept) PROVE CountedInv'
  BY <1>1, <1>6 DEF Scraped
<1>7. CASE UNCHANGED vars
  BY <1>1, <1>7 DEF vars
<1>8. ASSUME NEW b \in Fills, NEW only \in BOOLEAN, NEW limit \in Limits, Start(b, only, limit) PROVE CountedInv'
  BY <1>8, FillCounts
<1> QED
  BY <1>2, <1>3, <1>4, <1>5, <1>6, <1>7, <1>8, StoreTaskCounts DEF Next

\* However many tasks, backfills and scrapes embed the same hash at once, the counts they
\* report are of different rows (embedding.py, insert_embedding; tasks.py, embed_signal).
THEOREM RowsCountedOnce == Spec => []CountedOnce
<1>1. TypeOK /\ CountedInv => CountedOnce
  <2> SUFFICES ASSUME TypeOK, CountedInv PROVE CountedOnce
    OBVIOUS
  <2>1. PICK T \in SUBSET stored : \E F \in [Fills -> SUBSET Rows] : Attributed(T, F)
    BY DEF CountedInv
  <2>2. PICK F \in [Fills -> SUBSET Rows] : Attributed(T, F)
    BY <2>1
  <2>3. \A b \in Fills : F[b] \subseteq Rows /\ F[b] \cap T = {}
    BY <2>2 DEF Attributed
  <2>4. F \in [Fills -> SUBSET (Rows \ T)]
    BY <2>3
  <2>5. T \in SUBSET Rows
    BY DEF Rows
  <2> QED
    BY <2>2, <2>4, <2>5 DEF CountedOnce
<1>2. Spec => []CountedInv
  BY InitTypes, StepTypes, InitCounts, StepCounts, PTL DEF Spec
<1> QED
  BY <1>1, <1>2, FillInvariant, PTL

-----------------------------------------------------------------------------
(***************************************************************************)
(* How a search fuses what the vectors and the words find.  First: the     *)
(* arithmetic of the scores.                                               *)
(***************************************************************************)
LEMMA TimesMore ==
    ASSUME NEW x \in Nat, NEW y \in Nat, NEW z \in Nat
    PROVE  /\ x * z \in Nat /\ x * z = z * x
           /\ x <= y => x * z <= y * z
           /\ x < y /\ z # 0 => x * z < y * z
<1>1. x * z \in Nat /\ y * z \in Nat /\ x * z = z * x
  OBVIOUS
<1>2. ASSUME x <= y PROVE x * z <= y * z
  <2>1. PICK d \in Nat : y = x + d
    BY <1>2
  <2>2. y * z = x * z + d * z /\ d * z \in Nat
    BY <2>1
  <2> QED
    BY <1>1, <2>2
<1>3. ASSUME x < y, z # 0 PROVE x * z < y * z
  <2>1. PICK d \in Nat : y = x + 1 + d
    <3>1. y - x - 1 \in Nat /\ y = x + 1 + (y - x - 1)
      BY <1>3
    <3> QED
      BY <3>1
  <2>2. y * z = x * z + z + d * z /\ d * z \in Nat
    BY <2>1
  <2> QED
    BY <1>1, <1>3, <2>2
<1> QED
  BY <1>1, <1>2, <1>3

Fraction == Nat \X (Nat \ {0})

\* Cross-multiplied, the order of fractions is an order: what is not more, with something
\* more, stays so.
LEMMA MoreOrders ==
    ASSUME NEW a \in Fraction, NEW b \in Fraction, NEW c \in Fraction
    PROVE  /\ ~(More(a, b) /\ More(b, a))
           /\ ~More(b, a) /\ ~More(c, b) => ~More(c, a)
           /\ More(a, b) /\ ~More(c, b) => More(a, c)
           /\ ~More(b, a) /\ More(b, c) => More(a, c)
<1>0. PICK p \in Nat, q \in Nat, r \in Nat, s \in Nat, t \in Nat, u \in Nat :
         /\ a = <<p, q>> /\ b = <<r, s>> /\ c = <<t, u>> /\ q # 0 /\ s # 0 /\ u # 0
  <2>1. \A x \in Fraction : x[1] \in Nat /\ x[2] \in Nat /\ x[2] # 0 /\ x = <<x[1], x[2]>>
    BY DEF Fraction
  <2> QED
    BY <2>1
<1>1. /\ More(a, b) <=> p * s > r * q
      /\ More(b, a) <=> r * q > p * s
      /\ More(b, c) <=> r * u > t * s
      /\ More(c, b) <=> t * s > r * u
      /\ More(a, c) <=> p * u > t * q
      /\ More(c, a) <=> t * q > p * u
  BY <1>0 DEF More
<1>2. /\ p * s \in Nat /\ r * q \in Nat /\ r * u \in Nat /\ t * s \in Nat /\ p * u \in Nat /\ t * q \in Nat
  BY <1>0
<1>3. /\ (p * s) * u = (p * u) * s /\ (r * q) * u = (r * u) * q /\ (t * s) * q = (t * q) * s
  BY <1>0
<1>4. ASSUME r * q <= p * s, t * s <= r * u PROVE t * q <= p * u
  <2>1. (r * q) * u <= (p * s) * u /\ (t * s) * q <= (r * u) * q
    BY <1>0, <1>2, <1>4, TimesMore
  <2>2. (t * q) * s <= (p * u) * s
    BY <1>2, <1>3, <2>1
  <2>3. p * u < t * q => (p * u) * s < (t * q) * s
    BY <1>0, <1>2, TimesMore
  <2> QED
    BY <1>0, <1>2, <2>2, <2>3
<1>5. ASSUME r * q < p * s, t * s <= r * u PROVE t * q < p * u
  <2>1. (r * q) * u < (p * s) * u /\ (t * s) * q <= (r * u) * q
    BY <1>0, <1>2, <1>5, TimesMore
  <2>2. (t * q) * s < (p * u) * s
    BY <1>2, <1>3, <2>1
  <2>3. p * u <= t * q => (p * u) * s <= (t * q) * s
    BY <1>0, <1>2, TimesMore
  <2> QED
    BY <1>0, <1>2, <2>2, <2>3
<1>6. ASSUME r * q <= p * s, t * s < r * u PROVE t * q < p * u
  <2>1. (r * q) * u <= (p * s) * u /\ (t * s) * q < (r * u) * q
    BY <1>0, <1>2, <1>6, TimesMore
  <2>2. (t * q) * s < (p * u) * s
    BY <1>0, <1>2, <1>3, <2>1
  <2>3. p * u <= t * q => (p * u) * s <= (t * q) * s
    BY <1>0, <1>2, TimesMore
  <2> QED
    BY <1>0, <1>2, <2>2, <2>3
<1> QED
  BY <1>1, <1>2, <1>4, <1>5, <1>6

\* One position against one, two against two.
LEMMA BetterRanks ==
    ASSUME NEW r \in Nat \ {0}, NEW q \in Nat \ {0}, NEW s \in Nat \ {0}, NEW t \in Nat \ {0}
    PROVE  /\ One(r) \in Fraction /\ Two(r, q) \in Fraction
           /\ r < s => More(One(r), One(s))
           /\ r < s /\ q < t => More(Two(r, q), Two(s, t))
<1> DEFINE a == K + r
           b == K + q
           c == K + s
           d == K + t
<1>1. a \in Nat /\ b \in Nat /\ c \in Nat /\ d \in Nat /\ a # 0 /\ b # 0 /\ c # 0 /\ d # 0
  BY FusionAssumption DEF FusionAssumption
<1>2. r < s => a < c
  BY FusionAssumption DEF FusionAssumption
<1>3. q < t => b < d
  BY FusionAssumption DEF FusionAssumption
<1>4. One(r) = <<1, a>> /\ One(s) = <<1, c>> /\ Two(r, q) = <<a + b, a * b>> /\ Two(s, t) = <<c + d, c * d>>
  BY DEF One, Two
<1> HIDE DEF a, b, c, d
<1>5. a * b \in Nat /\ a * b # 0
  <2>1. 0 * b < a * b
    BY <1>1, TimesMore
  <2> QED
    BY <1>1, <2>1
<1>6. ASSUME r < s PROVE More(One(r), One(s))
  BY <1>1, <1>2, <1>4, <1>6 DEF More
<1>7. ASSUME r < s, q < t PROVE More(Two(r, q), Two(s, t))
  <2>1. a < c /\ b < d
    BY <1>2, <1>3, <1>7
  <2>2. c * d \in Nat /\ a * c \in Nat /\ b * d \in Nat /\ a * c # 0 /\ b * d # 0
    <3>1. 0 * c < a * c /\ 0 * d < b * d
      BY <1>1, TimesMore
    <3> QED
      BY <1>1, <3>1
  <2>3. b * (a * c) < d * (a * c) /\ a * (b * d) < c * (b * d)
    BY <1>1, <2>1, <2>2, TimesMore
  <2>4. (a + b) * (c * d) = d * (a * c) + c * (b * d)
    BY <1>1
  <2>5. (c + d) * (a * b) = b * (a * c) + a * (b * d)
    BY <1>1
  <2>6. /\ b * (a * c) \in Nat /\ d * (a * c) \in Nat /\ a * (b * d) \in Nat /\ c * (b * d) \in Nat
    BY <1>1, <2>2
  <2> QED
    BY <1>4, <2>3, <2>4, <2>5, <2>6 DEF More
<1> QED
  BY <1>1, <1>4, <1>5, <1>6, <1>7 DEF Fraction

\* Two positions beat one: any within the pool, because K + 1 is as deep as the pool goes;
\* and without that bound, one that is as good as the single one.
LEMMA TwoBeatOne ==
    ASSUME NEW r \in Nat \ {0}, NEW q \in Nat \ {0}, NEW s \in Nat \ {0},
           (r <= Pool /\ q <= Pool) \/ r <= s \/ q <= s
    PROVE  More(Two(r, q), One(s))
<1> DEFINE a == K + r
           b == K + q
           c == K + s
<1>1. a \in Nat /\ b \in Nat /\ c \in Nat /\ a # 0 /\ b # 0 /\ c # 0
  BY FusionAssumption DEF FusionAssumption
<1>2. r <= s => a <= c
  BY FusionAssumption DEF FusionAssumption
<1>3. q <= s => b <= c
  BY FusionAssumption DEF FusionAssumption
<1>4. r <= Pool /\ q <= Pool => a + 1 <= c + c /\ b + 1 <= c + c
  BY FusionAssumption DEF FusionAssumption
<1>5. One(s) = <<1, c>> /\ Two(r, q) = <<a + b, a * b>>
  BY DEF One, Two
<1> HIDE DEF a, b, c
<1>6. a * b \in Nat /\ a * c \in Nat /\ b * c \in Nat /\ a * c # 0 /\ b * c # 0 /\ a * b # 0
  <2>1. 0 * c < a * c /\ 0 * c < b * c /\ 0 * b < a * b
    BY <1>1, TimesMore
  <2> QED
    BY <1>1, <2>1
<1>7. (a + b) * c = a * c + b * c /\ 1 * (a * b) = a * b
  BY <1>1
<1>8. CASE a <= c
  <2>1. a * b <= c * b /\ c * b = b * c
    BY <1>1, <1>8, TimesMore
  <2> QED
    BY <1>5, <1>6, <1>7, <2>1 DEF More
<1>9. CASE b <= c
  <2>1. b * a <= c * a /\ c * a = a * c /\ b * a = a * b
    BY <1>1, <1>9, TimesMore
  <2> QED
    BY <1>5, <1>6, <1>7, <2>1 DEF More
<1>10. CASE a + 1 <= c + c /\ b + 1 <= c + c
  <2>1. (b + 1) * a <= (c + c) * a /\ (a + 1) * b <= (c + c) * b
    BY <1>1, <1>10, TimesMore
  <2>2. /\ (b + 1) * a = a * b + a /\ (c + c) * a = a * c + a * c
        /\ (a + 1) * b = a * b + b /\ (c + c) * b = b * c + b * c
    BY <1>1
  <2>3. a * b < a * c + b * c
    BY <1>1, <1>6, <2>1, <2>2
  <2> QED
    BY <1>5, <1>6, <1>7, <2>3 DEF More
<1> QED
  BY <1>2, <1>3, <1>4, <1>8, <1>9, <1>10

-----------------------------------------------------------------------------
(***************************************************************************)
(* The order of a search's hits.                                           *)
(***************************************************************************)

\* A candidate's place in a list.
LEMMA RankFacts ==
    ASSUME NEW S, NEW l \in Lists(S), NEW h, InList(l, h)
    PROVE  /\ Rank(l, h) \in Nat \ {0} /\ Rank(l, h) <= Pool
           /\ Rank(l, h) \in DOMAIN l /\ l[Rank(l, h)] = h
<1>1. PICK n \in 0..Pool : l \in [1..n -> S]
  BY DEF Lists
<1>2. Rank(l, h) \in DOMAIN l /\ l[Rank(l, h)] = h
  BY DEF InList, Rank
<1>3. n \in Nat /\ n <= Pool /\ Pool \in Nat /\ Rank(l, h) \in 1..n
  BY <1>1, <1>2, FusionAssumption DEF FusionAssumption
<1> QED
  BY <1>2, <1>3

\* Different candidates have different places.
LEMMA RanksDiffer ==
    ASSUME NEW S, NEW l \in Lists(S), NEW g, NEW h, InList(l, g), InList(l, h), g # h
    PROVE  Rank(l, g) # Rank(l, h)
  BY RankFacts

LEMMA CandidateFacts ==
    ASSUME NEW S \in SUBSET Nat, NEW f \in Lists(S), NEW v \in Lists(S), NEW h \in Candidates(f, v)
    PROVE  /\ InList(f, h) \/ InList(v, h)
           /\ h \in Nat
           /\ Score(f, v, h) \in Fraction
<1>1. InList(f, h) \/ InList(v, h)
  BY DEF Candidates, Range, InList
<1>2. \A l \in Lists(S) : \A i \in DOMAIN l : l[i] \in S
  BY DEF Lists
<1>3. h \in Nat
  BY <1>1, <1>2 DEF InList
<1>4. InList(f, h) => Rank(f, h) \in Nat \ {0}
  BY RankFacts
<1>5. InList(v, h) => Rank(v, h) \in Nat \ {0}
  BY RankFacts
<1>6. Score(f, v, h) \in Fraction
  <2>1. CASE Both(f, v, h)
    BY <1>4, <1>5, <2>1, BetterRanks DEF Both, Score
  <2>2. CASE ~Both(f, v, h) /\ InList(f, h)
    BY <1>4, <2>2, BetterRanks DEF Score
  <2>3. CASE ~Both(f, v, h) /\ InList(v, h) /\ ~InList(f, h)
    BY <1>5, <2>3, BetterRanks DEF Score
  <2> QED
    BY <1>1, <2>1, <2>2, <2>3
<1> QED
  BY <1>1, <1>3, <1>6

\* Before orders the candidates: the hits of a search do not depend on the order in which
\* a dictionary hands them over.
LEMMA BeforeOrders ==
    ASSUME NEW S \in SUBSET Nat, NEW f \in Lists(S), NEW v \in Lists(S)
    PROVE  /\ \A h \in Candidates(f, v) : ~Before(f, v, h, h)
           /\ \A g, h \in Candidates(f, v) : g # h => Before(f, v, g, h) \/ Before(f, v, h, g)
           /\ \A g, h, k \in Candidates(f, v) : Before(f, v, g, h) /\ Before(f, v, h, k) => Before(f, v, g, k)
<1>1. \A h \in Candidates(f, v) : h \in Nat /\ Score(f, v, h) \in Fraction
  BY CandidateFacts
<1>2. ASSUME NEW h \in Candidates(f, v) PROVE ~Before(f, v, h, h)
  <2>1. ~More(Score(f, v, h), Score(f, v, h))
    BY <1>1, MoreOrders
  <2> QED
    BY <1>1, <2>1 DEF Before
<1>3. ASSUME NEW g \in Candidates(f, v), NEW h \in Candidates(f, v), g # h
      PROVE  Before(f, v, g, h) \/ Before(f, v, h, g)
  <2>1. g < h \/ h < g
    BY <1>1, <1>3
  <2> QED
    BY <2>1 DEF Before
<1>4. ASSUME NEW g \in Candidates(f, v), NEW h \in Candidates(f, v), NEW k \in Candidates(f, v),
             Before(f, v, g, h), Before(f, v, h, k)
      PROVE  Before(f, v, g, k)
  <2> DEFINE a == Score(f, v, g)
             b == Score(f, v, h)
             c == Score(f, v, k)
  <2>1. a \in Fraction /\ b \in Fraction /\ c \in Fraction /\ g \in Nat /\ h \in Nat /\ k \in Nat
    BY <1>1
  <2>2. (More(a, b) \/ (~More(b, a) /\ g < h)) /\ (More(b, c) \/ (~More(c, b) /\ h < k))
    BY <1>4 DEF Before
  <2>3. More(a, c) \/ (~More(c, a) /\ g < k) => Before(f, v, g, k)
    BY DEF Before
  <2> HIDE DEF a, b, c
  <2>4. /\ More(a, b) => ~More(b, a)
        /\ More(b, c) => ~More(c, b)
        /\ ~More(b, a) /\ ~More(c, b) => ~More(c, a)
        /\ More(a, b) /\ ~More(c, b) => More(a, c)
        /\ ~More(b, a) /\ More(b, c) => More(a, c)
    BY <2>1, MoreOrders
  <2>5. g < h /\ h < k => g < k
    BY <2>1
  <2> QED
    BY <2>2, <2>3, <2>4, <2>5
<1> QED
  BY <1>2, <1>3, <1>4

\* What comes first: both lists, and what is at least as high in every list.
LEMMA BetterIsFirst ==
    ASSUME NEW S \in SUBSET Nat, NEW f \in Lists(S), NEW v \in Lists(S),
           NEW g \in Candidates(f, v), NEW h \in Candidates(f, v), Before(f, v, g, h)
    PROVE  /\ Both(f, v, h) => Both(f, v, g)
           /\ ~(AtLeastAsHigh(f, h, g) /\ AtLeastAsHigh(v, h, g))
<1>1. ~More(Score(f, v, h), Score(f, v, g))
  <2>1. Score(f, v, g) \in Fraction /\ Score(f, v, h) \in Fraction
    BY CandidateFacts
  <2> QED
    BY <2>1, MoreOrders DEF Before
<1>2. g # h
  BY BeforeOrders
<1>3. /\ InList(f, g) => Rank(f, g) \in Nat \ {0} /\ Rank(f, g) <= Pool
      /\ InList(v, g) => Rank(v, g) \in Nat \ {0} /\ Rank(v, g) <= Pool
      /\ InList(f, h) => Rank(f, h) \in Nat \ {0} /\ Rank(f, h) <= Pool
      /\ InList(v, h) => Rank(v, h) \in Nat \ {0} /\ Rank(v, h) <= Pool
  BY RankFacts
<1>4. InList(f, g) \/ InList(v, g)
  BY CandidateFacts
<1>5. ASSUME Both(f, v, h), ~Both(f, v, g) PROVE FALSE
  <2>1. PICK s \in Nat \ {0} : Score(f, v, g) = One(s)
    BY <1>3, <1>4, <1>5 DEF Score, Both
  <2>2. More(Two(Rank(f, h), Rank(v, h)), One(s))
    BY <1>3, <1>5, TwoBeatOne DEF Both
  <2> QED
    BY <1>1, <1>5, <2>1, <2>2 DEF Score
<1>6. ASSUME AtLeastAsHigh(f, h, g), AtLeastAsHigh(v, h, g) PROVE FALSE
  <2>1. InList(f, g) => InList(f, h) /\ Rank(f, h) < Rank(f, g)
    <3>1. InList(f, g) => InList(f, h) /\ Rank(f, h) <= Rank(f, g)
      BY <1>6 DEF AtLeastAsHigh
    <3>2. InList(f, g) /\ InList(f, h) => Rank(f, h) # Rank(f, g)
      BY <1>2, RanksDiffer
    <3> QED
      BY <1>3, <3>1, <3>2
  <2>2. InList(v, g) => InList(v, h) /\ Rank(v, h) < Rank(v, g)
    <3>1. InList(v, g) => InList(v, h) /\ Rank(v, h) <= Rank(v, g)
      BY <1>6 DEF AtLeastAsHigh
    <3>2. InList(v, g) /\ InList(v, h) => Rank(v, h) # Rank(v, g)
      BY <1>2, RanksDiffer
    <3> QED
      BY <1>3, <3>1, <3>2
  <2>3. CASE InList(f, g) /\ InList(v, g)
    <3>1. More(Two(Rank(f, h), Rank(v, h)), Two(Rank(f, g), Rank(v, g)))
      BY <1>3, <2>1, <2>2, <2>3, BetterRanks
    <3> QED
      BY <1>1, <2>1, <2>2, <2>3, <3>1 DEF Score, Both
  <2>4. CASE InList(f, g) /\ ~InList(v, g)
    <3>1. Score(f, v, g) = One(Rank(f, g)) /\ InList(f, h) /\ Rank(f, h) < Rank(f, g)
      BY <2>1, <2>4 DEF Score, Both
    <3>2. CASE InList(v, h)
      <4>1. Rank(f, h) <= Rank(f, g)
        BY <1>3, <2>4, <3>1
      <4>2. More(Two(Rank(f, h), Rank(v, h)), One(Rank(f, g)))
        BY <1>3, <2>4, <3>1, <3>2, <4>1, TwoBeatOne
      <4> QED
        BY <1>1, <3>1, <3>2, <4>2 DEF Score, Both
    <3>3. CASE ~InList(v, h)
      <4>1. More(One(Rank(f, h)), One(Rank(f, g)))
        BY <1>3, <2>4, <3>1, BetterRanks
      <4> QED
        BY <1>1, <3>1, <3>3, <4>1 DEF Score, Both
    <3> QED
      BY <3>2, <3>3
  <2>5. CASE ~InList(f, g) /\ InList(v, g)
    <3>1. Score(f, v, g) = One(Rank(v, g)) /\ InList(v, h) /\ Rank(v, h) < Rank(v, g)
      BY <2>2, <2>5 DEF Score, Both
    <3>2. CASE InList(f, h)
      <4>1. Rank(v, h) <= Rank(v, g)
        BY <1>3, <2>5, <3>1
      <4>2. More(Two(Rank(f, h), Rank(v, h)), One(Rank(v, g)))
        BY <1>3, <2>5, <3>1, <3>2, <4>1, TwoBeatOne
      <4> QED
        BY <1>1, <3>1, <3>2, <4>2 DEF Score, Both
    <3>3. CASE ~InList(f, h)
      <4>1. More(One(Rank(v, h)), One(Rank(v, g)))
        BY <1>3, <2>5, <3>1, BetterRanks
      <4> QED
        BY <1>1, <3>1, <3>3, <4>1 DEF Score, Both
    <3> QED
      BY <3>2, <3>3
  <2> QED
    BY <1>4, <2>3, <2>4, <2>5
<1> QED
  BY <1>5, <1>6

-----------------------------------------------------------------------------
(***************************************************************************)
(* Sorting.                                                                *)
(***************************************************************************)

Orders(R, S) ==
    /\ \A x, y \in S : x # y => <<x, y>> \in R \/ <<y, x>> \in R
    /\ \A x, y, z \in S : <<x, y>> \in R /\ <<y, z>> \in R => <<x, z>> \in R

Listing(R, S, n, s) ==
    /\ s \in [1..n -> S]
    /\ \A i, j \in 1..n : i < j => <<s[i], s[j]>> \in R
    /\ \A x \in S : \E i \in 1..n : s[i] = x

\* A finite set that a relation orders can be listed in that order.
LEMMA SortExists ==
    ASSUME NEW U, NEW R, NEW S \in SUBSET U, IsFiniteSet(S), Orders(R, U)
    PROVE  \E s : Listing(R, S, Cardinality(S), s)
<1>0. /\ \A x, y \in U : x # y => <<x, y>> \in R \/ <<y, x>> \in R
      /\ \A x, y, z \in U : <<x, y>> \in R /\ <<y, z>> \in R => <<x, z>> \in R
  BY DEF Orders
<1> USE <1>0 DEF Listing
<1> DEFINE Bad == {n \in Nat : \E T \in SUBSET U : IsFiniteSet(T) /\ Cardinality(T) = n /\ ~\E s : Listing(R, T, n, s)}
<1>1. Bad = {}
  <2> SUFFICES ASSUME Bad # {} PROVE FALSE
    OBVIOUS
  <2>1. Bad \in SUBSET Nat
    OBVIOUS
  <2>2. PICK n \in Bad : \A m \in Bad : n <= m
    <3>1. Least(Bad) \in Bad /\ \A m \in Bad : Least(Bad) <= m
      BY <2>1, LeastIsLeast
    <3> QED
      BY <3>1
  <2>3. PICK T \in SUBSET U : IsFiniteSet(T) /\ Cardinality(T) = n /\ ~\E s : Listing(R, T, n, s)
    OBVIOUS
  <2>4. n \in Nat
    OBVIOUS
  <2>5. CASE T = {}
    <3>1. n = 0
      BY <2>3, <2>5, FS_EmptySet
    <3>2. Listing(R, {}, 0, [i \in 1..0 |-> i])
      OBVIOUS
    <3> QED
      BY <2>3, <2>5, <3>1, <3>2
  <2>6. CASE T # {}
    <3>1. PICK x \in T : TRUE
      BY <2>6
    <3>2. PICK V : V = T \ {x}
      OBVIOUS
    <3>3. IsFiniteSet(V) /\ Cardinality(V) = n - 1 /\ n - 1 \in Nat
      <4>1. IsFiniteSet(T \ {x}) /\ Cardinality(T \ {x}) = Cardinality(T) - 1
        BY <2>3, <3>1, FS_RemoveElement
      <4>2. Cardinality(T \ {x}) \in Nat
        BY <4>1, FS_CardinalityType
      <4> QED
        BY <2>3, <3>2, <4>1, <4>2
    <3>4. \E s : Listing(R, V, n - 1, s)
      <4>1. n - 1 \notin Bad
        <5> HIDE DEF Bad
        <5>1. n - 1 \in Bad => n <= n - 1
          BY <2>2
        <5> QED
          BY <2>4, <5>1
      <4>2. V \in SUBSET U
        BY <3>2
      <4> QED
        BY <3>3, <4>1, <4>2
    <3>5. PICK s : Listing(R, V, n - 1, s)
      BY <3>4
    <3> DEFINE P == {i \in 1..n : i = n \/ <<x, s[i]>> \in R}
               p == Least(P)
               t == [i \in 1..n |-> IF i < p THEN s[i] ELSE IF i = p THEN x ELSE s[i - 1]]
    <3>6. p \in 1..n /\ (p = n \/ <<x, s[p]>> \in R) /\ \A i \in 1..n : i < p => i # n /\ <<x, s[i]>> \notin R
      <4>1. P \in SUBSET Nat /\ n \in P
        BY <2>4, <3>3
      <4>2. p \in P /\ \A i \in P : p <= i
        BY <4>1, LeastIsLeast
      <4> HIDE DEF p
      <4> QED
        BY <2>4, <4>2
    <3> HIDE DEF p, P, Bad
    <3>7. /\ s \in [1..(n - 1) -> V]
          /\ \A i, j \in 1..(n - 1) : i < j => <<s[i], s[j]>> \in R
          /\ \A y \in V : \E i \in 1..(n - 1) : s[i] = y
      BY <3>5
    <3> HIDE DEF Listing
    <3>8. \A i \in 1..(n - 1) : s[i] \in T /\ s[i] \in U /\ s[i] # x
      BY <3>2, <3>7
    <3>9. t \in [1..n -> T]
      <4> SUFFICES ASSUME NEW i \in 1..n PROVE t[i] \in T
        OBVIOUS
      <4>1. CASE i < p
        BY <2>4, <3>6, <3>8, <4>1
      <4>2. CASE i = p
        BY <3>1, <4>2
      <4>3. CASE i > p
        BY <2>4, <3>6, <3>8, <4>3
      <4> QED
        BY <2>4, <3>6, <4>1, <4>2, <4>3
    <3>10. ASSUME NEW i \in 1..n, NEW j \in 1..n, i < j PROVE <<t[i], t[j]>> \in R
      <4>1. /\ i < p => t[i] = s[i] /\ i \in 1..(n - 1)
            /\ i = p => t[i] = x
            /\ i > p => t[i] = s[i - 1] /\ i - 1 \in 1..(n - 1)
            /\ j < p => t[j] = s[j] /\ j \in 1..(n - 1)
            /\ j = p => t[j] = x
            /\ j > p => t[j] = s[j - 1] /\ j - 1 \in 1..(n - 1)
        BY <2>4, <3>6
      <4> HIDE DEF t
      <4>2. CASE j < p
        <5>1. i < p
          BY <2>4, <3>6, <3>10, <4>2
        <5> QED
          BY <3>7, <3>10, <4>1, <4>2, <5>1
      <4>3. CASE j = p
        <5>1. i < p
          BY <3>10, <4>3
        <5>2. <<x, s[i]>> \notin R /\ s[i] \in U /\ s[i] # x /\ x \in U
          BY <3>1, <3>6, <3>8, <4>1, <5>1
        <5>3. <<s[i], x>> \in R
          BY <5>2
        <5> QED
          BY <4>1, <4>3, <5>1, <5>3
      <4>4. CASE i < p /\ j > p
        <5>1. i < j - 1
          BY <2>4, <3>6, <4>4
        <5> QED
          BY <3>7, <4>1, <4>4, <5>1
      <4>5. CASE i = p /\ j > p
        <5>1. p # n /\ <<x, s[p]>> \in R /\ p \in 1..(n - 1)
          BY <2>4, <3>6, <4>5
        <5>2. p = j - 1 \/ p < j - 1
          BY <2>4, <3>6, <4>5
        <5>3. CASE p = j - 1
          BY <4>1, <4>5, <5>1, <5>3
        <5>4. CASE p < j - 1
          <6>1. <<s[p], s[j - 1]>> \in R /\ s[p] \in U /\ s[j - 1] \in U /\ x \in U
            BY <3>1, <3>7, <3>8, <4>1, <4>5, <5>1, <5>4
          <6>2. <<x, s[j - 1]>> \in R
            BY <5>1, <6>1
          <6> QED
            BY <4>1, <4>5, <6>2
        <5> QED
          BY <5>2, <5>3, <5>4
      <4>6. CASE i > p
        <5>1. j > p /\ i - 1 < j - 1
          BY <2>4, <3>6, <3>10, <4>6
        <5> QED
          BY <3>7, <4>1, <4>6, <5>1
      <4> QED
        BY <2>4, <3>6, <3>10, <4>2, <4>3, <4>4, <4>5, <4>6
    <3>11. ASSUME NEW y \in T PROVE \E i \in 1..n : t[i] = y
      <4>1. CASE y = x
        BY <3>6, <4>1
      <4>2. CASE y # x
        <5>1. PICK k \in 1..(n - 1) : s[k] = y
          BY <3>2, <3>7, <4>2
        <5>2. CASE k < p
          BY <2>4, <3>6, <5>1, <5>2
        <5>3. CASE k >= p
          <6>1. k + 1 \in 1..n /\ ~(k + 1 < p) /\ k + 1 # p /\ (k + 1) - 1 = k
            BY <2>4, <3>3, <3>6, <5>3
          <6>2. t[k + 1] = y
            BY <5>1, <6>1
          <6> QED
            BY <6>1, <6>2
        <5> QED
          BY <2>4, <3>6, <5>2, <5>3
      <4> QED
        BY <4>1, <4>2
    <3>12. Listing(R, T, n, t)
      BY <3>9, <3>10, <3>11 DEF Listing
    <3> QED
      BY <2>3, <3>12
  <2> QED
    BY <2>5, <2>6
<1>2. Cardinality(S) \in Nat
  BY FS_CardinalityType
<1>3. \E s : Listing(R, S, Cardinality(S), s)
  BY <1>1, <1>2
<1> QED
  BY <1>3

\* ... and that is how Sorted lists it: each element once, in the order.
LEMMA SortedLists ==
    ASSUME NEW S, NEW R, IsFiniteSet(S), Orders(R, S), \A x \in S : <<x, x>> \notin R
    PROVE  /\ Listing(R, S, Cardinality(S), Sorted(R, S))
           /\ Sorted(R, S) \in Bijection(1..Cardinality(S), S)
<1> DEFINE N == Cardinality(S)
           r == Sorted(R, S)
<1>1. N \in Nat
  BY FS_CardinalityType
<1>2. S \in SUBSET S
  OBVIOUS
<1>3. PICK s : Listing(R, S, N, s)
  BY <1>2, SortExists
<1>4. r \in [1..N -> S] /\ \A i, j \in DOMAIN r : i < j => <<r[i], r[j]>> \in R
  <2>1. s \in [1..N -> S] /\ \A i, j \in DOMAIN s : i < j => <<s[i], s[j]>> \in R
    BY <1>3 DEF Listing
  <2> QED
    BY <2>1 DEF Sorted
<1> HIDE DEF r
<1>5. r \in Injection(1..N, S)
  <2>1. ASSUME NEW i \in 1..N, NEW j \in 1..N, r[i] = r[j] PROVE i = j
    <3>1. ~(i < j) /\ ~(j < i)
      BY <1>4, <2>1
    <3> QED
      BY <1>1, <3>1
  <2> QED
    BY <1>4, <2>1 DEF Injection, IsInjective
<1>6. r \in Surjection(1..N, S)
  <2>1. IsFiniteSet(1..N) /\ Cardinality(1..N) = N
    BY <1>1, FS_Interval
  <2> QED
    BY <1>5, <2>1, FS_Injection
<1>7. \A x \in S : \E i \in 1..N : r[i] = x
  BY <1>6 DEF Surjection
<1> QED
  BY <1>4, <1>5, <1>6, <1>7 DEF Bijection, Listing, r

LEMMA CandidatesFinite ==
    ASSUME NEW S, NEW f \in Lists(S), NEW v \in Lists(S)
    PROVE  IsFiniteSet(Candidates(f, v))
<1>1. ASSUME NEW l \in Lists(S) PROVE IsFiniteSet(Range(l))
  <2>1. PICK n \in 0..Pool : l \in [1..n -> S]
    BY DEF Lists
  <2>2. n \in Int
    BY FusionAssumption DEF FusionAssumption
  <2>3. l \in Surjection(1..n, Range(l))
    BY <2>1 DEF Surjection, Range
  <2>4. IsFiniteSet(1..n)
    BY <2>2, FS_Interval
  <2> QED
    BY <2>3, <2>4, FS_Surjection
<1> QED
  BY <1>1, FS_Union DEF Candidates

InOrder(f, v, s) == \A i, j \in DOMAIN s : i < j => Before(f, v, s[i], s[j])

\* The fused list holds every candidate once, in the order of the scores: there is such a
\* list for any two lists of candidates (search.py, reciprocal_rank_fusion).
THEOREM FusedIsRanking ==
    ASSUME NEW S \in SUBSET Nat, NEW f \in Lists(S), NEW v \in Lists(S)
    PROVE  /\ Fused(f, v) \in Bijection(1..Cardinality(Candidates(f, v)), Candidates(f, v))
           /\ InOrder(f, v, Fused(f, v))
<1> DEFINE C == Candidates(f, v)
           R == {e \in C \X C : Before(f, v, e[1], e[2])}
<1>1. IsFiniteSet(C)
  BY CandidatesFinite
<1>2. /\ \A h \in C : ~Before(f, v, h, h)
      /\ \A g, h \in C : g # h => Before(f, v, g, h) \/ Before(f, v, h, g)
      /\ \A g, h, k \in C : Before(f, v, g, h) /\ Before(f, v, h, k) => Before(f, v, g, k)
  BY BeforeOrders
<1>3. \A x, y : <<x, y>> \in R <=> x \in C /\ y \in C /\ Before(f, v, x, y)
  OBVIOUS
<1>4. Fused(f, v) = Sorted(R, C)
  BY DEF Fused
<1> HIDE DEF C, R
<1>5. Orders(R, C) /\ \A x \in C : <<x, x>> \notin R
  BY <1>2, <1>3 DEF Orders
<1>6. /\ Listing(R, C, Cardinality(C), Fused(f, v))
      /\ Fused(f, v) \in Bijection(1..Cardinality(C), C)
  BY <1>1, <1>4, <1>5, SortedLists
<1>7. InOrder(f, v, Fused(f, v))
  BY <1>3, <1>6 DEF Listing, InOrder
<1> QED
  BY <1>6, <1>7 DEF C

\* For every K, and every pool no deeper than K + 1: a hit of both methods comes before
\* every hit of one, and none comes before a hit that is at least as high in every list
\* (search.py, reciprocal_rank_fusion, "agreement across methods is the signal").
THEOREM AgreementWins ==
    ASSUME NEW S \in SUBSET Nat, NEW f \in Lists(S), NEW v \in Lists(S)
    PROVE  AgreementLeads(f, v, Fused(f, v))
<1>1. Fused(f, v) \in [1..Cardinality(Candidates(f, v)) -> Candidates(f, v)] /\ InOrder(f, v, Fused(f, v))
  BY FusedIsRanking DEF Bijection, Injection
<1>2. ASSUME NEW i \in DOMAIN Fused(f, v), NEW j \in DOMAIN Fused(f, v), i < j
      PROVE  /\ Fused(f, v)[i] \in Candidates(f, v) /\ Fused(f, v)[j] \in Candidates(f, v)
             /\ Before(f, v, Fused(f, v)[i], Fused(f, v)[j])
  BY <1>1, <1>2 DEF InOrder
<1> QED
  BY <1>2, BetterIsFirst DEF AgreementLeads

-----------------------------------------------------------------------------
(***************************************************************************)
(* What a search answers.                                                  *)
(***************************************************************************)

KeptAt(s, P, pos) ==
    /\ pos \in [1..Cardinality(P) -> P]
    /\ \A i, j \in 1..Cardinality(P) : i < j => pos[i] < pos[j]
    /\ \A k \in P : \E i \in 1..Cardinality(P) : pos[i] = k
    /\ Kept(s, P) = [i \in 1..Cardinality(P) |-> s[pos[i]]]

\* The kept members of a list are those at the given positions, one after the other.
LEMMA KeptFacts ==
    ASSUME NEW n \in Nat, NEW s, NEW P \in SUBSET (1..n)
    PROVE  /\ IsFiniteSet(P) /\ Cardinality(P) \in Nat
           /\ \E pos : KeptAt(s, P, pos)
<1> DEFINE R == {e \in P \X P : e[1] < e[2]}
<1>1. \A x, y : <<x, y>> \in R <=> x \in P /\ y \in P /\ x < y
  OBVIOUS
<1>2. PICK pos : pos = Sorted(R, P)
  OBVIOUS
<1>3. Kept(s, P) = [i \in 1..Cardinality(P) |-> s[pos[i]]]
  BY <1>2 DEF Kept
<1> HIDE DEF R
<1>4. Orders(R, P) /\ \A x \in P : <<x, x>> \notin R
  BY <1>1 DEF Orders
<1>5. IsFiniteSet(P)
  <2>1. IsFiniteSet(1..n)
    BY FS_Interval
  <2> QED
    BY <2>1, FS_Subset
<1>6. Listing(R, P, Cardinality(P), pos)
  BY <1>2, <1>4, <1>5, SortedLists
<1>7. KeptAt(s, P, pos)
  BY <1>1, <1>3, <1>6 DEF KeptAt, Listing
<1> QED
  BY <1>5, <1>7, FS_CardinalityType

Smaller(a, b) == IF a < b THEN a ELSE b

\* The hits are the first of the fusion that have a row, in its order.
LEMMA HitsKeep ==
    ASSUME NEW S \in SUBSET Nat, NEW f \in Lists(S), NEW v \in Lists(S), NEW limit \in Nat, NEW found
    PROVE  LET C == Candidates(f, v)
               M == Smaller(limit, Cardinality(C))
               hits == Hits(f, v, limit, found)
           IN  /\ Cardinality(C) \in Nat
               /\ \E m \in 0..M : /\ hits \in Injection(1..m, C \cap found)
                                  /\ M <= m + Cardinality(C \ found)
               /\ AgreementLeads(f, v, hits)
<1> DEFINE C == Candidates(f, v)
           N == Cardinality(C)
           s == Fused(f, v)
           P == {i \in DOMAIN s : i <= limit /\ s[i] \in found}
           M == Smaller(limit, N)
           m == Cardinality(P)
<1>1. N \in Nat /\ IsFiniteSet(C)
  BY CandidatesFinite, FS_CardinalityType
<1>2. s \in [1..N -> C] /\ \A i, j \in 1..N : s[i] = s[j] => i = j
  <2>1. s \in Bijection(1..N, C)
    BY FusedIsRanking
  <2> HIDE DEF s, N, C
  <2> QED
    BY <2>1 DEF Bijection, Injection, IsInjective
<1>3. AgreementLeads(f, v, s)
  BY AgreementWins
<1>4. Hits(f, v, limit, found) = Kept(s, P)
  BY DEF Hits
<1> HIDE DEF C, N, s
<1>5. M \in Nat /\ M <= N /\ 1..M \subseteq 1..N
  BY <1>1 DEF Smaller
<1>6. P \subseteq 1..M /\ P \subseteq 1..N /\ \A i \in (1..M) \ P : s[i] \in C \ found
  BY <1>1, <1>2, <1>5 DEF Smaller
<1>7. \A i \in P : s[i] \in C \cap found
  BY <1>2, <1>6
<1> HIDE DEF P, M
<1>8. IsFiniteSet(P) /\ m \in Nat
  BY <1>1, <1>6, KeptFacts
<1>9. PICK pos : KeptAt(s, P, pos)
  BY <1>1, <1>6, KeptFacts
<1>10. m <= M /\ M <= m + Cardinality(C \ found)
  <2>1. IsFiniteSet(1..M) /\ Cardinality(1..M) = M
    BY <1>5, FS_Interval
  <2>2. m <= M
    BY <1>6, <2>1, FS_Subset
  <2> DEFINE Q == (1..M) \ P
             lost == [i \in Q |-> s[i]]
  <2>3. (1..M) \cap P = P
    BY <1>6
  <2>4. IsFiniteSet(Q) /\ Cardinality(Q) = M - m
    <3>1. IsFiniteSet(Q) /\ Cardinality(Q) = Cardinality(1..M) - Cardinality((1..M) \cap P)
      BY <2>1, FS_Difference
    <3> HIDE DEF Q
    <3> QED
      BY <2>1, <2>3, <3>1
  <2>5. lost \in Injection(Q, C \ found)
    <3>1. lost \in [Q -> C \ found]
      BY <1>6
    <3>2. \A i, j \in Q : lost[i] = lost[j] => i = j
      BY <1>2, <1>5
    <3> HIDE DEF Q, lost
    <3> QED
      BY <3>1, <3>2 DEF Injection, IsInjective
  <2> HIDE DEF Q, lost
  <2>6. IsFiniteSet(C \ found) /\ Cardinality(C \ found) \in Nat
    BY <1>1, FS_Subset, FS_CardinalityType
  <2>7. Cardinality(Q) <= Cardinality(C \ found)
    BY <2>4, <2>5, <2>6, FS_Injection
  <2> QED
    BY <1>5, <1>8, <2>2, <2>4, <2>6, <2>7
<1> HIDE DEF m
<1> DEFINE h == [i \in 1..m |-> s[pos[i]]]
<1>11. /\ pos \in [1..m -> P] /\ Kept(s, P) = h
       /\ \A i, j \in 1..m : i < j => pos[i] < pos[j]
  BY <1>9 DEF KeptAt, m
<1>12. h \in [1..m -> C \cap found]
  BY <1>7, <1>11
<1>13. \A i, j \in 1..m : h[i] = h[j] => i = j
  <2> SUFFICES ASSUME NEW i \in 1..m, NEW j \in 1..m, h[i] = h[j] PROVE i = j
    OBVIOUS
  <2>1. pos[i] \in 1..N /\ pos[j] \in 1..N
    BY <1>6, <1>11
  <2>2. s[pos[i]] = s[pos[j]]
    OBVIOUS
  <2>3. pos[i] = pos[j] /\ pos[i] \in Nat
    BY <1>1, <1>2, <2>1, <2>2
  <2>4. ~(i < j) /\ ~(j < i)
    BY <1>11, <2>3
  <2> QED
    BY <1>8, <2>4
<1>14. AgreementLeads(f, v, h)
  <2> SUFFICES ASSUME NEW i \in DOMAIN h, NEW j \in DOMAIN h, i < j
               PROVE  /\ Both(f, v, h[j]) => Both(f, v, h[i])
                      /\ ~(AtLeastAsHigh(f, h[j], h[i]) /\ AtLeastAsHigh(v, h[j], h[i]))
    BY DEF AgreementLeads
  <2>1. pos[i] \in DOMAIN s /\ pos[j] \in DOMAIN s /\ pos[i] < pos[j] /\ h[i] = s[pos[i]] /\ h[j] = s[pos[j]]
    BY <1>2, <1>6, <1>11
  <2> HIDE DEF h
  <2> QED
    BY <1>3, <2>1 DEF AgreementLeads
<1> HIDE DEF h
<1>15. h \in Injection(1..m, C \cap found)
  BY <1>12, <1>13 DEF Injection, IsInjective
<1>16. m \in 0..M
  BY <1>5, <1>8, <1>10 DEF m
<1>17. Hits(f, v, limit, found) = h
  BY <1>4, <1>11
<1> QED
  BY <1>1, <1>10, <1>14, <1>15, <1>16, <1>17 DEF C, N, M

SearchInv == TypeOK /\ SearchTypeOK /\ NothingVanishes /\ AgreementFirst

LEMMA ListsGrow ==
    ASSUME NEW S, NEW T, S \subseteq T
    PROVE  Lists(S) \subseteq Lists(T)
<1> SUFFICES ASSUME NEW l \in Lists(S) PROVE l \in Lists(T)
  OBVIOUS
<1>1. PICK n \in 0..Pool : l \in [1..n -> S]
  BY DEF Lists
<1>2. l \in [1..n -> T]
  BY <1>1
<1> QED
  BY <1>2 DEF Lists

LEMMA NoCandidates == ASSUME NEW S PROVE <<>> \in Lists(S)
<1>1. <<>> \in [1..0 -> S] /\ IsInjective(<<>>)
  BY DEF IsInjective
<1>2. 0 \in 0..Pool
  BY FusionAssumption DEF FusionAssumption
<1> QED
  BY <1>1, <1>2 DEF Lists

\* Neither the tasks nor the backfills take away what a search has found.
LEMMA CorpusGrows == TypeOK /\ [Next]_vars => signals \subseteq signals'
<1>1. ASSUME NEW b \in Fills, FillStep(b) PROVE signals' = signals
  BY <1>1 DEF FillStep, Vectorised, Abort, Crash, Insert, InsertRow, Commit
<1>2. ASSUME NEW s \in Slots, TaskStep(s) PROVE signals' = signals
  BY <1>2 DEF TaskStep, Check, Answered, Refused, Dies
<1>3. BeatTick => signals' = signals
  BY DEF BeatTick, Sweep
<1>4. UNCHANGED vars => signals' = signals
  BY DEF vars
<1> QED
  BY <1>1, <1>2, <1>3, <1>4 DEF Next, Arrive, StoreTask, Scraped, Start

LEMMA SearchInit1 == SearchInit => SearchInv
<1> SUFFICES ASSUME SearchInit PROVE SearchInv
  OBVIOUS
<1>1. TypeOK
  BY InitTypes DEF SearchInit
<1>2. SearchTypeOK
  BY NoCandidates DEF SearchInit, SearchTypeOK
<1>3. req.step = "start"
  BY DEF SearchInit
<1> QED
  BY <1>1, <1>2, <1>3 DEF SearchInv, NothingVanishes, AgreementFirst

\* While the corpus is written the request waits.
LEMMA WriteKeepsSearch == ASSUME SearchInv, [Next]_vars, UNCHANGED req PROVE SearchInv'
<1>1. TypeOK'
  BY StepTypes DEF SearchInv
<1>2. signals \subseteq signals'
  BY CorpusGrows DEF SearchInv
<1>3. Lists(signals) \subseteq Lists(signals') /\ Seq(signals) \subseteq Seq(signals')
  BY <1>2, ListsGrow
<1>4. SearchTypeOK'
  BY <1>2, <1>3 DEF SearchInv, SearchTypeOK
<1> QED
  BY <1>1, <1>4 DEF SearchInv, NothingVanishes, Orphans, AgreementFirst

LEMMA HydrateKeeps == ASSUME SearchInv, Hydrate PROVE SearchInv'
<1>1. TypeOK /\ SearchTypeOK /\ UNCHANGED vars /\ UNCHANGED signals
  BY DEF SearchInv, Hydrate, Answer, vars
<1>2. TypeOK'
  BY <1>1, StutterKeeps
<1>3. /\ req.fts \in Lists(Hashes) /\ req.vec \in Lists(Hashes) /\ req.limit \in Nat /\ Hashes \in SUBSET Nat
      /\ Range(req.fts) \cup req.posted \subseteq signals
  <2>1. req.fts \in Lists(signals) /\ req.vec \in Lists(Hashes) /\ req.limit \in Asked \cup {0}
        /\ req.posted \subseteq signals
    BY <1>1 DEF SearchTypeOK
  <2>2. signals \subseteq Hashes
    BY <1>1 DEF TypeOK
  <2>3. Asked \cup {0} \subseteq Nat
    BY SearchAssumption DEF SearchAssumption
  <2>4. Hashes \subseteq Nat
    BY EmbeddingAssumption DEF EmbeddingAssumption
  <2>5. Lists(signals) \subseteq Lists(Hashes)
    BY <2>2, ListsGrow
  <2>6. Range(req.fts) \subseteq signals
    BY <2>1 DEF Lists, Range
  <2> QED
    BY <2>1, <2>3, <2>4, <2>5, <2>6
<1>4. PICK f, v, hits : f = req.fts /\ v = req.vec /\ hits = Hits(req.fts, req.vec, req.limit, signals)
  OBVIOUS
<1>5. req' = [req EXCEPT !.step = "answered", !.hits = hits]
  BY <1>4 DEF Hydrate, Answer
<1>6. req'.step = "answered" /\ req'.fts = f /\ req'.vec = v /\ req'.limit = req.limit /\ req'.hits = hits
      /\ req'.posted = req.posted
  BY <1>1, <1>4, <1>5 DEF SearchTypeOK
<1> DEFINE C == Candidates(f, v)
           M == Smaller(req.limit, Cardinality(C))
<1>7. /\ Cardinality(C) \in Nat
      /\ \E m \in 0..M : hits \in Injection(1..m, C \cap signals) /\ M <= m + Cardinality(C \ signals)
      /\ AgreementLeads(f, v, hits)
  BY <1>3, <1>4, HitsKeep
<1>8. C \ signals \subseteq Orphans' /\ Orphans' \subseteq C
  BY <1>3, <1>4, <1>6 DEF Orphans, Candidates
<1>9. Cardinality(C \ signals) <= Cardinality(Orphans') /\ Cardinality(C \ signals) \in Nat /\ Cardinality(Orphans') \in Nat
  <2>1. IsFiniteSet(C)
    BY <1>3, <1>4, CandidatesFinite
  <2> HIDE DEF C
  <2>2. IsFiniteSet(Orphans') /\ IsFiniteSet(C \ signals)
    BY <1>8, <2>1, FS_Subset
  <2> QED
    BY <1>8, <2>2, FS_Subset, FS_CardinalityType
<1>10. hits \in Seq(signals) /\ NothingVanishes' /\ AgreementFirst'
  <2>1. PICK m \in 0..M : hits \in Injection(1..m, C \cap signals) /\ M <= m + Cardinality(C \ signals)
    BY <1>7
  <2>2. M \in Nat
    BY <1>3, <1>7 DEF Smaller
  <2> HIDE DEF C
  <2>3. m \in Nat /\ m <= M /\ hits \in [1..m -> C \cap signals] /\ IsInjective(hits)
    BY <2>1, <2>2 DEF Injection
  <2>4. hits \in Seq(signals) /\ Len(hits) = m /\ Range(hits) \subseteq C
    BY <2>3 DEF Range
  <2>5. Len(hits) <= M /\ M <= Len(hits) + Cardinality(Orphans')
    BY <1>9, <2>1, <2>2, <2>3, <2>4
  <2>6. NothingVanishes'
    BY <1>6, <2>3, <2>4, <2>5 DEF NothingVanishes, Smaller, C
  <2>7. AgreementFirst'
    BY <1>6, <1>7 DEF AgreementFirst
  <2> QED
    BY <2>4, <2>6, <2>7
<1>11. SearchTypeOK'
  BY <1>1, <1>5, <1>10 DEF SearchTypeOK
<1> QED
  BY <1>2, <1>10, <1>11 DEF SearchInv

LEMMA SearchKeeps == SearchInv /\ [SearchNext]_searchVars => SearchInv'
<1> SUFFICES ASSUME SearchInv, [SearchNext]_searchVars PROVE SearchInv'
  OBVIOUS
<1>1. ASSUME [Next]_vars, UNCHANGED req PROVE SearchInv'
  BY <1>1, WriteKeepsSearch
<1>2. ASSUME UNCHANGED vars, SearchTypeOK', req'.step # "answered" PROVE SearchInv'
  BY <1>2, StutterKeeps DEF SearchInv, NothingVanishes, AgreementFirst
<1>3. SearchTypeOK
  BY DEF SearchInv
<1>4. ASSUME NEW limit \in Asked, NEW semantic \in BOOLEAN, EmbedQuery(limit, semantic) PROVE SearchInv'
  BY <1>2, <1>3, <1>4 DEF EmbedQuery, SearchTypeOK, vars
<1>5. CASE QueryFails
  BY <1>2, <1>3, <1>5 DEF QueryFails, SearchTypeOK, vars
<1>6. ASSUME NEW list \in Lists(signals \cap Captioned), FtsCandidates(list) PROVE SearchInv'
  <2>1. list \in Lists(signals)
    BY ListsGrow
  <2> QED
    BY <1>2, <1>3, <1>6, <2>1 DEF FtsCandidates, SearchTypeOK, vars
<1>7. ASSUME NEW list \in Lists(stored), VectorCandidates(list) PROVE SearchInv'
  <2>1. stored \subseteq Hashes
    BY DEF SearchInv, TypeOK
  <2>2. list \in Lists(Hashes)
    BY <2>1, ListsGrow
  <2> QED
    BY <1>2, <1>3, <1>7, <2>2 DEF VectorCandidates, SearchTypeOK, vars
<1>8. CASE UNCHANGED searchVars
  BY <1>1, <1>8 DEF searchVars
<1> QED
  BY <1>1, <1>4, <1>5, <1>6, <1>7, <1>8, HydrateKeeps DEF SearchNext, SearchStep

THEOREM SearchInvariant == SearchSpec => []SearchInv
  BY SearchInit1, SearchKeeps, PTL DEF SearchSpec

\* A request for the themes only reads: a search beside it is a search (clusters.py,
\* get_signal_clusters).
LEMMA ThemesOnlyRead == RetrievalSpec => SearchSpec
<1>1. RetrievalInit => SearchInit
  BY DEF RetrievalInit
<1>2. [RetrievalNext]_<<searchVars, week>> => [SearchNext]_searchVars
  BY DEF RetrievalNext
<1> QED
  BY <1>1, <1>2, PTL DEF RetrievalSpec, SearchSpec

\* However the corpus grows between its statements, a search returns as many different hits
\* as it was asked for or found, short of at most the vectors whose post had been rolled back
\* or not yet stored when they were ranked (search.py, hybrid_search, _hydrate; the rollback
\* is that of scrape.py:106).
THEOREM HitsKeepTheirRows == RetrievalSpec => []NothingVanishes
<1>1. SearchInv => NothingVanishes
  BY DEF SearchInv
<1> QED
  BY <1>1, SearchInvariant, ThemesOnlyRead, PTL

\* For every K, and every pool no deeper than K + 1, agreement across methods leads in what
\* is answered, at any limit (search.py, hybrid_search).
THEOREM AgreementAnswered == RetrievalSpec => []AgreementFirst
<1>1. SearchInv => AgreementFirst
  BY DEF SearchInv
<1> QED
  BY <1>1, SearchInvariant, ThemesOnlyRead, PTL

-----------------------------------------------------------------------------
(***************************************************************************)
(* What the clusters of a week are.                                        *)
(***************************************************************************)

Ranked == week.relevance \in [Hashes -> Relevances]

\* Relevance, then the hash, order the posts.
LEMMA StrongerOrders ==
    ASSUME Ranked
    PROVE  /\ \A h \in Hashes : ~Stronger(h, h)
           /\ \A g, h \in Hashes : g # h => Stronger(g, h) \/ Stronger(h, g)
           /\ \A g, h, k \in Hashes : Stronger(g, h) /\ Stronger(h, k) => Stronger(g, k)
<1>1. \A h \in Hashes : week.relevance[h] \in Nat /\ h \in Nat
  BY EmbeddingAssumption, ThemesAssumption DEF Ranked, EmbeddingAssumption, ThemesAssumption
<1>2. ASSUME NEW g \in Hashes, NEW h \in Hashes, NEW k \in Hashes, Stronger(g, h), Stronger(h, k) PROVE Stronger(g, k)
  BY <1>1, <1>2 DEF Stronger
<1> QED
  BY <1>1, <1>2 DEF Stronger

LEMMA StrongerIsStrict ==
    ASSUME Ranked, NEW g \in Hashes, NEW h \in Hashes, Stronger(g, h)
    PROVE  ~Stronger(h, g) /\ g # h
  BY StrongerOrders

\* c is the seed and whatever it absorbs, once each.
Absorbed(c, seed, rows, taken) ==
    /\ c \in Seq(Hashes) /\ c # <<>> /\ c[1] = seed /\ IsInjective(c)
    /\ \A h : h \in ToSet(c) <=> h = seed \/ (h \in ToSet(rows) /\ h \notin taken /\ Near(seed, h))

LEMMA AbsorbFacts ==
    ASSUME NEW seed \in Hashes, NEW n \in Nat, NEW rows \in [1..n -> Hashes], NEW taken
    PROVE  Absorbed(Absorb(seed, rows, taken), seed, rows, taken)
<1> DEFINE Q(k) == rows[k] \notin taken \cup {seed} /\ Near(seed, rows[k])
           P == {k \in DOMAIN rows : Q(k) /\ \A j \in DOMAIN rows : rows[j] = rows[k] => k <= j}
<1>1. \A k \in P : k \in 1..n /\ Q(k) /\ \A j \in 1..n : rows[j] = rows[k] => k <= j
  OBVIOUS
<1>2. ASSUME NEW k \in 1..n, Q(k) PROVE \E p \in P : rows[p] = rows[k]
  <2> DEFINE S == {j \in 1..n : rows[j] = rows[k]}
  <2>1. S \in SUBSET Nat /\ S # {}
    BY <1>2
  <2>2. PICK p : p = Least(S)
    OBVIOUS
  <2>3. p \in S /\ \A j \in S : p <= j
    BY <2>1, <2>2, LeastIsLeast
  <2>4. p \in 1..n /\ rows[p] = rows[k]
    BY <2>3
  <2>5. p \in P
    BY <1>2, <2>3, <2>4
  <2> QED
    BY <2>4, <2>5
<1>3. Absorb(seed, rows, taken) = <<seed>> \o Kept(rows, P)
  BY DEF Absorb
<1>4. P \in SUBSET (1..n)
  OBVIOUS
<1> HIDE DEF P
<1>5. PICK m, pos : m = Cardinality(P) /\ m \in Nat /\ KeptAt(rows, P, pos)
  <2>1. Cardinality(P) \in Nat /\ \E pos : KeptAt(rows, P, pos)
    BY <1>4, KeptFacts
  <2> QED
    BY <2>1
<1> DEFINE q == [i \in 1..m |-> rows[pos[i]]]
<1>6. /\ pos \in [1..m -> P] /\ \A i, j \in 1..m : i < j => pos[i] < pos[j]
      /\ \A k \in P : \E i \in 1..m : pos[i] = k
      /\ Absorb(seed, rows, taken) = <<seed>> \o q
  BY <1>3, <1>5 DEF KeptAt
<1>7. \A i \in 1..m : pos[i] \in P /\ pos[i] \in 1..n /\ q[i] = rows[pos[i]] /\ q[i] \in Hashes
  BY <1>4, <1>6
<1>8. q \in Seq(Hashes) /\ Len(q) = m
  BY <1>5, <1>7
<1> HIDE DEF q
<1> DEFINE c == <<seed>> \o q
<1>9. /\ c \in Seq(Hashes) /\ DOMAIN c = 1..(m + 1) /\ c[1] = seed
      /\ \A i \in 1..m : c[i + 1] = q[i]
  BY <1>5, <1>8
<1> HIDE DEF c
<1>10. \A i \in 2..(m + 1) : i - 1 \in 1..m /\ c[i] = q[i - 1]
  <2> SUFFICES ASSUME NEW i \in 2..(m + 1) PROVE i - 1 \in 1..m /\ c[i] = q[i - 1]
    OBVIOUS
  <2>1. i - 1 \in 1..m /\ (i - 1) + 1 = i
    BY <1>5
  <2> QED
    BY <1>9, <2>1
<1>11. \A i \in 1..m : q[i] # seed /\ q[i] \notin taken /\ Near(seed, q[i]) /\ q[i] \in ToSet(rows)
  <2> SUFFICES ASSUME NEW i \in 1..m
               PROVE q[i] # seed /\ q[i] \notin taken /\ Near(seed, q[i]) /\ q[i] \in ToSet(rows)
    OBVIOUS
  <2>1. pos[i] \in P /\ pos[i] \in 1..n /\ q[i] = rows[pos[i]]
    BY <1>7
  <2> QED
    BY <1>1, <2>1 DEF ToSet
<1>12. \A i, j \in 1..m : q[i] = q[j] => i = j
  <2> SUFFICES ASSUME NEW i \in 1..m, NEW j \in 1..m, q[i] = q[j] PROVE i = j
    OBVIOUS
  <2>1. rows[pos[i]] = rows[pos[j]] /\ pos[i] \in P /\ pos[j] \in P /\ pos[i] \in 1..n /\ pos[j] \in 1..n
    BY <1>7
  <2>2. pos[i] <= pos[j] /\ pos[j] <= pos[i]
    BY <1>1, <2>1
  <2>3. ~(i < j) /\ ~(j < i)
    BY <1>6, <2>1, <2>2
  <2> QED
    BY <1>5, <2>3
<1>13. IsInjective(c)
  <2> SUFFICES ASSUME NEW i \in 1..(m + 1), NEW j \in 1..(m + 1), c[i] = c[j] PROVE i = j
    BY <1>9 DEF IsInjective
  <2>1. CASE i = 1
    <3>1. j \in 2..(m + 1) => c[j] # seed
      BY <1>10, <1>11
    <3> QED
      BY <1>5, <1>9, <2>1, <3>1
  <2>2. CASE j = 1
    <3>1. i \in 2..(m + 1) => c[i] # seed
      BY <1>10, <1>11
    <3> QED
      BY <1>5, <1>9, <2>2, <3>1
  <2>3. CASE i # 1 /\ j # 1
    <3>1. i \in 2..(m + 1) /\ j \in 2..(m + 1)
      BY <1>5, <2>3
    <3>2. q[i - 1] = q[j - 1] /\ i - 1 \in 1..m /\ j - 1 \in 1..m
      BY <1>10, <3>1
    <3>3. i - 1 = j - 1
      BY <1>12, <3>2
    <3> QED
      BY <1>5, <3>3
  <2> QED
    BY <2>1, <2>2, <2>3
<1>14. ASSUME NEW h PROVE h \in ToSet(c) <=> h = seed \/ (h \in ToSet(rows) /\ h \notin taken /\ Near(seed, h))
  <2>1. ASSUME NEW i \in 1..(m + 1), h = c[i]
        PROVE  h = seed \/ (h \in ToSet(rows) /\ h \notin taken /\ Near(seed, h))
    <3>1. CASE i = 1
      BY <1>9, <2>1, <3>1
    <3>2. CASE i # 1
      <4>1. i \in 2..(m + 1)
        BY <1>5, <3>2
      <4> QED
        BY <1>10, <1>11, <2>1, <4>1
    <3> QED
      BY <3>1, <3>2
  <2>2. seed \in ToSet(c)
    BY <1>5, <1>9 DEF ToSet
  <2>3. ASSUME h # seed, h \in ToSet(rows), h \notin taken, Near(seed, h) PROVE h \in ToSet(c)
    <3>1. PICK k \in 1..n : h = rows[k]
      BY <2>3 DEF ToSet
    <3>2. PICK p \in P : rows[p] = h
      BY <1>2, <2>3, <3>1
    <3>3. PICK i \in 1..m : pos[i] = p
      BY <1>6
    <3>4. q[i] = h /\ i + 1 \in 1..(m + 1)
      BY <1>5, <1>7, <3>2, <3>3
    <3> QED
      BY <1>9, <3>4 DEF ToSet
  <2>4. h \in ToSet(c) => \E i \in 1..(m + 1) : h = c[i]
    BY <1>9 DEF ToSet
  <2> QED
    BY <2>1, <2>2, <2>3, <2>4
<1>15. c # <<>>
  BY <1>5, <1>9
<1>16. Absorbed(c, seed, rows, taken)
  BY <1>9, <1>13, <1>14, <1>15 DEF Absorbed
<1> QED
  BY <1>6, <1>16 DEF c

\* The rows of a week, strongest first, those of one hash next to each other.
InRowOrder(rows, n) ==
    /\ n \in Nat /\ rows \in [1..n -> Hashes]
    /\ \A p, q \in 1..n : p < q => rows[p] = rows[q] \/ Stronger(rows[p], rows[q])

\* Cluster i of the loop: led by one of the first k rows, injective, near and behind its
\* leader; what is near the leader went to this cluster or to an earlier one; and later
\* clusters have other posts and a weaker leader.
ClusterOK(rows, k, clusters, i) ==
    /\ clusters[i] # <<>> /\ IsInjective(clusters[i]) /\ ToSet(clusters[i]) \subseteq ToSet(rows)
    /\ \E p \in 1..k : clusters[i][1] = rows[p]
    /\ \A h \in ToSet(clusters[i]) \ {clusters[i][1]} : Near(clusters[i][1], h) /\ Stronger(clusters[i][1], h)
    /\ \A h \in ToSet(rows) : Near(clusters[i][1], h) => \E j \in 1..i : h \in ToSet(clusters[j])
    /\ \A j \in DOMAIN clusters : i < j => /\ ToSet(clusters[i]) \cap ToSet(clusters[j]) = {}
                                          /\ Stronger(clusters[i][1], clusters[j][1])

\* The loop after k rows.
Looped(rows, k, clusters) ==
    /\ clusters \in Seq(Seq(Hashes))
    /\ \A p \in 1..k : rows[p] \in Assigned(clusters)
    /\ \A i \in DOMAIN clusters : ClusterOK(rows, k, clusters, i)

LEMMA VisitKeeps ==
    ASSUME Ranked, NEW n \in Nat, NEW rows, InRowOrder(rows, n), NEW k \in 0..(n - 1), NEW clusters, Looped(rows, k, clusters)
    PROVE  Looped(rows, k + 1, Visit(clusters, rows[k + 1], rows))
<1> DEFINE row == rows[k + 1]
           taken == Assigned(clusters)
           m == Len(clusters)
<1>1. /\ k \in Nat /\ k + 1 \in 1..n /\ row \in Hashes /\ rows \in [1..n -> Hashes]
      /\ \A p \in 1..(k + 1) : p \in 1..k \/ p = k + 1
      /\ 1..k \subseteq 1..(k + 1) /\ k + 1 \in 1..(k + 1)
  BY DEF InRowOrder
<1>2. clusters \in Seq(Seq(Hashes)) /\ m \in Nat /\ DOMAIN clusters = 1..m
  BY DEF Looped
<1>3. \A p \in 1..k : rows[p] \in taken
  BY DEF Looped
<1>4. \A i \in 1..m : ClusterOK(rows, k, clusters, i)
  BY <1>2 DEF Looped
<1>5. \A h : h \in taken <=> \E i \in 1..m : h \in ToSet(clusters[i])
  BY <1>2 DEF Assigned
<1>6. CASE row \in taken
  <2>1. Visit(clusters, rows[k + 1], rows) = clusters
    BY <1>6 DEF Visit
  <2>2. \A p \in 1..(k + 1) : rows[p] \in taken
    BY <1>1, <1>3, <1>6
  <2>3. \A i \in 1..m : ClusterOK(rows, k + 1, clusters, i)
    BY <1>1, <1>4 DEF ClusterOK
  <2> QED
    BY <1>2, <2>1, <2>2, <2>3 DEF Looped
<1>7. CASE row \notin taken
  <2>1. PICK c : c = Absorb(row, rows, taken) /\ Absorbed(c, row, rows, taken)
    <3> HIDE DEF row, taken
    <3> QED
      BY <1>1, AbsorbFacts
  <2> DEFINE d == Append(clusters, c)
  <2>2. Visit(clusters, rows[k + 1], rows) = d
    BY <1>7, <2>1 DEF Visit
  <2>3. /\ c \in Seq(Hashes) /\ c # <<>> /\ c[1] = row /\ IsInjective(c)
        /\ \A h : h \in ToSet(c) <=> h = row \/ (h \in ToSet(rows) /\ h \notin taken /\ Near(row, h))
    BY <2>1 DEF Absorbed
  <2>4. /\ d \in Seq(Seq(Hashes)) /\ DOMAIN d = 1..(m + 1)
        /\ \A i \in 1..m : d[i] = clusters[i]
        /\ d[m + 1] = c
    BY <1>2, <2>3
  <2>5. \A i \in 1..(m + 1) : i \in 1..m \/ i = m + 1
    BY <1>2
  <2> HIDE DEF d
  <2>6. /\ \A h : h \in taken => h \in Assigned(d)
        /\ row \in Assigned(d)
    <3>1. \A h : (\E i \in 1..(m + 1) : h \in ToSet(d[i])) => h \in Assigned(d)
      BY <2>4 DEF Assigned
    <3>2. m + 1 \in 1..(m + 1) /\ 1..m \subseteq 1..(m + 1)
      BY <1>2
    <3>3. row \in ToSet(d[m + 1])
      BY <2>3, <2>4
    <3>4. ASSUME NEW h \in taken PROVE h \in Assigned(d)
      <4>1. PICK i \in 1..m : h \in ToSet(clusters[i])
        BY <1>5
      <4> QED
        BY <2>4, <3>1, <3>2, <4>1
    <3> HIDE DEF taken
    <3> QED
      BY <3>1, <3>2, <3>3, <3>4
  <2>7. \A p \in 1..(k + 1) : rows[p] \in Assigned(d)
    BY <1>1, <1>3, <2>6
  <2>8. row \in ToSet(rows)
    BY <1>1 DEF ToSet
  <2>9. ToSet(c) \subseteq ToSet(rows)
    BY <2>3, <2>8
  <2>10. \A h \in ToSet(c) : h \notin taken
    BY <1>7, <2>3
  <2>11. \A i \in 1..m : Stronger(clusters[i][1], row) /\ clusters[i][1] \in taken
    <3> SUFFICES ASSUME NEW i \in 1..m PROVE Stronger(clusters[i][1], row) /\ clusters[i][1] \in taken
      OBVIOUS
    <3>1. PICK p \in 1..k : clusters[i][1] = rows[p]
      BY <1>4 DEF ClusterOK
    <3>2. p \in 1..n /\ p < k + 1
      BY <1>1
    <3>3. rows[p] = row \/ Stronger(rows[p], row)
      BY <1>1, <3>2 DEF InRowOrder
    <3> QED
      BY <1>3, <1>7, <3>1, <3>3
  <2>12. ASSUME NEW i \in 1..m PROVE ClusterOK(rows, k + 1, d, i)
    <3>1. ClusterOK(rows, k, clusters, i) /\ d[i] = clusters[i]
      BY <1>4, <2>4
    <3>2. \E p \in 1..(k + 1) : d[i][1] = rows[p]
      BY <1>1, <3>1 DEF ClusterOK
    <3>3. ASSUME NEW h \in ToSet(rows), Near(d[i][1], h) PROVE \E j \in 1..i : h \in ToSet(d[j])
      <4>1. PICK j \in 1..i : h \in ToSet(clusters[j])
        BY <3>1, <3>3 DEF ClusterOK
      <4>2. j \in 1..m
        BY <1>2
      <4> QED
        BY <2>4, <4>1, <4>2
    <3>4. ASSUME NEW j \in 1..(m + 1), i < j
          PROVE  ToSet(d[i]) \cap ToSet(d[j]) = {} /\ Stronger(d[i][1], d[j][1])
      <4>1. CASE j \in 1..m
        BY <1>2, <2>4, <3>1, <3>4, <4>1 DEF ClusterOK
      <4>2. CASE j = m + 1
        <5>1. \A h \in ToSet(d[i]) : h \in taken
          BY <1>5, <3>1
        <5> QED
          BY <2>3, <2>4, <2>10, <2>11, <3>1, <4>2, <5>1
      <4> QED
        BY <2>5, <4>1, <4>2
    <3>5. /\ d[i] # <<>> /\ IsInjective(d[i]) /\ ToSet(d[i]) \subseteq ToSet(rows)
          /\ \A h \in ToSet(d[i]) \ {d[i][1]} : Near(d[i][1], h) /\ Stronger(d[i][1], h)
      BY <3>1 DEF ClusterOK
    <3> QED
      BY <2>4, <3>2, <3>3, <3>4, <3>5 DEF ClusterOK
  <2>13. ClusterOK(rows, k + 1, d, m + 1)
    <3>1. d[m + 1] = c /\ DOMAIN d = 1..(m + 1) /\ m + 1 \in 1..(m + 1)
      BY <1>2, <2>4
    <3>2. \E p \in 1..(k + 1) : c[1] = rows[p]
      BY <1>1, <2>3
    <3>3. ASSUME NEW h \in ToSet(c) \ {c[1]} PROVE Near(c[1], h) /\ Stronger(c[1], h)
      <4>1. h # row /\ h \in ToSet(rows) /\ h \notin taken /\ Near(row, h)
        BY <2>3
      <4>2. PICK p \in 1..n : h = rows[p]
        BY <1>1, <4>1 DEF ToSet
      <4>3. p \notin 1..k /\ p # k + 1
        BY <1>3, <4>1, <4>2
      <4>4. k + 1 < p
        BY <1>1, <4>3
      <4>5. rows[k + 1] = rows[p] \/ Stronger(rows[k + 1], rows[p])
        BY <1>1, <4>4 DEF InRowOrder
      <4> QED
        BY <2>3, <4>1, <4>2, <4>5
    <3>4. ASSUME NEW h \in ToSet(rows), Near(c[1], h) PROVE \E j \in 1..(m + 1) : h \in ToSet(d[j])
      <4>1. CASE h \in taken
        <5>1. PICK i \in 1..m : h \in ToSet(clusters[i])
          BY <1>5, <4>1
        <5>2. i \in 1..(m + 1) /\ d[i] = clusters[i]
          BY <1>2, <2>4
        <5> QED
          BY <5>1, <5>2
      <4>2. CASE h \notin taken
        BY <2>3, <3>1, <3>4, <4>2
      <4> QED
        BY <4>1, <4>2
    <3>5. \A j \in DOMAIN d : ~(m + 1 < j)
      BY <1>2, <3>1
    <3> QED
      BY <2>3, <2>9, <3>1, <3>2, <3>3, <3>4, <3>5 DEF ClusterOK
  <2>14. \A i \in DOMAIN d : ClusterOK(rows, k + 1, d, i)
    BY <2>4, <2>5, <2>12, <2>13
  <2> QED
    BY <2>2, <2>4, <2>7, <2>14 DEF Looped
<1> QED
  BY <1>6, <1>7

\* g are the clusters after each of the first k rows.
Loop(g, rows, k) == g = [i \in 0..k |-> IF i = 0 THEN <<>> ELSE Visit(g[i - 1], rows[i], rows)]

\* The loop computes something for any number of rows: there is no least number for which
\* it would not.
LEMMA LoopExists ==
    ASSUME NEW rows, NEW n \in Nat
    PROVE  \E g : Loop(g, rows, n)
<1> DEFINE Bad == {k \in Nat : ~\E g : Loop(g, rows, k)}
<1>1. CASE Bad = {}
  BY <1>1
<1>2. CASE Bad # {}
  <2>1. PICK k : k \in Bad /\ \A j \in Bad : k <= j
    <3>1. Least(Bad) \in Bad /\ \A j \in Bad : Least(Bad) <= j
      BY <1>2, LeastIsLeast
    <3> QED
      BY <3>1
  <2>2. k \in Nat /\ ~\E g : Loop(g, rows, k)
    BY <2>1
  <2>3. CASE k = 0
    <3>1. Loop([i \in 0..0 |-> <<>>], rows, 0)
      BY DEF Loop
    <3> QED
      BY <2>2, <2>3, <3>1
  <2>4. CASE k # 0
    <3>1. k - 1 \in Nat /\ k - 1 \notin Bad
      BY <2>1, <2>2, <2>4
    <3>2. PICK g : Loop(g, rows, k - 1)
      BY <3>1
    <3>3. \A i \in 0..(k - 1) : g[i] = IF i = 0 THEN <<>> ELSE Visit(g[i - 1], rows[i], rows)
      BY <3>2 DEF Loop
    <3> DEFINE f == [i \in 0..k |-> IF i = k THEN Visit(g[k - 1], rows[k], rows) ELSE g[i]]
    <3>4. /\ DOMAIN f = 0..k /\ f = [i \in 0..k |-> f[i]]
          /\ f[k] = Visit(g[k - 1], rows[k], rows)
          /\ \A i \in 0..(k - 1) : f[i] = g[i]
      BY <2>2
    <3> HIDE DEF f
    <3>5. ASSUME NEW i \in 0..k PROVE f[i] = IF i = 0 THEN <<>> ELSE Visit(f[i - 1], rows[i], rows)
      <4>1. CASE i = k
        <5>1. i # 0 /\ i - 1 \in 0..(k - 1) /\ i - 1 = k - 1
          BY <2>2, <2>4, <4>1
        <5> QED
          BY <3>4, <4>1, <5>1
      <4>2. CASE i # k /\ i = 0
        <5>1. 0 \in 0..(k - 1)
          BY <3>1
        <5> QED
          BY <3>3, <3>4, <4>2, <5>1
      <4>3. CASE i # k /\ i # 0
        <5>1. i \in 0..(k - 1) /\ i - 1 \in 0..(k - 1)
          BY <2>2, <4>3
        <5> QED
          BY <3>3, <3>4, <4>3, <5>1
      <4> QED
        BY <4>1, <4>2, <4>3
    <3>6. Loop(f, rows, k)
      BY <3>4, <3>5 DEF Loop
    <3> QED
      BY <2>2, <3>6
  <2> QED
    BY <2>3, <2>4
<1> QED
  BY <1>1, <1>2

\* greedy_cluster keeps the loop's invariant for each row it visits.
LEMMA GreedyLoops ==
    ASSUME Ranked, NEW n \in Nat, NEW rows, InRowOrder(rows, n)
    PROVE  Looped(rows, n, GreedyCluster(rows))
<1>1. rows \in Seq(Hashes) /\ Len(rows) = n
  BY DEF InRowOrder
<1>2. PICK g : Loop(g, rows, n) /\ GreedyCluster(rows) = g[n]
  <2> DEFINE C == CHOOSE f : f = [i \in 0..Len(rows) |-> IF i = 0 THEN <<>> ELSE Visit(f[i - 1], rows[i], rows)]
  <2>1. GreedyCluster(rows) = C[Len(rows)]
    BY DEF GreedyCluster
  <2>2. \E f : f = [i \in 0..Len(rows) |-> IF i = 0 THEN <<>> ELSE Visit(f[i - 1], rows[i], rows)]
    BY <1>1, LoopExists DEF Loop
  <2>3. C = [i \in 0..Len(rows) |-> IF i = 0 THEN <<>> ELSE Visit(C[i - 1], rows[i], rows)]
    BY <2>2
  <2> HIDE DEF C
  <2>4. Loop(C, rows, n)
    BY <1>1, <2>3 DEF Loop
  <2> QED
    BY <1>1, <2>1, <2>4
<1>3. \A i \in 0..n : g[i] = IF i = 0 THEN <<>> ELSE Visit(g[i - 1], rows[i], rows)
  BY <1>2 DEF Loop
<1> DEFINE Bad == {k \in 0..n : ~Looped(rows, k, g[k])}
<1>4. CASE Bad = {}
  BY <1>2, <1>4
<1>5. CASE Bad # {}
  <2>1. PICK k : k \in Bad /\ \A j \in Bad : k <= j
    <3>1. Bad \in SUBSET Nat
      OBVIOUS
    <3>2. Least(Bad) \in Bad /\ \A j \in Bad : Least(Bad) <= j
      BY <1>5, <3>1, LeastIsLeast
    <3> QED
      BY <3>2
  <2>2. k \in 0..n /\ ~Looped(rows, k, g[k])
    BY <2>1
  <2>3. CASE k = 0
    <3>1. g[k] = <<>>
      BY <1>3, <2>2, <2>3
    <3>2. Looped(rows, 0, <<>>)
      BY DEF Looped
    <3> QED
      BY <2>2, <2>3, <3>1, <3>2
  <2>4. CASE k # 0
    <3>1. k - 1 \in 0..(n - 1) /\ k - 1 \in 0..n /\ (k - 1) + 1 = k /\ ~(k <= k - 1)
      BY <2>2, <2>4
    <3>2. Looped(rows, k - 1, g[k - 1])
      BY <2>1, <3>1
    <3>3. g[k] = Visit(g[k - 1], rows[k], rows)
      BY <1>3, <2>2, <2>4
    <3>4. PICK j, clusters : j = k - 1 /\ clusters = g[k - 1]
      OBVIOUS
    <3>5. Looped(rows, j + 1, Visit(clusters, rows[j + 1], rows))
      BY <3>1, <3>2, <3>4, VisitKeeps
    <3> QED
      BY <2>2, <3>1, <3>3, <3>4, <3>5
  <2> QED
    BY <2>3, <2>4
<1> QED
  BY <1>4, <1>5

\* After the last row the clusters are the split that StrongestCover describes.
LEMMA LoopedCovers ==
    ASSUME Ranked, NEW n \in Nat, NEW rows, InRowOrder(rows, n), NEW clusters, Looped(rows, n, clusters)
    PROVE  Covers(rows, clusters)
<1> DEFINE m == Len(clusters)
<1>1. clusters \in Seq(Seq(Hashes)) /\ m \in Nat /\ DOMAIN clusters = 1..m
  BY DEF Looped
<1>2. \A i \in 1..m : ClusterOK(rows, n, clusters, i)
  BY <1>1 DEF Looped
<1>3. rows \in [1..n -> Hashes] /\ \A h \in ToSet(rows) : h \in Hashes
  BY DEF InRowOrder, ToSet
<1>4. \A h : h \in Assigned(clusters) <=> \E i \in 1..m : h \in ToSet(clusters[i])
  BY <1>1 DEF Assigned
<1>5. \A i \in 1..m : /\ clusters[i] # <<>> /\ IsInjective(clusters[i])
                      /\ ToSet(clusters[i]) \subseteq ToSet(rows)
                      /\ \A h \in ToSet(clusters[i]) \ {clusters[i][1]} :
                            Near(clusters[i][1], h) /\ Stronger(clusters[i][1], h)
  BY <1>2 DEF ClusterOK
<1>6. Assigned(clusters) = ToSet(rows)
  <2>1. \A h \in ToSet(rows) : h \in Assigned(clusters)
    <3>1. \A h \in ToSet(rows) : \E p \in 1..n : h = rows[p]
      BY <1>3 DEF ToSet
    <3> QED
      BY <3>1 DEF Looped
  <2>2. \A h \in Assigned(clusters) : h \in ToSet(rows)
    BY <1>4, <1>5
  <2> QED
    BY <2>1, <2>2
<1>7. \A i \in 1..m : clusters[i][1] \in Hashes
  BY <1>2, <1>3 DEF ClusterOK
<1>8. \A i, j \in 1..m : i < j => /\ ToSet(clusters[i]) \cap ToSet(clusters[j]) = {}
                                 /\ Stronger(clusters[i][1], clusters[j][1])
  BY <1>1, <1>2 DEF ClusterOK
<1>9. ASSUME NEW i \in 1..m, NEW j \in 1..m, i # j PROVE ToSet(clusters[i]) \cap ToSet(clusters[j]) = {}
  <2>1. i < j \/ j < i
    BY <1>9
  <2> QED
    BY <1>8, <2>1
<1>10. ASSUME NEW i \in 1..m, NEW j \in 1..m, Stronger(clusters[j][1], clusters[i][1]), NEW h \in ToSet(clusters[i])
       PROVE  ~Near(clusters[j][1], h)
  <2>1. j < i
    <3>1. i # j
      BY <1>7, <1>10, StrongerIsStrict
    <3>2. ~(i < j)
      <4>1. i < j => Stronger(clusters[i][1], clusters[j][1])
        BY <1>8
      <4>2. ~Stronger(clusters[i][1], clusters[j][1])
        BY <1>7, <1>10, StrongerIsStrict
      <4> QED
        BY <4>1, <4>2
    <3> QED
      BY <3>1, <3>2
  <2>2. h \in ToSet(rows)
    BY <1>5, <1>10
  <2>3. Near(clusters[j][1], h) => \E k \in 1..j : h \in ToSet(clusters[k])
    BY <1>2, <2>2 DEF ClusterOK
  <2>4. \A k \in 1..j : k \in 1..m /\ k # i
    BY <2>1
  <2> QED
    BY <1>9, <1>10, <2>3, <2>4
<1> QED
  BY <1>1, <1>5, <1>6, <1>9, <1>10 DEF Covers

\* The joined rows are finitely many, and Python's sort puts them in the order of the rows.
LEMMA JoinedFinite ==
    ASSUME TypeOK, NEW rated
    PROVE  IsFiniteSet(Joined(rated)) /\ \A e \in Joined(rated) : e = <<e[1], e[2]>> /\ e[1] \in Hashes /\ e[2] \in Nat
<1> DEFINE S == rated \cap stored
           copies(h) == {h} \X (1..Copies[h])
           f == [h \in S |-> copies(h)]
           T == {copies(h) : h \in S}
<1>1. S \subseteq Hashes
  BY DEF TypeOK
<1>2. IsFiniteSet(S)
  BY <1>1, ThemesAssumption, FS_Subset DEF ThemesAssumption
<1>3. \A h \in S : Copies[h] \in Nat
  BY <1>1, ThemesAssumption DEF ThemesAssumption
<1>4. ASSUME NEW h \in S PROVE IsFiniteSet(copies(h))
  <2>1. IsFiniteSet({h})
    BY FS_Singleton
  <2>2. Copies[h] \in Int
    BY <1>3
  <2>3. IsFiniteSet(1..Copies[h])
    BY <2>2, FS_Interval
  <2> QED
    BY <2>1, <2>3, FS_Product
<1>5. IsFiniteSet(T)
  <2> HIDE DEF S, copies
  <2>1. f \in Surjection(S, T)
    BY DEF Surjection
  <2> HIDE DEF f, T
  <2> QED
    BY <1>2, <2>1, FS_Surjection
<1>6. IsFiniteSet(UNION T)
  <2>1. \A x \in T : IsFiniteSet(x)
    BY <1>4
  <2> HIDE DEF T
  <2> QED
    BY <1>5, <2>1, FS_UNION
<1>7. Joined(rated) = UNION T
  BY DEF Joined
<1>8. ASSUME NEW e \in Joined(rated) PROVE e = <<e[1], e[2]>> /\ e[1] \in Hashes /\ e[2] \in Nat
  <2>1. PICK h \in S : e \in copies(h)
    BY <1>7
  <2>2. h \in Hashes
    BY <1>1
  <2> HIDE DEF S
  <2> QED
    BY <2>1, <2>2
<1> QED
  BY <1>6, <1>7, <1>8

LEMMA OrderedRows ==
    ASSUME Ranked, NEW items, IsFiniteSet(items),
           \A e \in items : e = <<e[1], e[2]>> /\ e[1] \in Hashes /\ e[2] \in Nat
    PROVE  InRowOrder(Ordered(items), Cardinality(items))
<1> DEFINE R == {e \in items \X items : FirstOf(e[1], e[2])}
           N == Cardinality(items)
<1>1. \A a, b : <<a, b>> \in R <=> a \in items /\ b \in items /\ FirstOf(a, b)
  OBVIOUS
<1>2. N \in Nat
  BY FS_CardinalityType
<1>3. PICK list : list = Sorted(R, items)
  OBVIOUS
<1>4. Ordered(items) = [i \in 1..N |-> list[i][1]]
  BY <1>3 DEF Ordered
<1> HIDE DEF R
<1>5. Orders(R, items) /\ \A x \in items : <<x, x>> \notin R
  <2>1. ASSUME NEW x \in items PROVE ~FirstOf(x, x)
    BY StrongerOrders DEF FirstOf
  <2>2. ASSUME NEW x \in items, NEW y \in items, x # y PROVE FirstOf(x, y) \/ FirstOf(y, x)
    <3>1. x[1] \in Hashes /\ y[1] \in Hashes /\ x[2] \in Nat /\ y[2] \in Nat
      OBVIOUS
    <3>2. CASE x[1] = y[1]
      <4>1. x[2] # y[2]
        BY <2>2, <3>2
      <4> QED
        BY <3>1, <3>2, <4>1 DEF FirstOf
    <3>3. CASE x[1] # y[1]
      BY <3>1, <3>3, StrongerOrders DEF FirstOf
    <3> QED
      BY <3>2, <3>3
  <2>3. ASSUME NEW x \in items, NEW y \in items, NEW z \in items, FirstOf(x, y), FirstOf(y, z) PROVE FirstOf(x, z)
    <3>1. /\ x[1] \in Hashes /\ y[1] \in Hashes /\ z[1] \in Hashes
          /\ x[2] \in Nat /\ y[2] \in Nat /\ z[2] \in Nat
      OBVIOUS
    <3>2. CASE Stronger(x[1], y[1]) /\ Stronger(y[1], z[1])
      <4>1. Stronger(x[1], z[1])
        BY <3>1, <3>2, StrongerOrders
      <4> QED
        BY <4>1 DEF FirstOf
    <3>3. CASE x[1] = y[1] \/ y[1] = z[1]
      BY <2>3, <3>1, <3>3 DEF FirstOf
    <3> QED
      BY <2>3, <3>2, <3>3 DEF FirstOf
  <2> QED
    BY <1>1, <2>1, <2>2, <2>3 DEF Orders
<1>6. Listing(R, items, N, list)
  BY <1>3, <1>5, SortedLists
<1>7. list \in [1..N -> items] /\ \A i, j \in 1..N : i < j => <<list[i], list[j]>> \in R
  BY <1>6 DEF Listing
<1> HIDE DEF N
<1>8. Ordered(items) \in [1..N -> Hashes]
  BY <1>4, <1>7
<1>9. ASSUME NEW p \in 1..N, NEW q \in 1..N, p < q
      PROVE  Ordered(items)[p] = Ordered(items)[q] \/ Stronger(Ordered(items)[p], Ordered(items)[q])
  <2>1. FirstOf(list[p], list[q])
    BY <1>1, <1>7, <1>9
  <2>2. Ordered(items)[p] = list[p][1] /\ Ordered(items)[q] = list[q][1]
    BY <1>4
  <2> QED
    BY <2>1, <2>2 DEF FirstOf
<1> QED
  BY <1>2, <1>8, <1>9 DEF InRowOrder, N

\* A request for the themes, between its two statements and after them.
Fields == {"step", "near", "relevance", "counted", "rows", "clusters", "themes"}

WeekInv ==
    /\ week = [x \in Fields |-> week[x]]
    /\ week.step \in {"start", "rows", "answered"}
    /\ week.step = "rows" => Ranked
    /\ StrongestCover

LEMMA WeekStart == ThemesInit => WeekInv
<1> SUFFICES ASSUME ThemesInit PROVE WeekInv
  OBVIOUS
<1>1. week.step = "start"
  BY DEF ThemesInit
<1>2. week = [x \in Fields |-> week[x]]
  BY DEF ThemesInit, Fields
<1> QED
  BY <1>1, <1>2 DEF WeekInv, StrongestCover

LEMMA WeekWaits == WeekInv /\ UNCHANGED week => WeekInv'
<1> SUFFICES ASSUME WeekInv, week' = week PROVE WeekInv'
  OBVIOUS
<1>1. PICK rows, clusters : rows = week.rows /\ clusters = week.clusters
  OBVIOUS
<1>2. Covers(rows, clusters) => Covers(rows, clusters)'
  BY DEF Covers, Near, Stronger
<1>3. StrongestCover'
  BY <1>1, <1>2 DEF WeekInv, StrongestCover
<1> QED
  BY <1>3 DEF WeekInv, Ranked

LEMMA CountKeeps ==
    ASSUME WeekInv, NEW rated, NEW near, NEW relevance \in [Hashes -> Relevances], CountRated(rated, near, relevance)
    PROVE  WeekInv'
<1>1. week' = [week EXCEPT !.step = "rows", !.near = near, !.relevance = relevance, !.counted = Cardinality(rated)]
  BY DEF CountRated
<1>2. week = [x \in Fields |-> week[x]]
  BY DEF WeekInv
<1>3. week' = [x \in Fields |-> week'[x]] /\ week'.step = "rows" /\ week'.relevance = relevance
  BY <1>1, <1>2 DEF Fields
<1> QED
  BY <1>3 DEF WeekInv, Ranked, StrongestCover

LEMMA ClusterKeeps ==
    ASSUME TypeOK, WeekInv, NEW rated, Cluster(rated)
    PROVE  WeekInv'
<1>1. week.step = "rows" /\ Ranked /\ week = [x \in Fields |-> week[x]]
  BY DEF Cluster, WeekInv
<1>2. PICK n, rows, clusters, themes :
        /\ n = Cardinality(Joined(rated)) /\ rows = Ordered(Joined(rated)) /\ clusters = GreedyCluster(rows)
        /\ themes = Leading(clusters)
  OBVIOUS
<1>3. n \in Nat /\ InRowOrder(rows, n)
  <2>1. /\ IsFiniteSet(Joined(rated))
        /\ \A e \in Joined(rated) : e = <<e[1], e[2]>> /\ e[1] \in Hashes /\ e[2] \in Nat
    BY JoinedFinite
  <2>2. InRowOrder(Ordered(Joined(rated)), Cardinality(Joined(rated)))
    BY <1>1, <2>1, OrderedRows
  <2> QED
    BY <1>2, <2>2 DEF InRowOrder
<1>4. Covers(rows, clusters)
  BY <1>1, <1>2, <1>3, GreedyLoops, LoopedCovers
<1>5. week' = [week EXCEPT !.step = "answered", !.rows = rows, !.clusters = clusters, !.themes = themes]
  BY <1>2 DEF Cluster
<1>6. /\ week' = [x \in Fields |-> week'[x]] /\ week'.step = "answered"
      /\ week'.near = week.near /\ week'.relevance = week.relevance
      /\ week'.rows = rows /\ week'.clusters = clusters
  BY <1>1, <1>5 DEF Fields
<1>7. Covers(rows, clusters)'
  BY <1>4, <1>6 DEF Covers, Near, Stronger
<1>8. StrongestCover'
  BY <1>6, <1>7 DEF StrongestCover
<1> QED
  BY <1>6, <1>8 DEF WeekInv

\* Whatever the week holds, and however often a post was shared, the clusters are the one
\* split in which each post goes to the strongest leader it is near (clusters.py,
\* get_signal_clusters, greedy_cluster).
THEOREM ThemesCover == RetrievalSpec => []StrongestCover
<1>1. RetrievalInit => WeekInv
  BY WeekStart DEF RetrievalInit
<1>2. TypeOK /\ WeekInv /\ [RetrievalNext]_<<searchVars, week>> => WeekInv'
  BY WeekWaits, CountKeeps, ClusterKeeps DEF RetrievalNext, ThemesStep
<1>3. SearchInv => TypeOK
  BY DEF SearchInv
<1>4. WeekInv => StrongestCover
  BY DEF WeekInv
<1> QED
  BY <1>1, <1>2, <1>3, <1>4, SearchInvariant, ThemesOnlyRead, PTL DEF RetrievalSpec

\* The first posts of the clusters.
Leaders(clusters) == {clusters[i][1] : i \in DOMAIN clusters}

\* Among any posts one is the strongest.
LEMMA StrongestExists ==
    ASSUME Ranked, NEW S \in SUBSET Hashes, S # {}
    PROVE  \E h \in S : \A g \in S : ~Stronger(g, h)
<1> DEFINE R == {e \in S \X S : Stronger(e[1], e[2])}
<1>1. \A x, y : <<x, y>> \in R <=> x \in S /\ y \in S /\ Stronger(x, y)
  OBVIOUS
<1>2. PICK s, n : s = Sorted(R, S) /\ n = Cardinality(S)
  OBVIOUS
<1> HIDE DEF R
<1>3. Orders(R, S) /\ \A x \in S : <<x, x>> \notin R
  BY <1>1, StrongerOrders DEF Orders
<1>4. IsFiniteSet(S) /\ n \in Nat
  BY <1>2, ThemesAssumption, FS_Subset, FS_CardinalityType DEF ThemesAssumption
<1>5. Listing(R, S, n, s)
  BY <1>2, <1>3, <1>4, SortedLists
<1>6. /\ s \in [1..n -> S]
      /\ \A i, j \in 1..n : i < j => Stronger(s[i], s[j])
      /\ \A x \in S : \E i \in 1..n : s[i] = x
  BY <1>1, <1>5 DEF Listing
<1>7. 1 \in 1..n /\ s[1] \in S
  BY <1>4, <1>6
<1>8. ASSUME NEW g \in S PROVE ~Stronger(g, s[1])
  <2>1. PICK i \in 1..n : s[i] = g
    BY <1>6
  <2>2. CASE i = 1
    BY <1>7, <2>1, <2>2, StrongerOrders
  <2>3. CASE i # 1
    <3>1. Stronger(s[1], g)
      BY <1>6, <1>7, <2>1, <2>3
    <3> QED
      BY <1>7, <3>1, StrongerIsStrict
  <2> QED
    BY <2>2, <2>3
<1> QED
  BY <1>7, <1>8

\* A post leads exactly when no stronger leader is near it.
LEMMA WhoLeads ==
    ASSUME Ranked, NEW rows \in Seq(Hashes), NEW c \in Seq(Seq(Hashes)), Covers(rows, c)
    PROVE  /\ Leaders(c) \subseteq ToSet(rows)
           /\ \A h \in ToSet(rows) : h \in Leaders(c) <=> \A g \in Leaders(c) : ~(Stronger(g, h) /\ Near(g, h))
<1>1. \A i \in DOMAIN c : c[i][1] \in ToSet(c[i])
  BY DEF Covers, ToSet
<1>2. \A h : h \in ToSet(rows) <=> \E i \in DOMAIN c : h \in ToSet(c[i])
  BY DEF Covers, Assigned
<1>3. Leaders(c) \subseteq ToSet(rows)
  BY <1>1, <1>2 DEF Leaders
<1>4. ASSUME NEW h \in Leaders(c), NEW g \in Leaders(c) PROVE ~(Stronger(g, h) /\ Near(g, h))
  <2>1. PICK i \in DOMAIN c : h = c[i][1]
    BY DEF Leaders
  <2>2. PICK j \in DOMAIN c : g = c[j][1]
    BY DEF Leaders
  <2>3. Stronger(g, h) => \A x \in ToSet(c[i]) : ~Near(g, x)
    BY <2>1, <2>2 DEF Covers
  <2> QED
    BY <1>1, <2>1, <2>3
<1>5. ASSUME NEW h \in ToSet(rows), h \notin Leaders(c) PROVE \E g \in Leaders(c) : Stronger(g, h) /\ Near(g, h)
  <2>1. PICK i \in DOMAIN c : h \in ToSet(c[i])
    BY <1>2
  <2>2. c[i][1] \in Leaders(c) /\ h # c[i][1]
    BY <1>5 DEF Leaders
  <2>3. \A x \in ToSet(c[i]) \ {c[i][1]} : Near(c[i][1], x) /\ Stronger(c[i][1], x)
    BY DEF Covers
  <2> QED
    BY <2>1, <2>2, <2>3
<1> QED
  BY <1>3, <1>4, <1>5

\* ... so two splits of the same posts have the same leaders: they cannot first differ.
LEMMA SameLeaders ==
    ASSUME Ranked, NEW rows \in Seq(Hashes), NEW other \in Seq(Hashes), ToSet(rows) = ToSet(other),
           NEW c \in Seq(Seq(Hashes)), NEW d \in Seq(Seq(Hashes)), Covers(rows, c), Covers(other, d)
    PROVE  Leaders(c) = Leaders(d)
<1> DEFINE D == {h \in ToSet(rows) : ~(h \in Leaders(c) <=> h \in Leaders(d))}
<1>1. /\ Leaders(c) \subseteq ToSet(rows)
      /\ \A h \in ToSet(rows) : h \in Leaders(c) <=> \A g \in Leaders(c) : ~(Stronger(g, h) /\ Near(g, h))
  BY WhoLeads
<1>2. /\ Leaders(d) \subseteq ToSet(rows)
      /\ \A h \in ToSet(rows) : h \in Leaders(d) <=> \A g \in Leaders(d) : ~(Stronger(g, h) /\ Near(g, h))
  BY WhoLeads
<1>3. CASE D = {}
  BY <1>1, <1>2, <1>3
<1>4. CASE D # {}
  <2>1. D \in SUBSET Hashes
    BY DEF ToSet
  <2>2. PICK h \in D : \A g \in D : ~Stronger(g, h)
    <3> HIDE DEF D
    <3> QED
      BY <1>4, <2>1, StrongestExists
  <2>3. \A g \in ToSet(rows) : Stronger(g, h) => (g \in Leaders(c) <=> g \in Leaders(d))
    BY <2>2
  <2>4. h \in Leaders(c) <=> h \in Leaders(d)
    BY <1>1, <1>2, <2>2, <2>3
  <2> QED
    BY <2>2, <2>4
<1> QED
  BY <1>3, <1>4

\* A member of a cluster is, in any other split, in the cluster of the same leader.
LEMMA SameCluster ==
    ASSUME Ranked, NEW rows \in Seq(Hashes), NEW other \in Seq(Hashes), ToSet(rows) = ToSet(other),
           NEW c \in Seq(Seq(Hashes)), NEW d \in Seq(Seq(Hashes)), Covers(rows, c), Covers(other, d),
           NEW i \in DOMAIN c, NEW j \in DOMAIN d, c[i][1] = d[j][1]
    PROVE  ToSet(c[i]) \subseteq ToSet(d[j])
<1>1. Leaders(c) = Leaders(d)
  BY SameLeaders
<1>2. /\ Leaders(c) \subseteq ToSet(rows) /\ \A h \in ToSet(rows) : h \in Hashes
  BY WhoLeads DEF ToSet
<1> SUFFICES ASSUME NEW h \in ToSet(c[i]) PROVE h \in ToSet(d[j])
  OBVIOUS
<1>3. h \in ToSet(rows)
  BY DEF Covers, Assigned
<1>4. PICK k \in DOMAIN d : h \in ToSet(d[k])
  BY <1>3 DEF Covers, Assigned
<1>5. PICK g, f : g = c[i][1] /\ f = d[k][1]
  OBVIOUS
<1>6. g \in Leaders(c) /\ f \in Leaders(c) /\ g \in Leaders(d) /\ f \in Leaders(d) /\ g \in Hashes /\ f \in Hashes
  <2>1. g \in Leaders(c) /\ f \in Leaders(d)
    BY <1>5 DEF Leaders
  <2> QED
    BY <1>1, <1>2, <2>1
<1>7. PICK m \in DOMAIN c : f = c[m][1]
  BY <1>6 DEF Leaders
<1>8. h # g => Near(g, h) /\ Stronger(g, h)
  BY <1>5 DEF Covers
<1>9. h # f => Near(f, h) /\ Stronger(f, h)
  BY <1>4, <1>5 DEF Covers
<1>10. Stronger(g, f) => ~Near(g, h)
  BY <1>4, <1>5 DEF Covers
<1>11. Stronger(f, g) => ~Near(f, h)
  BY <1>5, <1>7 DEF Covers
<1>12. f = g
  <2>1. ~Stronger(g, f)
    BY <1>6, <1>8, <1>9, <1>10, StrongerIsStrict
  <2>2. ~Stronger(f, g)
    BY <1>6, <1>8, <1>9, <1>11, StrongerIsStrict
  <2> QED
    BY <1>6, <2>1, <2>2, StrongerOrders
<1>13. j = k
  <2>1. ASSUME NEW n \in DOMAIN d PROVE d[n][1] \in ToSet(d[n])
    <3>1. d[n] \in Seq(Hashes) /\ d[n] # <<>>
      BY DEF Covers
    <3>2. PICK e \in Seq(Hashes) : e = d[n] /\ e # <<>>
      BY <3>1
    <3>3. 1 \in DOMAIN e
      BY <3>2
    <3>4. e[1] \in ToSet(e)
      BY <3>3 DEF ToSet
    <3> QED
      BY <3>2, <3>4
  <2>2. j # k => ToSet(d[j]) \cap ToSet(d[k]) = {}
    BY DEF Covers
  <2> QED
    BY <1>5, <1>12, <2>1, <2>2
<1> QED
  BY <1>4, <1>13

\* There is only one such split of a week's posts: neither the order in which Postgres
\* returns equal rows nor how often a post was shared changes a cluster (clusters.py,
\* get_signal_clusters).
THEOREM SplitIsUnique ==
    ASSUME Ranked, NEW rows \in Seq(Hashes), NEW other \in Seq(Hashes), ToSet(rows) = ToSet(other),
           NEW c \in Seq(Seq(Hashes)), NEW d \in Seq(Seq(Hashes)), Covers(rows, c), Covers(other, d)
    PROVE  \A i \in DOMAIN c : \E j \in DOMAIN d : c[i][1] = d[j][1] /\ ToSet(c[i]) = ToSet(d[j])
<1> SUFFICES ASSUME NEW i \in DOMAIN c
             PROVE  \E j \in DOMAIN d : c[i][1] = d[j][1] /\ ToSet(c[i]) = ToSet(d[j])
  OBVIOUS
<1>1. Leaders(c) = Leaders(d)
  BY SameLeaders
<1>2. PICK j \in DOMAIN d : c[i][1] = d[j][1]
  BY <1>1 DEF Leaders
<1>3. ToSet(c[i]) \subseteq ToSet(d[j]) /\ ToSet(d[j]) \subseteq ToSet(c[i])
  BY <1>2, SameCluster
<1>4. ToSet(c[i]) = ToSet(d[j])
  BY <1>3
<1> QED
  BY <1>2, <1>4

=============================================================================
