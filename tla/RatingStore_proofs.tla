------------------------- MODULE RatingStore_proofs -------------------------
(***************************************************************************)
(* What RatingStore checks on three captions, for any set of them, any     *)
(* number of rating tasks and any batch: types, that the first rating of a *)
(* hash stays, and that every rating goes back to one the model gave.      *)
(*                                                                         *)
(* TypeOK and RatingsGrounded are inductive together.  Only Store writes a *)
(* rating, and only where there is none, so a donor keeps the rating that  *)
(* was copied from it between the probe and the insert.                    *)
(***************************************************************************)
EXTENDS RatingStore, TLAPS

StoreInv == TypeOK /\ RatingsGrounded

\* A row of the table is never the absence of one.
LEMMA RowsAreRated ==
    /\ Unrated \notin Row
    /\ \A h \in Hashes : ByModel(h) \in Row
    /\ \A r \in Row : r.donor \in Hashes /\ r.origin \in Hashes
BY StoreAssumption DEF Unrated, Row, ByModel

\* The shapes in which a task enters a slot, leaves it, or waits.
LEMMA TaskShapes ==
    /\ Free \in Task /\ Free.step = "free" /\ Free.result = Unrated
    /\ \A h \in Hashes : \A n \in 0..MaxRetries :
          /\ Queued(h, n) \in Task /\ Queued(h, n).step = "queued"
          /\ Queued(h, n).hash = h /\ Queued(h, n).result = Unrated
    /\ \A h \in Hashes : /\ Queued(h, 0) \in Task /\ Queued(h, 0).step = "queued"
                         /\ Queued(h, 0).hash = h /\ Queued(h, 0).result = Unrated
<1>1. 0 \in 0..MaxRetries
    BY StoreAssumption
<1>2. Free \in Task /\ Free.step = "free" /\ Free.result = Unrated
    BY <1>1 DEF Free, Task
<1>3. ASSUME NEW h \in Hashes, NEW n \in 0..MaxRetries
      PROVE  /\ Queued(h, n) \in Task /\ Queued(h, n).step = "queued"
             /\ Queued(h, n).hash = h /\ Queued(h, n).result = Unrated
    BY DEF Queued, Task
<1>. QED
    BY <1>1, <1>2, <1>3

\* A task that only changes its step.
LEMMA TaskMoves ==
    ASSUME NEW t \in Task, NEW step \in {"probing", "calling"}
    PROVE  LET u == [t EXCEPT !.step = step] IN
           u \in Task /\ u.step = step /\ u.hash = t.hash /\ u.result = t.result
BY DEF Task

\* A task that has got a rating.
LEMMA ResultInHand ==
    ASSUME TypeOK, NEW s \in Slots, task[s] # Free, task[s].hash \in Hashes, NEW r \in Row,
           task' = [task EXCEPT ![s] = [task[s] EXCEPT !.step = "storing", !.result = r]],
           embedded' \subseteq Hashes,
           UNCHANGED <<signals, rating, picked>>
    PROVE  TypeOK'
<1>. DEFINE u == [task[s] EXCEPT !.step = "storing", !.result = r]
<1>1. u \in Task /\ u.step = "storing" /\ u.hash \in Hashes /\ u.result # Unrated
    BY RowsAreRated DEF TypeOK, Task
<1>2. \A t \in Slots : task'[t] = IF t = s THEN u ELSE task[t]
    BY DEF TypeOK
<1>3. task' \in [Slots -> Task]
    BY <1>1 DEF TypeOK
<1>. HIDE DEF u
<1>. QED
    BY <1>1, <1>2, <1>3 DEF TypeOK

LEMMA StoreInit == Init => StoreInv
<1>. SUFFICES ASSUME Init PROVE StoreInv
    OBVIOUS
<1>1. TypeOK
    BY TaskShapes DEF Init, TypeOK
<1>2. RatingsGrounded
    BY TaskShapes DEF Init, RatingsGrounded, RowsGrounded, HeldGrounded, IsRated, At
<1>. QED
    BY <1>1, <1>2 DEF StoreInv

\* New content and vectors change no rating and no task in hand.
LEMMA ContentSteps ==
    ASSUME StoreInv, NEW h \in Hashes,
           \/ Posted(h) \/ Embed(h)
           \/ \E s \in Slots : Enqueue(h, s) \/ \E kept \in BOOLEAN : Scraped(h, s, kept)
    PROVE  StoreInv'
<1>. USE DEF StoreInv
<1>1. CASE Posted(h)
    <2>1. TypeOK'
        BY <1>1 DEF Posted, TypeOK
    <2>2. RatingsGrounded'
        BY <1>1 DEF Posted, RatingsGrounded, RowsGrounded, HeldGrounded, CopiedFrom, IsRated, At
    <2>. QED
        BY <2>1, <2>2
<1>2. CASE Embed(h)
    <2>1. TypeOK'
        BY <1>2 DEF Embed, TypeOK
    <2>2. RatingsGrounded'
        BY <1>2 DEF Embed, RatingsGrounded, RowsGrounded, HeldGrounded, CopiedFrom, IsRated, At
    <2>. QED
        BY <2>1, <2>2
<1>3. ASSUME NEW s \in Slots, Enqueue(h, s) \/ \E kept \in BOOLEAN : Scraped(h, s, kept)
      PROVE  StoreInv'
    <2>1. /\ rating' = rating /\ embedded' = embedded
          /\ task' = [task EXCEPT ![s] = Queued(h, 0)]
          /\ signals' \in {signals, signals \cup {h}}
          /\ picked' \subseteq picked
        BY <1>3 DEF Enqueue, Scraped
    <2>2. TypeOK'
        BY <2>1, TaskShapes DEF TypeOK
    <2>3. RatingsGrounded'
        BY <2>1, TaskShapes DEF RatingsGrounded, RowsGrounded, HeldGrounded, CopiedFrom,
                                IsRated, At, TypeOK
    <2>. QED
        BY <2>2, <2>3
<1>. QED
    BY <1>1, <1>2, <1>3

LEMMA SweepStep ==
    ASSUME StoreInv, Sweep
    PROVE  StoreInv'
<1>. USE DEF StoreInv
<1>1. Swept \subseteq signals
    BY DEF Swept, Backlog
<1>2. TypeOK'
    BY <1>1 DEF Sweep, TypeOK
<1>3. RatingsGrounded'
    BY DEF Sweep, RatingsGrounded, RowsGrounded, HeldGrounded, CopiedFrom, IsRated, At
<1>. QED
    BY <1>2, <1>3

\* A task steps on without a rating in hand.
LEMMA TaskSteps ==
    ASSUME StoreInv, NEW s \in Slots,
           \/ AlreadyRated(s) \/ NotRated(s) \/ ModelFails(s) \/ Dies(s)
           \/ \E stored \in BOOLEAN : CacheMiss(s, stored)
    PROVE  StoreInv'
<1>. USE DEF StoreInv
<1>1. /\ rating' = rating /\ signals' = signals /\ picked' = picked
      /\ embedded' \in {embedded, embedded \cup {task[s].hash}}
      /\ \E t \in Task : task' = [task EXCEPT ![s] = t] /\ t.step # "storing" /\ t.result = Unrated
            /\ (t = Free \/ (t.step # "free" /\ t.hash = task[s].hash /\ task[s] # Free))
    <2>1. CASE AlreadyRated(s)
        <3>1. task' = [task EXCEPT ![s] = Free]
            BY <2>1 DEF AlreadyRated, Finish
        <3>. QED
            BY <2>1, <3>1, TaskShapes DEF AlreadyRated
    <2>2. CASE NotRated(s)
        <3>. DEFINE t == [task[s] EXCEPT !.step = IF Embedding THEN "probing" ELSE "calling"]
        <3>1. task[s] \in Task /\ task[s] # Free /\ task[s].result = Unrated
            BY <2>2, TaskShapes DEF NotRated, At, TypeOK
        <3>2. t \in Task /\ t.step # "storing" /\ t.result = Unrated
              /\ t.step # "free" /\ t.hash = task[s].hash
            BY <3>1, TaskMoves
        <3>3. task' = [task EXCEPT ![s] = t]
            BY <2>2 DEF NotRated, TypeOK
        <3>. QED
            BY <2>2, <3>1, <3>2, <3>3 DEF NotRated
    <2>3. CASE ModelFails(s)
        <3>1. task[s] \in Task /\ task[s] # Free /\ task[s].hash \in Hashes
            BY <2>3, TaskShapes DEF ModelFails, At, TypeOK
        <3>2. CASE task[s].retries < MaxRetries
            <4>. DEFINE t == Queued(task[s].hash, task[s].retries + 1)
            <4>1. task[s].retries + 1 \in 0..MaxRetries
                BY <3>1, <3>2, StoreAssumption DEF Task
            <4>2. t \in Task /\ t.step = "queued" /\ t.hash = task[s].hash /\ t.result = Unrated
                BY <3>1, <4>1, TaskShapes
            <4>3. task' = [task EXCEPT ![s] = t]
                BY <2>3, <3>2 DEF ModelFails
            <4>. HIDE DEF t
            <4>. QED
                BY <2>3, <3>1, <4>2, <4>3 DEF ModelFails
        <3>3. CASE ~(task[s].retries < MaxRetries)
            <4>1. task' = [task EXCEPT ![s] = Free]
                BY <2>3, <3>3 DEF ModelFails
            <4>. QED
                BY <2>3, <4>1, TaskShapes DEF ModelFails
        <3>. QED
            BY <3>2, <3>3
    <2>4. CASE \E stored \in BOOLEAN : CacheMiss(s, stored)
        <3>. DEFINE t == [task[s] EXCEPT !.step = "calling"]
        <3>1. task[s] \in Task /\ task[s] # Free /\ task[s].result = Unrated
            BY <2>4, TaskShapes DEF CacheMiss, At, TypeOK
        <3>2. t \in Task /\ t.step # "storing" /\ t.result = Unrated
              /\ t.step # "free" /\ t.hash = task[s].hash
            BY <3>1, TaskMoves
        <3>3. task' = [task EXCEPT ![s] = t]
            BY <2>4 DEF CacheMiss, TypeOK
        <3>. QED
            BY <2>4, <3>1, <3>2, <3>3 DEF CacheMiss
    <2>5. CASE Dies(s)
        <3>1. task' = [task EXCEPT ![s] = Free]
            BY <2>5 DEF Dies, Finish
        <3>. QED
            BY <2>5, <3>1, TaskShapes DEF Dies
    <2>. QED
        BY <2>1, <2>2, <2>3, <2>4, <2>5
<1>2. PICK t \in Task : /\ task' = [task EXCEPT ![s] = t] /\ t.step # "storing" /\ t.result = Unrated
                        /\ (t = Free \/ (t.step # "free" /\ t.hash = task[s].hash /\ task[s] # Free))
    BY <1>1
<1>3. TypeOK'
    <2>1. task[s] # Free
        BY TaskShapes DEF AlreadyRated, NotRated, ModelFails, CacheMiss, Dies, At
    <2>2. task[s].hash \in Hashes
        BY <2>1 DEF TypeOK
    <2>3. embedded' \subseteq Hashes
        BY <1>1, <2>2 DEF TypeOK
    <2>4. \A u \in Slots : task'[u] = IF u = s THEN t ELSE task[u]
        BY <1>2 DEF TypeOK
    <2>. QED
        BY <1>1, <1>2, <2>2, <2>3, <2>4, TaskShapes DEF TypeOK
<1>4. RatingsGrounded'
    BY <1>1, <1>2 DEF TypeOK, RatingsGrounded, RowsGrounded, HeldGrounded, CopiedFrom, IsRated, At
<1>. QED
    BY <1>3, <1>4

LEMMA AnswerStep ==
    ASSUME StoreInv, NEW s \in Slots, ModelAnswers(s)
    PROVE  StoreInv'
<1>. USE DEF StoreInv
<1>1. task[s] # Free /\ task[s].hash \in Hashes
    BY DEF ModelAnswers, At, TypeOK, Free
<1>2. TypeOK'
    <2>1. ByModel(task[s].hash) \in Row /\ embedded' \subseteq Hashes
        BY <1>1, RowsAreRated DEF ModelAnswers, TypeOK
    <2>2. task' = [task EXCEPT ![s] = [task[s] EXCEPT !.step = "storing", !.result = ByModel(task[s].hash)]]
        BY DEF ModelAnswers, TypeOK
    <2>. QED
        BY <1>1, <2>1, <2>2, ResultInHand DEF ModelAnswers
<1>3. RatingsGrounded'
    BY DEF ModelAnswers, TypeOK, RatingsGrounded, RowsGrounded, HeldGrounded, CopiedFrom, IsRated, At
<1>. QED
    BY <1>2, <1>3

\* The copy is near, and of a rating that goes back to what the model judged.
LEMMA HitStep ==
    ASSUME StoreInv, NEW s \in Slots, NEW d \in Hashes, CacheHit(s, d)
    PROVE  StoreInv'
<1>. USE DEF StoreInv
<1>. DEFINE h == task[s].hash
            r == [donor |-> d, origin |-> rating[d].origin]
<1>1. h \in Hashes
    BY DEF CacheHit, At, TypeOK, Free
<1>2. CopiedFrom(d, h, rating[d].origin)
    BY DEF CacheHit, Donors, CopiedFrom
<1>3. r \in Row
    BY <1>2, RowsAreRated DEF CopiedFrom, TypeOK, Row, IsRated
<1>4. task' = [task EXCEPT ![s].step = "storing", ![s].result = r] /\ rating' = rating
      /\ signals' = signals /\ picked' = picked /\ embedded' = embedded \cup {h}
    BY DEF CacheHit
<1>5. TypeOK'
    <2>1. task[s] # Free
        BY DEF CacheHit, At, Free
    <2>2. task' = [task EXCEPT ![s] = [task[s] EXCEPT !.step = "storing", !.result = r]]
        BY <1>4 DEF TypeOK
    <2>3. embedded' \subseteq Hashes
        BY <1>1, <1>4 DEF TypeOK
    <2>. HIDE DEF r
    <2>. QED
        BY <1>1, <1>3, <1>4, <2>1, <2>2, <2>3, ResultInHand
<1>6. RatingsGrounded'
    BY <1>2, <1>4 DEF TypeOK, RatingsGrounded, RowsGrounded, HeldGrounded, CopiedFrom, IsRated, At
<1>. QED
    BY <1>5, <1>6

\* Store writes a rating only where there is none.
LEMMA StoreStep ==
    ASSUME StoreInv, NEW s \in Slots, Store(s)
    PROVE  StoreInv'
<1>. USE DEF StoreInv
<1>. DEFINE h == task[s].hash
            r == task[s].result
<1>1. h \in Hashes /\ r \in Row
    BY DEF Store, At, TypeOK, Task, Free
<1>2. rating' = [rating EXCEPT ![h] = IF @ = Unrated THEN r ELSE @]
      /\ task' = [task EXCEPT ![s] = Free]
      /\ signals' = signals /\ embedded' = embedded /\ picked' = picked
    BY DEF Store, Finish
<1>3. TypeOK'
    BY <1>1, <1>2, TaskShapes DEF TypeOK
<1>4. \A g \in Hashes : IsRated(g) => rating'[g] = rating[g]
    BY <1>1, <1>2 DEF TypeOK, IsRated
<1>. HIDE DEF h, r
<1>5. ASSUME NEW d \in Hashes, NEW g, NEW o, CopiedFrom(d, g, o)
      PROVE  d # g /\ <<d, g>> \in Near /\ rating'[d] # Unrated /\ rating'[d].origin = o
    BY <1>4, <1>5 DEF CopiedFrom, IsRated
<1>6. ASSUME NEW g \in Hashes, rating[g] = ByModel(g) PROVE rating'[g] = ByModel(g)
    BY <1>4, <1>6, RowsAreRated DEF IsRated
<1>7. HeldGrounded'
    <2>. SUFFICES ASSUME NEW t \in Slots, task'[t].step = "storing"
                  PROVE  LET held == task'[t].result IN
                         \/ held = ByModel(task'[t].hash)
                         \/ /\ held.donor # task'[t].hash /\ <<held.donor, task'[t].hash>> \in Near
                            /\ rating'[held.donor] # Unrated
                            /\ rating'[held.donor].origin = held.origin
        BY DEF HeldGrounded, At, CopiedFrom, IsRated
    <2>1. task'[t] = task[t] /\ task[t].step = "storing"
        BY <1>2, TaskShapes DEF TypeOK
    <2>2. task[t].result \in Row /\ task[t].result.donor \in Hashes
        BY <2>1, RowsAreRated, TaskShapes DEF TypeOK, Task
    <2>3. task[t].result = ByModel(task[t].hash)
          \/ CopiedFrom(task[t].result.donor, task[t].hash, task[t].result.origin)
        BY <2>1 DEF RatingsGrounded, HeldGrounded, At
    <2>. QED
        BY <1>5, <2>1, <2>2, <2>3
<1>8. ASSUME NEW g \in Hashes, rating'[g] # Unrated
      PROVE  LET row == rating'[g] IN
             /\ \/ row.donor = g
                \/ /\ row.donor # g /\ <<row.donor, g>> \in Near
                   /\ rating'[row.donor] # Unrated /\ rating'[row.donor].origin = row.origin
             /\ rating'[row.origin] = ByModel(row.origin)
    <2>1. CASE rating[g] # Unrated
        <3>1. rating[g] \in Row /\ rating'[g] = rating[g]
            BY <1>4, <2>1 DEF TypeOK, IsRated
        <3>2. rating[g].donor \in Hashes /\ rating[g].origin \in Hashes
            BY <3>1, RowsAreRated
        <3>3. /\ rating[g].donor = g \/ CopiedFrom(rating[g].donor, g, rating[g].origin)
              /\ rating[rating[g].origin] = ByModel(rating[g].origin)
            BY <2>1 DEF RatingsGrounded, RowsGrounded, IsRated
        <3>. QED
            BY <1>5, <1>6, <3>1, <3>2, <3>3
    <2>2. CASE rating[g] = Unrated
        <3>1. g = h /\ rating'[g] = r
            BY <1>1, <1>2, <1>8, <2>2 DEF TypeOK
        <3>2. r.donor \in Hashes /\ r.origin \in Hashes
            BY <1>1, RowsAreRated
        <3>3. CASE r = ByModel(h)
            BY <1>1, <3>1, <3>3 DEF ByModel
        <3>4. CASE CopiedFrom(r.donor, h, r.origin)
            <4>1. rating[r.donor] # Unrated /\ rating[r.donor].origin = r.origin
                BY <3>4 DEF CopiedFrom, IsRated
            <4>2. rating[r.origin] = ByModel(r.origin)
                BY <3>2, <4>1 DEF RatingsGrounded, RowsGrounded, IsRated
            <4>. QED
                BY <1>5, <1>6, <3>1, <3>2, <3>4, <4>2
        <3>. QED
            BY <3>3, <3>4 DEF RatingsGrounded, HeldGrounded, Store, h, r
    <2>. QED
        BY <2>1, <2>2
<1>9. RowsGrounded'
    BY <1>8 DEF RowsGrounded, CopiedFrom, IsRated
<1>. QED
    BY <1>3, <1>7, <1>9 DEF RatingsGrounded

THEOREM StoreInvariant == Spec => []StoreInv
<1>1. StoreInv /\ [Next]_vars => StoreInv'
    <2>. SUFFICES ASSUME StoreInv, [Next]_vars PROVE StoreInv'
        OBVIOUS
    <2>1. CASE UNCHANGED vars
        BY <2>1 DEF StoreInv, TypeOK, RatingsGrounded, RowsGrounded, HeldGrounded, CopiedFrom,
                    IsRated, At, vars
    <2>2. CASE Next
        BY <2>2, ContentSteps, SweepStep, TaskSteps, AnswerStep, HitStep, StoreStep DEF Next, RateStep, Probed
    <2>. QED
        BY <2>1, <2>2
<1>. QED
    BY <1>1, StoreInit, PTL DEF Spec

\* Tables and tasks keep their types, and a task holds a rating exactly when it is about to
\* store it, however many tasks there are and whichever posts were rolled back.
THEOREM StoreTypes == Spec => []TypeOK
<1>1. StoreInv => TypeOK
    BY DEF StoreInv
<1>. QED
    BY <1>1, StoreInvariant, PTL

\* Every rating, stored or in hand, goes back to one the model gave.
THEOREM EveryRatingGrounded == Spec => []RatingsGrounded
<1>1. StoreInv => RatingsGrounded
    BY DEF StoreInv
<1>. QED
    BY <1>1, StoreInvariant, PTL

\* However many sweeps, runs and retries race on a hash, its first rating stays.
THEOREM FirstRatingWins == Spec => FirstRatingStays
<1>1. TypeOK /\ [Next]_vars => [\A h \in Hashes : IsRated(h) => rating'[h] = rating[h]]_vars
    <2>. SUFFICES ASSUME TypeOK, Next, NEW h \in Hashes, IsRated(h)
                  PROVE  rating'[h] = rating[h]
        BY DEF vars
    <2>1. ASSUME NEW s \in Slots, Store(s) PROVE rating'[h] = rating[h]
        BY <2>1 DEF Store, TypeOK, IsRated
    <2>2. CASE UNCHANGED rating
        BY <2>2
    <2>. QED
        BY <2>1, <2>2 DEF Next, RateStep, Sweep, Enqueue, Posted, Embed, Scraped, AlreadyRated,
                          NotRated, Probed, CacheHit, CacheMiss, ModelAnswers, ModelFails, Dies
<1>. QED
    BY <1>1, StoreTypes, PTL DEF Spec, FirstRatingStays

=============================================================================
