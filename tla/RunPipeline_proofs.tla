------------------------ MODULE RunPipeline_proofs ------------------------
(***************************************************************************)
(* Proofs about RunPipeline, for every set of influencers and hashes,      *)
(* every retry limit, with or without a default model, and under every     *)
(* combination of faults; and about RunStream, which composes the pipeline *)
(* with any set of browsers.                                               *)
(***************************************************************************)
EXTENDS RunStream, FiniteSetTheorems, TLAPS

\* Every set the counters stand for is finite.
LEMMA FiniteSets ==
    /\ IsFiniteSet(Signal)
    /\ IsFiniteSet(CountedScrapes)
    /\ IsFiniteSet(NewSignals)
    /\ IsFiniteSet(CountedRatings)
<1>1. IsFiniteSet(Signal)
    BY FS_Product, PipelineAssumption DEF Signal
<1>2. CountedScrapes \in SUBSET Influencers
    BY DEF CountedScrapes
<1>3. NewSignals \in SUBSET Signal /\ CountedRatings \in SUBSET Signal
    BY DEF NewSignals, CountedRatings
<1>. QED
    BY <1>1, <1>2, <1>3, FS_Subset, PipelineAssumption

LEMMA InitInvariant == Init => IInv
<1>. SUFFICES ASSUME Init PROVE IInv
    OBVIOUS
<1>1. CountedScrapes = {} /\ NewSignals = {} /\ CountedRatings = {}
    BY DEF Init, CountedScrapes, NewSignals, CountedRatings
<1>2. TypeOK
    <2>1. /\ scrape \in [Influencers -> ScrapePhase]
          /\ found \in [Influencers -> SUBSET Hashes]
          /\ scrapeError \in [Influencers -> BOOLEAN]
        BY DEF Init, ScrapePhase
    <2>2. rate \in [Signal -> RatePhase] /\ retries \in [Signal -> 0..MaxRetries]
        BY PipelineAssumption DEF Init, RatePhase
    <2>3. sent \in [MessageType -> Nat]
        BY DEF Init
    <2>. QED
        BY <2>1, <2>2, <2>3 DEF Init, TypeOK, Status, FinalizePhase
<1>3. CountersExact
    BY <1>1, FS_EmptySet DEF Init, CountersExact
<1>4. CompletedMeansDrained /\ FinishedIffTerminal /\ DoneMatchesRow
    BY DEF Init, CompletedMeansDrained, FinishedIffTerminal, DoneMatchesRow, Terminal, MessageType
<1>5. ChordInv /\ RatingInv /\ RowInv /\ DoneInv
    BY DEF Init, ChordInv, RatingInv, RowInv, DoneInv
<1>6. HandedOn
    BY DEF Init, HandedOn
<1>7. BegunInv
    BY DEF Init, BegunInv
<1>. QED
    BY <1>2, <1>3, <1>4, <1>5, <1>6, <1>7 DEF IInv

\* Before the row exists no task does.
LEMMA Unborn ==
    ASSUME IInv, sender # "over"
    PROVE  /\ dispatch = "none" /\ header = {} /\ finalizer = "none"
           /\ \A i \in Influencers : scrape[i] = "none"
           /\ \A p \in Signal : rate[p] = "none"
<1>1. dispatch = "none" /\ header = {} /\ finalizer = "none"
    BY DEF IInv, HandedOn, ChordInv, TypeOK
<1>2. \A i \in Influencers : scrape[i] = "none"
    BY <1>1 DEF IInv, ChordInv
<1>3. NewSignals = {}
    BY <1>2 DEF NewSignals, CountedScrapes
<1>. QED
    BY <1>1, <1>2, <1>3 DEF IInv, RatingInv

LEMMA CreateRunInvariant ==
    ASSUME IInv, NEW m \in BOOLEAN, NEW n \in 0..Cardinality(Influencers), CreateRun(m, n)
    PROVE  IInv'
<1>. USE DEF IInv, CreateRun, rowVars, handoffVars, scrapeVars, finalizeVars, rateVars
<1>1. TypeOK'
    BY FS_CardinalityType, FS_Subset, PipelineAssumption DEF TypeOK, Status, FinalizePhase, ScrapePhase, Terminal
<1>2. UNCHANGED <<CountedScrapes, NewSignals, CountedRatings>>
    BY DEF CountedScrapes, NewSignals, CountedRatings, TypeOK
<1>3. CountersExact'
    BY <1>2 DEF CountersExact
<1>4. CompletedMeansDrained'
    BY Unborn, <1>2 DEF CompletedMeansDrained, RatingOn, TypeOK, RowInv, ChordInv
<1>5. (FinishedIffTerminal /\ DoneMatchesRow)'
    <2>1. status \notin Terminal /\ status' \notin Terminal
        BY DEF Terminal
    <2>. QED
        BY <2>1 DEF FinishedIffTerminal, DoneMatchesRow
<1>6. ChordInv'
    BY Unborn, <1>2 DEF ChordInv, TypeOK
<1>7. RatingInv'
    BY Unborn DEF RatingInv, HandedOn
<1>8. RowInv'
    BY Unborn, <1>2 DEF RowInv, Terminal, TypeOK, RatingOn
<1>9. DoneInv'
    BY Unborn, <1>2 DEF DoneInv, Terminal, TypeOK, RowInv
<1>10. HandedOn'
    BY Unborn, <1>2 DEF HandedOn, AllEnqueued, RatingOn, TypeOK, ChordInv
<1>11. BegunInv'
    BY DEF BegunInv, TypeOK, ScrapePhase
<1>. QED
    BY <1>1, <1>3, <1>4, <1>5, <1>6, <1>7, <1>8, <1>9, <1>10, <1>11

LEMMA SendDispatchInvariant ==
    ASSUME IInv, SendDispatch
    PROVE  IInv'
<1>. USE DEF IInv, SendDispatch, rowVars, handoffVars, scrapeVars, finalizeVars, rateVars
<1>1. TypeOK'
    BY FS_CardinalityType, FS_Subset, PipelineAssumption DEF TypeOK, Status, FinalizePhase, ScrapePhase, Terminal
<1>2. UNCHANGED <<CountedScrapes, NewSignals, CountedRatings>>
    BY DEF CountedScrapes, NewSignals, CountedRatings, TypeOK
<1>3. CountersExact'
    BY <1>2 DEF CountersExact
<1>4. CompletedMeansDrained'
    BY Unborn, <1>2 DEF CompletedMeansDrained, RatingOn, TypeOK, RowInv, ChordInv
<1>5. (FinishedIffTerminal /\ DoneMatchesRow)'
    BY Unborn, <1>2 DEF FinishedIffTerminal, DoneMatchesRow, Terminal, RatingOn, TypeOK, RowInv, DoneInv
<1>6. ChordInv'
    BY Unborn, <1>2 DEF ChordInv, TypeOK
<1>7. RatingInv'
    BY Unborn, <1>2 DEF RatingInv, RatingOn, TypeOK, Signal
<1>8. RowInv'
    BY Unborn, <1>2 DEF RowInv, Terminal, TypeOK, RatingOn
<1>9. DoneInv'
    BY Unborn, <1>2 DEF DoneInv, Terminal, TypeOK, RowInv
<1>10. HandedOn'
    BY Unborn, <1>2 DEF HandedOn, AllEnqueued, RatingOn, TypeOK, ChordInv
<1>11. BegunInv'
    BY DEF BegunInv, TypeOK, ScrapePhase
<1>. QED
    BY <1>1, <1>3, <1>4, <1>5, <1>6, <1>7, <1>8, <1>9, <1>10, <1>11

LEMMA SendLostInvariant ==
    ASSUME IInv, SendLost
    PROVE  IInv'
<1>. USE DEF IInv, SendLost, rowVars, handoffVars, scrapeVars, finalizeVars, rateVars
<1>1. TypeOK'
    BY FS_CardinalityType, FS_Subset, PipelineAssumption DEF TypeOK, Status, FinalizePhase, ScrapePhase, Terminal
<1>2. UNCHANGED <<CountedScrapes, NewSignals, CountedRatings>>
    BY DEF CountedScrapes, NewSignals, CountedRatings, TypeOK
<1>3. CountersExact'
    BY <1>2 DEF CountersExact
<1>4. CompletedMeansDrained'
    BY Unborn, <1>2 DEF CompletedMeansDrained, RatingOn, TypeOK, RowInv, ChordInv
<1>5. (FinishedIffTerminal /\ DoneMatchesRow)'
    BY Unborn, <1>2 DEF FinishedIffTerminal, DoneMatchesRow, Terminal, RatingOn, TypeOK, RowInv, DoneInv
<1>6. ChordInv'
    BY Unborn, <1>2 DEF ChordInv, TypeOK
<1>7. RatingInv'
    BY Unborn, <1>2 DEF RatingInv, RatingOn, TypeOK, Signal
<1>8. RowInv'
    BY Unborn, <1>2 DEF RowInv, Terminal, TypeOK, RatingOn
<1>9. DoneInv'
    BY Unborn, <1>2 DEF DoneInv, Terminal, TypeOK, RowInv
<1>10. HandedOn'
    BY Unborn, <1>2 DEF HandedOn, AllEnqueued, RatingOn, TypeOK, ChordInv
<1>11. BegunInv'
    BY DEF BegunInv, TypeOK, ScrapePhase
<1>. QED
    BY <1>1, <1>3, <1>4, <1>5, <1>6, <1>7, <1>8, <1>9, <1>10, <1>11

LEMMA DispatchTotalInvariant ==
    ASSUME IInv, NEW watchlist \in SUBSET Influencers, DispatchTotal(watchlist)
    PROVE  IInv'
<1>. USE DEF IInv, DispatchTotal, rowVars, handoffVars, scrapeVars, finalizeVars, rateVars
<1>1. TypeOK'
    BY FS_CardinalityType, FS_Subset, PipelineAssumption DEF TypeOK, Status, FinalizePhase, ScrapePhase, Terminal
<1>2. UNCHANGED <<CountedScrapes, NewSignals, CountedRatings>>
    BY DEF CountedScrapes, NewSignals, CountedRatings, TypeOK
<1>3. CountersExact'
    BY <1>2 DEF CountersExact
<1>4. CompletedMeansDrained'
    BY <1>2 DEF CompletedMeansDrained, RatingOn, TypeOK, RowInv, ChordInv
<1>5. (FinishedIffTerminal /\ DoneMatchesRow)'
    BY <1>2 DEF FinishedIffTerminal, DoneMatchesRow, Terminal, RatingOn, TypeOK, RowInv, DoneInv
<1>6. ChordInv'
    BY <1>2 DEF ChordInv, TypeOK
<1>7. RatingInv'
    BY <1>2 DEF RatingInv, RatingOn, TypeOK, Signal
<1>8. RowInv'
    BY <1>2 DEF RowInv, Terminal, TypeOK, RatingOn
<1>9. DoneInv'
    BY <1>2 DEF DoneInv, Terminal, TypeOK, RowInv
<1>10. HandedOn'
    BY <1>2 DEF HandedOn, AllEnqueued, RatingOn, TypeOK, ChordInv
<1>11. BegunInv'
    BY DEF BegunInv, TypeOK, ScrapePhase
<1>. QED
    BY <1>1, <1>3, <1>4, <1>5, <1>6, <1>7, <1>8, <1>9, <1>10, <1>11

LEMMA ScrapeStartInvariant ==
    ASSUME IInv, NEW i \in Influencers, ScrapeStart(i)
    PROVE  IInv'
<1>. USE DEF IInv, ScrapeStart, ScrapeRuns, ScrapeMoves, rowVars, handoffVars, scrapeVars, finalizeVars, rateVars
<1>1. TypeOK'
    BY FS_CardinalityType, FS_Subset, PipelineAssumption DEF TypeOK, Status, FinalizePhase, ScrapePhase, Terminal
<1>2. UNCHANGED <<CountedScrapes, NewSignals, CountedRatings>>
    BY DEF CountedScrapes, NewSignals, CountedRatings, TypeOK
<1>3. CountersExact'
    BY <1>2 DEF CountersExact
<1>4. CompletedMeansDrained'
    BY <1>2 DEF CompletedMeansDrained, RatingOn, TypeOK, RowInv, ChordInv
<1>5. (FinishedIffTerminal /\ DoneMatchesRow)'
    BY <1>2 DEF FinishedIffTerminal, DoneMatchesRow, Terminal, RatingOn, TypeOK, RowInv, DoneInv
<1>6. ChordInv'
    BY <1>2 DEF ChordInv, TypeOK
<1>7. RatingInv'
    BY <1>2 DEF RatingInv, RatingOn, TypeOK, Signal
<1>8. RowInv'
    BY <1>2 DEF RowInv, Terminal, TypeOK, RatingOn
<1>9. DoneInv'
    BY <1>2 DEF DoneInv, Terminal, TypeOK, RowInv
<1>10. HandedOn'
    BY <1>2 DEF HandedOn, AllEnqueued, RatingOn, TypeOK, ChordInv
<1>11. BegunInv'
    <2>1. status # "absent"
        BY Unborn DEF HandedOn
    <2>. QED
        BY <2>1 DEF BegunInv, TypeOK
<1>. QED
    BY <1>1, <1>3, <1>4, <1>5, <1>6, <1>7, <1>8, <1>9, <1>10, <1>11

LEMMA FinalizeUpdateInvariant ==
    ASSUME IInv, FinalizeUpdate
    PROVE  IInv'
<1>. USE DEF IInv, FinalizeUpdate, FinalStatus, RatingPending, rowVars, handoffVars, scrapeVars, finalizeVars, rateVars
<1>1. TypeOK'
    BY FS_CardinalityType, FS_Subset, PipelineAssumption DEF TypeOK, Status, FinalizePhase, ScrapePhase, Terminal
<1>2. UNCHANGED <<CountedScrapes, NewSignals, CountedRatings>>
    BY DEF CountedScrapes, NewSignals, CountedRatings, TypeOK
<1>3. CountersExact'
    BY <1>2 DEF CountersExact
<1>4. CompletedMeansDrained'
    <2>. SUFFICES ASSUME FinalStatus = "completed" PROVE CompletedMeansDrained'
        BY DEF CompletedMeansDrained
    <2>1. \A i \in header : scrape[i] = "returned"
        BY DEF ChordInv
    <2>2. RatingOn => inserted <= 0 \/ rated_count >= inserted
        BY DEF TypeOK
    <2>3. RatingOn => Cardinality(NewSignals) <= Cardinality(CountedRatings)
        BY <2>2, FiniteSets, FS_CardinalityType DEF CountersExact, TypeOK
    <2>4. RatingOn => CountedRatings = NewSignals
        BY <2>3, FiniteSets, FS_Subset, FS_CardinalityType DEF CountersExact
    <2>. QED
        BY <2>1, <2>4, <1>2 DEF CompletedMeansDrained, RatingOn
<1>5. (FinishedIffTerminal /\ DoneMatchesRow)'
    BY <1>2 DEF FinishedIffTerminal, DoneMatchesRow, Terminal, RatingOn, TypeOK, RowInv, DoneInv
<1>6. ChordInv'
    BY <1>2 DEF ChordInv, TypeOK
<1>7. RatingInv'
    BY <1>2 DEF RatingInv, RatingOn, TypeOK, Signal
<1>8. RowInv'
    BY <1>2 DEF RowInv, Terminal, TypeOK, RatingOn
<1>9. DoneInv'
    <2>1. status \notin Terminal
        BY DEF RowInv, Terminal
    <2>2. sent["done"] = 0
        BY <2>1 DEF DoneMatchesRow, TypeOK, MessageType
    <2>3. \A p \in Signal : rate[p] # "owesDone"
        BY <2>1 DEF DoneInv, Terminal
    <2>. QED
        BY <2>2, <2>3 DEF DoneInv, Terminal
<1>10. HandedOn'
    BY <1>2 DEF HandedOn, AllEnqueued, RatingOn, TypeOK, ChordInv
<1>11. BegunInv'
    BY DEF BegunInv, TypeOK, ScrapePhase
<1>. QED
    BY <1>1, <1>3, <1>4, <1>5, <1>6, <1>7, <1>8, <1>9, <1>10, <1>11

LEMMA DispatchChordInvariant ==
    ASSUME IInv, DispatchChord
    PROVE  IInv'
<1>. USE DEF IInv, DispatchChord, rowVars, handoffVars, scrapeVars, finalizeVars, rateVars
<1>1. TypeOK'
    BY PipelineAssumption DEF TypeOK, FinalizePhase, ScrapePhase, RatePhase, MessageType
<1>2. UNCHANGED <<CountedScrapes, NewSignals, CountedRatings>>
    BY DEF CountedScrapes, NewSignals, CountedRatings, TypeOK, ChordInv
<1>3. CountersExact'
    BY <1>2 DEF CountersExact
<1>4. CompletedMeansDrained'
    BY <1>2 DEF CompletedMeansDrained, RatingOn, TypeOK, RowInv, ChordInv
<1>5. (FinishedIffTerminal /\ DoneMatchesRow)'
    BY <1>2 DEF FinishedIffTerminal, DoneMatchesRow, Terminal, TypeOK, RowInv, DoneInv, MessageType
<1>6. ChordInv'
    BY <1>2 DEF ChordInv, TypeOK
<1>7. RatingInv'
    BY <1>2 DEF RatingInv, RatingOn, TypeOK, Signal
<1>8. RowInv'
    BY <1>2 DEF RowInv, Terminal, TypeOK, RatingOn, ChordInv
<1>9. DoneInv'
    BY <1>2 DEF DoneInv, Terminal, TypeOK, RowInv, MessageType, DoneMatchesRow
<1>10. HandedOn'
    BY <1>2 DEF HandedOn, AllEnqueued, RatingOn, TypeOK, ChordInv
<1>11. BegunInv'
    BY DEF BegunInv, TypeOK, ChordInv
<1>. QED
    BY <1>1, <1>3, <1>4, <1>5, <1>6, <1>7, <1>8, <1>9, <1>10, <1>11

LEMMA DispatchDiesInvariant ==
    ASSUME IInv, NEW reached \in SUBSET Influencers, DispatchDies(reached)
    PROVE  IInv'
<1>. USE DEF IInv, DispatchDies, rowVars, handoffVars, scrapeVars, finalizeVars, rateVars
<1>1. TypeOK'
    BY PipelineAssumption DEF TypeOK, FinalizePhase, ScrapePhase, RatePhase, MessageType
<1>2. UNCHANGED <<CountedScrapes, NewSignals, CountedRatings>>
    BY DEF CountedScrapes, NewSignals, CountedRatings, TypeOK, ChordInv
<1>3. CountersExact'
    BY <1>2 DEF CountersExact
<1>4. CompletedMeansDrained'
    BY <1>2 DEF CompletedMeansDrained, RatingOn, TypeOK, RowInv, ChordInv
<1>5. (FinishedIffTerminal /\ DoneMatchesRow)'
    BY <1>2 DEF FinishedIffTerminal, DoneMatchesRow, Terminal, TypeOK, RowInv, DoneInv, MessageType
<1>6. ChordInv'
    BY <1>2 DEF ChordInv, TypeOK
<1>7. RatingInv'
    BY <1>2 DEF RatingInv, RatingOn, TypeOK, Signal
<1>8. RowInv'
    BY <1>2 DEF RowInv, Terminal, TypeOK, RatingOn, ChordInv
<1>9. DoneInv'
    BY <1>2 DEF DoneInv, Terminal, TypeOK, RowInv, MessageType, DoneMatchesRow
<1>10. HandedOn'
    BY <1>2 DEF HandedOn, AllEnqueued, RatingOn, TypeOK, ChordInv
<1>11. BegunInv'
    BY DEF BegunInv, TypeOK, ChordInv
<1>. QED
    BY <1>1, <1>3, <1>4, <1>5, <1>6, <1>7, <1>8, <1>9, <1>10, <1>11

LEMMA ScrapePublishInvariant ==
    ASSUME IInv, NEW i \in Influencers, ScrapePublish(i)
    PROVE  IInv'
<1>. USE DEF IInv, ScrapePublish, ScrapeRuns, ScrapeMoves, Publish, rowVars, handoffVars, scrapeVars, finalizeVars, rateVars
<1>1. TypeOK'
    BY PipelineAssumption DEF TypeOK, FinalizePhase, ScrapePhase, RatePhase, MessageType
<1>2. UNCHANGED <<CountedScrapes, NewSignals, CountedRatings>>
    BY DEF CountedScrapes, NewSignals, CountedRatings, TypeOK, ChordInv
<1>3. CountersExact'
    BY <1>2 DEF CountersExact
<1>4. CompletedMeansDrained'
    BY <1>2 DEF CompletedMeansDrained, RatingOn, TypeOK, RowInv, ChordInv
<1>5. (FinishedIffTerminal /\ DoneMatchesRow)'
    BY <1>2 DEF FinishedIffTerminal, DoneMatchesRow, Terminal, TypeOK, RowInv, DoneInv, MessageType
<1>6. ChordInv'
    BY <1>2 DEF ChordInv, TypeOK
<1>7. RatingInv'
    BY <1>2 DEF RatingInv, RatingOn, TypeOK, Signal
<1>8. RowInv'
    BY <1>2 DEF RowInv, Terminal, TypeOK, RatingOn, ChordInv
<1>9. DoneInv'
    BY <1>2 DEF DoneInv, Terminal, TypeOK, RowInv, MessageType, DoneMatchesRow
<1>10. HandedOn'
    BY <1>2 DEF HandedOn, AllEnqueued, RatingOn, TypeOK, ChordInv
<1>11. BegunInv'
    BY DEF BegunInv, TypeOK, ScrapePhase
<1>. QED
    BY <1>1, <1>3, <1>4, <1>5, <1>6, <1>7, <1>8, <1>9, <1>10, <1>11

LEMMA ScrapeReturnInvariant ==
    ASSUME IInv, NEW i \in Influencers, ScrapeReturn(i)
    PROVE  IInv'
<1>. USE DEF IInv, ScrapeReturn, ScrapeRuns, ScrapeMoves, rowVars, handoffVars, scrapeVars, finalizeVars, rateVars
<1>1. TypeOK'
    BY PipelineAssumption DEF TypeOK, FinalizePhase, ScrapePhase, RatePhase, MessageType
<1>2. UNCHANGED <<CountedScrapes, NewSignals, CountedRatings>>
    BY DEF CountedScrapes, NewSignals, CountedRatings, TypeOK, ChordInv
<1>3. CountersExact'
    BY <1>2 DEF CountersExact
<1>4. CompletedMeansDrained'
    BY <1>2 DEF CompletedMeansDrained, RatingOn, TypeOK, RowInv, ChordInv
<1>5. (FinishedIffTerminal /\ DoneMatchesRow)'
    BY <1>2 DEF FinishedIffTerminal, DoneMatchesRow, Terminal, TypeOK, RowInv, DoneInv, MessageType
<1>6. ChordInv'
    <2>1. i \in header /\ dispatch \in {"over", "dead"}
        BY DEF ChordInv, TypeOK
    <2>2. \A j \in Influencers : scrape'[j] = "none" <=> scrape[j] = "none"
        BY DEF TypeOK
    <2>3. (\A j \in header : scrape'[j] = "returned") => dispatch = "over"
        BY <2>1, <2>2 DEF ChordInv, TypeOK
    <2>4. finalizer = "none"
        BY <2>1 DEF ChordInv
    <2>. QED
        BY <2>1, <2>2, <2>3, <2>4 DEF ChordInv, TypeOK
<1>7. RatingInv'
    BY <1>2 DEF RatingInv, RatingOn, TypeOK, Signal
<1>8. RowInv'
    BY <1>2 DEF RowInv, Terminal, TypeOK, RatingOn, ChordInv
<1>9. DoneInv'
    BY <1>2 DEF DoneInv, Terminal, TypeOK, RowInv, MessageType, DoneMatchesRow
<1>10. HandedOn'
    BY <1>2 DEF HandedOn, AllEnqueued, RatingOn, TypeOK, ChordInv
<1>11. BegunInv'
    BY DEF BegunInv, TypeOK, ScrapePhase
<1>. QED
    BY <1>1, <1>3, <1>4, <1>5, <1>6, <1>7, <1>8, <1>9, <1>10, <1>11

LEMMA ScrapeDiesInvariant ==
    ASSUME IInv, NEW i \in Influencers, ScrapeDies(i) \/ ScrapePublishRaises(i)
    PROVE  IInv'
<1>. USE DEF IInv, ScrapeDies, ScrapePublishRaises, rowVars, handoffVars, scrapeVars, finalizeVars, rateVars
<1>1. TypeOK'
    BY PipelineAssumption DEF TypeOK, FinalizePhase, ScrapePhase, RatePhase, MessageType
<1>2. UNCHANGED <<CountedScrapes, NewSignals, CountedRatings>>
    BY DEF CountedScrapes, NewSignals, CountedRatings, TypeOK, ChordInv
<1>3. CountersExact'
    BY <1>2 DEF CountersExact
<1>4. CompletedMeansDrained'
    BY <1>2 DEF CompletedMeansDrained, RatingOn, TypeOK, RowInv, ChordInv
<1>5. (FinishedIffTerminal /\ DoneMatchesRow)'
    BY <1>2 DEF FinishedIffTerminal, DoneMatchesRow, Terminal, TypeOK, RowInv, DoneInv, MessageType
<1>6. ChordInv'
    BY <1>2 DEF ChordInv, TypeOK
<1>7. RatingInv'
    BY <1>2 DEF RatingInv, RatingOn, TypeOK, Signal
<1>8. RowInv'
    BY <1>2 DEF RowInv, Terminal, TypeOK, RatingOn, ChordInv
<1>9. DoneInv'
    BY <1>2 DEF DoneInv, Terminal, TypeOK, RowInv, MessageType, DoneMatchesRow
<1>10. HandedOn'
    BY <1>2 DEF HandedOn, AllEnqueued, RatingOn, TypeOK, ChordInv
<1>11. BegunInv'
    BY DEF BegunInv, TypeOK, ScrapePhase
<1>. QED
    BY <1>1, <1>3, <1>4, <1>5, <1>6, <1>7, <1>8, <1>9, <1>10, <1>11

LEMMA FinalizeRefreshInvariant ==
    ASSUME IInv, NEW refused \in BOOLEAN, FinalizeRefresh(refused)
    PROVE  IInv'
<1>. USE DEF IInv, FinalizeRefresh, rowVars, handoffVars, scrapeVars, finalizeVars, rateVars
<1>1. TypeOK'
    BY PipelineAssumption DEF TypeOK, FinalizePhase, ScrapePhase, RatePhase, MessageType
<1>2. UNCHANGED <<CountedScrapes, NewSignals, CountedRatings>>
    BY DEF CountedScrapes, NewSignals, CountedRatings, TypeOK, ChordInv
<1>3. CountersExact'
    BY <1>2 DEF CountersExact
<1>4. CompletedMeansDrained'
    BY <1>2 DEF CompletedMeansDrained, RatingOn, TypeOK, RowInv, ChordInv
<1>5. (FinishedIffTerminal /\ DoneMatchesRow)'
    BY <1>2 DEF FinishedIffTerminal, DoneMatchesRow, Terminal, TypeOK, RowInv, DoneInv, MessageType
<1>6. ChordInv'
    BY <1>2 DEF ChordInv, TypeOK
<1>7. RatingInv'
    BY <1>2 DEF RatingInv, RatingOn, TypeOK, Signal
<1>8. RowInv'
    BY <1>2 DEF RowInv, Terminal, TypeOK, RatingOn, ChordInv
<1>9. DoneInv'
    BY <1>2 DEF DoneInv, Terminal, TypeOK, RowInv, MessageType, DoneMatchesRow
<1>10. HandedOn'
    BY <1>2 DEF HandedOn, AllEnqueued, RatingOn, TypeOK, ChordInv
<1>11. BegunInv'
    BY DEF BegunInv, TypeOK, ScrapePhase
<1>. QED
    BY <1>1, <1>3, <1>4, <1>5, <1>6, <1>7, <1>8, <1>9, <1>10, <1>11

LEMMA FinalizePublishInvariant ==
    ASSUME IInv, FinalizePublish
    PROVE  IInv'
<1>. USE DEF IInv, FinalizePublish, Publish, rowVars, handoffVars, scrapeVars, finalizeVars, rateVars
<1>1. TypeOK'
    BY PipelineAssumption DEF TypeOK, FinalizePhase, ScrapePhase, RatePhase, MessageType
<1>2. UNCHANGED <<CountedScrapes, NewSignals, CountedRatings>>
    BY DEF CountedScrapes, NewSignals, CountedRatings, TypeOK, ChordInv
<1>3. CountersExact'
    BY <1>2 DEF CountersExact
<1>4. CompletedMeansDrained'
    BY <1>2 DEF CompletedMeansDrained, RatingOn, TypeOK, RowInv, ChordInv
<1>5. (FinishedIffTerminal /\ DoneMatchesRow)'
    BY <1>2 DEF FinishedIffTerminal, DoneMatchesRow, Terminal, TypeOK, RowInv, DoneInv, MessageType
<1>6. ChordInv'
    BY <1>2 DEF ChordInv, TypeOK
<1>7. RatingInv'
    BY <1>2 DEF RatingInv, RatingOn, TypeOK, Signal
<1>8. RowInv'
    BY <1>2 DEF RowInv, Terminal, TypeOK, RatingOn, ChordInv
<1>9. DoneInv'
    BY <1>2 DEF DoneInv, Terminal, TypeOK, RowInv, MessageType, DoneMatchesRow
<1>10. HandedOn'
    BY <1>2 DEF HandedOn, AllEnqueued, RatingOn, TypeOK, ChordInv
<1>11. BegunInv'
    BY DEF BegunInv, TypeOK, ScrapePhase
<1>. QED
    BY <1>1, <1>3, <1>4, <1>5, <1>6, <1>7, <1>8, <1>9, <1>10, <1>11

LEMMA FinalizeDiesInvariant ==
    ASSUME IInv, FinalizeDies
    PROVE  IInv'
<1>. USE DEF IInv, FinalizeDies, rowVars, handoffVars, scrapeVars, finalizeVars, rateVars
<1>1. TypeOK'
    BY PipelineAssumption DEF TypeOK, FinalizePhase, ScrapePhase, RatePhase, MessageType
<1>2. UNCHANGED <<CountedScrapes, NewSignals, CountedRatings>>
    BY DEF CountedScrapes, NewSignals, CountedRatings, TypeOK, ChordInv
<1>3. CountersExact'
    BY <1>2 DEF CountersExact
<1>4. CompletedMeansDrained'
    BY <1>2 DEF CompletedMeansDrained, RatingOn, TypeOK, RowInv, ChordInv
<1>5. (FinishedIffTerminal /\ DoneMatchesRow)'
    BY <1>2 DEF FinishedIffTerminal, DoneMatchesRow, Terminal, TypeOK, RowInv, DoneInv, MessageType
<1>6. ChordInv'
    BY <1>2 DEF ChordInv, TypeOK
<1>7. RatingInv'
    BY <1>2 DEF RatingInv, RatingOn, TypeOK, Signal
<1>8. RowInv'
    BY <1>2 DEF RowInv, Terminal, TypeOK, RatingOn, ChordInv
<1>9. DoneInv'
    BY <1>2 DEF DoneInv, Terminal, TypeOK, RowInv, MessageType, DoneMatchesRow
<1>10. HandedOn'
    BY <1>2 DEF HandedOn, AllEnqueued, RatingOn, TypeOK, ChordInv
<1>11. BegunInv'
    BY DEF BegunInv, TypeOK, ScrapePhase
<1>. QED
    BY <1>1, <1>3, <1>4, <1>5, <1>6, <1>7, <1>8, <1>9, <1>10, <1>11

LEMMA EnqueueRatingInvariant ==
    ASSUME IInv, NEW i \in Influencers, NEW h \in Hashes, EnqueueRating(i, h)
    PROVE  IInv'
<1>. USE DEF IInv, EnqueueRating, ScrapeRuns, rowVars, handoffVars, scrapeVars, finalizeVars, rateVars
<1>1. TypeOK'
    <2>1. rate' \in [Signal -> RatePhase]
        BY DEF TypeOK, RatePhase
    <2>2. UNCHANGED <<status, model, total, done_count, inserted, rated_count, started_at, finished_at,
                      sender, dispatch, header, scrape, found, scrapeError, finalizer, refreshFailed,
                      retries, deadScrapes, deadRatings, sent>>
        OBVIOUS
    <2>. QED
        BY <2>1, <2>2 DEF TypeOK
<1>2. UNCHANGED <<CountedScrapes, NewSignals, CountedRatings>>
    BY DEF CountedScrapes, NewSignals, CountedRatings, TypeOK, ChordInv
<1>3. CountersExact'
    BY <1>2 DEF CountersExact
<1>4. CompletedMeansDrained'
    BY <1>2 DEF CompletedMeansDrained, RatingOn, TypeOK, RowInv, ChordInv
<1>5. (FinishedIffTerminal /\ DoneMatchesRow)'
    BY <1>2 DEF FinishedIffTerminal, DoneMatchesRow, Terminal, TypeOK, RowInv, DoneInv, MessageType
<1>6. ChordInv'
    BY <1>2 DEF ChordInv, TypeOK
<1>7. RatingInv'
    <2>1. RatingOn /\ <<i, h>> \in NewSignals
        BY DEF NewSignals, CountedScrapes, Signal
    <2>2. \A p \in Signal : rate'[p] # "none" => rate[p] # "none" \/ p = <<i, h>>
        BY DEF TypeOK
    <2>. QED
        BY <1>2, <2>1, <2>2 DEF RatingInv, RatingOn
<1>8. RowInv'
    BY <1>2 DEF RowInv, Terminal, TypeOK, RatingOn, ChordInv
<1>9. DoneInv'
    BY <1>2 DEF DoneInv, Terminal, TypeOK, RowInv, MessageType, DoneMatchesRow
<1>10. HandedOn'
    BY <1>2 DEF HandedOn, AllEnqueued, RatingOn, TypeOK, ChordInv
<1>11. BegunInv'
    BY DEF BegunInv, TypeOK, ScrapePhase
<1>. QED
    BY <1>1, <1>3, <1>4, <1>5, <1>6, <1>7, <1>8, <1>9, <1>10, <1>11

LEMMA RateRetryInvariant ==
    ASSUME IInv, NEW p \in Signal, RateRetry(p)
    PROVE  IInv'
<1>. USE DEF IInv, RateRetry, RateRuns, rowVars, handoffVars, scrapeVars, finalizeVars, rateVars
<1>1. TypeOK'
    BY PipelineAssumption DEF TypeOK, FinalizePhase, ScrapePhase, RatePhase, MessageType
<1>2. UNCHANGED <<CountedScrapes, NewSignals, CountedRatings>>
    BY DEF CountedScrapes, NewSignals, CountedRatings, TypeOK, ChordInv
<1>3. CountersExact'
    BY <1>2 DEF CountersExact
<1>4. CompletedMeansDrained'
    BY <1>2 DEF CompletedMeansDrained, RatingOn, TypeOK, RowInv, ChordInv
<1>5. (FinishedIffTerminal /\ DoneMatchesRow)'
    BY <1>2 DEF FinishedIffTerminal, DoneMatchesRow, Terminal, TypeOK, RowInv, DoneInv, MessageType
<1>6. ChordInv'
    BY <1>2 DEF ChordInv, TypeOK
<1>7. RatingInv'
    BY <1>2 DEF RatingInv, RatingOn, TypeOK, Signal
<1>8. RowInv'
    BY <1>2 DEF RowInv, Terminal, TypeOK, RatingOn, ChordInv
<1>9. DoneInv'
    BY <1>2 DEF DoneInv, Terminal, TypeOK, RowInv, MessageType, DoneMatchesRow
<1>10. HandedOn'
    BY <1>2 DEF HandedOn, AllEnqueued, RatingOn, TypeOK, ChordInv
<1>11. BegunInv'
    BY DEF BegunInv, TypeOK, ScrapePhase
<1>. QED
    BY <1>1, <1>3, <1>4, <1>5, <1>6, <1>7, <1>8, <1>9, <1>10, <1>11

LEMMA RatePublishInvariant ==
    ASSUME IInv, NEW p \in Signal, RatePublish(p)
    PROVE  IInv'
<1>. USE DEF IInv, RatePublish, RateRuns, Publish, rowVars, handoffVars, scrapeVars, finalizeVars, rateVars
<1>1. TypeOK'
    BY PipelineAssumption DEF TypeOK, FinalizePhase, ScrapePhase, RatePhase, MessageType
<1>2. UNCHANGED <<CountedScrapes, NewSignals, CountedRatings>>
    BY DEF CountedScrapes, NewSignals, CountedRatings, TypeOK, ChordInv
<1>3. CountersExact'
    BY <1>2 DEF CountersExact
<1>4. CompletedMeansDrained'
    BY <1>2 DEF CompletedMeansDrained, RatingOn, TypeOK, RowInv, ChordInv
<1>5. (FinishedIffTerminal /\ DoneMatchesRow)'
    BY <1>2 DEF FinishedIffTerminal, DoneMatchesRow, Terminal, TypeOK, RowInv, DoneInv, MessageType
<1>6. ChordInv'
    BY <1>2 DEF ChordInv, TypeOK
<1>7. RatingInv'
    BY <1>2 DEF RatingInv, RatingOn, TypeOK, Signal
<1>8. RowInv'
    BY <1>2 DEF RowInv, Terminal, TypeOK, RatingOn, ChordInv
<1>9. DoneInv'
    BY <1>2 DEF DoneInv, Terminal, TypeOK, RowInv, MessageType, DoneMatchesRow
<1>10. HandedOn'
    BY <1>2 DEF HandedOn, AllEnqueued, RatingOn, TypeOK, ChordInv
<1>11. BegunInv'
    BY DEF BegunInv, TypeOK, ScrapePhase
<1>. QED
    BY <1>1, <1>3, <1>4, <1>5, <1>6, <1>7, <1>8, <1>9, <1>10, <1>11

LEMMA RateDiesInvariant ==
    ASSUME IInv, NEW p \in Signal, RateDies(p)
    PROVE  IInv'
<1>. USE DEF IInv, RateDies, rowVars, handoffVars, scrapeVars, finalizeVars, rateVars
<1>1. TypeOK'
    BY PipelineAssumption DEF TypeOK, FinalizePhase, ScrapePhase, RatePhase, MessageType
<1>2. UNCHANGED <<CountedScrapes, NewSignals, CountedRatings>>
    BY DEF CountedScrapes, NewSignals, CountedRatings, TypeOK, ChordInv
<1>3. CountersExact'
    BY <1>2 DEF CountersExact
<1>4. CompletedMeansDrained'
    BY <1>2 DEF CompletedMeansDrained, RatingOn, TypeOK, RowInv, ChordInv
<1>5. (FinishedIffTerminal /\ DoneMatchesRow)'
    BY <1>2 DEF FinishedIffTerminal, DoneMatchesRow, Terminal, TypeOK, RowInv, DoneInv, MessageType
<1>6. ChordInv'
    BY <1>2 DEF ChordInv, TypeOK
<1>7. RatingInv'
    BY <1>2 DEF RatingInv, RatingOn, TypeOK, Signal
<1>8. RowInv'
    BY <1>2 DEF RowInv, Terminal, TypeOK, RatingOn, ChordInv
<1>9. DoneInv'
    BY <1>2 DEF DoneInv, Terminal, TypeOK, RowInv, MessageType, DoneMatchesRow
<1>10. HandedOn'
    BY <1>2 DEF HandedOn, AllEnqueued, RatingOn, TypeOK, ChordInv
<1>11. BegunInv'
    BY DEF BegunInv, TypeOK, ScrapePhase
<1>. QED
    BY <1>1, <1>3, <1>4, <1>5, <1>6, <1>7, <1>8, <1>9, <1>10, <1>11

LEMMA ScrapeCountInvariant ==
    ASSUME IInv, NEW i \in Influencers, NEW new \in SUBSET Hashes, NEW failed \in BOOLEAN,
           ScrapeCount(i, new, failed)
    PROVE  IInv'
<1>. USE DEF IInv, ScrapeCount, ScrapeRuns, ScrapeMoves, rowVars, handoffVars, scrapeVars,
             finalizeVars, rateVars
<1>1. i \notin CountedScrapes /\ CountedScrapes' = CountedScrapes \cup {i}
    BY DEF CountedScrapes, TypeOK
<1>2. NewSignals' = NewSignals \cup ({i} \X new)
    <2>1. \A j \in Influencers : j # i => found'[j] = found[j]
        BY DEF TypeOK
    <2>2. found'[i] = new
        BY DEF TypeOK
    <2>. QED
        BY <1>1, <2>1, <2>2 DEF NewSignals, Signal
<1>3. NewSignals \cap ({i} \X new) = {}
    BY <1>1 DEF NewSignals
<1>4. CountedRatings' = CountedRatings
    BY DEF CountedRatings
<1>5. IsFiniteSet(new) /\ Cardinality(new) \in Nat
    BY FS_Subset, FS_CardinalityType, PipelineAssumption
<1>6. Cardinality(CountedScrapes') = Cardinality(CountedScrapes) + 1
    BY <1>1, FiniteSets, FS_AddElement
<1>7. Cardinality(NewSignals') = Cardinality(NewSignals) + Cardinality(new)
    <2>. DEFINE batch == {i} \X new
    <2>1. IsFiniteSet({i}) /\ Cardinality({i}) = 1
        BY FS_Singleton
    <2>2. IsFiniteSet(batch) /\ Cardinality(batch) = Cardinality({i}) * Cardinality(new)
        BY <1>5, <2>1, FS_Product
    <2>3. Cardinality(batch) = Cardinality(new)
        BY <2>1, <2>2, <1>5
    <2>4. Cardinality(NewSignals \cap batch) = 0
        BY <1>3, FS_EmptySet
    <2>5. Cardinality(NewSignals) \in Nat
        BY FiniteSets, FS_CardinalityType
    <2>. HIDE DEF batch
    <2>6. Cardinality(NewSignals \cup batch)
             = Cardinality(NewSignals) + Cardinality(batch) - Cardinality(NewSignals \cap batch)
        BY <2>2, FiniteSets, FS_Union
    <2>. QED
        BY <2>3, <2>4, <2>5, <2>6, <1>2, <1>5 DEF batch
<1>8. i \in header /\ dispatch \in {"over", "dead"} /\ finalizer = "none"
    BY DEF ChordInv, TypeOK
<1>9. TypeOK'
    BY <1>5 DEF TypeOK, ScrapePhase
<1>10. CountersExact'
    BY <1>2, <1>4, <1>6, <1>7 DEF CountersExact
<1>11. status \notin Terminal /\ status # "rating"
    BY <1>8 DEF RowInv, Terminal
<1>12. (CompletedMeansDrained /\ FinishedIffTerminal /\ DoneMatchesRow)'
    BY <1>11 DEF CompletedMeansDrained, FinishedIffTerminal, DoneMatchesRow, Terminal
<1>13. ChordInv'
    BY <1>8 DEF ChordInv, TypeOK
<1>14. RatingInv'
    BY <1>2 DEF RatingInv, RatingOn
<1>15. RowInv' /\ DoneInv'
    BY <1>8, <1>11 DEF RowInv, DoneInv, Terminal
<1>16. HandedOn'
    BY DEF HandedOn, AllEnqueued, RatingOn, TypeOK
<1>17. BegunInv'
    BY DEF BegunInv, TypeOK, ScrapePhase
<1>. QED
    BY <1>9, <1>10, <1>12, <1>13, <1>14, <1>15, <1>16, <1>17

\* The one step where counters and sets meet: the announced rating was not counted, and
\* the SQL comparison of the two counters says exactly that it was the last one.
LEMMA LastRatingCounted ==
    ASSUME IInv, NEW p \in Signal, RateAnnounce(p)
    PROVE  /\ p \in NewSignals /\ p \notin CountedRatings /\ RatingOn
           /\ CountedRatings' = CountedRatings \cup {p}
           /\ NewSignals' = NewSignals
           /\ status # "completed"
           /\ rated_count + 1 >= inserted <=> CountedRatings' = NewSignals
<1>. USE DEF IInv, RateAnnounce, RateRuns, rowVars, handoffVars, scrapeVars, finalizeVars
<1>1. p \in NewSignals /\ RatingOn
    BY DEF RatingInv
<1>2. p \notin CountedRatings
    BY DEF CountedRatings
<1>3. CountedRatings' = CountedRatings \cup {p}
    BY DEF CountedRatings, TypeOK
<1>4. NewSignals' = NewSignals
    BY DEF NewSignals, CountedScrapes
<1>5. status # "completed"
    BY <1>1, <1>2 DEF CompletedMeansDrained
<1>6. Cardinality(CountedRatings') = rated_count + 1 /\ CountedRatings' \subseteq NewSignals
    BY <1>1, <1>2, <1>3, FiniteSets, FS_AddElement DEF CountersExact
<1>7. /\ Cardinality(CountedRatings') <= Cardinality(NewSignals)
      /\ Cardinality(NewSignals) = Cardinality(CountedRatings') => NewSignals = CountedRatings'
    BY <1>6, FiniteSets, FS_Subset
<1>8. rated_count + 1 >= inserted <=> CountedRatings' = NewSignals
    BY <1>6, <1>7, FiniteSets, FS_CardinalityType DEF CountersExact, TypeOK
<1>. QED
    BY <1>1, <1>2, <1>3, <1>4, <1>5, <1>8

LEMMA RateAnnounceInvariant ==
    ASSUME IInv, NEW p \in Signal, RateAnnounce(p)
    PROVE  IInv'
<1>. USE DEF IInv, RateAnnounce, RateRuns, rowVars, handoffVars, scrapeVars, finalizeVars
<1>1. /\ p \in NewSignals /\ p \notin CountedRatings /\ RatingOn
      /\ CountedRatings' = CountedRatings \cup {p}
      /\ NewSignals' = NewSignals
      /\ status # "completed"
      /\ rated_count + 1 >= inserted <=> CountedRatings' = NewSignals
    BY LastRatingCounted
<1>2. CountedScrapes' = CountedScrapes
    BY DEF CountedScrapes
<1>3. TypeOK'
    BY DEF TypeOK, Status, RatePhase
<1>4. CountersExact'
    BY <1>1, <1>2, FiniteSets, FS_AddElement DEF CountersExact
<1>5. LastRating => finalizer \in {"owesScrapeDone", "owesDone", "over", "dead"}
    BY DEF LastRating, RowInv, TypeOK, FinalizePhase
<1>6. CompletedMeansDrained'
    BY <1>1, <1>5 DEF CompletedMeansDrained, LastRating, ChordInv, RatingOn
<1>7. FinishedIffTerminal'
    BY <1>1 DEF FinishedIffTerminal, LastRating, Terminal, TypeOK
<1>8. DoneMatchesRow'
    BY <1>1 DEF DoneMatchesRow, LastRating, Terminal
<1>9. ChordInv'
    BY DEF ChordInv
<1>10. RatingInv'
    BY <1>1 DEF RatingInv, TypeOK, RatingOn
<1>11. RowInv'
    BY <1>5 DEF RowInv, LastRating, Terminal, TypeOK, RatingOn
<1>12. DoneInv'
    <2>1. \A q \in Signal : rate[q] # "owesDone"
        BY <1>1 DEF DoneInv
    <2>2. CASE LastRating
        <3>1. finalizer # "owesDone" /\ sent["done"] = 0
            BY <2>2 DEF LastRating, DoneInv, DoneMatchesRow, Terminal, TypeOK, MessageType
        <3>. QED
            BY <2>1, <2>2, <3>1 DEF DoneInv, TypeOK
    <2>3. CASE ~LastRating
        BY <1>1, <2>1, <2>3 DEF DoneInv, TypeOK, Terminal
    <2>. QED
        BY <2>2, <2>3
<1>13. HandedOn'
    BY DEF HandedOn, AllEnqueued, RatingOn, TypeOK, LastRating
<1>14. BegunInv'
    BY DEF BegunInv, TypeOK, ScrapePhase
<1>. QED
    BY <1>3, <1>4, <1>6, <1>7, <1>8, <1>9, <1>10, <1>11, <1>12, <1>13, <1>14

THEOREM StepInvariant == IInv /\ [Next]_vars => IInv'
<1>. SUFFICES ASSUME IInv, [Next]_vars PROVE IInv'
    OBVIOUS
<1>1. ASSUME NEW m \in BOOLEAN, NEW n \in 0..Cardinality(Influencers), CreateRun(m, n)
      PROVE  IInv'
    BY <1>1, CreateRunInvariant
<1>2. CASE SendDispatch
    BY <1>2, SendDispatchInvariant
<1>3. CASE DispatchStep
    BY <1>3, DispatchTotalInvariant, DispatchChordInvariant DEF DispatchStep
<1>4. ASSUME NEW i \in Influencers, ScrapeStep(i)
      PROVE  IInv'
    BY <1>4, ScrapeStartInvariant, ScrapeCountInvariant, EnqueueRatingInvariant,
       ScrapePublishInvariant, ScrapeReturnInvariant DEF ScrapeStep
<1>5. CASE FinalizeStep
    BY <1>5, FinalizeRefreshInvariant, FinalizeUpdateInvariant, FinalizePublishInvariant
       DEF FinalizeStep
<1>6. ASSUME NEW p \in Signal, RateStep(p)
      PROVE  IInv'
    BY <1>6, RateRetryInvariant, RateAnnounceInvariant, RatePublishInvariant DEF RateStep
<1>7. CASE Failure
    BY <1>7, SendLostInvariant, DispatchDiesInvariant, ScrapeDiesInvariant, FinalizeDiesInvariant,
       RateDiesInvariant DEF Failure
<1>8. CASE UNCHANGED vars
    BY <1>8 DEF vars, rowVars, handoffVars, scrapeVars, finalizeVars, rateVars, IInv, TypeOK,
       CountersExact, CountedScrapes, NewSignals, CountedRatings, CompletedMeansDrained, RatingOn,
       FinishedIffTerminal, DoneMatchesRow, ChordInv, RatingInv, RowInv, BegunInv, DoneInv, HandedOn,
       AllEnqueued
<1>. QED
    BY <1>1, <1>2, <1>3, <1>4, <1>5, <1>6, <1>7, <1>8 DEF Next, RunOver

\* IInv holds in every reachable state, whatever fails and however often.
THEOREM Invariance == Spec => []IInv
    BY InitInvariant, StepInvariant, PTL DEF Spec

\* Every column and every task phase keeps its type.
THEOREM TypeCorrect == Spec => []TypeOK
<1>1. IInv => TypeOK
    BY DEF IInv
<1>. QED
    BY <1>1, Invariance, PTL

\* done_count, inserted and rated_count are the sizes of the sets they report, under any
\* interleaving of the tasks and any loss of them.
THEOREM CountersCorrect == Spec => []CountersExact
<1>1. IInv => CountersExact
    BY DEF IInv
<1>. QED
    BY <1>1, Invariance, PTL

\* A run shown as `completed` has no scrape outstanding and no rating uncounted.
THEOREM CompletionIsDrained == Spec => []CompletedMeansDrained
<1>1. IInv => CompletedMeansDrained
    BY DEF IInv
<1>. QED
    BY <1>1, Invariance, PTL

\* finished_at is set exactly on terminal rows, and `done` is heard at most once and only
\* of a terminal row.
THEOREM TerminalRowAndMessage == Spec => [](FinishedIffTerminal /\ DoneMatchesRow)
<1>1. IInv => FinishedIffTerminal /\ DoneMatchesRow
    BY DEF IInv
<1>. QED
    BY <1>1, Invariance, PTL

\* A run with nobody left working on it and no terminal status has lost a task: the
\* counters by themselves never strand a run.
THEOREM OnlyLossStrands == Spec => []StrandedOnlyByLoss
<1>1. IInv => StrandedOnlyByLoss
    <2>. SUFFICES ASSUME IInv, Quiet, status \notin Terminal,
                         sender # "dead", dispatch # "dead", finalizer # "dead",
                         deadScrapes = {}, deadRatings = {}
                  PROVE  FALSE
        BY DEF StrandedOnlyByLoss
    <2>1. sender = "over" /\ dispatch = "over"
        BY DEF Quiet, IInv, HandedOn, TypeOK
    <2>2. \A i \in header : scrape[i] = "returned"
        BY <2>1 DEF Quiet, IInv, HandedOn, TypeOK
    <2>3. finalizer = "over"
        BY <2>1, <2>2 DEF Quiet, IInv, HandedOn
    <2>4. status = "rating" /\ RatingOn /\ rated_count < inserted
        BY <2>3 DEF IInv, RowInv
    <2>5. NewSignals # CountedRatings
        BY <2>4, FiniteSets, FS_CardinalityType DEF IInv, CountersExact
    <2>6. PICK p \in NewSignals : p \notin CountedRatings
        BY <2>5 DEF IInv, CountersExact
    <2>7. p \in Signal /\ rate[p] = "none"
        BY <2>6 DEF Quiet, NewSignals, CountedRatings
    <2>8. p = <<p[1], p[2]>> /\ p[1] \in Influencers /\ p[2] \in found[p[1]] /\ scrape[p[1]] # "none"
        BY <2>6, <2>7 DEF NewSignals, CountedScrapes, Signal
    <2>9. scrape[p[1]] = "returned"
        BY <2>2, <2>8 DEF IInv, ChordInv
    <2>. QED
        BY <2>4, <2>7, <2>8, <2>9 DEF IInv, HandedOn, AllEnqueued
<1>. QED
    BY <1>1, Invariance, PTL

\* A step that finds the row terminal leaves its status and its stamp alone.
LEMMA TerminalStep ==
    ASSUME IInv, [Next]_vars, status \in Terminal
    PROVE  status' = status /\ finished_at' = finished_at
<1>. USE DEF rowVars, handoffVars, scrapeVars, finalizeVars, rateVars, Terminal
<1>1. \A m, n : ~CreateRun(m, n)
    BY DEF CreateRun
<1>2. ~FinalizeUpdate
    BY DEF IInv, RowInv, FinalizeUpdate
<1>3. CASE SendDispatch \/ DispatchStep \/ FinalizeStep
    BY <1>2, <1>3 DEF SendDispatch, DispatchStep, DispatchTotal, DispatchChord, FinalizeStep,
       FinalizeRefresh, FinalizePublish
<1>4. ASSUME NEW i \in Influencers, ScrapeStep(i)
      PROVE  status' = status /\ finished_at' = finished_at
    BY <1>4 DEF ScrapeStep, ScrapeStart, ScrapeCount, EnqueueRating, ScrapePublish, ScrapeReturn
<1>5. ASSUME NEW p \in Signal, RateStep(p)
      PROVE  status' = status /\ finished_at' = finished_at
    BY <1>5 DEF RateStep, RateRetry, RateAnnounce, RatePublish, LastRating, IInv, TypeOK
<1>6. CASE Failure
    BY <1>6 DEF Failure, SendLost, DispatchDies, ScrapeDies, ScrapePublishRaises, FinalizeDies, RateDies
<1>7. CASE RunOver \/ UNCHANGED vars
    BY <1>7 DEF RunOver, vars
<1>. QED
    BY <1>1, <1>3, <1>4, <1>5, <1>6, <1>7 DEF Next

\* No late task reopens or reclassifies a terminal run.
THEOREM TerminalStays == Spec => TerminalIsFinal
<1>1. IInv /\ [Next]_vars => [(status \in Terminal) => (status' = status /\ finished_at' = finished_at)]_vars
    BY TerminalStep
<1>. QED
    BY <1>1, Invariance, PTL DEF Spec, TerminalIsFinal

-----------------------------------------------------------------------------
(***************************************************************************)
(* RunPipeline implements RunLifecycle: the three sets of the abstract run *)
(* are read off the header and the counted tasks.                          *)
(***************************************************************************)

\* The rest of the row's and the tasks' state is invisible to the abstract run.
LEMMA StutterHidden ==
    ASSUME UNCHANGED <<status, model, dispatch, header, found>>,
           UNCHANGED <<CountedScrapes, NewSignals, CountedRatings>>
    PROVE  UNCHANGED Lifecycle!lifecycleVars
    BY DEF Lifecycle!lifecycleVars, RatingOn

LEMMA RefinementInit == Init => Lifecycle!Init
    BY DEF Init, Lifecycle!Init, NewSignals, CountedScrapes

\* Sending the chord queues tasks; it counts none.
LEMMA ChordHidden ==
    ASSUME IInv, DispatchChord
    PROVE  UNCHANGED Lifecycle!lifecycleVars
<1>1. UNCHANGED <<status, model, header, found, rate>> /\ dispatch = "totalled" /\ dispatch' = "over"
    BY DEF DispatchChord, rowVars, rateVars
<1>2. CountedScrapes' = CountedScrapes
    BY <1>1 DEF IInv, ChordInv, DispatchChord, CountedScrapes
<1>3. NewSignals' = NewSignals
    BY <1>1, <1>2 DEF NewSignals
<1>4. CountedRatings' = CountedRatings
    BY <1>1 DEF CountedRatings
<1>. QED
    BY <1>1, <1>2, <1>3, <1>4 DEF Lifecycle!lifecycleVars, RatingOn

\* Actions that move no scrape past its count and no rating past its own are stutters.
LEMMA HiddenSteps ==
    ASSUME IInv,
           \/ SendDispatch \/ SendLost \/ DispatchChord \/ FinalizePublish \/ FinalizeDies
           \/ \E refused \in BOOLEAN : FinalizeRefresh(refused)
           \/ \E i \in Influencers : \/ \E h \in Hashes : EnqueueRating(i, h)
                                    \/ ScrapePublish(i) \/ ScrapeReturn(i)
                                    \/ ScrapeDies(i) \/ ScrapePublishRaises(i)
           \/ \E p \in Signal : RateRetry(p) \/ RatePublish(p) \/ RateDies(p)
           \/ UNCHANGED vars
    PROVE  UNCHANGED Lifecycle!lifecycleVars
<1>. USE DEF IInv, TypeOK, CountedScrapes, NewSignals, CountedRatings, rowVars, handoffVars,
             scrapeVars, finalizeVars, rateVars
<1>1. CASE SendDispatch \/ SendLost
    <2>1. UNCHANGED <<status, model, header, found, scrape, rate>>
        BY <1>1 DEF SendDispatch, SendLost
    <2>2. dispatch \notin {"totalled", "over", "dead"} /\ dispatch' \notin {"totalled", "over", "dead"}
        BY <1>1, Unborn DEF SendDispatch, SendLost
    <2>. QED
        BY <2>1, <2>2 DEF Lifecycle!lifecycleVars, RatingOn
<1>2. CASE DispatchChord
    BY <1>2, ChordHidden
<1>3. CASE \/ FinalizePublish \/ FinalizeDies
           \/ \E refused \in BOOLEAN : FinalizeRefresh(refused)
    BY <1>3, StutterHidden DEF FinalizePublish, FinalizeDies, FinalizeRefresh
<1>4. ASSUME NEW i \in Influencers, NEW h \in Hashes, EnqueueRating(i, h)
      PROVE  UNCHANGED Lifecycle!lifecycleVars
    BY <1>4, StutterHidden DEF EnqueueRating
<1>5. ASSUME NEW i \in Influencers, ScrapePublish(i) \/ ScrapeReturn(i) \/ ScrapeDies(i) \/ ScrapePublishRaises(i)
      PROVE  UNCHANGED Lifecycle!lifecycleVars
    <2>1. CountedScrapes' = CountedScrapes
        BY <1>5 DEF ScrapePublish, ScrapeReturn, ScrapeDies, ScrapePublishRaises, ScrapeRuns, ScrapeMoves
    <2>2. UNCHANGED <<status, model, dispatch, header, found, rate>>
        BY <1>5 DEF ScrapePublish, ScrapeReturn, ScrapeDies, ScrapePublishRaises
    <2>. QED
        BY <2>1, <2>2, StutterHidden
<1>6. ASSUME NEW p \in Signal, RateRetry(p) \/ RatePublish(p) \/ RateDies(p)
      PROVE  UNCHANGED Lifecycle!lifecycleVars
    <2>1. CountedRatings' = CountedRatings
        BY <1>6 DEF RateRetry, RatePublish, RateDies, RateRuns
    <2>2. UNCHANGED <<status, model, dispatch, header, found, scrape>>
        BY <1>6 DEF RateRetry, RatePublish, RateDies
    <2>. QED
        BY <2>1, <2>2, StutterHidden
<1>7. CASE UNCHANGED vars
    BY <1>7, StutterHidden DEF vars
<1>. QED
    BY <1>1, <1>2, <1>3, <1>4, <1>5, <1>6, <1>7

\* The API's insert.
LEMMA CreateRefines ==
    ASSUME IInv, NEW m \in BOOLEAN, NEW n \in 0..Cardinality(Influencers), CreateRun(m, n)
    PROVE  Lifecycle!Create
<1>. USE DEF CreateRun, scrapeVars, finalizeVars, rateVars
<1>1. sender # "over"
    BY DEF IInv, HandedOn
<1>2. NewSignals = {} /\ NewSignals' = {} /\ CountedScrapes' = CountedScrapes
    BY <1>1, Unborn DEF NewSignals, CountedScrapes
<1>. QED
    BY <1>2 DEF Lifecycle!Create

\* Re-reading the watchlist decides the fan-out; a dispatch task that dies first decides
\* that there will be none.
LEMMA FanOutRefines ==
    ASSUME IInv,
           \/ \E watchlist \in SUBSET Influencers : DispatchTotal(watchlist)
           \/ \E reached \in SUBSET Influencers : DispatchDies(reached)
    PROVE  (\E watchlist \in SUBSET Influencers : Lifecycle!FanOut(watchlist))
           \/ UNCHANGED Lifecycle!lifecycleVars
<1>. USE DEF IInv, TypeOK, ChordInv, rowVars, scrapeVars, finalizeVars, rateVars
<1>1. dispatch \in {"queued", "totalled"} /\ \A i \in Influencers : scrape[i] = "none"
    BY DEF DispatchTotal, DispatchDies
<1>2. CountedScrapes = {} /\ CountedScrapes' = {}
    BY <1>1 DEF CountedScrapes, DispatchTotal, DispatchDies
<1>3. NewSignals = {} /\ NewSignals' = {}
    BY <1>2 DEF NewSignals
<1>4. CASE dispatch = "totalled"
    <2>1. UNCHANGED <<status, header>> /\ dispatch' = "dead"
        BY <1>4 DEF DispatchTotal, DispatchDies
    <2>. QED
        BY <1>2, <1>3, <1>4, <2>1 DEF Lifecycle!lifecycleVars
<1>5. CASE dispatch = "queued"
    <2>1. UNCHANGED status /\ dispatch' \in {"totalled", "dead"} /\ header' \subseteq Influencers
        BY <1>5 DEF DispatchTotal, DispatchDies
    <2>2. status = "queued"
        <3>1. finalizer = "none" /\ status # "absent" /\ CountedScrapes = {}
            BY <1>2, <1>5 DEF HandedOn
        <3>. QED
            BY <3>1, <1>1, <1>5 DEF RowInv, BegunInv
    <2>3. header = {}
        BY <1>5
    <2>. QED
        BY <1>2, <1>3, <1>5, <2>1, <2>2, <2>3 DEF Lifecycle!FanOut
<1>. QED
    BY <1>1, <1>4, <1>5

\* The UPDATE that starts the first scrape begins the run; later ones are hidden.
LEMMA BeginRefines ==
    ASSUME IInv, NEW i \in Influencers, ScrapeStart(i)
    PROVE  Lifecycle!Begin \/ UNCHANGED Lifecycle!lifecycleVars
<1>1. /\ UNCHANGED <<model, dispatch, header, found, rate>>
      /\ scrape[i] = "queued" /\ scrape' = [scrape EXCEPT ![i] = "started"]
      /\ status' = IF status = "queued" THEN "running" ELSE status
    BY DEF ScrapeStart, ScrapeRuns, ScrapeMoves, handoffVars, rateVars
<1>2. CountedScrapes' = CountedScrapes
    BY <1>1 DEF IInv, TypeOK, CountedScrapes
<1>3. NewSignals' = NewSignals /\ CountedRatings' = CountedRatings
    BY <1>1, <1>2 DEF NewSignals, CountedRatings
<1>4. i \in header \ CountedScrapes
    BY <1>1 DEF IInv, ChordInv, CountedScrapes
<1>. QED
    BY <1>1, <1>2, <1>3, <1>4 DEF Lifecycle!Begin, Lifecycle!lifecycleVars, RatingOn

\* The counting UPDATE closes a scrape and opens the ratings of what it inserted.
LEMMA FinishScrapeRefines ==
    ASSUME IInv, NEW i \in Influencers, NEW new \in SUBSET Hashes, NEW failed \in BOOLEAN,
           ScrapeCount(i, new, failed)
    PROVE  \E items \in SUBSET ({i} \X Hashes) : Lifecycle!FinishScrape(i, items)
<1>1. /\ UNCHANGED <<status, model, dispatch, header, rate>>
      /\ scrape[i] = "started" /\ scrape' = [scrape EXCEPT ![i] = "counted"]
      /\ found' = [found EXCEPT ![i] = new]
    BY DEF ScrapeCount, ScrapeRuns, ScrapeMoves, handoffVars, rateVars
<1>2. CountedScrapes' = CountedScrapes \cup {i} /\ i \notin CountedScrapes /\ i \in header
    BY <1>1 DEF IInv, TypeOK, ChordInv, CountedScrapes
<1>3. status = "running"
    BY <1>1, <1>2 DEF IInv, ChordInv, BegunInv, RowInv, TypeOK, FinalizePhase, Status
<1>4. NewSignals' = NewSignals \cup ({i} \X new)
    BY <1>1, <1>2 DEF IInv, TypeOK, NewSignals, Signal
<1>5. CountedRatings' = CountedRatings /\ CountedRatings \cap ({i} \X new) = {}
    <2>1. CountedRatings \subseteq NewSignals
        BY DEF IInv, CountersExact
    <2>. QED
        BY <1>1, <1>2, <2>1 DEF CountedRatings, NewSignals
<1>6. DEFINE items == IF RatingOn THEN {i} \X new ELSE {}
<1>7. items \in SUBSET ({i} \X Hashes)
    OBVIOUS
<1>8. Lifecycle!FinishScrape(i, items)
    BY <1>1, <1>2, <1>3, <1>4, <1>5 DEF Lifecycle!FinishScrape, RatingOn
<1>. QED
    BY <1>7, <1>8

\* finalize_run's UPDATE is the fan-in, and its arithmetic on counters is emptiness of a set.
LEMMA FanInRefines ==
    ASSUME IInv, FinalizeUpdate
    PROVE  Lifecycle!FanIn
<1>1. UNCHANGED <<model, dispatch, header, found, scrape, rate>> /\ finalizer = "refreshed"
    BY DEF FinalizeUpdate, handoffVars, scrapeVars, rateVars
<1>2. UNCHANGED <<CountedScrapes, NewSignals, CountedRatings, RatingOn>>
    BY <1>1 DEF CountedScrapes, NewSignals, CountedRatings, RatingOn
<1>3. dispatch = "over" /\ header \ CountedScrapes = {}
    BY <1>1 DEF IInv, TypeOK, ChordInv, CountedScrapes
<1>4. status \in {"queued", "running"}
    <2>1. status # "absent"
        BY <1>3, Unborn DEF IInv, HandedOn
    <2>. QED
        BY <1>1, <2>1 DEF IInv, RowInv
<1>5. inserted > 0 /\ rated_count < inserted <=> NewSignals \ CountedRatings # {}
    <2>1. CountedRatings \in SUBSET NewSignals
        BY DEF IInv, CountersExact
    <2>2. /\ Cardinality(CountedRatings) <= Cardinality(NewSignals)
          /\ Cardinality(NewSignals) = Cardinality(CountedRatings) => NewSignals = CountedRatings
        BY <2>1, FiniteSets, FS_Subset
    <2>3. inserted = Cardinality(NewSignals) /\ rated_count = Cardinality(CountedRatings)
        BY DEF IInv, CountersExact
    <2>4. inserted \in Nat /\ rated_count \in Nat
        BY DEF IInv, TypeOK
    <2>5. NewSignals \ CountedRatings # {} <=> NewSignals # CountedRatings
        BY <2>1
    <2>6. inserted > 0 /\ rated_count < inserted <=> rated_count # inserted
        BY <2>2, <2>3, <2>4
    <2>. QED
        BY <2>2, <2>3, <2>5, <2>6
<1>6. status' = FinalStatus
    BY DEF FinalizeUpdate
<1>. QED
    BY <1>1, <1>2, <1>3, <1>4, <1>5, <1>6 DEF Lifecycle!FanIn, FinalStatus, RatingPending

\* The bump of rated_count closes a rating, and ends the run exactly when it was the last.
LEMMA FinishRatingRefines ==
    ASSUME IInv, NEW p \in Signal, RateAnnounce(p)
    PROVE  Lifecycle!FinishRating(p)
<1>1. /\ p \in NewSignals /\ p \notin CountedRatings /\ RatingOn
      /\ CountedRatings' = CountedRatings \cup {p}
      /\ NewSignals' = NewSignals
      /\ rated_count + 1 >= inserted <=> CountedRatings' = NewSignals
    BY LastRatingCounted
<1>2. /\ UNCHANGED <<model, dispatch, header, scrape>>
      /\ status' = IF LastRating THEN "completed" ELSE status
    BY DEF RateAnnounce, handoffVars, scrapeVars
<1>3. CountedScrapes' = CountedScrapes /\ RatingOn'
    BY <1>1, <1>2 DEF CountedScrapes, RatingOn
<1>4. CountedRatings \subseteq NewSignals
    BY DEF IInv, CountersExact
<1>5. rated_count + 1 >= inserted <=> NewSignals' \ CountedRatings' = {}
    BY <1>1, <1>4
<1>. QED
    BY <1>1, <1>2, <1>3, <1>5 DEF Lifecycle!FinishRating, LastRating

\* Every step of the pipeline is a step of the abstract run or invisible to it.
LEMMA RefinementStep == IInv /\ [Next]_vars => [Lifecycle!Next]_Lifecycle!lifecycleVars
<1>. SUFFICES ASSUME IInv, [Next]_vars
              PROVE  Lifecycle!Next \/ UNCHANGED Lifecycle!lifecycleVars
    OBVIOUS
<1>1. ASSUME NEW m \in BOOLEAN, NEW n \in 0..Cardinality(Influencers), CreateRun(m, n)
      PROVE  Lifecycle!Next
    BY <1>1, CreateRefines DEF Lifecycle!Next
<1>2. CASE SendDispatch \/ UNCHANGED vars
    BY <1>2, HiddenSteps
<1>3. CASE DispatchStep
    BY <1>3, FanOutRefines, ChordHidden DEF DispatchStep, Lifecycle!Next
<1>4. ASSUME NEW i \in Influencers, ScrapeStep(i)
      PROVE  Lifecycle!Next \/ UNCHANGED Lifecycle!lifecycleVars
    <2>1. CASE ScrapeStart(i)
        BY <2>1, BeginRefines DEF Lifecycle!Next
    <2>2. ASSUME NEW new \in SUBSET Hashes, NEW failed \in BOOLEAN, ScrapeCount(i, new, failed)
          PROVE  Lifecycle!Next
        BY <2>2, FinishScrapeRefines DEF Lifecycle!Next
    <2>3. CASE (\E h \in Hashes : EnqueueRating(i, h)) \/ ScrapePublish(i) \/ ScrapeReturn(i)
        BY <2>3, HiddenSteps
    <2>. QED
        BY <1>4, <2>1, <2>2, <2>3 DEF ScrapeStep
<1>5. CASE FinalizeStep
    BY <1>5, HiddenSteps, FanInRefines DEF FinalizeStep, Lifecycle!Next
<1>6. ASSUME NEW p \in Signal, RateStep(p)
      PROVE  Lifecycle!Next \/ UNCHANGED Lifecycle!lifecycleVars
    <2>1. CASE RateAnnounce(p)
        BY <2>1, FinishRatingRefines DEF Lifecycle!Next, Signal
    <2>2. CASE RateRetry(p) \/ RatePublish(p)
        BY <2>2, HiddenSteps
    <2>. QED
        BY <1>6, <2>1, <2>2 DEF RateStep
<1>7. CASE Failure
    <2>1. CASE \E reached \in SUBSET Influencers : DispatchDies(reached)
        BY <2>1, FanOutRefines DEF Lifecycle!Next
    <2>2. CASE SendLost \/ FinalizeDies
        BY <2>2, HiddenSteps
    <2>3. CASE \E i \in Influencers : ScrapeDies(i) \/ ScrapePublishRaises(i)
        BY <2>3, HiddenSteps
    <2>4. CASE \E p \in Signal : RateDies(p)
        BY <2>4, HiddenSteps
    <2>. QED
        BY <1>7, <2>1, <2>2, <2>3, <2>4 DEF Failure
<1>. QED
    BY <1>1, <1>2, <1>3, <1>4, <1>5, <1>6, <1>7 DEF Next, RunOver

\* Three integer columns, updated by tasks that never see each other, implement a run that
\* knows exactly which scrapes and which ratings are open.
THEOREM PipelineImplementsLifecycle == Spec => ImplementsLifecycle
    BY RefinementInit, RefinementStep, Invariance, PTL DEF Spec, ImplementsLifecycle, Lifecycle!Spec

-----------------------------------------------------------------------------
(***************************************************************************)
(* RunStream: the messages of the run, and the streams that relay them.    *)
(***************************************************************************)

\* What was announced was counted before: the messages never run ahead of the row.
LEMMA AnnouncedWasCounted ==
    ASSUME IInv
    PROVE  /\ IsFiniteSet(Announced) /\ IsFiniteSet(RatingsOver)
           /\ Cardinality(Announced) <= done_count
           /\ Cardinality(RatingsOver) <= rated_count
<1>1. Announced \in SUBSET CountedScrapes
    BY DEF Announced, CountedScrapes
<1>2. RatingsOver \in SUBSET CountedRatings
    BY DEF RatingsOver, CountedRatings
<1>3. IsFiniteSet(Announced) /\ Cardinality(Announced) <= Cardinality(CountedScrapes)
    BY <1>1, FiniteSets, FS_Subset
<1>4. IsFiniteSet(RatingsOver) /\ Cardinality(RatingsOver) <= Cardinality(CountedRatings)
    BY <1>2, FiniteSets, FS_Subset
<1>. QED
    BY <1>3, <1>4 DEF IInv, CountersExact

LEMMA MessageInit == Init => MessageInv
<1>. SUFFICES ASSUME Init PROVE MessageInv
    OBVIOUS
<1>1. Announced = {} /\ RatingsOver = {}
    BY DEF Init, Announced, RatingsOver
<1>2. sent["progress"] = 0 /\ sent["rating"] = 0
    BY DEF Init, MessageType
<1>. QED
    BY <1>1, <1>2, FS_EmptySet DEF MessageInv

\* A step that announces nothing and ends no announcement.
LEMMA MessageQuiet ==
    ASSUME MessageInv, UNCHANGED <<Announced, RatingsOver>>, UNCHANGED sent
    PROVE  MessageInv'
    BY DEF MessageInv

\* A message is one more of its kind, and of no other.
LEMMA PublishOne ==
    ASSUME TypeOK, NEW kind \in MessageType, Publish(kind)
    PROVE  /\ sent'[kind] = sent[kind] + 1
           /\ \A t \in MessageType : t # kind => sent'[t] = sent[t]
           /\ \A t \in MessageType : sent[t] \in Nat /\ sent'[t] \in Nat /\ sent[t] <= sent'[t]
    BY DEF TypeOK, Publish

\* Every step keeps the message counts behind the tasks, and takes no message back.
LEMMA MessageStep ==
    ASSUME IInv, MessageInv, [Next]_vars
    PROVE  MessageInv' /\ \A t \in MessageType : sent[t] <= sent'[t]
<1>. DEFINE Goal == MessageInv' /\ \A t \in MessageType : sent[t] <= sent'[t]
<1>. USE DEF rowVars, handoffVars, scrapeVars, finalizeVars, rateVars
<1>0. TypeOK /\ \A t \in MessageType : sent[t] \in Nat
    BY DEF IInv, TypeOK
<1>1. ASSUME UNCHANGED <<scrape, rate, sent>>
      PROVE  Goal
    <2>1. UNCHANGED <<Announced, RatingsOver>>
        BY <1>1 DEF Announced, RatingsOver
    <2>. QED
        BY <1>0, <1>1, <2>1, MessageQuiet
<1>2. ASSUME NEW m, NEW n, CreateRun(m, n)
      PROVE  Goal
    BY <1>1, <1>2 DEF CreateRun
<1>3. CASE SendDispatch \/ SendLost \/ (\E refused \in BOOLEAN : FinalizeRefresh(refused))
           \/ FinalizeUpdate \/ FinalizeDies \/ (\E watchlist \in SUBSET Influencers : DispatchTotal(watchlist))
           \/ RunOver \/ UNCHANGED vars
    BY <1>1, <1>3 DEF SendDispatch, SendLost, FinalizeRefresh, FinalizeUpdate, FinalizeDies,
       DispatchTotal, RunOver, vars
<1>4. CASE DispatchChord \/ \E reached \in SUBSET Influencers : DispatchDies(reached)
    <2>1. UNCHANGED <<rate, sent>> /\ \A i \in Influencers : scrape[i] = "none"
        BY <1>4 DEF DispatchChord, DispatchDies, IInv, ChordInv
    <2>2. \A i \in Influencers : scrape'[i] \in {"none", "queued"}
        BY <1>4, <2>1 DEF DispatchChord, DispatchDies
    <2>3. UNCHANGED <<Announced, RatingsOver>>
        BY <2>1, <2>2 DEF Announced, RatingsOver
    <2>. QED
        BY <1>0, <2>1, <2>3, MessageQuiet
<1>5. ASSUME NEW i \in Influencers,
             \/ ScrapeStart(i) \/ ScrapeReturn(i) \/ ScrapeDies(i) \/ ScrapePublishRaises(i)
             \/ \E new \in SUBSET Hashes : \E failed \in BOOLEAN : ScrapeCount(i, new, failed)
      PROVE  Goal
    <2>1. UNCHANGED <<rate, sent>>
        BY <1>5 DEF ScrapeStart, ScrapeReturn, ScrapeDies, ScrapePublishRaises, ScrapeCount
    <2>2. UNCHANGED Announced
        BY <1>0, <1>5 DEF ScrapeStart, ScrapeReturn, ScrapeDies, ScrapePublishRaises, ScrapeCount,
           ScrapeRuns, ScrapeMoves, Announced, TypeOK
    <2>3. UNCHANGED RatingsOver
        BY <2>1 DEF RatingsOver
    <2>. QED
        BY <1>0, <2>1, <2>2, <2>3, MessageQuiet
<1>6. ASSUME NEW i \in Influencers, ScrapePublish(i)
      PROVE  Goal
    <2>1. UNCHANGED rate /\ scrape[i] = "counted" /\ scrape' = [scrape EXCEPT ![i] = "published"]
        BY <1>6 DEF ScrapePublish, ScrapeRuns, ScrapeMoves
    <2>2. Announced' = Announced \cup {i} /\ i \notin Announced
        BY <1>0, <2>1 DEF Announced, TypeOK
    <2>3. UNCHANGED RatingsOver
        BY <2>1 DEF RatingsOver
    <2>4. Cardinality(Announced') = Cardinality(Announced) + 1
        BY <2>2, AnnouncedWasCounted, FS_AddElement
    <2>5. "progress" \in MessageType /\ "rating" \in MessageType /\ Publish("progress")
        BY <1>6 DEF MessageType, ScrapePublish
    <2>6. sent'["progress"] = sent["progress"] + 1 /\ sent'["rating"] = sent["rating"]
        BY <1>0, <2>5, PublishOne
    <2>. QED
        BY <1>0, <2>3, <2>4, <2>5, <2>6, PublishOne DEF MessageInv
<1>7. ASSUME NEW p \in Signal, RateRetry(p) \/ RateAnnounce(p) \/ RateDies(p)
      PROVE  Goal
    <2>1. UNCHANGED <<scrape, sent>>
        BY <1>7 DEF RateRetry, RateAnnounce, RateDies
    <2>2. UNCHANGED RatingsOver
        BY <1>0, <1>7 DEF RateRetry, RateAnnounce, RateDies, RateRuns, RatingsOver, TypeOK
    <2>3. UNCHANGED Announced
        BY <2>1 DEF Announced
    <2>. QED
        BY <1>0, <2>1, <2>2, <2>3, MessageQuiet
<1>8. ASSUME NEW i \in Influencers, NEW h \in Hashes, EnqueueRating(i, h)
      PROVE  Goal
    <2>1. UNCHANGED <<scrape, sent>> /\ rate' = [rate EXCEPT ![<<i, h>>] = "queued"]
          /\ rate[<<i, h>>] = "none"
        BY <1>8 DEF EnqueueRating
    <2>2. UNCHANGED RatingsOver
        BY <1>0, <2>1 DEF RatingsOver, TypeOK
    <2>3. UNCHANGED Announced
        BY <2>1 DEF Announced
    <2>. QED
        BY <1>0, <2>1, <2>2, <2>3, MessageQuiet
<1>9. ASSUME NEW p \in Signal, RatePublish(p)
      PROVE  Goal
    <2>1. /\ UNCHANGED scrape /\ rate[p] # "over" /\ rate' = [rate EXCEPT ![p] = "over"]
          /\ Publish("done") \/ Publish("rating")
        BY <1>9 DEF RatePublish, RateRuns
    <2>2. RatingsOver' = RatingsOver \cup {p} /\ p \notin RatingsOver
        BY <1>0, <2>1 DEF RatingsOver, TypeOK
    <2>3. UNCHANGED Announced
        BY <2>1 DEF Announced
    <2>4. Cardinality(RatingsOver') = Cardinality(RatingsOver) + 1
          /\ Cardinality(RatingsOver) \in Nat
        BY <2>2, AnnouncedWasCounted, FS_AddElement, FS_CardinalityType
    <2>5. {"progress", "rating", "done"} \subseteq MessageType
        BY DEF MessageType
    <2>6. sent'["progress"] = sent["progress"] /\ sent'["rating"] <= sent["rating"] + 1
        BY <1>0, <2>1, <2>5, PublishOne
    <2>7. \A t \in MessageType : sent[t] <= sent'[t] /\ sent'[t] \in Nat
        BY <2>1, <1>0, <2>5, PublishOne
    <2>. QED
        BY <1>0, <2>3, <2>4, <2>5, <2>6, <2>7 DEF MessageInv
<1>10. CASE FinalizePublish
    <2>1. UNCHANGED <<scrape, rate>> /\ (Publish("done") \/ Publish("scrape_done"))
        BY <1>10 DEF FinalizePublish
    <2>2. UNCHANGED <<Announced, RatingsOver>>
        BY <2>1 DEF Announced, RatingsOver
    <2>3. {"progress", "rating", "done", "scrape_done"} \subseteq MessageType
        BY DEF MessageType
    <2>4. sent'["progress"] = sent["progress"] /\ sent'["rating"] = sent["rating"]
        BY <1>0, <2>1, <2>3, PublishOne
    <2>5. \A t \in MessageType : sent[t] <= sent'[t]
        BY <1>0, <2>1, <2>3, PublishOne
    <2>. QED
        BY <2>2, <2>4, <2>5 DEF MessageInv
<1>11. CASE DispatchStep
    BY <1>3, <1>4, <1>11 DEF DispatchStep
<1>12. ASSUME NEW i \in Influencers, ScrapeStep(i)
      PROVE  Goal
    BY <1>5, <1>6, <1>8, <1>12 DEF ScrapeStep
<1>13. CASE FinalizeStep
    BY <1>3, <1>10, <1>13 DEF FinalizeStep
<1>14. ASSUME NEW p \in Signal, RateStep(p)
      PROVE  Goal
    BY <1>7, <1>9, <1>14 DEF RateStep
<1>15. CASE Failure
    BY <1>3, <1>4, <1>5, <1>7, <1>15 DEF Failure
<1>. QED
    BY <1>2, <1>3, <1>11, <1>12, <1>13, <1>14, <1>15 DEF Next

-----------------------------------------------------------------------------
(***************************************************************************)
(* The streams.                                                            *)
(***************************************************************************)
LEMMA StreamInitInvariant == StreamInit => StreamInv
<1>. SUFFICES ASSUME StreamInit PROVE StreamInv
    OBVIOUS
<1>1. IInv /\ MessageInv
    BY InitInvariant, MessageInit DEF StreamInit
<1>2. sent \in [MessageType -> Nat] /\ "done" \in MessageType
    BY <1>1 DEF IInv, TypeOK, MessageType
<1>3. StreamTypeOK
    BY <1>2 DEF StreamInit, StreamTypeOK, StreamPhase, NoRow, Status
<1>4. SnapshotInv
    BY <1>2 DEF StreamInit, SnapshotInv
<1>5. BehindRowInv /\ EndedMeansTerminal
    BY DEF StreamInit, BehindRowInv, EndedMeansTerminal, NoRow, Terminal
<1>. QED
    BY <1>1, <1>3, <1>4, <1>5 DEF StreamInv

\* What an enqueued message says of the row when it is a `done`.
LEMMA DoneDelivered ==
    ASSUME IInv, IInv', sent["done"] <= sent'["done"], "done" \in Published
    PROVE  status' \in Terminal
<1>1. sent["done"] \in Nat /\ sent'["done"] \in Nat /\ sent'["done"] # sent["done"]
    BY DEF Published, IInv, TypeOK, MessageType
<1>2. sent'["done"] = 1
    BY <1>1 DEF IInv, DoneMatchesRow
<1>. QED
    BY <1>1, <1>2 DEF IInv, DoneMatchesRow

\* A step of the pipeline, delivered to whoever is subscribed.
LEMMA DeliverInvariant ==
    ASSUME StreamInv, Next, Deliver
    PROVE  StreamInv'
<1>1. IInv /\ IInv' /\ [Next]_vars /\ MessageInv
    BY StepInvariant DEF StreamInv
<1>2. MessageInv' /\ \A t \in MessageType : sent[t] <= sent'[t]
    BY <1>1, MessageStep
<1>3. \A t \in MessageType : sent[t] \in Nat /\ sent'[t] \in Nat
    BY <1>1 DEF IInv, TypeOK
<1>4. status \in Terminal => status' \in Terminal
    BY <1>1, TerminalStep
<1>5. UNCHANGED <<stream, snapshot>>
    BY DEF Deliver
<1>6. /\ missed' \in [Clients -> [MessageType -> Nat]]
      /\ \A c \in Clients : \A t \in MessageType : missed'[c][t] <= sent'[t]
      /\ \A c \in Clients : Subscribed(c) => missed'[c] = missed[c]
    <2>1. missed \in [Clients -> [MessageType -> Nat]]
          /\ \A c \in Clients : \A t \in MessageType : missed[c][t] <= sent[t]
        BY DEF StreamInv, StreamTypeOK, SnapshotInv
    <2>2. missed' = [c \in Clients |->
                       IF Subscribed(c) THEN missed[c]
                       ELSE [t \in MessageType |-> missed[c][t] + (sent'[t] - sent[t])]]
        BY DEF Deliver
    <2>3. ASSUME NEW c \in Clients, ~Subscribed(c)
          PROVE  /\ missed'[c] = [t \in MessageType |-> missed[c][t] + (sent'[t] - sent[t])]
                 /\ missed'[c] \in [MessageType -> Nat]
                 /\ \A t \in MessageType : missed'[c][t] <= sent'[t]
        <3>1. missed'[c] = [t \in MessageType |-> missed[c][t] + (sent'[t] - sent[t])]
            BY <2>2, <2>3
        <3>2. \A t \in MessageType : missed[c][t] \in Nat /\ missed[c][t] <= sent[t]
            BY <2>1
        <3>3. \A t \in MessageType : missed[c][t] + (sent'[t] - sent[t]) \in Nat
                                     /\ missed[c][t] + (sent'[t] - sent[t]) <= sent'[t]
            BY <1>2, <1>3, <3>2
        <3>. QED
            BY <3>1, <3>3
    <2>4. ASSUME NEW c \in Clients, Subscribed(c)
          PROVE  /\ missed'[c] = missed[c]
                 /\ missed'[c] \in [MessageType -> Nat]
                 /\ \A t \in MessageType : missed'[c][t] <= sent'[t]
        <3>1. missed'[c] = missed[c]
            BY <2>2, <2>4
        <3>2. \A t \in MessageType : missed[c][t] \in Nat /\ missed[c][t] <= sent[t]
            BY <2>1
        <3>. QED
            BY <1>2, <1>3, <2>1, <3>1, <3>2
    <2>. QED
        BY <2>2, <2>3, <2>4
<1>7. /\ inbox' \in [Clients -> Seq(MessageType)]
      /\ \A c \in Clients : ~Subscribed(c) => inbox'[c] = inbox[c]
      /\ \A c \in Clients : \A k \in 1..Len(inbox'[c]) : inbox'[c][k] = "done" => status' \in Terminal
    <2>1. inbox \in [Clients -> Seq(MessageType)]
        BY DEF StreamInv, StreamTypeOK
    <2>2. \A c \in Clients : \A k \in 1..Len(inbox[c]) : inbox[c][k] = "done" => status \in Terminal
        BY DEF StreamInv, BehindRowInv
    <2>3. ASSUME NEW c \in Clients, Subscribed(c), Published # {}
          PROVE  /\ inbox'[c] \in Seq(MessageType)
                 /\ \A k \in 1..Len(inbox'[c]) : inbox'[c][k] = "done" => status' \in Terminal
        <3>. DEFINE m == CHOOSE t \in Published : TRUE
        <3>1. m \in Published /\ m \in MessageType
            BY <2>3 DEF Published
        <3>2. inbox'[c] = Append(inbox[c], m)
            BY <2>3 DEF Deliver
        <3>3. m = "done" => status' \in Terminal
            BY <3>1, <1>1, <1>2, DoneDelivered
        <3>. HIDE DEF m
        <3>4. inbox[c] \in Seq(MessageType)
            BY <2>1
        <3>. QED
            BY <3>1, <3>2, <3>3, <3>4, <2>2, <1>4
    <2>4. ASSUME NEW c \in Clients, ~(Subscribed(c) /\ Published # {})
          PROVE  inbox'[c] = inbox[c]
        BY <2>4 DEF Deliver
    <2>5. ASSUME NEW c \in Clients
          PROVE  /\ inbox'[c] \in Seq(MessageType)
                 /\ \A k \in 1..Len(inbox'[c]) : inbox'[c][k] = "done" => status' \in Terminal
        <3>1. CASE Subscribed(c) /\ Published # {}
            BY <2>3, <3>1
        <3>2. CASE ~(Subscribed(c) /\ Published # {})
            BY <2>1, <2>2, <2>4, <3>2, <1>4
        <3>. QED
            BY <3>1, <3>2
    <2>6. inbox' = [c \in Clients |-> inbox'[c]]
        BY DEF Deliver
    <2>. QED
        BY <2>4, <2>5, <2>6
<1>8. StreamTypeOK'
    BY <1>5, <1>6, <1>7 DEF StreamInv, StreamTypeOK, Subscribed
<1>9. SnapshotInv'
    BY <1>5, <1>6 DEF StreamInv, SnapshotInv, Subscribed
<1>10. BehindRowInv' /\ EndedMeansTerminal'
    BY <1>4, <1>5, <1>7 DEF StreamInv, BehindRowInv, EndedMeansTerminal
<1>. QED
    BY <1>1, <1>2, <1>8, <1>9, <1>10 DEF StreamInv

\* A step of one client's generator changes nothing of the run, and nothing of the
\* other clients.
LEMMA ClientFrame ==
    ASSUME StreamInv, NEW c \in Clients, UNCHANGED vars,
           \A d \in Clients \ {c} : /\ stream'[d] = stream[d] /\ snapshot'[d] = snapshot[d]
                                    /\ inbox'[d] = inbox[d] /\ missed'[d] = missed[d],
           StreamTypeOK',
           /\ \A t \in MessageType : missed'[c][t] <= sent[t]
           /\ stream'[c] \in {"read", "relaying"} =>
                 /\ missed'[c]["progress"] <= snapshot'[c].done
                 /\ missed'[c]["rating"] <= snapshot'[c].rated
                 /\ missed'[c]["done"] # 0 => snapshot'[c].status \in Terminal
           /\ stream'[c] = "relaying" => snapshot'[c].status \notin Terminal,
           snapshot'[c].status \in Terminal => status \in Terminal,
           \A k \in 1..Len(inbox'[c]) : inbox'[c][k] = "done" => status \in Terminal,
           stream'[c] = "ended" => snapshot'[c].status = "absent" \/ status \in Terminal
    PROVE  StreamInv'
<1>1. IInv' /\ MessageInv'
    <2>1. MessageInv' <=> MessageInv
        BY DEF MessageInv, Announced, RatingsOver, vars, scrapeVars, rateVars
    <2>. QED
        BY <2>1, StepInvariant DEF StreamInv
<1>2. status' = status /\ sent' = sent
    BY DEF vars, rowVars
<1>3. SnapshotInv'
    <2>. SUFFICES ASSUME NEW d \in Clients
                  PROVE  /\ \A t \in MessageType : missed'[d][t] <= sent'[t]
                         /\ stream'[d] \in {"read", "relaying"} =>
                               /\ missed'[d]["progress"] <= snapshot'[d].done
                               /\ missed'[d]["rating"] <= snapshot'[d].rated
                               /\ missed'[d]["done"] # 0 => snapshot'[d].status \in Terminal
                         /\ stream'[d] = "relaying" => snapshot'[d].status \notin Terminal
        BY DEF SnapshotInv
    <2>1. CASE d = c
        BY <1>2, <2>1
    <2>2. CASE d # c
        BY <1>2, <2>2 DEF StreamInv, SnapshotInv
    <2>. QED
        BY <2>1, <2>2
<1>4. BehindRowInv'
    <2>. SUFFICES ASSUME NEW d \in Clients
                  PROVE  /\ snapshot'[d].status \in Terminal => status \in Terminal
                         /\ \A k \in 1..Len(inbox'[d]) : inbox'[d][k] = "done" => status \in Terminal
        BY <1>2 DEF BehindRowInv
    <2>1. CASE d = c
        BY <2>1
    <2>2. CASE d # c
        BY <2>2 DEF StreamInv, BehindRowInv
    <2>. QED
        BY <2>1, <2>2
<1>5. EndedMeansTerminal'
    BY <1>2 DEF StreamInv, EndedMeansTerminal
<1>. QED
    BY <1>1, <1>3, <1>4, <1>5 DEF StreamInv

LEMMA OpenInvariant ==
    ASSUME StreamInv, NEW c \in Clients, Open(c)
    PROVE  StreamInv'
<1>1. StreamTypeOK /\ IInv /\ sent \in [MessageType -> Nat]
    BY DEF StreamInv, IInv, TypeOK
<1>2. /\ stream' = [stream EXCEPT ![c] = "subscribed"]
      /\ snapshot' = [snapshot EXCEPT ![c] = NoRow]
      /\ inbox' = [inbox EXCEPT ![c] = <<>>]
      /\ missed' = [missed EXCEPT ![c] = sent]
      /\ UNCHANGED vars
    BY DEF Open, Moves
<1>3. NoRow \in [status : Status, done : Nat, rated : Nat] /\ NoRow.status \notin Terminal
    BY DEF NoRow, Status, Terminal
<1>4. StreamTypeOK'
    BY <1>1, <1>2, <1>3 DEF StreamTypeOK, StreamPhase
<1>5. /\ stream'[c] = "subscribed" /\ snapshot'[c] = NoRow
      /\ inbox'[c] = <<>> /\ Len(inbox'[c]) = 0 /\ missed'[c] = sent
    BY <1>1, <1>2 DEF StreamTypeOK
<1>6. \A d \in Clients \ {c} : /\ stream'[d] = stream[d] /\ snapshot'[d] = snapshot[d]
                               /\ inbox'[d] = inbox[d] /\ missed'[d] = missed[d]
    BY <1>1, <1>2 DEF StreamTypeOK
<1>7. \A t \in MessageType : missed'[c][t] <= sent[t]
    BY <1>1, <1>5
<1>. QED
    BY <1>2, <1>3, <1>4, <1>5, <1>6, <1>7, ClientFrame

\* The row that is read accounts for every message sent before it was read.
LEMMA ReadSnapshotInvariant ==
    ASSUME StreamInv, NEW c \in Clients, ReadSnapshot(c)
    PROVE  StreamInv'
<1>. DEFINE row == [status |-> status, done |-> done_count, rated |-> rated_count]
<1>1. StreamTypeOK /\ TypeOK /\ IInv /\ MessageInv
    BY DEF StreamInv, IInv
<1>2. /\ stream' = [stream EXCEPT ![c] = "read"]
      /\ snapshot' = [snapshot EXCEPT ![c] = row]
      /\ UNCHANGED <<vars, inbox, missed>>
    BY DEF ReadSnapshot, Moves
<1>3. row \in [status : Status, done : Nat, rated : Nat]
    BY <1>1 DEF TypeOK
<1>4. StreamTypeOK'
    BY <1>1, <1>2, <1>3 DEF StreamTypeOK, StreamPhase
<1>5. \A t \in MessageType : missed[c][t] <= sent[t] /\ missed[c][t] \in Nat /\ sent[t] \in Nat
    BY <1>1 DEF StreamInv, SnapshotInv, StreamTypeOK, TypeOK
<1>6. missed[c]["progress"] <= done_count /\ missed[c]["rating"] <= rated_count
    <2>1. /\ Cardinality(Announced) <= done_count /\ Cardinality(RatingsOver) <= rated_count
          /\ Cardinality(Announced) \in Nat /\ Cardinality(RatingsOver) \in Nat
        BY <1>1, AnnouncedWasCounted, FS_CardinalityType
    <2>2. sent["progress"] = Cardinality(Announced) /\ sent["rating"] <= Cardinality(RatingsOver)
        BY <1>1 DEF MessageInv
    <2>3. done_count \in Nat /\ rated_count \in Nat
        BY <1>1 DEF TypeOK
    <2>. QED
        BY <1>5, <2>1, <2>2, <2>3 DEF MessageType
<1>7. missed[c]["done"] # 0 => status \in Terminal
    BY <1>1, <1>5 DEF IInv, DoneMatchesRow, MessageType
<1>8. /\ row.status = status /\ row.done = done_count /\ row.rated = rated_count
      /\ snapshot'[c] = row /\ stream'[c] = "read" /\ inbox'[c] = inbox[c] /\ missed'[c] = missed[c]
    BY <1>1, <1>2 DEF StreamTypeOK
<1>9. \A k \in 1..Len(inbox[c]) : inbox[c][k] = "done" => status \in Terminal
    BY DEF StreamInv, BehindRowInv
<1>10. \A d \in Clients \ {c} : /\ stream'[d] = stream[d] /\ snapshot'[d] = snapshot[d]
                                /\ inbox'[d] = inbox[d] /\ missed'[d] = missed[d]
    BY <1>1, <1>2 DEF StreamTypeOK
<1>. HIDE DEF row
<1>. QED
    BY <1>2, <1>4, <1>5, <1>6, <1>7, <1>8, <1>9, <1>10, ClientFrame

LEMMA EmitSnapshotInvariant ==
    ASSUME StreamInv, NEW c \in Clients, EmitSnapshot(c)
    PROVE  StreamInv'
<1>. DEFINE next == IF snapshot[c].status \in Terminal \cup {"absent"} THEN "ended" ELSE "relaying"
<1>1. StreamTypeOK /\ SnapshotInv /\ BehindRowInv
    BY DEF StreamInv
<1>2. /\ stream[c] = "read" /\ stream' = [stream EXCEPT ![c] = next]
      /\ UNCHANGED <<vars, snapshot, inbox, missed>>
    BY DEF EmitSnapshot, Moves
<1>3. StreamTypeOK'
    BY <1>1, <1>2 DEF StreamTypeOK, StreamPhase
<1>4. stream'[c] = next
    BY <1>1, <1>2 DEF StreamTypeOK
<1>5. \A d \in Clients \ {c} : stream'[d] = stream[d]
    BY <1>1, <1>2 DEF StreamTypeOK
<1>6. /\ \A t \in MessageType : missed[c][t] <= sent[t]
      /\ missed[c]["progress"] <= snapshot[c].done
      /\ missed[c]["rating"] <= snapshot[c].rated
      /\ missed[c]["done"] # 0 => snapshot[c].status \in Terminal
    BY <1>1, <1>2 DEF SnapshotInv
<1>7. /\ snapshot[c].status \in Terminal => status \in Terminal
      /\ \A k \in 1..Len(inbox[c]) : inbox[c][k] = "done" => status \in Terminal
    BY <1>1 DEF BehindRowInv
<1>. QED
    BY <1>2, <1>3, <1>4, <1>5, <1>6, <1>7, ClientFrame

LEMMA RelayInvariant ==
    ASSUME StreamInv, NEW c \in Clients, Relay(c)
    PROVE  StreamInv'
<1>. DEFINE next == IF Head(inbox[c]) = "done" THEN "ended" ELSE "relaying"
<1>1. StreamTypeOK /\ SnapshotInv /\ BehindRowInv
    BY DEF StreamInv
<1>2. /\ stream[c] = "relaying" /\ inbox[c] # <<>>
      /\ stream' = [stream EXCEPT ![c] = next]
      /\ inbox' = [inbox EXCEPT ![c] = Tail(inbox[c])]
      /\ UNCHANGED <<vars, snapshot, missed>>
    BY DEF Relay, Moves
<1>3. /\ inbox[c] \in Seq(MessageType) /\ Tail(inbox[c]) \in Seq(MessageType)
      /\ Len(inbox[c]) \in Nat \ {0} /\ Len(Tail(inbox[c])) = Len(inbox[c]) - 1
      /\ \A k \in 1..Len(Tail(inbox[c])) : Tail(inbox[c])[k] = inbox[c][k + 1]
      /\ Head(inbox[c]) = inbox[c][1]
    BY <1>1, <1>2 DEF StreamTypeOK
<1>4. StreamTypeOK'
    BY <1>1, <1>2, <1>3 DEF StreamTypeOK, StreamPhase
<1>5. stream'[c] = next /\ inbox'[c] = Tail(inbox[c])
    BY <1>1, <1>2 DEF StreamTypeOK
<1>6. \A d \in Clients \ {c} : stream'[d] = stream[d] /\ inbox'[d] = inbox[d]
    BY <1>1, <1>2 DEF StreamTypeOK
<1>7. /\ snapshot[c].status \in Terminal => status \in Terminal
      /\ \A k \in 1..Len(inbox[c]) : inbox[c][k] = "done" => status \in Terminal
    BY <1>1 DEF BehindRowInv
<1>8. \A k \in 1..Len(Tail(inbox[c])) : Tail(inbox[c])[k] = "done" => status \in Terminal
    BY <1>3, <1>7
<1>9. next = "ended" => status \in Terminal
    BY <1>3, <1>7
<1>10. /\ \A t \in MessageType : missed[c][t] <= sent[t]
       /\ missed[c]["progress"] <= snapshot[c].done
       /\ missed[c]["rating"] <= snapshot[c].rated
       /\ missed[c]["done"] # 0 => snapshot[c].status \in Terminal
       /\ snapshot[c].status \notin Terminal
    BY <1>1, <1>2 DEF SnapshotInv
<1>. HIDE DEF next
<1>. QED
    BY <1>2, <1>4, <1>5, <1>6, <1>7, <1>8, <1>9, <1>10, ClientFrame

LEMMA DisconnectInvariant ==
    ASSUME StreamInv, NEW c \in Clients, Disconnect(c)
    PROVE  StreamInv'
<1>1. StreamTypeOK /\ SnapshotInv /\ BehindRowInv
    BY DEF StreamInv
<1>2. /\ stream' = [stream EXCEPT ![c] = "closed"]
      /\ inbox' = [inbox EXCEPT ![c] = <<>>]
      /\ UNCHANGED <<vars, snapshot, missed>>
    BY DEF Disconnect, Moves
<1>3. StreamTypeOK'
    BY <1>1, <1>2 DEF StreamTypeOK, StreamPhase
<1>4. stream'[c] = "closed" /\ inbox'[c] = <<>> /\ Len(inbox'[c]) = 0
    BY <1>1, <1>2 DEF StreamTypeOK
<1>5. \A d \in Clients \ {c} : stream'[d] = stream[d] /\ inbox'[d] = inbox[d]
    BY <1>1, <1>2 DEF StreamTypeOK
<1>6. /\ snapshot[c].status \in Terminal => status \in Terminal
      /\ \A t \in MessageType : missed[c][t] <= sent[t]
    BY <1>1 DEF BehindRowInv, SnapshotInv
<1>. QED
    BY <1>2, <1>3, <1>4, <1>5, <1>6, ClientFrame

LEMMA StreamStepInvariant == StreamInv /\ [StreamNext]_allVars => StreamInv'
<1>. SUFFICES ASSUME StreamInv, [StreamNext]_allVars PROVE StreamInv'
    OBVIOUS
<1>1. CASE Next /\ Deliver
    BY <1>1, DeliverInvariant
<1>2. ASSUME NEW c \in Clients, Open(c) \/ StreamStep(c) \/ Disconnect(c)
      PROVE  StreamInv'
    BY <1>2, OpenInvariant, ReadSnapshotInvariant, EmitSnapshotInvariant, RelayInvariant,
       DisconnectInvariant DEF StreamStep
<1>3. CASE UNCHANGED allVars
    <2>1. UNCHANGED vars /\ UNCHANGED streamVars
        BY <1>3 DEF allVars
    <2>2. IInv'
        BY <2>1, StepInvariant DEF StreamInv
    <2>3. (MessageInv /\ SnapshotInv /\ BehindRowInv /\ EndedMeansTerminal)'
        BY <2>1 DEF StreamInv, MessageInv, Announced, RatingsOver, SnapshotInv, BehindRowInv,
           EndedMeansTerminal, vars, rowVars, scrapeVars, rateVars, streamVars
    <2>4. StreamTypeOK'
        BY <2>1 DEF StreamInv, StreamTypeOK, streamVars
    <2>. QED
        BY <2>2, <2>3, <2>4 DEF StreamInv
<1>. QED
    BY <1>1, <1>2, <1>3 DEF StreamNext

LEMMA StreamInvariance == StreamSpec => []StreamInv
    BY StreamInitInvariant, StreamStepInvariant, PTL DEF StreamSpec

\* Composed with any number of streams the pipeline still takes only its own steps, so
\* every theorem above holds of the run a browser watches.
THEOREM StreamsOnlyWatch == StreamSpec => Spec
<1>1. StreamInit => Init
    BY DEF StreamInit
<1>2. [StreamNext]_allVars => [Next]_vars
    BY DEF StreamNext, StreamStep, Open, ReadSnapshot, EmitSnapshot, Relay, Disconnect, allVars
<1>. QED
    BY <1>1, <1>2, PTL DEF StreamSpec, Spec

\* Every generator holds what its phase may hold; a closed one holds no message.
THEOREM StreamTypeCorrect == StreamSpec => []StreamTypeOK
<1>1. StreamInv => StreamTypeOK
    BY DEF StreamInv
<1>. QED
    BY <1>1, StreamInvariance, PTL

\* For any number of browsers opening and reopening the stream at any moment of the run,
\* and whatever died: a delta that was not received is in the snapshot that was shown.
THEOREM RefreshLosesNothing == StreamSpec => []SnapshotCoversMissed
<1>1. StreamInv => SnapshotCoversMissed
    BY DEF StreamInv, SnapshotInv, SnapshotCoversMissed
<1>. QED
    BY <1>1, StreamInvariance, PTL

\* A stream says the run is over only when the row says so.
THEOREM OverIsDurable == StreamSpec => []EndedMeansTerminal
<1>1. StreamInv => EndedMeansTerminal
    BY DEF StreamInv
<1>. QED
    BY <1>1, StreamInvariance, PTL

=============================================================================
