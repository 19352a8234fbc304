------------------------ MODULE SignalWrite_proofs ------------------------
(***************************************************************************)
(* Any number of runs and of POST /signals over the posts of an            *)
(* influencer: no row is counted twice, and the watermark does not pass    *)
(* what is stored, in whatever order the scrapes begin, fail and end.      *)
(***************************************************************************)
EXTENDS SignalWrite, TLAPS

\* What may account for a post that is older than a watermark.
Accounted(p) == p \in rows \cup cut \cup dropped \cup Uncovered \/ BeforeFirst(p)

\* Everything up to t is accounted for, or in a scrape's hands.
Covered(t, hands) == \A p \in feed : p <= t => p \in hands \/ Accounted(p)

\* A task whose scrape is over holds nothing, and no post without a partition is held; what
\* a task counted is in its transaction, then in the table, unless a rollback dropped it.
Holding ==
    \A r \in Runs :
        /\ task[r].phase \in {"none", "dispatched", "failed"} => task[r].new_items = {}
        /\ task[r].phase # "inserting" => task[r].pending = {} /\ task[r].left = {}
        /\ task[r].phase = "inserting" => task[r].new_items \subseteq task[r].pending \cup dropped
        /\ task[r].pending \cap Uncovered = {}

\* The watermark a scrape read is covered; what came until its run began is covered once
\* it has fetched, but for what is still in its hands.  A first scrape skips what is older.
Windows ==
    /\ watermark # NULL => Covered(watermark, {})
    /\ \A r \in Runs : task[r].wm # NULL =>
        /\ task[r].phase \in {"dispatched", "inserting", "committed"} => Covered(task[r].wm, {})
        /\ task[r].phase \in {"inserting", "committed"} =>
            Covered(task[r].run_ts, task[r].left \cup task[r].pending)

IInv == TypeOK /\ Holding /\ ReportedOnce /\ Windows

Tasks(n, f) == [phase : Phase, wm : 0..n, run_ts : 0..n, left : SUBSET f, pending : SUBSET f, new_items : SUBSET f]

-----------------------------------------------------------------------------
(***************************************************************************)
(* What is accounted for stays so.                                         *)
(***************************************************************************)

\* Tables and losses only grow, and a scrape that is over stays as it is.
Grows ==
    /\ rows \subseteq rows' /\ cut \subseteq cut' /\ dropped \subseteq dropped'
    /\ \A r \in Runs : task[r].phase = "over" => task'[r] = task[r]

\* Covered, after the step.
CoveredNext(t, hands) == \A p \in feed' : p <= t => p \in hands \/ Accounted(p)'

LEMMA StaysAccounted ==
    ASSUME Grows, NEW p, Accounted(p)
    PROVE  Accounted(p)'
<1>1. BeforeFirst(p) => BeforeFirst(p)'
  BY DEF Grows, BeforeFirst
<1> QED
  BY <1>1 DEF Grows, Accounted

LEMMA StaysCovered ==
    ASSUME Grows, feed' = feed
    PROVE  \A t, hands : Covered(t, hands) => CoveredNext(t, hands)
  BY StaysAccounted DEF Covered, CoveredNext

\* A fresh influencer.
LEMMA InitIInv == Init => IInv
<1> SUFFICES ASSUME Init PROVE IInv
  OBVIOUS
<1>1. Idle \in Tasks(now, feed)
  BY DEF Init, Idle, Tasks, Phase, NULL
<1>2. TypeOK
  BY <1>1 DEF Init, TypeOK, Tasks, Idle, HeldByOther, NULL
<1>3. Holding /\ ReportedOnce /\ Windows
  BY DEF Init, Holding, ReportedOnce, Windows, Idle, NULL
<1> QED
  BY <1>2, <1>3 DEF IInv

\* One scrape moves to x, and the watermark to w.
LEMMA ScrapeMoves ==
    ASSUME IInv, NEW r \in Runs, NEW x \in Tasks(now, feed), NEW w \in 0..now,
           task' = [task EXCEPT ![r] = x], watermark' = w, UNCHANGED <<now, feed>>, Grows,
           rows' \subseteq feed \ Uncovered, cut' \subseteq feed, dropped' \subseteq feed,
           x.pending \cap rows' = {}, x.pending \cap Uncovered = {},
           \A q \in Runs \ {r} : x.pending \cap task[q].pending = {} /\ task[q].pending \cap rows' = {},
           x.phase \in {"none", "dispatched", "failed"} => x.new_items = {},
           x.phase # "inserting" => x.pending = {} /\ x.left = {},
           x.phase = "inserting" => x.new_items \subseteq x.pending \cup dropped',
           x.phase \in {"committed", "over"} => x.new_items \subseteq rows' \cup dropped',
           \A q \in Runs \ {r} : x.new_items \cap task[q].new_items \subseteq dropped',
           w # NULL => CoveredNext(w, {}),
           x.wm # NULL /\ x.phase \in {"dispatched", "inserting", "committed"} => CoveredNext(x.wm, {}),
           x.wm # NULL /\ x.phase \in {"inserting", "committed"} => CoveredNext(x.run_ts, x.left \cup x.pending)
    PROVE  IInv'
<1>0. task \in [Runs -> Tasks(now, feed)]
  BY DEF IInv, TypeOK, Tasks
<1>1. /\ task' \in [Runs -> Tasks(now, feed)] /\ task'[r] = x
      /\ \A q \in Runs \ {r} : task'[q] = task[q]
  BY <1>0
<1>2. TypeOK'
  <2>1. \A q \in Runs : task'[q].pending \cap rows' = {}
    BY <1>1
  <2>2. ASSUME NEW q \in Runs, NEW s \in Runs \ {q} PROVE task'[q].pending \cap task'[s].pending = {}
    <3>1. q # r /\ s # r => task[q].pending \cap task[s].pending = {}
      BY DEF IInv, TypeOK, HeldByOther
    <3> QED
      BY <1>1, <3>1
  <2>3. \A q \in Runs : \A p \in task'[q].pending : ~HeldByOther(q, p)'
    BY <2>2 DEF HeldByOther
  <2>4. task' \in [Runs -> Tasks(now', feed')]
    BY <1>1
  <2> QED
    BY <2>1, <2>3, <2>4 DEF IInv, TypeOK, Tasks
<1>3. Holding'
  <2>1. \A q \in Runs \ {r} : /\ task[q].phase \in {"none", "dispatched", "failed"} => task[q].new_items = {}
                              /\ task[q].phase # "inserting" => task[q].pending = {} /\ task[q].left = {}
                              /\ task[q].phase = "inserting" => task[q].new_items \subseteq task[q].pending \cup dropped
                              /\ task[q].pending \cap Uncovered = {}
    BY DEF IInv, Holding
  <2> QED
    BY <1>1, <2>1 DEF Holding, Grows
<1>4. ReportedOnce'
  <2>1. ASSUME NEW q \in Runs, NEW s \in Runs \ {q} PROVE task'[q].new_items \cap task'[s].new_items \subseteq dropped'
    <3>1. q # r /\ s # r => task[q].new_items \cap task[s].new_items \subseteq dropped
      BY DEF IInv, ReportedOnce
    <3> QED
      BY <1>1, <3>1 DEF Grows
  <2>2. ASSUME NEW q \in Runs, task'[q].phase \in {"committed", "over"} PROVE task'[q].new_items \subseteq rows' \cup dropped'
    <3>1. q # r => task[q].new_items \subseteq rows \cup dropped
      BY <1>1, <2>2 DEF IInv, ReportedOnce
    <3> QED
      BY <1>1, <2>2, <3>1 DEF Grows
  <2> QED
    BY <2>1, <2>2 DEF ReportedOnce
<1>5. Windows'
  <2>1. ASSUME NEW q \in Runs \ {r}, task[q].wm # NULL
        PROVE  /\ task[q].phase \in {"dispatched", "inserting", "committed"} => Covered(task[q].wm, {})
               /\ task[q].phase \in {"inserting", "committed"} => Covered(task[q].run_ts, task[q].left \cup task[q].pending)
    BY <2>1 DEF IInv, Windows
  <2>2. ASSUME NEW q \in Runs, task'[q].wm # NULL
        PROVE  /\ task'[q].phase \in {"dispatched", "inserting", "committed"} => CoveredNext(task'[q].wm, {})
               /\ task'[q].phase \in {"inserting", "committed"} => CoveredNext(task'[q].run_ts, task'[q].left \cup task'[q].pending)
    <3>1. CASE q = r
      BY <1>1, <2>2, <3>1
    <3>2. CASE q # r
      BY <1>1, <2>1, <2>2, <3>2, StaysCovered
    <3> QED
      BY <3>1, <3>2
  <2>3. watermark' # NULL => CoveredNext(watermark', {})
    OBVIOUS
  <2> QED
    BY <2>2, <2>3 DEF Windows, Covered, CoveredNext, NULL
<1> QED
  BY <1>2, <1>3, <1>4, <1>5 DEF IInv

-----------------------------------------------------------------------------
(***************************************************************************)
(* The steps of a scrape.                                                  *)
(***************************************************************************)

\* What is known of a task.
LEMMA TaskFacts ==
    ASSUME IInv, NEW r \in Runs
    PROVE  /\ task[r] \in Tasks(now, feed) /\ task \in [Runs -> Tasks(now, feed)] /\ watermark \in 0..now /\ now \in Nat
           /\ rows \subseteq feed \ Uncovered /\ cut \subseteq feed /\ dropped \subseteq feed
           /\ task[r].pending \cap rows = {} /\ task[r].pending \cap Uncovered = {}
           /\ \A q \in Runs \ {r} : task[r].pending \cap task[q].pending = {} /\ task[q].pending \cap rows = {}
           /\ \A q \in Runs \ {r} : task[r].new_items \cap task[q].new_items \subseteq dropped
           /\ task[r].phase \in {"none", "dispatched", "failed"} => task[r].new_items = {}
           /\ task[r].phase # "inserting" => task[r].pending = {} /\ task[r].left = {}
           /\ task[r].phase = "inserting" => task[r].new_items \subseteq task[r].pending \cup dropped
           /\ task[r].phase \in {"committed", "over"} => task[r].new_items \subseteq rows \cup dropped
           /\ watermark # NULL => Covered(watermark, {})
           /\ task[r].wm # NULL =>
                /\ task[r].phase \in {"dispatched", "inserting", "committed"} => Covered(task[r].wm, {})
                /\ task[r].phase \in {"inserting", "committed"} => Covered(task[r].run_ts, task[r].left \cup task[r].pending)
<1>1. \A q \in Runs \ {r} : task[r].pending \cap task[q].pending = {} /\ task[q].pending \cap rows = {}
  BY DEF IInv, TypeOK, HeldByOther
<1>2. Holding /\ ReportedOnce /\ Windows /\ TypeOK
  BY DEF IInv
<1> QED
  BY <1>1, <1>2 DEF TypeOK, Tasks, Holding, ReportedOnce, Windows

\* A step that leaves tables, losses and watermark alone.
LEMMA TaskMoves ==
    ASSUME IInv, NEW r \in Runs, NEW x \in Tasks(now, feed), task' = [task EXCEPT ![r] = x],
           UNCHANGED <<now, feed, rows, watermark, cut, dropped>>, task[r].phase # "over",
           x.pending = {} \/ (x.pending = task[r].pending /\ x.phase = task[r].phase),
           x.phase # "inserting" => x.pending = {} /\ x.left = {},
           x.new_items = {} \/ (x.new_items = task[r].new_items /\ x.phase = task[r].phase /\ x.pending = task[r].pending),
           x.wm # NULL /\ x.phase \in {"dispatched", "inserting", "committed"} => Covered(x.wm, {}),
           x.wm # NULL /\ x.phase \in {"inserting", "committed"} => Covered(x.run_ts, x.left \cup x.pending)
    PROVE  IInv'
<1>1. Grows
  BY TaskFacts DEF Grows
<1>2. /\ watermark # NULL => CoveredNext(watermark, {})
      /\ x.wm # NULL /\ x.phase \in {"dispatched", "inserting", "committed"} => CoveredNext(x.wm, {})
      /\ x.wm # NULL /\ x.phase \in {"inserting", "committed"} => CoveredNext(x.run_ts, x.left \cup x.pending)
  BY <1>1, StaysCovered, TaskFacts
<1>3. /\ x.pending \cap rows' = {} /\ x.pending \cap Uncovered = {}
      /\ \A q \in Runs \ {r} : x.pending \cap task[q].pending = {} /\ task[q].pending \cap rows' = {}
      /\ \A q \in Runs \ {r} : x.new_items \cap task[q].new_items \subseteq dropped'
  BY TaskFacts
<1>4. /\ x.phase \in {"none", "dispatched", "failed"} => x.new_items = {}
      /\ x.phase = "inserting" => x.new_items \subseteq x.pending \cup dropped'
      /\ x.phase \in {"committed", "over"} => x.new_items \subseteq rows' \cup dropped'
  BY TaskFacts
<1>5. watermark \in 0..now /\ rows' \subseteq feed \ Uncovered /\ cut' \subseteq feed /\ dropped' \subseteq feed
  BY TaskFacts
<1> QED
  BY <1>1, <1>2, <1>3, <1>4, <1>5, ScrapeMoves

LEMMA DispatchKeeps == ASSUME IInv, NEW r \in Runs, Dispatch(r) PROVE IInv'
<1>0. /\ now \in Nat /\ watermark \in 0..now /\ now \in 0..now
      /\ Idle = [phase |-> "none", wm |-> 0, run_ts |-> 0, left |-> {}, pending |-> {}, new_items |-> {}]
  BY DEF IInv, TypeOK, Idle, NULL
<1> DEFINE x == [Idle EXCEPT !.phase = "dispatched", !.wm = watermark, !.run_ts = now]
<1>1. /\ x \in Tasks(now, feed) /\ x.phase = "dispatched" /\ x.pending = {} /\ x.left = {} /\ x.new_items = {}
      /\ x.wm = watermark
  BY <1>0 DEF Tasks, Phase
<1>2. task' = [task EXCEPT ![r] = x] /\ UNCHANGED <<now, feed, rows, watermark, cut, dropped>> /\ task[r].phase # "over"
  BY DEF Dispatch
<1> HIDE DEF x
<1>3. x.wm # NULL => Covered(x.wm, {})
  BY <1>1, TaskFacts
<1> QED
  BY <1>1, <1>2, <1>3, TaskMoves

LEMMA FailKeeps == ASSUME IInv, NEW r \in Runs, Fail(r) PROVE IInv'
<1> DEFINE x == [task[r] EXCEPT !.phase = "failed", !.left = {}, !.pending = {}, !.new_items = {}]
<1>1. x \in Tasks(now, feed) /\ x.phase = "failed" /\ x.pending = {} /\ x.left = {} /\ x.new_items = {}
  BY TaskFacts DEF Tasks, Phase
<1>2. task' = [task EXCEPT ![r] = x] /\ UNCHANGED <<now, feed, rows, watermark, cut, dropped>> /\ task[r].phase # "over"
  BY TaskFacts DEF Fail, Tasks
<1> HIDE DEF x
<1> QED
  BY <1>1, <1>2, TaskMoves

\* The fetch: what is newer than the watermark the scrape has read is in its hands or cut.
LEMMA FetchKeeps == ASSUME IInv, NEW r \in Runs, NEW posts \in SUBSET feed, Fetch(r, posts) PROVE IInv'
<1> DEFINE x == [task[r] EXCEPT !.phase = "inserting", !.left = posts]
<1>0. task[r].phase = "dispatched" /\ UNCHANGED <<now, feed, rows, watermark, dropped>>
  BY DEF Fetch
<1>1. /\ x \in Tasks(now, feed) /\ x.phase = "inserting" /\ x.pending = {} /\ x.left = posts /\ x.new_items = {}
      /\ x.wm = task[r].wm /\ x.run_ts = task[r].run_ts
  BY <1>0, TaskFacts DEF Tasks, Phase
<1>2. task' = [task EXCEPT ![r] = x]
  BY TaskFacts DEF Fetch, Tasks
<1>3. /\ cut \subseteq cut' /\ cut' \subseteq feed
      /\ x.wm # NULL => Newer(x.wm) \subseteq posts \cup cut'
  BY <1>1, TaskFacts DEF Fetch, Newer
<1> HIDE DEF x
<1>4. Grows
  BY <1>0, <1>2, <1>3, TaskFacts DEF Grows
<1>5. watermark # NULL => CoveredNext(watermark, {})
  BY <1>0, <1>4, StaysCovered, TaskFacts
<1>6. x.wm # NULL => CoveredNext(x.wm, {})
  BY <1>0, <1>1, <1>4, StaysCovered, TaskFacts
<1>7. x.wm # NULL => CoveredNext(x.run_ts, x.left \cup x.pending)
  <2> SUFFICES ASSUME x.wm # NULL, NEW p \in feed PROVE p \in x.left \/ Accounted(p)'
    BY <1>0, <1>1 DEF CoveredNext
  <2>1. CASE p <= x.wm
    BY <1>0, <1>6, <2>1 DEF CoveredNext
  <2>2. CASE p > x.wm
    BY <1>1, <1>3, <2>2 DEF Newer, Accounted
  <2> QED
    <3>1. feed \subseteq Nat /\ x.wm \in Nat
      BY <1>1, TaskFacts DEF IInv, TypeOK, Tasks
    <3> QED
      BY <2>1, <2>2, <3>1
<1>8. /\ x.pending \cap rows' = {} /\ x.pending \cap Uncovered = {}
      /\ \A q \in Runs \ {r} : x.pending \cap task[q].pending = {} /\ task[q].pending \cap rows' = {}
      /\ \A q \in Runs \ {r} : x.new_items \cap task[q].new_items \subseteq dropped'
      /\ watermark \in 0..now /\ watermark' = watermark /\ UNCHANGED <<now, feed>>
      /\ rows' \subseteq feed \ Uncovered /\ cut' \subseteq feed /\ dropped' \subseteq feed
  BY <1>0, <1>1, <1>3, TaskFacts
<1>9. /\ x.phase \in {"none", "dispatched", "failed"} => x.new_items = {}
      /\ x.phase # "inserting" => x.pending = {} /\ x.left = {}
      /\ x.phase = "inserting" => x.new_items \subseteq x.pending \cup dropped'
      /\ x.phase \in {"committed", "over"} => x.new_items \subseteq rows' \cup dropped'
  BY <1>1
<1> QED
  BY <1>1, <1>2, <1>4, <1>5, <1>6, <1>7, <1>8, <1>9, ScrapeMoves

LEMMA InsertKeeps == ASSUME IInv, NEW r \in Runs, NEW p \in feed, Insert(r, p) PROVE IInv'
<1> DEFINE y == {p} \ rows
<1> DEFINE x == [task[r] EXCEPT !.left = @ \ {p}, !.pending = @ \cup y, !.new_items = @ \cup y]
<1>0. /\ task[r].phase = "inserting" /\ p \in task[r].left \ Uncovered /\ ~HeldByOther(r, p)
      /\ UNCHANGED <<now, feed, rows, watermark, cut, dropped>>
  BY DEF Insert
<1>1. /\ x \in Tasks(now, feed) /\ x.phase = "inserting" /\ x.pending = task[r].pending \cup y
      /\ x.left = task[r].left \ {p} /\ x.new_items = task[r].new_items \cup y
      /\ x.wm = task[r].wm /\ x.run_ts = task[r].run_ts
  BY <1>0, TaskFacts DEF Tasks
<1>2. task' = [task EXCEPT ![r] = x]
  BY TaskFacts DEF Insert, Tasks
<1> HIDE DEF x
<1>3. Grows
  BY <1>0, <1>2, TaskFacts DEF Grows
<1>4. /\ watermark # NULL => CoveredNext(watermark, {})
      /\ x.wm # NULL => CoveredNext(x.wm, {})
  BY <1>0, <1>1, <1>3, StaysCovered, TaskFacts
<1>5. x.wm # NULL => CoveredNext(x.run_ts, x.left \cup x.pending)
  <2> SUFFICES ASSUME x.wm # NULL, NEW q \in feed, q <= x.run_ts PROVE q \in x.left \cup x.pending \/ Accounted(q)'
    BY <1>0 DEF CoveredNext
  <2>1. q \in task[r].left \cup task[r].pending \/ Accounted(q)
    BY <1>0, <1>1, TaskFacts DEF Covered
  <2>2. Accounted(q) => Accounted(q)'
    BY <1>3, StaysAccounted
  <2>3. q \in rows => Accounted(q)
    BY DEF Accounted
  <2> QED
    BY <1>1, <2>1, <2>2, <2>3
<1>6. /\ x.pending \cap rows' = {} /\ x.pending \cap Uncovered = {}
      /\ watermark \in 0..now /\ watermark' = watermark /\ UNCHANGED <<now, feed>>
      /\ rows' \subseteq feed \ Uncovered /\ cut' \subseteq feed /\ dropped' \subseteq feed
  <2>1. task[r].pending \cap rows = {} /\ task[r].pending \cap Uncovered = {}
    BY TaskFacts
  <2>2. /\ watermark \in 0..now
        /\ rows \subseteq feed \ Uncovered /\ cut \subseteq feed /\ dropped \subseteq feed
    BY DEF IInv, TypeOK
  <2> QED
    BY <1>0, <1>1, <2>1, <2>2
<1>7. \A q \in Runs \ {r} : x.pending \cap task[q].pending = {} /\ task[q].pending \cap rows' = {}
  <2>1. \A q \in Runs \ {r} : task[r].pending \cap task[q].pending = {} /\ task[q].pending \cap rows = {}
    BY TaskFacts
  <2>2. \A q \in Runs \ {r} : p \notin task[q].pending
    BY <1>0 DEF HeldByOther
  <2> QED
    BY <1>0, <1>1, <2>1, <2>2
<1>8. ASSUME NEW q \in Runs \ {r} PROVE x.new_items \cap task[q].new_items \subseteq dropped'
  <2>1. task[q].new_items \subseteq task[q].pending \cup rows \cup dropped
    BY TaskFacts DEF Tasks, Phase
  <2>2. p \notin task[q].pending
    BY <1>0 DEF HeldByOther
  <2>3. task[r].new_items \cap task[q].new_items \subseteq dropped
    BY TaskFacts
  <2> QED
    BY <1>0, <1>1, <2>1, <2>2, <2>3
<1>9. x.new_items \subseteq x.pending \cup dropped'
  BY <1>0, <1>1, TaskFacts
<1> QED
  BY <1>1, <1>2, <1>3, <1>4, <1>5, <1>6, <1>7, <1>8, <1>9, ScrapeMoves

\* The rollback: what was pending is lost, and counted as such.
LEMMA InsertUncoveredKeeps == ASSUME IInv, NEW r \in Runs, NEW p \in feed, InsertUncovered(r, p) PROVE IInv'
<1> DEFINE x == [task[r] EXCEPT !.left = @ \ {p}, !.pending = {}]
<1>0. /\ task[r].phase = "inserting" /\ p \in task[r].left \cap Uncovered /\ dropped' = dropped \cup task[r].pending
      /\ UNCHANGED <<now, feed, rows, watermark, cut>>
  BY DEF InsertUncovered
<1>1. /\ x \in Tasks(now, feed) /\ x.phase = "inserting" /\ x.pending = {}
      /\ x.left = task[r].left \ {p} /\ x.new_items = task[r].new_items
      /\ x.wm = task[r].wm /\ x.run_ts = task[r].run_ts
  BY <1>0, TaskFacts DEF Tasks
<1>2. task' = [task EXCEPT ![r] = x]
  BY TaskFacts DEF InsertUncovered, Tasks
<1> HIDE DEF x
<1>3. Grows
  BY <1>0, <1>2, TaskFacts DEF Grows
<1>4. /\ watermark # NULL => CoveredNext(watermark, {})
      /\ x.wm # NULL => CoveredNext(x.wm, {})
  BY <1>0, <1>1, <1>3, StaysCovered, TaskFacts
<1>5. x.wm # NULL => CoveredNext(x.run_ts, x.left \cup x.pending)
  <2> SUFFICES ASSUME x.wm # NULL, NEW q \in feed, q <= x.run_ts PROVE q \in x.left \/ Accounted(q)'
    BY <1>0 DEF CoveredNext
  <2>1. q \in task[r].left \cup task[r].pending \/ Accounted(q)
    BY <1>0, <1>1, TaskFacts DEF Covered
  <2>2. Accounted(q) => Accounted(q)'
    BY <1>3, StaysAccounted
  <2>3. q \in task[r].pending \cup {p} => Accounted(q)'
    BY <1>0 DEF Accounted
  <2> QED
    BY <1>1, <2>1, <2>2, <2>3
<1>6. /\ x.pending \cap rows' = {} /\ x.pending \cap Uncovered = {}
      /\ watermark \in 0..now /\ watermark' = watermark /\ UNCHANGED <<now, feed>>
      /\ rows' \subseteq feed \ Uncovered /\ cut' \subseteq feed /\ dropped' \subseteq feed
      /\ \A q \in Runs \ {r} : x.pending \cap task[q].pending = {} /\ task[q].pending \cap rows' = {}
      /\ \A q \in Runs \ {r} : x.new_items \cap task[q].new_items \subseteq dropped'
      /\ x.new_items \subseteq x.pending \cup dropped'
  <2>1. task[r].pending \subseteq feed
    BY TaskFacts DEF Tasks
  <2> QED
    BY <1>0, <1>1, <2>1, TaskFacts
<1> QED
  BY <1>1, <1>2, <1>3, <1>4, <1>5, <1>6, ScrapeMoves

LEMMA CommitKeeps == ASSUME IInv, NEW r \in Runs, Commit(r) PROVE IInv'
<1> DEFINE x == [task[r] EXCEPT !.phase = "committed", !.pending = {}]
<1>0. /\ task[r].phase = "inserting" /\ task[r].left = {} /\ rows' = rows \cup task[r].pending
      /\ UNCHANGED <<now, feed, watermark, cut, dropped>>
  BY DEF Commit
<1>1. /\ x \in Tasks(now, feed) /\ x.phase = "committed" /\ x.pending = {} /\ x.left = {}
      /\ x.new_items = task[r].new_items /\ x.wm = task[r].wm /\ x.run_ts = task[r].run_ts
  BY <1>0, TaskFacts DEF Tasks, Phase
<1>2. task' = [task EXCEPT ![r] = x]
  BY TaskFacts DEF Commit, Tasks
<1> HIDE DEF x
<1>3. Grows
  BY <1>0, <1>2, TaskFacts DEF Grows
<1>4. /\ watermark # NULL => CoveredNext(watermark, {})
      /\ x.wm # NULL => CoveredNext(x.wm, {})
  BY <1>0, <1>1, <1>3, StaysCovered, TaskFacts
<1>5. x.wm # NULL => CoveredNext(x.run_ts, {})
  <2> SUFFICES ASSUME x.wm # NULL, NEW q \in feed, q <= x.run_ts PROVE Accounted(q)'
    BY <1>0 DEF CoveredNext
  <2>1. q \in task[r].pending \/ Accounted(q)
    BY <1>0, <1>1, TaskFacts DEF Covered
  <2>2. Accounted(q) => Accounted(q)'
    BY <1>3, StaysAccounted
  <2>3. q \in task[r].pending => Accounted(q)'
    BY <1>0 DEF Accounted
  <2> QED
    BY <2>1, <2>2, <2>3
<1>6. x.wm # NULL => CoveredNext(x.run_ts, x.left \cup x.pending)
  <2>1. x.left \cup x.pending = {}
    BY <1>1
  <2> QED
    BY <1>5, <2>1
<1>7. /\ watermark \in 0..now /\ watermark' = watermark /\ UNCHANGED <<now, feed>>
      /\ rows' \subseteq feed \ Uncovered /\ cut' \subseteq feed /\ dropped' \subseteq feed
  <2>1. task[r].pending \subseteq feed \ Uncovered
    BY TaskFacts DEF Tasks
  <2>2. /\ watermark \in 0..now
        /\ rows \subseteq feed \ Uncovered /\ cut \subseteq feed /\ dropped \subseteq feed
    BY DEF IInv, TypeOK
  <2> QED
    BY <1>0, <2>1, <2>2
<1>8. \A q \in Runs \ {r} : x.pending \cap task[q].pending = {} /\ task[q].pending \cap rows' = {}
  <2>1. \A q \in Runs \ {r} : task[r].pending \cap task[q].pending = {} /\ task[q].pending \cap rows = {}
    BY TaskFacts
  <2> QED
    BY <1>0, <1>1, <2>1
<1>9. /\ \A q \in Runs \ {r} : x.new_items \cap task[q].new_items \subseteq dropped'
      /\ x.new_items \subseteq rows' \cup dropped'
      /\ x.pending \cap rows' = {} /\ x.pending \cap Uncovered = {}
  BY <1>0, <1>1, TaskFacts
<1>10. /\ x.phase \in {"none", "dispatched", "failed"} => x.new_items = {}
       /\ x.phase # "inserting" => x.pending = {} /\ x.left = {}
       /\ x.phase = "inserting" => x.new_items \subseteq x.pending \cup dropped'
       /\ x.phase \in {"committed", "over"} => x.new_items \subseteq rows' \cup dropped'
  BY <1>1, <1>9
<1> QED
  BY <1>1, <1>2, <1>3, <1>4, <1>6, <1>7, <1>8, <1>9, <1>10, ScrapeMoves

\* The watermark becomes the start of the run.  A first scrape vouches for nothing older:
\* that is what BeforeFirst says.
LEMMA AdvanceKeeps == ASSUME IInv, NEW r \in Runs, Advance(r) PROVE IInv'
<1> DEFINE x == [task[r] EXCEPT !.phase = "over"]
<1>0. /\ task[r].phase = "committed" /\ watermark' = task[r].run_ts
      /\ UNCHANGED <<now, feed, rows, cut, dropped>>
  BY DEF Advance
<1>1. /\ x \in Tasks(now, feed) /\ x.phase = "over" /\ x.pending = {} /\ x.left = {}
      /\ x.new_items = task[r].new_items /\ x.wm = task[r].wm /\ x.run_ts = task[r].run_ts
      /\ task[r].run_ts \in 0..now
  BY <1>0, TaskFacts DEF Tasks, Phase
<1>2. task' = [task EXCEPT ![r] = x] /\ task'[r] = x
  BY TaskFacts DEF Advance, Tasks
<1> HIDE DEF x
<1>3. Grows
  BY <1>0, <1>2, TaskFacts DEF Grows
<1>4. CoveredNext(task[r].run_ts, {})
  <2>1. CASE x.wm # NULL
    <3>1. Covered(task[r].run_ts, {})
      BY <1>0, <1>1, <2>1, TaskFacts DEF Covered
    <3> QED
      BY <1>0, <1>3, <3>1, StaysCovered
  <2>2. CASE x.wm = NULL
    BY <1>0, <1>1, <1>2, <2>2 DEF CoveredNext, Accounted, BeforeFirst
  <2> QED
    BY <2>1, <2>2
<1>5. /\ UNCHANGED <<now, feed>>
      /\ rows' \subseteq feed \ Uncovered /\ cut' \subseteq feed /\ dropped' \subseteq feed
  BY <1>0 DEF IInv, TypeOK
<1>6. /\ \A q \in Runs \ {r} : x.pending \cap task[q].pending = {} /\ task[q].pending \cap rows' = {}
      /\ \A q \in Runs \ {r} : x.new_items \cap task[q].new_items \subseteq dropped'
      /\ x.new_items \subseteq rows' \cup dropped'
      /\ x.pending \cap rows' = {} /\ x.pending \cap Uncovered = {}
  BY <1>0, <1>1, TaskFacts
<1> QED
  BY <1>0, <1>1, <1>2, <1>3, <1>4, <1>5, <1>6, ScrapeMoves

-----------------------------------------------------------------------------
(***************************************************************************)
(* The steps around the scrapes.                                           *)
(***************************************************************************)

\* A new post is younger than every watermark and every run that has begun.
LEMMA TickKeeps == ASSUME IInv, NEW posted \in BOOLEAN, Tick(posted) PROVE IInv'
<1>0. /\ now \in Nat /\ now' = now + 1 /\ feed \subseteq 1..now /\ feed \subseteq feed' /\ feed' \subseteq feed \cup {now + 1}
      /\ UNCHANGED <<rows, watermark, task, cut, dropped>>
  BY DEF Tick, IInv, TypeOK
<1>1. \A r \in Runs : task[r] \in Tasks(now, feed) /\ task[r].wm \in 0..now /\ task[r].run_ts \in 0..now
  BY TaskFacts DEF Tasks
<1>2. TypeOK'
  <2>1. \A r \in Runs : task[r] \in Tasks(now', feed')
    <3>1. 0..now \subseteq 0..now' /\ SUBSET feed \subseteq SUBSET feed'
      BY <1>0
    <3> QED
      BY <1>1, <3>1 DEF Tasks
  <2>2. task' \in [Runs -> Tasks(now', feed')]
    BY <1>0, <2>1 DEF IInv, TypeOK
  <2>3. /\ now' \in Nat /\ feed' \subseteq 1..now' /\ watermark' \in 0..now' /\ rows' \subseteq feed' \ Uncovered
        /\ cut' \subseteq feed' /\ dropped' \subseteq feed'
    BY <1>0 DEF IInv, TypeOK
  <2>4. \A r \in Runs : task'[r].pending \cap rows' = {} /\ \A p \in task'[r].pending : ~HeldByOther(r, p)'
    BY <1>0 DEF IInv, TypeOK, HeldByOther
  <2> QED
    BY <2>2, <2>3, <2>4 DEF TypeOK, Tasks
<1>3. Holding' /\ ReportedOnce'
  BY <1>0 DEF IInv, Holding, ReportedOnce
<1>4. Grows
  BY <1>0 DEF Grows
<1>5. \A t \in 0..now : \A hands : Covered(t, hands) => CoveredNext(t, hands)
  <2> SUFFICES ASSUME NEW t \in 0..now, NEW hands, Covered(t, hands), NEW p \in feed', p <= t
               PROVE  p \in hands \/ Accounted(p)'
    BY DEF CoveredNext
  <2>1. p \in feed
    BY <1>0
  <2> QED
    BY <2>1, <1>4, StaysAccounted DEF Covered
<1>6. Windows'
  <2>1. watermark \in 0..now /\ Windows
    BY DEF IInv, TypeOK
  <2>2. watermark' # NULL => CoveredNext(watermark', {})
    BY <1>0, <1>5, <2>1 DEF Windows
  <2>3. \A r \in Runs : task'[r].wm # NULL =>
            /\ task'[r].phase \in {"dispatched", "inserting", "committed"} => CoveredNext(task'[r].wm, {})
            /\ task'[r].phase \in {"inserting", "committed"} => CoveredNext(task'[r].run_ts, task'[r].left \cup task'[r].pending)
    BY <1>0, <1>1, <1>5, <2>1 DEF Windows
  <2> QED
    BY <2>2, <2>3 DEF Windows, Covered, CoveredNext, NULL
<1> QED
  BY <1>2, <1>3, <1>6 DEF IInv

LEMMA CreateSignalKeeps == ASSUME IInv, NEW p \in feed, CreateSignal(p) PROVE IInv'
<1>0. /\ p \in feed \ Uncovered /\ rows' = rows \cup {p} /\ UNCHANGED <<now, feed, watermark, task, cut, dropped>>
      /\ \A r \in Runs : p \notin task[r].pending
  BY DEF CreateSignal
<1>1. TypeOK'
  BY <1>0 DEF IInv, TypeOK, HeldByOther
<1>2. Holding' /\ ReportedOnce'
  BY <1>0 DEF IInv, Holding, ReportedOnce
<1>3. Grows
  BY <1>0 DEF Grows
<1>4. \A t, hands : Covered(t, hands) => CoveredNext(t, hands)
  BY <1>0, <1>3, StaysCovered
<1>5. Windows'
  <2>1. watermark' # NULL => CoveredNext(watermark', {})
    BY <1>0, <1>4 DEF IInv, Windows
  <2>2. \A r \in Runs : task'[r].wm # NULL =>
            /\ task'[r].phase \in {"dispatched", "inserting", "committed"} => CoveredNext(task'[r].wm, {})
            /\ task'[r].phase \in {"inserting", "committed"} => CoveredNext(task'[r].run_ts, task'[r].left \cup task'[r].pending)
    BY <1>0, <1>4 DEF IInv, Windows
  <2> QED
    BY <2>1, <2>2 DEF Windows, Covered, CoveredNext, NULL
<1> QED
  BY <1>1, <1>2, <1>5 DEF IInv

LEMMA NextIInv == IInv /\ [Next]_vars => IInv'
<1> SUFFICES ASSUME IInv, [Next]_vars PROVE IInv'
  OBVIOUS
<1>1. ASSUME NEW posted \in BOOLEAN, Tick(posted) PROVE IInv'
  BY <1>1, TickKeeps
<1>2. ASSUME NEW r \in Runs, Scrape(r) PROVE IInv'
  <2>1. CASE Dispatch(r)
    BY <2>1, DispatchKeeps
  <2>2. ASSUME NEW posts \in SUBSET feed, Fetch(r, posts) PROVE IInv'
    BY <2>2, FetchKeeps
  <2>3. ASSUME NEW p \in feed, Insert(r, p) PROVE IInv'
    BY <2>3, InsertKeeps
  <2>4. ASSUME NEW p \in feed, InsertUncovered(r, p) PROVE IInv'
    BY <2>4, InsertUncoveredKeeps
  <2>5. CASE Commit(r)
    BY <2>5, CommitKeeps
  <2>6. CASE Advance(r)
    BY <2>6, AdvanceKeeps
  <2>7. CASE Fail(r)
    BY <2>7, FailKeeps
  <2> QED
    BY <1>2, <2>1, <2>2, <2>3, <2>4, <2>5, <2>6, <2>7 DEF Scrape
<1>3. ASSUME NEW p \in feed, CreateSignal(p) PROVE IInv'
  BY <1>3, CreateSignalKeeps
<1>4. CASE UNCHANGED vars
  BY <1>4 DEF vars, IInv, TypeOK, HeldByOther, Holding, ReportedOnce, Windows, Covered, Accounted, BeforeFirst
<1> QED
  BY <1>1, <1>2, <1>3, <1>4 DEF Next

-----------------------------------------------------------------------------
\* Every state of any number of scrapes is well typed and accounts for each post up to a
\* watermark that is in use.
THEOREM WriteInvariant == Spec => []IInv
  BY InitIInv, NextIInv, PTL DEF Spec

\* insert_signal reports a post as newly inserted to one scrape at most, and what a scrape
\* that committed reports is stored, a rollback aside: for any runs, limit and partitions.
THEOREM NewlyReportedOnce == Spec => []ReportedOnce
<1>1. IInv => ReportedOnce
  BY DEF IInv
<1> QED
  BY <1>1, WriteInvariant, PTL

\* influencers.last_scraped_at never passes a post that the scrapes have neither stored nor
\* knowingly given up, however many of them overlap, fail or set it back.
THEOREM WatermarkNeverAhead == Spec => []WatermarkCovers
<1>1. IInv => WatermarkCovers
  BY DEF IInv, Windows, Covered, Accounted, WatermarkCovers
<1> QED
  BY <1>1, WriteInvariant, PTL

=============================================================================
