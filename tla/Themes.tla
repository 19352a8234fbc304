------------------------------- MODULE Themes -------------------------------
(***************************************************************************)
(* The themes of a week (GET /signal-clusters and the MCP tool): two       *)
(* statements that see different snapshots of the corpus that Embedding    *)
(* describes, while it goes on being written, and a greedy clustering in   *)
(* Python.                                                                 *)
(*                                                                         *)
(* Which posts are rated by then is arbitrary; so are relevance and the    *)
(* closeness of captions, chosen when a request begins, as nobody else     *)
(* here asks for them.                                                     *)
(***************************************************************************)
EXTENDS Embedding, Listings, SequencesExt

CONSTANTS
    Copies,         \* [Hashes -> how many influencers posted it]: rows of raw_signals
    MaxThemes,      \* max_themes
    Relevances      \* ratings that reach min_relevance, in some unit

ASSUME ThemesAssumption ==
    IsFiniteSet(Hashes) /\ Copies \in [Hashes -> Nat \ {0}] /\ MaxThemes \in Nat \ {0} /\ Relevances \subseteq Nat

VARIABLE week       \* the request

Pairs == {p \in Hashes \X Hashes : p[1] < p[2]}

ThemesInit ==
    week = [step |-> "start", near |-> {}, relevance |-> <<>>, counted |-> 0, rows |-> <<>>,
            clusters |-> <<>>, themes |-> <<>>]

\* How much of the week is rated, the share that the next statement finds embedded.
CountRated(rated, near, relevance) ==
    /\ week.step = "start"
    /\ week' = [week EXCEPT !.step = "rows", !.near = near, !.relevance = relevance, !.counted = Cardinality(rated)]

-----------------------------------------------------------------------------
\* Captions within the threshold of a theme.
Near(g, h) == <<g, h>> \in week.near \/ <<h, g>> \in week.near
Stronger(g, h) == week.relevance[g] > week.relevance[h] \/ (week.relevance[g] = week.relevance[h] /\ g < h)

\* Ratings joined with signals and embeddings: a hash once for each of its signals.
Joined(rated) == UNION {{h} \X (1..Copies[h]) : h \in rated \cap stored}

\* The joined rows, as greedy_cluster sorts them; those of one hash in any order.
FirstOf(a, b) == Stronger(a[1], b[1]) \/ (a[1] = b[1] /\ a[2] < b[2])
Ordered(items) ==
    LET list == Sorted({e \in items \X items : FirstOf(e[1], e[2])}, items)
    IN  [i \in 1..Cardinality(items) |-> list[i][1]]

Assigned(clusters) == UNION {ToSet(clusters[i]) : i \in DOMAIN clusters}

\* Mutant: a row is near enough when it is near any member of the cluster.
AbsorbChain(seed, rows, taken) ==
    FoldLeft(LAMBDA cluster, h : IF h \notin taken \cup ToSet(cluster) /\ \E g \in ToSet(cluster) : Near(g, h)
                                 THEN Append(cluster, h) ELSE cluster,
             <<seed>>, rows)

\* A seed and every unassigned row near it, the first of those that share a hash.
Absorb(seed, rows, taken) ==
    <<seed>> \o Kept(rows, {k \in DOMAIN rows : /\ rows[k] \notin taken \cup {seed} /\ Near(seed, rows[k])
                                               /\ \A j \in DOMAIN rows : rows[j] = rows[k] => k <= j})

\* A row that no cluster has yet becomes the seed of one.
Visit(clusters, row, rows) ==
    IF row \in Assigned(clusters) THEN clusters ELSE Append(clusters, Absorb(row, rows, Assigned(clusters)))

\* after[n] are the clusters after n rows.
GreedyCluster(rows) ==
    LET after[n \in 0..Len(rows)] == IF n = 0 THEN <<>> ELSE Visit(after[n - 1], rows[n], rows)
    IN  after[Len(rows)]

Total(c) == FoldLeft(LAMBDA sum, h : sum + week.relevance[h], 0, c)

\* Size, average relevance, hash of the representative.
Prominent(c, d) ==
    \/ Len(c) > Len(d)
    \/ Len(c) = Len(d) /\ Total(c) > Total(d)
    \/ Len(c) = Len(d) /\ Total(c) = Total(d) /\ c[1] < d[1]

Prefix(s, n) == SubSeq(s, 1, IF n < Len(s) THEN n ELSE Len(s))

Leading(clusters) == Prefix(SortSeq(clusters, Prominent), MaxThemes)

Cluster(rated) ==
    /\ week.step = "rows"
    /\ LET rows == Ordered(Joined(rated))
           clusters == GreedyCluster(rows)
       IN  week' = [week EXCEPT !.step = "answered", !.rows = rows, !.clusters = clusters,
                                !.themes = Leading(clusters)]

ThemesStep ==
    \E rated \in SUBSET signals :
        \/ \E near \in SUBSET Pairs, relevance \in [Hashes -> Relevances] : CountRated(rated, near, relevance)
        \/ Cluster(rated)

-----------------------------------------------------------------------------
\* The clusters split the rows' content: each is led by its strongest post, holds only what
\* is near that post, and holds nothing that is near the leader of a cluster with a stronger
\* one.  Only one split of the rows has these properties, so the order in which Postgres
\* returns them, and posts that several influencers share, make no difference.
Covers(rows, clusters) ==
    /\ Assigned(clusters) = ToSet(rows)
    /\ \A i \in DOMAIN clusters : clusters[i] # <<>> /\ IsInjective(clusters[i])
    /\ \A i, j \in DOMAIN clusters :
        LET c == clusters[i]
            d == clusters[j]
        IN  /\ i # j => ToSet(c) \cap ToSet(d) = {}
            /\ \A h \in ToSet(c) \ {c[1]} : Near(c[1], h) /\ Stronger(c[1], h)
            /\ Stronger(d[1], c[1]) => \A h \in ToSet(c) : ~Near(d[1], h)

\* What is answered is that split.
StrongestCover == week.step = "answered" => Covers(week.rows, week.clusters)

=============================================================================
