------------------------------- MODULE Fusion -------------------------------
(***************************************************************************)
(* Reciprocal rank fusion: two ranked lists of candidates into one, by     *)
(* position alone.  A fused score is a fraction, compared exactly; an id   *)
(* is a number, which is its order.                                        *)
(***************************************************************************)
EXTENDS Listings, Functions

CONSTANTS
    K,              \* RRF_K
    Pool            \* candidate_pool

\* The code has 60 and 50: deeper lists would let a single good rank outweigh two bad ones.
ASSUME FusionAssumption == K \in Nat \ {0} /\ Pool \in Nat \ {0} /\ Pool <= K + 1

\* What a method may report: at most Pool different ids, best first.
Lists(S) == {l \in UNION {[1..n -> S] : n \in 0..Pool} : IsInjective(l)}

InList(list, h) == \E i \in DOMAIN list : list[i] = h
Rank(list, h) == CHOOSE i \in DOMAIN list : list[i] = h
Both(f, v, h) == InList(f, h) /\ InList(v, h)
Candidates(f, v) == Range(f) \cup Range(v)

\* 1/(K+r), or the sum of two of these, as numerator and denominator.
One(r) == <<1, K + r>>
Two(r, q) == <<(K + r) + (K + q), (K + r) * (K + q)>>
More(a, b) == a[1] * b[2] > b[1] * a[2]

\* Mutant: the better of the two ranks counts, not their sum.
ScoreBest(f, v, h) ==
    IF Both(f, v, h) THEN One(IF Rank(f, h) < Rank(v, h) THEN Rank(f, h) ELSE Rank(v, h))
    ELSE One(IF InList(f, h) THEN Rank(f, h) ELSE Rank(v, h))

Score(f, v, h) ==
    IF Both(f, v, h) THEN Two(Rank(f, h), Rank(v, h))
    ELSE One(IF InList(f, h) THEN Rank(f, h) ELSE Rank(v, h))

\* Highest score first, ties by id.
Before(f, v, g, h) ==
    \/ More(Score(f, v, g), Score(f, v, h))
    \/ ~More(Score(f, v, h), Score(f, v, g)) /\ g < h

\* sorted(...): all the candidates, in that order.
Fused(f, v) == Sorted({e \in Candidates(f, v) \X Candidates(f, v) : Before(f, v, e[1], e[2])}, Candidates(f, v))

\* The winners, in order, whose row is found; a missing row is skipped.
Hits(f, v, limit, found) ==
    Kept(Fused(f, v), {i \in DOMAIN Fused(f, v) : i <= limit /\ Fused(f, v)[i] \in found})

-----------------------------------------------------------------------------
AtLeastAsHigh(list, g, h) == InList(list, h) => InList(list, g) /\ Rank(list, g) <= Rank(list, h)

\* "agreement across methods is the signal": in s a hit that both lists have comes before
\* every hit of one of them, whatever their ranks; and a hit at least as high in every list
\* as another is never behind it.
AgreementLeads(f, v, s) ==
    \A i, j \in DOMAIN s : i < j =>
        LET g == s[i]
            h == s[j]
        IN  /\ Both(f, v, h) => Both(f, v, g)
            /\ ~(AtLeastAsHigh(f, h, g) /\ AtLeastAsHigh(v, h, g))

=============================================================================
