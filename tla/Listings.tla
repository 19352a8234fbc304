------------------------------ MODULE Listings ------------------------------
(***************************************************************************)
(* Lists of what a query or a sort puts in an order.                       *)
(***************************************************************************)
EXTENDS Naturals, FiniteSets

\* S in the order R.
Sorted(R, S) ==
    CHOOSE s \in [1..Cardinality(S) -> S] : \A i, j \in DOMAIN s : i < j => <<s[i], s[j]>> \in R

\* The members of s at the positions P, in their order.
Kept(s, P) ==
    LET pos == Sorted({e \in P \X P : e[1] < e[2]}, P)
    IN  [i \in 1..Cardinality(P) |-> s[pos[i]]]

=============================================================================
