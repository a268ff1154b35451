----------------------------- MODULE DependencySets -----------------------------
(***************************************************************************)
(* Dependency sets of the tableau: finite sets of branch levels, which the  *)
(* code keeps as bit sets (DependencySet).                                  *)
(***************************************************************************)
EXTENDS Integers, FiniteSets

\* The bit set d is a smaller integer than e.
BitsLess(d, e) == \E l \in e \ d : \A k \in d \ e : k < l

\* Order by length, then maximum, then bits; the last two agree with bits.
LowerRank(d, e) ==
    \/ Cardinality(d) < Cardinality(e)
    \/ Cardinality(d) = Cardinality(e) /\ BitsLess(d, e)

LeastBits(D) == CHOOSE d \in D : \A e \in D : ~BitsLess(e, d)
LeastRank(D) == CHOOSE d \in D : \A e \in D : ~LowerRank(e, d)

Maximum(d) == CHOOSE l \in d : \A k \in d : k <= l

\* A row keeps an antichain of supports: a new one is dropped when it is
\* subsumed and displaces those it subsumes.
AddSupport(S, d) ==
    IF \E e \in S : e \subseteq d THEN S
    ELSE {e \in S : ~(d \subseteq e)} \cup {d}
=============================================================================
