---------------------------- MODULE BranchingProofs ----------------------------
(***************************************************************************)
(* Proofs about Branching: the least and greatest elements that the        *)
(* definitions CHOOSE exist, and every dependency names live branch levels *)
(* only (TypeOK, LevelsLive).  BranchingVerdict builds on the invariant    *)
(* proved here.                                                            *)
(***************************************************************************)
EXTENDS Branching, FiniteSetTheorems, WellFoundedInduction, TLAPS

\* The leaves are first-order: Zenon proves them, and SMT those that need arithmetic,
\* sequences, records or a wide case split.
USE Zenon

-----------------------------------------------------------------------------
(* Elements chosen by the definitions. *)

\* A nonempty set of naturals has a least element.
LEMMA NatMin ==
    ASSUME NEW S \in SUBSET Nat, S # {}
    PROVE  \E x \in S : \A y \in S : x <= y
<1>1. PICK x \in S : \A y \in S : <<y, x>> \notin OpToRel(<, Nat)
  BY WFMin, NatLessThanWellFounded
<1>2. \A y \in S : ~(y < x)
  BY <1>1 DEF OpToRel
<1>3. \A y \in S : x <= y
  BY <1>2, SMT
<1> QED BY <1>3

\* The branching point's current alternative is one of those remaining.
LEMMA CurrentIn ==
    ASSUME NEW b, b.remaining \in SUBSET Atoms, b.remaining # {}
    PROVE  Current(b) \in b.remaining
<1>1. \E a \in b.remaining : \A c \in b.remaining : a <= c
  BY NatMin, AtomsAssumption
<1> QED BY <1>1 DEF Current

\* A nonempty dependency set has a maximal level.
LEMMA MaximumIn ==
    ASSUME NEW n \in Nat, NEW d \in SUBSET (1..n), d # {}
    PROVE  /\ Maximum(d) \in d
           /\ \A k \in d : k <= Maximum(d)
<1> DEFINE S == {n - k : k \in d}
<1>1. S \in SUBSET Nat /\ S # {}
  <2>1. \A k \in d : n - k \in Nat
    BY SMT
  <2> QED BY <2>1
<1>2. PICK x \in S : \A y \in S : x <= y
  BY <1>1, NatMin
<1>3. PICK l \in d : x = n - l
  BY <1>2
<1>4. \A k \in d : k <= l
  <2> TAKE k \in d
  <2>1. n - k \in S
    OBVIOUS
  <2>2. n - l <= n - k
    BY <2>1, <1>2, <1>3
  <2> QED BY <2>2, SMT
<1> QED BY <1>4 DEF Maximum

\* Every nonempty family of dependency sets has a least one as a bit set.
LEMMA BitsMinimal ==
    \A n \in Nat : \A D \in SUBSET SUBSET (1..n) :
        D # {} => \E d \in D : \A e \in D : ~BitsLess(e, d)
<1> DEFINE P(n) == \A D \in SUBSET SUBSET (1..n) :
                      D # {} => \E d \in D : \A e \in D : ~BitsLess(e, d)
<1> DEFINE Bad == {n \in Nat : ~P(n)}
<1> SUFFICES ASSUME Bad # {} PROVE FALSE
  OBVIOUS
<1>1. PICK n \in Bad : \A m \in Bad : n <= m
  BY NatMin
<1>2. PICK D \in SUBSET SUBSET (1..n) :
         D # {} /\ \A d \in D : \E e \in D : BitsLess(e, d)
  BY <1>1
<1>3. n \in Nat /\ n # 0
  <2>1. CASE n = 0
    <3>1. \A d \in D : d = {}
      BY <2>1, <1>2, SMT
    <3> QED BY <3>1, <1>2 DEF BitsLess
  <2> QED BY <2>1
<1>4. P(n - 1)
  <2>1. n - 1 \in Nat /\ ~(n <= n - 1)
    BY <1>3, SMT
  <2> QED BY <2>1, <1>1, ZenonT(60)
<1> HIDE DEF Bad
<1> DEFINE Z == {d \in D : n \notin d}
<1>5. CASE Z # {}
  <2>1. Z \in SUBSET SUBSET (1..(n - 1))
    <3> SUFFICES ASSUME NEW d \in Z, NEW k \in d PROVE k \in 1..(n - 1)
      OBVIOUS
    <3>1. k \in 1..n /\ k # n
      BY <1>2
    <3> QED BY <3>1, <1>3, SMT
  <2>2. PICK d \in Z : \A e \in Z : ~BitsLess(e, d)
    BY <2>1, <1>4, <1>5
  <2>3. \A e \in D \ Z : ~BitsLess(e, d)
    <3> SUFFICES ASSUME NEW e \in D \ Z, BitsLess(e, d) PROVE FALSE
      OBVIOUS
    <3>1. PICK l \in d \ e : \A k \in e \ d : k < l
      BY DEF BitsLess
    <3>2. n < l /\ l \in 1..n
      BY <3>1, <1>2, <2>2
    <3> QED BY <3>2, <1>3, SMT
  <2> QED BY <2>2, <2>3, <1>2
<1>6. CASE Z = {}
  <2> DEFINE E == {d \ {n} : d \in D}
  <2>1. E \in SUBSET SUBSET (1..(n - 1)) /\ E # {}
    <3>1. \A d \in D : \A k \in d \ {n} : k \in 1..(n - 1)
      BY <1>2, <1>3, SMT
    <3> QED BY <3>1, <1>2
  <2>2. PICK x \in E : \A y \in E : ~BitsLess(y, x)
    BY <2>1, <1>4
  <2>3. PICK d \in D : x = d \ {n}
    BY <2>2
  <2>4. \A e \in D : ~BitsLess(e, d)
    <3> SUFFICES ASSUME NEW e \in D, BitsLess(e, d) PROVE FALSE
      OBVIOUS
    <3>1. PICK l \in d \ e : \A k \in e \ d : k < l
      BY DEF BitsLess
    <3>2. n \in d /\ n \in e
      BY <1>6
    <3>3. l \in (d \ {n}) \ (e \ {n})
      BY <3>1, <3>2
    <3>4. \A k \in (e \ {n}) \ (d \ {n}) : k < l
      BY <3>1, <3>2
    <3>5. BitsLess(e \ {n}, x)
      BY <3>3, <3>4, <2>3 DEF BitsLess
    <3> QED BY <3>5, <2>2
  <2> QED BY <2>4, <1>2
<1> QED BY <1>5, <1>6

\* The dependency of least bits, which an empty or unit head takes, is one of
\* those of its matches.
LEMMA LeastBitsIn ==
    ASSUME NEW n \in Nat, NEW D \in SUBSET SUBSET (1..n), D # {}
    PROVE  LeastBits(D) \in D
<1>1. \E d \in D : \A e \in D : ~BitsLess(e, d)
  BY BitsMinimal
<1> QED BY <1>1 DEF LeastBits

\* The support of least _dependency_rank is one of the supports.
LEMMA LeastRankIn ==
    ASSUME NEW n \in Nat, NEW D \in SUBSET SUBSET (1..n), D # {}
    PROVE  LeastRank(D) \in D
<1>1. \A d \in D : Cardinality(d) \in Nat
  <2> TAKE d \in D
  <2>1. IsFiniteSet(1..n)
    BY FS_Interval, SMT
  <2>2. IsFiniteSet(d)
    BY <2>1, FS_Subset
  <2> QED BY <2>2, FS_CardinalityType
<1> DEFINE C == {Cardinality(d) : d \in D}
<1>2. PICK m \in C : \A x \in C : m <= x
  <2>1. C \in SUBSET Nat /\ C # {}
    BY <1>1
  <2> QED BY <2>1, NatMin
<1> DEFINE E == {d \in D : Cardinality(d) = m}
<1>3. E \in SUBSET SUBSET (1..n) /\ E # {}
  BY <1>2
<1>4. PICK d \in E : \A e \in E : ~BitsLess(e, d)
  BY <1>3, BitsMinimal
<1>5. \A e \in D : ~LowerRank(e, d)
  <2> TAKE e \in D
  <2>1. Cardinality(e) \in C /\ Cardinality(d) = m
    BY <1>4
  <2>2. m <= Cardinality(e) /\ m \in Nat /\ Cardinality(e) \in Nat
    BY <2>1, <1>1, <1>2
  <2>3. Cardinality(e) = m => ~BitsLess(e, d)
    BY <1>4
  <2> QED BY <2>1, <2>2, <2>3, SMT DEF LowerRank
<1> QED BY <1>4, <1>5 DEF LeastRank

-----------------------------------------------------------------------------
(* What the helpers on supports return. *)

\* The rows of f depend on the first n levels.
Below(f, n) == \A a \in Atoms : \A d \in f[a] : d \subseteq 1..n

\* Adding a support to a row keeps it nonempty and adds no level the row or the
\* new support did not have.
LEMMA AddSupportFacts ==
    ASSUME NEW S, NEW d
    PROVE  /\ AddSupport(S, d) \subseteq S \cup {d}
           /\ AddSupport(S, d) # {}
BY DEF AddSupport

\* The dependency of a refutation is a support of the complementary row.
LEMMA RefutationFacts ==
    ASSUME NEW n \in Nat, NEW f \in Store, Below(f, n),
           NEW a \in Atoms, Refuted(f, a)
    PROVE  /\ Opposite[a] \in Atoms
           /\ RefutationDependency(f, a) \in f[Opposite[a]]
           /\ RefutationDependency(f, a) \subseteq 1..n
<1>1. Opposite[a] \in Atoms /\ Supports(f, Opposite[a]) = f[Opposite[a]]
  BY DEF Refuted, Supports
<1>2. f[Opposite[a]] \in SUBSET SUBSET (1..n) /\ f[Opposite[a]] # {}
  BY <1>1 DEF Below, Refuted
<1>3. RefutationDependency(f, a) \in f[Opposite[a]]
  BY <1>1, <1>2, LeastRankIn DEF RefutationDependency
<1> QED BY <1>1, <1>2, <1>3

\* The reasons for dropping refuted disjuncts mention only live levels.
LEMMA RefutationsBelow ==
    ASSUME NEW n \in Nat, NEW f \in Store, Below(f, n), NEW H \in SUBSET Atoms
    PROVE  RefutationDependencies(f, H) \subseteq 1..n
BY RefutationFacts DEF RefutationDependencies

\* The matches of a clause whose premises are rows.
LEMMA MatchFacts ==
    ASSUME NEW n \in Nat, facts \in Store, Below(facts, n),
           NEW c \in Clauses, \A a \in c.body : facts[a] # {}
    PROVE  /\ MatchDependencies(c) # {}
           /\ \A d \in MatchDependencies(c) :
                 /\ d \subseteq 1..n
                 /\ \A a \in c.body : \E e \in facts[a] : e \subseteq d
<1> DEFINE chosen == {s \in [c.body -> UNION {facts[a] : a \in c.body}] :
                         \A a \in c.body : s[a] \in facts[a]}
<1> DEFINE first == [a \in c.body |-> CHOOSE e \in facts[a] : TRUE]
<1>1. c.body \subseteq Atoms
  BY ClausesAssumption
<1>2. \A a \in c.body : first[a] \in facts[a]
  OBVIOUS
<1>3. first \in chosen
  <2>1. first \in [c.body -> UNION {facts[a] : a \in c.body}]
    BY <1>2
  <2> QED BY <2>1, <1>2
<1>4. MatchDependencies(c) = {UNION {s[a] : a \in c.body} : s \in chosen}
  BY DEF MatchDependencies
<1>5. MatchDependencies(c) # {}
  <2> HIDE DEF chosen, first
  <2>1. UNION {first[a] : a \in c.body} \in MatchDependencies(c)
    BY <1>3, <1>4, SMT
  <2> QED BY <2>1
<1>6. ASSUME NEW d \in MatchDependencies(c)
      PROVE  /\ d \subseteq 1..n
             /\ \A a \in c.body : \E e \in facts[a] : e \subseteq d
  <2>1. PICK s \in chosen : d = UNION {s[a] : a \in c.body}
    BY <1>4
  <2>2. \A a \in c.body : s[a] \in facts[a] /\ s[a] \subseteq 1..n
    BY <1>1 DEF Below
  <2>3. \A a \in c.body : s[a] \subseteq d
    BY <2>1
  <2>4. d \subseteq 1..n
    BY <2>1, <2>2
  <2> QED BY <2>2, <2>3, <2>4
<1> HIDE DEF chosen, first
<1> QED BY <1>5, <1>6

\* The dependency a head is given comes from one of the matches.
LEMMA HeadFacts ==
    ASSUME NEW n \in Nat, facts \in Store, Below(facts, n),
           NEW c \in Clauses, \A a \in c.body : facts[a] # {}
    PROVE  /\ LeastBits(HeadDependencies(c)) \in HeadDependencies(c)
           /\ LeastRank(HeadDependencies(c)) \in HeadDependencies(c)
           /\ \A d \in HeadDependencies(c) :
                 /\ d \subseteq 1..n
                 /\ RefutationDependencies(facts, c.head) \subseteq d
                 /\ \A a \in c.body : \E e \in facts[a] : e \subseteq d
<1>1. c.head \in SUBSET Atoms
  BY ClausesAssumption
<1>2. RefutationDependencies(facts, c.head) \subseteq 1..n
  BY <1>1, RefutationsBelow
<1>3. \A d \in HeadDependencies(c) :
         /\ d \subseteq 1..n
         /\ RefutationDependencies(facts, c.head) \subseteq d
         /\ \A a \in c.body : \E e \in facts[a] : e \subseteq d
  <2> SUFFICES ASSUME NEW m \in MatchDependencies(c)
               PROVE  LET d == m \cup RefutationDependencies(facts, c.head) IN
                      /\ d \subseteq 1..n
                      /\ \A a \in c.body : \E e \in facts[a] : e \subseteq d
    BY SMT DEF HeadDependencies
  <2>1. /\ m \subseteq 1..n
        /\ \A a \in c.body : \E e \in facts[a] : e \subseteq m
    BY MatchFacts
  <2> QED BY <2>1, <1>2
<1>4. HeadDependencies(c) \in SUBSET SUBSET (1..n) /\ HeadDependencies(c) # {}
  <2>1. PICK m : m \in MatchDependencies(c)
    BY MatchFacts, SMT
  <2>2. m \cup RefutationDependencies(facts, c.head) \in HeadDependencies(c)
    BY <2>1 DEF HeadDependencies
  <2> QED BY <1>3, <2>2
<1>5. /\ LeastBits(HeadDependencies(c)) \in HeadDependencies(c)
      /\ LeastRank(HeadDependencies(c)) \in HeadDependencies(c)
  BY <1>4, LeastBitsIn, LeastRankIn
<1> QED BY <1>3, <1>5

\* What dispatching a ground atom does to the rows, their generations and the
\* clash.
DispatchResult(n, f, g, w, a, d, ff, gg, cc) ==
    /\ ff \in Store
    /\ gg \in [Atoms -> Nat]
    /\ cc \in SUBSET SUBSET Nat
    /\ \A x, y \in cc : x = y
    /\ \A b \in Atoms : \A e \in ff[b] : e \in f[b] \/ (b = a /\ e = d)
    /\ ff[a] # {}
    /\ \A b \in Atoms : f[b] # {} => ff[b] # {} /\ gg[b] = g[b]
    /\ \A b \in Atoms : f[b] = {} /\ ff[b] # {} => b = a /\ gg[b] = w
    /\ \A x \in cc : /\ Opposite[a] \in Atoms
                     /\ \E r \in f[Opposite[a]] : r \subseteq 1..n /\ x = d \cup r
    /\ cc = {} => ~Refuted(f, a)

\* _dispatch_normalized preserves the types of the store and installs at most one
\* clash.
LEMMA DispatchFacts ==
    ASSUME NEW n \in Nat, NEW f \in Store, Below(f, n),
           NEW g \in [Atoms -> Nat], NEW w \in Nat,
           NEW a \in Atoms, NEW d \in SUBSET Nat
    PROVE  DispatchResult(n, f, g, w, a, d, WithRow(f, a, d),
                          WithGeneration(f, g, w, a), ClashOf(f, a, d))
<1> DEFINE ff == WithRow(f, a, d)
           gg == WithGeneration(f, g, w, a)
           cc == ClashOf(f, a, d)
<1>1. ff = [f EXCEPT ![a] = AddSupport(f[a], d)]
  BY DEF WithRow
<1>2. /\ AddSupport(f[a], d) \subseteq f[a] \cup {d}
      /\ AddSupport(f[a], d) # {}
  BY AddSupportFacts
<1>3. gg = [g EXCEPT ![a] = IF f[a] = {} THEN w ELSE g[a]]
  BY DEF WithGeneration
<1> HIDE DEF ff, gg
<1>4. /\ ff \in Store
      /\ \A b \in Atoms : b # a => ff[b] = f[b]
      /\ ff[a] = AddSupport(f[a], d)
  <2>1. AddSupport(f[a], d) \in SUBSET SUBSET Nat
    BY <1>2 DEF Store
  <2> QED BY <1>1, <2>1 DEF Store
<1>5. /\ gg \in [Atoms -> Nat]
      /\ \A b \in Atoms : b # a => gg[b] = g[b]
      /\ gg[a] = IF f[a] = {} THEN w ELSE g[a]
  BY <1>3
<1>6. CASE Refuted(f, a)
  <2>1. cc = {d \cup RefutationDependency(f, a)}
    BY <1>6 DEF ClashOf
  <2>2. /\ Opposite[a] \in Atoms
        /\ RefutationDependency(f, a) \in f[Opposite[a]]
        /\ RefutationDependency(f, a) \subseteq 1..n
    BY <1>6, RefutationFacts
  <2>3. cc \in SUBSET SUBSET Nat /\ \A x, y \in cc : x = y
    <3>1. RefutationDependency(f, a) \in SUBSET Nat
      BY <2>2, SMT
    <3>2. d \cup RefutationDependency(f, a) \in SUBSET Nat
      BY <3>1
    <3> QED BY <2>1, <3>2
  <2>4. \A x \in cc : \E r \in f[Opposite[a]] : r \subseteq 1..n /\ x = d \cup r
    BY <2>1, <2>2
  <2>5. cc # {}
    BY <2>1
  <2> HIDE DEF cc
  <2>6. DispatchResult(n, f, g, w, a, d, ff, gg, cc)
    BY <1>2, <1>4, <1>5, <1>6, <2>2, <2>3, <2>4, <2>5 DEF DispatchResult
  <2> QED BY <2>6 DEF ff, gg, cc
<1>7. CASE ~Refuted(f, a)
  <2>1. cc = {}
    BY <1>7 DEF ClashOf
  <2> HIDE DEF cc
  <2>2. DispatchResult(n, f, g, w, a, d, ff, gg, cc)
    BY <1>2, <1>4, <1>5, <1>7, <2>1 DEF DispatchResult
  <2> QED BY <2>2 DEF ff, gg, cc
<1> QED BY <1>6, <1>7

\* A row dispatched with live levels, and the clash it may cause, depend on live
\* levels only.
LEMMA DispatchBelow ==
    ASSUME NEW n \in Nat, NEW m \in Nat, n <= m, NEW f, NEW g, NEW w,
           NEW a \in Atoms, NEW d \in SUBSET (1..m), NEW ff, NEW gg, NEW cc,
           Below(f, n), DispatchResult(n, f, g, w, a, d, ff, gg, cc)
    PROVE  Below(ff, m) /\ \A x \in cc : x \subseteq 1..m
<1>1. 1..n \subseteq 1..m
  BY SMT
<1>2. Below(ff, m)
  <2> SUFFICES ASSUME NEW b \in Atoms, NEW e \in ff[b] PROVE e \subseteq 1..m
    BY DEF Below
  <2>1. e \in f[b] \/ e = d
    BY DEF DispatchResult
  <2> QED BY <1>1, <2>1 DEF Below
<1>3. \A x \in cc : x \subseteq 1..m
  BY <1>1, SMT DEF DispatchResult
<1> QED BY <1>2, <1>3

\* Installing a disjunction changes no record's disjuncts, lowers at most one
\* base, and leaves a record for its disjuncts.
InstallResult(D, H, d, DD) ==
    /\ DD \in Seq(Disjunction)
    /\ DOMAIN D \subseteq DOMAIN DD
    /\ \A i \in DOMAIN D : /\ DD[i].atoms = D[i].atoms
                           /\ DD[i].processed = D[i].processed
    /\ \A i \in DOMAIN DD : \/ i \in DOMAIN D /\ DD[i].base = D[i].base
                            \/ DD[i].atoms = H /\ DD[i].base = d
    /\ \A i \in DOMAIN DD \ DOMAIN D : ~DD[i].processed
    /\ \E i \in DOMAIN DD : DD[i].atoms = H

\* _install_disjunction preserves the type and the live levels of the records.
LEMMA InstallFacts ==
    ASSUME NEW D \in Seq(Disjunction),
           NEW H \in SUBSET Atoms, NEW d \in SUBSET Nat
    PROVE  InstallResult(D, H, d, WithDisjunction(D, H, d))
<1> DEFINE DD == WithDisjunction(D, H, d)
<1> SUFFICES InstallResult(D, H, d, DD)
  OBVIOUS
<1> USE DEF InstallResult
<1>1. CASE \E i \in DOMAIN D : D[i].atoms = H
  <2> DEFINE new(i) == IF D[i].atoms = H /\ LowerRank(d, D[i].base)
                       THEN [D[i] EXCEPT !.base = d] ELSE D[i]
  <2>1. DD = [i \in 1..Len(D) |-> new(i)]
    <3>1. DOMAIN D = 1..Len(D)
      BY SMT
    <3> QED BY <3>1, <1>1 DEF WithDisjunction
  <2>2. \A i \in 1..Len(D) :
           /\ new(i) \in Disjunction
           /\ new(i).atoms = D[i].atoms
           /\ new(i).processed = D[i].processed
           /\ new(i).base = D[i].base \/ (new(i).atoms = H /\ new(i).base = d)
    <3> TAKE i \in 1..Len(D)
    <3>1. D[i] \in Disjunction
      BY SMT
    <3> QED BY <3>1 DEF Disjunction
  <2> HIDE DEF new
  <2>3. DD \in Seq(Disjunction) /\ DOMAIN DD = 1..Len(D)
    BY <2>1, <2>2, SMTT(30)
  <2> QED BY <2>1, <2>2, <2>3, <1>1, SMT
<1>2. CASE ~\E i \in DOMAIN D : D[i].atoms = H
  <2> DEFINE rec == [atoms |-> H, base |-> d, processed |-> FALSE]
  <2>1. DD = Append(D, rec)
    BY <1>2 DEF WithDisjunction
  <2>2. rec \in Disjunction
    BY DEF Disjunction
  <2>3. /\ DD \in Seq(Disjunction)
        /\ Len(DD) = Len(D) + 1
        /\ \A i \in 1..Len(D) : DD[i] = D[i]
        /\ DD[Len(D) + 1] = rec
    BY <2>1, <2>2, SMT
  <2> QED BY <2>3, SMTT(30)
<1> QED BY <1>1, <1>2

\* Taking a disjunction only marks it processed.
TakeResult(D, i, DD) ==
    /\ DD \in Seq(Disjunction)
    /\ DOMAIN DD = DOMAIN D
    /\ \A j \in DOMAIN D : /\ DD[j].atoms = D[j].atoms
                           /\ DD[j].base = D[j].base
                           /\ j # i => DD[j] = D[j]

\* Taking a disjunction off the queue changes its processed flag and nothing else.
LEMMA TakeFacts ==
    ASSUME NEW D \in Seq(Disjunction), NEW i \in DOMAIN D
    PROVE  TakeResult(D, i, WithProcessed(D, i))
<1> DEFINE DD == WithProcessed(D, i)
<1> SUFFICES TakeResult(D, i, DD)
  OBVIOUS
<1> USE DEF TakeResult
<1>1. D[i] \in Disjunction
  BY SMT
<1>2. DD = [D EXCEPT ![i] = [D[i] EXCEPT !.processed = TRUE]]
  BY DEF WithProcessed
<1>3. [D[i] EXCEPT !.processed = TRUE] \in Disjunction
  BY <1>1 DEF Disjunction
<1>4. /\ DD \in Seq(Disjunction)
      /\ DOMAIN DD = DOMAIN D
      /\ DD[i] = [D[i] EXCEPT !.processed = TRUE]
      /\ \A j \in DOMAIN D : j # i => DD[j] = D[j]
  BY <1>2, <1>3, SMT
<1>5. DD[i].atoms = D[i].atoms /\ DD[i].base = D[i].base
  BY <1>1, <1>4 DEF Disjunction
<1> QED BY <1>4, <1>5

-----------------------------------------------------------------------------
(* Types and levels. *)

\* The clauses a generation has still to apply have rows for their bodies,
\* and a clash ends the generation.
TodoReady ==
    /\ \A c \in todo : \A a \in c.body : facts[a] # {}
    /\ clash # {} => todo = {}

LevelInv == TypeOK /\ LevelsLive /\ TodoReady

\* A backjump goes to a live level, and what is learned is about lower ones.
LEMMA BackjumpFacts ==
    ASSUME LevelInv, NEW d \in clash, d # {}
    PROVE  /\ BackjumpLevel(d) \in 1..Len(branches)
           /\ d \ {BackjumpLevel(d)} \subseteq 1..(BackjumpLevel(d) - 1)
<1>1. Len(branches) \in Nat /\ d \in SUBSET (1..Len(branches))
  BY SMT DEF LevelInv, TypeOK, LevelsLive
<1>2. CASE learning
  <2>1. Maximum(d) \in d /\ \A k \in d : k <= Maximum(d)
    BY <1>1, MaximumIn
  <2>2. BackjumpLevel(d) = Maximum(d)
    BY <1>2 DEF BackjumpLevel
  <2>3. ASSUME NEW k \in d, k # Maximum(d)
        PROVE  k \in 1..(Maximum(d) - 1)
    <3>1. k \in 1..Len(branches) /\ Maximum(d) \in 1..Len(branches) /\ k <= Maximum(d)
      BY <1>1, <2>1
    <3> QED BY <3>1, <2>3, SMT
  <2> QED BY <1>1, <2>1, <2>2, <2>3
<1>3. CASE ~learning
  <2>1. BackjumpLevel(d) = Len(branches)
    BY <1>3 DEF BackjumpLevel
  <2>2. PICK k : k \in d
    OBVIOUS
  <2>3. Len(branches) \in 1..Len(branches)
    BY <1>1, <2>2, SMT
  <2>4. \A x \in d : x # Len(branches) => x \in 1..(Len(branches) - 1)
    BY <1>1, SMT
  <2> QED BY <2>1, <2>3, <2>4
<1> QED BY <1>2, <1>3 DEF LevelInv, TypeOK

\* The fields of the branching point a clash is resolved at.
LEMMA AdvancedFacts ==
    ASSUME LevelInv, NEW t \in 1..Len(branches), NEW d \in SUBSET Nat,
           d \ {t} \subseteq 1..(t - 1)
    PROVE  /\ branches[t] \in Branch
           /\ BranchLive(branches[t], t)
           /\ Advanced(t, d) \in Branch
           /\ Advanced(t, d).source = branches[t].source
           /\ Advanced(t, d).base = branches[t].base
           /\ Advanced(t, d).saved = branches[t].saved
           /\ Advanced(t, d).learned = branches[t].learned \cup (d \ {t})
           /\ Advanced(t, d).remaining = branches[t].remaining \ {Current(branches[t])}
           /\ Advanced(t, d).remaining # {} => BranchLive(Advanced(t, d), t)
<1>1. branches[t] \in Branch /\ BranchLive(branches[t], t)
  BY SMT DEF LevelInv, TypeOK, LevelsLive
<1>2. Advanced(t, d) = [branches[t] EXCEPT
                          !.remaining = branches[t].remaining \ {Current(branches[t])},
                          !.learned = branches[t].learned \cup (d \ {t})]
  BY DEF Advanced
<1>3. /\ Advanced(t, d) \in Branch
      /\ Advanced(t, d).source = branches[t].source
      /\ Advanced(t, d).base = branches[t].base
      /\ Advanced(t, d).saved = branches[t].saved
      /\ Advanced(t, d).learned = branches[t].learned \cup (d \ {t})
      /\ Advanced(t, d).remaining = branches[t].remaining \ {Current(branches[t])}
  BY <1>1, <1>2, ZenonT(60) DEF Branch
<1>4. Advanced(t, d).remaining # {} => BranchLive(Advanced(t, d), t)
  BY <1>1, <1>3 DEF BranchLive
<1> QED BY <1>1, <1>3, <1>4

\* The levels of the rows, in the form the lemmas on supports take.
LEMMA LevelInvBelow ==
    ASSUME LevelInv
    PROVE  /\ Len(branches) \in Nat
           /\ facts \in Store
           /\ Below(facts, Len(branches))
<1>1. branches \in Seq(Branch) /\ facts \in Store
  BY DEF LevelInv, TypeOK
<1>2. DependsBelow(facts, disjs, Len(branches))
  BY DEF LevelInv, LevelsLive
<1> QED BY <1>1, <1>2, SMT DEF DependsBelow, Below

\* A clause to apply, its head and its premises.
LEMMA TodoFacts ==
    ASSUME LevelInv, NEW c \in todo
    PROVE  /\ c \in Clauses
           /\ c.head \in SUBSET Atoms
           /\ c.body \in SUBSET Atoms
           /\ \A a \in c.body : facts[a] # {}
<1>1. c \in Clauses
  BY DEF LevelInv, TypeOK
<1> QED BY <1>1, ClausesAssumption DEF LevelInv, TodoReady

\* The invariant of the branch stack holds when the search starts.
LEMMA LevelInvInit == Init => LevelInv
<1> SUFFICES ASSUME Init PROVE LevelInv
  OBVIOUS
<1> USE DEF Init
<1>1. TypeOK
  BY SMT DEF TypeOK, Store
<1>2. LevelsLive
  BY SMT DEF LevelsLive, DependsBelow
<1>3. TodoReady
  BY DEF TodoReady
<1> QED BY <1>1, <1>2, <1>3 DEF LevelInv

\* Steps that leave the branching points alone keep them live.
LEMMA LevelsStep ==
    ASSUME LevelInv, branches' = branches,
           DependsBelow(facts', disjs', Len(branches)),
           \A d \in clash' : d \subseteq 1..Len(branches),
           \A d, e \in clash' : d = e
    PROVE  LevelsLive'
BY DEF LevelInv, LevelsLive

\* Starting a delta generation preserves the invariant.
LEMMA LevelInvApplyNextDelta ==
    ASSUME LevelInv, ApplyNextDelta PROVE LevelInv'
<1> USE DEF LevelInv, ApplyNextDelta, PrepareNextDelta, config
<1>1. TypeOK'
  BY SMT DEF TypeOK, NextRead
<1>2. LevelsLive'
  BY DEF LevelsLive
<1>3. TodoReady'
  BY DEF TodoReady, Triggered, Running
<1> QED BY <1>1, <1>2, <1>3

\* Applying a match, whatever becomes of its head, preserves the invariant.
LEMMA LevelInvApplyMatch ==
    ASSUME LevelInv, NEW c \in program, ApplyMatch(c) PROVE LevelInv'
<1> DEFINE n == Len(branches)
<1>1. /\ n \in Nat
      /\ facts \in Store
      /\ Below(facts, n)
      /\ c \in Clauses
      /\ c.head \in SUBSET Atoms
      /\ \A a \in c.body : facts[a] # {}
  BY LevelInvBelow, TodoFacts DEF ApplyMatch
<1>2. /\ branches' = branches
      /\ UNCHANGED <<program, learning, read, write, answer>>
  BY DEF ApplyMatch, config
<1>3. \A d \in HeadDependencies(c) : d \subseteq 1..n /\ d \in SUBSET Nat
  BY <1>1, HeadFacts, SMTT(30)
<1>4. CASE HeadSatisfied(c)
  <2>1. TypeOK'
    BY <1>2, <1>4 DEF LevelInv, TypeOK, HeadSatisfied
  <2>2. LevelsLive'
    BY <1>2, <1>4 DEF LevelInv, LevelsLive, HeadSatisfied
  <2>3. TodoReady'
    BY <1>4 DEF LevelInv, TodoReady, HeadSatisfied, ApplyMatch, Running
  <2> QED BY <2>1, <2>2, <2>3 DEF LevelInv
<1>5. CASE HeadEmpty(c)
  <2>1. LeastBits(HeadDependencies(c)) \in HeadDependencies(c)
    BY <1>1, HeadFacts
  <2>2. /\ LeastBits(HeadDependencies(c)) \in SUBSET Nat
        /\ LeastBits(HeadDependencies(c)) \subseteq 1..n
    BY <2>1, <1>3
  <2>3. TypeOK'
    BY <1>2, <1>5, <2>2 DEF LevelInv, TypeOK, HeadEmpty
  <2>4. LevelsLive'
    BY <1>2, <1>5, <2>2, LevelsStep DEF LevelInv, LevelsLive, HeadEmpty
  <2>5. TodoReady'
    BY <1>5 DEF TodoReady, HeadEmpty
  <2> QED BY <2>3, <2>4, <2>5 DEF LevelInv
<1>6. CASE HeadUnit(c)
  <2> DEFINE d == LeastBits(HeadDependencies(c))
  <2>1. d \in SUBSET Nat /\ d \subseteq 1..n
    BY <1>1, <1>3, HeadFacts
  <2>2. PICK a \in c.head : /\ facts' = WithRow(facts, a, d)
                            /\ gen' = WithGeneration(facts, gen, write, a)
                            /\ clash' = ClashOf(facts, a, d)
    BY <1>6 DEF HeadUnit, Dispatch
  <2> HIDE DEF d
  <2>3. a \in Atoms /\ gen \in [Atoms -> Nat] /\ write \in Nat
    BY <1>1 DEF LevelInv, TypeOK
  <2>4. DispatchResult(n, facts, gen, write, a, d, facts', gen', clash')
    BY <1>1, <2>1, <2>2, <2>3, DispatchFacts
  <2>5. /\ facts' \in Store
        /\ gen' \in [Atoms -> Nat]
        /\ clash' \in SUBSET SUBSET Nat
        /\ \A x, y \in clash' : x = y
        /\ \A b \in Atoms : facts[b] # {} => facts'[b] # {}
    BY <2>4 DEF DispatchResult
  <2>6. todo' \subseteq todo /\ disjs' = disjs
    BY <1>6 DEF HeadUnit
  <2>7. TypeOK'
    BY <1>2, <2>5, <2>6 DEF LevelInv, TypeOK
  <2>8. LevelsLive'
    <3>1. Below(facts', n) /\ \A x \in clash' : x \subseteq 1..n
      <4>1. n \in Nat /\ n <= n /\ d \in SUBSET (1..n)
        BY <1>1, <2>1, SMT
      <4> HIDE DEF n
      <4> QED BY <4>1, <1>1, <2>3, <2>4, DispatchBelow
    <3>2. DependsBelow(facts', disjs', n)
      BY <3>1, <2>6 DEF LevelInv, LevelsLive, DependsBelow, Below
    <3> QED BY <1>2, <2>5, <3>1, <3>2, LevelsStep
  <2>9. TodoReady'
    <3> SUFFICES ASSUME NEW k \in todo', NEW x \in k.body PROVE facts'[x] # {}
      BY <1>6 DEF TodoReady, HeadUnit
    <3>1. x \in Atoms /\ facts[x] # {}
      BY <2>6, TodoFacts
    <3> QED BY <3>1, <2>5
  <2> QED BY <2>7, <2>8, <2>9 DEF LevelInv
<1>7. CASE HeadDisjunctive(c)
  <2> DEFINE H == Unrefuted(facts, c.head)
             d == LeastRank(HeadDependencies(c))
  <2>1. d \in SUBSET Nat /\ d \subseteq 1..n
    BY <1>1, <1>3, HeadFacts
  <2>2. H \in SUBSET Atoms
    BY <1>1 DEF Unrefuted
  <2>3. disjs' = WithDisjunction(disjs, H, d) /\ disjs \in Seq(Disjunction)
    BY <1>7 DEF HeadDisjunctive, LevelInv, TypeOK
  <2> HIDE DEF H, d
  <2>4. /\ disjs' \in Seq(Disjunction)
        /\ \A i \in DOMAIN disjs' : \/ i \in DOMAIN disjs /\ disjs'[i].base = disjs[i].base
                                    \/ disjs'[i].base = d
    <3>1. InstallResult(disjs, H, d, disjs')
      BY <2>1, <2>2, <2>3, InstallFacts
    <3> QED BY <3>1 DEF InstallResult
  <2>5. /\ UNCHANGED <<facts, gen, clash>>
        /\ todo' \subseteq todo
    BY <1>7 DEF HeadDisjunctive
  <2>6. TypeOK'
    BY <1>2, <2>4, <2>5 DEF LevelInv, TypeOK
  <2>7. LevelsLive'
    BY <1>2, <2>1, <2>4, <2>5 DEF LevelInv, LevelsLive, DependsBelow
  <2>8. TodoReady'
    BY <2>5 DEF LevelInv, TodoReady, ApplyMatch, Running
  <2> QED BY <2>6, <2>7, <2>8 DEF LevelInv
<1> QED BY <1>4, <1>5, <1>6, <1>7 DEF ApplyMatch

\* The record taken from the queue and the dependency it is processed with.
LEMMA TakenFacts ==
    ASSUME LevelInv, NEW i, TakeDisjunction(i)
    PROVE  /\ i \in DOMAIN disjs
           /\ disjs[i] \in Disjunction
           /\ disjs[i].atoms \in SUBSET Atoms
           /\ TakeResult(disjs, i, disjs')
           /\ disjs[i].base \subseteq 1..Len(branches)
           /\ Combined(i) \subseteq 1..Len(branches)
           /\ Combined(i) \in SUBSET Nat
<1>1. disjs \in Seq(Disjunction) /\ i \in DOMAIN disjs
  BY DEF LevelInv, TypeOK, TakeDisjunction, Unprocessed
<1>2. disjs[i] \in Disjunction /\ disjs[i].atoms \in SUBSET Atoms
  <2>1. disjs[i] \in Disjunction
    BY <1>1, SMT
  <2> QED BY <2>1 DEF Disjunction
<1>3. TakeResult(disjs, i, disjs')
  BY <1>1, TakeFacts DEF TakeDisjunction
<1>4. disjs[i].base \subseteq 1..Len(branches)
  BY <1>1 DEF LevelInv, LevelsLive, DependsBelow
<1>5. RefutationDependencies(facts, disjs[i].atoms) \subseteq 1..Len(branches)
  BY <1>2, LevelInvBelow, RefutationsBelow
<1>6. Combined(i) \subseteq 1..Len(branches)
  BY <1>4, <1>5 DEF Combined
<1>7. Combined(i) \in SUBSET Nat
  BY <1>6, LevelInvBelow, SMT
<1> QED BY <1>1, <1>2, <1>3, <1>4, <1>6, <1>7

\* What a step that processes record i has at hand.
Taking(i) ==
    /\ TakeDisjunction(i)
    /\ PrepareNextDelta

\* A disjunction with one disjunct left dispatches it.
LEMMA UnitShape ==
    ASSUME LevelInv, NEW i, Taking(i), DisjunctionUnit(i)
    PROVE  \E a \in disjs[i].atoms :
              /\ Unrefuted(facts, disjs[i].atoms) = {a}
              /\ DispatchResult(Len(branches), facts, gen, write', a, Combined(i),
                                facts', gen', clash')
<1> DEFINE d == Combined(i)
           n == Len(branches)
<1>1. PICK a \in disjs[i].atoms :
         /\ Unrefuted(facts, disjs[i].atoms) = {a}
         /\ facts' = WithRow(facts, a, d)
         /\ gen' = WithGeneration(facts, gen, write', a)
         /\ clash' = ClashOf(facts, a, d)
  BY DEF DisjunctionUnit, Dispatch
<1>2. /\ a \in Atoms /\ d \in SUBSET Nat
      /\ n \in Nat /\ facts \in Store /\ Below(facts, n)
      /\ gen \in [Atoms -> Nat] /\ write' \in Nat
  BY TakenFacts, LevelInvBelow, SMT DEF Taking, PrepareNextDelta, LevelInv, TypeOK
<1> HIDE DEF d, n
<1>3. DispatchResult(n, facts, gen, write', a, d, facts', gen', clash')
  BY <1>1, <1>2, DispatchFacts
<1> QED BY <1>1, <1>3 DEF d, n

\* A branching point b pushed for record i saves the state with the record
\* processed and dispatches the first of the disjuncts that are left.
Pushed(i, b) ==
    /\ b.source = i
    /\ b.remaining = Unrefuted(facts, disjs[i].atoms)
    /\ b.base = Combined(i)
    /\ b.learned = {}
    /\ b.saved = [facts |-> facts, gen |-> gen, read |-> read', write |-> write',
                  disjs |-> disjs']
    /\ BranchLive(b, Len(branches) + 1)
    /\ branches' \in Seq(Branch)
    /\ Len(branches') = Len(branches) + 1
    /\ \A l \in 1..Len(branches) : branches'[l] = branches[l]
    /\ branches'[Len(branches) + 1] = b
    /\ Current(b) \in b.remaining
    /\ DispatchResult(Len(branches), facts, gen, write', Current(b),
                      Combined(i) \cup {Len(branches) + 1}, facts', gen', clash')

\* Every push has that shape.
LEMMA PushShape ==
    ASSUME LevelInv, NEW i, Taking(i), PushBranch(i)
    PROVE  \E b \in Branch : Pushed(i, b)
<1> DEFINE n == Len(branches)
           branch == [source    |-> i,
                      remaining |-> Unrefuted(facts, disjs[i].atoms),
                      base      |-> Combined(i),
                      learned   |-> {},
                      saved     |-> Checkpoint]
           d == Combined(i) \cup {n + 1}
           a == Current(branch)
<1>1. /\ branches' = Append(branches, branch)
      /\ facts' = WithRow(facts, a, d)
      /\ gen' = WithGeneration(facts, gen, write', a)
      /\ clash' = ClashOf(facts, a, d)
  BY DEF PushBranch, Dispatch
<1>2. /\ read' \in Nat /\ write' \in Nat
      /\ n \in Nat /\ facts \in Store /\ Below(facts, n)
      /\ gen \in [Atoms -> Nat] /\ branches \in Seq(Branch)
  BY LevelInvBelow, SMT DEF Taking, PrepareNextDelta, NextRead, LevelInv, TypeOK
<1>3. /\ i \in DOMAIN disjs
      /\ disjs[i].atoms \in SUBSET Atoms
      /\ TakeResult(disjs, i, disjs')
      /\ Combined(i) \in SUBSET (1..n)
      /\ Combined(i) \in SUBSET Nat
  BY TakenFacts DEF Taking
<1>4. /\ disjs' \in Seq(Disjunction)
      /\ \A j \in DOMAIN disjs' : disjs'[j].base \subseteq 1..n
      /\ i \in DOMAIN disjs' /\ i \in Nat
      /\ disjs'[i].atoms = disjs[i].atoms
  BY <1>3, SMTT(30) DEF TakeResult, LevelInv, TypeOK, LevelsLive, DependsBelow
<1>5. Checkpoint \in Snapshot
  BY <1>2, <1>4 DEF Checkpoint, Snapshot
<1>6. branch \in Branch
  BY <1>3, <1>4, <1>5 DEF Branch, Unrefuted
<1>7. BranchLive(branch, n + 1)
  <2>1. branch.remaining # {}
    BY DEF PushBranch
  <2>2. branch.remaining \subseteq disjs'[i].atoms
    BY <1>4 DEF Unrefuted
  <2>3. DependsBelow(facts, disjs', (n + 1) - 1)
    BY <1>2, <1>4, SMTT(30) DEF DependsBelow, Below
  <2>4. branch.base \subseteq 1..((n + 1) - 1)
    BY <1>2, <1>3, SMT
  <2> QED BY <2>1, <2>2, <2>3, <2>4, <1>4 DEF BranchLive, Checkpoint
<1>8. a \in branch.remaining /\ a \in Atoms
  BY <1>6, <1>7, CurrentIn DEF Branch, BranchLive
<1>9. /\ branch.source = i
      /\ branch.remaining = Unrefuted(facts, disjs[i].atoms)
      /\ branch.base = Combined(i)
      /\ branch.learned = {}
      /\ branch.saved = [facts |-> facts, gen |-> gen, read |-> read',
                         write |-> write', disjs |-> disjs']
  BY DEF Checkpoint
<1> HIDE DEF branch, a
<1>10. /\ branches' \in Seq(Branch)
       /\ Len(branches') = n + 1
       /\ \A l \in 1..n : branches'[l] = branches[l]
       /\ branches'[n + 1] = branch
  <2>1. branches' = Append(branches, branch)
    BY <1>1
  <2>2. branches \in Seq(Branch) /\ branch \in Branch
    BY <1>2, <1>6
  <2> HIDE DEF n
  <2>3. n = Len(branches)
    BY DEF n
  <2> QED BY <2>1, <2>2, <2>3, SMT
<1>11. d \in SUBSET Nat
  BY <1>2, <1>3, SMT
<1> HIDE DEF d
<1>12. DispatchResult(n, facts, gen, write', a, d, facts', gen', clash')
  BY <1>1, <1>2, <1>8, <1>11, DispatchFacts
<1>13. Pushed(i, branch)
  BY <1>7, <1>8, <1>9, <1>10, <1>12 DEF Pushed, a, d
<1> QED BY <1>6, <1>13

\* Processing a ground disjunction preserves the invariant.
LEMMA LevelInvProcess ==
    ASSUME LevelInv, ProcessDisjunction PROVE LevelInv'
<1> DEFINE n == Len(branches)
<1>1. PICK i \in DOMAIN disjs :
         /\ TakeDisjunction(i)
         /\ \/ DisjunctionSatisfied(i)
            \/ DisjunctionEmpty(i)
            \/ DisjunctionUnit(i)
            \/ PushBranch(i)
  BY DEF ProcessDisjunction
<1>2. /\ read' \in Nat /\ write' \in Nat
      /\ UNCHANGED <<program, learning, todo, answer>>
      /\ todo = {}
  BY SMT DEF ProcessDisjunction, PrepareNextDelta, NextRead, Saturated, config, LevelInv, TypeOK
<1>3. /\ n \in Nat /\ facts \in Store /\ Below(facts, n)
      /\ gen \in [Atoms -> Nat]
      /\ disjs \in Seq(Disjunction)
  BY LevelInvBelow DEF LevelInv, TypeOK
<1>4. /\ disjs[i].atoms \in SUBSET Atoms
      /\ TakeResult(disjs, i, disjs')
      /\ Combined(i) \in SUBSET (1..n)
      /\ Combined(i) \in SUBSET Nat
  BY <1>1, TakenFacts
<1>5. /\ disjs' \in Seq(Disjunction)
      /\ \A j \in DOMAIN disjs' : disjs'[j].base \subseteq 1..n
      /\ i \in DOMAIN disjs'
      /\ disjs'[i].atoms = disjs[i].atoms
  BY <1>4 DEF TakeResult, LevelInv, LevelsLive, DependsBelow
<1>6. TodoReady'
  BY <1>2 DEF TodoReady
<1>7. CASE DisjunctionSatisfied(i)
  <2>1. TypeOK'
    BY <1>2, <1>5, <1>7 DEF DisjunctionSatisfied, LevelInv, TypeOK
  <2>2. LevelsLive'
    BY <1>5, <1>7 DEF DisjunctionSatisfied, LevelInv, LevelsLive, DependsBelow
  <2> QED BY <1>6, <2>1, <2>2 DEF LevelInv
<1>8. CASE DisjunctionEmpty(i)
  <2>1. clash' = {Combined(i)} /\ UNCHANGED <<facts, gen, branches>>
    BY <1>8 DEF DisjunctionEmpty
  <2>2. TypeOK'
    BY <1>2, <1>4, <1>5, <2>1 DEF LevelInv, TypeOK
  <2>3. LevelsLive'
    <3>1. DependsBelow(facts', disjs', n)
      BY <1>5, <2>1 DEF LevelInv, LevelsLive, DependsBelow
    <3> QED BY <1>4, <2>1, <3>1, LevelsStep
  <2> QED BY <1>6, <2>2, <2>3 DEF LevelInv
<1>9. CASE DisjunctionUnit(i)
  <2>1. PICK a \in disjs[i].atoms :
           DispatchResult(n, facts, gen, write', a, Combined(i), facts', gen', clash')
    BY <1>1, <1>9, UnitShape DEF ProcessDisjunction, Taking
  <2>2. UNCHANGED branches
    BY <1>9 DEF DisjunctionUnit
  <2>3. TypeOK'
    BY <1>2, <1>5, <2>1, <2>2 DEF LevelInv, TypeOK, DispatchResult
  <2>4. LevelsLive'
    <3>1. Below(facts', n) /\ \A x \in clash' : x \subseteq 1..n
      <4> DEFINE d == Combined(i)
      <4>1. n <= n /\ a \in Atoms /\ d \in SUBSET (1..n)
        BY <1>3, <1>4, SMT
      <4>2. DispatchResult(n, facts, gen, write', a, d, facts', gen', clash')
        BY <2>1
      <4> HIDE DEF n, d
      <4> QED BY <1>3, <4>1, <4>2, DispatchBelow
    <3>2. DependsBelow(facts', disjs', n)
      BY <3>1, <1>5 DEF DependsBelow, Below
    <3>3. \A x, y \in clash' : x = y
      BY <2>1 DEF DispatchResult
    <3> QED BY <2>2, <3>1, <3>2, <3>3, LevelsStep
  <2> QED BY <1>6, <2>3, <2>4 DEF LevelInv
<1>10. CASE PushBranch(i)
  <2>1. PICK b \in Branch : Pushed(i, b)
    BY <1>1, <1>10, PushShape, ZenonT(30) DEF ProcessDisjunction, Taking
  <2> DEFINE d == Combined(i) \cup {n + 1}
             a == Current(b)
  <2>2. a \in Atoms /\ d \in SUBSET (1..(n + 1))
    BY <1>3, <1>4, <2>1, SMTT(30) DEF Pushed, Branch
  <2>3. DispatchResult(n, facts, gen, write', a, d, facts', gen', clash')
    BY <2>1 DEF Pushed
  <2> HIDE DEF a, d
  <2>4. TypeOK'
    BY <1>2, <1>5, <2>1, <2>3 DEF LevelInv, TypeOK, DispatchResult, Pushed
  <2>5. LevelsLive'
    <3>1. Below(facts', n + 1) /\ \A x \in clash' : x \subseteq 1..(n + 1)
      <4>1. n <= n + 1 /\ n + 1 \in Nat
        BY <1>3, SMT
      <4> HIDE DEF n
      <4> QED BY <4>1, <1>3, <2>2, <2>3, DispatchBelow
    <3>2. DependsBelow(facts', disjs', n + 1)
      <4>1. \A j \in DOMAIN disjs' : disjs'[j].base \subseteq 1..(n + 1)
        BY <1>3, <1>5, SMT
      <4> QED BY <3>1, <4>1 DEF DependsBelow, Below
    <3>3. \A x, y \in clash' : x = y
      BY <2>3 DEF DispatchResult
    <3>4. ASSUME NEW l \in 1..(n + 1) PROVE BranchLive(branches'[l], l)
      <4>1. CASE l = n + 1
        BY <4>1, <2>1 DEF Pushed
      <4>2. CASE l # n + 1
        <5>1. l \in 1..n /\ l \in DOMAIN branches
          BY <4>2, <1>3, SMTT(30) DEF LevelInv, TypeOK
        <5> QED BY <5>1, <2>1 DEF LevelInv, LevelsLive, Pushed
      <4> QED BY <4>1, <4>2
    <3>5. DOMAIN branches' = 1..(n + 1) /\ Len(branches') = n + 1
      BY <2>1, SMT DEF Pushed
    <3> QED BY <3>1, <3>2, <3>3, <3>4, <3>5 DEF LevelsLive
  <2> QED BY <1>6, <2>4, <2>5 DEF LevelInv
<1> QED BY <1>1, <1>7, <1>8, <1>9, <1>10

\* Cutting the branching points at level t leaves the outer ones as they are.
LEMMA CutFacts ==
    ASSUME NEW bs \in Seq(Branch), NEW t \in 1..Len(bs)
    PROVE  /\ SubSeq(bs, 1, t - 1) \in Seq(Branch)
           /\ Len(SubSeq(bs, 1, t - 1)) = t - 1
           /\ \A l \in 1..(t - 1) : SubSeq(bs, 1, t - 1)[l] = bs[l]
BY SMT

\* Resolving a clash d cuts the branching points at a level t, restores what b,
\* the point after the clash, has saved, and either dispatches b's next
\* alternative or gives b up.
AdvancedTo(t, b) ==
    /\ b.remaining # {}
    /\ BranchLive(b, t)
    /\ Len(branches') = t
    /\ branches'[t] = b
    /\ Current(b) \in b.remaining
    /\ DispatchResult(t - 1, b.saved.facts, b.saved.gen, b.saved.write,
                      Current(b), b.base \cup {t}, facts', gen', clash')

GivenUp(t, b) ==
    /\ b.remaining = {}
    /\ Len(branches') = t - 1
    /\ facts' = b.saved.facts
    /\ gen' = b.saved.gen
    /\ clash' = {b.base \cup b.learned}

Resolved(d, t, b) ==
    /\ d \in SUBSET Nat
    /\ d \ {t} \subseteq 1..(t - 1)
    /\ b.source = branches[t].source
    /\ b.base = branches[t].base
    /\ b.saved = branches[t].saved
    /\ b.learned = branches[t].learned \cup (d \ {t})
    /\ b.remaining = branches[t].remaining \ {Current(branches[t])}
    /\ read' = b.saved.read /\ write' = b.saved.write /\ disjs' = b.saved.disjs
    /\ branches' \in Seq(Branch)
    /\ \A l \in 1..(t - 1) : branches'[l] = branches[l]
    /\ AdvancedTo(t, b) \/ GivenUp(t, b)

\* Appending to a sequence of length n - 1 keeps its elements and puts the new
\* one at n.
LEMMA AppendAt ==
    ASSUME NEW S, NEW s \in Seq(S), NEW e \in S, NEW n \in Nat, Len(s) = n - 1
    PROVE  /\ Append(s, e) \in Seq(S)
           /\ Len(Append(s, e)) = n
           /\ \A l \in 1..(n - 1) : Append(s, e)[l] = s[l]
           /\ Append(s, e)[n] = e
  BY SMT

\* Every resolution of a clash has that shape.
LEMMA ResolveShape ==
    ASSUME LevelInv, ResolveClash
    PROVE  \E d \in clash, t \in 1..Len(branches), b \in Branch : Resolved(d, t, b)
<1>1. PICK d \in clash :
         /\ Clashed(d) /\ d # {}
         /\ \/ AdvanceBranch(BackjumpLevel(d), d)
            \/ ExhaustBranch(BackjumpLevel(d), d)
  BY DEF ResolveClash
<1> DEFINE t == BackjumpLevel(d)
           b == Advanced(t, d)
           cut == SubSeq(branches, 1, t - 1)
<1>2. /\ t \in 1..Len(branches)
      /\ d \ {t} \subseteq 1..(t - 1)
      /\ d \in SUBSET Nat
      /\ branches \in Seq(Branch)
  BY <1>1, BackjumpFacts DEF LevelInv, TypeOK
<1> HIDE DEF t
<1>3. /\ b \in Branch
      /\ b.source = branches[t].source
      /\ b.base = branches[t].base
      /\ b.saved = branches[t].saved
      /\ b.learned = branches[t].learned \cup (d \ {t})
      /\ b.remaining = branches[t].remaining \ {Current(branches[t])}
      /\ b.remaining # {} => BranchLive(b, t)
      /\ BranchLive(branches[t], t)
  BY <1>2, AdvancedFacts, SMT
<1> HIDE DEF b
<1>4. /\ cut \in Seq(Branch)
      /\ Len(cut) = t - 1
      /\ \A l \in 1..(t - 1) : cut[l] = branches[l]
  BY <1>2, CutFacts
<1> HIDE DEF cut
<1>5. /\ b.saved.facts \in Store
      /\ b.saved.gen \in [Atoms -> Nat]
      /\ b.saved.write \in Nat
      /\ b.base \in SUBSET Nat
      /\ b.remaining \in SUBSET Atoms
      /\ t - 1 \in Nat
  <2>1. t - 1 \in Nat
    BY <1>2, SMT
  <2> QED BY <1>3, <2>1 DEF Branch, Snapshot
<1>6. Below(b.saved.facts, t - 1)
  BY <1>3 DEF BranchLive, DependsBelow, Below
<1>7. CASE AdvanceBranch(t, d)
  <2> DEFINE a == Current(b)
             e == b.base \cup {t}
  <2>1. /\ b.remaining # {}
        /\ branches' = Append(cut, b)
        /\ read' = b.saved.read /\ write' = b.saved.write /\ disjs' = b.saved.disjs
        /\ facts' = WithRow(b.saved.facts, a, e)
        /\ gen' = WithGeneration(b.saved.facts, b.saved.gen, b.saved.write, a)
        /\ clash' = ClashOf(b.saved.facts, a, e)
    BY <1>7 DEF AdvanceBranch, Dispatch, Restore, b, cut
  <2>2. a \in b.remaining /\ a \in Atoms
    BY <1>5, <2>1, CurrentIn
  <2>3. e \in SUBSET Nat
    BY <1>2, <1>5, SMT
  <2> HIDE DEF a, e
  <2>4. DispatchResult(t - 1, b.saved.facts, b.saved.gen, b.saved.write, a, e,
                       facts', gen', clash')
    BY <1>5, <1>6, <2>1, <2>2, <2>3, DispatchFacts
  <2>5. /\ branches' \in Seq(Branch)
        /\ Len(branches') = t
        /\ \A l \in 1..(t - 1) : branches'[l] = branches[l]
        /\ branches'[t] = b
    <3>1. t \in Nat /\ b \in Branch
      BY <1>2, <1>3, SMTT(30)
    <3>2. /\ Append(cut, b) \in Seq(Branch)
          /\ Len(Append(cut, b)) = t
          /\ \A l \in 1..(t - 1) : Append(cut, b)[l] = cut[l]
          /\ Append(cut, b)[t] = b
      BY <1>4, <3>1, AppendAt, SMTT(30)
    <3>3. branches' = Append(cut, b)
      BY <2>1
    <3> QED BY <1>4, <3>2, <3>3
  <2> QED BY <1>2, <1>3, <2>1, <2>2, <2>4, <2>5 DEF a, e, Resolved, AdvancedTo
<1>8. CASE ExhaustBranch(t, d)
  <2>1. /\ b.remaining = {}
        /\ branches' = cut
        /\ read' = b.saved.read /\ write' = b.saved.write /\ disjs' = b.saved.disjs
        /\ facts' = b.saved.facts /\ gen' = b.saved.gen
        /\ clash' = {b.base \cup b.learned}
    BY <1>8 DEF ExhaustBranch, Restore, b, cut
  <2> QED BY <1>2, <1>3, <1>4, <2>1, ZenonT(60) DEF Resolved, GivenUp
<1> QED BY <1>1, <1>7, <1>8 DEF t

\* Resolving a clash keeps the types and the levels right.
LEMMA LevelInvResolve ==
    ASSUME LevelInv, ResolveClash PROVE LevelInv'
<1>1. PICK d \in clash, t \in 1..Len(branches), b \in Branch : Resolved(d, t, b)
  BY ResolveShape
<1>2. /\ b.saved.facts \in Store
      /\ b.saved.gen \in [Atoms -> Nat]
      /\ b.saved.read \in Nat /\ b.saved.write \in Nat
      /\ b.saved.disjs \in Seq(Disjunction)
      /\ b.base \cup b.learned \in SUBSET Nat
      /\ b.remaining \in SUBSET Atoms
  BY DEF Branch, Snapshot
<1>3. /\ t \in Nat /\ t - 1 \in Nat /\ t - 1 <= t
      /\ 1..(t - 1) \subseteq 1..t
      /\ DOMAIN branches = 1..Len(branches)
  BY SMT DEF LevelInv, TypeOK
<1>4. \A l \in 1..t : BranchLive(branches[l], l)
  BY <1>3, SMT DEF LevelInv, LevelsLive
<1>5. /\ DependsBelow(b.saved.facts, b.saved.disjs, t - 1)
      /\ b.base \cup b.learned \subseteq 1..(t - 1)
  <2>1. BranchLive(branches[t], t)
    BY <1>3, <1>4, SMT
  <2> QED BY <1>1, <2>1 DEF BranchLive, Resolved
<1>6. UNCHANGED <<program, learning, todo, answer>>
  BY DEF ResolveClash, config
<1>7. TodoReady'
  BY <1>6 DEF LevelInv, TodoReady, ResolveClash
<1>8. CASE AdvancedTo(t, b)
  <2> DEFINE a == Current(b)
             e == b.base \cup {t}
  <2>1. a \in Atoms /\ e \in SUBSET (1..t)
    BY <1>2, <1>3, <1>5, <1>8, SMTT(30) DEF AdvancedTo
  <2>2. Below(b.saved.facts, t - 1)
    BY <1>5 DEF DependsBelow, Below
  <2> HIDE DEF a, e
  <2>3. DispatchResult(t - 1, b.saved.facts, b.saved.gen, b.saved.write, a, e,
                       facts', gen', clash')
    BY <1>8 DEF a, e, AdvancedTo
  <2>4. TypeOK'
    BY <1>1, <1>2, <1>6, <2>3 DEF LevelInv, TypeOK, DispatchResult, Resolved
  <2>5. LevelsLive'
    <3>1. Below(facts', t) /\ \A x \in clash' : x \subseteq 1..t
      <4>1. \A x \in Atoms : \A y \in facts'[x] : y \in b.saved.facts[x] \/ y = e
        BY <2>3 DEF DispatchResult
      <4>2. \A x \in clash' : \E r : r \subseteq 1..(t - 1) /\ x = e \cup r
        BY <2>3 DEF DispatchResult
      <4>3. ASSUME NEW x \in Atoms, NEW y \in facts'[x] PROVE y \subseteq 1..t
        <5>1. y \subseteq 1..(t - 1) \/ y = e
          BY <2>2, <4>1 DEF Below
        <5> QED BY <1>3, <2>1, <5>1
      <4>4. ASSUME NEW x \in clash' PROVE x \subseteq 1..t
        <5>1. PICK r : r \subseteq 1..(t - 1) /\ x = e \cup r
          BY <4>2
        <5> QED BY <1>3, <2>1, <5>1
      <4> QED BY <4>3, <4>4 DEF Below
    <3>2. DependsBelow(facts', disjs', t)
      <4>1. \A j \in DOMAIN disjs' : disjs'[j].base \subseteq 1..t
        BY <1>1, <1>3, <1>5 DEF DependsBelow, Resolved
      <4> QED BY <3>1, <4>1 DEF DependsBelow, Below
    <3>3. \A x, y \in clash' : x = y
      BY <2>3 DEF DispatchResult
    <3>4. \A l \in 1..t : BranchLive(branches'[l], l)
      <4> TAKE l \in 1..t
      <4>1. CASE l = t
        BY <4>1, <1>8 DEF AdvancedTo
      <4>2. CASE l # t
        <5>1. l \in 1..(t - 1)
          BY <4>2, <1>3, SMTT(30)
        <5> QED BY <5>1, <1>1, <1>3, <1>4 DEF Resolved
      <4> QED BY <4>1, <4>2
    <3>5. DOMAIN branches' = 1..t
      BY <1>1, <1>8, SMT DEF Resolved, AdvancedTo
    <3> QED BY <1>8, <3>1, <3>2, <3>3, <3>4, <3>5 DEF LevelsLive, AdvancedTo
  <2> QED BY <1>7, <2>4, <2>5 DEF LevelInv
<1>9. CASE GivenUp(t, b)
  <2>1. TypeOK'
    BY <1>1, <1>2, <1>6, <1>9 DEF LevelInv, TypeOK, Resolved, GivenUp
  <2>2. LevelsLive'
    <3>1. DOMAIN branches' = 1..(t - 1)
      BY <1>1, <1>9, SMT DEF Resolved, GivenUp
    <3>2. \A l \in 1..(t - 1) : BranchLive(branches'[l], l)
      BY <1>1, <1>3, <1>4 DEF Resolved
    <3> QED BY <1>1, <1>5, <1>9, <3>1, <3>2, ZenonT(30) DEF LevelsLive, Resolved, GivenUp
  <2> QED BY <1>7, <2>1, <2>2 DEF LevelInv
<1> QED BY <1>1, <1>8, <1>9 DEF Resolved

\* Every step of the search preserves the invariant.
LEMMA LevelInvNext == LevelInv /\ [Next]_vars => LevelInv'
<1> SUFFICES ASSUME LevelInv, [Next]_vars PROVE LevelInv'
  OBVIOUS
<1>1. CASE ApplyNextDelta
  BY <1>1, LevelInvApplyNextDelta
<1>2. ASSUME NEW c \in program, ApplyMatch(c) PROVE LevelInv'
  BY <1>2, LevelInvApplyMatch
<1>3. CASE ProcessDisjunction
  BY <1>3, LevelInvProcess
<1>4. CASE CompleteSat
  <2> USE <1>4 DEF CompleteSat, PrepareNextDelta, config
  <2>1. TypeOK'
    BY SMT DEF LevelInv, TypeOK, NextRead
  <2>2. LevelsLive' /\ TodoReady'
    BY DEF LevelInv, LevelsLive, TodoReady
  <2> QED BY <2>1, <2>2 DEF LevelInv
<1>5. CASE CompleteUnsat
  <2> USE <1>5 DEF CompleteUnsat, config, trailed
  <2>1. TypeOK'
    BY DEF LevelInv, TypeOK
  <2>2. LevelsLive' /\ TodoReady'
    BY DEF LevelInv, LevelsLive, TodoReady
  <2> QED BY <2>1, <2>2 DEF LevelInv
<1>6. CASE ResolveClash
  BY <1>6, LevelInvResolve
<1>7. CASE UNCHANGED vars
  BY <1>7 DEF vars, LevelInv, TypeOK, LevelsLive, TodoReady
<1> QED BY <1>1, <1>2, <1>3, <1>4, <1>5, <1>6, <1>7 DEF Next, Done

\* Every dependency the search keeps names live levels only, in every
\* reachable state of every program: check_invariants never raises.
THEOREM LevelsStayLive == Spec => [](TypeOK /\ LevelsLive)
<1>1. Spec => []LevelInv
  BY LevelInvInit, LevelInvNext, PTL DEF Spec
<1>2. LevelInv => TypeOK /\ LevelsLive
  BY DEF LevelInv
<1> QED BY <1>1, <1>2, PTL
=============================================================================
