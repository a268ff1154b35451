--------------------------- MODULE BranchingVerdict ---------------------------
(***************************************************************************)
(* The verdicts of Branching are right.  "unsat" is answered only for a    *)
(* program without a model, because dependencies explain what they support *)
(* (DependenciesExplain).  "sat" is answered only when the rows of the     *)
(* extension store form a model of the program, because no clause instance *)
(* is lost between delta generations and no processed disjunction loses its *)
(* disjunct to a rollback.  Together this is VerdictCorrect.               *)
(***************************************************************************)
EXTENDS BranchingProofs

\* The leaves are first-order: Zenon proves them, and SMT those that need arithmetic,
\* sequences, records or a wide case split.
USE Zenon

-----------------------------------------------------------------------------
(* Dependencies explain what they support.  The invariant is stronger than  *)
(* DependenciesExplain: what a branching point has saved is explained too,  *)
(* because a backjump brings it back.                                       *)

Agree(bs, M, d) == \A l \in d : Current(bs[l]) \in M

RowsExplained(bs, M, f) ==
    \A a \in Atoms : \A d \in f[a] : Agree(bs, M, d) => a \in M

ClashExplained(bs, M, D) == \A d \in D : ~Agree(bs, M, d)

Explained(bs, M, f, D) ==
    /\ RowsExplained(bs, M, f)
    /\ \A i \in DOMAIN D : Agree(bs, M, D[i].base) => D[i].atoms \cap M # {}

BranchExplained(bs, M, b) ==
    /\ Explained(bs, M, b.saved.facts, b.saved.disjs)
    /\ Agree(bs, M, b.base \cup b.learned) => b.remaining \cap M # {}

ExplainInv ==
    \A M \in Models :
       /\ Explained(branches, M, facts, disjs)
       /\ ClashExplained(branches, M, clash)
       /\ \A l \in DOMAIN branches : BranchExplained(branches, M, branches[l])

Consistent(M) == M \in SUBSET Atoms /\ \A a \in M : Opposite[a] \notin M

\* Agreement looks at the levels of the dependency only.
LEMMA AgreeCut ==
    ASSUME NEW n \in Nat, NEW bs, NEW cs, NEW M, NEW d \in SUBSET (1..n),
           \A l \in 1..n : bs[l] = cs[l]
    PROVE  Agree(bs, M, d) <=> Agree(cs, M, d)
BY DEF Agree

\* A model that agrees with a set of levels agrees with every part of it.
LEMMA AgreeSubset ==
    ASSUME NEW bs, NEW M, NEW d, NEW e, e \subseteq d, Agree(bs, M, d)
    PROVE  Agree(bs, M, e)
BY DEF Agree

\* Rows explained by the whole stack are explained by the part of it their
\* dependencies mention.
LEMMA ExplainedCut ==
    ASSUME NEW n \in Nat, NEW bs, NEW cs, NEW M, NEW f, NEW D,
           DependsBelow(f, D, n), \A l \in 1..n : bs[l] = cs[l],
           Explained(bs, M, f, D)
    PROVE  Explained(cs, M, f, D)
<1>1. ASSUME NEW a \in Atoms, NEW d \in f[a], Agree(cs, M, d) PROVE a \in M
  <2>1. d \in SUBSET (1..n)
    BY DEF DependsBelow
  <2>2. Agree(bs, M, d)
    BY <1>1, <2>1, AgreeCut
  <2> QED BY <2>2 DEF Explained, RowsExplained
<1>2. ASSUME NEW i \in DOMAIN D, Agree(cs, M, D[i].base)
      PROVE  D[i].atoms \cap M # {}
  <2>1. D[i].base \in SUBSET (1..n)
    BY DEF DependsBelow
  <2>2. Agree(bs, M, D[i].base)
    BY <1>2, <2>1, AgreeCut, SMT
  <2> QED BY <2>2 DEF Explained
<1> QED BY <1>1, <1>2 DEF Explained, RowsExplained

\* What explains a branching point survives dropping the branches above it.
LEMMA BranchExplainedCut ==
    ASSUME NEW l \in Nat \ {0}, NEW bs, NEW cs, NEW M, NEW b, BranchLive(b, l),
           \A k \in 1..(l - 1) : bs[k] = cs[k],
           BranchExplained(bs, M, b)
    PROVE  BranchExplained(cs, M, b)
<1> DEFINE n == l - 1
<1>1. /\ DependsBelow(b.saved.facts, b.saved.disjs, n)
      /\ b.base \cup b.learned \in SUBSET (1..n)
      /\ n \in Nat
      /\ \A k \in 1..n : bs[k] = cs[k]
  BY SMT DEF BranchLive
<1> HIDE DEF n
<1>2. Explained(cs, M, b.saved.facts, b.saved.disjs)
  BY <1>1, ExplainedCut DEF BranchExplained
<1>3. Agree(cs, M, b.base \cup b.learned) => Agree(bs, M, b.base \cup b.learned)
  BY <1>1 DEF Agree
<1> QED BY <1>2, <1>3 DEF BranchExplained

\* A refuted disjunct is false in a model that agrees with the refutation, so
\* the model satisfies one of the others.
LEMMA RefutationsExplain ==
    ASSUME NEW n \in Nat, NEW f \in Store, Below(f, n), NEW H \in SUBSET Atoms,
           NEW bs, NEW M, Consistent(M),
           RowsExplained(bs, M, f),
           Agree(bs, M, RefutationDependencies(f, H)), H \cap M # {}
    PROVE  Unrefuted(f, H) \cap M # {}
<1>1. PICK a \in H : a \in M
  OBVIOUS
<1>2. ASSUME Refuted(f, a) PROVE FALSE
  <2>1. /\ Opposite[a] \in Atoms
        /\ RefutationDependency(f, a) \in f[Opposite[a]]
    BY <1>2, RefutationFacts
  <2>2. RefutationDependency(f, a) \subseteq RefutationDependencies(f, H)
    BY <1>2 DEF RefutationDependencies
  <2>3. Agree(bs, M, RefutationDependency(f, a))
    BY <2>2, AgreeSubset
  <2> QED BY <1>1, <2>1, <2>3 DEF Consistent, RowsExplained
<1> QED BY <1>1, <1>2 DEF Unrefuted

\* Dispatching an atom that its support explains keeps the rows explained, and
\* explains the clash it may cause.
LEMMA DispatchExplains ==
    ASSUME NEW n, NEW f, NEW g, NEW w, NEW a \in Atoms, NEW d, NEW ff, NEW gg, NEW cc,
           DispatchResult(n, f, g, w, a, d, ff, gg, cc),
           NEW bs, NEW M, Consistent(M), RowsExplained(bs, M, f),
           Agree(bs, M, d) => a \in M
    PROVE  RowsExplained(bs, M, ff) /\ ClashExplained(bs, M, cc)
<1>1. RowsExplained(bs, M, ff)
  BY DEF DispatchResult, RowsExplained
<1>2. ASSUME NEW x \in cc, Agree(bs, M, x) PROVE FALSE
  <2>1. /\ Opposite[a] \in Atoms
        /\ \E r \in f[Opposite[a]] : x = d \cup r
    BY DEF DispatchResult
  <2>2. PICK r \in f[Opposite[a]] : x = d \cup r
    BY <2>1
  <2>3. Agree(bs, M, d) /\ Agree(bs, M, r)
    BY <1>2, <2>2 DEF Agree
  <2> QED BY <2>1, <2>2, <2>3 DEF Consistent, RowsExplained
<1> QED BY <1>1, <1>2 DEF ClashExplained

-----------------------------------------------------------------------------
(* Every step keeps the explanations. *)

\* A model of the program is consistent.
LEMMA ModelFacts ==
    ASSUME NEW M \in Models
    PROVE  /\ Consistent(M)
           /\ \A c \in program : c.body \subseteq M => c.head \cap M # {}
BY DEF Models, IsModel, Consistent

\* The program, and so its models, never change.
LEMMA ModelsUnchanged ==
    ASSUME program' = program PROVE Models' = Models
BY DEF Models, IsModel

\* Nothing is to be explained when the search starts.
LEMMA ExplainInit == Init => ExplainInv
BY SMT DEF Init, ExplainInv, Explained, RowsExplained, ClashExplained

\* A step that leaves the branching points alone.
LEMMA ExplainStep ==
    ASSUME ExplainInv, UNCHANGED <<program, branches>>,
           \A M \in Models : /\ Explained(branches, M, facts', disjs')
                             /\ ClashExplained(branches, M, clash')
    PROVE  ExplainInv'
<1>1. Models' = Models
  BY ModelsUnchanged
<1> QED BY <1>1 DEF ExplainInv

\* A match derives rows, disjunctions and clashes that its dependencies explain.
LEMMA ExplainApplyMatch ==
    ASSUME LevelInv, ExplainInv, NEW c \in program, ApplyMatch(c)
    PROVE  ExplainInv'
<1> DEFINE n == Len(branches)
<1>1. /\ n \in Nat /\ facts \in Store /\ Below(facts, n)
      /\ c \in Clauses /\ c.head \in SUBSET Atoms /\ c.body \in SUBSET Atoms
      /\ \A a \in c.body : facts[a] # {}
      /\ UNCHANGED <<program, branches>>
      /\ clash = {}
  BY LevelInvBelow, TodoFacts DEF ApplyMatch, config, Running
<1> SUFFICES ASSUME NEW M \in Models
             PROVE  /\ Explained(branches, M, facts', disjs')
                    /\ ClashExplained(branches, M, clash')
  BY <1>1, ExplainStep
<1>2. /\ Explained(branches, M, facts, disjs)
      /\ Consistent(M)
      /\ c.body \subseteq M => c.head \cap M # {}
  BY ModelFacts DEF ExplainInv
<1>3. RowsExplained(branches, M, facts)
  BY <1>2 DEF Explained
<1>4. ASSUME NEW d \in HeadDependencies(c), Agree(branches, M, d)
      PROVE  Unrefuted(facts, c.head) \cap M # {}
  <2>1. /\ RefutationDependencies(facts, c.head) \subseteq d
        /\ \A a \in c.body : \E e \in facts[a] : e \subseteq d
    BY <1>1, HeadFacts
  <2>2. c.body \subseteq M
    <3> SUFFICES ASSUME NEW a \in c.body PROVE a \in M
      OBVIOUS
    <3>1. PICK e \in facts[a] : e \subseteq d
      BY <2>1
    <3>2. Agree(branches, M, e)
      BY <1>4, <3>1, AgreeSubset
    <3> QED BY <1>1, <1>3, <3>1, <3>2 DEF RowsExplained
  <2>3. Agree(branches, M, RefutationDependencies(facts, c.head))
    BY <1>4, <2>1, AgreeSubset
  <2> QED BY <1>1, <1>2, <1>3, <2>2, <2>3, RefutationsExplain
<1>5. CASE HeadSatisfied(c)
  BY <1>1, <1>2, <1>5 DEF HeadSatisfied, ClashExplained
<1>6. CASE HeadEmpty(c)
  <2>1. LeastBits(HeadDependencies(c)) \in HeadDependencies(c)
    BY <1>1, HeadFacts
  <2>2. ~Agree(branches, M, LeastBits(HeadDependencies(c)))
    BY <1>4, <1>6, <2>1 DEF HeadEmpty
  <2> QED BY <1>2, <1>6, <2>2 DEF HeadEmpty, ClashExplained
<1>7. CASE HeadUnit(c)
  <2> DEFINE d == LeastBits(HeadDependencies(c))
  <2>1. d \in HeadDependencies(c) /\ d \in SUBSET Nat
    <3>1. d \in HeadDependencies(c) /\ d \subseteq 1..n
      BY <1>1, HeadFacts
    <3> QED BY <1>1, <3>1, SMT
  <2>2. PICK a \in c.head : /\ Unrefuted(facts, c.head) = {a}
                            /\ facts' = WithRow(facts, a, d)
                            /\ gen' = WithGeneration(facts, gen, write, a)
                            /\ clash' = ClashOf(facts, a, d)
    BY <1>7 DEF HeadUnit, Dispatch
  <2>3. a \in Atoms /\ (Agree(branches, M, d) => a \in M)
    BY <1>1, <1>4, <2>1, <2>2
  <2> HIDE DEF d, n
  <2>4. DispatchResult(n, facts, gen, write, a, d, facts', gen', clash')
    <3>1. gen \in [Atoms -> Nat] /\ write \in Nat
      BY DEF LevelInv, TypeOK
    <3> QED BY <1>1, <2>1, <2>2, <2>3, <3>1, DispatchFacts
  <2>5. RowsExplained(branches, M, facts') /\ ClashExplained(branches, M, clash')
    BY <1>2, <1>3, <2>3, <2>4, DispatchExplains
  <2> QED BY <1>2, <1>7, <2>5 DEF HeadUnit, Explained
<1>8. CASE HeadDisjunctive(c)
  <2> DEFINE H == Unrefuted(facts, c.head)
             d == LeastRank(HeadDependencies(c))
  <2>1. d \in HeadDependencies(c) /\ d \in SUBSET Nat
    <3>1. d \in HeadDependencies(c) /\ d \subseteq 1..n
      BY <1>1, HeadFacts
    <3> QED BY <1>1, <3>1, SMT
  <2>2. H \in SUBSET Atoms /\ (Agree(branches, M, d) => H \cap M # {})
    BY <1>1, <1>4, <2>1 DEF Unrefuted
  <2>3. disjs' = WithDisjunction(disjs, H, d) /\ disjs \in Seq(Disjunction)
    BY <1>8 DEF HeadDisjunctive, LevelInv, TypeOK
  <2> HIDE DEF H, d
  <2>4. InstallResult(disjs, H, d, disjs')
    BY <2>1, <2>2, <2>3, InstallFacts
  <2>5. \A i \in DOMAIN disjs' :
           Agree(branches, M, disjs'[i].base) => disjs'[i].atoms \cap M # {}
    BY <1>2, <2>2, <2>4 DEF InstallResult, Explained
  <2> QED BY <1>1, <1>3, <1>8, <2>5 DEF HeadDisjunctive, Explained, ClashExplained
<1> QED BY <1>5, <1>6, <1>7, <1>8 DEF ApplyMatch

\* Processing a ground disjunction keeps everything explained.
LEMMA ExplainProcess ==
    ASSUME LevelInv, ExplainInv, ProcessDisjunction
    PROVE  ExplainInv'
<1> DEFINE n == Len(branches)
<1>1. PICK i \in DOMAIN disjs :
         /\ Taking(i)
         /\ \/ DisjunctionSatisfied(i)
            \/ DisjunctionEmpty(i)
            \/ DisjunctionUnit(i)
            \/ PushBranch(i)
  BY DEF ProcessDisjunction, Taking
<1>2. /\ n \in Nat /\ facts \in Store /\ Below(facts, n)
      /\ disjs[i].atoms \in SUBSET Atoms
      /\ TakeResult(disjs, i, disjs')
      /\ Combined(i) \in SUBSET (1..n)
      /\ DependsBelow(facts, disjs, n)
  BY <1>1, LevelInvBelow, TakenFacts DEF Taking, LevelInv, LevelsLive
<1>3. program' = program /\ Models' = Models /\ clash = {}
  BY ModelsUnchanged DEF ProcessDisjunction, config, Saturated, Running
<1>4. ASSUME NEW M \in Models
      PROVE  /\ Consistent(M)
             /\ Explained(branches, M, facts, disjs')
             /\ RowsExplained(branches, M, facts)
             /\ Agree(branches, M, Combined(i))
                   => Unrefuted(facts, disjs[i].atoms) \cap M # {}
  <2>1. Consistent(M) /\ Explained(branches, M, facts, disjs)
    BY ModelFacts DEF ExplainInv
  <2>2. RowsExplained(branches, M, facts) /\ Explained(branches, M, facts, disjs')
    BY <1>2, <2>1 DEF Explained, TakeResult
  <2>3. ASSUME Agree(branches, M, Combined(i))
        PROVE  Unrefuted(facts, disjs[i].atoms) \cap M # {}
    <3>1. /\ Agree(branches, M, disjs[i].base)
          /\ Agree(branches, M, RefutationDependencies(facts, disjs[i].atoms))
      BY <2>3 DEF Combined, Agree
    <3>2. disjs[i].atoms \cap M # {}
      BY <2>1, <3>1 DEF Explained
    <3> QED BY <1>2, <2>1, <2>2, <3>1, <3>2, RefutationsExplain
  <2> QED BY <2>1, <2>2, <2>3
<1>5. CASE DisjunctionSatisfied(i)
  BY <1>3, <1>4, <1>5, ExplainStep DEF DisjunctionSatisfied, ClashExplained
<1>6. CASE DisjunctionEmpty(i)
  <2>1. \A M \in Models : /\ Explained(branches, M, facts', disjs')
                          /\ ClashExplained(branches, M, clash')
    BY <1>4, <1>6 DEF DisjunctionEmpty, ClashExplained
  <2> QED BY <1>3, <1>6, <2>1, ExplainStep DEF DisjunctionEmpty
<1>7. CASE DisjunctionUnit(i)
  <2>1. PICK a \in disjs[i].atoms :
           /\ Unrefuted(facts, disjs[i].atoms) = {a}
           /\ DispatchResult(n, facts, gen, write', a, Combined(i), facts', gen', clash')
    BY <1>1, <1>7, UnitShape
  <2>2. ASSUME NEW M \in Models
        PROVE  /\ Explained(branches, M, facts', disjs')
               /\ ClashExplained(branches, M, clash')
    <3>1. a \in Atoms /\ (Agree(branches, M, Combined(i)) => a \in M)
      BY <1>2, <1>4, <2>1
    <3>2. RowsExplained(branches, M, facts') /\ ClashExplained(branches, M, clash')
      BY <1>4, <2>1, <3>1, DispatchExplains
    <3> QED BY <1>4, <3>2 DEF Explained
  <2> QED BY <1>3, <1>7, <2>2, ExplainStep DEF DisjunctionUnit
<1>8. CASE PushBranch(i)
  <2>1. PICK b \in Branch : Pushed(i, b)
    BY <1>1, <1>8, PushShape
  <2>2. ASSUME NEW M \in Models
        PROVE  /\ Explained(branches', M, facts', disjs')
               /\ ClashExplained(branches', M, clash')
               /\ \A l \in 1..(n + 1) : BranchExplained(branches', M, branches'[l])
    <3> DEFINE a == Current(b)
               d == Combined(i) \cup {n + 1}
    <3>1. /\ \A l \in 1..n : branches[l] = branches'[l]
          /\ branches'[n + 1] = b
          /\ Len(branches') = n + 1
          /\ BranchLive(b, n + 1)
          /\ a \in Atoms
          /\ DispatchResult(n, facts, gen, write', a, d, facts', gen', clash')
      BY <2>1 DEF Pushed, Branch
    <3>2. Explained(branches', M, facts, disjs')
      <4>1. DependsBelow(facts, disjs', n)
        BY <1>2 DEF DependsBelow, TakeResult
      <4> QED BY <1>2, <1>4, <3>1, <4>1, ExplainedCut
    <3>3. Agree(branches', M, d) => a \in M
      BY <3>1 DEF Agree
    <3> HIDE DEF a, d
    <3>4. RowsExplained(branches', M, facts') /\ ClashExplained(branches', M, clash')
      <4>1. Consistent(M) /\ RowsExplained(branches', M, facts)
        BY <1>4, <3>2 DEF Explained
      <4> QED BY <3>1, <3>3, <4>1, DispatchExplains
    <3>5. BranchExplained(branches', M, b)
      <4>1. /\ b.saved.facts = facts /\ b.saved.disjs = disjs'
            /\ b.base \cup b.learned = Combined(i)
            /\ b.remaining = Unrefuted(facts, disjs[i].atoms)
        BY <2>1, SMT DEF Pushed
      <4>2. Agree(branches', M, Combined(i)) => Agree(branches, M, Combined(i))
        BY <1>2, <3>1, AgreeCut
      <4> QED BY <1>4, <3>2, <4>1, <4>2 DEF BranchExplained
    <3>6. ASSUME NEW l \in 1..n PROVE BranchExplained(branches', M, branches'[l])
      <4>1. l \in Nat \ {0} /\ l \in DOMAIN branches
        BY <1>2, SMT DEF LevelInv, TypeOK
      <4>2. BranchLive(branches[l], l) /\ BranchExplained(branches, M, branches[l])
        BY <4>1 DEF LevelInv, LevelsLive, ExplainInv
      <4>3. \A k \in 1..(l - 1) : branches[k] = branches'[k]
        BY <1>2, <3>1, SMTT(30)
      <4>4. BranchExplained(branches', M, branches[l])
        BY <4>1, <4>2, <4>3, BranchExplainedCut
      <4> QED BY <3>1, <4>4
    <3>7. \A l \in 1..(n + 1) : l = n + 1 \/ l \in 1..n
      BY <1>2, SMT
    <3> QED BY <3>1, <3>2, <3>4, <3>5, <3>6, <3>7 DEF Explained
  <2>3. DOMAIN branches' = 1..(n + 1)
    BY <2>1, SMT DEF Pushed
  <2> QED BY <1>3, <2>2, <2>3 DEF ExplainInv
<1> QED BY <1>1, <1>5, <1>6, <1>7, <1>8

\* Backjumping, learning and exhausting a branch keep everything explained.
LEMMA ExplainResolve ==
    ASSUME LevelInv, ExplainInv, ResolveClash
    PROVE  ExplainInv'
<1>1. PICK d \in clash, t \in 1..Len(branches), b \in Branch : Resolved(d, t, b)
  BY ResolveShape
<1>2. Models' = Models
  BY ModelsUnchanged DEF ResolveClash, config
<1>3. /\ t \in Nat \ {0} /\ t - 1 \in Nat
      /\ t \in DOMAIN branches
      /\ BranchLive(branches[t], t)
  BY SMT DEF LevelInv, TypeOK, LevelsLive
<1>4. \A l \in 1..(t - 1) : branches[l] = branches'[l]
  BY <1>1 DEF Resolved
<1>5. ASSUME NEW M \in Models
      PROVE  /\ Explained(branches', M, b.saved.facts, b.saved.disjs)
             /\ Agree(branches', M, b.base \cup b.learned) => b.remaining \cap M # {}
             /\ \A l \in 1..(t - 1) : BranchExplained(branches', M, branches'[l])
  <2>1. BranchExplained(branches, M, branches[t]) /\ ~Agree(branches, M, d)
    BY <1>3 DEF ExplainInv, ClashExplained
  <2>2. Explained(branches', M, b.saved.facts, b.saved.disjs)
    <3> DEFINE m == t - 1
    <3>1. /\ DependsBelow(b.saved.facts, b.saved.disjs, m)
          /\ Explained(branches, M, b.saved.facts, b.saved.disjs)
      BY <1>1, <1>3, <2>1 DEF BranchLive, BranchExplained, Resolved
    <3>2. m \in Nat /\ \A l \in 1..m : branches[l] = branches'[l]
      BY <1>3, <1>4
    <3> HIDE DEF m
    <3> QED BY <3>1, <3>2, ExplainedCut
  <2>3. ASSUME Agree(branches', M, b.base \cup b.learned)
        PROVE  b.remaining \cap M # {}
    <3>1. /\ b.base \cup b.learned = branches[t].base \cup branches[t].learned \cup (d \ {t})
          /\ b.remaining = branches[t].remaining \ {Current(branches[t])}
      BY <1>1 DEF Resolved
    <3>2. b.base \cup b.learned \subseteq 1..(t - 1)
      BY <1>1, <1>3 DEF BranchLive, Resolved
    <3>3. Agree(branches, M, b.base \cup b.learned)
      BY <1>4, <2>3, <3>2 DEF Agree
    <3>4. /\ Agree(branches, M, branches[t].base \cup branches[t].learned)
          /\ Agree(branches, M, d \ {t})
      BY <3>1, <3>3 DEF Agree
    <3>5. Current(branches[t]) \notin M
      BY <2>1, <3>4 DEF Agree
    <3>6. branches[t].remaining \cap M # {}
      BY <2>1, <3>4 DEF BranchExplained
    <3> QED BY <3>1, <3>5, <3>6
  <2>4. ASSUME NEW l \in 1..(t - 1) PROVE BranchExplained(branches', M, branches'[l])
    <3>1. l \in Nat \ {0} /\ l \in DOMAIN branches
      BY <1>3, SMT DEF LevelInv, TypeOK
    <3>2. BranchLive(branches[l], l) /\ BranchExplained(branches, M, branches[l])
      BY <3>1 DEF LevelInv, LevelsLive, ExplainInv
    <3>3. \A k \in 1..(l - 1) : branches[k] = branches'[k]
      BY <1>3, <1>4, SMTT(30)
    <3>4. BranchExplained(branches', M, branches[l])
      BY <3>1, <3>2, <3>3, BranchExplainedCut
    <3> QED BY <1>4, <3>4
  <2> QED BY <2>2, <2>3, <2>4
<1>6. CASE AdvancedTo(t, b)
  <2>1. DOMAIN branches' = 1..t /\ branches'[t] = b /\ Current(b) \in Atoms
    BY <1>1, <1>6, SMT DEF AdvancedTo, Resolved, Branch
  <2> DEFINE a == Current(b)
             e == b.base \cup {t}
             m == t - 1
  <2>2. DispatchResult(m, b.saved.facts, b.saved.gen, b.saved.write, a, e,
                       facts', gen', clash')
    BY <1>6 DEF AdvancedTo
  <2>3. ASSUME NEW M \in Models
        PROVE  /\ Explained(branches', M, facts', disjs')
               /\ ClashExplained(branches', M, clash')
    <3>1. Agree(branches', M, e) => a \in M
      BY <2>1 DEF Agree
    <3>2. Consistent(M) /\ RowsExplained(branches', M, b.saved.facts)
      BY <1>5, ModelFacts DEF Explained
    <3>3. a \in Atoms
      BY <2>1
    <3> HIDE DEF a, e, m
    <3>4. RowsExplained(branches', M, facts') /\ ClashExplained(branches', M, clash')
      BY <2>2, <3>1, <3>2, <3>3, DispatchExplains, SMTT(30)
    <3> QED BY <1>1, <1>5, <3>4 DEF Explained, Resolved
  <2>4. ASSUME NEW M \in Models, NEW l \in 1..t
        PROVE  BranchExplained(branches', M, branches'[l])
    <3>1. CASE l = t
      BY <1>5, <2>1, <3>1 DEF BranchExplained
    <3>2. CASE l # t
      <4>1. l \in 1..(t - 1)
        BY <1>3, <3>2, SMT
      <4> QED BY <1>5, <4>1
    <3> QED BY <3>1, <3>2
  <2> QED BY <1>2, <2>1, <2>3, <2>4 DEF ExplainInv
<1>7. CASE GivenUp(t, b)
  <2>1. /\ DOMAIN branches' = 1..(t - 1)
        /\ facts' = b.saved.facts /\ disjs' = b.saved.disjs
        /\ b.remaining = {}
        /\ clash' = {b.base \cup b.learned}
    BY <1>1, <1>7, SMT DEF GivenUp, Resolved
  <2> QED BY <1>2, <1>5, <2>1 DEF ExplainInv, ClashExplained
<1> QED BY <1>1, <1>6, <1>7 DEF Resolved

\* The step that proves DependenciesExplain inductive.
LEMMA ExplainNext == LevelInv /\ ExplainInv /\ [Next]_vars => ExplainInv'
<1> SUFFICES ASSUME LevelInv, ExplainInv, [Next]_vars PROVE ExplainInv'
  OBVIOUS
<1>1. CASE UNCHANGED <<program, facts, disjs, clash, branches>>
  BY <1>1, ModelsUnchanged DEF ExplainInv
<1>2. ASSUME NEW c \in program, ApplyMatch(c) PROVE ExplainInv'
  BY <1>2, ExplainApplyMatch
<1>3. CASE ProcessDisjunction
  BY <1>3, ExplainProcess
<1>4. CASE ResolveClash
  BY <1>4, ExplainResolve
<1>5. CASE ApplyNextDelta \/ CompleteSat \/ CompleteUnsat \/ UNCHANGED vars
  BY <1>1, <1>5 DEF ApplyNextDelta, CompleteSat, CompleteUnsat, config, trailed, vars
<1> QED BY <1>2, <1>3, <1>4, <1>5 DEF Next, Done

\* In every reachable state dependency sets explain rows, disjunctions, clashes
\* and given-up alternatives: backjumping and learning in _resolve_clash never
\* discard a satisfiable choice.
THEOREM SearchExplains == Spec => []DependenciesExplain
<1>1. Init => LevelInv /\ ExplainInv
  BY LevelInvInit, ExplainInit
<1>2. LevelInv /\ ExplainInv /\ [Next]_vars => (LevelInv /\ ExplainInv)'
  BY LevelInvNext, ExplainNext
<1>3. ExplainInv => DependenciesExplain
  BY DEF ExplainInv, Explained, RowsExplained, ClashExplained, BranchExplained,
         Agree, Agrees, DependenciesExplain
<1> QED BY <1>1, <1>2, <1>3, PTL DEF Spec

\* Tableau.run answers "unsat" only for a program without a model.
UnsatCorrect == answer = "unsat" => Models = {}

\* A refutation is never wrong, whatever the clauses and the learning flag.
THEOREM UnsatIsRight == Spec => []UnsatCorrect
<1> DEFINE Inv == LevelInv /\ ExplainInv /\ UnsatCorrect
<1>1. Init => Inv
  BY LevelInvInit, ExplainInit DEF Init, UnsatCorrect
<1>2. Inv /\ [Next]_vars => Inv'
  <2> SUFFICES ASSUME Inv, [Next]_vars PROVE UnsatCorrect'
    BY LevelInvNext, ExplainNext
  <2>1. CASE UNCHANGED <<program, answer>>
    BY <2>1, ModelsUnchanged DEF UnsatCorrect
  <2>2. CASE CompleteUnsat
    <3>1. clash = {{}} /\ program' = program
      BY <2>2 DEF CompleteUnsat, Clashed, config
    <3>2. \A M \in Models : ~Agree(branches, M, {})
      BY <3>1 DEF ExplainInv, ClashExplained
    <3>3. Models = {}
      BY <3>2 DEF Agree
    <3> QED BY <3>1, <3>3, ModelsUnchanged DEF UnsatCorrect
  <2>3. CASE CompleteSat
    BY <2>3 DEF CompleteSat, UnsatCorrect
  <2>4. CASE \/ ApplyNextDelta \/ (\E c \in program : ApplyMatch(c))
             \/ ProcessDisjunction \/ ResolveClash \/ UNCHANGED vars
    BY <2>1, <2>4 DEF ApplyNextDelta, ApplyMatch, ProcessDisjunction, ResolveClash,
                      config, vars
  <2> QED BY <2>2, <2>3, <2>4 DEF Next, Done
<1> QED BY <1>1, <1>2, PTL DEF Spec

-----------------------------------------------------------------------------
(* The inductive invariant.  Rows of a generation below w have been read.   *)

\* The head is satisfied or a recorded disjunction is part of it.
Covered(f, D, H) ==
    \/ Satisfied(f, H)
    \/ \E i \in DOMAIN D : D[i].atoms \subseteq H

\* Every clause instance whose premises have been read has been applied.
Settled(p, f, g, w, td, D) ==
    \A c \in p \ td :
        (\A a \in c.body : f[a] # {} /\ g[a] < w) => Covered(f, D, c.head)

RowsDated(f, g, w) == \A a \in Atoms : f[a] # {} => g[a] <= w

RowsConsistent(f) == \A a \in Atoms : f[a] # {} => ~Refuted(f, a)

\* A processed disjunction outside S holds.
Handled(f, D, S) ==
    \A i \in DOMAIN D \ S : D[i].processed => Satisfied(f, D[i].atoms)

Closed(p, f, g, w, td, D, S) ==
    /\ Settled(p, f, g, w, td, D)
    /\ RowsDated(f, g, w)
    /\ RowsConsistent(f)
    /\ Handled(f, D, S)

\* What a branching point saves is closed but for its own disjunction.
SavedClosed(p, b) ==
    Closed(p, b.saved.facts, b.saved.gen, b.saved.write, {}, b.saved.disjs, {b.source})

CloseInv ==
    /\ clash = {} => Closed(program, facts, gen, write, todo, disjs, {})
    /\ \A l \in DOMAIN branches : SavedClosed(program, branches[l])

-----------------------------------------------------------------------------
\* A row that was not refuted keeps the rows consistent.
LEMMA DispatchConsistent ==
    ASSUME NEW n, NEW f, NEW g, NEW w, NEW a \in Atoms, NEW d,
           NEW ff, NEW gg, DispatchResult(n, f, g, w, a, d, ff, gg, {}),
           RowsConsistent(f)
    PROVE  RowsConsistent(ff)
<1> SUFFICES ASSUME NEW x \in Atoms, ff[x] # {}, Refuted(ff, x) PROVE FALSE
  BY DEF RowsConsistent
<1>1. /\ \A b \in Atoms : ff[b] # {} => f[b] # {} \/ b = a
      /\ ~Refuted(f, a)
  BY DEF DispatchResult
<1>2. Opposite[x] \in Atoms /\ ff[Opposite[x]] # {}
  BY DEF Refuted, Supports
<1>3. Opposite[x] # 0 /\ Opposite[x] # x /\ Opposite[Opposite[x]] = x
  BY <1>2, AtomsAssumption, OppositeAssumption
<1>4. CASE x = a
  BY <1>1, <1>2, <1>3, <1>4 DEF Refuted, Supports
<1>5. CASE x # a /\ Opposite[x] = a
  BY <1>1, <1>3, <1>5 DEF Refuted, Supports
<1>6. CASE x # a /\ Opposite[x] # a
  BY <1>1, <1>2, <1>6 DEF RowsConsistent, Refuted, Supports
<1> QED BY <1>4, <1>5, <1>6

\* Dispatching a disjunct of the pending disjunctions S without a clash leaves
\* everything closed: the new row belongs to a generation not read yet.
LEMMA DispatchCloses ==
    ASSUME NEW n, NEW f, NEW g, NEW w \in Nat, NEW a \in Atoms, NEW d,
           NEW ff, NEW gg, DispatchResult(n, f, g, w, a, d, ff, gg, {}),
           NEW p \in SUBSET Clauses, NEW td, NEW D \in Seq(Disjunction), NEW S,
           \A i \in DOMAIN D : i \in S => a \in D[i].atoms,
           Closed(p, f, g, w, td, D, S)
    PROVE  Closed(p, ff, gg, w, td, D, {})
<1>1. /\ ff[a] # {}
      /\ \A b \in Atoms : f[b] # {} => ff[b] # {} /\ gg[b] = g[b]
      /\ \A b \in Atoms : f[b] = {} /\ ff[b] # {} => b = a /\ gg[b] = w
  BY DEF DispatchResult
<1>2. \A H \in SUBSET Atoms : Satisfied(f, H) => Satisfied(ff, H)
  BY <1>1 DEF Satisfied
<1>3. Settled(p, ff, gg, w, td, D)
  <2> SUFFICES ASSUME NEW c \in p \ td,
                      \A x \in c.body : ff[x] # {} /\ gg[x] < w
               PROVE  Covered(ff, D, c.head)
    BY DEF Settled
  <2>1. c.body \subseteq Atoms /\ c.head \in SUBSET Atoms
    BY ClausesAssumption
  <2>2. ASSUME NEW x \in c.body PROVE f[x] # {} /\ g[x] < w
    <3>1. gg[x] # w
      BY <2>2, SMT
    <3> QED BY <1>1, <2>1, <2>2, <3>1, ZenonT(30)
  <2>3. Covered(f, D, c.head)
    BY <2>2 DEF Closed, Settled
  <2> QED BY <1>2, <2>1, <2>3 DEF Covered
<1>4. RowsDated(ff, gg, w)
  BY <1>1, SMT DEF Closed, RowsDated
<1>5. RowsConsistent(ff)
  BY DispatchConsistent DEF Closed
<1>6. Handled(ff, D, {})
  <2> SUFFICES ASSUME NEW i \in DOMAIN D, D[i].processed
               PROVE  Satisfied(ff, D[i].atoms)
    BY DEF Handled
  <2>1. D[i].atoms \in SUBSET Atoms
    <3>1. D[i] \in Disjunction
      BY SMT
    <3> QED BY <3>1 DEF Disjunction
  <2>2. CASE i \in S
    BY <1>1, <2>2 DEF Satisfied
  <2>3. CASE i \notin S
    BY <1>2, <2>1, <2>3 DEF Closed, Handled
  <2> QED BY <2>2, <2>3
<1> QED BY <1>3, <1>4, <1>5, <1>6 DEF Closed

-----------------------------------------------------------------------------
(* Every step keeps the state closed. *)

\* Both cases of prepare_next_delta read the generation written last.
LEMMA NextReadIsWrite == NextRead = write
BY DEF NextRead

\* Before the first generation only the clauses without premises can apply.
LEMMA CloseInit == Init => CloseInv
<1> SUFFICES ASSUME Init PROVE CloseInv
  OBVIOUS
<1>1. Settled(program, facts, gen, write, todo, disjs)
  <2> SUFFICES ASSUME NEW c \in program \ todo,
                      \A a \in c.body : facts[a] # {}
               PROVE  FALSE
    BY DEF Settled
  <2>1. c.body # {} /\ c.body \subseteq Atoms
    BY ClausesAssumption DEF Init
  <2> QED BY <2>1 DEF Init
<1>2. RowsDated(facts, gen, write) /\ RowsConsistent(facts) /\ Handled(facts, disjs, {})
  BY SMT DEF Init, RowsDated, RowsConsistent, Handled
<1> QED BY <1>1, <1>2, SMTT(30) DEF Init, CloseInv, Closed

\* The next generation is triggered by exactly the instances with a new
\* premise; the others have been applied.
LEMMA CloseApplyNextDelta ==
    ASSUME LevelInv, CloseInv, ApplyNextDelta PROVE CloseInv'
<1>1. /\ UNCHANGED <<program, facts, gen, disjs, clash, branches>>
      /\ write' = write + 1 /\ write \in Nat /\ gen \in [Atoms -> Nat]
      /\ todo = {} /\ clash = {}
      /\ todo' = {c \in program : Triggered(c, write)}
  BY NextReadIsWrite DEF ApplyNextDelta, PrepareNextDelta, Running, config, LevelInv, TypeOK
<1>2. Closed(program, facts, gen, write, {}, disjs, {})
  BY <1>1 DEF CloseInv
<1>3. Settled(program, facts, gen, write', todo', disjs)
  <2> SUFFICES ASSUME NEW c \in program \ todo',
                      \A a \in c.body : facts[a] # {} /\ gen[a] < write'
               PROVE  Covered(facts, disjs, c.head)
    BY DEF Settled
  <2>1. c.body \subseteq Atoms
    BY ClausesAssumption DEF LevelInv, TypeOK
  <2>2. \A a \in c.body : gen[a] \in Nat /\ gen[a] <= write
    BY <1>1, <2>1, SMTT(30)
  <2>3. \A a \in c.body : gen[a] # write
    BY <1>1, <2>2 DEF Triggered
  <2>4. \A a \in c.body : facts[a] # {} /\ gen[a] < write
    BY <1>1, <2>2, <2>3, SMTT(30)
  <2> QED BY <1>2, <2>4 DEF Closed, Settled
<1>4. RowsDated(facts, gen, write')
  BY <1>1, <1>2, SMTT(30) DEF Closed, RowsDated
<1> QED BY <1>1, <1>2, <1>3, <1>4 DEF CloseInv, Closed

\* Applying a clause covers its head.
LEMMA CloseApplyMatch ==
    ASSUME LevelInv, CloseInv, NEW c \in program, ApplyMatch(c) PROVE CloseInv'
<1>1. /\ UNCHANGED <<program, write, branches>> /\ clash = {}
      /\ Closed(program, facts, gen, write, todo, disjs, {})
      /\ program \in SUBSET Clauses /\ write \in Nat /\ gen \in [Atoms -> Nat]
      /\ disjs \in Seq(Disjunction)
  BY DEF ApplyMatch, Running, config, CloseInv, LevelInv, TypeOK
<1>2. /\ Len(branches) \in Nat /\ facts \in Store /\ Below(facts, Len(branches))
      /\ c \in Clauses /\ c.head \in SUBSET Atoms
      /\ \A a \in c.body : facts[a] # {}
  BY LevelInvBelow, TodoFacts DEF ApplyMatch
<1> SUFFICES ASSUME clash' = {}
             PROVE  Closed(program, facts', gen', write, todo', disjs', {})
  BY <1>1 DEF CloseInv
<1>3. CASE HeadSatisfied(c)
  BY <1>1, <1>3 DEF HeadSatisfied, Closed, Settled, Covered
<1>4. CASE HeadEmpty(c)
  BY <1>4 DEF HeadEmpty
<1>5. CASE HeadUnit(c)
  <2> DEFINE d == LeastBits(HeadDependencies(c))
             n == Len(branches)
  <2>1. d \in SUBSET Nat
    <3>1. d \subseteq 1..n
      BY <1>2, HeadFacts
    <3> QED BY <1>2, <3>1, SMTT(30)
  <2>2. PICK a \in c.head : /\ facts' = WithRow(facts, a, d)
                            /\ gen' = WithGeneration(facts, gen, write, a)
                            /\ clash' = ClashOf(facts, a, d)
    BY <1>5 DEF HeadUnit, Dispatch
  <2>3. a \in Atoms /\ n \in Nat /\ Below(facts, n)
    BY <1>2
  <2> HIDE DEF d, n
  <2>4. DispatchResult(n, facts, gen, write, a, d, facts', gen', clash')
    <3>1. DispatchResult(n, facts, gen, write, a, d, WithRow(facts, a, d),
                         WithGeneration(facts, gen, write, a), ClashOf(facts, a, d))
      BY <1>1, <1>2, <2>1, <2>3, DispatchFacts, ZenonT(30)
    <3> QED BY <2>2, <3>1
  <2>5. DispatchResult(n, facts, gen, write, a, d, facts', gen', {})
    BY <2>4
  <2>6. Closed(program, facts', gen', write, todo, disjs, {})
    BY <1>1, <2>3, <2>5, DispatchCloses, SMTT(30)
  <2>7. Satisfied(facts', c.head)
    BY <2>4 DEF DispatchResult, Satisfied
  <2>8. disjs' = disjs /\ todo' = todo \ {c}
    BY <1>5 DEF HeadUnit
  <2> QED BY <2>6, <2>7, <2>8 DEF Closed, Settled, Covered
<1>6. CASE HeadDisjunctive(c)
  <2> DEFINE H == Unrefuted(facts, c.head)
             d == LeastRank(HeadDependencies(c))
  <2>1. d \in SUBSET Nat
    <3>1. d \subseteq 1..Len(branches)
      BY <1>2, HeadFacts
    <3> QED BY <1>2, <3>1, SMT
  <2>2. H \in SUBSET Atoms /\ H \subseteq c.head
    BY <1>2 DEF Unrefuted
  <2>3. disjs' = WithDisjunction(disjs, H, d)
    BY <1>6 DEF HeadDisjunctive
  <2> HIDE DEF H, d
  <2>4. InstallResult(disjs, H, d, disjs')
    BY <1>1, <2>1, <2>2, <2>3, InstallFacts
  <2>5. /\ DOMAIN disjs \subseteq DOMAIN disjs'
        /\ \A i \in DOMAIN disjs : /\ disjs'[i].atoms = disjs[i].atoms
                                   /\ disjs'[i].processed = disjs[i].processed
        /\ \A i \in DOMAIN disjs' \ DOMAIN disjs : ~disjs'[i].processed
        /\ \E i \in DOMAIN disjs' : disjs'[i].atoms = H
    BY <2>4 DEF InstallResult
  <2>6. UNCHANGED <<facts, gen>> /\ todo' = todo \ {c}
    BY <1>6 DEF HeadDisjunctive
  <2>7. Handled(facts, disjs', {})
    BY <1>1, <2>5 DEF Closed, Handled
  <2>8. \A K : Covered(facts, disjs, K) => Covered(facts, disjs', K)
    BY <2>5 DEF Covered
  <2>9. Covered(facts, disjs', c.head)
    BY <2>2, <2>5 DEF Covered
  <2>10. Settled(program, facts, gen, write, todo', disjs')
    BY <1>1, <2>6, <2>8, <2>9 DEF Closed, Settled
  <2> QED BY <1>1, <2>6, <2>7, <2>10 DEF Closed
<1> QED BY <1>3, <1>4, <1>5, <1>6 DEF ApplyMatch

\* After an empty generation, taking a disjunction leaves the state closed but
\* for that disjunction.
LEMMA CloseTaken ==
    ASSUME LevelInv, CloseInv, NEW i, Saturated, Taking(i)
    PROVE  Closed(program, facts, gen, write', {}, disjs', {i})
<1>1. /\ write' = write + 1 /\ write \in Nat /\ gen \in [Atoms -> Nat]
      /\ Closed(program, facts, gen, write, {}, disjs, {})
      /\ \A a \in Atoms : facts[a] # {} => gen[a] # write
      /\ program \in SUBSET Clauses
  BY NextReadIsWrite
     DEF Taking, PrepareNextDelta, Saturated, Running, NewRows, CloseInv, LevelInv, TypeOK
<1>2. TakeResult(disjs, i, disjs')
  BY TakenFacts DEF Taking
<1>3. Settled(program, facts, gen, write', {}, disjs')
  <2> SUFFICES ASSUME NEW c \in program,
                      \A a \in c.body : facts[a] # {} /\ gen[a] < write'
               PROVE  Covered(facts, disjs', c.head)
    BY DEF Settled
  <2>1. c.body \subseteq Atoms
    BY <1>1, ClausesAssumption
  <2>2. \A a \in c.body : facts[a] # {} /\ gen[a] < write
    BY <1>1, <2>1, SMT
  <2>3. Covered(facts, disjs, c.head)
    BY <1>1, <2>2 DEF Closed, Settled
  <2> QED BY <1>2, <2>3 DEF Covered, TakeResult
<1>4. RowsDated(facts, gen, write')
  BY <1>1, SMT DEF Closed, RowsDated
<1>5. Handled(facts, disjs', {i})
  BY <1>1, <1>2 DEF Closed, Handled, TakeResult
<1> QED BY <1>1, <1>3, <1>4, <1>5 DEF Closed

\* Processing a ground disjunction keeps the rows closed under the applied clauses.
LEMMA CloseProcess ==
    ASSUME LevelInv, CloseInv, ProcessDisjunction PROVE CloseInv'
<1> DEFINE n == Len(branches)
<1>1. PICK i \in DOMAIN disjs :
         /\ Taking(i)
         /\ \/ DisjunctionSatisfied(i)
            \/ DisjunctionEmpty(i)
            \/ DisjunctionUnit(i)
            \/ PushBranch(i)
  BY DEF ProcessDisjunction, Taking
<1>2. /\ program' = program /\ todo' = {}
      /\ program \in SUBSET Clauses /\ write' \in Nat
      /\ \A l \in DOMAIN branches : SavedClosed(program, branches[l])
  BY <1>1, SMT DEF ProcessDisjunction, Saturated, config, LevelInv, TypeOK, CloseInv,
              Taking, PrepareNextDelta
<1>3. Closed(program, facts, gen, write', {}, disjs', {i})
  BY <1>1, CloseTaken DEF ProcessDisjunction
<1>4. /\ disjs' \in Seq(Disjunction)
      /\ DOMAIN disjs' = DOMAIN disjs
      /\ disjs'[i].atoms = disjs[i].atoms
      /\ disjs[i].atoms \in SUBSET Atoms
  BY <1>1, TakenFacts DEF Taking, TakeResult
<1>5. ASSUME NEW a \in disjs[i].atoms, NEW d, clash' = {},
             DispatchResult(n, facts, gen, write', a, d, facts', gen', clash')
      PROVE  Closed(program, facts', gen', write', {}, disjs', {})
  <2>1. DispatchResult(n, facts, gen, write', a, d, facts', gen', {})
    BY <1>5
  <2>2. a \in Atoms /\ \A j \in DOMAIN disjs' : j \in {i} => a \in disjs'[j].atoms
    BY <1>4
  <2> HIDE DEF n
  <2> QED BY <1>2, <1>3, <1>4, <2>1, <2>2, DispatchCloses, SMTT(30)
<1>6. CASE DisjunctionSatisfied(i)
  <2>1. Handled(facts, disjs', {})
    BY <1>3, <1>4, <1>6 DEF DisjunctionSatisfied, Closed, Handled
  <2> QED BY <1>2, <1>3, <1>6, <2>1 DEF DisjunctionSatisfied, Closed, CloseInv
<1>7. CASE DisjunctionEmpty(i)
  BY <1>2, <1>7 DEF DisjunctionEmpty, CloseInv
<1>8. CASE DisjunctionUnit(i)
  <2>1. PICK a \in disjs[i].atoms :
           DispatchResult(n, facts, gen, write', a, Combined(i), facts', gen', clash')
    BY <1>1, <1>8, UnitShape
  <2> QED BY <1>2, <1>5, <1>8, <2>1 DEF DisjunctionUnit, CloseInv
<1>9. CASE PushBranch(i)
  <2>1. PICK b \in Branch : Pushed(i, b)
    BY <1>1, <1>9, PushShape
  <2> DEFINE a == Current(b)
             d == Combined(i) \cup {n + 1}
  <2>2. /\ a \in disjs[i].atoms
        /\ DispatchResult(n, facts, gen, write', a, d, facts', gen', clash')
    BY <2>1 DEF Pushed, Unrefuted
  <2> HIDE DEF a, d
  <2>3. clash' = {} => Closed(program, facts', gen', write', {}, disjs', {})
    BY <1>5, <2>2
  <2>4. SavedClosed(program, b)
    BY <1>3, <2>1, SMTT(30) DEF Pushed, SavedClosed
  <2>5. ASSUME NEW l \in DOMAIN branches' PROVE SavedClosed(program, branches'[l])
    <3>1. n \in Nat /\ l \in 1..(n + 1) /\ DOMAIN branches = 1..n
      BY <2>1, SMT DEF Pushed, LevelInv, TypeOK
    <3>2. CASE l = n + 1
      BY <2>1, <2>4, <3>2 DEF Pushed
    <3>3. CASE l # n + 1
      <4>1. l \in 1..n
        BY <3>1, <3>3, SMTT(30)
      <4> QED BY <1>2, <2>1, <3>1, <4>1 DEF Pushed
    <3> QED BY <3>2, <3>3
  <2> QED BY <1>2, <2>3, <2>5 DEF CloseInv
<1> QED BY <1>1, <1>6, <1>7, <1>8, <1>9

\* Restoring a checkpoint restores a state whose rows were closed.
LEMMA CloseResolve ==
    ASSUME LevelInv, CloseInv, ResolveClash PROVE CloseInv'
<1>1. PICK d \in clash, t \in 1..Len(branches), b \in Branch : Resolved(d, t, b)
  BY ResolveShape
<1>2. /\ program' = program /\ todo' = {} /\ program \in SUBSET Clauses
      /\ t \in Nat /\ DOMAIN branches = 1..Len(branches) /\ Len(branches) \in Nat
  BY SMT DEF ResolveClash, config, LevelInv, TypeOK, TodoReady
<1>3. SavedClosed(program, b)
  BY <1>1, <1>2 DEF CloseInv, SavedClosed, Resolved
<1>4. ASSUME NEW l \in 1..(t - 1) PROVE SavedClosed(program, branches'[l])
  <2>1. l \in DOMAIN branches
    BY <1>2, SMT
  <2> QED BY <1>1, <2>1 DEF CloseInv, Resolved
<1>5. CASE AdvancedTo(t, b)
  <2>1. DOMAIN branches' = 1..t /\ branches'[t] = b
    BY <1>1, <1>5, SMT DEF AdvancedTo, Resolved
  <2>2. \A l \in 1..t : SavedClosed(program, branches'[l])
    <3> TAKE l \in 1..t
    <3>1. l = t \/ l \in 1..(t - 1)
      BY <1>2, SMT
    <3> QED BY <1>3, <1>4, <2>1, <3>1
  <2>3. ASSUME clash' = {}
        PROVE  Closed(program, facts', gen', write', {}, disjs', {})
    <3> DEFINE a == Current(b)
               e == b.base \cup {t}
               m == t - 1
    <3>1. DispatchResult(m, b.saved.facts, b.saved.gen, b.saved.write, a, e,
                         facts', gen', {})
      BY <1>5, <2>3 DEF AdvancedTo
    <3>2. /\ write' = b.saved.write /\ disjs' = b.saved.disjs
          /\ b.saved.write \in Nat /\ b.saved.disjs \in Seq(Disjunction)
          /\ a \in Atoms /\ a \in b.saved.disjs[b.source].atoms
      BY <1>1, <1>5 DEF AdvancedTo, Resolved, Branch, Snapshot, BranchLive
    <3>3. Closed(program, b.saved.facts, b.saved.gen, b.saved.write, {}, b.saved.disjs,
                 {b.source})
      BY <1>3 DEF SavedClosed
    <3>4. \A i \in DOMAIN b.saved.disjs :
             i \in {b.source} => a \in b.saved.disjs[i].atoms
      BY <3>2, ZenonT(30)
    <3> HIDE DEF a, e, m
    <3>5. Closed(program, facts', gen', b.saved.write, {}, b.saved.disjs, {})
      BY <1>2, <3>1, <3>2, <3>3, <3>4, DispatchCloses, SMTT(30)
    <3> QED BY <3>2, <3>5
  <2> QED BY <1>2, <2>1, <2>2, <2>3, ZenonT(30) DEF CloseInv
<1>6. CASE GivenUp(t, b)
  <2>1. DOMAIN branches' = 1..(t - 1) /\ clash' # {}
    BY <1>1, <1>6, SMT DEF GivenUp, Resolved
  <2> QED BY <1>2, <1>4, <2>1 DEF CloseInv
<1> QED BY <1>1, <1>5, <1>6 DEF Resolved

\* When nothing is left to do the rows are a model.
LEMMA CompleteIsModel ==
    ASSUME LevelInv, CloseInv, CompleteSat PROVE IsModel(Rows(facts))
<1>1. /\ Closed(program, facts, gen, write, {}, disjs, {})
      /\ program \in SUBSET Clauses /\ write \in Nat /\ gen \in [Atoms -> Nat]
      /\ facts \in Store /\ disjs \in Seq(Disjunction)
      /\ \A a \in Atoms : facts[a] # {} => gen[a] # write
      /\ \A i \in DOMAIN disjs : disjs[i].processed
  BY NextReadIsWrite DEF CompleteSat, Saturated, Running, NewRows, Unprocessed, CloseInv,
                         LevelInv, TypeOK
<1>2. \A a \in Rows(facts) : Opposite[a] \notin Rows(facts)
  BY <1>1 DEF Closed, RowsConsistent, Refuted, Supports, Rows
<1>3. ASSUME NEW c \in program, c.body \subseteq Rows(facts)
      PROVE  c.head \cap Rows(facts) # {}
  <2>1. c.head \subseteq Atoms
    BY <1>1, ClausesAssumption
  <2>2. \A a \in c.body : facts[a] # {} /\ gen[a] < write
    BY <1>1, <1>3, SMT DEF Rows, Closed, RowsDated
  <2>3. Covered(facts, disjs, c.head)
    BY <1>1, <2>2 DEF Closed, Settled
  <2>4. Satisfied(facts, c.head)
    <3>1. ASSUME NEW i \in DOMAIN disjs, disjs[i].atoms \subseteq c.head
          PROVE  Satisfied(facts, c.head)
      BY <1>1, <3>1 DEF Closed, Handled, Satisfied
    <3> QED BY <2>3, <3>1 DEF Covered
  <2> QED BY <2>1, <2>4 DEF Satisfied, Rows
<1> QED BY <1>2, <1>3 DEF IsModel

\* The state is closed until the search has answered.
SearchInv ==
    /\ answer = "none" => CloseInv
    /\ answer = "sat" => IsModel(Rows(facts))

\* Every step of the search preserves the completeness invariant.
LEMMA SearchNext == LevelInv /\ SearchInv /\ [Next]_vars => SearchInv'
<1> SUFFICES ASSUME LevelInv, SearchInv, [Next]_vars PROVE SearchInv'
  OBVIOUS
<1>1. CASE ApplyNextDelta
  <2>1. answer = "none" /\ answer' = "none"
    BY <1>1 DEF ApplyNextDelta, Running
  <2> QED BY <1>1, <2>1, CloseApplyNextDelta DEF SearchInv
<1>2. ASSUME NEW c \in program, ApplyMatch(c) PROVE SearchInv'
  <2>1. answer = "none" /\ answer' = "none"
    BY <1>2 DEF ApplyMatch, Running
  <2> QED BY <1>2, <2>1, CloseApplyMatch DEF SearchInv
<1>3. CASE ProcessDisjunction
  <2>1. answer = "none" /\ answer' = "none"
    BY <1>3 DEF ProcessDisjunction, Saturated, Running
  <2> QED BY <1>3, <2>1, CloseProcess DEF SearchInv
<1>4. CASE ResolveClash
  <2>1. answer = "none" /\ answer' = "none"
    BY <1>4 DEF ResolveClash, Clashed
  <2> QED BY <1>4, <2>1, CloseResolve DEF SearchInv
<1>5. CASE CompleteSat
  <2>1. answer = "none" /\ answer' = "sat" /\ UNCHANGED <<program, facts>>
    BY <1>5 DEF CompleteSat, Saturated, Running, config
  <2>2. IsModel(Rows(facts))
    BY <1>5, <2>1, CompleteIsModel DEF SearchInv
  <2> QED BY <2>1, <2>2, SMT DEF SearchInv, IsModel, Rows
<1>6. CASE CompleteUnsat
  BY <1>6 DEF CompleteUnsat, SearchInv
<1>7. CASE UNCHANGED vars
  BY <1>7, SMT DEF vars, SearchInv, CloseInv, IsModel, Rows
<1> QED BY <1>1, <1>2, <1>3, <1>4, <1>5, <1>6, <1>7, ZenonT(60) DEF Next, Done

\* Tableau.run answers right for every program, with and without learning:
\* "unsat" only without a model, "sat" only with the rows as a model.
THEOREM VerdictIsRight == Spec => []VerdictCorrect
<1> DEFINE Inv == LevelInv /\ SearchInv
<1>1. Init => Inv
  BY LevelInvInit, CloseInit DEF Init, SearchInv
<1>2. Inv /\ [Next]_vars => Inv'
  BY LevelInvNext, SearchNext
<1>3. Inv /\ UnsatCorrect => VerdictCorrect
  BY DEF SearchInv, UnsatCorrect, VerdictCorrect
<1> QED BY <1>1, <1>2, <1>3, UnsatIsRight, PTL DEF Spec

-----------------------------------------------------------------------------
(* The choices of live branching points are rows. *)

\* A branching point has saved the choices of the points outside it.
ChoicesInv ==
    \A l \in DOMAIN branches :
        /\ facts[Current(branches[l])] # {}
        /\ \A k \in 1..(l - 1) : branches[l].saved.facts[Current(branches[k])] # {}

\* Rows of live choices survive every step.
LEMMA ChoicesNext == LevelInv /\ ChoicesInv /\ [Next]_vars => ChoicesInv'
<1> SUFFICES ASSUME LevelInv, ChoicesInv, [Next]_vars PROVE ChoicesInv'
  OBVIOUS
<1>1. /\ DOMAIN branches = 1..Len(branches) /\ Len(branches) \in Nat
      /\ facts \in Store
      /\ \A l \in DOMAIN branches : Current(branches[l]) \in Atoms
  <2>1. ASSUME NEW l \in DOMAIN branches PROVE Current(branches[l]) \in Atoms
    <3>1. branches[l] \in Branch /\ BranchLive(branches[l], l)
      BY <2>1, SMT DEF LevelInv, TypeOK, LevelsLive
    <3> QED BY <3>1, CurrentIn DEF Branch, BranchLive
  <2> QED BY <2>1, SMT DEF LevelInv, TypeOK
<1>2. ASSUME UNCHANGED branches, \A a \in Atoms : facts[a] # {} => facts'[a] # {}
      PROVE  ChoicesInv'
  BY <1>1, <1>2, ZenonT(60) DEF ChoicesInv
<1>3. ASSUME NEW c \in program, ApplyMatch(c) PROVE ChoicesInv'
  <2>1. UNCHANGED branches
    BY <1>3 DEF ApplyMatch
  <2>2. CASE UNCHANGED facts
    BY <1>2, <2>1, <2>2
  <2>3. CASE HeadUnit(c)
    <3>1. PICK a \in c.head : facts' = WithRow(facts, a, LeastBits(HeadDependencies(c)))
      BY <2>3 DEF HeadUnit, Dispatch
    <3>2. \A x \in Atoms : facts[x] # {} => facts'[x] # {}
      BY <1>1, <3>1, AddSupportFacts, SMT DEF WithRow, Store
    <3> QED BY <1>2, <2>1, <3>2
  <2> QED BY <1>3, <2>2, <2>3 DEF ApplyMatch, HeadSatisfied, HeadEmpty, HeadDisjunctive
<1>4. CASE ProcessDisjunction
  <2>1. PICK i \in DOMAIN disjs :
           /\ Taking(i)
           /\ \/ DisjunctionSatisfied(i)
              \/ DisjunctionEmpty(i)
              \/ DisjunctionUnit(i)
              \/ PushBranch(i)
    BY <1>4 DEF ProcessDisjunction, Taking
  <2>2. CASE DisjunctionSatisfied(i) \/ DisjunctionEmpty(i)
    BY <1>2, <2>2 DEF DisjunctionSatisfied, DisjunctionEmpty
  <2>3. CASE DisjunctionUnit(i)
    <3>1. \A x \in Atoms : facts[x] # {} => facts'[x] # {}
      BY <2>1, <2>3, UnitShape DEF DispatchResult
    <3> QED BY <1>2, <2>3, <3>1 DEF DisjunctionUnit
  <2>4. CASE PushBranch(i)
    <3>1. PICK b \in Branch : Pushed(i, b)
      BY <2>1, <2>4, PushShape
    <3>2. /\ \A x \in Atoms : facts[x] # {} => facts'[x] # {}
          /\ facts'[Current(b)] # {}
          /\ b.saved.facts = facts
      <4>1. DispatchResult(Len(branches), facts, gen, write', Current(b),
                           Combined(i) \cup {Len(branches) + 1}, facts', gen', clash')
        BY <3>1 DEF Pushed
      <4>2. b.saved.facts = facts /\ Current(b) \in Atoms
        BY <3>1, SMT DEF Pushed, Branch
      <4> QED BY <4>1, <4>2 DEF DispatchResult
    <3>3. ASSUME NEW l \in DOMAIN branches'
          PROVE  /\ facts'[Current(branches'[l])] # {}
                 /\ \A k \in 1..(l - 1) : branches'[l].saved.facts[Current(branches'[k])] # {}
      <4>1. l \in 1..(Len(branches) + 1)
        BY <3>1, SMT DEF Pushed
      <4>2. CASE l = Len(branches) + 1
        BY <1>1, <3>1, <3>2, <4>2, SMTT(30) DEF Pushed, ChoicesInv
      <4>3. CASE l # Len(branches) + 1
        <5>1. l \in DOMAIN branches /\ \A k \in 1..l : branches'[k] = branches[k]
          BY <1>1, <3>1, <4>1, <4>3, SMT DEF Pushed
        <5> QED BY <1>1, <3>2, <5>1, SMTT(30) DEF ChoicesInv
      <4> QED BY <4>2, <4>3
    <3> QED BY <3>3 DEF ChoicesInv
  <2> QED BY <2>1, <2>2, <2>3, <2>4
<1>5. CASE ResolveClash
  <2>1. PICK d \in clash, t \in 1..Len(branches), b \in Branch : Resolved(d, t, b)
    BY <1>5, ResolveShape
  <2>2. /\ t \in Nat /\ b.saved = branches[t].saved
        /\ \A l \in 1..(t - 1) : branches'[l] = branches[l]
        /\ \A l \in 1..(t - 1) : /\ Current(branches[l]) \in Atoms
                                /\ b.saved.facts[Current(branches[l])] # {}
    BY <1>1, <2>1, SMT DEF Resolved, ChoicesInv
  <2>3. ASSUME NEW l \in 1..(t - 1)
        PROVE  \A k \in 1..(l - 1) : branches'[l].saved.facts[Current(branches'[k])] # {}
    <3>1. l \in DOMAIN branches /\ \A k \in 1..(l - 1) : k \in 1..(t - 1)
      BY <1>1, <2>2, SMT
    <3>2. \A k \in 1..(l - 1) : branches[l].saved.facts[Current(branches[k])] # {}
      BY <3>1 DEF ChoicesInv
    <3> QED BY <2>2, <3>1, <3>2
  <2>4. CASE AdvancedTo(t, b)
    <3>1. /\ DOMAIN branches' = 1..t /\ branches'[t] = b
          /\ \A x \in Atoms : b.saved.facts[x] # {} => facts'[x] # {}
          /\ facts'[Current(b)] # {}
      <4>1. DOMAIN branches' = 1..t /\ branches'[t] = b
        BY <2>1, <2>4, SMT DEF AdvancedTo, Resolved
      <4>2. DispatchResult(t - 1, b.saved.facts, b.saved.gen, b.saved.write,
                           Current(b), b.base \cup {t}, facts', gen', clash')
        BY <2>4 DEF AdvancedTo
      <4> QED BY <4>1, <4>2 DEF DispatchResult
    <3>2. ASSUME NEW l \in 1..t
          PROVE  /\ facts'[Current(branches'[l])] # {}
                 /\ \A k \in 1..(l - 1) : branches'[l].saved.facts[Current(branches'[k])] # {}
      <4>1. l = t \/ l \in 1..(t - 1)
        BY <2>2, SMT
      <4> QED BY <2>2, <2>3, <3>1, <4>1
    <3> QED BY <3>1, <3>2 DEF ChoicesInv
  <2>5. CASE GivenUp(t, b)
    <3>1. DOMAIN branches' = 1..(t - 1) /\ facts' = b.saved.facts
      BY <2>1, <2>5, SMT DEF GivenUp, Resolved
    <3> QED BY <2>2, <2>3, <3>1 DEF ChoicesInv
  <2> QED BY <2>1, <2>4, <2>5 DEF Resolved
<1>6. CASE ApplyNextDelta \/ CompleteSat \/ CompleteUnsat \/ UNCHANGED vars
  BY <1>2, <1>6 DEF ApplyNextDelta, CompleteSat, CompleteUnsat, trailed, vars
<1> QED BY <1>3, <1>4, <1>5, <1>6 DEF Next, Done

\* The disjunct each live branching point is on stays a row of the store until
\* the point is advanced or given up.
THEOREM ChoicesStayRows == Spec => []LiveChoicesHold
<1>1. Init => LevelInv /\ ChoicesInv
  BY LevelInvInit, SMT DEF Init, ChoicesInv
<1>2. LevelInv /\ ChoicesInv /\ [Next]_vars => (LevelInv /\ ChoicesInv)'
  BY LevelInvNext, ChoicesNext
<1>3. ChoicesInv => LiveChoicesHold
  BY DEF ChoicesInv, LiveChoicesHold
<1> QED BY <1>1, <1>2, <1>3, PTL DEF Spec

-----------------------------------------------------------------------------
\* One step moves the branching stack forward or leaves it.
LEMMA StackStep == LevelInv /\ [Next]_vars => [StackAdvances]_branches
<1> SUFFICES ASSUME LevelInv, [Next]_vars PROVE StackAdvances \/ UNCHANGED branches
  OBVIOUS
<1>1. DOMAIN branches = 1..Len(branches) /\ Len(branches) \in Nat
  BY SMT DEF LevelInv, TypeOK
<1>2. CASE ProcessDisjunction
  <2>1. PICK i \in DOMAIN disjs :
           /\ Taking(i)
           /\ UNCHANGED branches \/ PushBranch(i)
    BY <1>2 DEF ProcessDisjunction, Taking, DisjunctionSatisfied, DisjunctionEmpty,
                DisjunctionUnit
  <2>2. CASE PushBranch(i)
    <3>1. PICK b \in Branch : Pushed(i, b)
      BY <2>1, <2>2, PushShape
    <3> QED BY <1>1, <3>1 DEF Pushed, StackAdvances
  <2> QED BY <2>1, <2>2
<1>3. CASE ResolveClash
  <2>1. PICK d \in clash, t \in 1..Len(branches), b \in Branch : Resolved(d, t, b)
    BY <1>3, ResolveShape
  <2>2. /\ t \in DOMAIN branches
        /\ \A l \in 1..(t - 1) : branches'[l] = branches[l]
        /\ b.remaining = branches[t].remaining \ {Current(branches[t])}
        /\ branches[t].learned \subseteq b.learned
    BY <1>1, <2>1 DEF Resolved
  <2>3. Current(branches[t]) \in branches[t].remaining
    <3>1. branches[t] \in Branch /\ BranchLive(branches[t], t)
      BY <2>2, SMT DEF LevelInv, TypeOK, LevelsLive
    <3> QED BY <3>1, CurrentIn DEF Branch, BranchLive
  <2>4. CASE AdvancedTo(t, b)
    <3>1. Len(branches') = t /\ branches'[t] = b
      BY <2>4 DEF AdvancedTo
    <3> QED BY <2>2, <2>3, <3>1 DEF StackAdvances
  <2>5. CASE GivenUp(t, b)
    <3>1. Len(branches') = t - 1 /\ clash' # {}
      BY <2>5 DEF GivenUp
    <3> QED BY <2>2, <3>1 DEF StackAdvances
  <2> QED BY <2>1, <2>4, <2>5 DEF Resolved
<1> QED BY <1>2, <1>3 DEF Next, Done, ApplyNextDelta, ApplyMatch, CompleteSat,
                        CompleteUnsat, vars

\* The stack of branching points only ever moves forward.
THEOREM StackMovesForward == Spec => SearchAdvances
<1>1. Spec => []LevelInv
  BY LevelInvInit, LevelInvNext, PTL DEF Spec
<1> QED BY <1>1, StackStep, PTL DEF Spec, SearchAdvances
=============================================================================
