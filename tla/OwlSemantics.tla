---------------------------- MODULE OwlSemantics ----------------------------
(***************************************************************************)
(* The input language of the native program compiler and its direct        *)
(* semantics: the reference the compiled clauses are judged against.       *)
(*                                                                         *)
(* An expression is the node of the encoded model it stands for, a tuple   *)
(* that starts with its constructor.  The encoder interns nodes, so equal  *)
(* expressions are the same node.  A role is <<name, inverted>>.           *)
(*   classes  <<"class", A>>  <<"oneOf", I>>  <<"not", C>>  <<"and", S>>   *)
(*            <<"or", S>>  <<"some"|"all", r, C>>  <<"value", r, i>>       *)
(*            <<"self", r>>  <<"min"|"max"|"exact", n, r, C>>              *)
(*            <<"dsome"|"dall", d, D>>  <<"dvalue", d, l>>                 *)
(*            <<"dmin"|"dmax"|"dexact", n, d, D>>                          *)
(*   ranges   <<"datatype", T>>  <<"dataOneOf", L>>  <<"dnot", D>>         *)
(*            <<"dand"|"dor", S>>                                          *)
(* The built-in names Thing, Nothing, top, bottom and Literal are theirs.  *)
(***************************************************************************)
EXTENDS Naturals, Sequences, FiniteSets

Class(A) == <<"class", A>>
Thing == Class("Thing")
Nothing == Class("Nothing")
OneOf(I) == <<"oneOf", I>>
Not(C) == <<"not", C>>
And(S) == <<"and", S>>
Or(S) == <<"or", S>>
Datatype(T) == <<"datatype", T>>
TopRange == Datatype("Literal")
DataNot(D) == <<"dnot", D>>
Role(r) == <<r, FALSE>>
InverseOf(r) == <<r[1], ~r[2]>>

-----------------------------------------------------------------------------
(***************************************************************************)
(* An interpretation I has objects, values, and the extensions cls, role,  *)
(* drole, dt of the named symbols; ind and lit place names.                *)
(***************************************************************************)
RoleExtension(I, r) ==
    LET named == IF r[1] = "top" THEN I.objects \X I.objects
                 ELSE IF r[1] = "bottom" THEN {}
                 ELSE I.role[r[1]]
    IN  IF r[2] THEN {<<p[2], p[1]>> : p \in named} ELSE named

DataRoleExtension(I, d) ==
    IF d = "topData" THEN I.objects \X I.values
    ELSE IF d = "bottomData" THEN {} ELSE I.drole[d]

Successors(pairs, x) == {p[2] : p \in {q \in pairs : q[1] = x}}

RECURSIVE RangeExtension(_, _)
RangeExtension(I, D) ==
    CASE D[1] = "datatype" -> IF D = TopRange THEN I.values ELSE I.dt[D[2]]
      [] D[1] = "dataOneOf" -> {I.lit[l] : l \in D[2]}
      [] D[1] = "dnot" -> I.values \ RangeExtension(I, D[2])
      [] D[1] = "dand" -> {v \in I.values : \A F \in D[2] : v \in RangeExtension(I, F)}
      [] D[1] = "dor" -> UNION {RangeExtension(I, F) : F \in D[2]}

\* The objects whose number of successors in a filler satisfies a quantifier
\* or cardinality constructor; the d-forms count data successors alike.
Restricted(I, kind, n, pairs, filler) ==
    {x \in I.objects :
        LET in == Successors(pairs, x) \cap filler
        IN  CASE kind \in {"some", "dsome"} -> in # {}
              [] kind \in {"all", "dall"} -> Successors(pairs, x) \subseteq filler
              [] kind \in {"min", "dmin"} -> Cardinality(in) >= n
              [] kind \in {"max", "dmax"} -> Cardinality(in) <= n
              [] kind \in {"exact", "dexact"} -> Cardinality(in) = n}

RECURSIVE ClassExtension(_, _)
ClassExtension(I, C) ==
    CASE C[1] = "class" -> IF C = Thing THEN I.objects
                           ELSE IF C = Nothing THEN {} ELSE I.cls[C[2]]
      [] C[1] = "oneOf" -> {I.ind[i] : i \in C[2]}
      [] C[1] = "not" -> I.objects \ ClassExtension(I, C[2])
      [] C[1] = "and" -> {x \in I.objects : \A F \in C[2] : x \in ClassExtension(I, F)}
      [] C[1] = "or" -> UNION {ClassExtension(I, F) : F \in C[2]}
      [] C[1] = "self" -> {x \in I.objects : <<x, x>> \in RoleExtension(I, C[2])}
      [] C[1] = "value" -> Restricted(I, "some", 0, RoleExtension(I, C[2]), {I.ind[C[3]]})
      [] C[1] = "dvalue" -> Restricted(I, "some", 0, DataRoleExtension(I, C[2]), {I.lit[C[3]]})
      [] C[1] \in {"some", "all"} ->
            Restricted(I, C[1], 0, RoleExtension(I, C[2]), ClassExtension(I, C[3]))
      [] C[1] \in {"min", "max", "exact"} ->
            Restricted(I, C[1], C[2], RoleExtension(I, C[3]), ClassExtension(I, C[4]))
      [] C[1] \in {"dsome", "dall"} ->
            Restricted(I, C[1], 0, DataRoleExtension(I, C[2]), RangeExtension(I, C[3]))
      [] C[1] \in {"dmin", "dmax", "dexact"} ->
            Restricted(I, C[1], C[2], DataRoleExtension(I, C[3]), RangeExtension(I, C[4]))

-----------------------------------------------------------------------------
(***************************************************************************)
(* Axioms, with their operand collections as sequences in canonical order. *)
(***************************************************************************)
Functional(pairs) == \A p, q \in pairs : p[1] = q[1] => p[2] = q[2]

Satisfies(I, a) ==
    LET C(e) == ClassExtension(I, e)
        D(e) == RangeExtension(I, e)
        R(r) == RoleExtension(I, r)
        P(d) == DataRoleExtension(I, d)
    IN CASE a[1] = "SubClassOf" -> C(a[2]) \subseteq C(a[3])
         [] a[1] = "EquivalentClasses" -> \A i, j \in DOMAIN a[2] : C(a[2][i]) = C(a[2][j])
         [] a[1] = "DisjointClasses" ->
                \A i, j \in DOMAIN a[2] : i # j => C(a[2][i]) \cap C(a[2][j]) = {}
         [] a[1] = "DisjointUnion" ->
                /\ C(a[2]) = UNION {C(a[3][i]) : i \in DOMAIN a[3]}
                /\ \A i, j \in DOMAIN a[3] : i # j => C(a[3][i]) \cap C(a[3][j]) = {}
         [] a[1] = "ObjectPropertyDomain" -> \A p \in R(a[2]) : p[1] \in C(a[3])
         [] a[1] = "ObjectPropertyRange" -> \A p \in R(a[2]) : p[2] \in C(a[3])
         [] a[1] = "FunctionalObjectProperty" -> Functional(R(a[2]))
         [] a[1] = "InverseFunctionalObjectProperty" -> Functional(R(InverseOf(a[2])))
         [] a[1] = "ReflexiveObjectProperty" -> \A x \in I.objects : <<x, x>> \in R(a[2])
         [] a[1] = "DataPropertyDomain" -> \A p \in P(a[2]) : p[1] \in C(a[3])
         [] a[1] = "DataPropertyRange" -> \A p \in P(a[2]) : p[2] \in D(a[3])
         [] a[1] = "FunctionalDataProperty" -> Functional(P(a[2]))
         [] a[1] = "DatatypeDefinition" -> D(a[2]) = D(a[3])
         [] a[1] = "HasKey" ->
                LET named == {I.ind[i] : i \in DOMAIN I.ind} IN
                \A x, y \in C(a[2]) \cap named :
                    /\ \A r \in a[3] : Successors(R(r), x) \cap Successors(R(r), y) \cap named # {}
                    /\ \A d \in a[4] : Successors(P(d), x) \cap Successors(P(d), y) # {}
                    => x = y
         [] a[1] = "SameIndividual" -> \A i, j \in DOMAIN a[2] : I.ind[a[2][i]] = I.ind[a[2][j]]
         [] a[1] = "DifferentIndividuals" ->
                \A i, j \in DOMAIN a[2] : i # j => I.ind[a[2][i]] # I.ind[a[2][j]]
         [] a[1] = "ClassAssertion" -> I.ind[a[3]] \in C(a[2])
         [] a[1] = "ObjectPropertyAssertion" -> <<I.ind[a[3]], I.ind[a[4]]>> \in R(a[2])
         [] a[1] = "NegativeObjectPropertyAssertion" -> <<I.ind[a[3]], I.ind[a[4]]>> \notin R(a[2])
         [] a[1] = "DataPropertyAssertion" -> <<I.ind[a[3]], I.lit[a[4]]>> \in P(a[2])
         [] a[1] = "NegativeDataPropertyAssertion" -> <<I.ind[a[3]], I.lit[a[4]]>> \notin P(a[2])

=============================================================================
