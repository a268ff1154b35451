-------------------------- MODULE MCReasonerFacade --------------------------
(***************************************************************************)
(* Instances of ReasonerFacade: up to three callers of one reasoner, an    *)
(* ontology that starts with one axiom, one axiom that changes the program *)
(* and one that does not.  Three callers query, precompute and dispose;    *)
(* two change the ontology, buffered and immediately.  Each of them may    *)
(* interrupt the others.                                                   *)
(***************************************************************************)
EXTENDS ReasonerFacade, TLC

AllBackends == {"python", "native", "encoded"}

Lifecycle == [operations |-> {"query", "temporary", "precompute", "dispose"},
              callers |-> 3, calls |-> 4, buffered |-> TRUE]

Updates == [operations |-> {"add", "remove", "flush", "precompute"},
            callers |-> 2, calls |-> 4, buffered |-> TRUE]

AllWorkloads == {Lifecycle, Updates, [Updates EXCEPT !.buffered = FALSE, !.calls = 3]}

Callers == Permutations(Threads)

=============================================================================
