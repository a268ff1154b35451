---------------------------- MODULE SerialSession ----------------------------
(***************************************************************************)
(* What a native session promises its callers: operations one at a time on *)
(* a usable session, and none after it was poisoned or closed.             *)
(***************************************************************************)
CONSTANTS Threads, Nobody

VARIABLES status, holder

vars == <<status, holder>>

Init == status = "usable" /\ holder = Nobody

Begin(t) ==
    /\ status = "usable" /\ holder = Nobody
    /\ holder' = t /\ UNCHANGED status

\* A running operation may find the tableau beyond repair.
Poison(t) ==
    /\ holder = t /\ status = "usable"
    /\ status' = "poisoned" /\ UNCHANGED holder

End(t) ==
    /\ holder = t
    /\ holder' = Nobody /\ UNCHANGED status

Close ==
    /\ holder = Nobody /\ status # "closed"
    /\ status' = "closed" /\ UNCHANGED holder

Next == Close \/ \E t \in Threads : Begin(t) \/ Poison(t) \/ End(t)

Spec == Init /\ [][Next]_vars
=============================================================================
