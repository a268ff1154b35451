---------------------------- MODULE CheckpointStore ----------------------------
(***************************************************************************)
(* What the trailed state promises to the search above it: the state can be *)
(* changed freely, a checkpoint remembers it, and going back to a           *)
(* checkpoint makes the state what it was there.  Module Branching relies   *)
(* on this interface: its checkpoints are snapshots.                        *)
(***************************************************************************)
EXTENDS Integers, Sequences

VARIABLES
    current,    \* the state
    points,     \* the branching points: remaining alternatives and snapshot
    base,       \* the snapshot of the operation root
    restoring   \* a restoration is under way; nothing may change the state

vars == <<current, points, base, restoring>>

Init ==
    /\ points = <<>>
    /\ base = current
    /\ restoring = FALSE

Change == ~restoring /\ UNCHANGED <<points, base, restoring>>

Branch ==
    /\ ~restoring
    /\ Len(points') = Len(points) + 1
    /\ LET point == points'[Len(points')] IN
          /\ points' = Append(points, point)
          /\ point.saved = current
    /\ UNCHANGED <<current, base, restoring>>

Rebase ==
    /\ ~restoring
    /\ points = <<>>
    /\ base' = current
    /\ UNCHANGED <<current, points, restoring>>

\* Go back to the i-th branching point and take its next alternative, or drop
\* it when there is none.
Backtrack(i) ==
    /\ ~restoring
    /\ current' = points[i].saved
    /\ points' = SubSeq(points, 1, i - 1) \o
                   (IF points[i].remaining > 1
                    THEN <<[points[i] EXCEPT !.remaining = @ - 1]>> ELSE <<>>)
    /\ restoring' = TRUE
    /\ UNCHANGED base

Reset ==
    /\ ~restoring
    /\ current' = base
    /\ points' = <<>>
    /\ restoring' = TRUE
    /\ UNCHANGED base

\* A compound change fails: the state is as if it had not begun.
Fail == ~restoring /\ restoring' = TRUE /\ UNCHANGED <<current, points, base>>

Restored == restoring /\ restoring' = FALSE /\ UNCHANGED <<current, points, base>>

Next ==
    \/ Change
    \/ Branch
    \/ Rebase
    \/ \E i \in DOMAIN points : Backtrack(i)
    \/ Reset
    \/ Fail
    \/ Restored

Spec == Init /\ [][Next]_vars
=============================================================================
