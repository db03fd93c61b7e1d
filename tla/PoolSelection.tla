---------------------------- MODULE PoolSelection ----------------------------
(***************************************************************************)
(* selectEndpoint under the strategies that look at shared state: one step *)
(* for the rotating ones, which touch the counter once, and a sort beside  *)
(* moving in-flight counts for least_inflight.                             *)
(***************************************************************************)
EXTENDS PoolRotation, LeastInflight

vars == <<rr, inflight, rotationVars, sortVars>>

Init == PoolInit /\ RotationInit /\ SortInit

SelectByRotation ==
    /\ \E q \in Asked : SelectFor(q) \/ SelectPanics(q)
    /\ UNCHANGED sortVars

SelectByLoad ==
    /\ strategy = "least_inflight"
    /\ \/ \E q \in Asked : StartSort(CandidatesFor(q))
       \/ SortStep
       \/ \E e \in Eps : OthersMove(e)
    /\ UNCHANGED rotationVars

Next == SelectByRotation \/ SelectByLoad
Spec == Init /\ [][Next]_vars
=============================================================================
