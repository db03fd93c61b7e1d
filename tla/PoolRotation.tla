---------------------------- MODULE PoolRotation ----------------------------
(***************************************************************************)
(* How the rotating strategies of an upstream pool share requests out, one *)
(* selectEndpoint after another.  All routes and models turn one counter,  *)
(* so a fair share can only be expected of a run of selections among the   *)
(* same candidates: the model follows the current run.                     *)
(***************************************************************************)
EXTENDS UpstreamPool

CONSTANT
    Asked       \* the requests to select for: [model, names]

VARIABLES
    strategy,   \* cfg.Upstream.Strategy
    run,        \* the candidates of the current run of selections
    served      \* served[e]: how often the run selected endpoint e

rotationVars == <<strategy, run, served>>

ASSUME ServableAssumption == \A q \in Asked : Candidates(q.model, q.names) # {}

CandidatesFor(q) == Candidates(q.model, q.names)
NoneServed == [e \in Eps |-> 0]

Rotates == strategy \in {"round_robin", "weighted_round_robin"}

(* The random strategies leave no trace in the pool.                       *)
RotationInit ==
    /\ strategy \in Strategies \ {"random", "weighted_random"}
    /\ run = {} /\ served = NoneServed

(* A selection continues the run if it is among the same candidates and    *)
(* the counter did not wrap.                                               *)
SelectFor(q) ==
    LET cands == CandidatesFor(q)
        before == IF cands = run /\ rr # 0 THEN served ELSE NoneServed
    IN /\ Rotates
       /\ AdvanceRR(strategy)
       /\ run' = cands
       /\ \E e \in Picks(strategy, cands, rr) : served' = [before EXCEPT ![e] = @ + 1]
       /\ UNCHANGED <<inflight, strategy>>

(* int(n) below zero: the program panics, and the counter has moved on.    *)
SelectPanics(q) ==
    /\ Picks(strategy, CandidatesFor(q), rr) = {}
    /\ AdvanceRR(strategy)
    /\ run' = {} /\ served' = NoneServed
    /\ UNCHANGED <<inflight, strategy>>
-----------------------------------------------------------------------------
Share(e) == IF strategy = "round_robin" THEN 1 ELSE Weight(e)

(* For every counter value and candidates there is one endpoint to return  *)
(* (the loop of weightedRoundRobin never falls through to candidates[0]),  *)
(* except that round_robin has none for negative indices; and of the       *)
(* numbers weightedRandom draws from, each candidate has its weight.       *)
OnePick ==
    \A q \in Asked :
        LET cands == CandidatesFor(q) IN
        /\ Rotates => Cardinality(Picks(strategy, cands, rr)) =
             IF strategy = "round_robin" /\ rr >= RRMod \div 2
                /\ (RRMod - rr) % Cardinality(cands) # 0
             THEN 0 ELSE 1
        /\ \A e \in cands : Weight(e) =
             Cardinality({n \in Draws(cands) : WeightedRoundRobin(cands, n) = {e}})

(* Wherever in the rotation a run begins, every whole round of it serves   *)
(* each candidate exactly its weight, and nobody gets ahead by more than   *)
(* its weight in the round that is under way.                              *)
RunsAreFair ==
    run # {} /\ (strategy = "round_robin" => rr <= RRMod \div 2) =>
        \E rounds \in 0..RRMod :
            \A e \in run : /\ served[e] >= rounds * Share(e)
                           /\ served[e] <= (rounds + 1) * Share(e)
=============================================================================
