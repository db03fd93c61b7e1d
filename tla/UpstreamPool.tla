---------------------------- MODULE UpstreamPool ----------------------------
(***************************************************************************)
(* internal/proxy/upstream.go: the configured endpoints, the strategies    *)
(* that choose among them and the in-flight count of each.  An endpoint is *)
(* its position in the configuration; a set of candidates is a set of      *)
(* positions, its order the order of the configuration.                    *)
(***************************************************************************)
EXTENDS Integers, Sequences, FiniteSets, FiniteSetsExt

CONSTANTS
    Endpoints,  \* sequence of [name, weight, models, timeout]
    NoModel,    \* the empty model name
    RRMod       \* 2^64, the modulus of the shared rotation counter

VARIABLES
    rr,         \* upstreamPool.rr
    inflight    \* inflight[e]: upstreamEndpoint.inflight of endpoint e

Strategies == {"round_robin", "weighted_round_robin", "random",
               "weighted_random", "least_inflight"}

ASSUME PoolAssumption ==
    /\ Len(Endpoints) \in Nat \ {0} /\ DOMAIN Endpoints = 1..Len(Endpoints)
    /\ \A e \in DOMAIN Endpoints : Endpoints[e].weight \in Int
    /\ RRMod \in Nat /\ RRMod % 2 = 0 /\ RRMod > 0

Eps == DOMAIN Endpoints

-----------------------------------------------------------------------------
Weight(e) == IF Endpoints[e].weight <= 0 THEN 1 ELSE Endpoints[e].weight

(* An empty list of names does not restrict the choice.                    *)
EndpointAllowed(e, names) == names = {} \/ Endpoints[e].name \in names

Supports(e, model) ==
    Endpoints[e].models = {} \/ model = NoModel \/ model \in Endpoints[e].models

Supporting(model, names) ==
    {e \in Eps : EndpointAllowed(e, names) /\ Supports(e, model)}

(* Slip: the fallback forgets the names and the models.                    *)
CandidatesAnywhere(model, names) ==
    IF Supporting(model, names) # {} THEN Supporting(model, names) ELSE Eps
(* With nobody to support the model, the endpoints that list no models.    *)
Candidates(model, names) ==
    IF Supporting(model, names) # {} THEN Supporting(model, names)
    ELSE {e \in Eps : EndpointAllowed(e, names) /\ Endpoints[e].models = {}}

-----------------------------------------------------------------------------
(* A candidate's index in the candidate slice, counted from zero.          *)
Index(cands, e) == Cardinality({d \in cands : d < e})

(* int(n) of a uint64, and Go's % with the sign of its dividend.           *)
ToInt(n) == IF n >= RRMod \div 2 THEN n - RRMod ELSE n
GoRem(a, b) == IF a >= 0 THEN a % b ELSE -((-a) % b)

(* Slip: the counter indexes all endpoints, not the candidates.            *)
RoundRobinOverAll(cands, n) ==
    {e \in cands : Index(Eps, e) = GoRem(ToInt(n), Cardinality(Eps))}
(* The candidate at index int(n) % len; none for an index below zero, on   *)
(* which the program panics.                                               *)
RoundRobin(cands, n) ==
    {e \in cands : Index(cands, e) = GoRem(ToInt(n), Cardinality(cands))}

(* A sum of weights, by counting: a candidate has a ticket for each unit.  *)
Tickets(cands) == UNION {{e} \X (1..Weight(e)) : e \in cands}
TotalWeight(cands) == Cardinality(Tickets(cands))
WeightBefore(cands, e) == TotalWeight({d \in cands : d < e})

(* Slip: the end of a stretch counts to it.                                *)
WeightedRoundRobinInclusive(cands, n) ==
    LET idx == n % TotalWeight(cands) IN
    {e \in cands : /\ WeightBefore(cands, e) <= idx
                   /\ idx <= WeightBefore(cands, e) + Weight(e)}
(* The candidate in whose stretch of the weights n falls.                  *)
WeightedRoundRobin(cands, n) ==
    LET idx == n % TotalWeight(cands) IN
    {e \in cands : /\ WeightBefore(cands, e) <= idx
                   /\ idx < WeightBefore(cands, e) + Weight(e)}

(* weightedRandom walks the weights the same way, from a random number.    *)
Draws(cands) == 0..(TotalWeight(cands) - 1)
WeightedRandom(cands) == UNION {WeightedRoundRobin(cands, n) : n \in Draws(cands)}

(* The candidates selectEndpoint may return for counter value n: any by    *)
(* random, and any by least_inflight, whose comparisons load the counts    *)
(* one by one while other requests begin and end, see LeastInflight.       *)
Picks(strategy, cands, n) ==
    CASE strategy = "round_robin" -> RoundRobin(cands, n)
      [] strategy = "weighted_round_robin" -> WeightedRoundRobin(cands, n)
      [] strategy = "weighted_random" -> WeightedRandom(cands)
      [] OTHER -> cands

(* Slip: the counter is moved on both before and after it is read.         *)
AdvanceRRTwice(strategy) == rr' = (rr + 2) % RRMod
(* selectEndpoint takes the old value of rr and moves it on at once.       *)
AdvanceRR(strategy) ==
    rr' = IF strategy \in {"round_robin", "weighted_round_robin"}
          THEN (rr + 1) % RRMod ELSE rr

Begin(e) == inflight' = [inflight EXCEPT ![e] = @ + 1]
End(e) == inflight' = [inflight EXCEPT ![e] = @ - 1]

PoolInit == rr = 0 /\ inflight = [e \in Eps |-> 0]
=============================================================================
