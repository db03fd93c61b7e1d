---------------------------- MODULE LeastInflight ----------------------------
(***************************************************************************)
(* leastInflight beside other requests: sort.SliceStable sorts the slice   *)
(* of candidates (private to the selection) by insertion, and every call   *)
(* of less loads two in-flight counts, and when they differ loads both     *)
(* again, while other requests begin and end at the endpoints.             *)
(* A slice of up to 20 elements is one block of SliceStable, so that       *)
(* symMerge is never reached; TwentyAssumption says that this is enough.   *)
(***************************************************************************)
EXTENDS UpstreamPool, Functions

CONSTANTS
    MaxInflight,    \* most other requests at one endpoint (bound)
    MaxMoves        \* most of their begins and ends in one selection (bound)

VARIABLES
    order,      \* the slice of candidates, <<>> while nobody selects
    i, j,       \* the element to insert, and where it is now
    load,       \* the load less does next
    seen,       \* the count less loaded last for the element at j
    moves       \* history: begins and ends since the selection began

sortVars == <<order, i, j, load, seen, moves>>

ASSUME TwentyAssumption == Cardinality(Eps) <= 20

Sorting == order # <<>> /\ i <= Len(order)
Sorted == order # <<>> /\ i > Len(order)
Picked == order[1]

SortInit == order = <<>> /\ i = 2 /\ j = 2 /\ load = "first" /\ seen = 0 /\ moves = 0

(* The candidates in the order of the configuration.                       *)
InOrder(cands) ==
    [k \in 1..Cardinality(cands) |-> CHOOSE e \in cands : Index(cands, e) = k - 1]

StartSort(cands) ==
    /\ order = <<>> /\ cands # {}
    /\ order' = InOrder(cands)
    /\ i' = 2 /\ j' = 2
    /\ load' = "first"
    /\ moves' = 0
    /\ UNCHANGED <<rr, inflight, seen>>

(* Slip: an element moves forward by one place at most.                    *)
PlaceOnce(isLess) ==
    /\ order' = IF isLess THEN [order EXCEPT ![j] = order[j - 1], ![j - 1] = order[j]]
                ELSE order
    /\ i' = i + 1 /\ j' = i + 1
    /\ load' = "first"
    /\ UNCHANGED <<rr, inflight, seen, moves>>

(* The answer of less moves the element on towards the front, or ends its  *)
(* insertion.                                                              *)
Place(isLess) ==
    /\ order' = IF isLess THEN [order EXCEPT ![j] = order[j - 1], ![j - 1] = order[j]]
                ELSE order
    /\ IF isLess /\ j > 2 THEN i' = i /\ j' = j - 1
       ELSE i' = i + 1 /\ j' = i + 1
    /\ load' = "first"
    /\ UNCHANGED <<rr, inflight, seen, moves>>

LoadFirst ==
    /\ Sorting /\ load \in {"first", "again"}
    /\ seen' = inflight[order[j]]
    /\ load' = IF load = "first" THEN "equal" ELSE "less"
    /\ UNCHANGED <<rr, inflight, order, i, j, moves>>

(* Slip: of endpoints with the same count the lighter one comes first.     *)
CompareEqualLighter ==
    /\ Sorting /\ load = "equal"
    /\ IF seen = inflight[order[j - 1]]
       THEN Place(Weight(order[j]) < Weight(order[j - 1]))
       ELSE load' = "again" /\ UNCHANGED <<rr, inflight, order, i, j, seen, moves>>
(* The second load of ==: equal counts are decided by the weights.         *)
CompareEqual ==
    /\ Sorting /\ load = "equal"
    /\ IF seen = inflight[order[j - 1]]
       THEN Place(Weight(order[j]) > Weight(order[j - 1]))
       ELSE load' = "again" /\ UNCHANGED <<rr, inflight, order, i, j, seen, moves>>

CompareLess ==
    /\ Sorting /\ load = "less"
    /\ Place(seen < inflight[order[j - 1]])

(* selectEndpoint returns the first of the sorted candidates.              *)
ReturnFirst ==
    /\ Sorted
    /\ order' = <<>>
    /\ i' = 2 /\ j' = 2 /\ moves' = 0 /\ seen' = 0
    /\ UNCHANGED <<rr, inflight, load>>

(* Other requests begin and end at an endpoint.                            *)
OthersMove(e) ==
    /\ order # <<>> => moves < MaxMoves
    /\ \/ inflight[e] < MaxInflight /\ Begin(e)
       \/ inflight[e] > 0 /\ End(e)
    /\ moves' = IF order = <<>> THEN 0 ELSE moves + 1
    /\ UNCHANGED <<rr, order, i, j, load, seen>>

SortStep == LoadFirst \/ CompareEqual \/ CompareLess \/ ReturnFirst
-----------------------------------------------------------------------------
Candidate == Range(order)

(* However the counts move under the sort, and though less compares loads  *)
(* of different moments and may contradict itself, the endpoint that       *)
(* leastInflight returns carries at most as many requests more than the    *)
(* least loaded candidate as began and ended since the selection began.    *)
StaleChoiceBounded ==
    Sorted => \A e \in Candidate : inflight[Picked] <= inflight[e] + moves

(* With no other request moving, it is a least loaded one, of those a      *)
(* heaviest, and of those the first configured.                            *)
UndisturbedChoice ==
    Sorted /\ moves = 0 =>
        \A e \in Candidate \ {Picked} :
            \/ inflight[Picked] < inflight[e]
            \/ /\ inflight[Picked] = inflight[e]
               /\ \/ Weight(Picked) > Weight(e)
                  \/ Weight(Picked) = Weight(e) /\ Picked < e
=============================================================================
