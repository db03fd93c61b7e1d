------------------------- MODULE PoolSelectionProofs -------------------------
(***************************************************************************)
(* What selectEndpoint keeps to, for every pool, every counter width and   *)
(* every set of requests: one endpoint for each value of the counter and   *)
(* fair runs under the rotating strategies; under least_inflight a choice  *)
(* that is only as stale as the moves of others make it.  First come the   *)
(* facts about UpstreamPool's operators, for every set of candidates and   *)
(* every weight.  The library's induction theorems cannot be used by the   *)
(* provers; where something is true of each candidate in turn, the least   *)
(* or the greatest one that breaks it does the same service.               *)
(***************************************************************************)
EXTENDS PoolSelection, FiniteSetTheorems, SequenceTheorems, TLAPS

LEMMA LeastElement ==
    ASSUME NEW S \in SUBSET Nat, S # {}
    PROVE  \E m \in S : \A k \in S : m <= k
<1>1. \E m \in S : \A k \in S : <<k, m>> \notin OpToRel(<, Nat)
  BY NatLessThanWellFounded, WFMin
<1>2. PICK m \in S : \A k \in S : <<k, m>> \notin OpToRel(<, Nat)
  BY <1>1
<1>3. \A k \in S : k \in Nat /\ m \in Nat /\ ~(k < m)
  BY <1>2 DEF OpToRel
<1> QED
  BY <1>3

LEMMA GreatestElement ==
    ASSUME NEW S \in SUBSET Nat, S # {}, NEW b \in Nat, \A k \in S : k <= b
    PROVE  \E m \in S : \A k \in S : k <= m
<1> DEFINE T == {b - k : k \in S}
<1>1. T \in SUBSET Nat /\ T # {}
  <2>1. \A k \in S : k \in Nat /\ k <= b
    OBVIOUS
  <2>2. \A k \in S : b - k \in Nat
    BY <2>1
  <2> QED
    BY <2>2
<1>2. PICK m \in T : \A k \in T : m <= k
  BY <1>1, LeastElement
<1>3. PICK n \in S : m = b - n
  OBVIOUS
<1>4. ASSUME NEW k \in S PROVE k <= n
  <2>1. k \in Nat /\ n \in Nat /\ b - k \in T
    OBVIOUS
  <2>2. b - n <= b - k
    BY <1>2, <1>3, <2>1
  <2> HIDE DEF T
  <2> QED
    BY <2>1, <2>2
<1> QED
  BY <1>4

(* Candidates are finitely many, and numbers.                              *)
LEMMA CandidatesFinite ==
    ASSUME NEW cands \in SUBSET Eps
    PROVE  /\ IsFiniteSet(cands) /\ Cardinality(cands) \in Nat
           /\ \A e \in cands : e \in Nat /\ e >= 1 /\ e <= Len(Endpoints)
<1>1. Eps = 1..Len(Endpoints) /\ Len(Endpoints) \in Nat
  BY PoolAssumption DEF Eps
<1>2. IsFiniteSet(Eps)
  BY <1>1, FS_Interval
<1>3. IsFiniteSet(cands)
  BY <1>2, FS_Subset
<1>4. Cardinality(cands) \in Nat
  BY <1>3, FS_CardinalityType
<1>5. \A e \in cands : e \in 1..Len(Endpoints)
  BY <1>1
<1> QED
  BY <1>1, <1>3, <1>4, <1>5
-----------------------------------------------------------------------------
(* Positions in the slice of candidates: later endpoints come later, and   *)
(* every position holds one.                                               *)
LEMMA IndexGrows ==
    ASSUME NEW cands \in SUBSET Eps, NEW d \in cands, NEW e \in cands, d < e
    PROVE  Index(cands, d) < Index(cands, e)
<1> DEFINE below(x) == {c \in cands : c < x}
<1>1. /\ d \in Nat /\ e \in Nat /\ \A c \in cands : c \in Nat
      /\ below(d) \in SUBSET Eps /\ below(e) \in SUBSET Eps
  BY CandidatesFinite
<1>2. below(d) \subseteq below(e) /\ d \in below(e) /\ d \notin below(d)
  <2>1. ASSUME NEW c \in cands, c < d PROVE c < e
    BY <1>1, <2>1
  <2>2. ~(d < d)
    BY <1>1
  <2> QED
    BY <2>1, <2>2
<1>3. /\ IsFiniteSet(below(e)) /\ Cardinality(below(e)) \in Nat
      /\ Cardinality(below(d)) \in Nat
  BY <1>1, CandidatesFinite
<1>4. Cardinality(below(d)) <= Cardinality(below(e)) /\ below(d) # below(e)
  BY <1>2, <1>3, FS_Subset
<1>5. Cardinality(below(d)) # Cardinality(below(e))
  BY <1>2, <1>3, <1>4, FS_Subset
<1> QED
  BY <1>3, <1>4, <1>5 DEF Index

LEMMA IndexRange ==
    ASSUME NEW cands \in SUBSET Eps, NEW e \in cands
    PROVE  Index(cands, e) \in 0..(Cardinality(cands) - 1)
<1> DEFINE below == {c \in cands : c < e}
<1>1. below \in SUBSET cands /\ e \notin below
  BY CandidatesFinite
<1>2. IsFiniteSet(cands) /\ Cardinality(cands) \in Nat /\ Cardinality(below) \in Nat
  BY <1>1, CandidatesFinite
<1>3. Cardinality(below) <= Cardinality(cands)
  BY <1>1, <1>2, FS_Subset
<1>4. Cardinality(below) # Cardinality(cands)
  BY <1>1, <1>2, FS_Subset
<1> QED
  BY <1>2, <1>3, <1>4 DEF Index

LEMMA IndexInjective ==
    ASSUME NEW cands \in SUBSET Eps, NEW d \in cands, NEW e \in cands,
           Index(cands, d) = Index(cands, e)
    PROVE  d = e
<1>1. d \in Nat /\ e \in Nat
  BY CandidatesFinite
<1>2. Index(cands, d) \in Int /\ Index(cands, e) \in Int
  BY IndexRange
<1> QED
  BY <1>1, <1>2, IndexGrows

LEMMA IndexOnto ==
    ASSUME NEW cands \in SUBSET Eps, NEW k \in 0..(Cardinality(cands) - 1)
    PROVE  \E e \in cands : Index(cands, e) = k
<1> DEFINE n == Cardinality(cands)
           index == [e \in cands |-> Index(cands, e)]
<1>1. n \in Nat /\ IsFiniteSet(cands)
  BY CandidatesFinite
<1>2. IsFiniteSet(0..(n - 1)) /\ Cardinality(0..(n - 1)) = n
  BY <1>1, FS_Interval
<1>3. index \in Injection(cands, 0..(n - 1))
  BY IndexRange, IndexInjective DEF Injection, IsInjective
<1>4. index \in Surjection(cands, 0..(n - 1))
  BY <1>2, <1>3, FS_Injection
<1> QED
  BY <1>4 DEF Surjection
-----------------------------------------------------------------------------
(* Sums of weights: tickets of different candidates are different, so that *)
(* a sum over disjoint sets is the sum of the two.                         *)
LEMMA WeightType == ASSUME NEW e \in Eps PROVE Weight(e) \in Nat /\ Weight(e) >= 1
BY PoolAssumption DEF Weight, Eps

LEMMA TicketsOfOne ==
    ASSUME NEW e \in Eps
    PROVE  IsFiniteSet({e} \X (1..Weight(e))) /\ TotalWeight({e}) = Weight(e)
<1>1. Weight(e) \in Nat /\ Weight(e) >= 1
  BY WeightType
<1>2. IsFiniteSet({e}) /\ Cardinality({e}) = 1
  BY FS_Singleton
<1>3. IsFiniteSet(1..Weight(e)) /\ Cardinality(1..Weight(e)) = Weight(e)
  BY <1>1, FS_Interval
<1> DEFINE own == {e} \X (1..Weight(e))
<1>4. /\ IsFiniteSet(own)
      /\ Cardinality(own) = Cardinality({e}) * Cardinality(1..Weight(e))
  BY <1>2, <1>3, FS_Product, Zenon
<1>5. Tickets({e}) = own
  BY DEF Tickets
<1> HIDE DEF own
<1>6. Cardinality(own) = Weight(e)
  BY <1>1, <1>2, <1>3, <1>4
<1>7. TotalWeight({e}) = Weight(e)
  BY <1>5, <1>6 DEF TotalWeight
<1> USE DEF own
<1> QED
  BY <1>4, <1>7

LEMMA TicketsFinite ==
    ASSUME NEW cands \in SUBSET Eps
    PROVE  IsFiniteSet(Tickets(cands)) /\ TotalWeight(cands) \in Nat
<1> DEFINE own == {{e} \X (1..Weight(e)) : e \in cands}
           ownOf == [e \in cands |-> {e} \X (1..Weight(e))]
<1>1. ownOf \in Surjection(cands, own)
  BY DEF Surjection
<1>2. IsFiniteSet(cands)
  BY CandidatesFinite
<1>3. IsFiniteSet(own)
  BY <1>1, <1>2, FS_Surjection
<1>4. \A T \in own : IsFiniteSet(T)
  BY TicketsOfOne
<1>5. IsFiniteSet(UNION own)
  BY <1>3, <1>4, FS_UNION
<1> QED
  BY <1>5, FS_CardinalityType DEF Tickets, TotalWeight

LEMMA WeightsAdd ==
    ASSUME NEW S \in SUBSET Eps, NEW T \in SUBSET Eps, S \cap T = {}
    PROVE  TotalWeight(S \cup T) = TotalWeight(S) + TotalWeight(T)
<1>1. Tickets(S \cup T) = Tickets(S) \cup Tickets(T)
  BY DEF Tickets
<1>2. Tickets(S) \cap Tickets(T) = {}
  <2> SUFFICES ASSUME NEW t \in Tickets(S), t \in Tickets(T) PROVE FALSE
    OBVIOUS
  <2>1. PICK d \in S : t \in {d} \X (1..Weight(d))
    BY DEF Tickets
  <2>2. PICK e \in T : t \in {e} \X (1..Weight(e))
    BY DEF Tickets
  <2>3. t[1] = d /\ t[1] = e
    BY <2>1, <2>2
  <2> QED
    BY <2>3
<1>3. /\ IsFiniteSet(Tickets(S)) /\ IsFiniteSet(Tickets(T))
      /\ TotalWeight(S) \in Nat /\ TotalWeight(T) \in Nat
  BY TicketsFinite
<1>4. Cardinality(Tickets(S) \cup Tickets(T)) =
        Cardinality(Tickets(S)) + Cardinality(Tickets(T))
          - Cardinality(Tickets(S) \cap Tickets(T))
  BY <1>3, FS_Union
<1>5. Cardinality(Tickets(S) \cap Tickets(T)) = 0
  BY <1>2, FS_EmptySet
<1>6. Cardinality(Tickets(S \cup T)) = Cardinality(Tickets(S)) + Cardinality(Tickets(T))
  <2> DEFINE s == Cardinality(Tickets(S))
             t == Cardinality(Tickets(T))
             common == Cardinality(Tickets(S) \cap Tickets(T))
  <2>1. s \in Nat /\ t \in Nat
    BY <1>3 DEF TotalWeight
  <2>2. Cardinality(Tickets(S \cup T)) = s + t - common /\ common = 0
    BY <1>1, <1>4, <1>5, Zenon
  <2> HIDE DEF s, t, common
  <2>3. Cardinality(Tickets(S \cup T)) = s + t
    BY <2>1, <2>2
  <2> USE DEF s, t
  <2> QED
    BY <2>3
<1> QED
  BY <1>6 DEF TotalWeight

LEMMA WeightsGrow ==
    ASSUME NEW T \in SUBSET Eps, NEW S \in SUBSET T
    PROVE  TotalWeight(S) <= TotalWeight(T)
<1>1. S \cup (T \ S) = T /\ S \cap (T \ S) = {} /\ S \in SUBSET Eps /\ T \ S \in SUBSET Eps
  OBVIOUS
<1>2. TotalWeight(T) = TotalWeight(S) + TotalWeight(T \ S)
  BY <1>1, WeightsAdd
<1>3. TotalWeight(S) \in Nat /\ TotalWeight(T \ S) \in Nat
  BY <1>1, TicketsFinite
<1> QED
  BY <1>2, <1>3

(* The stretches of the candidates lie one behind the other, ...           *)
LEMMA StretchEnd ==
    ASSUME NEW cands \in SUBSET Eps, NEW e \in cands
    PROVE  /\ WeightBefore(cands, e) \in Nat
           /\ WeightBefore(cands, e) + Weight(e) = TotalWeight({d \in cands : d <= e})
           /\ WeightBefore(cands, e) + Weight(e) <= TotalWeight(cands)
<1> DEFINE below == {d \in cands : d < e}
           upTo == {d \in cands : d <= e}
<1>1. \A d \in cands : d \in Nat
  BY CandidatesFinite
<1>2. upTo = below \cup {e} /\ below \cap {e} = {}
  BY <1>1
<1>3. below \in SUBSET Eps /\ {e} \in SUBSET Eps /\ upTo \in SUBSET cands
  OBVIOUS
<1>4. TotalWeight(upTo) = TotalWeight(below) + TotalWeight({e})
  BY <1>2, <1>3, WeightsAdd
<1>5. TotalWeight(upTo) <= TotalWeight(cands)
  BY <1>3, WeightsGrow
<1> QED
  BY <1>3, <1>4, <1>5, TicketsOfOne, TicketsFinite DEF WeightBefore

LEMMA StretchesDisjoint ==
    ASSUME NEW cands \in SUBSET Eps, NEW d \in cands, NEW e \in cands, d < e
    PROVE  WeightBefore(cands, d) + Weight(d) <= WeightBefore(cands, e)
<1> DEFINE upTo == {c \in cands : c <= d}
           below == {c \in cands : c < e}
<1>1. \A c \in cands : c \in Nat
  BY CandidatesFinite
<1>2. ASSUME NEW c \in cands, c <= d PROVE c < e
  BY <1>1, <1>2
<1>3. upTo \in SUBSET below /\ below \in SUBSET Eps
  BY <1>2
<1>4. TotalWeight(upTo) <= TotalWeight(below)
  BY <1>3, WeightsGrow
<1> QED
  BY <1>4, StretchEnd DEF WeightBefore

(* ... from 0 up to the sum of all weights.                                *)
LEMMA WalkFinds ==
    ASSUME NEW cands \in SUBSET Eps, NEW idx \in Nat, idx < TotalWeight(cands)
    PROVE  \E e \in cands : /\ WeightBefore(cands, e) <= idx
                            /\ idx < WeightBefore(cands, e) + Weight(e)
<1> DEFINE ends == {e \in cands : idx < WeightBefore(cands, e) + Weight(e)}
<1>1. \A c \in cands : c \in Nat /\ c <= Len(Endpoints)
  BY CandidatesFinite
<1>2. Len(Endpoints) \in Nat
  BY PoolAssumption
<1>3. cands # {}
  <2>1. TotalWeight({}) = 0
    <3>1. Tickets({}) = {}
      BY DEF Tickets
    <3> QED
      BY <3>1, FS_EmptySet DEF TotalWeight
  <2> QED
    BY <2>1
<1>4. ends # {}
  <2>1. PICK last \in cands : \A d \in cands : d <= last
    BY <1>1, <1>2, <1>3, GreatestElement
  <2>2. {d \in cands : d <= last} = cands
    BY <2>1
  <2>3. WeightBefore(cands, last) + Weight(last) = TotalWeight(cands)
    BY <2>2, StretchEnd
  <2> QED
    BY <2>3
<1>5. ends \in SUBSET Nat
  BY <1>1
<1>6. PICK e \in ends : \A d \in ends : e <= d
  BY <1>4, <1>5, LeastElement
<1>7. WeightBefore(cands, e) <= idx
  <2> DEFINE below == {d \in cands : d < e}
  <2>1. CASE below = {}
    <3>1. Tickets(below) = {}
      BY <2>1 DEF Tickets
    <3> QED
      BY <3>1, FS_EmptySet DEF WeightBefore, TotalWeight
  <2>2. CASE below # {}
    <3>1. below \in SUBSET Nat /\ \A d \in below : d <= Len(Endpoints)
      BY <1>1
    <3>2. PICK d \in below : \A c \in below : c <= d
      BY <1>2, <2>2, <3>1, GreatestElement
    <3>3. e \in Nat /\ d \in Nat /\ d < e
      BY <1>1, <3>2
    <3>4. d \notin ends
      BY <1>6, <3>3
    <3>5. {c \in cands : c <= d} = below
      <4>1. ASSUME NEW c \in cands, c <= d PROVE c < e
        BY <1>1, <3>3, <4>1
      <4> QED
        BY <3>2, <4>1
    <3>6. WeightBefore(cands, d) + Weight(d) = WeightBefore(cands, e)
      BY <3>5, StretchEnd DEF WeightBefore
    <3>7. WeightBefore(cands, d) + Weight(d) \in Int
      <4>1. d \in cands /\ d \in Eps
        OBVIOUS
      <4>2. WeightBefore(cands, d) \in Nat /\ Weight(d) \in Nat
        BY <4>1, StretchEnd, WeightType
      <4> QED
        BY <4>2
    <3> QED
      BY <3>4, <3>6, <3>7
  <2> QED
    BY <2>1, <2>2
<1> QED
  BY <1>6, <1>7
-----------------------------------------------------------------------------
(* The remainder of the next number.                                       *)
LEMMA NextRemainder ==
    ASSUME NEW n \in Nat, NEW R \in Nat \ {0}
    PROVE  (n + 1) % R = IF n % R = R - 1 THEN 0 ELSE (n % R) + 1
<1> DEFINE q == n \div R
           r == n % R
           p == (n + 1) \div R
           s == (n + 1) % R
<1>1. q \in Nat /\ r \in 0..(R - 1) /\ n = R * q + r
  OBVIOUS
<1>2. p \in Nat /\ s \in 0..(R - 1) /\ n + 1 = R * p + s
  OBVIOUS
<1> HIDE DEF q, r, p, s
<1>3. R * (p - q) = 1 + r - s
  <2>1. R * (p - q) = R * p - R * q /\ R * p \in Int /\ R * q \in Int
    BY <1>1, <1>2
  <2> QED
    BY <1>1, <1>2, <2>1
<1>4. p - q <= 1
  <2> SUFFICES ASSUME p - q >= 2 PROVE FALSE
    BY <1>1, <1>2
  <2>1. R * (p - q) >= R * 2
    BY <1>1, <1>2
  <2> QED
    BY <1>1, <1>2, <1>3, <2>1
<1>5. p - q >= 0
  <2> SUFFICES ASSUME p - q <= -1 PROVE FALSE
    BY <1>1, <1>2
  <2>1. R * (p - q) <= R * (-1)
    BY <1>1, <1>2
  <2> QED
    BY <1>1, <1>2, <1>3, <2>1
<1>6. CASE p - q = 0
  <2>1. R * (p - q) = 0
    BY <1>6
  <2> QED
    BY <1>1, <1>2, <1>3, <2>1 DEF s, r
<1>7. CASE p - q = 1
  <2>1. R * (p - q) = R
    BY <1>7
  <2> QED
    BY <1>1, <1>2, <1>3, <2>1 DEF s, r
<1> QED
  BY <1>1, <1>2, <1>4, <1>5, <1>6, <1>7

(* The rotating strategies in the same terms: a round of selections among  *)
(* cands has RoundLen places, and e is picked at the places of a stretch   *)
(* that begins at Lead and is as long as its share.                        *)
Rotating == {"round_robin", "weighted_round_robin"}
ShareOf(strat, e) == IF strat = "round_robin" THEN 1 ELSE Weight(e)
Lead(strat, cands, e) ==
    IF strat = "round_robin" THEN Index(cands, e) ELSE WeightBefore(cands, e)
RoundLen(strat, cands) ==
    IF strat = "round_robin" THEN Cardinality(cands) ELSE TotalWeight(cands)
HasPlace(strat, cands, e, place) ==
    /\ Lead(strat, cands, e) <= place
    /\ place < Lead(strat, cands, e) + ShareOf(strat, e)

LEMMA RoundShape ==
    ASSUME NEW strat \in Rotating, NEW cands \in SUBSET Eps, cands # {}
    PROVE  /\ RoundLen(strat, cands) \in Nat \ {0}
           /\ \A e \in cands : /\ Lead(strat, cands, e) \in Nat
                               /\ ShareOf(strat, e) \in Nat \ {0}
                               /\ Lead(strat, cands, e) + ShareOf(strat, e)
                                    <= RoundLen(strat, cands)
<1>1. PICK some \in cands : TRUE
  OBVIOUS
<1>2. CASE strat = "round_robin"
  <2>1. Cardinality(cands) \in Nat
    BY CandidatesFinite
  <2>2. \A e \in cands : Index(cands, e) \in 0..(Cardinality(cands) - 1)
    BY IndexRange
  <2> QED
    BY <1>1, <1>2, <2>1, <2>2 DEF RoundLen, Lead, ShareOf
<1>3. CASE strat # "round_robin"
  <2>1. \A e \in cands :
          /\ WeightBefore(cands, e) \in Nat /\ Weight(e) \in Nat /\ Weight(e) >= 1
          /\ WeightBefore(cands, e) + Weight(e) <= TotalWeight(cands)
    BY StretchEnd, WeightType
  <2>2. TotalWeight(cands) \in Nat
    BY TicketsFinite
  <2> QED
    BY <1>1, <1>3, <2>1, <2>2 DEF RoundLen, Lead, ShareOf
<1> QED
  BY <1>2, <1>3

(* One candidate has each place.                                           *)
LEMMA OneHasPlace ==
    ASSUME NEW strat \in Rotating, NEW cands \in SUBSET Eps,
           NEW place \in 0..(RoundLen(strat, cands) - 1)
    PROVE  \E e \in cands : \A d \in cands : HasPlace(strat, cands, d, place) <=> d = e
<1>1. CASE strat = "round_robin"
  <2>1. \A d \in cands : Index(cands, d) \in Int
    BY IndexRange
  <2>2. PICK e \in cands : Index(cands, e) = place
    BY <1>1, IndexOnto DEF RoundLen
  <2>3. \A d \in cands : Index(cands, d) = place => d = e
    BY <2>2, IndexInjective
  <2> QED
    BY <1>1, <2>1, <2>2, <2>3 DEF HasPlace, Lead, ShareOf
<1>2. CASE strat # "round_robin"
  <2>1. TotalWeight(cands) \in Nat /\ place \in Nat /\ place < TotalWeight(cands)
    BY <1>2, TicketsFinite DEF RoundLen
  <2>2. PICK e \in cands : /\ WeightBefore(cands, e) <= place
                          /\ place < WeightBefore(cands, e) + Weight(e)
    BY <2>1, WalkFinds
  <2>3. ASSUME NEW d \in cands, WeightBefore(cands, d) <= place,
               place < WeightBefore(cands, d) + Weight(d)
        PROVE  d = e
    <3>1. /\ WeightBefore(cands, d) \in Nat /\ Weight(d) \in Nat
          /\ WeightBefore(cands, e) \in Nat /\ Weight(e) \in Nat
      BY StretchEnd, WeightType
    <3>2. d \in Nat /\ e \in Nat
      BY CandidatesFinite
    <3>3. ~(d < e)
      BY <2>1, <2>2, <2>3, <3>1, StretchesDisjoint
    <3>4. ~(e < d)
      BY <2>1, <2>2, <2>3, <3>1, StretchesDisjoint
    <3> QED
      BY <3>2, <3>3, <3>4
  <2> QED
    BY <1>2, <2>2, <2>3 DEF HasPlace, Lead, ShareOf
<1> QED
  BY <1>1, <1>2

(* The counters at which the pick is the place of the counter in its       *)
(* round: all but those that int turns negative.                           *)
Straight(strat, cands, n) ==
    strat = "round_robin" => n < RRMod \div 2 \/ Cardinality(cands) = 1

LEMMA PicksAtPlace ==
    ASSUME NEW strat \in Rotating, NEW cands \in SUBSET Eps, cands # {},
           NEW n \in 0..(RRMod - 1), Straight(strat, cands, n)
    PROVE  Picks(strat, cands, n) =
             {e \in cands : HasPlace(strat, cands, e, n % RoundLen(strat, cands))}
<1>1. CASE strat = "weighted_round_robin"
  BY <1>1 DEF Picks, WeightedRoundRobin, HasPlace, RoundLen, Lead, ShareOf
<1>2. CASE strat = "round_robin"
  <2> DEFINE size == Cardinality(cands)
  <2>1. size \in Nat \ {0} /\ \A e \in cands : Index(cands, e) \in 0..(size - 1)
    BY <1>2, RoundShape, IndexRange DEF RoundLen
  <2>2. RRMod \in Nat /\ RRMod \div 2 \in Nat
    BY PoolAssumption
  <2>3. GoRem(ToInt(n), size) = n % size
    <3>1. CASE n < RRMod \div 2
      <4>1. ToInt(n) = n
        BY <2>2, <3>1 DEF ToInt
      <4> QED
        BY <4>1 DEF GoRem
    <3>2. CASE ~(n < RRMod \div 2)
      <4>1. size = 1
        BY <1>2, <3>2 DEF Straight
      <4>2. n \in Nat /\ RRMod - n \in Nat /\ RRMod - n >= 1
        BY <2>2
      <4>3. ToInt(n) = n - RRMod
        BY <2>2, <3>2 DEF ToInt
      <4>4. n % 1 = 0 /\ (RRMod - n) % 1 = 0
        BY <4>2
      <4>5. -(n - RRMod) = RRMod - n /\ ~(n - RRMod >= 0)
        BY <2>2, <4>2
      <4>6. GoRem(n - RRMod, 1) = 0
        BY <4>4, <4>5 DEF GoRem
      <4> QED
        BY <4>1, <4>3, <4>4, <4>6
    <3> QED
      BY <3>1, <3>2
  <2>4. n % size \in Nat
    BY <2>1
  <2> HIDE DEF size
  <2>5. Picks(strat, cands, n) = {e \in cands : Index(cands, e) = n % size}
    BY <1>2, <2>3 DEF Picks, RoundRobin, size
  <2>6. \A e \in cands : Index(cands, e) = n % size <=>
                           Index(cands, e) <= n % size /\ n % size < Index(cands, e) + 1
    BY <2>1, <2>4
  <2> QED
    BY <1>2, <2>5, <2>6 DEF HasPlace, RoundLen, Lead, ShareOf, size
<1> QED
  BY <1>1, <1>2 DEF Rotating

-----------------------------------------------------------------------------
(* What a selection picks.                                                 *)
LEMMA AskedCandidates ==
    ASSUME NEW q \in Asked
    PROVE  CandidatesFor(q) \in SUBSET Eps /\ CandidatesFor(q) # {}
BY ServableAssumption DEF CandidatesFor, Candidates, Supporting

(* Negative indices: none but a multiple of the candidates finds one.      *)
LEMMA NegativePicks ==
    ASSUME NEW cands \in SUBSET Eps, cands # {},
           NEW n \in 0..(RRMod - 1), ~(n < RRMod \div 2)
    PROVE  IF (RRMod - n) % Cardinality(cands) # 0
           THEN Picks("round_robin", cands, n) = {}
           ELSE Picks("round_robin", cands, n) = {e \in cands : Index(cands, e) = 0}
<1> DEFINE size == Cardinality(cands)
           left == (RRMod - n) % size
<1>1. size \in Nat \ {0}
  BY RoundShape DEF RoundLen, Rotating
<1>2. \A e \in cands : Index(cands, e) \in 0..(size - 1)
  BY IndexRange
<1>3. RRMod \in Nat /\ RRMod \div 2 \in Nat
  BY PoolAssumption
<1>4. ToInt(n) = n - RRMod /\ -(n - RRMod) = RRMod - n /\ ~(n - RRMod >= 0)
  BY <1>3 DEF ToInt
<1>5. RRMod - n \in Nat
  BY <1>3
<1>6. left \in 0..(size - 1)
  BY <1>1, <1>5
<1> HIDE DEF size
<1>7. GoRem(ToInt(n), size) = -left
  BY <1>4 DEF GoRem
<1> HIDE DEF left
<1>8. Picks("round_robin", cands, n) = {e \in cands : Index(cands, e) = -left}
  BY <1>7 DEF Picks, RoundRobin, size
<1>9. \A e \in cands : Index(cands, e) \in Nat
  BY <1>2
<1> QED
  BY <1>6, <1>8, <1>9 DEF left, size

CounterInRange == rr \in 0..(RRMod - 1)

LEMMA CounterNext == CounterInRange /\ [Next]_vars => CounterInRange'
<1>1. RRMod \in Nat \ {0}
  BY PoolAssumption
<1>2. \A n \in 0..(RRMod - 1) : (n + 1) % RRMod \in 0..(RRMod - 1)
  BY <1>1
<1> QED
  BY <1>2 DEF CounterInRange, Next, vars, SelectByRotation, SelectFor, SelectPanics, AdvanceRR,
     SelectByLoad, StartSort, SortStep, LoadFirst, CompareEqual, CompareLess, Place,
     ReturnFirst, OthersMove

LEMMA CounterInvariant == Spec => []CounterInRange
<1>1. Init => CounterInRange
  BY PoolAssumption DEF CounterInRange, Init, PoolInit
<1> QED
  BY <1>1, CounterNext, PTL DEF Spec

(* A draw of weighted_random finds e for as many numbers as e weighs.      *)
LEMMA DrawsByWeight ==
    ASSUME NEW cands \in SUBSET Eps, cands # {}, NEW e \in cands
    PROVE  Weight(e) = Cardinality({n \in Draws(cands) : WeightedRoundRobin(cands, n) = {e}})
<1> DEFINE strat == "weighted_round_robin"
           first == WeightBefore(cands, e)
           found == {n \in Draws(cands) : WeightedRoundRobin(cands, n) = {e}}
<1>1. /\ first \in Nat /\ Weight(e) \in Nat \ {0} /\ TotalWeight(cands) \in Nat \ {0}
      /\ first + Weight(e) <= TotalWeight(cands)
  BY RoundShape DEF RoundLen, Rotating, Lead, ShareOf
<1>2. ASSUME NEW n \in Draws(cands)
      PROVE  WeightedRoundRobin(cands, n) = {e} <=> first <= n /\ n < first + Weight(e)
  <2>1. n \in Nat /\ n < TotalWeight(cands) /\ n % TotalWeight(cands) = n
    BY <1>1 DEF Draws
  <2>2. WeightedRoundRobin(cands, n) =
          {d \in cands : WeightBefore(cands, d) <= n
                           /\ n < WeightBefore(cands, d) + Weight(d)}
    BY <2>1 DEF WeightedRoundRobin
  <2>3. PICK d \in cands : \A c \in cands : HasPlace(strat, cands, c, n) <=> c = d
    BY <1>1, <2>1, OneHasPlace DEF RoundLen, Rotating
  <2>4. WeightedRoundRobin(cands, n) = {d}
    BY <2>2, <2>3 DEF HasPlace, Lead, ShareOf
  <2> QED
    BY <2>2, <2>4
<1>3. found = first..(first + Weight(e) - 1)
  BY <1>1, <1>2 DEF Draws
<1>4. Cardinality(first..(first + Weight(e) - 1)) = Weight(e)
  <2> DEFINE last == first + Weight(e) - 1
  <2>1. first \in Int /\ last \in Int /\ ~(first > last) /\ last - first + 1 = Weight(e)
    BY <1>1
  <2> HIDE DEF first, last
  <2>2. Cardinality(first..last) = IF first > last THEN 0 ELSE last - first + 1
    BY <2>1, FS_Interval
  <2>3. Cardinality(first..last) = Weight(e)
    BY <2>1, <2>2
  <2> QED
    BY <2>3 DEF last
<1> QED
  BY <1>3, <1>4

(* For every value of the counter the rotating strategies return one       *)
(* endpoint (round_robin none, with a panic, where int(n) is negative and  *)
(* no multiple of the candidates), and weightedRandom draws by weight.     *)
THEOREM OneEndpoint == Spec => []OnePick
<1>1. CounterInRange => OnePick
  <2> SUFFICES ASSUME rr \in 0..(RRMod - 1), NEW q \in Asked,
                      NEW cands, cands = CandidatesFor(q)
               PROVE  /\ Rotates => Cardinality(Picks(strategy, cands, rr)) =
                           IF strategy = "round_robin" /\ rr >= RRMod \div 2
                              /\ (RRMod - rr) % Cardinality(cands) # 0
                           THEN 0 ELSE 1
                      /\ \A e \in cands : Weight(e) =
                           Cardinality({n \in Draws(cands) :
                                          WeightedRoundRobin(cands, n) = {e}})
    BY DEF OnePick, CounterInRange
  <2>1. cands \in SUBSET Eps /\ cands # {}
    BY AskedCandidates
  <2>2. RRMod \in Nat /\ RRMod \div 2 \in Nat
    BY PoolAssumption
  <2>3. ASSUME strategy \in Rotating, Straight(strategy, cands, rr)
        PROVE  Cardinality(Picks(strategy, cands, rr)) = 1
    <3> DEFINE place == rr % RoundLen(strategy, cands)
    <3>1. RoundLen(strategy, cands) \in Nat \ {0}
      BY <2>1, <2>3, RoundShape
    <3>2. place \in 0..(RoundLen(strategy, cands) - 1)
      BY <2>2, <3>1
    <3> HIDE DEF place
    <3>3. PICK e \in cands : \A d \in cands : HasPlace(strategy, cands, d, place) <=> d = e
      BY <2>1, <2>3, <3>2, OneHasPlace
    <3>4. Picks(strategy, cands, rr) = {d \in cands : HasPlace(strategy, cands, d, place)}
      BY <2>1, <2>3, PicksAtPlace DEF place
    <3>5. Picks(strategy, cands, rr) = {e}
      BY <3>3, <3>4
    <3> QED
      BY <3>5, FS_Singleton
  <2>4. ASSUME strategy = "round_robin", ~(rr < RRMod \div 2)
        PROVE  Cardinality(Picks(strategy, cands, rr)) =
                 IF (RRMod - rr) % Cardinality(cands) # 0 THEN 0 ELSE 1
    <3>1. Cardinality(cands) \in Nat \ {0}
      BY <2>1, RoundShape DEF RoundLen, Rotating
    <3>2. CASE (RRMod - rr) % Cardinality(cands) # 0
      BY <2>1, <2>4, <3>2, NegativePicks, FS_EmptySet
    <3>3. CASE (RRMod - rr) % Cardinality(cands) = 0
      <4>1. Picks(strategy, cands, rr) = {e \in cands : Index(cands, e) = 0}
        BY <2>1, <2>4, <3>3, NegativePicks
      <4>2. PICK e \in cands : Index(cands, e) = 0
        BY <2>1, <3>1, IndexOnto
      <4>3. \A d \in cands : Index(cands, d) = 0 => d = e
        BY <2>1, <4>2, IndexInjective
      <4>4. Picks(strategy, cands, rr) = {e}
        BY <4>1, <4>2, <4>3
      <4> QED
        BY <3>3, <4>4, FS_Singleton
    <3> QED
      BY <3>2, <3>3
  <2>5. Rotates => strategy \in Rotating
    BY DEF Rotates, Rotating
  <2>6. strategy # "round_robin" \/ rr < RRMod \div 2 => Straight(strategy, cands, rr)
    BY DEF Straight
  <2>7. ASSUME Rotates
        PROVE  Cardinality(Picks(strategy, cands, rr)) =
                 IF strategy = "round_robin" /\ rr >= RRMod \div 2
                    /\ (RRMod - rr) % Cardinality(cands) # 0
                 THEN 0 ELSE 1
    <3>1. rr < RRMod \div 2 <=> ~(rr >= RRMod \div 2)
      BY <2>2
    <3>2. CASE strategy # "round_robin" \/ rr < RRMod \div 2
      BY <2>3, <2>5, <2>6, <2>7, <3>1, <3>2
    <3>3. CASE strategy = "round_robin" /\ ~(rr < RRMod \div 2)
      BY <2>4, <3>1, <3>3
    <3> QED
      BY <3>2, <3>3
  <2> QED
    BY <2>1, <2>7, DrawsByWeight
<1> QED
  BY <1>1, CounterInvariant, PTL
-----------------------------------------------------------------------------
(* How much of e's stretch lies before a place of the round, and what a    *)
(* run among cands has served when the counter reads top: k whole rounds   *)
(* since it began, at some place b, and the part of one that is under way. *)
Reach(strat, cands, e, place) ==
    IF place <= Lead(strat, cands, e) THEN 0
    ELSE IF place >= Lead(strat, cands, e) + ShareOf(strat, e) THEN ShareOf(strat, e)
    ELSE place - Lead(strat, cands, e)

PartServed(strat, cands, e, b, a) ==
    (IF b <= a THEN 0 ELSE ShareOf(strat, e))
      + Reach(strat, cands, e, a) - Reach(strat, cands, e, b)

FairRun(strat, cands, turns, top) ==
    \E k \in 0..top, b \in 0..(RoundLen(strat, cands) - 1) :
        \A e \in cands :
            turns[e] = k * ShareOf(strat, e)
                         + PartServed(strat, cands, e, b, top % RoundLen(strat, cands))

LEMMA ReachShape ==
    ASSUME NEW strat \in Rotating, NEW cands \in SUBSET Eps, NEW e \in cands,
           NEW place \in 0..RoundLen(strat, cands)
    PROVE  /\ Reach(strat, cands, e, place) \in 0..ShareOf(strat, e)
           /\ Reach(strat, cands, e, 0) = 0
           /\ Reach(strat, cands, e, RoundLen(strat, cands)) = ShareOf(strat, e)
           /\ Reach(strat, cands, e, place + 1) =
                Reach(strat, cands, e, place)
                  + IF HasPlace(strat, cands, e, place) THEN 1 ELSE 0
           /\ \A after \in place..RoundLen(strat, cands) :
                Reach(strat, cands, e, place) <= Reach(strat, cands, e, after)
<1> DEFINE size == RoundLen(strat, cands)
           lead == Lead(strat, cands, e)
           share == ShareOf(strat, e)
<1>1. /\ size \in Nat \ {0} /\ lead \in Nat /\ share \in Nat \ {0}
      /\ lead + share <= size
  BY RoundShape
<1>2. place \in Nat
  BY <1>1
<1> HIDE DEF size, lead, share
<1>3. \A x : Reach(strat, cands, e, x) =
                IF x <= lead THEN 0 ELSE IF x >= lead + share THEN share ELSE x - lead
  BY DEF Reach, lead, share
<1>4. HasPlace(strat, cands, e, place) <=> lead <= place /\ place < lead + share
  BY DEF HasPlace, lead, share
<1>5. Reach(strat, cands, e, place) \in 0..share
  BY <1>1, <1>2, <1>3
<1>6. Reach(strat, cands, e, 0) = 0 /\ Reach(strat, cands, e, size) = share
  BY <1>1, <1>3
<1>7. Reach(strat, cands, e, place + 1) =
        Reach(strat, cands, e, place) + IF HasPlace(strat, cands, e, place) THEN 1 ELSE 0
  BY <1>1, <1>2, <1>3, <1>4
<1>8. \A after \in place..size :
        Reach(strat, cands, e, place) <= Reach(strat, cands, e, after)
  BY <1>1, <1>2, <1>3
<1> QED
  BY <1>5, <1>6, <1>7, <1>8 DEF size, share

LEMMA FairStart ==
    ASSUME NEW strat \in Rotating, NEW cands \in SUBSET Eps, cands # {}, NEW n \in Nat
    PROVE  FairRun(strat, cands, NoneServed, n)
<1> DEFINE size == RoundLen(strat, cands)
           b == n % size
<1>1. size \in Nat \ {0}
  BY RoundShape
<1>2. b \in 0..(size - 1) /\ 0 \in 0..n
  BY <1>1
<1>3. ASSUME NEW e \in cands
      PROVE  NoneServed[e] = 0 * ShareOf(strat, e) + PartServed(strat, cands, e, b, b)
  <2>1. NoneServed[e] = 0
    BY DEF NoneServed
  <2>2. Reach(strat, cands, e, b) \in Int /\ b <= b
    BY <1>1, <1>2, ReachShape, RoundShape
  <2>3. PartServed(strat, cands, e, b, b) = 0
    BY <2>2 DEF PartServed
  <2>4. 0 * ShareOf(strat, e) = 0
    BY RoundShape
  <2> QED
    BY <2>1, <2>3, <2>4
<1> QED
  BY <1>2, <1>3 DEF FairRun

LEMMA FairStep ==
    ASSUME NEW strat \in Rotating, NEW cands \in SUBSET Eps, cands # {}, NEW n \in Nat,
           NEW turns \in [Eps -> Nat], FairRun(strat, cands, turns, n),
           NEW e \in Picks(strat, cands, n), n < RRMod, Straight(strat, cands, n)
    PROVE  FairRun(strat, cands, [turns EXCEPT ![e] = @ + 1], n + 1)
<1> DEFINE size == RoundLen(strat, cands)
           a == n % size
           c == (n + 1) % size
           served1 == [turns EXCEPT ![e] = @ + 1]
<1>1. size \in Nat \ {0} /\ a \in 0..(size - 1) /\ a + 1 \in 0..size
  BY RoundShape
<1>2. c = IF a = size - 1 THEN 0 ELSE a + 1
  BY <1>1, NextRemainder
<1>3. PICK k \in 0..n, b \in 0..(size - 1) :
        \A d \in cands : turns[d] = k * ShareOf(strat, d) + PartServed(strat, cands, d, b, a)
  BY DEF FairRun
<1>4. e \in cands /\ \A d \in cands : HasPlace(strat, cands, d, a) <=> d = e
  <2>1. n \in 0..(RRMod - 1)
    BY PoolAssumption
  <2>2. e \in cands /\ HasPlace(strat, cands, e, a)
    BY <2>1, PicksAtPlace
  <2>3. PICK only \in cands : \A d \in cands : HasPlace(strat, cands, d, a) <=> d = only
    BY <1>1, OneHasPlace
  <2> QED
    BY <2>2, <2>3
<1> HIDE DEF size, a, c
<1> DEFINE more == IF c = b THEN k + 1 ELSE k
<1>5. more \in 0..(n + 1)
  OBVIOUS
<1>6. ASSUME NEW d \in cands
      PROVE  served1[d] = more * ShareOf(strat, d) + PartServed(strat, cands, d, b, c)
  <2> DEFINE share == ShareOf(strat, d)
             R(x) == Reach(strat, cands, d, x)
             step == IF HasPlace(strat, cands, d, a) THEN 1 ELSE 0
  <2>1. share \in Nat
    BY RoundShape
  <2>2. R(a) \in Int /\ R(b) \in Int /\ R(a + 1) = R(a) + step /\ R(0) = 0 /\ R(size) = share
    <3>1. a \in 0..size /\ b \in 0..size
      BY <1>1
    <3> QED
      BY <3>1, <2>1, ReachShape DEF size
  <2>3. served1[d] = turns[d] + step
    <3>1. turns[d] \in Nat /\ e \in Eps /\ d \in Eps
      BY <1>4
    <3> QED
      BY <1>4, <3>1
  <2>4. turns[d] = k * share + (IF b <= a THEN 0 ELSE share) + R(a) - R(b)
    <3>1. PartServed(strat, cands, d, b, a) = (IF b <= a THEN 0 ELSE share) + R(a) - R(b)
      BY DEF PartServed
    <3>2. k * share \in Int
      BY <2>1
    <3> HIDE DEF share, R
    <3>3. turns[d] = k * share + PartServed(strat, cands, d, b, a)
      BY <1>3 DEF share
    <3> QED
      BY <2>1, <2>2, <3>1, <3>2, <3>3
  <2>5. PartServed(strat, cands, d, b, c) = (IF b <= c THEN 0 ELSE share) + R(c) - R(b)
    BY DEF PartServed
  <2>6. (k + 1) * share = k * share + share /\ k * share \in Int
    BY <2>1
  <2> DEFINE whole == k * share
  <2>7. more * share = IF c = b THEN whole + share ELSE whole
    BY <2>6
  <2> HIDE DEF share, R, step, served1, more, whole
  <2>8. whole \in Int /\ step \in Int
    BY <2>6 DEF whole, step
  <2>9. served1[d] = whole + (IF b <= a THEN 0 ELSE share) + R(a + 1) - R(b)
    BY <2>1, <2>2, <2>3, <2>4, <2>8 DEF whole
  <2>10. whole + (IF b <= a THEN 0 ELSE share) + R(a + 1) - R(b) =
           (IF c = b THEN whole + share ELSE whole)
             + ((IF b <= c THEN 0 ELSE share) + R(c) - R(b))
    <3>1. CASE a = size - 1
      <4>1. c = 0 /\ a + 1 = size /\ b <= a
        BY <1>1, <1>2, <3>1
      <4>2. R(a + 1) = share /\ R(c) = 0
        BY <2>2, <4>1
      <4> QED
        BY <1>1, <2>1, <2>2, <2>8, <4>1, <4>2
    <3>2. CASE a # size - 1
      <4>1. c = a + 1
        BY <1>2, <3>2
      <4>2. R(c) \in Int
        BY <2>2, <2>8, <4>1
      <4> QED
        BY <1>1, <2>1, <2>2, <2>8, <4>1, <4>2
    <3> QED
      BY <3>1, <3>2
  <2>11. served1[d] = more * share + PartServed(strat, cands, d, b, c)
    BY <2>5, <2>7, <2>9, <2>10
  <2> QED
    BY <2>11 DEF share
<1> HIDE DEF more, served1
<1>7. FairRun(strat, cands, served1, n + 1)
  BY <1>5, <1>6 DEF FairRun, size, c
<1> QED
  BY <1>7 DEF served1

LEMMA FairMeans ==
    ASSUME NEW strat \in Rotating, NEW cands \in SUBSET Eps, cands # {}, NEW top \in Nat,
           NEW turns, FairRun(strat, cands, turns, top)
    PROVE  \E rounds \in 0..top :
             \A e \in cands : /\ turns[e] >= rounds * ShareOf(strat, e)
                              /\ turns[e] <= (rounds + 1) * ShareOf(strat, e)
<1> DEFINE size == RoundLen(strat, cands)
           a == top % size
<1>1. size \in Nat \ {0} /\ a \in 0..(size - 1)
  BY RoundShape
<1>2. PICK k \in 0..top, b \in 0..(size - 1) :
        \A e \in cands : turns[e] = k * ShareOf(strat, e) + PartServed(strat, cands, e, b, a)
  BY DEF FairRun
<1> HIDE DEF size, a
<1>3. ASSUME NEW e \in cands
      PROVE  /\ turns[e] >= k * ShareOf(strat, e)
             /\ turns[e] <= (k + 1) * ShareOf(strat, e)
  <2> DEFINE share == ShareOf(strat, e)
             R(x) == Reach(strat, cands, e, x)
             whole == k * share
  <2>1. share \in Nat
    BY RoundShape
  <2>2. a \in 0..size /\ b \in 0..size
    BY <1>1
  <2>3. /\ R(a) \in 0..share /\ R(b) \in 0..share
        /\ b <= a => R(b) <= R(a)
        /\ a <= b => R(a) <= R(b)
    BY <2>1, <2>2, ReachShape DEF size
  <2>4. (k + 1) * share = whole + share /\ whole \in Int
    BY <2>1
  <2> HIDE DEF whole, R, share
  <2>5. turns[e] = whole + ((IF b <= a THEN 0 ELSE share) + R(a) - R(b))
    BY <1>2 DEF whole, PartServed, R, share
  <2>6. turns[e] >= whole /\ turns[e] <= whole + share
    BY <2>1, <2>2, <2>3, <2>4, <2>5
  <2> QED
    BY <2>4, <2>6 DEF whole, share
<1> QED
  BY <1>3
-----------------------------------------------------------------------------
(* The current run is fair at every counter value at which the property    *)
(* speaks of it; right after the counter wrapped it still counts as full,  *)
(* and round_robin comes that far with a single candidate only.            *)
Top == IF rr = 0 THEN RRMod ELSE rr
Accountable ==
    strategy = "round_robin" =>
        (rr # 0 /\ rr <= RRMod \div 2) \/ Cardinality(run) = 1

RotationInv ==
    /\ CounterInRange
    /\ strategy \in Strategies /\ run \in SUBSET Eps /\ served \in [Eps -> Nat]
    /\ run # {} =>
         /\ Rotates
         /\ Accountable => FairRun(strategy, run, served, Top)
         /\ strategy = "round_robin" /\ rr = 0 => Cardinality(run) = 1

LEMMA RotationInitial == Init => RotationInv
BY PoolAssumption DEF Init, PoolInit, RotationInit, RotationInv, CounterInRange, NoneServed,
   Strategies

(* The counters of one selection and the next.                             *)
LEMMA TopNext ==
    ASSUME CounterInRange, NEW n, n = rr, rr' = (rr + 1) % RRMod
    PROVE  /\ Top' = n + 1 /\ n \in 0..(RRMod - 1) /\ rr' = IF n = RRMod - 1 THEN 0 ELSE n + 1
           /\ RRMod \in Nat /\ RRMod \div 2 \in Nat /\ RRMod \div 2 <= RRMod - 1
<1>1. /\ RRMod \in Nat \ {0} /\ RRMod \div 2 \in Nat /\ RRMod % 2 = 0
  BY PoolAssumption
<1>2. RRMod \div 2 <= RRMod - 1
  BY <1>1
<1>3. n \in 0..(RRMod - 1)
  BY DEF CounterInRange
<1>4. n % RRMod = n
  BY <1>1, <1>3
<1>5. rr' = IF n = RRMod - 1 THEN 0 ELSE n + 1
  <2>1. n \in Nat
    BY <1>3
  <2>2. (n + 1) % RRMod = IF n % RRMod = RRMod - 1 THEN 0 ELSE (n % RRMod) + 1
    BY <1>1, <2>1, NextRemainder
  <2> QED
    BY <1>4, <2>2
<1> QED
  BY <1>1, <1>2, <1>3, <1>5 DEF Top

LEMMA SelectKeepsFair ==
    ASSUME RotationInv, NEW q \in Asked, SelectFor(q)
    PROVE  RotationInv'
<1> DEFINE cands == CandidatesFor(q)
           before == IF cands = run /\ rr # 0 THEN served ELSE NoneServed
<1>1. PICK n : n = rr
  OBVIOUS
<1>2. /\ Rotates /\ run' = cands /\ UNCHANGED strategy /\ rr' = (rr + 1) % RRMod
  BY DEF SelectFor, AdvanceRR, Rotates
<1>3. PICK e \in Picks(strategy, cands, n) : served' = [before EXCEPT ![e] = @ + 1]
  BY <1>1 DEF SelectFor
<1>4. cands \in SUBSET Eps /\ cands # {}
  BY AskedCandidates
<1>5. /\ Top' = n + 1 /\ n \in 0..(RRMod - 1) /\ rr' = IF n = RRMod - 1 THEN 0 ELSE n + 1
      /\ RRMod \in Nat /\ RRMod \div 2 \in Nat /\ RRMod \div 2 <= RRMod - 1
  BY <1>1, <1>2, TopNext DEF RotationInv
<1>6. before \in [Eps -> Nat]
  BY DEF RotationInv, NoneServed
<1>7. served' \in [Eps -> Nat]
  <2>1. e \in cands
    BY <1>2 DEF Picks, RoundRobin, WeightedRoundRobin, Rotates
  <2>2. e \in Eps
    BY <1>4, <2>1
  <2> HIDE DEF cands, before
  <2>3. before[e] + 1 \in Nat
    BY <1>6, <2>2
  <2> QED
    BY <1>3, <1>6, <2>3
<1>8. strategy \in Rotating
  BY <1>2 DEF Rotates, Rotating
<1> HIDE DEF cands
<1>9. ASSUME Accountable' PROVE Straight(strategy, cands, n)
  <2> SUFFICES ASSUME strategy = "round_robin" PROVE n < RRMod \div 2 \/ Cardinality(cands) = 1
    BY DEF Straight
  <2>1. (rr' # 0 /\ rr' <= RRMod \div 2) \/ Cardinality(cands) = 1
    BY <1>2, <1>9 DEF Accountable
  <2> QED
    BY <1>5, <2>1
<1>10. ASSUME Accountable' PROVE FairRun(strategy, cands, before, n)
  <2>1. CASE cands = run /\ rr # 0
    <3>1. Accountable
      <4>1. Straight(strategy, cands, n)
        BY <1>9, <1>10
      <4> QED
        BY <1>1, <1>5, <2>1, <4>1 DEF Straight, Accountable
    <3> QED
      BY <1>1, <1>4, <2>1, <3>1 DEF RotationInv, Top
  <2>2. CASE ~(cands = run /\ rr # 0)
    BY <1>4, <1>5, <1>8, <2>2, FairStart
  <2> QED
    BY <2>1, <2>2
<1> HIDE DEF before
<1>11. ASSUME Accountable' PROVE FairRun(strategy, cands, served', n + 1)
  <2>1. n \in Nat /\ n < RRMod
    BY <1>5
  <2>2. FairRun(strategy, cands, before, n) /\ Straight(strategy, cands, n)
    BY <1>9, <1>10, <1>11
  <2>3. FairRun(strategy, cands, [before EXCEPT ![e] = @ + 1], n + 1)
    BY <1>4, <1>6, <1>8, <2>1, <2>2, FairStep
  <2> QED
    BY <1>3, <2>3
<1>12. ASSUME strategy = "round_robin", rr' = 0 PROVE Cardinality(cands) = 1
  <2>1. n = RRMod - 1 /\ ~(n < RRMod \div 2) /\ RRMod - n = 1
    BY <1>5, <1>12
  <2>2. Picks("round_robin", cands, n) # {}
    BY <1>3, <1>12
  <2>3. 1 % Cardinality(cands) = 0
    BY <1>4, <1>5, <2>1, <2>2, NegativePicks
  <2>4. Cardinality(cands) \in Nat \ {0}
    BY <1>4, <1>8, <1>12, RoundShape DEF RoundLen
  <2> QED
    BY <2>3, <2>4
<1>13. CounterInRange' /\ strategy' \in Strategies /\ run' \in SUBSET Eps
  BY <1>2, <1>4, <1>5 DEF RotationInv, CounterInRange
<1>14. Rotates' /\ (Accountable' => FairRun(strategy, run, served, Top)')
  BY <1>2, <1>5, <1>11 DEF Rotates, FairRun, PartServed, Reach
<1> QED
  BY <1>2, <1>7, <1>12, <1>13, <1>14 DEF RotationInv

LEMMA RotationNext == RotationInv /\ [Next]_vars => RotationInv'
<1> SUFFICES ASSUME RotationInv, [Next]_vars PROVE RotationInv'
  OBVIOUS
<1>1. CASE \E q \in Asked : SelectFor(q)
  BY <1>1, SelectKeepsFair
<1>2. CASE \E q \in Asked : SelectPanics(q)
  <2>1. run' = {} /\ served' = NoneServed /\ UNCHANGED strategy
    BY <1>2 DEF SelectPanics
  <2>2. CounterInRange'
    BY CounterNext DEF RotationInv
  <2> QED
    BY <2>1, <2>2 DEF RotationInv, NoneServed
<1>3. CASE UNCHANGED <<rr, rotationVars>>
  BY <1>3 DEF rotationVars, RotationInv, CounterInRange, Rotates, Accountable, Top,
     FairRun, PartServed, Reach
<1>4. SelectByLoad \/ UNCHANGED vars => UNCHANGED <<rr, rotationVars>>
  BY DEF vars, SelectByLoad, StartSort, SortStep, LoadFirst, CompareEqual, CompareLess,
     Place, ReturnFirst, OthersMove
<1> QED
  BY <1>1, <1>2, <1>3, <1>4 DEF Next, SelectByRotation

LEMMA RotationInvariant == Spec => []RotationInv
BY RotationInitial, RotationNext, PTL DEF Spec

(* Wherever in the rotation a run of selections among the same candidates  *)
(* begins, and however long it is, every whole round of it serves each     *)
(* candidate its weight, and nobody gets ahead by more than one round's    *)
(* share (weightedRoundRobin; round_robin as long as int(n) is positive).  *)
THEOREM FairShares == Spec => []RunsAreFair
<1>1. RotationInv => RunsAreFair
  <2> SUFFICES ASSUME RotationInv, run # {},
                      strategy = "round_robin" => rr <= RRMod \div 2
               PROVE  \E rounds \in 0..RRMod :
                        \A e \in run : /\ served[e] >= rounds * Share(e)
                                       /\ served[e] <= (rounds + 1) * Share(e)
    BY DEF RunsAreFair
  <2>1. strategy \in Rotating /\ run \in SUBSET Eps
    BY DEF RotationInv, Rotates, Rotating
  <2>2. FairRun(strategy, run, served, Top)
    BY DEF RotationInv, Accountable
  <2>3. Top \in Nat /\ Top <= RRMod
    BY PoolAssumption DEF RotationInv, CounterInRange, Top
  <2>4. PICK rounds \in 0..Top :
          \A e \in run : /\ served[e] >= rounds * ShareOf(strategy, e)
                         /\ served[e] <= (rounds + 1) * ShareOf(strategy, e)
    BY <2>1, <2>2, <2>3, FairMeans
  <2>5. \A e : Share(e) = ShareOf(strategy, e)
    BY DEF Share, ShareOf
  <2>6. rounds \in 0..RRMod
    BY <2>3, PoolAssumption
  <2> QED
    BY <2>4, <2>5, <2>6
<1> QED
  BY <1>1, RotationInvariant, PTL
-----------------------------------------------------------------------------
(* The sort of leastInflight.  Positions up to i hold the candidates taken *)
(* so far, the one at j is being inserted among the others.                *)
Inserted == (1..i) \ {j}

SortShape ==
    /\ inflight \in [Eps -> Nat] /\ seen \in Nat /\ moves \in Nat
    /\ order # <<>> =>
         /\ order \in Seq(Eps) /\ Len(order) \in Nat \ {0}
         /\ i \in 2..(Len(order) + 1) /\ j \in 2..i
         /\ i > Len(order) => j = i
         /\ load # "first" => i <= Len(order)
         /\ \A a, b \in 1..Len(order) : a # b => order[a] # order[b]

(* Of the moves so far some, d, may have hit the endpoint being inserted   *)
(* since its count was loaded; only the others can have put the front of   *)
(* the sorted part above its other members.                                *)
StaleBy(d) ==
    /\ load # "first" => /\ seen <= inflight[order[j]] + d
                         /\ inflight[order[j]] <= seen + d
    /\ \A a \in Inserted : inflight[order[1]] <= inflight[order[a]] + (moves - d)
StaleInv == order # <<>> => \E d \in 0..moves : StaleBy(d)

(* The endpoint that UndisturbedChoice prefers.                            *)
Better(p, e) ==
    \/ inflight[p] < inflight[e]
    \/ /\ inflight[p] = inflight[e]
       /\ Weight(p) > Weight(e) \/ (Weight(p) = Weight(e) /\ p < e)

(* What is still to be inserted was configured after what is; as long as   *)
(* nobody moved, the counts loaded are the counts, and the front is better *)
(* than the others.                                                        *)
OrderInv ==
    order # <<>> =>
        /\ \A a, b \in 1..Len(order) : a < b /\ i < b => order[a] < order[b]
        /\ i <= Len(order) => \A a \in Inserted : order[a] < order[j]
CalmInv ==
    order # <<>> /\ moves = 0 =>
        /\ load # "first" => seen = inflight[order[j]]
        /\ load \notin {"first", "equal"} => inflight[order[j]] # inflight[order[j - 1]]
        /\ \A a \in Inserted \ {1} : Better(order[1], order[a])

SortInv == SortShape /\ StaleInv /\ OrderInv /\ CalmInv
-----------------------------------------------------------------------------
(* The slice begins in the order of the configuration.                     *)
LEMMA InOrderSorted ==
    ASSUME NEW cands \in SUBSET Eps, cands # {}
    PROVE  /\ InOrder(cands) \in Seq(Eps) /\ InOrder(cands) # <<>>
           /\ Len(InOrder(cands)) \in Nat \ {0}
           /\ \A a, b \in 1..Len(InOrder(cands)) :
                 a < b => InOrder(cands)[a] < InOrder(cands)[b]
<1> DEFINE size == Cardinality(cands)
           s == InOrder(cands)
<1>1. size \in Nat \ {0}
  BY RoundShape DEF RoundLen, Rotating
<1>2. \A k \in 1..size : s[k] \in cands /\ Index(cands, s[k]) = k - 1
  <2> SUFFICES ASSUME NEW k \in 1..size PROVE s[k] \in cands /\ Index(cands, s[k]) = k - 1
    OBVIOUS
  <2>1. k - 1 \in 0..(size - 1)
    BY <1>1
  <2>2. \E e \in cands : Index(cands, e) = k - 1
    BY <2>1, IndexOnto
  <2>3. s[k] = CHOOSE e \in cands : Index(cands, e) = k - 1
    BY DEF InOrder
  <2> QED
    BY <2>2, <2>3
<1>3. s = [k \in 1..size |-> s[k]]
  BY DEF InOrder
<1> HIDE DEF s, size
<1>4. /\ s \in [1..size -> Eps] /\ s \in Seq(Eps) /\ Len(s) = size
  <2>1. s \in [1..size -> Eps]
    BY <1>2, <1>3
  <2> QED
    BY <1>1, <2>1
<1>5. ASSUME NEW a \in 1..size, NEW b \in 1..size, a < b PROVE s[a] < s[b]
  <2>1. Index(cands, s[a]) = a - 1 /\ Index(cands, s[b]) = b - 1 /\ s[a] \in cands /\ s[b] \in cands
    BY <1>2
  <2>2. s[a] \in Nat /\ s[b] \in Nat
    BY <2>1, CandidatesFinite
  <2>3. s[a] # s[b]
    BY <1>1, <1>5, <2>1
  <2>4. ~(s[b] < s[a])
    <3> SUFFICES ASSUME s[b] < s[a] PROVE FALSE
      OBVIOUS
    <3>1. b - 1 < a - 1
      BY <2>1, IndexGrows
    <3> QED
      BY <1>1, <1>5, <3>1
  <2> QED
    BY <2>2, <2>3, <2>4
<1>6. s # <<>>
  BY <1>1, <1>4
<1> QED
  BY <1>1, <1>4, <1>5, <1>6 DEF s

LEMMA SortInitial == Init => SortInv
BY DEF Init, PoolInit, SortInit, SortInv, SortShape, StaleInv, OrderInv, CalmInv

LEMMA StartKeeps ==
    ASSUME SortInv, NEW cands \in SUBSET Eps, StartSort(cands)
    PROVE  SortInv'
<1>1. /\ cands # {} /\ order' = InOrder(cands) /\ i' = 2 /\ j' = 2 /\ load' = "first"
      /\ moves' = 0 /\ inflight' = inflight /\ seen' = seen
  BY DEF StartSort
<1>2. /\ order' \in Seq(Eps) /\ order' # <<>> /\ Len(order') \in Nat \ {0}
      /\ \A a, b \in 1..Len(order') : a < b => order'[a] < order'[b]
  BY <1>1, InOrderSorted
<1>3. \A a \in 1..Len(order') : order'[a] \in Nat /\ order'[a] \in Eps
  <2>1. \A a \in 1..Len(order') : order'[a] \in Eps
    BY <1>2, ElementOfSeq
  <2>2. \A e \in Eps : e \in Nat
    BY CandidatesFinite
  <2> QED
    BY <2>1, <2>2
<1>4. \A a, b \in 1..Len(order') : a # b => order'[a] # order'[b]
  <2> SUFFICES ASSUME NEW a \in 1..Len(order'), NEW b \in 1..Len(order'), a # b
               PROVE  order'[a] # order'[b]
    OBVIOUS
  <2>1. a < b \/ b < a
    OBVIOUS
  <2> QED
    BY <1>2, <1>3, <2>1
<1>5. SortShape'
  BY <1>1, <1>2, <1>4 DEF SortInv, SortShape
<1>6. Inserted' = {1}
  BY <1>1 DEF Inserted
<1>7. StaleBy(0)'
  <2>1. inflight[order'[1]] \in Nat
    BY <1>2, <1>3 DEF SortInv, SortShape
  <2> QED
    BY <1>1, <1>6, <2>1 DEF StaleBy
<1>8. StaleInv'
  BY <1>1, <1>7 DEF StaleInv
<1>9. OrderInv'
  BY <1>1, <1>2, <1>6 DEF OrderInv
<1>10. CalmInv'
  BY <1>1, <1>6 DEF CalmInv
<1> QED
  BY <1>5, <1>8, <1>9, <1>10 DEF SortInv

(* The answer of less puts the candidate at j where it is, or one forward. *)
Swapped == [order EXCEPT ![j] = order[j - 1], ![j - 1] = order[j]]

LEMMA WhileSorting ==
    ASSUME SortShape, Sorting
    PROVE  /\ order # <<>> /\ Len(order) \in Nat /\ i \in 2..Len(order) /\ j \in 2..i
           /\ j \in 1..Len(order) /\ j - 1 \in 1..Len(order)
           /\ \A a \in 1..Len(order) : order[a] \in Eps /\ order[a] \in Nat
                                        /\ inflight[order[a]] \in Nat
<1>1. /\ order # <<>> /\ Len(order) \in Nat /\ i \in 2..Len(order) /\ j \in 2..i
  BY DEF SortShape, Sorting
<1>2. \A a \in 1..Len(order) : order[a] \in Eps
  BY <1>1, ElementOfSeq DEF SortShape
<1>3. \A e \in Eps : e \in Nat
  BY CandidatesFinite
<1> QED
  BY <1>1, <1>2, <1>3 DEF SortShape

LEMMA SwapForward ==
    ASSUME SortShape, Sorting
    PROVE  /\ Swapped \in Seq(Eps) /\ Len(Swapped) = Len(order) /\ Swapped # <<>>
           /\ Swapped[j] = order[j - 1] /\ Swapped[j - 1] = order[j]
           /\ \A a \in 1..Len(order) : a # j /\ a # j - 1 => Swapped[a] = order[a]
           /\ \A a, b \in 1..Len(order) : a # b => Swapped[a] # Swapped[b]
<1> DEFINE first == [order EXCEPT ![j] = order[j - 1]]
<1>1. /\ j \in 1..Len(order) /\ j - 1 \in 1..Len(order) /\ j \in Nat
      /\ order[j] \in Eps /\ order[j - 1] \in Eps
      /\ order \in Seq(Eps) /\ Len(order) \in Nat \ {0}
      /\ \A a, b \in 1..Len(order) : a # b => order[a] # order[b]
  BY WhileSorting, SMTT(40) DEF SortShape
<1>2. /\ first \in Seq(Eps) /\ Len(first) = Len(order)
      /\ \A a \in 1..Len(order) : first[a] = IF a = j THEN order[j - 1] ELSE order[a]
  BY <1>1, ExceptSeq
<1>3. Swapped = [first EXCEPT ![j - 1] = order[j]]
  BY DEF Swapped
<1> HIDE DEF first
<1>4. /\ Swapped \in Seq(Eps) /\ Len(Swapped) = Len(order)
      /\ \A a \in 1..Len(order) : Swapped[a] = IF a = j - 1 THEN order[j] ELSE first[a]
  BY <1>1, <1>2, <1>3, ExceptSeq
<1>5. \A a \in 1..Len(order) :
        Swapped[a] = IF a = j - 1 THEN order[j] ELSE IF a = j THEN order[j - 1] ELSE order[a]
  BY <1>2, <1>4
<1>6. Swapped # <<>>
  BY <1>1, <1>4
<1>7. j # j - 1
  BY <1>1
<1> QED
  BY <1>1, <1>4, <1>5, <1>6, <1>7, SMTT(40)

LEMMA PlaceShape ==
    ASSUME SortShape, Sorting, NEW isLess, Place(isLess)
    PROVE  SortShape'
<1>1. /\ order' = IF isLess THEN Swapped ELSE order
      /\ IF isLess /\ j > 2 THEN i' = i /\ j' = j - 1 ELSE i' = i + 1 /\ j' = i + 1
      /\ load' = "first" /\ UNCHANGED <<inflight, seen, moves>>
  BY DEF Place, Swapped
<1>2. /\ i \in 2..Len(order) /\ j \in 2..i
      /\ order \in Seq(Eps) /\ Len(order) \in Nat \ {0}
      /\ \A a, b \in 1..Len(order) : a # b => order[a] # order[b]
  BY WhileSorting DEF SortShape
<1>3. /\ order' \in Seq(Eps) /\ Len(order') = Len(order)
      /\ \A a, b \in 1..Len(order) : a # b => order'[a] # order'[b]
  BY <1>1, <1>2, SwapForward
<1>4. /\ i' \in 2..(Len(order) + 1) /\ j' \in 2..i' /\ (i' > Len(order) => j' = i')
  BY <1>1, <1>2
<1>5. inflight' \in [Eps -> Nat] /\ seen' \in Nat /\ moves' \in Nat
  BY <1>1 DEF SortShape
<1> QED
  BY <1>1, <1>2, <1>3, <1>4, <1>5 DEF SortShape

(* What the answer of less tells: of the count it loaded, and, as long as  *)
(* nobody moved, of the counts themselves.                                 *)
SaysLess ==
    /\ seen <= inflight[order[j - 1]]
    /\ moves = 0 =>
         \/ inflight[order[j]] < inflight[order[j - 1]]
         \/ /\ inflight[order[j]] = inflight[order[j - 1]]
            /\ Weight(order[j]) > Weight(order[j - 1])
SaysNotLess ==
    /\ seen >= inflight[order[j - 1]]
    /\ moves = 0 =>
         \/ inflight[order[j]] > inflight[order[j - 1]]
         \/ /\ inflight[order[j]] = inflight[order[j - 1]]
            /\ Weight(order[j]) <= Weight(order[j - 1])

LEMMA CompareMeans ==
    ASSUME SortInv, CompareEqual \/ CompareLess
    PROVE  \/ /\ load = "equal" /\ load' = "again" /\ seen # inflight[order[j - 1]]
              /\ UNCHANGED <<inflight, order, i, j, seen, moves>>
           \/ /\ load # "first"
              /\ \E isLess \in BOOLEAN :
                    Place(isLess) /\ IF isLess THEN SaysLess ELSE SaysNotLess
<1>1. Sorting /\ SortShape
  BY DEF CompareEqual, CompareLess, SortInv
<1> DEFINE x == inflight[order[j]]
           y == inflight[order[j - 1]]
<1>2. /\ x \in Nat /\ y \in Nat /\ seen \in Nat /\ order # <<>>
      /\ Weight(order[j]) \in Nat /\ Weight(order[j - 1]) \in Nat
  BY <1>1, WhileSorting, WeightType DEF SortShape
<1>3. CASE CompareEqual
  <2> DEFINE heavier == Weight(order[j]) > Weight(order[j - 1])
  <2>1. load = "equal"
    BY <1>3 DEF CompareEqual
  <2>2. CASE seen = y
    <3>1. Place(heavier)
      BY <1>3, <2>2 DEF CompareEqual
    <3>2. moves = 0 => x = y
      BY <1>2, <2>1, <2>2 DEF SortInv, CalmInv
    <3>3. IF heavier THEN SaysLess ELSE SaysNotLess
      BY <1>2, <2>2, <3>2 DEF SaysLess, SaysNotLess
    <3>4. \E isLess \in BOOLEAN : Place(isLess) /\ IF isLess THEN SaysLess ELSE SaysNotLess
      <4>1. heavier \in BOOLEAN
        OBVIOUS
      <4> HIDE DEF heavier
      <4> WITNESS heavier \in BOOLEAN
      <4> QED
        BY <3>1, <3>3
    <3> QED
      BY <2>1, <3>4
  <2>3. CASE seen # y
    BY <1>3, <2>1, <2>3 DEF CompareEqual
  <2> QED
    BY <2>2, <2>3
<1>4. CASE CompareLess
  <2> DEFINE isLess == seen < y
  <2>1. load = "less" /\ Place(isLess)
    BY <1>4 DEF CompareLess
  <2>2. moves = 0 => seen = x /\ x # y
    BY <1>2, <2>1 DEF SortInv, CalmInv
  <2>3. IF isLess THEN SaysLess ELSE SaysNotLess
    BY <1>2, <2>2 DEF SaysLess, SaysNotLess
  <2>4. \E less \in BOOLEAN : Place(less) /\ IF less THEN SaysLess ELSE SaysNotLess
    <3>1. isLess \in BOOLEAN
      OBVIOUS
    <3> HIDE DEF isLess
    <3> WITNESS isLess \in BOOLEAN
    <3> QED
      BY <2>1, <2>3
  <2> QED
    BY <2>1, <2>4
<1> QED
  BY <1>3, <1>4

(* What Place does, case by case.                                          *)
LEMMA PlaceCases ==
    ASSUME SortShape, Sorting, NEW isLess \in BOOLEAN, Place(isLess)
    PROVE  /\ order' # <<>> /\ load' = "first" /\ UNCHANGED <<inflight, seen, moves>>
           /\ Len(order') = Len(order)
           /\ \/ /\ ~isLess /\ order' = order
                 /\ i' = i + 1 /\ j' = i + 1 /\ Inserted' = 1..i
              \/ /\ isLess /\ j = 2 /\ order' = Swapped
                 /\ i' = i + 1 /\ j' = i + 1 /\ Inserted' = 1..i
              \/ /\ isLess /\ j > 2 /\ order' = Swapped
                 /\ i' = i /\ j' = j - 1 /\ Inserted' = (1..i) \ {j - 1}
<1>1. order # <<>> /\ i \in 2..Len(order) /\ j \in 2..i
  BY WhileSorting
<1>2. (1..(i + 1)) \ {i + 1} = 1..i
  BY <1>1
<1> QED
  BY <1>1, <1>2, SwapForward DEF Place, Swapped, Inserted

LEMMA PlaceStale ==
    ASSUME SortInv, Sorting, load # "first", NEW isLess \in BOOLEAN, Place(isLess),
           IF isLess THEN SaysLess ELSE SaysNotLess
    PROVE  StaleInv'
<1>1. /\ order # <<>> /\ Len(order) \in Nat /\ i \in 2..Len(order) /\ j \in 2..i
      /\ j - 1 \in 1..Len(order) /\ seen \in Nat /\ moves \in Nat
      /\ \A a \in 1..Len(order) : inflight[order[a]] \in Nat
  BY WhileSorting DEF SortInv, SortShape
<1>0. /\ \/ ~isLess /\ order' = order /\ Inserted' = 1..i
         \/ isLess /\ j = 2 /\ order' = Swapped /\ Inserted' = 1..i
         \/ isLess /\ j > 2 /\ order' = Swapped /\ Inserted' = (1..i) \ {j - 1}
      /\ SortShape
  BY PlaceCases DEF SortInv
<1>2. PICK d \in 0..moves : StaleBy(d)
  BY <1>1 DEF SortInv, StaleInv
<1>3. seen <= inflight[order[j]] + d /\ inflight[order[j]] <= seen + d
  BY <1>2 DEF StaleBy
<1>4. \A a \in (1..i) \ {j} : inflight[order[1]] <= inflight[order[a]] + (moves - d)
  BY <1>2 DEF StaleBy, Inserted
<1>5. order' # <<>> /\ load' = "first" /\ inflight' = inflight /\ moves' = moves
  BY PlaceCases DEF SortInv
<1>6. j - 1 \in (1..i) \ {j} /\ 1 \in (1..i) \ {j}
  BY <1>1
<1>7. moves \in Nat /\ seen \in Nat /\ d \in Nat /\ d <= moves
  BY <1>1
<1>8. \A a \in Inserted' : inflight[order'[1]] <= inflight[order'[a]] + moves
  <2>1. CASE ~isLess
    <3>1. order' = order /\ Inserted' = 1..i
      BY <1>0, <2>1
    <3>2. inflight[order[1]] <= inflight[order[j]] + moves
      <4>1. /\ inflight[order[1]] \in Nat /\ inflight[order[j - 1]] \in Nat
            /\ inflight[order[j]] \in Nat
        BY <1>1
      <4>2. inflight[order[1]] <= inflight[order[j - 1]] + (moves - d)
        BY <1>4, <1>6
      <4>3. inflight[order[j - 1]] <= seen
        BY <1>1, <2>1, <4>1 DEF SaysNotLess
      <4> QED
        BY <1>3, <1>7, <4>1, <4>2, <4>3
    <3>3. \A a \in (1..i) \ {j} : inflight[order[1]] <= inflight[order[a]] + moves
      BY <1>1, <1>4, SMTT(40)
    <3> QED
      BY <3>1, <3>2, <3>3
  <2>2. CASE isLess /\ j = 2
    <3>1. order' = Swapped /\ Inserted' = 1..i
      BY <1>0, <2>2
    <3>2. /\ order'[1] = order[2] /\ order'[2] = order[1]
          /\ \A a \in 3..i : order'[a] = order[a]
      BY <1>1, <2>2, <3>1, <1>0, SwapForward
    <3>3. inflight[order[2]] <= inflight[order[1]] + d
      BY <1>1, <1>3, <2>2 DEF SaysLess
    <3>4. ASSUME NEW a \in 1..i PROVE inflight[order'[1]] <= inflight[order'[a]] + moves
      <4>1. CASE a = 1
        BY <1>1, <3>2, <4>1
      <4>2. CASE a = 2
        BY <1>1, <3>2, <3>3, <4>2, SMTT(40)
      <4>3. CASE a \in 3..i
        <5>1. inflight[order[1]] <= inflight[order[a]] + (moves - d)
          BY <1>4, <2>2, <4>3
        <5>2. /\ inflight[order[1]] \in Nat /\ inflight[order[2]] \in Nat
              /\ inflight[order[a]] \in Nat
          BY <1>1, <4>3
        <5>3. inflight[order[2]] <= inflight[order[a]] + moves
          BY <1>7, <3>3, <5>1, <5>2
        <5> QED
          BY <3>2, <4>3, <5>3
      <4> QED
        BY <1>1, <4>1, <4>2, <4>3
    <3> QED
      BY <3>1, <3>4
  <2>3. CASE isLess /\ j # 2
    <3>1. order' = Swapped /\ Inserted' = (1..i) \ {j - 1}
      BY <1>0, <2>3
    <3>2. /\ order'[1] = order[1] /\ order'[j] = order[j - 1]
          /\ \A a \in (1..i) \ {j, j - 1} : order'[a] = order[a]
      BY <1>1, <2>3, <3>1, <1>0, SwapForward
    <3>3. ASSUME NEW a \in (1..i) \ {j - 1}
          PROVE  inflight[order'[1]] <= inflight[order'[a]] + moves
      <4>1. PICK b \in (1..i) \ {j} : order'[a] = order[b]
        BY <1>6, <3>2
      <4>2. inflight[order[1]] <= inflight[order[b]] + (moves - d)
        BY <1>4
      <4> QED
        BY <1>1, <3>2, <4>1, <4>2, SMTT(40)
    <3> QED
      BY <3>1, <3>3
  <2> QED
    BY <2>1, <2>2, <2>3
<1>9. StaleBy(0)'
  BY <1>1, <1>5, <1>8 DEF StaleBy
<1> QED
  BY <1>1, <1>5, <1>9 DEF StaleInv

LEMMA PlaceOrder ==
    ASSUME SortInv, Sorting, NEW isLess \in BOOLEAN, Place(isLess)
    PROVE  OrderInv'
<1>1. /\ \/ ~isLess /\ order' = order /\ i' = i + 1 /\ j' = i + 1 /\ Inserted' = 1..i
         \/ isLess /\ order' = Swapped /\ i' = i + 1 /\ j' = i + 1 /\ Inserted' = 1..i
         \/ isLess /\ order' = Swapped /\ i' = i /\ j' = j - 1 /\ Inserted' = (1..i) \ {j - 1}
      /\ Len(order') = Len(order) /\ SortShape
  BY PlaceCases DEF SortInv
<1>2. order # <<>> /\ Len(order) \in Nat /\ i \in 2..Len(order) /\ j \in 2..i
  BY <1>1, WhileSorting
<1>3. \A a, b \in 1..Len(order) : a < b /\ i < b => order[a] < order[b]
  BY <1>2 DEF SortInv, OrderInv
<1>4. \A a \in (1..i) \ {j} : order[a] < order[j]
  BY <1>2 DEF SortInv, OrderInv, Inserted
<1>5. order' = Swapped =>
        /\ order'[j] = order[j - 1] /\ order'[j - 1] = order[j]
        /\ \A a \in 1..Len(order) : a # j /\ a # j - 1 => order'[a] = order[a]
  BY <1>1, SwapForward
<1>6. ASSUME NEW a \in 1..Len(order), NEW b \in 1..Len(order), a < b, i < b
      PROVE  order'[a] < order'[b]
  <2>1. order'[b] = order[b]
    BY <1>1, <1>2, <1>5, <1>6
  <2>2. \E c \in 1..Len(order) : order'[a] = order[c] /\ c < b
    <3>1. CASE order' = order
      BY <1>6, <3>1
    <3>2. CASE order' = Swapped /\ a = j
      BY <1>2, <1>5, <1>6, <3>2
    <3>3. CASE order' = Swapped /\ a = j - 1
      BY <1>2, <1>5, <1>6, <3>3
    <3>4. CASE order' = Swapped /\ a # j /\ a # j - 1
      BY <1>5, <1>6, <3>4
    <3> QED
      BY <1>1, <3>1, <3>2, <3>3, <3>4
  <2> QED
    BY <1>3, <1>6, <2>1, <2>2
<1>7. CASE i' = i + 1 /\ j' = i + 1 /\ Inserted' = 1..i
  <2>1. \A a, b \in 1..Len(order) : a < b /\ i + 1 < b => order'[a] < order'[b]
    BY <1>2, <1>6
  <2>2. i + 1 <= Len(order) => \A a \in 1..i : order'[a] < order'[i + 1]
    BY <1>2, <1>6
  <2> QED
    BY <1>1, <1>7, <2>1, <2>2 DEF OrderInv
<1>8. CASE order' = Swapped /\ i' = i /\ j' = j - 1 /\ Inserted' = (1..i) \ {j - 1}
  <2>1. ASSUME NEW a \in (1..i) \ {j - 1} PROVE order'[a] < order'[j - 1]
    <3>1. \E c \in (1..i) \ {j} : order'[a] = order[c]
      <4>1. CASE a = j
        BY <1>2, <1>5, <1>8, <4>1
      <4>2. CASE a # j
        BY <1>2, <1>5, <1>8, <4>2
      <4> QED
        BY <4>1, <4>2
    <3> QED
      BY <1>4, <1>5, <1>8, <3>1
  <2> QED
    BY <1>1, <1>6, <1>8, <2>1 DEF OrderInv
<1> QED
  BY <1>1, <1>7, <1>8

(* Of three candidates, the first is better than the third if ...          *)
LEMMA BetterThrough ==
    ASSUME inflight \in [Eps -> Nat], NEW p \in Eps, NEW e \in Eps, NEW f \in Eps
    PROVE  /\ /\ p = e \/ Better(p, e)
              /\ p < f
              /\ \/ inflight[e] < inflight[f]
                 \/ inflight[e] = inflight[f] /\ Weight(f) <= Weight(e)
              => Better(p, f)
           /\ /\ e = f \/ Better(e, f)
              /\ \/ inflight[p] < inflight[e]
                 \/ inflight[p] = inflight[e] /\ Weight(p) > Weight(e)
              => Better(p, f)
<1>1. /\ inflight[p] \in Nat /\ inflight[e] \in Nat /\ inflight[f] \in Nat
      /\ Weight(p) \in Nat /\ Weight(e) \in Nat /\ Weight(f) \in Nat
  BY WeightType
<1>2. p \in Nat /\ e \in Nat /\ f \in Nat
  BY CandidatesFinite
<1> QED
  BY <1>1, <1>2 DEF Better

LEMMA PlaceCalm ==
    ASSUME SortInv, Sorting, NEW isLess \in BOOLEAN, Place(isLess),
           IF isLess THEN SaysLess ELSE SaysNotLess
    PROVE  CalmInv'
<1>1. /\ \/ ~isLess /\ order' = order /\ Inserted' = 1..i
         \/ isLess /\ j = 2 /\ order' = Swapped /\ Inserted' = 1..i
         \/ isLess /\ j > 2 /\ order' = Swapped /\ Inserted' = (1..i) \ {j - 1}
      /\ order' # <<>> /\ load' = "first" /\ inflight' = inflight /\ moves' = moves
      /\ SortShape
  BY PlaceCases DEF SortInv
<1> SUFFICES ASSUME moves = 0, NEW a \in Inserted' \ {1}
             PROVE  Better(order'[1], order'[a])
  BY <1>1 DEF CalmInv, Better
<1>2. /\ order # <<>> /\ Len(order) \in Nat /\ i \in 2..Len(order) /\ j \in 2..i
      /\ \A b \in 1..Len(order) : order[b] \in Eps
  BY <1>1, WhileSorting
<1>3. \A b \in (1..i) \ {j, 1} : Better(order[1], order[b])
  BY <1>2 DEF SortInv, CalmInv, Inserted
<1>4. order[1] < order[j]
  BY <1>2 DEF SortInv, OrderInv, Inserted
<1>5. inflight \in [Eps -> Nat] /\ order[1] \in Eps /\ order[j - 1] \in Eps /\ order[j] \in Eps
  BY <1>1, <1>2 DEF SortShape
<1>6. order[1] = order[j - 1] \/ Better(order[1], order[j - 1])
  <2>1. j - 1 = 1 \/ j - 1 \in (1..i) \ {j, 1}
    BY <1>2
  <2> QED
    BY <1>3, <2>1
<1>7. CASE ~isLess
  <2>1. Better(order[1], order[j])
    BY <1>4, <1>5, <1>6, <1>7, BetterThrough DEF SaysNotLess
  <2>2. a \in (1..i) \ {j, 1} \/ a = j
    BY <1>1, <1>7
  <2> QED
    BY <1>1, <1>3, <1>7, <2>1, <2>2
<1>8. order' = Swapped =>
        /\ order'[j] = order[j - 1] /\ order'[j - 1] = order[j]
        /\ \A b \in 1..Len(order) : b # j /\ b # j - 1 => order'[b] = order[b]
  BY <1>1, SwapForward
<1>9. CASE isLess /\ j = 2
  <2>1. order'[1] = order[2] /\ a \in 2..i
    BY <1>1, <1>2, <1>8, <1>9
  <2>2. /\ order'[a] \in Eps /\ order[1] \in Eps /\ order[2] \in Eps
        /\ order[1] = order'[a] \/ Better(order[1], order'[a])
    <3>1. CASE a = 2
      BY <1>1, <1>5, <1>8, <1>9, <3>1
    <3>2. CASE a # 2
      <4>1. order'[a] = order[a] /\ a \in (1..i) \ {j, 1} /\ a \in 1..Len(order)
        BY <1>1, <1>2, <1>8, <1>9, <2>1, <3>2
      <4> QED
        BY <1>2, <1>3, <1>5, <1>9, <4>1
    <3> QED
      BY <3>1, <3>2
  <2>3. \/ inflight[order[2]] < inflight[order[1]]
        \/ inflight[order[2]] = inflight[order[1]] /\ Weight(order[2]) > Weight(order[1])
    BY <1>9 DEF SaysLess
  <2> QED
    BY <1>5, <2>1, <2>2, <2>3, BetterThrough
<1>10. CASE isLess /\ j > 2
  <2>1. order'[1] = order[1]
    BY <1>1, <1>2, <1>8, <1>10
  <2>2. \E b \in (1..i) \ {j, 1} : order'[a] = order[b]
    <3>1. CASE a = j
      BY <1>1, <1>2, <1>8, <1>10, <3>1
    <3>2. CASE a # j
      BY <1>1, <1>2, <1>8, <1>10, <3>2
    <3> QED
      BY <3>1, <3>2
  <2> QED
    BY <1>3, <2>1, <2>2
<1> QED
  BY <1>1, <1>7, <1>9, <1>10

LEMMA CompareKeeps ==
    ASSUME SortInv, CompareEqual \/ CompareLess
    PROVE  SortInv'
<1>1. Sorting /\ SortShape /\ order # <<>> /\ j \in 1..Len(order) /\ i <= Len(order)
  BY WhileSorting DEF CompareEqual, CompareLess, SortInv, Sorting
<1>2. CASE /\ load = "equal" /\ load' = "again" /\ seen # inflight[order[j - 1]]
           /\ UNCHANGED <<inflight, order, i, j, seen, moves>>
  <2>1. SortShape' /\ OrderInv'
    BY <1>1, <1>2 DEF SortInv, SortShape, OrderInv, Inserted
  <2>2. StaleInv'
    BY <1>2 DEF SortInv, StaleInv, StaleBy, Inserted
  <2>3. CalmInv'
    BY <1>2 DEF SortInv, CalmInv, Better, Inserted
  <2> QED
    BY <2>1, <2>2, <2>3 DEF SortInv
<1>3. ASSUME load # "first", NEW isLess \in BOOLEAN, Place(isLess),
             IF isLess THEN SaysLess ELSE SaysNotLess
      PROVE  SortInv'
  BY <1>1, <1>3, PlaceShape, PlaceStale, PlaceOrder, PlaceCalm DEF SortInv
<1> QED
  BY <1>2, <1>3, CompareMeans

LEMMA LoadKeeps == ASSUME SortInv, LoadFirst PROVE SortInv'
<1>1. /\ Sorting /\ SortShape /\ order # <<>> /\ i <= Len(order)
      /\ inflight[order[j]] \in Nat
  BY WhileSorting DEF LoadFirst, SortInv, Sorting
<1>2. /\ seen' = inflight[order[j]] /\ UNCHANGED <<inflight, order, i, j, moves>>
      /\ load' # "first" /\ (load = "first" => load' = "equal")
      /\ load \in {"first", "again"}
  BY DEF LoadFirst
<1>3. SortShape' /\ OrderInv'
  BY <1>1, <1>2 DEF SortInv, SortShape, OrderInv, Inserted
<1>4. StaleInv'
  <2>1. PICK d \in 0..moves : StaleBy(d)
    BY <1>1 DEF SortInv, StaleInv
  <2>2. \A a \in Inserted : inflight[order[1]] <= inflight[order[a]] + moves
    <3> SUFFICES ASSUME NEW a \in Inserted
                 PROVE  inflight[order[1]] <= inflight[order[a]] + moves
      OBVIOUS
    <3>1. inflight[order[1]] <= inflight[order[a]] + (moves - d)
      BY <2>1 DEF StaleBy
    <3>2. a \in 1..Len(order) /\ 1 \in 1..Len(order)
      BY <1>1, WhileSorting DEF Inserted
    <3>3. inflight[order[a]] \in Nat /\ inflight[order[1]] \in Nat
      BY <1>1, <3>2, WhileSorting
    <3>4. moves \in Nat
      BY DEF SortInv, SortShape
    <3> QED
      BY <3>1, <3>3, <3>4
  <2>3. moves \in Nat
    BY DEF SortInv, SortShape
  <2>4. StaleBy(0)'
    BY <1>1, <1>2, <2>2, <2>3 DEF StaleBy, Inserted
  <2> QED
    BY <1>2, <2>3, <2>4 DEF StaleInv
<1>5. CalmInv'
  BY <1>1, <1>2 DEF SortInv, CalmInv, Better, Inserted
<1> QED
  BY <1>3, <1>4, <1>5 DEF SortInv

LEMMA ReturnKeeps == ASSUME SortInv, ReturnFirst PROVE SortInv'
BY DEF ReturnFirst, SortInv, SortShape, StaleInv, OrderInv, CalmInv

(* Somebody else begins or ends a request: one count changes by one.       *)
LEMMA MoveKeeps == ASSUME SortInv, NEW e \in Eps, OthersMove(e) PROVE SortInv'
<1>1. /\ UNCHANGED <<order, i, j, load, seen>>
      /\ moves' = IF order = <<>> THEN 0 ELSE moves + 1
      /\ moves \in Nat /\ inflight \in [Eps -> Nat] /\ seen \in Nat
  BY DEF OthersMove, SortInv, SortShape
<1>2. /\ inflight' \in [Eps -> Nat]
      /\ \A f \in Eps : f # e => inflight'[f] = inflight[f]
      /\ inflight'[e] = inflight[e] + 1 \/ inflight'[e] = inflight[e] - 1
  <2>1. CASE Begin(e)
    BY <1>1, <2>1 DEF Begin
  <2>2. CASE inflight[e] > 0 /\ End(e)
    BY <1>1, <2>2 DEF End
  <2> QED
    BY <2>1, <2>2 DEF OthersMove
<1>3. SortShape' /\ OrderInv'
  BY <1>1, <1>2 DEF SortInv, SortShape, OrderInv, Inserted
<1>4. CalmInv'
  BY <1>1 DEF CalmInv
<1>5. StaleInv'
  <2> SUFFICES ASSUME order # <<>> PROVE \E d \in 0..moves' : StaleBy(d)'
    BY <1>1 DEF StaleInv
  <2>1. PICK d \in 0..moves : StaleBy(d)
    BY DEF SortInv, StaleInv
  <2>2. moves' = moves + 1
    BY <1>1
  <2>3. \A a \in Inserted : a \in 1..Len(order) /\ order[a] \in Eps
    <3>1. \A a \in Inserted : a \in 1..Len(order)
      BY DEF SortInv, SortShape, Inserted
    <3> QED
      BY <3>1, ElementOfSeq DEF SortInv, SortShape
  <2>4. 1 \in Inserted
    BY DEF SortInv, SortShape, Inserted
  <2>5. \A f \in Eps : inflight[f] \in Nat /\ inflight'[f] \in Nat
    BY <1>1, <1>2
  <2>6. CASE load # "first" /\ order[j] = e
    <3>1. j \in 1..Len(order) /\ j \notin Inserted
      BY <2>6 DEF SortInv, SortShape, Inserted
    <3>2. \A a \in Inserted : order[a] # e
      BY <2>3, <2>6, <3>1 DEF SortInv, SortShape
    <3>3. \A a \in Inserted : inflight'[order[a]] = inflight[order[a]]
      BY <1>2, <2>3, <3>2
    <3>4. (moves + 1) - (d + 1) = moves - d /\ d + 1 \in 0..(moves + 1)
      BY <1>1
    <3>5. seen <= inflight'[e] + (d + 1) /\ inflight'[e] <= seen + (d + 1)
      BY <1>1, <1>2, <2>1, <2>5, <2>6 DEF StaleBy
    <3>6. \A a \in Inserted :
            inflight'[order[1]] <= inflight'[order[a]] + ((moves + 1) - (d + 1))
      BY <2>1, <2>4, <3>3, <3>4 DEF StaleBy
    <3>7. StaleBy(d + 1)'
      BY <1>1, <2>2, <2>6, <3>5, <3>6 DEF StaleBy, Inserted
    <3> QED
      BY <2>2, <3>4, <3>7
  <2>7. CASE ~(load # "first" /\ order[j] = e)
    <3>1. load # "first" => order[j] \in Eps /\ inflight'[order[j]] = inflight[order[j]]
      <4>1. load # "first" => j \in 1..Len(order)
        BY DEF SortInv, SortShape
      <4> QED
        BY <1>2, <2>7, <4>1, ElementOfSeq DEF SortInv, SortShape
    <3>2. ASSUME NEW a \in Inserted
          PROVE  inflight'[order[1]] <= inflight'[order[a]] + ((moves + 1) - d)
      <4> DEFINE p == order[1]
                 f == order[a]
      <4>1. p \in Eps /\ f \in Eps /\ inflight[p] <= inflight[f] + (moves - d)
        BY <2>1, <2>3, <2>4 DEF StaleBy
      <4>2. /\ inflight[p] \in Nat /\ inflight'[p] \in Nat /\ inflight[f] \in Nat
            /\ inflight'[f] \in Nat /\ inflight[e] \in Nat /\ inflight'[e] \in Nat
        BY <2>5, <4>1
      <4>3. /\ p # e => inflight'[p] = inflight[p]
            /\ f # e => inflight'[f] = inflight[f]
        BY <1>2, <4>1
      <4>4. d \in Nat /\ moves \in Nat /\ d <= moves
        BY <1>1
      <4> HIDE DEF p, f
      <4>5. inflight'[p] <= inflight'[f] + ((moves + 1) - d)
        <5>1. CASE p = e /\ f = e
          BY <4>2, <4>4, <5>1
        <5>2. CASE p = e /\ f # e
          BY <1>2, <4>1, <4>2, <4>3, <4>4, <5>2
        <5>3. CASE p # e /\ f = e
          BY <1>2, <4>1, <4>2, <4>3, <4>4, <5>3
        <5>4. CASE p # e /\ f # e
          BY <4>1, <4>2, <4>3, <4>4, <5>4
        <5> QED
          BY <5>1, <5>2, <5>3, <5>4
      <4> QED
        BY <4>5 DEF p, f
    <3>3. StaleBy(d)'
      BY <1>1, <2>1, <2>2, <3>1, <3>2 DEF StaleBy, Inserted
    <3> QED
      BY <1>1, <2>2, <3>3
  <2> QED
    BY <2>6, <2>7
<1> QED
  BY <1>3, <1>4, <1>5 DEF SortInv

LEMMA SortNext == SortInv /\ [Next]_vars => SortInv'
<1> SUFFICES ASSUME SortInv, [Next]_vars PROVE SortInv'
  OBVIOUS
<1>1. CASE \E q \in Asked : StartSort(CandidatesFor(q))
  BY <1>1, StartKeeps, AskedCandidates
<1>2. CASE SortStep
  BY <1>2, LoadKeeps, CompareKeeps, ReturnKeeps DEF SortStep
<1>3. CASE \E e \in Eps : OthersMove(e)
  BY <1>3, MoveKeeps
<1>4. CASE UNCHANGED <<inflight, sortVars>>
  BY <1>4 DEF sortVars, SortInv, SortShape, StaleInv, StaleBy, OrderInv, CalmInv, Better,
     Inserted
<1>5. SelectByRotation \/ UNCHANGED vars => UNCHANGED <<inflight, sortVars>>
  BY DEF SelectByRotation, SelectFor, SelectPanics, vars
<1> QED
  BY <1>1, <1>2, <1>3, <1>4, <1>5 DEF Next, SelectByLoad

LEMMA SortInvariant == Spec => []SortInv
BY SortInitial, SortNext, PTL DEF Spec

(* When the sort is done, everything but j behind the end is inserted.     *)
LEMMA AllInserted ==
    ASSUME SortShape, Sorted
    PROVE  /\ order # <<>> /\ Len(order) \in Nat \ {0} /\ 1 \in Inserted
           /\ \A e \in Candidate : \E a \in Inserted : order[a] = e /\ a \in 1..Len(order)
<1>1. /\ order # <<>> /\ Len(order) \in Nat \ {0} /\ order \in Seq(Eps)
      /\ i \in Nat /\ i > Len(order) /\ j = i
  BY DEF SortShape, Sorted
<1>2. DOMAIN order = 1..Len(order)
  BY <1>1, LenProperties
<1>3. \A e \in Candidate : \E a \in 1..Len(order) : order[a] = e
  BY <1>2 DEF Candidate, Range
<1>4. 1..Len(order) \subseteq Inserted
  BY <1>1 DEF Inserted
<1> QED
  BY <1>1, <1>3, <1>4

(* However others begin and end requests while leastInflight sorts, its    *)
(* choice carries at most as many requests more than the least loaded      *)
(* candidate as began and ended meanwhile.                                 *)
THEOREM StaleChoice == Spec => []StaleChoiceBounded
<1>1. SortInv => StaleChoiceBounded
  <2> SUFFICES ASSUME SortInv, Sorted, NEW e \in Candidate
               PROVE  inflight[Picked] <= inflight[e] + moves
    BY DEF StaleChoiceBounded
  <2>1. /\ order # <<>> /\ 1 \in Inserted /\ order \in Seq(Eps)
        /\ \E a \in Inserted : order[a] = e /\ a \in 1..Len(order)
    BY AllInserted DEF SortInv, SortShape
  <2>2. PICK a \in Inserted : order[a] = e /\ a \in 1..Len(order)
    BY <2>1
  <2>3. PICK d \in 0..moves : StaleBy(d)
    BY <2>1 DEF SortInv, StaleInv
  <2>4. inflight[order[1]] <= inflight[order[a]] + (moves - d)
    BY <2>2, <2>3 DEF StaleBy
  <2>5. order[1] \in Eps /\ order[a] \in Eps
    <3>1. 1 \in 1..Len(order)
      BY AllInserted DEF SortInv
    <3> QED
      BY <2>1, <2>2, <3>1, ElementOfSeq
  <2>6. inflight[order[1]] \in Nat /\ inflight[order[a]] \in Nat /\ moves \in Nat
    BY <2>5 DEF SortInv, SortShape
  <2> QED
    BY <2>2, <2>4, <2>6 DEF Picked
<1> QED
  BY <1>1, SortInvariant, PTL

(* If nobody moved, the choice is a least loaded candidate, of those a     *)
(* heaviest, and of those the first configured.                            *)
THEOREM CalmChoice == Spec => []UndisturbedChoice
<1>1. SortInv => UndisturbedChoice
  <2> SUFFICES ASSUME SortInv, Sorted, moves = 0, NEW e \in Candidate, e # Picked
               PROVE  Better(Picked, e)
    BY DEF UndisturbedChoice, Better
  <2>1. PICK a \in Inserted : order[a] = e
    BY AllInserted DEF SortInv
  <2>2. a # 1
    BY <2>1 DEF Picked
  <2> QED
    BY <2>1, <2>2, AllInserted DEF SortInv, CalmInv, Picked
<1> QED
  BY <1>1, SortInvariant, PTL
=============================================================================
