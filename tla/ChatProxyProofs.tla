--------------------------- MODULE ChatProxyProofs ---------------------------
(***************************************************************************)
(* Proofs about ChatProxy for every set of goroutines, every configuration *)
(* of keys, endpoints and routes, and every request: type correctness, the *)
(* in-flight counts and the bound on passing a quota.                      *)
(***************************************************************************)
EXTENDS ChatProxy, FiniteSetTheorems, TLAPS

(* What a handler has found out by the place it has reached.               *)
HandlerOK ==
    \A s \in Slots :
        /\ pc[s] # "idle" => call[s] \in Calls
        /\ pc[s] \in MayCharge => client[s] \in Clients
        /\ pc[s] \in AtUpstream \cup {"begin"} => ep[s] \in Eps
        /\ pc[s] \in MayCharge \cup {"idle", "auth"} => total[s] <= MaxTokens

TypeInv == TypeOK /\ HandlerOK
-----------------------------------------------------------------------------
(* Facts about the operators of the model.                                 *)

(* A header value that is not rejected belongs to a client of the store.   *)
LEMMA ClientForType ==
    ASSUME NEW raw, ~Rejected(raw)
    PROVE  ClientFor(raw) \in Clients
BY DEF Rejected, ClientFor, Matches, Clients, KeyClients

(* The addition of RecordUsage stays within an int64.                      *)
LEMMA AddInt64Type ==
    ASSUME NEW a \in Int64, NEW b \in Int, b <= MaxTokens
    PROVE  AddInt64(a, IF b < 0 THEN 0 ELSE b) \in Int64
BY TokensAssumption DEF AddInt64, Int64

(* selectEndpoint returns one of the candidates.                           *)
LEMMA PicksAmong ==
    ASSUME NEW q, NEW n
    PROVE  Picks(Strategy, CandidatesOf(q), n) \subseteq CandidatesOf(q)
<1> DEFINE cands == CandidatesOf(q)
<1>1. RoundRobin(cands, n) \subseteq cands
  BY DEF RoundRobin
<1>2. ASSUME NEW k PROVE WeightedRoundRobin(cands, k) \subseteq cands
  BY DEF WeightedRoundRobin
<1>3. WeightedRandom(cands) \subseteq cands
  <2>1. SUFFICES ASSUME NEW k \in Draws(cands), NEW e \in WeightedRoundRobin(cands, k)
                 PROVE  e \in cands
    BY Zenon DEF WeightedRandom
  <2> QED
    BY <1>2
<1>4. Picks(Strategy, cands, n) \subseteq cands
  <2> HIDE DEF cands
  <2> QED
    BY <1>1, <1>2, <1>3 DEF Picks
<1> QED
  BY <1>4

(* A candidate is an endpoint of the configuration.                        *)
LEMMA PicksType ==
    ASSUME NEW q, NEW n
    PROVE  Picks(Strategy, CandidatesOf(q), n) \subseteq Eps
<1>1. CandidatesOf(q) \subseteq Eps
  BY DEF CandidatesOf, Candidates, Supporting
<1> QED
  BY <1>1, PicksAmong

(* The rotation counter stays below its modulus.                           *)
LEMMA AdvanceRRType ==
    ASSUME rr \in 0..(RRMod - 1), AdvanceRR(Strategy)
    PROVE  rr' \in 0..(RRMod - 1)
BY PoolAssumption DEF AdvanceRR

(* A handler that gives up before it selects answers with an error.        *)
LEMMA RefusalType == ASSUME NEW q PROVE Refusal(q) \in Statuses
BY DEF Refusal, Statuses

(* A charge changes one counter and one header, both within an int64.      *)
LEMMA ChargeType ==
    ASSUME TypeInv, NEW s \in Slots, pc[s] \in MayCharge, Charge(s)
    PROVE  /\ used' \in [Clients -> Int64]
           /\ hdr' \in [Slots -> Int64 \cup {NoHeader}]
<1>1. client[s] \in Clients /\ total[s] \in Int /\ total[s] <= MaxTokens
  BY DEF TypeInv, TypeOK, HandlerOK
<1>2. used \in [Clients -> Int64] /\ hdr \in [Slots -> Int64 \cup {NoHeader}]
  BY DEF TypeInv, TypeOK
<1>3. CASE total[s] <= 0
  BY <1>1, <1>2, <1>3 DEF Charge
<1>4. CASE total[s] > 0
  <2>1. AddInt64(used[client[s]], IF total[s] < 0 THEN 0 ELSE total[s]) \in Int64
    BY <1>1, <1>2, AddInt64Type
  <2>2. used' \in [Clients -> Int64]
    BY <1>1, <1>2, <1>4, <2>1 DEF Charge, RecordUsage
  <2>3. hdr' \in [Slots -> Int64 \cup {NoHeader}]
    BY <1>1, <1>2, <1>4, <2>2 DEF Charge
  <2> QED
    BY <2>2, <2>3
<1> QED
  BY <1>1, <1>3, <1>4
-----------------------------------------------------------------------------
LEMMA TypeInit == Init => TypeInv
<1> SUFFICES ASSUME Init PROVE TypeInv
  OBVIOUS
<1>1. 0 \in Int64 /\ 0 <= MaxTokens
  BY TokensAssumption DEF Int64
<1>2. 0 \in 0..(RRMod - 1)
  BY PoolAssumption
<1> QED
  BY <1>1, <1>2 DEF Init, TokenStoreInit, PoolInit, TypeInv, TypeOK, HandlerOK,
     Pcs, Statuses, MayCharge, AtUpstream

(* Every step of every handler keeps the types.                            *)
LEMMA TypeNext == TypeInv /\ [Next]_vars => TypeInv'
<1> SUFFICES ASSUME TypeInv, [Next]_vars PROVE TypeInv'
  OBVIOUS
<1>0. CASE UNCHANGED vars
  BY <1>0 DEF vars, handlerVars, TypeInv, TypeOK, HandlerOK
<1>1. ASSUME NEW s \in Slots, Arrive(s) PROVE TypeInv'
  BY <1>1 DEF Arrive, TypeInv, TypeOK, HandlerOK, Goto, Pcs, MayCharge, AtUpstream
<1>2. ASSUME NEW s \in Slots, Admit(s) PROVE TypeInv'
  <2>1. ClientFor(call[s].cred) \in Clients
    BY <1>2, ClientForType DEF Admit
  <2> QED
    BY <1>2, <2>1 DEF Admit, TypeInv, TypeOK, HandlerOK, Goto, Pcs, MayCharge, AtUpstream
<1>3. ASSUME NEW s \in Slots, RefuseKey(s) PROVE TypeInv'
  BY <1>3 DEF RefuseKey, Respond, Statuses, TypeInv, TypeOK, HandlerOK, Goto, Pcs, MayCharge, AtUpstream
<1>4. ASSUME NEW s \in Slots, QuotaHeaders(s) PROVE TypeInv'
  BY <1>4 DEF QuotaHeaders, TypeInv, TypeOK, HandlerOK, Goto, Pcs, MayCharge, AtUpstream
<1>5. ASSUME NEW s \in Slots, Serve(s) PROVE TypeInv'
  <2>1. total' \in [Slots -> Int] /\ status' \in [Slots -> Statuses]
    BY <1>5 DEF Serve, Respond, Statuses, Int64, KeyClients, Clients, TypeInv, TypeOK, HandlerOK, Goto, Pcs, MayCharge, AtUpstream
  <2> QED
    BY <1>5, <2>1 DEF Serve, Respond, TypeInv, TypeOK, HandlerOK, Goto, Pcs, MayCharge, AtUpstream
<1>6. ASSUME NEW s \in Slots, Upload(s) \/ RefuseRequest(s) PROVE TypeInv'
  <2>1. Refusal(call[s]) \in Statuses /\ 400 \in Statuses
    BY RefusalType DEF Statuses
  <2> QED
    BY <1>6, <2>1 DEF Upload, RefuseRequest, Respond, TypeInv, TypeOK, HandlerOK, Goto, Pcs, MayCharge, AtUpstream
<1>7. ASSUME NEW s \in Slots, Select(s) PROVE TypeInv'
  <2>1. Picks(Strategy, CandidatesOf(call[s]), rr) \subseteq Eps
    BY PicksType
  <2>2. rr' \in 0..(RRMod - 1)
    BY <1>7, AdvanceRRType DEF Select, TypeInv, TypeOK
  <2> QED
    BY <1>7, <2>1, <2>2 DEF Select, Respond, Statuses, TypeInv, TypeOK, HandlerOK, Goto, Pcs, MayCharge, AtUpstream
<1>8. ASSUME NEW s \in Slots, BeginUpstream(s) PROVE TypeInv'
  BY <1>8 DEF BeginUpstream, Begin, TypeInv, TypeOK, HandlerOK, Goto, Pcs, MayCharge, AtUpstream
<1>9. ASSUME NEW s \in Slots, Answer(s) PROVE TypeInv'
  BY <1>9 DEF Answer, Statuses, TypeInv, TypeOK, HandlerOK, Goto, Pcs, MayCharge, AtUpstream
<1>10. ASSUME NEW s \in Slots, BadTarget(s) PROVE TypeInv'
  BY <1>10 DEF BadTarget, Statuses, TypeInv, TypeOK, HandlerOK, Goto, Pcs, MayCharge, AtUpstream
<1>11. ASSUME NEW s \in Slots, Abort(s) PROVE TypeInv'
  BY <1>11 DEF Abort, Statuses, TypeInv, TypeOK, HandlerOK, Goto, Pcs, MayCharge, AtUpstream
<1>12. ASSUME NEW s \in Slots, ReadAnswer(s) PROVE TypeInv'
  BY <1>12, TokensAssumption DEF ReadAnswer, TypeInv, TypeOK, HandlerOK, Goto, Pcs, MayCharge, AtUpstream
<1>13. ASSUME NEW s \in Slots, StreamLine(s) PROVE TypeInv'
  BY <1>13, TokensAssumption DEF StreamLine, TypeInv, TypeOK, HandlerOK, Goto, Pcs, MayCharge, AtUpstream
<1>14. ASSUME NEW s \in Slots, StreamEnd(s) PROVE TypeInv'
  BY <1>14 DEF StreamEnd, TypeInv, TypeOK, HandlerOK, Goto, Pcs, MayCharge, AtUpstream
<1>15. ASSUME NEW s \in Slots, Record(s) \/ Settle(s) PROVE TypeInv'
  <2>1. pc[s] \in MayCharge /\ Charge(s)
    BY <1>15 DEF Record, Settle, MayCharge
  <2>2. /\ used' \in [Clients -> Int64]
        /\ hdr' \in [Slots -> Int64 \cup {NoHeader}]
    BY <2>1, ChargeType
  <2> QED
    BY <1>15, <2>2 DEF Record, Settle, TypeInv, TypeOK, HandlerOK, Goto, Pcs, MayCharge, AtUpstream
<1>16. ASSUME NEW s \in Slots, WriteBody(s) PROVE TypeInv'
  BY <1>16 DEF WriteBody, TypeInv, TypeOK, HandlerOK, Goto, Pcs, MayCharge, AtUpstream
<1>17. ASSUME NEW s \in Slots, EndUpstream(s) PROVE TypeInv'
  BY <1>17 DEF EndUpstream, End, TypeInv, TypeOK, HandlerOK, Goto, Pcs, MayCharge, AtUpstream
<1>18. ASSUME NEW s \in Slots, Finish(s) PROVE TypeInv'
  BY <1>18, TokensAssumption DEF Finish, Statuses, TypeInv, TypeOK, HandlerOK, Goto, Pcs, MayCharge, AtUpstream
<1> QED
  BY <1>0, <1>1, <1>2, <1>3, <1>4, <1>5, <1>6, <1>7, <1>8, <1>9, <1>10, <1>11,
     <1>12, <1>13, <1>14, <1>15, <1>16, <1>17, <1>18
     DEF Next, Own, Client, Upstream, UpstreamFails, Deadline

(* The state of the gateway is of its type, whatever the configuration:    *)
(* in particular no charge leaves the range of Go's int64.                 *)
THEOREM TypeCorrect == Spec => []TypeOK
<1>1. Spec => []TypeInv
  BY TypeInit, TypeNext, PTL DEF Spec
<1>2. TypeInv => TypeOK
  BY DEF TypeInv
<1> QED
  BY <1>1, <1>2, PTL
-----------------------------------------------------------------------------
(* In-flight counts.                                                       *)

LEMMA SubsetFinite ==
    ASSUME NEW T \in SUBSET Slots
    PROVE  /\ IsFiniteSet(T) /\ Cardinality(T) \in Nat
           /\ Cardinality(T) <= Cardinality(Slots)
BY SlotsAssumption, FS_Subset, FS_CardinalityType

(* A step that neither enters nor leaves the upstream part of a handler.   *)
LEMMA HeldSame ==
    ASSUME TypeOK, NEW s \in Slots, NEW p, Goto(s, p),
           pc[s] \in AtUpstream <=> p \in AtUpstream,
           pc[s] \in AtUpstream => ep'[s] = ep[s],
           \A r \in Slots \ {s} : ep'[r] = ep[r]
    PROVE  \A e \in Eps : Held(e)' = Held(e)
BY DEF Held, Goto, TypeOK

(* With the counts unchanged, such a step keeps them conserved.            *)
LEMMA SameConserved ==
    ASSUME TypeInv, InflightConserved, NEW s \in Slots, NEW p, Goto(s, p),
           pc[s] \in AtUpstream <=> p \in AtUpstream,
           pc[s] \in AtUpstream => ep'[s] = ep[s],
           \A r \in Slots \ {s} : ep'[r] = ep[r],
           inflight' = inflight
    PROVE  InflightConserved'
<1>1. \A e \in Eps : Held(e)' = Held(e)
  BY HeldSame DEF TypeInv
<1> QED
  BY <1>1 DEF InflightConserved

(* begin() adds the handler to those its endpoint holds.                   *)
LEMMA BeginConserved ==
    ASSUME TypeInv, InflightConserved, NEW s \in Slots, BeginUpstream(s)
    PROVE  InflightConserved'
<1> SUFFICES ASSUME NEW e \in Eps
             PROVE  inflight'[e] = Cardinality(Held(e)')
  BY DEF InflightConserved
<1>1. /\ ep[s] \in Eps /\ pc[s] = "begin" /\ inflight \in [Eps -> Int]
      /\ pc \in [Slots -> Pcs]
      /\ inflight[e] = Cardinality(Held(e))
  BY DEF BeginUpstream, TypeInv, TypeOK, HandlerOK, InflightConserved
<1>2. IsFiniteSet(Held(e)) /\ s \notin Held(e)
  BY <1>1, SubsetFinite DEF Held, AtUpstream
<1>3. CASE e = ep[s]
  <2>1. Held(e)' = Held(e) \cup {s}
    BY <1>1, <1>3 DEF BeginUpstream, Goto, Held, AtUpstream
  <2>2. Cardinality(Held(e) \cup {s}) = Cardinality(Held(e)) + 1
    BY <1>2, FS_AddElement
  <2> QED
    BY <1>1, <1>3, <2>1, <2>2 DEF BeginUpstream, Begin
<1>4. CASE e # ep[s]
  <2>1. Held(e)' = Held(e)
    BY <1>1, <1>4 DEF BeginUpstream, Goto, Held, AtUpstream
  <2> QED
    BY <1>1, <1>4, <2>1 DEF BeginUpstream, Begin
<1> QED
  BY <1>3, <1>4

(* The deferred end() takes it away again.                                 *)
LEMMA EndConserved ==
    ASSUME TypeInv, InflightConserved, NEW s \in Slots, EndUpstream(s)
    PROVE  InflightConserved'
<1> SUFFICES ASSUME NEW e \in Eps
             PROVE  inflight'[e] = Cardinality(Held(e)')
  BY DEF InflightConserved
<1>1. /\ ep[s] \in Eps /\ pc[s] = "end" /\ inflight \in [Eps -> Int]
      /\ pc \in [Slots -> Pcs]
      /\ inflight[e] = Cardinality(Held(e))
  BY DEF EndUpstream, TypeInv, TypeOK, HandlerOK, InflightConserved, AtUpstream
<1>2. IsFiniteSet(Held(e)) /\ Cardinality(Held(e)) \in Nat
  BY SubsetFinite DEF Held
<1>3. CASE e = ep[s]
  <2>1. s \in Held(e) /\ Held(e)' = Held(e) \ {s}
    BY <1>1, <1>3 DEF EndUpstream, Goto, Held, AtUpstream
  <2>2. Cardinality(Held(e) \ {s}) = Cardinality(Held(e)) - 1
    BY <1>2, <2>1, FS_RemoveElement
  <2> QED
    BY <1>1, <1>2, <1>3, <2>1, <2>2 DEF EndUpstream, End
<1>4. CASE e # ep[s]
  <2>1. Held(e)' = Held(e)
    BY <1>1, <1>4 DEF EndUpstream, Goto, Held, AtUpstream
  <2> QED
    BY <1>1, <1>4, <2>1 DEF EndUpstream, End
<1> QED
  BY <1>3, <1>4

LEMMA InflightInit == Init => InflightConserved
<1> SUFFICES ASSUME Init, NEW e \in Eps PROVE inflight[e] = Cardinality(Held(e))
  BY DEF InflightConserved
<1>1. Held(e) = {}
  BY DEF Init, Held, AtUpstream
<1> QED
  BY <1>1, FS_EmptySet DEF Init, PoolInit

LEMMA InflightNext ==
    TypeInv /\ InflightConserved /\ [Next]_vars => InflightConserved'
<1> SUFFICES ASSUME TypeInv, InflightConserved, [Next]_vars
             PROVE  InflightConserved'
  OBVIOUS
<1>0. CASE UNCHANGED vars
  BY <1>0 DEF vars, handlerVars, InflightConserved, Held
(* The places a handler goes to before begin() and after end().            *)
<1>1. ASSUME NEW s \in Slots,
             \/ Arrive(s) \/ Admit(s) \/ RefuseKey(s) \/ QuotaHeaders(s)
             \/ Serve(s) \/ Upload(s) \/ RefuseRequest(s) \/ Select(s) \/ Finish(s)
      PROVE  InflightConserved'
  <2>1. PICK p \in {"idle", "auth", "quota", "serve", "upload", "route", "begin", "done"} :
            Goto(s, p)
    BY <1>1 DEF Arrive, Admit, RefuseKey, QuotaHeaders, Serve, Upload, RefuseRequest,
       Select, Finish, Respond
  <2>2. p \notin AtUpstream /\ pc[s] \notin AtUpstream
    BY <1>1 DEF Arrive, Admit, RefuseKey, QuotaHeaders, Serve, Upload, RefuseRequest,
       Select, Finish, AtUpstream
  <2>3. inflight' = inflight /\ \A r \in Slots \ {s} : ep'[r] = ep[r]
    BY <1>1 DEF Arrive, Admit, RefuseKey, QuotaHeaders, Serve, Upload, RefuseRequest,
       Select, Finish, TypeInv, TypeOK
  <2> QED
    BY <2>1, <2>2, <2>3, SameConserved
<1>2. ASSUME NEW s \in Slots, BeginUpstream(s) PROVE InflightConserved'
  BY <1>2, BeginConserved
(* The places between them: on every path, failures included.              *)
<1>3. ASSUME NEW s \in Slots,
             \/ Answer(s) \/ BadTarget(s) \/ Abort(s) \/ ReadAnswer(s)
             \/ StreamEnd(s) \/ Record(s) \/ Settle(s) \/ WriteBody(s)
      PROVE  InflightConserved'
  <2>1. PICK p \in AtUpstream : Goto(s, p)
    BY <1>3 DEF Answer, BadTarget, Abort, ReadAnswer, StreamEnd, Record,
       Settle, WriteBody, AtUpstream
  <2>2. pc[s] \in AtUpstream
    BY <1>3 DEF Answer, BadTarget, Abort, ReadAnswer, StreamEnd, Record,
       Settle, WriteBody, AtUpstream
  <2>3. inflight' = inflight /\ ep' = ep
    BY <1>3 DEF Answer, BadTarget, Abort, ReadAnswer, StreamEnd, Record,
       Settle, WriteBody
  <2> QED
    BY <2>1, <2>2, <2>3, SameConserved
<1>4. ASSUME NEW s \in Slots, StreamLine(s) PROVE InflightConserved'
  BY <1>4 DEF StreamLine, InflightConserved, Held
<1>5. ASSUME NEW s \in Slots, EndUpstream(s) PROVE InflightConserved'
  BY <1>5, EndConserved
<1> QED
  BY <1>0, <1>1, <1>2, <1>3, <1>4, <1>5
     DEF Next, Own, Client, Upstream, UpstreamFails, Deadline

(* The in-flight count of an endpoint is the number of handlers between    *)
(* its begin and its end, however many run and whatever fails.             *)
THEOREM InflightCounts == Spec => []InflightConserved
<1>1. Init => TypeInv /\ InflightConserved
  BY TypeInit, InflightInit
<1>2. TypeInv /\ InflightConserved /\ [Next]_vars => (TypeInv /\ InflightConserved)'
  BY TypeNext, InflightNext
<1> QED
  BY <1>1, <1>2, PTL DEF Spec
-----------------------------------------------------------------------------
(* Quotas.                                                                 *)

(* What one client's open requests can still add to its counter.           *)
Reach(c) == used[c] + MaxTokens * Cardinality(Open(c))
Ceiling(c) == Quota(c) - 1 + MaxTokens * Cardinality(Slots)

LEMMA TimesMonotone ==
    ASSUME NEW m \in Nat, NEW a \in Nat, NEW b \in Nat, a <= b
    PROVE  m * a <= m * b
OBVIOUS

LEMMA OpenFinite ==
    ASSUME NEW c
    PROVE  /\ IsFiniteSet(Open(c)) /\ Cardinality(Open(c)) \in Nat
           /\ Cardinality(Open(c)) <= Cardinality(Slots)
           /\ Cardinality(Slots) \in Nat
BY SubsetFinite, SlotsAssumption, FS_CardinalityType DEF Open

LEMMA CeilingFits ==
    ASSUME NEW c \in KeyClients
    PROVE  /\ Ceiling(c) \in Int /\ Ceiling(c) < MaxInt64
           /\ Quota(c) \in Int
<1>1. Cardinality(Slots) \in Nat /\ c \in Clients
  BY SlotsAssumption, FS_CardinalityType DEF Clients
<1>2. Quota(c) \in Int /\ Quota(c) + MaxTokens * Cardinality(Slots) <= MaxInt64
  BY <1>1, QuotaAssumption
<1>3. MaxTokens * Cardinality(Slots) \in Int
  BY <1>1, TokensAssumption
<1> QED
  BY <1>2, <1>3, TokensAssumption DEF Ceiling

(* A step that opens no request and charges nobody keeps the bound.        *)
LEMMA ReachShrinks ==
    ASSUME TypeOK, QuotaOvershootBounded, used' = used,
           \A c \in KeyClients : Open(c)' \subseteq Open(c)
    PROVE  QuotaOvershootBounded'
<1> SUFFICES ASSUME NEW c \in KeyClients, Limited(c)
             PROVE  used[c] + MaxTokens * Cardinality(Open(c)') <= Ceiling(c)
  BY DEF QuotaOvershootBounded, Ceiling, Limited, Quota
<1>1. /\ Cardinality(Open(c)') \in Nat /\ Cardinality(Open(c)) \in Nat
      /\ Cardinality(Open(c)') <= Cardinality(Open(c))
  <2>1. IsFiniteSet(Open(c)) /\ Open(c)' \in SUBSET Open(c)
    BY OpenFinite
  <2>2. IsFiniteSet(Open(c)') /\ Cardinality(Open(c)') <= Cardinality(Open(c))
    BY <2>1, FS_Subset
  <2> QED
    BY <2>1, <2>2, FS_CardinalityType
<1>2. MaxTokens * Cardinality(Open(c)') <= MaxTokens * Cardinality(Open(c))
  BY <1>1, TimesMonotone, TokensAssumption
<1>3. used[c] \in Int
  BY DEF TypeOK, Int64, Clients
<1>4. /\ MaxTokens * Cardinality(Open(c)') \in Int
      /\ MaxTokens * Cardinality(Open(c)) \in Int
  BY <1>1, TokensAssumption
<1>5. used[c] + MaxTokens * Cardinality(Open(c)) <= Ceiling(c)
  BY DEF QuotaOvershootBounded, Ceiling
<1> QED
  BY <1>2, <1>3, <1>4, <1>5, CeilingFits

(* A request is admitted below the quota, so even if every goroutine       *)
(* served this client the reach would stay below the ceiling.              *)
LEMMA AdmitBounded ==
    ASSUME TypeInv, QuotaOvershootBounded, NEW s \in Slots, Admit(s)
    PROVE  QuotaOvershootBounded'
<1> DEFINE me == ClientFor(call[s].cred)
<1> SUFFICES ASSUME NEW c \in KeyClients, Limited(c)
             PROVE  used[c] + MaxTokens * Cardinality(Open(c)') <= Ceiling(c)
  BY DEF QuotaOvershootBounded, Ceiling, Limited, Quota, Admit
<1>0. used[c] \in Int /\ Quota(c) \in Int
  BY CeilingFits DEF TypeInv, TypeOK, Int64, Clients
<1>1. CASE c = me
  <2>1. used[c] <= Quota(c) - 1
    BY <1>0, <1>1 DEF Admit, Exhausted
  <2>2. /\ Cardinality(Open(c)') \in Nat /\ Cardinality(Slots) \in Nat
        /\ Cardinality(Open(c)') <= Cardinality(Slots)
    BY SubsetFinite, SlotsAssumption, FS_CardinalityType DEF Open
  <2>3. MaxTokens * Cardinality(Open(c)') <= MaxTokens * Cardinality(Slots)
    BY <2>2, TimesMonotone, TokensAssumption
  <2>4. /\ MaxTokens * Cardinality(Open(c)') \in Int
        /\ MaxTokens * Cardinality(Slots) \in Int
    BY <2>2, TokensAssumption
  <2> QED
    BY <1>0, <2>1, <2>3, <2>4 DEF Ceiling
<1>2. CASE c # me
  <2>1. Open(c)' = Open(c)
    BY <1>2 DEF Admit, Goto, Open, TypeInv, TypeOK, MayCharge
  <2> QED
    BY <2>1 DEF QuotaOvershootBounded, Ceiling
<1> QED
  BY <1>1, <1>2

(* A charge takes its request out of the open ones and adds at most what   *)
(* the bound had set aside for it; so the counter does not wrap.           *)
LEMMA ChargeBounded ==
    ASSUME TypeInv, QuotaOvershootBounded, NEW s \in Slots,
           Record(s) \/ Settle(s)
    PROVE  QuotaOvershootBounded'
<1> SUFFICES ASSUME NEW c \in KeyClients, Limited(c)
             PROVE  used'[c] + MaxTokens * Cardinality(Open(c)') <= Ceiling(c)
  BY DEF QuotaOvershootBounded, Ceiling, Limited, Quota
<1>1. /\ pc[s] \in MayCharge /\ Charge(s) /\ client[s] \in Clients
      /\ total[s] \in Int /\ total[s] <= MaxTokens
      /\ used \in [Clients -> Int64] /\ client' = client
      /\ MaxTokens \in Nat /\ MaxInt64 \in Nat /\ c \in Clients
  BY TokensAssumption
     DEF Record, Settle, TypeInv, TypeOK, HandlerOK, MayCharge, Clients
<1>2. /\ Cardinality(Open(c)) \in Nat /\ IsFiniteSet(Open(c))
      /\ MaxTokens * Cardinality(Open(c)) \in Nat
      /\ used[c] + MaxTokens * Cardinality(Open(c)) <= Ceiling(c)
      /\ Ceiling(c) \in Int /\ Ceiling(c) < MaxInt64 /\ used[c] \in Int
  BY <1>1, OpenFinite, CeilingFits DEF QuotaOvershootBounded, Ceiling, Int64
<1>3. CASE c = client[s]
  <2>1. s \in Open(c) /\ Open(c)' = Open(c) \ {s}
    BY <1>1, <1>3 DEF Record, Settle, Goto, Open, TypeInv, TypeOK, MayCharge
  <2>2. Cardinality(Open(c)') = Cardinality(Open(c)) - 1
    BY <1>2, <2>1, FS_RemoveElement
  <2>3. MaxTokens * (Cardinality(Open(c)) - 1)
          = MaxTokens * Cardinality(Open(c)) - MaxTokens
    BY <1>1, <1>2
  <2>4. Cardinality(Open(c)) - 1 \in Nat
    BY <1>2, <2>1, FS_EmptySet
  <2>5. MaxTokens * (Cardinality(Open(c)) - 1) \in Nat
    BY <1>1, <2>4
  <2>6. used'[c] <= used[c] + MaxTokens
    <3>1. CASE total[s] <= 0
      BY <1>1, <1>2, <3>1 DEF Charge
    <3>2. CASE total[s] > 0
      <4>1. used'[c] = AddInt64(used[c], total[s])
        BY <1>1, <1>3, <3>2 DEF Charge, RecordUsage
      <4>2. used[c] + total[s] <= MaxInt64
        BY <1>1, <1>2, <2>3, <2>5
      <4> QED
        BY <1>1, <1>2, <4>1, <4>2 DEF AddInt64
    <3> QED
      BY <1>1, <3>1, <3>2
  <2>7. used'[c] \in Int
    BY <1>1, ChargeType DEF Int64
  <2> QED
    BY <1>1, <1>2, <2>2, <2>3, <2>5, <2>6, <2>7
<1>4. CASE c # client[s]
  <2>1. Open(c)' = Open(c)
    BY <1>1, <1>4 DEF Record, Settle, Goto, Open, TypeInv, TypeOK
  <2>2. used'[c] = used[c]
    BY <1>1, <1>4 DEF Charge, RecordUsage
  <2> QED
    BY <1>2, <2>1, <2>2
<1> QED
  BY <1>3, <1>4

LEMMA QuotaInit == Init => QuotaOvershootBounded
<1> SUFFICES ASSUME Init, NEW c \in KeyClients, Limited(c)
             PROVE  used[c] + MaxTokens * Cardinality(Open(c)) <= Ceiling(c)
  BY DEF QuotaOvershootBounded, Ceiling
<1>1. Open(c) = {} /\ used[c] = 0
  BY DEF Init, TokenStoreInit, Open, MayCharge, Clients
<1>2. MaxTokens * 0 = 0 /\ MaxTokens * Cardinality(Slots) \in Nat
  BY TokensAssumption, SlotsAssumption, FS_CardinalityType
<1> QED
  BY <1>1, <1>2, FS_EmptySet, CeilingFits DEF Ceiling, Limited

LEMMA QuotaNext ==
    TypeInv /\ QuotaOvershootBounded /\ [Next]_vars => QuotaOvershootBounded'
<1> SUFFICES ASSUME TypeInv, QuotaOvershootBounded, [Next]_vars
             PROVE  QuotaOvershootBounded'
  OBVIOUS
<1>0. CASE UNCHANGED vars
  BY <1>0 DEF vars, handlerVars, QuotaOvershootBounded, Open, Limited, Quota
<1>1. ASSUME NEW s \in Slots, Admit(s) PROVE QuotaOvershootBounded'
  BY <1>1, AdmitBounded
<1>2. ASSUME NEW s \in Slots, Record(s) \/ Settle(s) PROVE QuotaOvershootBounded'
  BY <1>2, ChargeBounded
<1>3. ASSUME NEW s \in Slots,
             \/ Arrive(s) \/ RefuseKey(s) \/ Serve(s) \/ Upload(s) \/ RefuseRequest(s)
             \/ QuotaHeaders(s) \/ Select(s) \/ WriteBody(s) \/ EndUpstream(s)
             \/ Finish(s)
      PROVE  QuotaOvershootBounded'
  <2>1. \A c \in KeyClients : Open(c)' \subseteq Open(c)
    BY <1>3 DEF Arrive, RefuseKey, Serve, Upload, RefuseRequest, QuotaHeaders, Select,
       WriteBody, EndUpstream, Finish, Respond, Goto, Open, MayCharge, TypeInv,
       TypeOK
  <2>2. used' = used
    BY <1>3 DEF Arrive, RefuseKey, Serve, Upload, RefuseRequest, QuotaHeaders, Select,
       WriteBody, EndUpstream, Finish
  <2> QED
    BY <2>1, <2>2, ReachShrinks DEF TypeInv
<1>4. ASSUME NEW s \in Slots,
             \/ BeginUpstream(s) \/ Answer(s) \/ BadTarget(s) \/ Abort(s)
             \/ ReadAnswer(s) \/ StreamLine(s) \/ StreamEnd(s)
      PROVE  QuotaOvershootBounded'
  <2>1. \A c \in KeyClients : Open(c)' \subseteq Open(c)
    BY <1>4 DEF BeginUpstream, Answer, BadTarget, Abort, ReadAnswer, StreamLine,
       StreamEnd, Goto, Open, MayCharge, TypeInv, TypeOK
  <2>2. used' = used
    BY <1>4 DEF BeginUpstream, Answer, BadTarget, Abort, ReadAnswer, StreamLine,
       StreamEnd
  <2> QED
    BY <2>1, <2>2, ReachShrinks DEF TypeInv
<1> QED
  BY <1>0, <1>1, <1>2, <1>3, <1>4
     DEF Next, Own, Client, Upstream, UpstreamFails, Deadline

(* However many goroutines run and however checks and charges interleave,  *)
(* a client passes its quota by less than one answer per goroutine.        *)
THEOREM QuotaOvershoot == Spec => []QuotaOvershootBounded
<1>1. Init => TypeInv /\ QuotaOvershootBounded
  BY TypeInit, QuotaInit
<1>2. TypeInv /\ QuotaOvershootBounded /\ [Next]_vars
        => (TypeInv /\ QuotaOvershootBounded)'
  BY TypeNext, QuotaNext
<1> QED
  BY <1>1, <1>2, PTL DEF Spec
-----------------------------------------------------------------------------
(* Below the ceiling of its reach there is no room for an overflow: a      *)
(* charge adds to a limited client's counter what the answer reported.     *)
LEMMA ChargeAdds ==
    ASSUME TypeInv, QuotaOvershootBounded, NEW s \in Slots,
           Record(s) \/ Settle(s), client[s] \in KeyClients, Limited(client[s]),
           total[s] > 0
    PROVE  used' = [used EXCEPT ![client[s]] = @ + total[s]]
<1> DEFINE c == client[s]
<1>1. /\ pc[s] \in MayCharge /\ Charge(s) /\ c \in Clients
      /\ total[s] \in Int /\ total[s] <= MaxTokens
      /\ used \in [Clients -> Int64] /\ MaxTokens \in Nat /\ MaxInt64 \in Nat
  BY TokensAssumption
     DEF Record, Settle, TypeInv, TypeOK, HandlerOK, MayCharge, Clients
<1>2. s \in Open(c) /\ IsFiniteSet(Open(c)) /\ Cardinality(Open(c)) \in Nat
  BY <1>1, OpenFinite DEF Open
<1>3. 1 <= Cardinality(Open(c))
  BY <1>2, FS_EmptySet
<1>4. MaxTokens * 1 <= MaxTokens * Cardinality(Open(c))
  BY <1>1, <1>2, <1>3, TimesMonotone
<1>5. /\ used[c] + MaxTokens * Cardinality(Open(c)) <= Ceiling(c)
      /\ Ceiling(c) \in Int /\ Ceiling(c) < MaxInt64 /\ used[c] \in Int
      /\ MaxTokens * Cardinality(Open(c)) \in Int
  BY <1>1, <1>2, CeilingFits DEF QuotaOvershootBounded, Ceiling, Int64
<1>6. used[c] + total[s] <= MaxInt64
  BY <1>1, <1>4, <1>5
<1>7. AddInt64(used[c], total[s]) = used[c] + total[s]
  BY <1>1, <1>5, <1>6 DEF AddInt64
<1> QED
  BY <1>1, <1>7 DEF Charge, RecordUsage

(* So the counter of a limited client never goes down.                     *)
LEMMA ChargeMovesOn ==
    ASSUME TypeInv, QuotaOvershootBounded, NEW s \in Slots,
           Record(s) \/ Settle(s), NEW c \in KeyClients, Limited(c)
    PROVE  used'[c] >= used[c]
<1>1. /\ Charge(s) /\ total[s] \in Int /\ client[s] \in Clients
      /\ used \in [Clients -> Int64] /\ c \in Clients
      /\ used[c] \in Int
  BY DEF Record, Settle, TypeInv, TypeOK, HandlerOK, MayCharge, Clients, Int64
<1>2. CASE c = client[s] /\ total[s] > 0
  BY <1>1, <1>2, ChargeAdds
<1>3. CASE ~(c = client[s] /\ total[s] > 0)
  BY <1>1, <1>3 DEF Charge, RecordUsage
<1> QED
  BY <1>2, <1>3

LEMMA ExhaustionStep ==
    ASSUME TypeInv, QuotaOvershootBounded, [Next]_vars, NEW c \in KeyClients,
           Exhausted(c)
    PROVE  Exhausted(c)' /\ Open(c)' \subseteq Open(c)
<1>0. CASE UNCHANGED vars
  BY <1>0 DEF vars, handlerVars, Exhausted, Open, Limited, Quota
<1>1. ASSUME NEW s \in Slots, Admit(s) PROVE Exhausted(c)' /\ Open(c)' \subseteq Open(c)
  <2>1. c # ClientFor(call[s].cred)
    BY <1>1 DEF Admit
  <2> QED
    BY <1>1, <2>1 DEF Admit, Goto, Exhausted, Open, Limited, Quota, MayCharge,
       TypeInv, TypeOK
<1>2. ASSUME NEW s \in Slots, Record(s) \/ Settle(s)
      PROVE  Exhausted(c)' /\ Open(c)' \subseteq Open(c)
  <2>1. used'[c] >= used[c]
    BY <1>2, ChargeMovesOn DEF Exhausted
  <2>2. used[c] \in Int /\ used'[c] \in Int /\ Quota(c) \in Int
    <3>1. TypeInv'
      BY TypeNext
    <3> QED
      BY <3>1, CeilingFits DEF TypeInv, TypeOK, Clients, Int64
  <2>3. Exhausted(c)'
    BY <2>1, <2>2 DEF Exhausted, Limited, Quota
  <2>4. Open(c)' \subseteq Open(c)
    BY <1>2 DEF Record, Settle, Goto, Open, MayCharge, TypeInv, TypeOK
  <2> QED
    BY <2>3, <2>4
<1>3. ASSUME NEW s \in Slots,
             \/ Arrive(s) \/ RefuseKey(s) \/ Serve(s) \/ Upload(s) \/ RefuseRequest(s)
             \/ QuotaHeaders(s) \/ Select(s) \/ WriteBody(s) \/ EndUpstream(s)
             \/ Finish(s)
      PROVE  Exhausted(c)' /\ Open(c)' \subseteq Open(c)
  BY <1>3 DEF Arrive, RefuseKey, Serve, Upload, RefuseRequest, QuotaHeaders, Select,
     WriteBody, EndUpstream, Finish, Respond, Goto, Open, MayCharge, TypeInv,
     TypeOK, Exhausted, Limited, Quota
<1>4. ASSUME NEW s \in Slots,
             \/ BeginUpstream(s) \/ Answer(s) \/ BadTarget(s) \/ Abort(s)
             \/ ReadAnswer(s) \/ StreamLine(s) \/ StreamEnd(s)
      PROVE  Exhausted(c)' /\ Open(c)' \subseteq Open(c)
  BY <1>4 DEF BeginUpstream, Answer, BadTarget, Abort, ReadAnswer, StreamLine,
     StreamEnd, Goto, Open, MayCharge, TypeInv, TypeOK, Exhausted, Limited, Quota
<1> QED
  BY <1>0, <1>1, <1>2, <1>3, <1>4
     DEF Next, Own, Client, Upstream, UpstreamFails, Deadline

(* A used-up quota stays used up and lets nobody in any more.              *)
THEOREM ExhaustionFinal == Spec => ExhaustionIsFinal
<1>1. TypeInv /\ QuotaOvershootBounded /\ [Next]_vars =>
        [\A c \in KeyClients :
            Exhausted(c) => Exhausted(c)' /\ Open(c)' \subseteq Open(c)]_vars
  BY ExhaustionStep
<1>2. Init => TypeInv /\ QuotaOvershootBounded
  BY TypeInit, QuotaInit
<1>3. TypeInv /\ QuotaOvershootBounded /\ [Next]_vars
        => (TypeInv /\ QuotaOvershootBounded)'
  BY TypeNext, QuotaNext
<1> QED
  BY <1>1, <1>2, <1>3, PTL DEF Spec, ExhaustionIsFinal
-----------------------------------------------------------------------------
(* What a response shows of the quota.  By the place of its handler, a     *)
(* response of a limited client has a header or has none yet; and what it  *)
(* shows was the counter at some moment, which has only moved on since.    *)
ShownInv ==
    \A s \in Slots :
        /\ pc[s] \in {"idle", "auth"} => client[s] = NoClient /\ hdr[s] = NoHeader
        /\ pc[s] \in {"idle", "auth", "quota"} => sent[s] = NoHeader
        /\ pc[s] \notin {"idle", "auth", "quota", "serve", "done"} =>
              call[s].op \in {Chat, Audio}
        /\ Limited(client[s]) =>
              /\ client[s] \in Clients
              /\ hdr[s] # NoHeader => hdr[s] <= used[client[s]]
              /\ sent[s] # NoHeader => sent[s] <= used[client[s]]
              /\ pc[s] # "quota" => hdr[s] \in Int64
              /\ call[s].op = "usage" /\ pc[s] = "done" =>
                    sent[s] \in Int64 /\ sent[s] <= total[s]

LEMMA LimitedHasKey ==
    ASSUME NEW c, Limited(c)
    PROVE  c \in KeyClients /\ c \in Clients /\ c # NoClient /\ c # Anonymous
BY NamesAssumption DEF Limited, Quota, Clients

LEMMA ShownInit == Init => ShownInv
BY LimitedHasKey DEF Init, ShownInv

LEMMA ShownNext == TypeInv /\ QuotaOvershootBounded /\ ShownInv /\ [Next]_vars => ShownInv'
<1> SUFFICES ASSUME TypeInv, QuotaOvershootBounded, ShownInv, [Next]_vars
             PROVE  ShownInv'
  OBVIOUS
<1> USE LimitedHasKey, NamesAssumption
<1>a. \A c : Limited(c)' <=> Limited(c)
  BY DEF Limited, Quota
<1>0. CASE UNCHANGED vars
  BY <1>0, <1>a DEF vars, handlerVars, ShownInv
<1>1. ASSUME NEW s \in Slots, Arrive(s) PROVE ShownInv'
  BY <1>1, <1>a DEF Arrive, Goto, ShownInv, TypeInv, TypeOK
<1>2. ASSUME NEW s \in Slots, Admit(s) PROVE ShownInv'
  BY <1>2, <1>a DEF Admit, Goto, ShownInv, TypeInv, TypeOK
<1>3. ASSUME NEW s \in Slots, RefuseKey(s) PROVE ShownInv'
  BY <1>3, <1>a DEF RefuseKey, Respond, Goto, ShownInv, TypeInv, TypeOK
<1>4. ASSUME NEW s \in Slots, QuotaHeaders(s) PROVE ShownInv'
  BY <1>4, <1>a DEF QuotaHeaders, Goto, ShownInv, TypeInv, TypeOK, Int64
<1>5. ASSUME NEW s \in Slots, Serve(s) PROVE ShownInv'
  BY <1>5, <1>a DEF Serve, Respond, Goto, ShownInv, TypeInv, TypeOK, Int64
<1>6. ASSUME NEW s \in Slots, Upload(s) \/ RefuseRequest(s) PROVE ShownInv'
  BY <1>6, <1>a DEF Upload, RefuseRequest, Respond, Goto, ShownInv, TypeInv, TypeOK, Chat, Audio
<1>7. ASSUME NEW s \in Slots, Select(s) PROVE ShownInv'
  BY <1>7, <1>a DEF Select, Respond, Goto, ShownInv, TypeInv, TypeOK, Chat, Audio
<1>8. ASSUME NEW s \in Slots,
             \/ BeginUpstream(s) \/ Answer(s) \/ BadTarget(s) \/ Abort(s)
             \/ ReadAnswer(s) \/ StreamLine(s) \/ StreamEnd(s) \/ WriteBody(s)
      PROVE  ShownInv'
  BY <1>8, <1>a DEF BeginUpstream, Answer, BadTarget, Abort, ReadAnswer, StreamLine,
     StreamEnd, WriteBody, Goto, ShownInv, TypeInv, TypeOK, Chat, Audio
<1>9. ASSUME NEW s \in Slots, EndUpstream(s) PROVE ShownInv'
  BY <1>9, <1>a DEF EndUpstream, Goto, ShownInv, TypeInv, TypeOK, Chat, Audio
<1>10. ASSUME NEW s \in Slots, Finish(s) PROVE ShownInv'
  BY <1>10, <1>a DEF Finish, Goto, ShownInv, TypeInv, TypeOK
<1>11. ASSUME NEW s \in Slots, Record(s) \/ Settle(s) PROVE ShownInv'
  <2>1. \A c \in KeyClients : Limited(c) => used'[c] >= used[c]
    BY <1>11, ChargeMovesOn
  <2>2. /\ used \in [Clients -> Int64] /\ used' \in [Clients -> Int64]
        /\ hdr \in [Slots -> Int64 \cup {NoHeader}]
        /\ sent \in [Slots -> Int64 \cup {NoHeader}]
    <3>1. TypeInv'
      BY TypeNext
    <3> QED
      BY <3>1 DEF TypeInv, TypeOK
  <2>3. /\ pc[s] \in {"record", "settle"} /\ Charge(s) /\ sent' = sent
        /\ call' = call /\ client' = client /\ total' = total
        /\ pc' \in {[pc EXCEPT ![s] = "write"], [pc EXCEPT ![s] = "end"]}
        /\ pc \in [Slots -> Pcs]
    BY <1>11 DEF Record, Settle, Goto, TypeInv, TypeOK
  <2>4. hdr' \in {hdr, [hdr EXCEPT ![s] = used'[client[s]]]}
    BY <2>3 DEF Charge
  <2> SUFFICES ASSUME NEW r \in Slots, Limited(client[r])
               PROVE  /\ hdr'[r] # NoHeader => hdr'[r] <= used'[client[r]]
                      /\ sent[r] # NoHeader => sent[r] <= used'[client[r]]
                      /\ pc'[r] # "quota" => hdr'[r] \in Int64
    BY <2>2, <2>3, <2>4, <1>a DEF ShownInv, Chat, Audio
  <2>5. /\ used'[client[r]] >= used[client[r]]
        /\ used'[client[r]] \in Int64 /\ used[client[r]] \in Int64
        /\ client[r] \in Clients
    BY <2>1, <2>2
  <2>6. /\ hdr[r] # NoHeader => hdr[r] <= used[client[r]]
        /\ sent[r] # NoHeader => sent[r] <= used[client[r]]
        /\ pc[r] # "quota" => hdr[r] \in Int64
    BY DEF ShownInv
  <2> QED
    BY <2>2, <2>3, <2>4, <2>5, <2>6 DEF Int64
<1> QED
  BY <1>0, <1>1, <1>2, <1>3, <1>4, <1>5, <1>6, <1>7, <1>8, <1>9, <1>10, <1>11
     DEF Next, Own, Client, Upstream, UpstreamFails, Deadline

QuotaInv == TypeInv /\ QuotaOvershootBounded /\ ShownInv

LEMMA QuotaInvariant == Spec => []QuotaInv
<1>1. Init => QuotaInv
  BY TypeInit, QuotaInit, ShownInit DEF QuotaInv
<1>2. QuotaInv /\ [Next]_vars => QuotaInv'
  BY TypeNext, QuotaNext, ShownNext DEF QuotaInv
<1> QED
  BY <1>1, <1>2, PTL DEF Spec

(* No client is ever shown more than it was charged, nor a usage body that *)
(* is behind the header of its own response.                               *)
THEOREM ShownOrder == Spec => []ShownInOrder
<1>1. QuotaInv => ShownInOrder
  BY LimitedHasKey DEF QuotaInv, ShownInv, ShownInOrder
<1> QED
  BY <1>1, QuotaInvariant, PTL

(* A header that is replaced shows the charge of its own request.          *)
THEOREM HeaderOwnCharge == Spec => HeaderCountsOwnCharge
<1> DEFINE Counts(s) ==
      pc[s] = "record" /\ total[s] > 0 /\ Limited(client[s]) /\ pc'[s] = "write"
        => hdr'[s] >= hdr[s] + total[s]
<1>1. QuotaInv /\ [Next]_vars => [\A s \in Slots : Counts(s)]_vars
  <2> SUFFICES ASSUME QuotaInv, Next, NEW s \in Slots,
                      pc[s] = "record", total[s] > 0, Limited(client[s]), pc'[s] = "write"
               PROVE  hdr'[s] >= hdr[s] + total[s]
    OBVIOUS
  <2>1. Record(s)
    <3>1. pc \in [Slots -> Pcs]
      BY DEF QuotaInv, TypeInv, TypeOK
    <3>2. ASSUME NEW r \in Slots,
                 \/ Arrive(r) \/ Admit(r) \/ RefuseKey(r) \/ QuotaHeaders(r)
                 \/ Serve(r) \/ Upload(r) \/ RefuseRequest(r) \/ Select(r) \/ BeginUpstream(r)
          PROVE  FALSE
      BY <3>1, <3>2 DEF Arrive, Admit, RefuseKey, QuotaHeaders, Serve, Upload, RefuseRequest,
         Select, BeginUpstream, Respond, Goto
    <3>3. ASSUME NEW r \in Slots,
                 \/ Answer(r) \/ BadTarget(r) \/ Abort(r) \/ ReadAnswer(r)
                 \/ StreamLine(r) \/ StreamEnd(r) \/ Settle(r) \/ WriteBody(r)
                 \/ EndUpstream(r) \/ Finish(r)
          PROVE  FALSE
      BY <3>1, <3>3 DEF Answer, BadTarget, Abort, ReadAnswer, StreamLine, StreamEnd,
         Settle, WriteBody, EndUpstream, Finish, Goto
    <3>4. PICK r \in Slots : Record(r)
      BY <3>2, <3>3 DEF Next, Own, Client, Upstream, UpstreamFails, Deadline
    <3> QED
      BY <3>1, <3>4 DEF Record, Goto
  <2>2. used' = [used EXCEPT ![client[s]] = @ + total[s]]
    BY <2>1, ChargeAdds, LimitedHasKey DEF QuotaInv
  <2>3. hdr' = [hdr EXCEPT ![s] = used'[client[s]]]
    BY <2>1 DEF Record, Charge, QuotaInv, TypeInv, TypeOK
  <2>4. /\ hdr[s] <= used[client[s]] /\ hdr[s] \in Int64 /\ client[s] \in Clients
        /\ used \in [Clients -> Int64] /\ hdr \in [Slots -> Int64 \cup {NoHeader}]
        /\ total[s] \in Int
    BY NamesAssumption DEF QuotaInv, TypeInv, TypeOK, ShownInv, Int64
  <2> QED
    BY <2>2, <2>3, <2>4 DEF Int64
<1> QED
  BY <1>1, QuotaInvariant, PTL DEF Spec, HeaderCountsOwnCharge
-----------------------------------------------------------------------------
(* Routing.                                                                *)

FitsRoute(q, e) ==
    /\ RouteOf(q) # 0 => /\ Routes[RouteOf(q)].kind = q.op
                         /\ EndpointAllowed(e, Routes[RouteOf(q)].endpoints)
    /\ Supports(e, LogicalModel(q))

(* Whatever the strategy and the counter, selectEndpoint picks an endpoint *)
(* that the request may go to: the fallback stays within the route.        *)
LEMMA PicksFit ==
    ASSUME NEW q, Refusal(q) = 0, NEW n,
           NEW e \in Picks(Strategy, CandidatesOf(q), n)
    PROVE  FitsRoute(q, e)
<1>1. e \in CandidatesOf(q)
  BY PicksAmong
<1>2. ~WrongKind(q)
  BY DEF Refusal
<1>3. e \in Candidates(LogicalModel(q), IF Routed(q) THEN Routes[RouteOf(q)].endpoints ELSE {})
  BY <1>1 DEF CandidatesOf
<1> QED
  BY <1>2, <1>3 DEF FitsRoute, WrongKind, Routed, Candidates, Supporting, Supports

LEMMA RouteNext == TypeInv /\ ForwardedWithinRoute /\ [Next]_vars => ForwardedWithinRoute'
<1> DEFINE Forwards == AtUpstream \cup {"begin"}
<1>1. ForwardedWithinRoute <=> \A s \in Slots : pc[s] \in Forwards => FitsRoute(call[s], ep[s])
  BY DEF ForwardedWithinRoute, FitsRoute
<1>2. ForwardedWithinRoute' <=>
        \A s \in Slots : pc'[s] \in Forwards => FitsRoute(call'[s], ep'[s])
  BY DEF ForwardedWithinRoute, FitsRoute, EndpointAllowed, Supports, LogicalModel,
     RouteOf, WithPath, WithModel, Routed
<1> SUFFICES ASSUME TypeInv, ForwardedWithinRoute, [Next]_vars,
                    NEW r \in Slots, pc'[r] \in Forwards
             PROVE  FitsRoute(call'[r], ep'[r])
  BY <1>2
<1>3. pc[r] \in Forwards => FitsRoute(call[r], ep[r])
  BY <1>1
<1>4. CASE pc[r] \in Forwards /\ call'[r] = call[r] /\ ep'[r] = ep[r]
  BY <1>3, <1>4
<1>5. CASE Select(r)
  BY <1>5, PicksFit DEF Select, Respond, Goto, TypeInv, TypeOK, AtUpstream
<1> QED
  <2>1. CASE UNCHANGED vars
    BY <1>4, <2>1 DEF vars, handlerVars
  <2>2. ASSUME NEW s \in Slots, Select(s) PROVE FitsRoute(call'[r], ep'[r])
    <3>1. CASE s = r
      BY <1>5, <2>2, <3>1
    <3>2. CASE s # r
      BY <1>4, <2>2, <3>2 DEF Select, Respond, Goto, TypeInv, TypeOK
    <3> QED
      BY <3>1, <3>2
  <2>3. ASSUME NEW s \in Slots,
               \/ Arrive(s) \/ Admit(s) \/ RefuseKey(s) \/ QuotaHeaders(s) \/ Serve(s)
               \/ Upload(s) \/ RefuseRequest(s) \/ EndUpstream(s) \/ Finish(s)
        PROVE  FitsRoute(call'[r], ep'[r])
    BY <1>4, <2>3 DEF Arrive, Admit, RefuseKey, QuotaHeaders, Serve, Upload, RefuseRequest,
       EndUpstream, Finish, Respond, Goto, TypeInv, TypeOK, AtUpstream
  <2>4. ASSUME NEW s \in Slots,
               \/ BeginUpstream(s) \/ Answer(s) \/ BadTarget(s) \/ Abort(s)
               \/ ReadAnswer(s) \/ StreamLine(s) \/ StreamEnd(s) \/ Record(s)
               \/ Settle(s) \/ WriteBody(s)
        PROVE  FitsRoute(call'[r], ep'[r])
    BY <1>4, <2>4 DEF BeginUpstream, Answer, BadTarget, Abort, ReadAnswer, StreamLine,
       StreamEnd, Record, Settle, WriteBody, Goto, TypeInv, TypeOK, AtUpstream
  <2> QED
    BY <2>1, <2>2, <2>3, <2>4 DEF Next, Own, Client, Upstream, UpstreamFails, Deadline

(* Every request that is forwarded goes to an endpoint that its route      *)
(* names and that supports its model, on a route of its own kind.          *)
THEOREM WithinRoute == Spec => []ForwardedWithinRoute
<1>1. Init => TypeInv /\ ForwardedWithinRoute
  BY TypeInit DEF Init, ForwardedWithinRoute, AtUpstream
<1>2. TypeInv /\ ForwardedWithinRoute /\ [Next]_vars => (TypeInv /\ ForwardedWithinRoute)'
  BY TypeNext, RouteNext
<1> QED
  BY <1>1, <1>2, PTL DEF Spec
-----------------------------------------------------------------------------
(***************************************************************************)
(* The gateway keeps the promise of TokenLedger, for every configuration   *)
(* and every number of goroutines: under the refinement mapping of         *)
(* ChatProxy each of its steps is a step of the ledger or leaves it alone. *)
(***************************************************************************)
(* The refinement mapping.                                                 *)
Spent == [c \in LimitedClients |-> used[c]]
HolderOf(s) ==
    IF pc[s] \in MayCharge /\ client[s] \in LimitedClients THEN client[s] ELSE NoClient
Pending == [s \in Slots |-> HolderOf(s)]

LedgerUnchanged == Spent' = Spent /\ Pending' = Pending
LedgerStep == Ledger!Next \/ LedgerUnchanged

LEMMA LimitedIsConstant == LimitedClients' = LimitedClients
BY DEF LimitedClients, Limited, Quota

LEMMA LimitedClientsType ==
    ASSUME NEW c \in LimitedClients
    PROVE  c \in KeyClients /\ c \in Clients /\ Limited(c) /\ c # NoClient
BY LimitedHasKey DEF LimitedClients

LEMMA LedgerInit == Init => Ledger!Init
BY DEF Init, TokenStoreInit, Ledger!Init, LimitedClients, Clients, MayCharge

(* The ledger's actions, in terms of the mapping.                          *)
LEMMA LetInStep ==
    ASSUME NEW s \in Slots, NEW c \in LimitedClients,
           HolderOf(s) = NoClient, used[c] < Quota(c),
           Pending' = [Pending EXCEPT ![s] = c], Spent' = Spent
    PROVE  Ledger!Next
BY Zenon, LimitedIsConstant DEF Ledger!Next, Ledger!LetIn, Pending, Spent, HolderOf

LEMMA SettleStep ==
    ASSUME NEW s \in Slots, NEW n \in 0..MaxTokens, HolderOf(s) # NoClient,
           Spent' = [Spent EXCEPT ![HolderOf(s)] = @ + n],
           Pending' = [Pending EXCEPT ![s] = NoClient]
    PROVE  Ledger!Next
BY DEF Ledger!Next, Ledger!Settle, Pending, Spent, HolderOf

(* A step of one handler moves one entry of the mapping.                   *)
LEMMA PendingMoves ==
    ASSUME NEW s \in Slots, NEW h, HolderOf(s)' = h,
           \A r \in Slots \ {s} : pc'[r] = pc[r] /\ client'[r] = client[r]
    PROVE  Pending' = [Pending EXCEPT ![s] = h]
BY LimitedIsConstant DEF Pending, HolderOf

(* A step of one handler that charges nobody: the request stays where it   *)
(* was in the ledger, or is settled with no charge.                        *)
LEMMA FreeStep ==
    ASSUME TypeInv, NEW s \in Slots, used' = used,
           \A r \in Slots \ {s} : pc'[r] = pc[r] /\ client'[r] = client[r],
           HolderOf(s)' \in {HolderOf(s), NoClient}
    PROVE  LedgerStep
<1>1. Spent' = Spent
  BY LimitedIsConstant DEF Spent
<1>2. \A r \in Slots \ {s} : HolderOf(r)' = HolderOf(r)
  BY LimitedIsConstant DEF HolderOf
<1>3. CASE HolderOf(s)' = HolderOf(s)
  BY <1>1, <1>2, <1>3 DEF LedgerStep, LedgerUnchanged, Pending
<1>4. CASE HolderOf(s) # NoClient /\ HolderOf(s)' = NoClient
  <2>1. Pending' = [Pending EXCEPT ![s] = NoClient]
    BY <1>4, PendingMoves
  <2>2. HolderOf(s) \in LimitedClients
    BY <1>4 DEF HolderOf
  <2>3. \A c \in LimitedClients : used[c] \in Int
    BY LimitedClientsType DEF TypeInv, TypeOK, Int64
  <2>4. Spent' = [Spent EXCEPT ![HolderOf(s)] = @ + 0]
    BY <1>1, <2>2, <2>3 DEF Spent
  <2>5. 0 \in 0..MaxTokens
    BY TokensAssumption
  <2> QED
    BY <1>4, <2>1, <2>4, <2>5, SettleStep DEF LedgerStep
<1> QED
  BY <1>3, <1>4

(* A charge settles the request with the tokens of its answer, or with     *)
(* none when the answer reports none.                                      *)
LEMMA ChargeStep ==
    ASSUME TypeInv, QuotaOvershootBounded, NEW s \in Slots, Record(s) \/ Settle(s)
    PROVE  LedgerStep
<1>1. /\ pc[s] \in MayCharge /\ Charge(s) /\ client[s] \in Clients
      /\ pc'[s] \notin MayCharge /\ client' = client
      /\ \A r \in Slots \ {s} : pc'[r] = pc[r]
      /\ total[s] \in Int /\ total[s] <= MaxTokens /\ MaxTokens \in Nat
      /\ used \in [Clients -> Int64]
  BY TokensAssumption DEF Record, Settle, Goto, MayCharge, TypeInv, TypeOK, HandlerOK
<1>2. HolderOf(s)' = NoClient
  BY <1>1 DEF HolderOf
<1>3. CASE client[s] \in LimitedClients /\ total[s] > 0
  <2>1. used' = [used EXCEPT ![client[s]] = @ + total[s]]
    BY <1>3, ChargeAdds, LimitedClientsType
  <2>2. HolderOf(s) = client[s] /\ HolderOf(s) # NoClient
    BY <1>1, <1>3, LimitedClientsType DEF HolderOf
  <2>3. Spent' = [Spent EXCEPT ![HolderOf(s)] = @ + total[s]]
    BY <1>1, <1>3, <2>1, <2>2, LimitedIsConstant, LimitedClientsType DEF Spent
  <2>4. Pending' = [Pending EXCEPT ![s] = NoClient]
    BY <1>1, <1>2, PendingMoves
  <2>5. total[s] \in 0..MaxTokens
    BY <1>1, <1>3
  <2> QED
    BY <2>2, <2>3, <2>4, <2>5, SettleStep DEF LedgerStep
<1>4. CASE total[s] <= 0
  BY <1>1, <1>2, <1>4, FreeStep DEF Charge
<1>5. CASE client[s] \notin LimitedClients
  <2>1. HolderOf(s) = NoClient
    BY <1>5 DEF HolderOf
  <2>2. \A c \in LimitedClients : used'[c] = used[c]
    BY <1>1, <1>5, LimitedClientsType DEF Charge, RecordUsage
  <2>3. Spent' = Spent
    BY <2>2, LimitedIsConstant DEF Spent
  <2>4. Pending' = Pending
    BY <1>1, <1>2, <2>1, LimitedIsConstant DEF Pending, HolderOf
  <2> QED
    BY <2>3, <2>4 DEF LedgerStep, LedgerUnchanged
<1> QED
  BY <1>1, <1>3, <1>4, <1>5

(* A request is let in below the limit of its holder.                      *)
LEMMA AdmitStep ==
    ASSUME TypeInv, ShownInv, NEW s \in Slots, Admit(s)
    PROVE  LedgerStep
<1> DEFINE c == ClientFor(call[s].cred)
<1>1. /\ pc[s] = "auth" /\ pc'[s] = "quota" /\ client'[s] = c /\ used' = used
      /\ \A r \in Slots \ {s} : pc'[r] = pc[r] /\ client'[r] = client[r]
      /\ ~Exhausted(c)
  BY DEF Admit, Goto, TypeInv, TypeOK
<1>2. HolderOf(s) = NoClient
  BY <1>1 DEF HolderOf, MayCharge
<1>3. CASE c \in LimitedClients
  <2>1. Pending' = [Pending EXCEPT ![s] = c]
    BY <1>1, <1>3, LimitedIsConstant DEF Pending, HolderOf, MayCharge
  <2>2. Spent' = Spent
    BY <1>1, LimitedIsConstant DEF Spent
  <2>3. used[c] \in Int /\ Quota(c) \in Int
    BY <1>3, LimitedClientsType, CeilingFits DEF TypeInv, TypeOK, Int64
  <2>4. used[c] < Quota(c)
    BY <1>1, <1>3, <2>3, LimitedClientsType DEF Exhausted
  <2> QED
    BY <1>2, <1>3, <2>1, <2>2, <2>4, LetInStep DEF LedgerStep
<1>4. CASE c \notin LimitedClients
  <2>1. HolderOf(s)' = NoClient
    BY <1>1, <1>4, LimitedIsConstant DEF HolderOf
  <2> QED
    BY <1>1, <2>1, FreeStep
<1> QED
  BY <1>3, <1>4

LEMMA GatewayStep == QuotaInv /\ [Next]_vars => LedgerStep
<1> SUFFICES ASSUME TypeInv, QuotaOvershootBounded, ShownInv, [Next]_vars
             PROVE  LedgerStep
  BY DEF QuotaInv
<1>0. CASE UNCHANGED vars
  BY <1>0, LimitedIsConstant
     DEF vars, handlerVars, LedgerStep, LedgerUnchanged, Spent, Pending, HolderOf
<1>1. ASSUME NEW s \in Slots, Admit(s) PROVE LedgerStep
  BY <1>1, AdmitStep
<1>2. ASSUME NEW s \in Slots, Record(s) \/ Settle(s) PROVE LedgerStep
  BY <1>2, ChargeStep
<1>3. ASSUME NEW s \in Slots,
             \/ Arrive(s) \/ RefuseKey(s) \/ Serve(s) \/ Upload(s) \/ RefuseRequest(s)
             \/ QuotaHeaders(s) \/ Select(s) \/ WriteBody(s) \/ EndUpstream(s)
             \/ Finish(s)
      PROVE  LedgerStep
  <2>1. /\ used' = used
        /\ \A r \in Slots \ {s} : pc'[r] = pc[r] /\ client'[r] = client[r]
    BY <1>3 DEF Arrive, RefuseKey, Serve, Upload, RefuseRequest, QuotaHeaders, Select,
       WriteBody, EndUpstream, Finish, Respond, Goto, TypeInv, TypeOK
  <2>2. \/ pc'[s] \notin MayCharge
        \/ pc[s] \in MayCharge /\ client'[s] = client[s]
    BY <1>3 DEF Arrive, RefuseKey, Serve, Upload, RefuseRequest, QuotaHeaders, Select,
       WriteBody, EndUpstream, Finish, Respond, Goto, MayCharge, TypeInv, TypeOK
  <2>3. HolderOf(s)' \in {HolderOf(s), NoClient}
    BY <2>2, LimitedIsConstant DEF HolderOf
  <2> QED
    BY <2>1, <2>3, FreeStep
<1>4. ASSUME NEW s \in Slots,
             \/ BeginUpstream(s) \/ Answer(s) \/ BadTarget(s) \/ Abort(s)
             \/ ReadAnswer(s) \/ StreamLine(s) \/ StreamEnd(s)
      PROVE  LedgerStep
  <2>1. /\ used' = used /\ client' = client /\ pc[s] \in MayCharge
        /\ \A r \in Slots \ {s} : pc'[r] = pc[r]
    BY <1>4 DEF BeginUpstream, Answer, BadTarget, Abort, ReadAnswer, StreamLine,
       StreamEnd, Goto, MayCharge, TypeInv, TypeOK
  <2>2. HolderOf(s)' \in {HolderOf(s), NoClient}
    BY <2>1, LimitedIsConstant DEF HolderOf
  <2> QED
    BY <2>1, <2>2, FreeStep
<1> QED
  BY <1>0, <1>1, <1>2, <1>3, <1>4
     DEF Next, Own, Client, Upstream, UpstreamFails, Deadline

(* The gateway implements the ledger: a request of a limited client is let *)
(* in below the limit only and charged once at most, by no more than one   *)
(* answer, and nothing else changes what a client has spent.               *)
THEOREM GatewayKeepsLedger == Spec => ImplementsLedger
<1>1. QuotaInv /\ [Next]_vars => [Ledger!Next]_(Ledger!ledger)
  BY GatewayStep DEF LedgerStep, LedgerUnchanged, Ledger!ledger, Spent, Pending, HolderOf
<1> QED
  BY <1>1, LedgerInit, QuotaInvariant, PTL DEF Spec, ImplementsLedger, Ledger!Spec
=============================================================================
