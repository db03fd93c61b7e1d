--------------------------- MODULE LifecycleProofs ---------------------------
(***************************************************************************)
(* What stays true of the gateway over restarts, for every configuration,  *)
(* every number of goroutines and any number of processes: in each process *)
(* the invariants of the gateway, and over all of them the bound on what a *)
(* client is charged.                                                      *)
(***************************************************************************)
EXTENDS Lifecycle, ChatProxyProofs

GatewayInv == QuotaInv /\ InflightConserved /\ ForwardedWithinRoute

(* What earlier processes had charged: each at most the ceiling.           *)
HistoryInv ==
    /\ restarts \in Nat
    /\ before \in [Clients -> Int]
    /\ \A c \in KeyClients : Limited(c) => before[c] <= restarts * Ceiling(c)

LEMMA GatewayInit == Init => GatewayInv
BY TypeInit, QuotaInit, ShownInit, InflightInit
   DEF GatewayInv, QuotaInv, Init, ForwardedWithinRoute, AtUpstream

LEMMA GatewayNext == GatewayInv /\ [Next]_vars => GatewayInv'
BY TypeNext, QuotaNext, ShownNext, InflightNext, RouteNext DEF GatewayInv, QuotaInv

(* A process that starts again begins in an initial state of the gateway;  *)
(* every other step is one of the gateway or leaves it alone.              *)
LEMMA RestartInit == Restart => Init'
BY DEF Restart, Init, TokenStoreInit, PoolInit

LEMMA ProcessStepsGateway == [ProcessNext]_allVars => Restart \/ [Next]_vars
<1> SUFFICES ASSUME [ProcessNext]_allVars PROVE Restart \/ [Next]_vars
  OBVIOUS
<1>1. CASE UNCHANGED allVars
  BY <1>1 DEF allVars
<1>2. CASE ProcessStep
  BY <1>2 DEF ProcessStep, Start, Listen, AcceptFails, Signal, Notify, Shutdown,
     Drained, DrainTimeout
<1>3. ASSUME NEW s \in Slots, ConnectionStep(s) PROVE [Next]_vars
  BY <1>3 DEF ConnectionStep, Accept, CloseSilent, ArriveOn, Serving, Next
<1> QED
  BY <1>1, <1>2, <1>3 DEF ProcessNext

LEMMA GatewayInitPrimed == Init' => GatewayInv'
BY GatewayInit, PTL

(* Within each of the processes all that is proved of the gateway holds.   *)
LEMMA GatewayInvariant == ProcessSpec => []GatewayInv
<1>1. ProcessInit => GatewayInv
  BY GatewayInit DEF ProcessInit
<1>2. GatewayInv /\ [ProcessNext]_allVars => GatewayInv'
  BY ProcessStepsGateway, RestartInit, GatewayInitPrimed, GatewayNext
<1> QED
  BY <1>1, <1>2, PTL DEF ProcessSpec

(* The counter of a process stays below the ceiling.                       *)
LEMMA UsedBelowCeiling ==
    ASSUME GatewayInv, NEW c \in KeyClients, Limited(c)
    PROVE  /\ used[c] \in Int /\ used[c] <= Ceiling(c)
           /\ Ceiling(c) \in Int
<1>1. used[c] \in Int /\ Ceiling(c) \in Int
  BY CeilingFits DEF GatewayInv, QuotaInv, TypeInv, TypeOK, Int64, Clients
<1>2. MaxTokens * Cardinality(Open(c)) \in Nat
  BY OpenFinite, TokensAssumption
<1>3. used[c] + MaxTokens * Cardinality(Open(c)) <= Ceiling(c)
  BY DEF GatewayInv, QuotaInv, QuotaOvershootBounded, Ceiling
<1> QED
  BY <1>1, <1>2, <1>3

LEMMA HistoryInit == ProcessInit => HistoryInv
<1> SUFFICES ASSUME ProcessInit PROVE HistoryInv
  OBVIOUS
<1>1. \A c \in KeyClients : before[c] = 0 /\ 0 * Ceiling(c) = 0
  BY CeilingFits DEF ProcessInit, Clients
<1> QED
  BY <1>1 DEF ProcessInit, HistoryInv

LEMMA HistoryNext == GatewayInv /\ HistoryInv /\ [ProcessNext]_allVars => HistoryInv'
<1> SUFFICES ASSUME GatewayInv, HistoryInv, [ProcessNext]_allVars PROVE HistoryInv'
  OBVIOUS
<1>0. \A c \in KeyClients : (Limited(c)' <=> Limited(c)) /\ Ceiling(c)' = Ceiling(c)
  BY DEF Limited, Quota, Ceiling
<1>1. CASE Restart
  <2>1. /\ restarts' = restarts + 1 /\ restarts \in Nat
        /\ before' = [c \in Clients |-> before[c] + used[c]]
        /\ before \in [Clients -> Int] /\ used \in [Clients -> Int64]
    BY <1>1 DEF Restart, HistoryInv, GatewayInv, QuotaInv, TypeInv, TypeOK
  <2>2. before' \in [Clients -> Int]
    BY <2>1 DEF Int64
  <2>3. ASSUME NEW c \in KeyClients, Limited(c)
        PROVE  before'[c] <= restarts' * Ceiling(c)
    <3>1. /\ before'[c] = before[c] + used[c] /\ before[c] \in Int
          /\ before[c] <= restarts * Ceiling(c)
      BY <2>1, <2>3 DEF Clients, HistoryInv
    <3>2. /\ used[c] \in Int /\ used[c] <= Ceiling(c) /\ Ceiling(c) \in Int
      BY <2>3, UsedBelowCeiling
    <3>3. (restarts + 1) * Ceiling(c) = restarts * Ceiling(c) + Ceiling(c)
      BY <2>1, <3>2
    <3>4. restarts * Ceiling(c) \in Int
      BY <2>1, <3>2
    <3> QED
      BY <2>1, <3>1, <3>2, <3>3, <3>4
  <2>4. restarts' \in Nat
    BY <2>1
  <2>5. \A c \in KeyClients : Limited(c)' => before'[c] <= restarts' * Ceiling(c)'
    BY <1>0, <2>3
  <2> QED
    BY <2>2, <2>4, <2>5 DEF HistoryInv
<1>2. CASE UNCHANGED <<restarts, before>>
  BY <1>0, <1>2 DEF HistoryInv
<1>3. Restart \/ UNCHANGED <<restarts, before>>
  BY DEF ProcessNext, ProcessStep, ConnectionStep, Start, Listen, AcceptFails, Signal,
     Notify, Shutdown, Drained, DrainTimeout, Accept, CloseSilent, ArriveOn, Serving,
     allVars, processVars
<1> QED
  BY <1>1, <1>2, <1>3

(* However often the process is killed and started again, a client is      *)
(* charged at most one ceiling for each process there was.                 *)
THEOREM ChargedByProcesses == ProcessSpec => []ChargedPerProcess
<1>1. GatewayInv /\ HistoryInv => ChargedPerProcess
  <2> SUFFICES ASSUME GatewayInv, HistoryInv, NEW c \in KeyClients, Limited(c)
               PROVE  before[c] + used[c] <= (restarts + 1) * Ceiling(c)
    BY DEF ChargedPerProcess, Ceiling
  <2>1. /\ before[c] \in Int /\ before[c] <= restarts * Ceiling(c) /\ restarts \in Nat
        /\ used[c] \in Int /\ used[c] <= Ceiling(c) /\ Ceiling(c) \in Int
    BY UsedBelowCeiling DEF HistoryInv, Clients
  <2>2. (restarts + 1) * Ceiling(c) = restarts * Ceiling(c) + Ceiling(c)
    BY <2>1
  <2>3. restarts * Ceiling(c) \in Int
    BY <2>1
  <2> QED
    BY <2>1, <2>2, <2>3
<1> QED
  BY <1>1, HistoryInit, HistoryNext, GatewayInvariant, PTL DEF ProcessSpec

(* A process that was killed leaves no in-flight count behind: over        *)
(* restarts, too, the counts are the handlers between begin and end.       *)
THEOREM InflightOverRestarts == ProcessSpec => []InflightConserved
<1>1. GatewayInv => InflightConserved
  BY DEF GatewayInv
<1> QED
  BY <1>1, GatewayInvariant, PTL
=============================================================================
