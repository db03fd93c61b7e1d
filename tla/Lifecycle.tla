------------------------------ MODULE Lifecycle ------------------------------
(***************************************************************************)
(* cmd/sbgw: the process around the handlers.  main loads the              *)
(* configuration, starts ListenAndServe in a goroutine of its own, asks    *)
(* for signals, waits for one and shuts the server down, giving the open   *)
(* requests ten seconds.  When the process ends, by the end of main, by    *)
(* log.Fatal or by a signal nobody asked for, everything it kept in memory *)
(* ends with it; it may be started again.                                  *)
(***************************************************************************)
EXTENDS ChatProxy

CONSTANT MaxRestarts        \* most restarts (bound)

VARIABLES
    main,       \* where main is, "exited" when the process has ended
    listening,  \* ListenAndServe accepts connections
    accepted,   \* connections, by their goroutine, without a request so far
    signalled,  \* a signal is in quit
    restarts,   \* history: how often the process was started again
    before      \* history: what earlier processes had charged

processVars == <<main, listening, accepted, signalled, restarts, before>>
allVars == <<vars, processVars>>

Running == main \in {"spawned", "waiting", "draining"}

ProcessInit ==
    /\ Init
    /\ main = "init" /\ listening = FALSE /\ accepted = {} /\ signalled = FALSE
    /\ restarts = 0 /\ before = [c \in Clients |-> 0]

Exit == main' = "exited" /\ listening' = FALSE

(* Load, logger.New and NewChatProxy; each of them may end the process.    *)
Start ==
    /\ main = "init"
    /\ \/ main' = "spawned" /\ UNCHANGED listening
       \/ Exit
    /\ UNCHANGED <<vars, accepted, signalled, restarts, before>>

(* ListenAndServe binds the address, or log.Fatal ends the process.  Once  *)
(* Shutdown was called it returns ErrServerClosed at once.                 *)
Listen ==
    /\ main \in {"spawned", "waiting"} /\ ~listening
    /\ \/ listening' = TRUE /\ UNCHANGED main
       \/ Exit
    /\ UNCHANGED <<vars, accepted, signalled, restarts, before>>

(* Accept fails for good: log.Fatal, and nobody drains.                    *)
AcceptFails ==
    /\ listening /\ Exit
    /\ UNCHANGED <<vars, accepted, signalled, restarts, before>>

Accept(s) ==
    /\ listening /\ pc[s] = "idle"
    /\ accepted' = accepted \cup {s}
    /\ UNCHANGED <<vars, main, listening, signalled, restarts, before>>

(* SIGINT or SIGTERM.  Before signal.Notify it ends the process; later it  *)
(* waits in quit, from which main takes one: further ones change nothing.  *)
Signal ==
    /\ \/ main \in {"init", "spawned"} /\ Exit /\ UNCHANGED signalled
       \/ main = "waiting" /\ signalled' = TRUE /\ UNCHANGED <<main, listening>>
    /\ UNCHANGED <<vars, accepted, restarts, before>>

Notify ==
    /\ main = "spawned" /\ main' = "waiting"
    /\ UNCHANGED <<vars, listening, accepted, signalled, restarts, before>>

(* srv.Shutdown closes the listener and waits for the open connections.    *)
Shutdown ==
    /\ main = "waiting" /\ signalled
    /\ main' = "draining" /\ listening' = FALSE
    /\ UNCHANGED <<vars, accepted, signalled, restarts, before>>

(* A connection on which no request came for five seconds is closed.       *)
CloseSilent(s) ==
    /\ main = "draining" /\ s \in accepted
    /\ accepted' = accepted \ {s}
    /\ UNCHANGED <<vars, main, listening, signalled, restarts, before>>

Drained ==
    /\ main = "draining" /\ accepted = {} /\ \A s \in Slots : pc[s] = "idle"
    /\ Exit
    /\ UNCHANGED <<vars, accepted, signalled, restarts, before>>

(* Slip: Shutdown with a context that has no timeout.                      *)
DrainTimeoutNever == FALSE /\ UNCHANGED allVars
(* The ten seconds are over: main returns and cuts off what is open.       *)
DrainTimeout ==
    /\ main = "draining" /\ Exit
    /\ UNCHANGED <<vars, accepted, signalled, restarts, before>>

(* A new process begins with everything at its initial value, see Init.    *)
Restart ==
    /\ main = "exited" /\ restarts < MaxRestarts
    /\ restarts' = restarts + 1
    /\ before' = [c \in Clients |-> before[c] + used[c]]
    /\ main' = "init" /\ listening' = FALSE /\ accepted' = {} /\ signalled' = FALSE
    /\ used' = [c \in Clients |-> 0]
    /\ rr' = 0 /\ inflight' = [e \in Eps |-> 0]
    /\ pc' = [s \in Slots |-> "idle"]
    /\ call' = [s \in Slots |-> NoCall]
    /\ client' = [s \in Slots |-> NoClient]
    /\ ep' = [s \in Slots |-> NoEp]
    /\ total' = [s \in Slots |-> 0]
    /\ hdr' = [s \in Slots |-> NoHeader]
    /\ sent' = [s \in Slots |-> NoHeader]
    /\ status' = [s \in Slots |-> 0]

(* Requests come in on connections, and are served while the process runs. *)
ArriveOn(s) ==
    /\ Running /\ s \in accepted /\ Arrive(s)
    /\ accepted' = accepted \ {s}
    /\ UNCHANGED <<main, listening, signalled, restarts, before>>
Serving(A) == Running /\ A /\ UNCHANGED processVars

ProcessStep ==
    \/ Start \/ Listen \/ AcceptFails \/ Signal \/ Notify \/ Shutdown
    \/ Drained \/ DrainTimeout \/ Restart
ConnectionStep(s) ==
    \/ Accept(s) \/ CloseSilent(s) \/ ArriveOn(s)
    \/ Serving(Own(s)) \/ Serving(Client(s)) \/ Serving(Upstream(s)) \/ Serving(Deadline(s))
ProcessNext == ProcessStep \/ \E s \in Slots : ConnectionStep(s)

ProcessSpec == ProcessInit /\ [][ProcessNext]_allVars

(* main and the handlers take their own steps, and timers fire:            *)
(* context.WithTimeout's of requests and of the drain.  Upstreams, clients *)
(* and operators owe nothing: the server's only timeout is for headers, so *)
(* a client may leave a handler waiting for its body for ever.  One thing  *)
(* is assumed of clients: that they take what is written to them, or       *)
(* disconnect; the server has no write timeout either.                     *)
Fairness ==
    /\ \A s \in Slots : /\ WF_allVars(Serving(Own(s)))
                        /\ WF_allVars(Serving(Deadline(s)))
    /\ WF_allVars(Shutdown) /\ WF_allVars(Drained) /\ WF_allVars(DrainTimeout)
FairSpec == ProcessSpec /\ Fairness
-----------------------------------------------------------------------------
Exited == main = "exited"

(* Requests nothing in the gateway ends: those that wait for an upstream   *)
(* without a timeout, and those whose client has not sent all of its body. *)
Unbounded(s) == pc[s] \in {"send", "read", "stream"} /\ Endpoints[ep[s]].timeout <= 0
Hangs(s) == Unbounded(s) \/ pc[s] = "upload"

(* Whatever upstreams do, each handler ends and so gives back its place at *)
(* the endpoint, by itself, by its deadline or with the process; it can    *)
(* only hang at an endpoint without a timeout, or, before it has taken a   *)
(* place, while the client sends its body.                                 *)
Handled(s) == pc[s] \notin {"idle", "done"}
EveryRequestEnds == \A s \in Slots : Handled(s) ~> ~Handled(s) \/ Hangs(s) \/ Exited

(* The requests that were in the gateway when a quota was used up run out, *)
(* but for those that hang: the charge of an exhausted client comes to     *)
(* rest, or it is forgotten with the process.                              *)
ExhaustedClientDrains ==
    \A c \in KeyClients :
        Exhausted(c) ~> (\A s \in Open(c) : Hangs(s)) \/ Exited

(* A signal that main asked for ends the process, even if an upstream that *)
(* never answers and has no timeout holds a request.                       *)
SignalEndsProcess == signalled ~> Exited

(* Quotas are kept in memory: over several processes a client is charged   *)
(* at most what one process lets it overshoot to, once per process.  The   *)
(* requests that a process cut off are charged to nobody.                  *)
ChargedPerProcess ==
    \A c \in KeyClients : Limited(c) =>
        before[c] + used[c]
            <= (restarts + 1) * (Quota(c) - 1 + MaxTokens * Cardinality(Slots))
=============================================================================
