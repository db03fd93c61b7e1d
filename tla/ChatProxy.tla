------------------------------ MODULE ChatProxy ------------------------------
(***************************************************************************)
(* The gateway serving requests: the auth middleware, the chat, audio,     *)
(* model-list and usage handlers, and the upstream call they make.  Every  *)
(* request runs in a goroutine of its own; Slots are the requests that can *)
(* be in the gateway at once.  A step of a slot is the code between two    *)
(* accesses to what the goroutines share: the charged tokens (TokenStore), *)
(* the rotation counter and the in-flight counts (UpstreamPool).           *)
(***************************************************************************)
EXTENDS TokenStore, UpstreamPool

CONSTANTS
    Slots,      \* the goroutines that serve requests at once
    Routes,     \* sequence of [path, kind, model, upstreamModel, endpoints, patches]
    Strategy,   \* cfg.Upstream.Strategy
    ModelMap,   \* function from models to upstream models, NoModel if unmapped
    Calls,      \* requests clients make: [op, cred, path, model, body]
    Tokens,     \* values of usage.total_tokens upstreams report, 0 for none
    MaxTokens,  \* the largest of them
    NoPath, NoCall, NoClient, NoHeader, NoEp

VARIABLES
    pc,         \* where the slot's handler is
    call,       \* the request it serves
    client,     \* the client id the middleware put in the gin context
    ep,         \* the endpoint it selected
    total,      \* the tokens found in the answer so far
    hdr,        \* X-SBGW-Quota-Used in the header map
    sent,       \* X-SBGW-Quota-Used as the client received it
    status      \* the status of the response, 0 before there is one

handlerVars == <<pc, call, client, ep, total, hdr, sent, status>>
vars == <<used, rr, inflight, handlerVars>>

Chat == "chat"
Audio == "audio_transcription"
Statuses == {0, 200, 400, 401, 404, 429, 500, 502}
Pcs == {"idle", "auth", "quota", "serve", "upload", "route", "begin", "send", "read",
        "stream", "record", "write", "settle", "end", "done"}

ASSUME TokensAssumption ==
    /\ MaxTokens \in Nat /\ MaxInt64 \in Nat
    /\ Tokens \subseteq Int /\ 0 \in Tokens /\ \A t \in Tokens : t <= MaxTokens
    /\ MaxTokens <= MaxInt64
ASSUME SlotsAssumption == IsFiniteSet(Slots)
ASSUME QuotaAssumption ==
    \A c \in Clients : /\ Quota(c) \in Int
                       /\ Quota(c) + MaxTokens * Cardinality(Slots) <= MaxInt64
ASSUME NamesAssumption ==
    /\ Anonymous \notin KeyClients /\ NoClient \notin Clients
    /\ NoHeader \notin Int /\ NoEp \notin Eps /\ NoCall \notin Calls
ASSUME StrategyAssumption == Strategy \in Strategies
ASSUME CallsAssumption ==
    \A q \in Calls : q.op \in {Chat, Audio, "models", "usage"}
-----------------------------------------------------------------------------
(* resolveRoute: the position of the route a request takes, 0 for none.    *)
(* Of several routes for one model the last one configured is kept.        *)
WithPath(p) == {i \in DOMAIN Routes : Routes[i].path = p}
WithModel(m) == {i \in DOMAIN Routes : m # NoModel /\ Routes[i].model = m}
UnknownRoute(q) == q.path # NoPath /\ WithPath(q.path) = {}
RouteOf(q) ==
    LET found == IF q.path # NoPath THEN WithPath(q.path) ELSE WithModel(q.model)
    IN IF found = {} THEN 0 ELSE CHOOSE i \in found : \A j \in found : j <= i
Routed(q) == RouteOf(q) # 0

WrongKind(q) == Routed(q) /\ Routes[RouteOf(q)].kind # q.op

LogicalModel(q) ==
    IF Routed(q) /\ Routes[RouteOf(q)].model # NoModel
    THEN Routes[RouteOf(q)].model ELSE q.model
UpstreamModel(q) ==
    IF Routed(q) /\ Routes[RouteOf(q)].upstreamModel # NoModel
    THEN Routes[RouteOf(q)].upstreamModel ELSE ModelMap[LogicalModel(q)]
Rewrites(q) ==
    \/ UpstreamModel(q) # NoModel
    \/ Routed(q) /\ Routes[RouteOf(q)].model \notin {NoModel, q.model}

Patches(q) == IF Routed(q) THEN Routes[RouteOf(q)].patches ELSE {}

(* A body that is not a JSON object stops the patches; the JSON value null *)
(* leaves a nil map, and writing to it panics (gin.Recovery answers 500).  *)
PatchesFail(q) == Patches(q) # {} /\ q.body = "invalid"
Panics(q) == q.body = "null" /\ ("set" \in Patches(q) \/ Rewrites(q))

CandidatesOf(q) ==
    Candidates(LogicalModel(q),
               IF Routed(q) THEN Routes[RouteOf(q)].endpoints ELSE {})

(* The status with which the handler gives up before it selects.           *)
Refusal(q) ==
    CASE UnknownRoute(q) -> 404
      [] ~UnknownRoute(q) /\ WrongKind(q) -> 400
      [] ~UnknownRoute(q) /\ ~WrongKind(q) /\ PatchesFail(q) -> 400
      [] ~UnknownRoute(q) /\ ~WrongKind(q) /\ ~PatchesFail(q) /\ Panics(q) -> 500
      [] OTHER -> 0
-----------------------------------------------------------------------------
Goto(s, place) == pc' = [pc EXCEPT ![s] = place]

(* The handler ends with this status and nothing selected.                 *)
Respond(s, code) ==
    /\ Goto(s, "done")
    /\ status' = [status EXCEPT ![s] = code]
    /\ sent' = [sent EXCEPT ![s] = hdr[s]]

Init ==
    /\ TokenStoreInit
    /\ PoolInit
    /\ pc = [s \in Slots |-> "idle"]
    /\ call = [s \in Slots |-> NoCall]
    /\ client = [s \in Slots |-> NoClient]
    /\ ep = [s \in Slots |-> NoEp]
    /\ total = [s \in Slots |-> 0]
    /\ hdr = [s \in Slots |-> NoHeader]
    /\ sent = [s \in Slots |-> NoHeader]
    /\ status = [s \in Slots |-> 0]

(* A client's request reaches the middleware.                              *)
Arrive(s) ==
    /\ pc[s] = "idle"
    /\ \E q \in Calls : call' = [call EXCEPT ![s] = q]
    /\ Goto(s, "auth")
    /\ UNCHANGED <<used, rr, inflight, client, ep, total, hdr, sent, status>>

(* Slip: the middleware does not look at the exhaustion flag.              *)
AdmitUnchecked(s) ==
    /\ pc[s] = "auth"
    /\ ~Rejected(call[s].cred)
    /\ client' = [client EXCEPT ![s] = ClientFor(call[s].cred)]
    /\ Goto(s, "quota")
    /\ UNCHANGED <<used, rr, inflight, call, ep, total, hdr, sent, status>>

(* Middleware, up to the unlock of the exhaustion check.                   *)
Admit(s) ==
    /\ pc[s] = "auth"
    /\ ~Rejected(call[s].cred)
    /\ ~Exhausted(ClientFor(call[s].cred))
    /\ client' = [client EXCEPT ![s] = ClientFor(call[s].cred)]
    /\ Goto(s, "quota")
    /\ UNCHANGED <<used, rr, inflight, call, ep, total, hdr, sent, status>>

RefuseKey(s) ==
    /\ pc[s] = "auth"
    /\ \/ Rejected(call[s].cred) /\ Respond(s, 401)
       \/ /\ ~Rejected(call[s].cred)
          /\ Exhausted(ClientFor(call[s].cred))
          /\ Respond(s, 429)
    /\ UNCHANGED <<used, rr, inflight, call, client, ep, total, hdr>>

(* The middleware's second look at the store, for the quota headers.       *)
QuotaHeaders(s) ==
    /\ pc[s] = "quota"
    /\ hdr' = IF Limited(client[s]) THEN [hdr EXCEPT ![s] = used[client[s]]]
              ELSE hdr
    /\ Goto(s, IF call[s].op \in {Chat, Audio} THEN "upload" ELSE "serve")
    /\ UNCHANGED <<used, rr, inflight, call, client, ep, total, sent, status>>

(* HandleModels and HandleUsage.  A client's usage answer carries its      *)
(* counter as it is now: the slot keeps it in total.  Without auth the     *)
(* answer lists the configured keys, and never the anonymous client.       *)
Serve(s) ==
    /\ pc[s] = "serve"
    /\ \/ /\ call[s].op = "models"
          /\ Respond(s, IF UnknownRoute(call[s]) THEN 404 ELSE 200)
          /\ UNCHANGED total
       \/ /\ call[s].op = "usage"
          /\ Respond(s, 200)
          /\ total' = IF client[s] \in KeyClients
                      THEN [total EXCEPT ![s] = used[client[s]]] ELSE total
    /\ UNCHANGED <<used, rr, inflight, call, client, ep, hdr>>

(* The handler waits for the body of the request, and has it, or gives up: *)
(* it cannot be read, or is no form although it says so.                   *)
Upload(s) ==
    /\ pc[s] = "upload"
    /\ \/ Goto(s, "route") /\ UNCHANGED <<sent, status>>
       \/ Respond(s, 400)
    /\ UNCHANGED <<used, rr, inflight, call, client, ep, total, hdr>>

(* Everything a handler does to the request before it selects an endpoint, *)
(* when one of those steps fails.                                          *)
RefuseRequest(s) ==
    /\ pc[s] = "route"
    /\ \/ /\ Refusal(call[s]) # 0
          /\ Respond(s, Refusal(call[s]))
       \/ /\ Refusal(call[s]) = 0 /\ call[s].op = Audio /\ call[s].body = "form"
          /\ Respond(s, 400)                \* a file of the form cannot be opened
    /\ UNCHANGED <<used, rr, inflight, call, client, ep, total, hdr>>

Select(s) ==
    /\ pc[s] = "route"
    /\ Refusal(call[s]) = 0
    /\ LET cands == CandidatesOf(call[s]) IN
       \/ /\ cands = {}
          /\ Respond(s, 400)
          /\ UNCHANGED <<rr, ep>>
       \/ /\ cands # {}
          /\ AdvanceRR(Strategy)
          /\ \/ \E e \in Picks(Strategy, cands, rr) : ep' = [ep EXCEPT ![s] = e]
                                            /\ Goto(s, "begin")
                                            /\ UNCHANGED <<sent, status>>
             \/ Picks(Strategy, cands, rr) = {} /\ Respond(s, 500) /\ UNCHANGED ep
    /\ UNCHANGED <<used, inflight, call, client, total, hdr>>

BeginUpstream(s) ==
    /\ pc[s] = "begin"
    /\ Begin(ep[s])
    /\ Goto(s, "send")
    /\ UNCHANGED <<used, rr, call, client, ep, total, hdr, sent, status>>
-----------------------------------------------------------------------------
(* client.Do returns an answer: a chat answer is passed on as a stream or  *)
(* read in full by its content type, an audio answer is always read.       *)
Answer(s) ==
    /\ pc[s] = "send"
    /\ \/ Goto(s, "read")
       \/ call[s].op = Chat /\ Goto(s, "stream")
    /\ status' = [status EXCEPT ![s] = 200]
    /\ UNCHANGED <<used, rr, inflight, call, client, ep, total, hdr, sent>>

(* The request cannot be built: 500 before anything is sent.               *)
BadTarget(s) ==
    /\ pc[s] = "send"
    /\ Goto(s, "end")
    /\ status' = [status EXCEPT ![s] = 500]
    /\ sent' = [sent EXCEPT ![s] = hdr[s]]
    /\ UNCHANGED <<used, rr, inflight, call, client, ep, total, hdr>>

(* Slip: an error path that returns before the release is deferred.        *)
AbortWithoutEnd(s) ==
    /\ pc[s] \in {"send", "read", "stream"}
    /\ Goto(s, "done")
    /\ status' = [status EXCEPT ![s] = 502]
    /\ UNCHANGED <<used, rr, inflight, call, client, ep, total, hdr, sent>>

(* Do, ReadAll or ReadBytes returns an error: nothing was sent and the     *)
(* client gets 502; or a body was cut short and its usage is lost; or a    *)
(* stream ends early and is settled with what it reported so far.          *)
Abort(s) ==
    /\ \/ /\ pc[s] = "send"
          /\ Goto(s, "end")
          /\ status' = [status EXCEPT ![s] = 502]
          /\ sent' = [sent EXCEPT ![s] = hdr[s]]
       \/ /\ pc[s] = "read"
          /\ Goto(s, "end")
          /\ UNCHANGED <<status, sent>>
       \/ /\ pc[s] = "stream"
          /\ Goto(s, "settle")
          /\ UNCHANGED <<status, sent>>
    /\ UNCHANGED <<used, rr, inflight, call, client, ep, total, hdr>>

(* The upstream fails or the client goes away, at any time; and, for an    *)
(* endpoint with a timeout, the request's deadline passes.                 *)
UpstreamFails(s) == Abort(s)
(* Slip: a timeout of the connection only, not of the body.                *)
DeadlineOfSendOnly(s) ==
    pc[s] = "send" /\ Endpoints[ep[s]].timeout > 0 /\ Abort(s)
Deadline(s) == pc[s] \in {"send", "read", "stream"}
               /\ Endpoints[ep[s]].timeout > 0 /\ Abort(s)

ReadAnswer(s) ==
    /\ pc[s] = "read"
    /\ \E t \in Tokens : total' = [total EXCEPT ![s] = t]
    /\ Goto(s, "record")
    /\ UNCHANGED <<used, rr, inflight, call, client, ep, hdr, sent, status>>

(* One line of the stream is passed on and flushed, the first one with the *)
(* headers of the response.  The last usage a line reports is kept.        *)
StreamLine(s) ==
    /\ pc[s] = "stream"
    /\ \E t \in Tokens :
          total' = IF t > 0 THEN [total EXCEPT ![s] = t] ELSE total
    /\ sent' = IF sent[s] = NoHeader THEN [sent EXCEPT ![s] = hdr[s]] ELSE sent
    /\ UNCHANGED <<used, rr, inflight, pc, call, client, ep, hdr, status>>

StreamEnd(s) ==
    /\ pc[s] = "stream"
    /\ Goto(s, "settle")
    /\ UNCHANGED <<used, rr, inflight, call, client, ep, total, hdr, sent, status>>

(* Slip: the headers are filled before the charge.                         *)
ChargeAfterHeaders(s) ==
    \/ /\ total[s] <= 0
       /\ UNCHANGED <<used, hdr>>
    \/ /\ total[s] > 0
       /\ RecordUsage(client[s], total[s])
       /\ hdr' = IF Limited(client[s])
                 THEN [hdr EXCEPT ![s] = used[client[s]]] ELSE hdr
(* Slip: an exhausted client is not charged, and its header is computed    *)
(* apart from the store.                                                   *)
ChargeBelowLimit(s) ==
    \/ /\ total[s] <= 0
       /\ UNCHANGED <<used, hdr>>
    \/ /\ total[s] > 0
       /\ IF Exhausted(client[s]) THEN UNCHANGED used
          ELSE RecordUsage(client[s], total[s])
       /\ hdr' = IF Limited(client[s])
                 THEN [hdr EXCEPT ![s] = used[client[s]] + total[s]] ELSE hdr
(* recordUsage: the charge and the snapshot it returns are one critical    *)
(* section of the store; the quota headers follow it.                      *)
Charge(s) ==
    \/ /\ total[s] <= 0
       /\ UNCHANGED <<used, hdr>>
    \/ /\ total[s] > 0
       /\ RecordUsage(client[s], total[s])
       /\ hdr' = IF Limited(client[s])
                 THEN [hdr EXCEPT ![s] = used'[client[s]]] ELSE hdr

(* Slip: an answer that was read in full is settled like a stream again.   *)
RecordTwice(s) ==
    /\ pc[s] = "record"
    /\ Charge(s)
    /\ Goto(s, "settle")
    /\ UNCHANGED <<rr, inflight, call, client, ep, total, sent, status>>
Record(s) ==
    /\ pc[s] = "record"
    /\ Charge(s)
    /\ Goto(s, "write")
    /\ UNCHANGED <<rr, inflight, call, client, ep, total, sent, status>>

Settle(s) ==
    /\ pc[s] = "settle"
    /\ Charge(s)
    /\ Goto(s, "end")
    /\ UNCHANGED <<rr, inflight, call, client, ep, total, sent, status>>

WriteBody(s) ==
    /\ pc[s] = "write"
    /\ sent' = [sent EXCEPT ![s] = hdr[s]]
    /\ Goto(s, "end")
    /\ UNCHANGED <<used, rr, inflight, call, client, ep, total, hdr, status>>

(* The deferred ep.end(); a response nothing was written to goes out now.  *)
EndUpstream(s) ==
    /\ pc[s] = "end"
    /\ End(ep[s])
    /\ sent' = IF sent[s] = NoHeader THEN [sent EXCEPT ![s] = hdr[s]] ELSE sent
    /\ Goto(s, "done")
    /\ UNCHANGED <<used, rr, call, client, ep, total, hdr, status>>

(* The handler has ended; once net/http has sent the response and taken    *)
(* what is left of the request, the goroutine can serve another.           *)
Finish(s) ==
    /\ pc[s] = "done"
    /\ Goto(s, "idle")
    /\ call' = [call EXCEPT ![s] = NoCall]
    /\ client' = [client EXCEPT ![s] = NoClient]
    /\ ep' = [ep EXCEPT ![s] = NoEp]
    /\ total' = [total EXCEPT ![s] = 0]
    /\ hdr' = [hdr EXCEPT ![s] = NoHeader]
    /\ sent' = [sent EXCEPT ![s] = NoHeader]
    /\ status' = [status EXCEPT ![s] = 0]
    /\ UNCHANGED <<used, rr, inflight>>
-----------------------------------------------------------------------------
(* The steps the handler takes on its own; those that wait for the client, *)
(* whose body the handler reads, or net/http when the handler did not; and *)
(* those that wait for the upstream.                                       *)
Own(s) ==
    \/ Admit(s) \/ RefuseKey(s) \/ QuotaHeaders(s) \/ Serve(s)
    \/ RefuseRequest(s) \/ Select(s) \/ BeginUpstream(s)
    \/ Record(s) \/ Settle(s) \/ WriteBody(s) \/ EndUpstream(s)
Client(s) == Upload(s) \/ Finish(s)
Upstream(s) ==
    \/ Answer(s) \/ BadTarget(s) \/ UpstreamFails(s)
    \/ ReadAnswer(s) \/ StreamLine(s) \/ StreamEnd(s)

Next == \E s \in Slots : Arrive(s) \/ Own(s) \/ Client(s) \/ Upstream(s) \/ Deadline(s)

Spec == Init /\ [][Next]_vars
-----------------------------------------------------------------------------
(* Type correctness of the gateway's state (ChatProxy, TokenStore and      *)
(* upstreamPool).                                                          *)
TypeOK ==
    /\ used \in [Clients -> Int64]
    /\ rr \in 0..(RRMod - 1)
    /\ inflight \in [Eps -> Int]
    /\ pc \in [Slots -> Pcs]
    /\ call \in [Slots -> Calls \cup {NoCall}]
    /\ client \in [Slots -> Clients \cup {NoClient}]
    /\ ep \in [Slots -> Eps \cup {NoEp}]
    /\ total \in [Slots -> Int]
    /\ hdr \in [Slots -> Int64 \cup {NoHeader}]
    /\ sent \in [Slots -> Int64 \cup {NoHeader}]
    /\ status \in [Slots -> Statuses]

(* The requests of a client that were admitted and may still be charged.   *)
MayCharge == {"quota", "serve", "upload", "route", "begin", "send", "read", "stream",
              "record", "settle"}
Open(c) == {s \in Slots : pc[s] \in MayCharge /\ client[s] = c}

(* The requests between ep.begin() and the deferred ep.end() of endpoint e.*)
AtUpstream == {"send", "read", "stream", "record", "write", "settle", "end"}
Held(e) == {s \in Slots : pc[s] \in AtUpstream /\ ep[s] = e}

(* A quota is checked when a request comes in and charged when its answer  *)
(* is known, so requests that run at once can pass it together; but the    *)
(* charge never exceeds what the last token of the quota lets in: at most  *)
(* one answer for every request the gateway serves at once, whatever the   *)
(* order of checks and charges (Authenticate, recordUsage).                *)
QuotaOvershootBounded ==
    \A c \in KeyClients :
        Limited(c) =>
            used[c] + MaxTokens * Cardinality(Open(c))
                <= Quota(c) - 1 + MaxTokens * Cardinality(Slots)

(* Every endpoint's in-flight count is the number of handlers between its  *)
(* begin and its deferred end, on every path out of the handlers; a count  *)
(* that leaks turns least_inflight away from an endpoint for good.         *)
InflightConserved ==
    \A e \in Eps : inflight[e] = Cardinality(Held(e))

(* A request that is forwarded goes to an endpoint its route names, that   *)
(* supports its logical model, on a route of its own kind: what            *)
(* selectEndpoint's fallback loop and the two handlers' checks are for.    *)
ForwardedWithinRoute ==
    \A s \in Slots : pc[s] \in AtUpstream \cup {"begin"} =>
        LET q == call[s]
            r == RouteOf(q)
        IN /\ r # 0 => /\ Routes[r].kind = q.op
                       /\ EndpointAllowed(ep[s], Routes[r].endpoints)
           /\ Supports(ep[s], LogicalModel(q))

(* A client never reads more usage than it was charged, and the counter in *)
(* a /v1/usage body is not behind the header of the same response, though  *)
(* the two are read from the store at different times (Middleware,         *)
(* recordUsage, HandleUsage).                                              *)
ShownInOrder ==
    \A s \in Slots : client[s] \in KeyClients /\ Limited(client[s]) =>
        /\ sent[s] # NoHeader => sent[s] <= used[client[s]]
        /\ call[s].op = "usage" /\ pc[s] = "done" => sent[s] <= total[s]

(* Once a client's quota is used up it stays used up, and none of its      *)
(* requests is admitted any more: only those already in the gateway go on. *)
ExhaustionIsFinal ==
    [][\A c \in KeyClients :
          Exhausted(c) => Exhausted(c)' /\ Open(c)' \subseteq Open(c)]_vars

(* A header that recordUsage replaces moves on by at least the tokens of   *)
(* this request: the response that is read in full shows its own charge.   *)
HeaderCountsOwnCharge ==
    [][\A s \in Slots :
          pc[s] = "record" /\ total[s] > 0 /\ Limited(client[s])
          /\ pc'[s] = "write" => hdr'[s] >= hdr[s] + total[s]]_vars

(* What the gateway promises about quotas, see TokenLedger: a request is   *)
(* let in below the limit and is charged once at most.                     *)
LimitedClients == {c \in KeyClients : Limited(c)}
Ledger == INSTANCE TokenLedger WITH
    Requests <- Slots,
    Holders <- LimitedClients,
    Limit <- [c \in LimitedClients |-> Quota(c)],
    Nobody <- NoClient,
    MaxCharge <- MaxTokens,
    spent <- [c \in LimitedClients |-> used[c]],
    pending <- [s \in Slots |->
                   IF pc[s] \in MayCharge /\ client[s] \in LimitedClients
                   THEN client[s] ELSE NoClient]
ImplementsLedger == Ledger!Spec
=============================================================================
