------------------------------- MODULE Answers -------------------------------
(***************************************************************************)
(* The answer of an upstream: its headers and coding, and its body, read   *)
(* in full or as a stream, as its content type says                        *)
(* (HandleChatCompletions, internal/proxy/proxy.go).  Headers are sets of  *)
(* names in lower case.  A stream is looked at twice: what its lines carry *)
(* for the choices of an answer, and how lines make events.                *)
(***************************************************************************)
EXTENDS ThinkMessage, ThinkStream, SseLines

CONSTANT Headers    \* the headers clients may send

VARIABLES
    form,       \* "message", or a stream as "choices" or as "lines"
    coding,     \* of the body as the handler reads it, "pending" before
    returned    \* the headers of the upstream the client gets

vars == <<form, coding, returned, messageVars, streamVars, lineVars>>

HopHeaders ==
    {"host", "content-length", "connection", "keep-alive", "proxy-authenticate",
     "proxy-authorization", "te", "trailer", "transfer-encoding", "upgrade"}
CopyHeaders(headers) == headers \ HopHeaders
CopyResponseHeaders(headers) ==
    headers \ {"content-length", "content-encoding", "transfer-encoding", "connection"}

(* Upstreams compress if they want and the request accepts it.  net/http   *)
(* adds Accept-Encoding where it is missing and then decodes the answer    *)
(* itself; where the request brought its own, the answer stays coded.      *)
Responses(headers) ==
    {[coding |-> "identity", headers |-> {"content-type"}]}
      \cup (IF "accept-encoding" \in headers
            THEN {[coding |-> "gzip", headers |-> {"content-type", "content-encoding"}]}
            ELSE {})

NoMessage == [key \in {"content"} \cup Fields |-> Absent]

Init ==
    /\ coding = "pending" /\ returned = {}
    /\ LinesInit
    /\ \/ form = "message" /\ MessageInit(Messages) /\ StreamInit({1})
       \/ form = "choices" /\ MessageInit({NoMessage}) /\ StreamInit(DOMAIN Upstreams)
       \/ form = "lines" /\ MessageInit({NoMessage}) /\ StreamInit({1})

Forward ==
    /\ coding = "pending"
    /\ \E h \in SUBSET Headers : \E r \in Responses(CopyHeaders(h)) :
          /\ coding' = r.coding
          /\ returned' = CopyResponseHeaders(r.headers)
    /\ UNCHANGED <<form, messageVars, streamVars, lineVars>>

(* A compressed body is no JSON and passes as it is.                       *)
HandleNonStream ==
    /\ form = "message" /\ coding = "identity"
    /\ NormalizeNonStream
    /\ UNCHANGED <<form, coding, returned, streamVars, lineVars>>
HandleStream ==
    /\ coding = "identity"
    /\ \/ form = "choices" /\ StreamNext /\ UNCHANGED lineVars
       \/ form = "lines" /\ LinesNext /\ UNCHANGED streamVars
    /\ UNCHANGED <<form, coding, returned, messageVars>>

Next == Forward \/ HandleNonStream \/ HandleStream
Spec == Init /\ [][Next]_vars
-----------------------------------------------------------------------------
(* README: apart from reasoning, what the upstream sends passes as it is.  *)
(* Violated: an answer the client let the upstream compress, which is      *)
(* neither decoded nor transformed, loses the header that says so.         *)
CodingIsTold ==
    coding # "pending" => (coding # "identity") = ("content-encoding" \in returned)
=============================================================================
