--------------------------- MODULE RequestPipeline ---------------------------
(***************************************************************************)
(* What the chat and audio handlers make of a request under a loaded       *)
(* configuration, up to the body they send: system messages first, route   *)
(* patches, model rewrite (internal/transform/request.go, audio.go).       *)
(* JSON is a tree of nodes.  Go keeps JSON objects in maps, and a set      *)
(* patch puts the configured map itself into the request: such a node is   *)
(* "shared", its fields are values[id], and a patch below it changes them  *)
(* for every later request.                                                *)
(***************************************************************************)
EXTENDS GatewayConfig

CONSTANTS
    Requests,           \* [op, path, form, body]: body is a node
    SystemMessages,     \* the messages whose role is system
    ReorderSystemMessages,  \* cfg.Transform.Enabled and .ReorderSystemMessages
    Float64,            \* function from numerals to what a float64 keeps of them
    MaxServed,          \* most requests in a row (bound)
    InnerPlain(_, _),   \* encoding/json on an object inside another: written
    InnerParsed(_)      \* out, and read

VARIABLES
    written,    \* the configuration as it is written, for the properties
    values,     \* values[id]: fields of the configured object of a patch
    request,    \* the last request
    sent,       \* [status, node, targets]: its refusal, or 200, the body and
                \* the URLs it may be sent to
    served      \* number of requests so far

vars == <<configVars, written, values, request, sent, served>>

Leaf(v) == [kind |-> "leaf", fields |-> <<>>, val |-> v]
List(v) == [kind |-> "list", fields |-> <<>>, val |-> v]
Obj(f) == [kind |-> "object", fields |-> f, val |-> <<>>]
Shared(id) == [kind |-> "shared", fields |-> <<>>, val |-> id]

IsObject(n) == n.kind \in {"object", "shared"}
(* A body null: json.Unmarshal leaves the map nil without an error.        *)
Null == Leaf(<<"null">>)

(* What Requests holds: JSON that is read, or a form; only an object in a  *)
(* configured patch can be shared.                                         *)
IsJson(n) ==
    /\ DOMAIN n = {"kind", "val", "fields"} /\ n.kind \in {"leaf", "list", "object"}
    /\ n.kind # "object" => n.fields = <<>>
    /\ n.kind = "list" => n.val \in Seq(Range(n.val))
IsRequest(q) ==
    /\ q \in [op : {Chat, Audio}, path : Text, form : BOOLEAN, body : {q.body}]
    /\ IsJson(q.body) /\ \A key \in DOMAIN q.body.fields : IsJson(q.body.fields[key])
ASSUME RequestsAssumption == \A q \in Requests : IsRequest(q)

Fields(heap, n) == IF n.kind = "shared" THEN heap[n.val] ELSE n.fields
With(f, key, v) == [k \in DOMAIN f \cup {key} |-> IF k = key THEN v ELSE f[k]]
Without(f, key) == [k \in DOMAIN f \ {key} |-> f[k]]

(* The tree without sharing, as json.Marshal writes it.                    *)
Plain(heap, n) ==
    LET f == Fields(heap, n)
    IN  IF IsObject(n)
        THEN Obj([k \in DOMAIN f |-> IF IsObject(f[k]) THEN InnerPlain(heap, f[k]) ELSE f[k]])
        ELSE n

(* json.Unmarshal: numbers become float64.  The lists are those of         *)
(* messages, which stay what they are.                                     *)
ParsedLeaf(n) ==
    IF n.kind = "leaf" /\ n.val \in DOMAIN Float64 THEN Leaf(Float64[n.val]) ELSE n
Parsed(n) ==
    IF IsObject(n)
    THEN Obj([k \in DOMAIN n.fields |-> IF IsObject(n.fields[k]) THEN InnerParsed(n.fields[k])
                                        ELSE ParsedLeaf(n.fields[k])])
    ELSE ParsedLeaf(n)
-----------------------------------------------------------------------------
(* A map is changed where it is, also the one of the configuration.        *)
Changed(heap, n, f) ==
    IF n.kind = "shared" THEN [node |-> n, heap |-> [heap EXCEPT ![n.val] = f]]
    ELSE [node |-> Obj(f), heap |-> heap]

(* Slip: a new object in any case.                                         *)
NextObjectNew(f, key) == Obj(<<>>)
(* The object to go on in: the one that is there, or a new one.  (A delete *)
(* stops where none is: nothing is deleted in a new one either.)           *)
NextObject(f, key) ==
    IF key \in DOMAIN f /\ IsObject(f[key]) THEN f[key] ELSE Obj(<<>>)

(* The objects on the way to the last key of the path.                     *)
Walk(heap, n, path) ==
    LET at[k \in 1..Len(path)] ==
            IF k = 1 THEN n ELSE NextObject(Fields(heap, at[k - 1]), path[k - 1])
    IN  at

(* Each field on the way holds what became of the object below it.         *)
Below(n, f, key, below) == Changed(below.heap, n, With(f, key, below.node))
Rebuilt(heap, at, path, changed) ==
    LET up[k \in 1..Len(path)] ==
            IF k = Len(path) THEN changed
            ELSE Below(at[k], Fields(heap, at[k]), path[k], up[k + 1])
    IN  up[1]

SetPatchValue(heap, n, path, v) ==
    LET at == Walk(heap, n, path)
        f == Fields(heap, at[Len(path)])
        key == path[Len(path)]
        equal == key \in DOMAIN f /\ Plain(heap, f[key]) = Plain(heap, v)
    IN  IF equal THEN [node |-> n, heap |-> heap]
        ELSE Rebuilt(heap, at, path, Changed(heap, at[Len(path)], With(f, key, v)))

DeletePatchValue(heap, n, path) ==
    LET at == Walk(heap, n, path)
        f == Fields(heap, at[Len(path)])
        key == path[Len(path)]
    IN  IF key \notin DOMAIN f THEN [node |-> n, heap |-> heap]
        ELSE Rebuilt(heap, at, path, Changed(heap, at[Len(path)], Without(f, key)))

SplitPatchPath(path) ==
    LET parts == Split(Trim(TrimSpace(path), {"."}), ".")
        keys == [i \in DOMAIN parts |-> TrimSpace(parts[i])]
    IN  Keep(keys, Range(keys) \ {<<>>})

PatchAt(acc, path, p) ==
    CASE path = <<>> -> [node |-> acc.node, heap |-> acc.heap]
      [] path # <<>> /\ p.op = <<"set">> -> SetPatchValue(acc.heap, acc.node, path, p.value)
      [] path # <<>> /\ p.op = <<"delete">> -> DeletePatchValue(acc.heap, acc.node, path)

Applied(before, after) ==
    [node |-> after.node, heap |-> after.heap,
     changed |-> \/ before.changed
                 \/ Plain(after.heap, after.node) # Plain(before.heap, before.node)]
ApplyPatch(acc, p) == Applied(acc, PatchAt(acc, SplitPatchPath(p.path), p))

(* The body is encoded again only if a patch changed something.            *)
Encoded(body, end) ==
    [node |-> IF end.changed THEN Plain(end.heap, end.node) ELSE body, heap |-> end.heap]
ApplyRequestPatches(heap, body, patches) ==
    LET end[j \in 0..Len(patches)] ==
            IF j = 0 THEN [node |-> Parsed(body), heap |-> heap, changed |-> FALSE]
            ELSE ApplyPatch(end[j - 1], patches[j])
    IN  Encoded(body, end[Len(patches)])

(* Slip: the body is encoded again in any case.                            *)
RewriteModelAlways(body, model) ==
    IF model = <<>> THEN body
    ELSE Obj(With(Parsed(body).fields, <<"model">>, Leaf(model)))
RewriteModel(body, model) ==
    IF model = <<>> \/ (<<"model">> \in DOMAIN body.fields
                        /\ body.fields[<<"model">>] = Leaf(model))
    THEN body
    ELSE Obj(With(Parsed(body).fields, <<"model">>, Leaf(model)))

(* Slip: the system messages are put in front one by one.                  *)
SystemFirstReversed(msgs) ==
    FoldLeft(LAMBDA acc, m : IF m \in SystemMessages THEN <<m>> \o acc ELSE Append(acc, m),
             <<>>, msgs)
ReorderMessages(msgs) ==
    Keep(msgs, SystemMessages) \o Keep(msgs, Range(msgs) \ SystemMessages)

NormalizeRequest(body) ==
    LET key == <<"messages">>
        msgs == body.fields[key].val
    IN  IF /\ ReorderSystemMessages
           /\ key \in DOMAIN body.fields /\ body.fields[key].kind = "list"
           /\ ReorderMessages(msgs) # msgs
        THEN Obj(With(Parsed(body).fields, key, List(ReorderMessages(msgs))))
        ELSE body
-----------------------------------------------------------------------------
(* A form: every field has the list of its values as a leaf.               *)
FormKey(p) == TrimSpace(Trim(p.path, {"."}))

FormPatchText(v) == IF IsObject(v) THEN <<"map[]">> ELSE v.val

ApplyFormPatch(form, p) ==
    CASE FormKey(p) = <<>> -> form
      [] FormKey(p) # <<>> /\ p.op = <<"delete">> -> Obj(Without(form.fields, FormKey(p)))
      [] FormKey(p) # <<>> /\ p.op = <<"set">> ->
            Obj(With(form.fields, FormKey(p), Leaf(FormPatchText(p.value))))

BuildAudioMultipartBody(form, model, patches) ==
    LET named == IF model = <<>> THEN form
                 ELSE Obj(With(form.fields, <<"model">>, Leaf(model)))
        end[j \in 0..Len(patches)] ==
            IF j = 0 THEN named ELSE ApplyFormPatch(end[j - 1], patches[j])
    IN  end[Len(patches)]
-----------------------------------------------------------------------------
ModelField(body) ==
    IF /\ IsObject(body) /\ <<"model">> \in DOMAIN body.fields
       /\ body.fields[<<"model">>].kind = "leaf"
    THEN body.fields[<<"model">>].val ELSE <<>>
(* Audio requests have their model trimmed, chat requests do not.          *)
RequestModel(q) ==
    IF q.op = Audio THEN TrimSpace(ModelField(q.body)) ELSE ModelField(q.body)

RouteOf(q) ==
    IF q.path # <<>> THEN RouteByPath(cfg, q.path) ELSE RouteByModel(cfg, RequestModel(q))
Routed(q) == RouteOf(q) # 0
Route(q) == cfg.routes[RouteOf(q)]

(* The map of the object that patch j of route i sets.                     *)
Id(i, j) == <<ToString(i), ToString(j)>>
PatchesOf(q) ==
    IF ~Routed(q) THEN <<>>
    ELSE [j \in DOMAIN Route(q).patches |->
            [Route(q).patches[j] EXCEPT
                !.value = IF IsObject(@) THEN Shared(Id(RouteOf(q), j)) ELSE @]]

(* Slip: the endpoints are chosen for the model the client named.          *)
LogicalModelAsked(q) == RequestModel(q)
LogicalModel(q) == IF Routed(q) THEN Route(q).model ELSE RequestModel(q)
UpstreamModel(q) ==
    IF Routed(q) /\ Route(q).upstreamModel # <<>> THEN Route(q).upstreamModel
    ELSE IF LogicalModel(q) \in DOMAIN cfg.modelMap THEN cfg.modelMap[LogicalModel(q)]
    ELSE <<>>
(* Slip: only the upstream model is considered.                            *)
ModelForUpstreamMapped(q) == UpstreamModel(q)
(* A route without an upstream model asks for its own, unless the client   *)
(* named it already.                                                       *)
ModelForUpstream(q) ==
    IF UpstreamModel(q) = <<>> /\ Routed(q) /\ RequestModel(q) # Route(q).model
    THEN Route(q).model ELSE UpstreamModel(q)

(* Writing to a nil map panics; gin's Recovery answers 500.                *)
WritesToNil(q) ==
    /\ q.body = Null
    /\ \/ ModelForUpstream(q) # <<>>
       \/ \E p \in Range(PatchesOf(q)) : p.op = <<"set">> /\ SplitPatchPath(p.path) # <<>>

Status(q) ==
    IF q.path # <<>> /\ ~Routed(q) THEN 404
    ELSE IF Routed(q) /\ Route(q).kind # q.op THEN 400
    ELSE IF ~IsObject(q.body) /\ q.body # Null /\ PatchesOf(q) # <<>> THEN 400
    ELSE IF WritesToNil(q) THEN 500
    ELSE 200

(* Slip: the model is rewritten first.                                     *)
PatchAfterRewrite(q, heap, body) ==
    ApplyRequestPatches(heap, RewriteModel(body, ModelForUpstream(q)), PatchesOf(q))
PatchAndRewrite(q, heap, body) ==
    LET patched == ApplyRequestPatches(heap, body, PatchesOf(q))
    IN  [patched EXCEPT !.node = RewriteModel(@, ModelForUpstream(q))]

(* selectEndpoint has its choice of these; and where the request goes.     *)
Chosen(q) ==
    Candidates(cfg, LogicalModel(q), IF Routed(q) THEN Route(q).endpoints ELSE {})
UpstreamPathOf(q) == IF Routed(q) THEN Route(q).upstreamPath ELSE DefaultPath(q.op)
JoinURLPath(base, path) == TrimRight(base, {"/"}) \o path

Refusal(status) == [status |-> status, node |-> Obj(<<>>), targets |-> {}]

Rewritten(q, heap) ==
    CASE ~IsObject(q.body) -> [node |-> q.body, heap |-> heap]
      [] IsObject(q.body) /\ q.op = Chat -> PatchAndRewrite(q, heap, NormalizeRequest(q.body))
      [] IsObject(q.body) /\ q.op = Audio /\ ~q.form -> PatchAndRewrite(q, heap, q.body)
      [] IsObject(q.body) /\ q.op = Audio /\ q.form ->
            [node |-> BuildAudioMultipartBody(q.body, ModelForUpstream(q), PatchesOf(q)),
             heap |-> heap]

Forwarded(q, chosen, r) ==
    IF chosen = {} THEN [sent |-> Refusal(400), heap |-> r.heap]
    ELSE [sent |-> [status |-> 200, node |-> r.node,
                    targets |-> {JoinURLPath(cfg.endpoints[i].baseURL, UpstreamPathOf(q)) :
                                    i \in chosen}],
          heap |-> r.heap]

(* What becomes of request q while the configured objects are as in heap.  *)
Answered(q, heap, status) ==
    IF status = 200 THEN Forwarded(q, Chosen(q), Rewritten(q, heap))
    ELSE [sent |-> Refusal(status), heap |-> heap]
Outcome(q, heap) == Answered(q, heap, Status(q))
-----------------------------------------------------------------------------
NoRequest == [op |-> <<>>, path |-> <<>>, form |-> FALSE, body |-> Obj(<<>>)]
NothingSent == Refusal(0)

Init ==
    /\ ConfigInit /\ written = cfg
    /\ values = <<>> /\ request = NoRequest /\ sent = NothingSent /\ served = 0

LoadConfig ==
    /\ Load
    /\ UNCHANGED <<written, values, request, sent, served>>

(* The objects among the patch values, by their maps.                      *)
ConfiguredObjects ==
    UNION {{<<Id(i, j), cfg.routes[i].patches[j].value.fields>> :
                j \in {k \in DOMAIN cfg.routes[i].patches :
                        IsObject(cfg.routes[i].patches[k].value)}} :
            i \in DOMAIN cfg.routes}
StartProxy ==
    /\ NewChatProxy
    /\ values' = [id \in {o[1] : o \in ConfiguredObjects} |->
                    (CHOOSE o \in ConfiguredObjects : o[1] = id)[2]]
    /\ UNCHANGED <<written, request, sent, served>>

Serve(q) ==
    /\ phase = "serving" /\ served < MaxServed
    /\ LET o == Outcome(q, values) IN
       /\ request' = q
       /\ sent' = o.sent
       /\ values' = o.heap
    /\ served' = served + 1
    /\ UNCHANGED <<configVars, written>>
HandleChatCompletions == \E q \in Requests : q.op = Chat /\ Serve(q)
HandleAudioTranscriptions == \E q \in Requests : q.op = Audio /\ Serve(q)

Next == LoadConfig \/ StartProxy \/ HandleChatCompletions \/ HandleAudioTranscriptions
Spec == Init /\ [][Next]_vars
-----------------------------------------------------------------------------
Json(q) == q.op = Chat \/ ~q.form
WasSent == sent.status = 200
NamesModel(p) == SplitPatchPath(p.path) # <<>> /\ SplitPatchPath(p.path)[1] = <<"model">>

(* A request reaches the upstream with the model configured for it: JSON   *)
(* whatever its patches do to the model, a form unless a patch has its     *)
(* field.                                                                  *)
ConfiguredModelSent ==
    WasSent /\ IsObject(request.body) /\ UpstreamModel(request) # <<>> =>
        \/ ModelField(sent.node) = UpstreamModel(request)
        \/ ~Json(request) /\ \E p \in Range(PatchesOf(request)) : FormKey(p) = <<"model">>

(* A client that finds a route's model in /v1/models asks for it instead   *)
(* of using the route's path.                                              *)
ByPath == {q \in Requests : q.path # <<>> /\ Routed(q) /\ IsObject(q.body)}
Listed(q) ==
    Route(q).model \in ModelIDs(cfg) /\ RouteByModel(cfg, Route(q).model) = RouteOf(q)
AskingForModel(q) ==
    [q EXCEPT !.path = <<>>,
              !.body = Obj(With(@.fields, <<"model">>, Leaf(Route(q).model)))]

(* It is answered the same then, and its request goes to the same places,  *)
(* unless another route has the model.                                     *)
PathAndModelGoAlike ==
    phase = "serving" =>
        \A q \in ByPath :
            LET byPath == Outcome(q, values).sent
                byModel == Outcome(AskingForModel(q), values).sent
            IN  Listed(q) => /\ byPath.status = byModel.status
                             /\ byPath.targets = byModel.targets

(* And the same body goes upstream, whatever model it had by path, unless  *)
(* patches set or delete the model where no upstream model overrides them. *)
PathAndModelAgree ==
    phase = "serving" =>
        \A q \in ByPath :
            (/\ Listed(q)
             /\ UpstreamModel(q) # <<>> \/ ~\E p \in Range(PatchesOf(q)) : NamesModel(p)) =>
                Parsed(Outcome(q, values).sent.node)
                    = Parsed(Outcome(AskingForModel(q), values).sent.node)

(* A transcription is never sent to a chat completion, nor the reverse,    *)
(* however the kind of its route is spelled, unless the route is written   *)
(* with an upstream path.                                                  *)
PathFitsOperation ==
    LET other == DefaultPath(IF request.op = Audio THEN Chat ELSE Audio)
    IN  (/\ WasSent
         /\ Routed(request) => written.routes[RouteOf(request)].upstreamPath = <<>>) =>
            \A url \in sent.targets : ~IsSuffix(other, url)

(* A body nothing has to be changed in is passed on as it is, with numbers *)
(* that a float64 cannot hold.  It may be encoded again where two changes  *)
(* cancel out: of two patches, of a patch and the model rewrite or the     *)
(* order of messages, of a patch's number and how it is read.              *)
ReadAsWritten(v) == Parsed(Plain(values, v)) = Plain(values, v)
UnchangedIsUntouched ==
    LET patches == PatchesOf(request)
    IN  (/\ WasSent /\ Json(request) /\ Len(patches) < 2
         /\ \A p \in Range(patches) :
                /\ ~NamesModel(p) /\ <<"messages">> \notin Range(SplitPatchPath(p.path))
                /\ p.op = <<"set">> => ReadAsWritten(p.value)
         /\ Parsed(sent.node) = Parsed(request.body)) => sent.node = request.body

(* The messages of a chat go upstream with the system messages in front,   *)
(* none lost, and each kind in its order.                                  *)
SystemFirst ==
    LET key == <<"messages">>
        came == request.body.fields[key]
        went == sent.node.fields[key]
    IN  (/\ WasSent /\ request.op = Chat /\ ReorderSystemMessages
         /\ key \in DOMAIN request.body.fields /\ came.kind = "list"
         /\ \A p \in Range(PatchesOf(request)) : key \notin Range(SplitPatchPath(p.path))) =>
            LET others == Range(came.val) \ SystemMessages
            IN  /\ Range(went.val) = Range(came.val)
                /\ \A i, j \in DOMAIN went.val :
                      went.val[i] \in SystemMessages /\ went.val[j] \in others => i < j
                /\ Keep(went.val, SystemMessages) = Keep(came.val, SystemMessages)
                /\ Keep(went.val, others) = Keep(came.val, others)
=============================================================================
