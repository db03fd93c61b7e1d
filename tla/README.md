# sbgw: specifications and proofs

sbgw is an OpenAI-compatible gateway: clients with keys and token quotas call
it, it picks an upstream endpoint for the route and model they ask for, adapts
request and answer, and passes answers on, read in full or as a stream. This
directory models it in TLA+, checks the models with TLC on small instances and
proves the central properties with TLAPS. All paths are relative to the
repository; `PROJECT.json` maps every definition to the lines it models.

## The system

| Part | State | Operations | What makes it correct |
| --- | --- | --- | --- |
| **Keys and quotas** `internal/auth/auth.go` | entries (immutable), `used` per client under a RWMutex, in memory only | `NewTokenStore`, `Authenticate`, `RecordUsage`, `Snapshot(s)`, `Middleware` | a quota is passed by a bounded amount only, an exhausted key stays shut, each request is charged once at most, what a client is shown is never ahead of what it was charged |
| **Upstream pool** `internal/proxy/upstream.go` | rotation counter `rr` and `inflight` per endpoint, both atomics | `selectEndpoint` (five strategies), `begin`, `end`, `modelIDs` | only endpoints the route names and that serve the model, fair shares, in-flight counts that never leak |
| **Handlers** `internal/proxy/proxy.go`, `audio.go` | one goroutine per request with its own locals; route tables (immutable) | `HandleChatCompletions`, `HandleAudioTranscriptions`, `HandleModels`, `HandleUsage`, `handleStream`, `handleNonStream`, `recordUsage` | every path ends, releases its endpoint and charges what was reported; routes do not mix |
| **Body log** `limitBody` | the byte slices of a request | `limitBody` before a body is passed on | the body that is passed on is the body that was read |
| **Request transforms** `internal/transform/request.go`, `audio.go` | the objects among the configured patch values, which requests share | system messages first, route patches, model rewrite, multipart rebuild | the upstream gets the configured model and patches, the rest unchanged |
| **Response transforms** `internal/transform/transform.go`, `stream_state.go` | per stream and choice: think tag open or closed, text held back, inside a raw tag | `NormalizeNonStream`, `NormalizeSSEData`, `FilterRawThinkContent` | reasoning ends up inside one closed think tag; no other text is lost; how a stream is cut into pieces does not matter |
| **Configuration** `internal/config/config.go` | none after `Load` | defaults, normalisation, `validate` | what validates can be served |
| **SSE lines** `handleStream` | the usage seen so far | one line read, written on at once | the client reads the upstream's events, the last usage is charged |
| **Lifecycle** `cmd/sbgw/main.go` | server, signal | start, listen, shutdown with a drain of ten seconds | started requests end before the process does, or are cut off at the deadline; a signal ends the process |
| Logger `internal/logger`, scripts, images, manifests | – | – | pure I/O and packaging, not modelled |

Requests meet in three places only: the counters of the token store (mutex), the
rotation counter, and the in-flight counts (atomics). The middleware calls the
store twice, a handler calls the pool three times (select, begin, deferred end)
and the store once more when the answer's usage is known. None of these calls
is atomic with another one; that is where the interleavings come from. Failure
comes from upstreams (refused, broken off, hanging) and from clients that go
away, both of which cancel the request's context; timeouts are deadlines of
that context. There are no retries. Nothing is persisted: the process ends by
the end of `main`, by a panic or `log.Fatal` in it or by a signal, and with it every counter.
One more thing is shared, by accident: a patch whose value is an object puts the
configured map itself into a request, and a later patch below it changes it.

The hazards, each at its line and with the properties aimed at it, are listed in
`PROJECT.json`.

## Modules

| Module | Models | State and actions |
| --- | --- | --- |
| `TokenStore` | auth.go | `used`; operators for the entries, authentication, exhaustion and the int64 charge |
| `UpstreamPool` | upstream.go | `rr`, `inflight`; candidates, the strategies as the set of endpoints they can return, `Begin`, `End` |
| `ChatProxy` | middleware and handlers of all requests, EXTENDS the two above | per goroutine (`Slots`): `pc`, the request, the client id, the endpoint, the tokens found, the quota header in the map and as sent, the status. One action per stretch of code between two accesses to shared state |
| `TokenLedger` | what quotas promise, abstractly | `spent`, `pending`; let in below the limit, settle once with one charge. `ChatProxy` implements it under a refinement mapping (`ImplementsLedger`) |
| `Lifecycle` | cmd/sbgw/main.go around `ChatProxy`, EXTENDS it | where `main` is, whether the server listens, connections without a request, a signal in the channel; requests arrive on accepted connections and move only while the process runs; `Restart` begins again with empty counters |
| `PoolRotation` | sequences of `selectEndpoint` under the rotating strategies | `rr`, and how often the current run of selections served each endpoint |
| `LeastInflight` | `leastInflight` beside other requests | the slice of candidates being sorted, where the insertion is, which load comes next; others begin and end between two loads |
| `PoolSelection` | the two above as one pool | |
| `Texts` | the functions of Go's `strings` the gateway uses | none |
| `GatewayConfig` | config.go, and the tables of `NewChatProxy` | `cfg` as written and as used, `phase`; `Load` refuses or goes on, `NewChatProxy` too |
| `RequestPipeline` | request.go and what the handlers make of a request, EXTENDS `GatewayConfig` | `written`, the configuration as it was written; `values`, the fields of the configured objects; the last request and what was sent for it |
| `RequestPatches` | what patches mean, said another way (sets of leaves), and `encoding/json` on trees of any depth; EXTENDS `RequestPipeline` | |
| `BodyLog` | bodies on their way past `limitBody`, as Go slices with arrays | the slice, what was logged, passed on and counted |
| `SseLines` | the line loop of `handleStream` | the lines read and their data, what a client of the upstream and one of the gateway have read by now, the usage seen, what was charged |
| `ThinkText` | transform.go, stream_state.go as operators on texts | none; `NormalizeMessage`, `NormalizeDelta`, the filter of raw tags `Scan` |
| `ThinkMessage` | `NormalizeNonStream`, once or by two gateways in a row | the message as sent and as it is now |
| `ThinkStream` | `NormalizeSSEData` on the lines of one stream | the tracker (a stream state per choice), what was sent and shown per choice |
| `Answers` | an answer from its headers on, EXTENDS the three above | its form, how its body is coded, the headers that are passed back |
| `ChatProxyProofs`, `LifecycleProofs`, `PoolSelectionProofs`, `BodyLogProofs`, `RequestProofs`, `AnswersProofs`, `StreamProofs` | theorems, see Proofs | |
| `TextProofs` | lemmas about the operators of `Texts` and of the community modules they are made of | |
| `MCChatProxy`, `MCLifecycle`, `MCPoolSelection`, `MCRequests`, `MCAnswers` | values for TLC | |

Two tables of routes and candidates are written twice on purpose: `ChatProxy`
and `UpstreamPool` have the normalised form the proofs are about,
`GatewayConfig` the texts as they are trimmed and compared.

How a request runs in `ChatProxy`:

    Arrive -> Admit | RefuseKey (401, 429)         Authenticate
    QuotaHeaders                                   Middleware's Snapshot
    Serve                                          /models, /usage
    Upload (400)                                   the body is read
    RefuseRequest (400, 404, 500) | Select         up to selectEndpoint
    BeginUpstream                                  ep.begin()
    Answer | BadTarget (500) | Abort (502)         client.Do
    ReadAnswer | Abort; Record; WriteBody          handleNonStream, audio
    StreamLine* ; StreamEnd | Abort; Settle        handleStream
    EndUpstream                                    deferred ep.end()
    Finish                                         the goroutine is free again

`Abort` happens because the upstream or the client fails (`UpstreamFails`, at
any time) or because the deadline passes (`Deadline`). A panic on a JSON `null`
body and on a negative `round_robin` index is an answer 500, as
`gin.Recovery` gives it, before anything is held.

In `ThinkText` a text is a sequence of atoms: the tags are two and three atoms
("<", "/", "think>"), so that they can be cut where it matters and one is longer
than the other; blanks and line breaks are atoms of their own because the code
trims them; "c" and "r" stand for words of content and of reasoning. `Scan` is
the loop of `FilterRawThinkContent`, one tag per pass. `ThinkStream` remembers
what the upstream sent (`sent`) only for the properties.

In `RequestPipeline` JSON is a tree. An object is its own, or `Shared(id)`: a
map of the configuration, whose fields are in `values[id]` and are changed there
by every request that patches below it. `Parsed` is what `json.Unmarshal` keeps
of a number (`Float64`), so that a body that is encoded again can be told from
one that is passed on. The list of messages and the values of a form field are
leaves. What patches should do is said a second time without trees, as sets of
leaves with their paths (`RequestPatches.PatchLeaves`), and the two are compared.
A body and what a patch's path leads through are trees of one level and what is
inside: what `encoding/json` does to an object inside another is the constants
`InnerPlain` and `InnerParsed`, which every instance gives the recursion over the
whole tree (`PlainTree`, `ParsedTree`). So the pipeline itself has no RECURSIVE
operator, and what is proved of it holds whatever the inner objects become.

`LeastInflight` is the insertion sort `sort.SliceStable` does on up to 20
elements, one load of a counter per step; pools of more endpoints are outside
its assumption. `ChatProxy` lets `least_inflight` return any candidate, which
covers every choice of that sort.

Abstractions: a credential is a secret with or without its scheme word; the
client id is an injective function of the secret; in `ChatProxy` a request is
its operation, credential, route segment, model and kind of body, patches are
the set of their operations; an answer is the number of tokens it reports and
whether it is a stream. The status 200 stands for whatever status the upstream
sends, which the handlers do not look at. Upstreams send no `X-SBGW-Quota`
headers of their own (a gateway behind a gateway would: copyResponseHeaders lets
them replace this one's). `random` and `weighted_random` return any candidate. Texts are sequences of atoms, separators and words; viper,
`strings`, `net/http`, `encoding/json` and the reading of server-sent events are
modelled from how the code uses them and marked external. Operators named with
a comment `Slip:` are deliberate mistakes that show the checks can fail; no
specification uses them.

## Runs

| Run | Shows |
| --- | --- |
| `chat_quota` | three goroutines, a metered and a disabled key, chat, audio and usage requests, slots symmetric: a client is never shown more than it was charged, a usage body is not behind the header of its response (`ShownInOrder`); a used-up quota stays shut (`ExhaustionIsFinal`); an answer read in full shows its own charge (`HeaderCountsOwnCharge`); the overshoot is bounded (`QuotaOvershootBounded`) and quotas keep the promise of `TokenLedger` (`ImplementsLedger`) |
| `chat_paths` | all refused requests and all ways to fail, under `round_robin` with a counter that wraps and whose upper half panics, with authentication off: `InflightConserved`, `ForwardedWithinRoute`; the anonymous counter wraps at the edge of its integers: `TypeOK` |
| `lifecycle` | the handlers inside a process that may fail to start, is signalled before or after `signal.Notify`, drains, and is started again: each request ends unless it waits for its client's body or for an upstream without a timeout (`EveryRequestEnds`), an exhausted client's requests run out but for such ones (`ExhaustedClientDrains`), a signal ends the process whatever upstreams and clients do (`SignalEndsProcess`), restarts multiply a quota by the number of processes at most (`ChargedPerProcess`) |
| `pool_selection` | one pick for every counter value (`OnePick`), fair shares in every run of selections among the same candidates (`RunsAreFair`); under `least_inflight` a choice no worse than what moved while it was made (`StaleChoiceBounded`), the best one if nothing moved (`UndisturbedChoice`) |
| `requests` | 3,859 configurations as they may be written, and two requests in a row under each that is accepted: every route has its own path (`RoutesReachable`), the endpoints it names are found (`NamedEndpointsFound`), its upstream path fits its kind (`PathFitsOperation`); the configured patches are applied, to the second request as to the first (`PatchesAsConfigured`), the configured model arrives (`ConfiguredModelSent`), a route's path and its model lead to the same answer and places (`PathAndModelGoAlike`) with the same body (`PathAndModelAgree`), a body in which nothing changes is not encoded again (`UnchangedIsUntouched`), system messages come first and nothing else moves (`SystemFirst`) |
| `dotted_models` (violation) | a configuration that breaks no rule is refused because a model name in `model_map` has a dot |
| `body_log` | all bodies up to length 6 with up to 3 bytes of room behind them: what the log shows, where logging can do damage, that tokens are counted first |
| `body_passed` (violation) | a body longer than the limit is passed on with the truncation mark written into it |
| `answer_forms` | 28,224 messages, once and twice through a gateway: no word is lost or doubled (`TextKept`), a client that splits the content at the tags gets reasoning and answer back (`ClientReadsBack`), the second gateway has nothing left to do (`SecondPassChangesNothing`). Streams of choices: all texts up to six atoms in all cuts, beside a second choice, also in one line, in either order, with and without an index; and reasoning and content mixed with blank, null and empty pieces: neither cuts nor the other choice change the content or the words of reasoning that are shown (`WordsIndependentOfCuts`), only what may become a tag is held back (`OnlyAPossibleTagIsHeld`), the words are those of the answer read in full (`StreamMatchesMessage`). Streams of lines, ended or broken off anywhere: a client reads the upstream's events (`EventsKept`), for any upstream no data are lost or reordered (`DataInOrder`), the last usage reported is charged (`ChargedAsReported`) |
| `stream_trimmed` (violation) | the blank between two streamed words of reasoning is lost |
| `thinking_in_tags` (violation) | a client that reads a stream's thinking between the tags does not find all that was sent |
| `answer_coding` (violation) | a compressed answer reaches the client without the header that says so |

**Finding about model names.** `Load` uses viper with its default key delimiter,
a dot. The key `qwen3.6` of `model_map` becomes a map `qwen3` with an entry `6`,
which does not fit `map[string]string`: `Unmarshal` (config.go:129) fails and
`main` panics. `config.example.yaml:66` and `docs/configuration.md:96` have just
this key. Patch paths are values and not affected.

**Finding about compressed answers.** `copyHeaders` passes the client's
`Accept-Encoding` on. `net/http` decodes an answer only when it asked for the
coding itself, so a compressed answer stays compressed: the transforms find no
JSON, no usage is counted, and `copyResponseHeaders` (proxy.go:378) drops the
`Content-Encoding` the client would need.

**Findings about streamed reasoning.** `collectReasoning` trims the reasoning of
every delta by itself (transform.go:240): "Hello" and " world" arrive as
"Helloworld", and line breaks vanish. The comment of `NormalizeSSEData`
(transform.go:98) says that reasoning is moved. README.md:32 says that
all thinking is collected inside `<think>...</think>`, and line 34 that upstreams
may have it in the content already. `ThinkingInTags` is broken in three ways.
Only content closes the tag (transform.go:179) and `handleStream` adds nothing
when a stream ends, so reasoning without content behind it stays in an open tag:
the trace of the run. Once content has closed the tag, reasoning in a later
delta is put in front of its content without a tag (transform.go:168). And
`FilterRawThinkContent` drops the text between an upstream's own tags
(stream_state.go:28-38), as its comment says; a message read in full keeps it.

What `WordsIndependentOfCuts` says next to this: the content shown and the
rest held back are a function of the content as a whole, and all the ink of the
reasoning stands in one block before it. White space in the reasoning, and
whether reasoning comes after content, do depend on the cuts.

Beside content that is no string a message loses its reasoning and a delta its
content; the properties name the case in their conditions. One difference
between streams and messages is by design: with `inject_think_tag` off a stream
shows the reasoning as content, a message does not.

Disagreements without a run of their own: what `FilterRawThinkContent` holds back
as a possible tag (stream_state.go:41) is not asked for when the stream ends, so
that a streamed answer ending in "<" arrives without it, against README.md:33;
an endpoint listed without `api_key`
is not given `upstream.api_key` (config.go:184, against
docs/configuration.md:88); JSON and form requests apply patches and model in
opposite order, so that a patch of the model wins in a form only
(`ConfiguredModelSent` says so); a route whose patches set one configured object
inside another may send the second request other values than the first (`NoObjectInObject`).

**Finding about the log.** `limitBody` (proxy.go:388-393) appends the mark to `b[:max]`. A Go
slice shares its array with the slice it is cut from, so the 14 bytes after
`max_body_size` are overwritten in the body that the handler then sends to the
upstream (proxy.go:174, 197) or to the client (291, 294; audio.go:210, 213).
The README promises that other fields pass unchanged (README.md:33).
`DamageConfined` bounds the damage: only with `log_body` on, only bodies over
the limit, only those bytes, never the length; an audio request is not logged
and not touched; tokens are counted before (`UsageReadIntact`).

### Bounds

- Goroutines: `chat_paths` and `lifecycle` have two, which reach every pair of
  interleaved handlers; the quota race has three, where two late charges can
  follow an admission. The proofs need no bound.
- Tokens 0 or 2 against a quota of 2 in the race: one answer exhausts it at once,
  late ones overshoot it; -1 to 2 in `chat_paths`.
- `MaxInt64` 7 or 8 and `RRMod` 2 to 32 stand for 2^63 - 1 and 2^64. The first
  is above every limited client's ceiling (`QuotaAssumption`), so that only
  unlimited and anonymous clients wrap, as in the code. `RRMod` 32 is
  no multiple of 7 and 6, two of the weights' sums, as 2^64 is of no odd number.
- Bodies: a limit of 2 and a mark of 2 with lengths to 6 put a body below, at,
  just over and far over the limit, with and without room in its array.
- Texts: six atoms hold an opening and a closing tag and a word inside or behind
  them; two choices reach every interference through the tracker, which has one
  entry per index.
- `MaxLines` 5: an event with a name, its data, its blank line and the two lines
  that could be taken for part of it.
- `MaxRestarts` 1: what a restart forgets is forgotten at the first.
- Four endpoints under `least_inflight`, at most `MaxInflight` 2 others on each
  and `MaxMoves` 3 of their begins and ends in one selection: enough to reverse
  any comparison and to make two comparisons contradict each other.
- Patches: every list of up to three out of eight (set and delete, nested, of an
  object, of the model, of a number above 2^53, of nothing), up to two where the
  chat route has an upstream model as well: a third patch meets what two have
  left, and the upstream model is written after all of them. `MaxServed` 2: a
  request can find what another left in a configured object, and what the
  second leaves is what the first left.

### Fairness

`Lifecycle`'s `FairSpec` assumes weak fairness of a handler's own steps
(`Own`: goroutines are scheduled), of the timer of `context.WithTimeout`, and of
`main`: it takes a signal from its channel, `Shutdown` returns when no connection
is left, and its ten seconds pass. Upstreams, clients, operators and the
listener owe nothing. In particular a client need not send its body: the
handlers read it (proxy.go:102, audio.go:53, 62) before the request has a
deadline, and the server has a `ReadHeaderTimeout` only (main.go:80-84), so that
`Upload` and `Finish`, the steps of `Client`, are not fair. One assumption about
clients is left: they take what is written to them or disconnect, since the
server has no write timeout either, and a handler that writes to a client which
does neither would hang.

Two kinds of requests can therefore hang, and the liveness properties except
just these (`Hangs`): those whose body has not arrived, and those at an endpoint
without a timeout (`timeout` not positive, `Unbounded`); the instance has such an
endpoint. Neither keeps the process from ending (`SignalEndsProcess`).

## Proofs

33 theorems, each for every value of the constants the assumptions allow. All
but `ConfigImplemented` state a property that a run checks.

| Module | Theorem | Property | Inductive invariant |
| --- | --- | --- | --- |
| `ChatProxyProofs` | `TypeCorrect` | `TypeOK` | `TypeInv` |
| | `InflightCounts` | `InflightConserved` | itself, over `TypeInv` |
| | `QuotaOvershoot` | `QuotaOvershootBounded` | itself, over `TypeInv` |
| | `ExhaustionFinal` | `ExhaustionIsFinal` (action property) | the two above |
| | `ShownOrder` | `ShownInOrder` | `ShownInv`, in `QuotaInv` |
| | `HeaderOwnCharge` | `HeaderCountsOwnCharge` (action property) | `QuotaInv` |
| | `WithinRoute` | `ForwardedWithinRoute` | itself, over `TypeInv` |
| | `GatewayKeepsLedger` | `ImplementsLedger` (refinement) | `TypeInv`, `QuotaOvershootBounded` |
| `LifecycleProofs` | `ChargedByProcesses` | `ChargedPerProcess` | `HistoryInv`, `GatewayInv` |
| | `InflightOverRestarts` | `InflightConserved` | `GatewayInv` |
| `PoolSelectionProofs` | `OneEndpoint` | `OnePick` | `CounterInRange` |
| | `FairShares` | `RunsAreFair` | `RotationInv` |
| | `StaleChoice` | `StaleChoiceBounded` | `SortInv` |
| | `CalmChoice` | `UndisturbedChoice` | `SortInv` |
| `BodyLogProofs` | `ShowsPrefix` | `LogShowsPrefix` | `BodyInv` |
| | `SpoilsOnlyBehindLimit` | `DamageConfined` | `BodyInv` |
| | `CountsUnspoilt` | `UsageReadIntact` | `BodyInv` |
| `RequestProofs` | `EveryRouteReached` | `RoutesReachable` | `ConfigInv` |
| | `NamesFound` | `NamedEndpointsFound` | `ConfigInv` |
| | `PathsFit` | `PathFitsOperation` | `PipelineInv` |
| | `ModelConfigured` | `ConfiguredModelSent` | `PipelineInv` |
| | `SystemsInFront` | `SystemFirst` | `PipelineInv` |
| | `PathAndModelLeadThere` | `PathAndModelGoAlike` | `PipelineInv` |
| | `ConfigImplemented` | the pipeline's steps are those of `ConfigSpec` | none needed |
| `AnswersProofs` | `LastReportCharged` | `ChargedAsReported` | `UsageInv` |
| | `EveryDataLineRead` | `DataInOrder` | `DataInv` |
| | `EventsStayEvents` | `EventsKept` | `EventsInv` |
| | `ReasoningReadBack` | `ClientReadsBack` | `MessageInv` |
| | `SecondPassIdle` | `SecondPassChangesNothing` (action property) | `MessageInv` |
| `StreamProofs` | `CutsKeepWords` | `WordsIndependentOfCuts` | `ChoiceInv` of each choice, in `StreamInv` |
| | `NothingLostInFilter` | `OnlyAPossibleTagIsHeld` | `StreamInv` |
| | `StreamSaysTheSame` | `StreamMatchesMessage` | `StreamInv` |
| | `NoWordLost` | `TextKept` | `MessageInv` |

`EveryRouteReached` and `NamesFound` are about `ConfigSpec`, the loading of a
configuration alone; `ConfigImplemented` carries them over to the gateway that
also serves. `TextProofs` holds the lemmas about the operators on texts: what
`Trim`, `Split`, `Keep` and `FlattenSeq` give.

**Induction.** The library's induction theorems have an operator as a parameter,
which the provers cannot instantiate. Where induction is needed it is over a
*set*: a set that has 0 and with every number the next holds all of them
(`EveryNumber`, from the least number it would lack, `LeastPosition`), and the
same for sequences built up from the empty one (`EverySequence`). A recursive
function `f[n]` is first shown to exist with its equation, for every bound
(`KeptExists`, `SplitExists`, `PatchedExists`, `ScansExist`), which is what its
definition, a CHOOSE, needs to mean anything; what it computes is then an
induction of that kind.

**Handlers.** `TypeOK` is not inductive alone: that a charge stays an int64
needs the tokens a handler carries to be at most `MaxTokens`, and that
`inflight` and `used` are changed inside their domains needs the endpoint and
client of a handler to be known by the time they are used. `HandlerOK` adds this
and `TypeInv` is their conjunction. `InflightConserved` is inductive on top of
it: a step either stays on its side of begin/end (`SameConserved`) or moves one
handler across (`BeginConserved`, `EndConserved`; cardinalities by the finite
set theorems). The naive quota property "used stays below quota plus something"
is not inductive because it forgets the requests already admitted;
`QuotaOvershootBounded` counts them: what is charged plus the most the open
requests can still add. Admission happens below the quota (`AdmitBounded`), a
charge uses up what was set aside for it (`ChargeBounded`), everything else
only closes requests (`ReachShrinks`). The same invariant shows that the
counter of a limited client cannot overflow (`ChargeMovesOn`), from which
`ExhaustionFinal` follows, and `ShownInOrder`: what a response shows was the
counter at some moment (`ShownInv`), and it has only moved on since. For the
ledger every step of a handler is mapped: admission lets in, the one charge of a
request settles, all other steps stutter.

**Process.** A restart begins in an initial state of the gateway, every other
step is one of the gateway or leaves it alone, so that all its invariants hold in
every process; what earlier processes charged is at most their number times one
process' ceiling (`HistoryInv`).

**Pool.** A run of selections began at some counter value and served what the
values since then stand for (`FairRun`): every endpoint has as many of a
round's numbers as its weight, wherever the round begins. For the sort
`StaleBy(d)` says that the first of the inserted endpoints carries at most d
requests more than any of them, where d is the number of moves since; a
comparison with stale numbers can be wrong by no more than what moved between
its two loads.

**Body log.** After logging there is a slice as it was read of which the body is
what `limitBody` leaves (`LoggedFrom`).

**Configuration.** An accepted route's path is a slash and a text that neither
begins nor ends with one (`NormalPath`), so that the trim of the look-up undoes
that of the normalisation, and equal keys are equal paths.

**Requests.** `PipelineInv` says that what was sent is the outcome of the last
request, for *some* contents of the shared objects, under a configuration that
came from `written` through `Load` (`Serving`). Properties of what is sent are
then facts about `Outcome` for every heap, so it does not matter what earlier
requests left in the configured maps. Patches keep the body an object and leave
the lists under keys they do not name (`PatchesStay`: along `Walk` down, and
`Rebuilt` up again); the model is written last in JSON and first in a form, and
there stays unless a patch has its field (`FormKeepsModel`). System messages:
`ReorderMessages` is `Keep` of the one kind and of the other, and `Keep` of a
concatenation is that of its parts (`KeepConcat`). Paths: no suffix of a URL
made of a trimmed base and the path of one operation is the other's (`NoSuffix`),
since their last atoms differ. `PathAndModelGoAlike`: a listed model of a route
is trimmed already, so that audio requests, which trim theirs, find the same
route (`ListedTrimmed`).

**Streams of lines.** The client of the gateway is level with a client of the
upstream (`Level`), or ahead of it by the event that is still open there
(`Ahead`); an event is open only behind a data line with no blank line since
(`WaitingSince`).

**Messages.** Joined reasoning and content are `Block(r, rest)`. Its first
closing tag is the one behind r (`BlockTags`), so that `ExtractThink` gives back
r and the trimmed content (`JoinReadBack`), and joining these once more gives
the same text (`InjectedTwice`). Reasoning that came as tags in the content has
no closing tag of its own (`ThinkingIsPlain`); reasoning from a field may have
one, and the first attempt at the proof failed there: with `"r</think>r"` in a
field a client reads back half of it, and a second gateway moves text again.
`Separable` names the condition in both properties, and the run now has such a
field. Both also need `strip_reasoning_fields`: otherwise a second gateway
collects the fields again.

**Streams of choices.** The filter is a function of the text as a whole:
`ScanComposes` shows that scanning `a \o b` is scanning `a`, and then what was
held back of `a` with `b`, in the state `a` ended in. A tag lies in `a`, or begins
in what was held back (the longest end that begins a tag, `Holds`), or lies in `b`
(`FirstTagStays`, `FirstTagMoves`, `Passed`). `ChoiceInv` is the inductive
invariant of one choice: the state of its filter is that of all it was sent, its
two flags say whether reasoning and content were sent, and what it was shown is
`ShownOf` of both, as long as no reasoning came after content
(`ShownGrows`, one more delta). Choices do not touch each other's state
(`StreamsStep`), and a line is its choices one after the other (`LineStep`).

**Words.** What is kept of the atoms that are ink, or of one word, is the same
before and after a text is trimmed, collected, joined, split at its tags or
stripped of its fields (`KeepTrimmed`, `CollectedKept`, `JoinKept`, `ThinkCuts`,
`WordsStripped`). `TextKept` follows for one pass (`WordsKept`), and for the next
because its result is a message again; `StreamMatchesMessage` because the
reasoning a stream moved and that of the whole answer keep the same ink, which is
part of `ChoiceInv`, and content without tags goes through the filter unchanged.

Assumptions (each evaluated by TLC on the instances): finitely many goroutines;
no answer reports more than `MaxTokens`; each quota plus `MaxTokens` per
goroutine fits an int64; the marker values are distinct from real ones; the
pool has an endpoint, a known strategy and an even counter modulus; at most 20
endpoints are sorted; what is asked for has a candidate; configurations have
the fields of `Config`, lower case and the default base URL are texts, requests
are JSON or forms of which only the fields are looked at (`RequestsAssumption`);
texts are sequences of atoms; there is a reasoning field, none twice and none
called content (`normalizedReasoningFields` gives no other list); the lines of
an upstream have choices with such fields; usage is a number not below 0
(`ExtractTotalTokens` gives no other that counts).

Only model-checked, and why:

- `EveryRequestEnds`, `ExhaustedClientDrains`, `SignalEndsProcess`: liveness
  and ENABLED are out of the prover's reach.
- `PatchesAsConfigured`: compares trees of any depth, by RECURSIVE operators,
  which tlapm does not take, and what they compute is an induction over data.
- `PathAndModelAgree` (that the bodies are the same, beyond what
  `PathAndModelGoAlike` says): needs that reading what was written out changes
  nothing more, also in inner objects, of which `InnerPlain` and `InnerParsed`
  say nothing.
- `UnchangedIsUntouched`: needs the same of inner objects, since it compares what
  is read of the two bodies. It leaves out the changes that cancel out: two
  patches, a patch of the model or of the messages, and a patch that sets a
  number which a float64 cannot hold.

## Plan

What is left: the body half of `PathAndModelAgree` and `UnchangedIsUntouched`, with
an assumption on `InnerPlain` and `InnerParsed` (reading is idempotent) that TLC
can evaluate on the trees of an instance.

## Not modelled

- Redacting headers for the log, request ids, `int64ToString`: formatting.
  Setting the gateway's own response headers after copying the upstream's.
- The encoding of multipart bodies and their files; form fields are modelled.
- Reading YAML and the environment (viper), apart from what it does to the keys
  of `model_map`; the sections server, log, auth and transform, which have
  defaults but no rules. `random` numbers.
- Two requests that write the same configured map at the same moment: a data
  race on a Go map, which may end the process.
- The logger, `/healthz`, scripts, images and manifests.

## Running

    tlc -config chat_quota.cfg MCChatProxy          (chat_paths)
    tlc -config lifecycle.cfg MCLifecycle
    tlc -config pool_selection.cfg MCPoolSelection
    tlc -config requests.cfg MCRequests             (dotted_models)
    tlc -config body_log.cfg BodyLog                (body_passed)
    tlc -config answer_forms.cfg MCAnswers          (stream_trimmed,
                                     thinking_in_tags, answer_coding)
    tlapm ChatProxyProofs.tla                       (LifecycleProofs,
                    PoolSelectionProofs, BodyLogProofs, TextProofs,
                    RequestProofs, AnswersProofs, StreamProofs)
