---------------------------- MODULE GatewayConfig ----------------------------
(***************************************************************************)
(* internal/config: from the configuration as it is written, with keys     *)
(* left out, blanks and other spellings, to the one the gateway runs with, *)
(* or to a refusal to start; and the tables NewChatProxy makes of it.      *)
(* Texts are sequences of atoms, see Texts.  Unset is a key left out.  The *)
(* keys of objects in patch values are in lower case: viper puts them so.  *)
(***************************************************************************)
EXTENDS Texts, TLC

CONSTANTS
    RawConfigs,     \* configurations as they may be written
    Unset,          \* a key that is not there
    LowerCase,      \* function from words with capitals to words without
    DefaultBaseURL, DefaultTimeout

(* The fields of Config a file may give; nothing is said of the value of a *)
(* patch.                                                                  *)
RawEndpoints ==
    [name : Text, baseURL : Text, apiKey : Text, forward : {Unset} \cup BOOLEAN,
     timeout : Int, weight : Int, models : SUBSET Text]
IsRawPatch(p) == p \in [op : Text, path : Text, value : {p.value}]
IsRawRoute(r) ==
    /\ r \in [name : Text, path : Text, kind : Text, model : Text, upstreamModel : Text,
              upstreamPath : Text, endpoints : SUBSET Text, patches : Seq(Range(r.patches))]
    /\ \A p \in Range(r.patches) : IsRawPatch(p)
IsRawConfig(c) ==
    /\ c \in [strategy : {Unset} \cup Text, baseURL : {Unset} \cup Text,
              timeout : {Unset} \cup Int, apiKey : Text, forward : {Unset} \cup BOOLEAN,
              modelMap : {c.modelMap}, endpoints : Seq(RawEndpoints),
              routes : Seq(Range(c.routes))]
    /\ DOMAIN c.modelMap \subseteq Text
    /\ \A r \in Range(c.routes) : IsRawRoute(r)
ASSUME ConfigAssumption == \A c \in RawConfigs : IsRawConfig(c)
ASSUME WordsAssumption ==
    \A word \in DOMAIN LowerCase : word \in Atoms /\ LowerCase[word] \in Atoms
ASSUME DefaultsAssumption == DefaultBaseURL \in Text

VARIABLES
    cfg,        \* Config: as written, and after Load as the gateway uses it
    phase       \* "raw", "loaded", "serving" or "refused"

configVars == <<cfg, phase>>

Chat == <<"chat">>
Audio == <<"audio", "_", "transcription">>
DefaultPath(kind) ==
    IF kind = Audio THEN <<"/", "v1", "/", "audio", "/", "transcriptions">>
    ELSE <<"/", "v1", "/", "chat", "/", "completions">>
KnownStrategies == {<<"round_robin">>, <<"weighted_round_robin">>, <<"random">>,
                    <<"weighted_random">>, <<"least_inflight">>}

ToLower(s) ==
    [i \in DOMAIN s |-> IF s[i] \in DOMAIN LowerCase THEN LowerCase[s[i]] ELSE s[i]]
OrElse(text, default) == IF text = <<>> THEN default ELSE text
Given(value, default) == IF value = Unset THEN default ELSE value
-----------------------------------------------------------------------------
(* viper puts every key in lower case, and a dot in a key begins a map     *)
(* below it: an entry of model_map is no text then, and Unmarshal fails.   *)
Unmarshals(c) == \A model \in DOMAIN c.modelMap : "." \notin Range(model)
LowerKeys(f) ==
    [k \in {ToLower(key) : key \in DOMAIN f} |->
        f[CHOOSE key \in DOMAIN f : ToLower(key) = k]]

SetDefaults(c) ==
    [c EXCEPT !.modelMap = LowerKeys(@),
              !.strategy = Given(@, <<"weighted_round_robin">>),
              !.baseURL = Given(@, DefaultBaseURL),
              !.timeout = Given(@, DefaultTimeout),
              !.forward = Given(@, FALSE)]

DefaultEndpoint(c) ==
    [name |-> <<"default">>, baseURL |-> c.baseURL, timeout |-> c.timeout,
     apiKey |-> c.apiKey, forward |-> c.forward, weight |-> 1, models |-> {}]

NormalizeEndpoint(c, i) ==
    [c.endpoints[i] EXCEPT
        !.name = OrElse(TrimSpace(@), <<"upstream", "-", ToString(i)>>),
        !.timeout = IF @ = 0 THEN c.timeout ELSE @,
        !.weight = IF @ <= 0 THEN 1 ELSE @,
        !.forward = Given(@, c.forward)]

NormalizeEndpoints(c) ==
    IF c.endpoints = <<>> THEN <<DefaultEndpoint(c)>>
    ELSE [i \in DOMAIN c.endpoints |-> NormalizeEndpoint(c, i)]

(* Slip: a slash at the end is kept.                                       *)
NormalizeRoutePathKeepEnd(path) ==
    LET p == TrimSpace(path)
    IN  IF p = <<>> \/ Head(p) = "/" THEN p ELSE <<"/">> \o p
NormalizeRoutePath(path) ==
    LET p == Trim(TrimSpace(path), {"/"})
    IN  IF p = <<>> THEN <<>> ELSE <<"/">> \o p

NormalizeRouteKind(kind) ==
    LET lower == TrimSpace(ToLower(kind))
        k == [i \in DOMAIN lower |-> IF lower[i] \in {"-", "."} THEN "_" ELSE lower[i]]
    IN  CASE k \in {<<>>, <<"chat">>, <<"chat", "_", "completion">>,
                    <<"chat", "_", "completions">>, <<"completion">>, <<"completions">>} -> Chat
          [] k \in {Audio, <<"audio", "_", "transcriptions">>, <<"transcription">>,
                    <<"transcriptions">>, <<"asr">>, <<"audio", "_", "asr">>} -> Audio
          [] OTHER -> k

NormalizePatch(p) ==
    [p EXCEPT !.op = OrElse(TrimSpace(ToLower(@)), <<"set">>), !.path = TrimSpace(@)]

(* Slip: the upstream path is chosen by the kind as it is written.         *)
UpstreamPathEarly(r) ==
    LET path == OrElse(r.upstreamPath, DefaultPath(r.kind))
    IN  IF Head(path) = "/" THEN path ELSE <<"/">> \o path
UpstreamPath(r) ==
    LET path == OrElse(r.upstreamPath, DefaultPath(NormalizeRouteKind(r.kind)))
    IN  IF Head(path) = "/" THEN path ELSE <<"/">> \o path

NormalizeRoute(r) ==
    LET path == NormalizeRoutePath(r.path)
        name == OrElse(TrimSpace(r.name), SubSeq(path, 2, Len(path)))
    IN  [r EXCEPT !.path = path, !.kind = NormalizeRouteKind(@), !.name = name,
                  !.model = OrElse(@, name), !.upstreamPath = UpstreamPath(r),
                  !.patches = [j \in DOMAIN @ |-> NormalizePatch(@[j])]]

NormalizeUpstreamDefaults(c) ==
    [c EXCEPT !.strategy = OrElse(TrimSpace(ToLower(@)), <<"weighted_round_robin">>),
              !.endpoints = NormalizeEndpoints(c),
              !.routes = [i \in DOMAIN @ |-> NormalizeRoute(@[i])]]
-----------------------------------------------------------------------------
EndpointNames(c) == {c.endpoints[i].name : i \in DOMAIN c.endpoints}

(* Slip: one name that is known is enough.                                 *)
KnowsSome(c, names) ==
    names = {} \/ \E n \in names : TrimSpace(n) \in {<<>>} \cup EndpointNames(c)
KnowsAll(c, names) ==
    \A n \in names : TrimSpace(n) \in {<<>>} \cup EndpointNames(c)

ValidRoute(c, i) ==
    LET r == c.routes[i] IN
    /\ r.name # <<>> /\ r.path # <<>>
    /\ "/" \notin Range(Trim(r.path, {"/"}))
    /\ \A j \in 1..(i - 1) : c.routes[j].path # r.path
    /\ r.kind \in {Chat, Audio}
    /\ KnowsAll(c, r.endpoints)
    /\ \A p \in Range(r.patches) : p.path # <<>> /\ p.op \in {<<"set">>, <<"delete">>}

Valid(c) ==
    /\ \A e \in Range(c.endpoints) : TrimSpace(e.baseURL) # <<>>
    /\ \A i \in DOMAIN c.routes : ValidRoute(c, i)
    /\ c.strategy \in KnownStrategies

(* url.Parse fails on a blank in the host.                                 *)
Parses(url) == " " \notin Range(url)

(* Names and models are trimmed where they are used, and blank ones drop   *)
(* out.                                                                    *)
Named(texts) == {TrimSpace(t) : t \in texts} \ {<<>>}

AllowedEndpoints(c, names) ==
    {i \in DOMAIN c.endpoints : Named(names) = {} \/ c.endpoints[i].name \in Named(names)}

(* The candidates of selectEndpoint, see UpstreamPool.                     *)
Candidates(c, model, names) ==
    LET allowed == AllowedEndpoints(c, names)
        listed(i) == Named(c.endpoints[i].models)
        supporting == {i \in allowed : listed(i) = {} \/ model = <<>> \/ model \in listed(i)}
    IN  IF supporting # {} THEN supporting ELSE {i \in allowed : listed(i) = {}}

(* routesByPath and routesByModel: 0, or the last such route.              *)
LastRoute(found) == Max({0} \cup found)
RouteByPath(c, segment) ==
    LastRoute({i \in DOMAIN c.routes : Trim(c.routes[i].path, {"/"}) = segment})
RouteByModel(c, model) ==
    LastRoute({i \in DOMAIN c.routes : model # <<>> /\ c.routes[i].model = model})

(* modelIDs: what /v1/models lists.                                        *)
ModelIDs(c) ==
    Named(DOMAIN c.modelMap)
      \cup Named({c.routes[i].model : i \in DOMAIN c.routes})
      \cup UNION {Named(e.models) : e \in Range(c.endpoints)}
-----------------------------------------------------------------------------
ConfigInit == cfg \in RawConfigs /\ phase = "raw"

Load ==
    /\ phase = "raw"
    /\ cfg' = NormalizeUpstreamDefaults(SetDefaults(cfg))
    /\ phase' = IF Unmarshals(cfg) /\ Valid(cfg') THEN "loaded" ELSE "refused"

NewChatProxy ==
    /\ phase = "loaded"
    /\ phase' = IF \A e \in Range(cfg.endpoints) : Parses(e.baseURL)
                THEN "serving" ELSE "refused"
    /\ UNCHANGED cfg

ConfigNext == Load \/ NewChatProxy
ConfigSpec == ConfigInit /\ [][ConfigNext]_configVars
-----------------------------------------------------------------------------
Segment(r) == Trim(r.path, {"/"})

(* Every route of a configuration the gateway accepts is reached by its    *)
(* path: no other spelling of the same path takes its place in the table.  *)
RoutesReachable ==
    phase = "serving" =>
        \A i \in DOMAIN cfg.routes : RouteByPath(cfg, Segment(cfg.routes[i])) = i

(* The names validate lets a route give are names selectEndpoint finds,    *)
(* though each trims them by itself: no accepted route is left without an  *)
(* endpoint, and each name it gives adds one to its choice.                *)
NamedEndpointsFound ==
    phase = "serving" =>
        \A r \in Range(cfg.routes) :
            /\ AllowedEndpoints(cfg, r.endpoints) # {}
            /\ \A n \in Named(r.endpoints) :
                  \E i \in AllowedEndpoints(cfg, r.endpoints) : cfg.endpoints[i].name = n

(* The gateway refuses to start for a rule of validate or a URL that is    *)
(* none.  Violated: it also refuses model names with a dot in model_map,   *)
(* as in the example of docs/configuration.md.                             *)
RefusedForARule ==
    phase = "refused" =>
        ~Valid(cfg) \/ \E e \in Range(cfg.endpoints) : ~Parses(e.baseURL)
=============================================================================
