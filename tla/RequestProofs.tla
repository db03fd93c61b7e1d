---------------------------- MODULE RequestProofs ----------------------------
(***************************************************************************)
(* A configuration the gateway accepts can be served, however its texts    *)
(* are spelled and however many routes and endpoints it has.  What is      *)
(* needed of the texts is what Trim leaves: it is the whole text inside    *)
(* the first and the last atom that is kept, so a slash put in front of a  *)
(* trimmed path is all that a second Trim takes away.                      *)
(* And what every request sends under such a configuration, whatever its   *)
(* patches are: the model, the messages, the path.                         *)
(***************************************************************************)
EXTENDS RequestPipeline, TextProofs

(* A route's path is empty, or a slash and a text without slashes at its   *)
(* ends; the second Trim gives that text back.                             *)
NormalPath(path) ==
    path # <<>> =>
        \E p \in Text : /\ path = <<"/">> \o p /\ p # <<>>
                        /\ p[1] # "/" /\ p[Len(p)] # "/"

LEMMA PathsBecomeNormal ==
    ASSUME NEW raw \in Text
    PROVE  NormalPath(NormalizeRoutePath(raw))
<1>1. TrimSpace(raw) \in Text
  BY TrimKeeps DEF TrimSpace
<1> DEFINE p == Trim(TrimSpace(raw), {"/"})
<1>2. p \in Text /\ (p # <<>> => p[1] # "/" /\ p[Len(p)] # "/")
  <2> HIDE DEF p
  <2>1. p = Trim(TrimSpace(raw), {"/"})
    BY DEF p
  <2>2. p \in Text /\ (p # <<>> => p[1] \notin {"/"} /\ p[Len(p)] \notin {"/"})
    BY <1>1, <2>1, TrimKeeps
  <2> QED
    BY <2>2
<1> QED
  BY <1>2 DEF NormalPath, NormalizeRoutePath

LEMMA SlashTrimmed ==
    ASSUME NEW p \in Text, p # <<>>, p[1] # "/", p[Len(p)] # "/"
    PROVE  Trim(<<"/">> \o p, {"/"}) = p
<1> DEFINE s == <<"/">> \o p
           kept == {i \in DOMAIN s : s[i] \notin {"/"}}
<1>1. p \in Seq(Atoms) /\ Len(p) \in Nat /\ Len(p) >= 1
  BY EmptySeq DEF Text
<1>2. /\ s \in Seq(Atoms) /\ Len(s) = Len(p) + 1 /\ DOMAIN s = 1..Len(s)
      /\ s[1] = "/" /\ \A i \in 1..Len(p) : s[i + 1] = p[i]
  <2>1. <<"/">> \in Seq(Atoms) /\ Len(<<"/">>) = 1 /\ <<"/">>[1] = "/"
    <3>1. "/" \in Atoms
      BY DEF Atoms, Separators
    <3>2. \A x \in Atoms : <<x>> \in Seq(Atoms) /\ Len(<<x>>) = 1 /\ <<x>>[1] = x
      OBVIOUS
    <3> QED
      BY <3>1, <3>2
  <2>2. /\ s \in Seq(Atoms) /\ Len(s) = 1 + Len(p)
        /\ \A i \in 1..Len(s) : s[i] = IF i <= 1 THEN <<"/">>[i] ELSE p[i - 1]
    BY <1>1, <2>1, ConcatProperties
  <2> HIDE DEF s
  <2>3. s[1] = "/"
    BY <1>1, <2>1, <2>2
  <2>4. ASSUME NEW i \in 1..Len(p) PROVE s[i + 1] = p[i]
    <3>1. i + 1 \in 1..Len(s) /\ ~(i + 1 <= 1) /\ i + 1 - 1 = i
      BY <1>1, <2>2
    <3> QED
      BY <2>2, <3>1
  <2> QED
    BY <1>1, <2>2, <2>3, <2>4
<1> HIDE DEF s
<1>3. 2 \in kept /\ Len(s) \in kept
  <2>1. s[2] = p[1] /\ s[Len(s)] = p[Len(p)]
    <3>1. 1 \in 1..Len(p) /\ Len(p) \in 1..Len(p)
      BY <1>1
    <3>2. s[1 + 1] = p[1] /\ s[Len(p) + 1] = p[Len(p)]
      BY <3>1, <1>2
    <3> QED
      BY <3>2, <1>2
  <2> QED
    BY <2>1, <1>1, <1>2
<1>4. kept \in SUBSET Nat /\ \A k \in kept : 2 <= k /\ k <= Len(s)
  <2>1. ASSUME NEW k \in kept PROVE k \in Nat /\ 2 <= k /\ k <= Len(s)
    <3>1. k \in 1..Len(s) /\ s[k] # "/"
      BY <1>2
    <3> QED
      BY <3>1, <1>1, <1>2
  <2> QED
    BY <2>1
<1>5. Min(kept) \in kept /\ Max(kept) \in kept
      /\ Min(kept) <= 2 /\ Len(s) <= Max(kept)
  BY <1>1, <1>2, <1>3, <1>4, LeastPosition, GreatestPosition
<1>6. Min(kept) = 2 /\ Max(kept) = Len(s) /\ kept # {}
  <2>1. Min(kept) \in Nat /\ Max(kept) \in Nat /\ 2 <= Min(kept) /\ Max(kept) <= Len(s)
    BY <1>4, <1>5
  <2> HIDE DEF kept
  <2> QED
    BY <1>3, <1>5, <2>1, <1>1, <1>2
<1>7. Trim(s, {"/"}) = SubSeq(s, 2, Len(s))
  BY <1>6 DEF Trim
<1>8. SubSeq(s, 2, Len(s)) = p
  <2>1. /\ SubSeq(s, 2, Len(s)) \in Seq(Atoms)
        /\ Len(SubSeq(s, 2, Len(s))) = Len(s) - 2 + 1
        /\ \A i \in 1 .. (Len(s) - 2 + 1) : SubSeq(s, 2, Len(s))[i] = s[2 + i - 1]
    BY <1>1, <1>2, SubSeqProperties
  <2>2. Len(s) - 2 + 1 = Len(p)
    BY <1>1, <1>2
  <2>3. \A i \in 1..Len(p) : 2 + i - 1 = i + 1
    BY <1>1
  <2>4. \A i \in 1..Len(p) : SubSeq(s, 2, Len(s))[i] = p[i]
    BY <2>1, <2>2, <2>3, <1>2
  <2> QED
    BY <2>1, <2>2, <2>4, <1>1, SeqEqual
<1> QED
  BY <1>7, <1>8 DEF s
-----------------------------------------------------------------------------
(* What Load leaves of an accepted configuration.                          *)
Accepted(c) ==
    /\ Valid(c)
    /\ DOMAIN c.endpoints # {}
    /\ \E n \in Nat : DOMAIN c.routes = 1..n
    /\ \A i \in DOMAIN c.routes : NormalPath(c.routes[i].path)

ConfigInv ==
    /\ phase = "raw" => cfg \in RawConfigs
    /\ phase \in {"loaded", "serving"} => Accepted(cfg)

LEMMA RawShape ==
    ASSUME NEW c \in RawConfigs
    PROVE  /\ {"strategy", "baseURL", "timeout", "apiKey", "forward", "modelMap",
               "endpoints", "routes"} = DOMAIN c
           /\ c.endpoints \in Seq(RawEndpoints)
           /\ c.routes \in Seq(Range(c.routes))
           /\ \A i \in DOMAIN c.routes : IsRawRoute(c.routes[i])
<1>1. IsRawConfig(c)
  BY ConfigAssumption
<1>2. \A i \in DOMAIN c.routes : IsRawRoute(c.routes[i])
  BY <1>1 DEF IsRawConfig, Range
<1>3. c.endpoints \in Seq(RawEndpoints) /\ c.routes \in Seq(Range(c.routes))
  BY <1>1 DEF IsRawConfig
<1>4. {"strategy", "baseURL", "timeout", "apiKey", "forward", "modelMap",
       "endpoints", "routes"} = DOMAIN c
  BY <1>1 DEF IsRawConfig
<1> QED
  BY <1>2, <1>3, <1>4

LEMMA RawRouteShape ==
    ASSUME NEW r, IsRawRoute(r)
    PROVE  /\ {"name", "path", "kind", "model", "upstreamModel", "upstreamPath",
               "endpoints", "patches"} = DOMAIN r
           /\ r.name \in Text /\ r.path \in Text /\ r.model \in Text /\ r.kind \in Text
           /\ r.patches \in Seq(Range(r.patches))
           /\ \A p \in Range(r.patches) :
                 /\ DOMAIN p = {"op", "path", "value"}
                 /\ p.op \in Text /\ p.path \in Text
<1>1. \A p \in Range(r.patches) : IsRawPatch(p)
  BY DEF IsRawRoute
<1>2. \A p \in Range(r.patches) :
        DOMAIN p = {"op", "path", "value"} /\ p.op \in Text /\ p.path \in Text
  BY <1>1 DEF IsRawPatch
<1>3. {"name", "path", "kind", "model", "upstreamModel", "upstreamPath",
       "endpoints", "patches"} = DOMAIN r
  BY DEF IsRawRoute
<1>4. r.name \in Text /\ r.path \in Text /\ r.model \in Text /\ r.kind \in Text
  BY DEF IsRawRoute
<1>5. r.patches \in Seq(Range(r.patches))
  BY DEF IsRawRoute
<1> QED
  BY <1>2, <1>3, <1>4, <1>5

LEMMA LoadedShape ==
    ASSUME NEW c \in RawConfigs, NEW d, d = NormalizeUpstreamDefaults(SetDefaults(c))
    PROVE  /\ DOMAIN d.endpoints # {}
           /\ \E n \in Nat : DOMAIN d.routes = 1..n
           /\ \A i \in DOMAIN d.routes : NormalPath(d.routes[i].path)
<1> DEFINE s == SetDefaults(c)
<1>1. /\ DOMAIN s = DOMAIN c /\ s.endpoints = c.endpoints /\ s.routes = c.routes
  BY RawShape DEF SetDefaults
<1> HIDE DEF s
<1>2. /\ d.endpoints = NormalizeEndpoints(s)
      /\ d.routes = [i \in DOMAIN s.routes |-> NormalizeRoute(s.routes[i])]
  BY <1>1, RawShape DEF NormalizeUpstreamDefaults, s
<1>3. DOMAIN d.endpoints # {}
  <2>1. CASE s.endpoints = <<>>
    <3>1. d.endpoints = <<DefaultEndpoint(s)>>
      BY <2>1, <1>2 DEF NormalizeEndpoints
    <3>2. \A x : DOMAIN <<x>> = 1..1
      OBVIOUS
    <3> QED
      BY <3>1, <3>2
  <2>2. CASE s.endpoints # <<>>
    <3>1. d.endpoints = [i \in DOMAIN s.endpoints |-> NormalizeEndpoint(s, i)]
      BY <2>2, <1>2 DEF NormalizeEndpoints
    <3>2. s.endpoints \in Seq(RawEndpoints)
      BY <1>1, RawShape
    <3>3. DOMAIN s.endpoints # {}
      <4>1. DOMAIN s.endpoints = 1..Len(s.endpoints) /\ Len(s.endpoints) \in Nat
        BY <3>2
      <4>2. Len(s.endpoints) # 0
        BY <2>2, <3>2, EmptySeq
      <4>3. 1 \in DOMAIN s.endpoints
        BY <4>1, <4>2
      <4> QED
        BY <4>3
    <3> QED
      BY <3>1, <3>3
  <2> QED
    BY <2>1, <2>2
<1>4. \E n \in Nat : DOMAIN d.routes = 1..n
  BY <1>1, <1>2, RawShape
<1>5. ASSUME NEW i \in DOMAIN d.routes PROVE NormalPath(d.routes[i].path)
  <2>1. d.routes[i] = NormalizeRoute(c.routes[i]) /\ IsRawRoute(c.routes[i])
    BY <1>1, <1>2, RawShape
  <2>2. d.routes[i].path = NormalizeRoutePath(c.routes[i].path)
    BY <2>1, RawRouteShape DEF NormalizeRoute
  <2> QED
    BY <2>1, <2>2, RawRouteShape, PathsBecomeNormal
<1> QED
  BY <1>3, <1>4, <1>5

LEMMA ConfigStep == ConfigInv /\ [ConfigNext]_configVars => ConfigInv'
<1> SUFFICES ASSUME ConfigInv, [ConfigNext]_configVars PROVE ConfigInv'
  OBVIOUS
<1>1. CASE Load
  <2>1. cfg \in RawConfigs /\ cfg' = NormalizeUpstreamDefaults(SetDefaults(cfg))
    BY <1>1 DEF ConfigInv, Load
  <2>2. (phase' = "loaded" /\ Valid(cfg')) \/ phase' = "refused"
    BY <1>1 DEF Load
  <2>3. Valid(cfg') => Accepted(cfg')
    BY <2>1, LoadedShape DEF Accepted
  <2>4. Valid(cfg)' <=> Valid(cfg')
    BY DEF Valid, ValidRoute, KnowsAll, EndpointNames
  <2> QED
    BY <2>2, <2>3 DEF ConfigInv
<1>2. CASE NewChatProxy
  BY <1>2 DEF ConfigInv, NewChatProxy
<1>3. CASE UNCHANGED configVars
  BY <1>3 DEF ConfigInv, configVars
<1> QED
  BY <1>1, <1>2, <1>3 DEF ConfigNext

LEMMA ConfigHolds == ConfigSpec => []ConfigInv
<1>1. ConfigInit => ConfigInv
  BY DEF ConfigInit, ConfigInv
<1> QED
  BY <1>1, ConfigStep, PTL DEF ConfigSpec
-----------------------------------------------------------------------------
(* No two routes the gateway accepts have a segment in common.             *)
LEMMA SegmentsDiffer ==
    ASSUME NEW c, Accepted(c), NEW i \in DOMAIN c.routes, NEW j \in DOMAIN c.routes,
           Trim(c.routes[i].path, {"/"}) = Trim(c.routes[j].path, {"/"})
    PROVE  i = j
<1>1. \A k \in DOMAIN c.routes : ValidRoute(c, k) /\ NormalPath(c.routes[k].path)
  BY DEF Accepted, Valid
<1>2. \A k \in DOMAIN c.routes : c.routes[k].path = <<"/">> \o Trim(c.routes[k].path, {"/"})
  <2>1. SUFFICES ASSUME NEW k \in DOMAIN c.routes
                 PROVE  c.routes[k].path = <<"/">> \o Trim(c.routes[k].path, {"/"})
    OBVIOUS
  <2>2. c.routes[k].path # <<>>
    BY <1>1 DEF ValidRoute
  <2>3. PICK p \in Text : /\ c.routes[k].path = <<"/">> \o p /\ p # <<>>
                          /\ p[1] # "/" /\ p[Len(p)] # "/"
    BY <1>1, <2>2 DEF NormalPath
  <2> QED
    BY <2>3, SlashTrimmed
<1>3. c.routes[i].path = c.routes[j].path
  BY <1>2
<1>4. i \in Nat /\ j \in Nat /\ i >= 1 /\ j >= 1
  BY DEF Accepted
<1>5. \A k \in DOMAIN c.routes : \A l \in 1..(k - 1) : c.routes[l].path # c.routes[k].path
  BY <1>1 DEF ValidRoute
<1>6. ~(i < j) /\ ~(j < i)
  BY <1>3, <1>4, <1>5
<1> QED
  BY <1>4, <1>6

LEMMA AcceptedReachable ==
    ASSUME NEW c, Accepted(c), NEW i \in DOMAIN c.routes
    PROVE  RouteByPath(c, Trim(c.routes[i].path, {"/"})) = i
<1> DEFINE found == {j \in DOMAIN c.routes :
                        Trim(c.routes[j].path, {"/"}) = Trim(c.routes[i].path, {"/"})}
<1>1. found = {i}
  BY SegmentsDiffer
<1>2. i \in Nat
  BY DEF Accepted
<1>3. Max({0} \cup found) = i
  <2>1. {0} \cup found = {0, i}
    BY <1>1
  <2>2. Max({0, i}) \in {0, i} /\ \A k \in {0, i} : k <= Max({0, i})
    BY <1>2, GreatestPosition
  <2> QED
    BY <1>2, <2>1, <2>2
<1> QED
  BY <1>3 DEF RouteByPath, LastRoute

(* Every route of an accepted configuration is found by its path, for any  *)
(* number of routes and any spelling of their paths: validate's comparison *)
(* with the earlier routes and the cutting of slashes in NewChatProxy see  *)
(* the same paths as one.                                                  *)
THEOREM EveryRouteReached == ConfigSpec => []RoutesReachable
<1>1. ConfigInv => RoutesReachable
  BY AcceptedReachable DEF ConfigInv, RoutesReachable, Segment
<1> QED
  BY <1>1, ConfigHolds, PTL

LEMMA AcceptedNames ==
    ASSUME NEW c, Accepted(c), NEW i \in DOMAIN c.routes
    PROVE  /\ AllowedEndpoints(c, c.routes[i].endpoints) # {}
           /\ \A n \in Named(c.routes[i].endpoints) :
                  \E e \in AllowedEndpoints(c, c.routes[i].endpoints) :
                      c.endpoints[e].name = n
<1> DEFINE names == c.routes[i].endpoints
<1>1. KnowsAll(c, names)
  BY DEF Accepted, Valid, ValidRoute
<1>2. ASSUME NEW n \in Named(names)
      PROVE  \E e \in AllowedEndpoints(c, names) : c.endpoints[e].name = n
  <2>1. n \in EndpointNames(c)
    BY <1>1 DEF KnowsAll, Named
  <2>2. PICK e \in DOMAIN c.endpoints : c.endpoints[e].name = n
    BY <2>1 DEF EndpointNames
  <2> QED
    BY <2>2 DEF AllowedEndpoints
<1>3. AllowedEndpoints(c, names) # {}
  <2>1. CASE Named(names) = {}
    BY <2>1 DEF AllowedEndpoints, Accepted
  <2>2. CASE Named(names) # {}
    BY <2>2, <1>2
  <2> QED
    BY <2>1, <2>2
<1> QED
  BY <1>2, <1>3

(* The endpoints a route names are found under these names when a request  *)
(* comes, and no accepted route is without an endpoint: each name that     *)
(* KnowsAll lets pass after its own trimming is one AllowedEndpoints finds *)
(* after its trimming, among names NormalizeEndpoint has trimmed.          *)
THEOREM NamesFound == ConfigSpec => []NamedEndpointsFound
<1>1. ConfigInv => NamedEndpointsFound
  BY AcceptedNames DEF ConfigInv, NamedEndpointsFound, Range
<1> QED
  BY <1>1, ConfigHolds, PTL
-----------------------------------------------------------------------------
(* What patches leave of a body.  Only the outermost object matters here:  *)
(* it stays an object, and a field that no patch begins with stays.        *)
KeepsField(n, m, key) ==
    key \in DOMAIN n.fields => key \in DOMAIN m.fields /\ m.fields[key] = n.fields[key]

WalkBy(heap, n, path, m, f) ==
    f = [k \in 1..m |-> IF k = 1 THEN n ELSE NextObject(Fields(heap, f[k - 1]), path[k - 1])]

LEMMA WalkExists ==
    ASSUME NEW heap, NEW n, NEW path
    PROVE  \A m \in Nat : \E f : WalkBy(heap, n, path, m, f)
<1> DEFINE P == {m \in Nat : \E f : WalkBy(heap, n, path, m, f)}
           Step(before, key) == NextObject(Fields(heap, before), key)
<1> HIDE DEF Step
<1>1. 0 \in P
  <2>1. 1..0 = {}
    OBVIOUS
  <2>2. WalkBy(heap, n, path, 0, [k \in 1..0 |-> n])
    BY <2>1 DEF WalkBy
  <2> QED
    BY <2>2
<1>2. ASSUME NEW m \in Nat, m \in P PROVE m + 1 \in P
  <2>1. PICK g : WalkBy(heap, n, path, m, g)
    BY <1>2
  <2>2. g = [k \in 1..m |-> IF k = 1 THEN n ELSE Step(g[k - 1], path[k - 1])]
    BY <2>1 DEF WalkBy, Step
  <2> DEFINE f == [k \in 1..(m + 1) |->
                     IF k <= m THEN g[k]
                     ELSE IF k = 1 THEN n ELSE Step(g[k - 1], path[k - 1])]
  <2>3. ASSUME NEW k \in 1..(m + 1)
        PROVE  f[k] = IF k = 1 THEN n ELSE Step(f[k - 1], path[k - 1])
    <3>1. k # 1 => k - 1 \in 1..(m + 1) /\ k - 1 <= m
      OBVIOUS
    <3>2. k # 1 => f[k - 1] = g[k - 1]
      BY <3>1
    <3>3. CASE k <= m
      <4>1. k \in 1..m /\ f[k] = g[k]
        BY <3>3
      <4> HIDE DEF f
      <4> QED
        BY <3>2, <4>1, <2>2
    <3>4. CASE ~(k <= m)
      <4>1. f[k] = IF k = 1 THEN n ELSE Step(g[k - 1], path[k - 1])
        BY <3>4
      <4> HIDE DEF f
      <4> QED
        BY <3>2, <4>1
    <3> QED
      BY <3>3, <3>4
  <2>4. f = [k \in 1..(m + 1) |-> f[k]]
    OBVIOUS
  <2> HIDE DEF f
  <2>5. f = [k \in 1..(m + 1) |-> IF k = 1 THEN n ELSE Step(f[k - 1], path[k - 1])]
    BY <2>3, <2>4
  <2>6. WalkBy(heap, n, path, m + 1, f)
    BY <2>5 DEF WalkBy, Step
  <2> QED
    BY <2>6
<1> HIDE DEF P
<1>3. Nat \subseteq P
  BY <1>1, <1>2, EveryNumber
<1> QED
  BY <1>3 DEF P

LEMMA WalkStart ==
    ASSUME NEW heap, NEW n, NEW path, Len(path) \in Nat, Len(path) >= 1
    PROVE  Walk(heap, n, path)[1] = n
<1> DEFINE f == CHOOSE at : at = [k \in 1..Len(path) |->
                    IF k = 1 THEN n ELSE NextObject(Fields(heap, at[k - 1]), path[k - 1])]
<1>1. \E at : WalkBy(heap, n, path, Len(path), at)
  BY WalkExists
<1>2. WalkBy(heap, n, path, Len(path), f)
  BY <1>1 DEF WalkBy
<1>3. Walk(heap, n, path) = f
  BY DEF Walk
<1> HIDE DEF f
<1>4. f[1] = n
  <2>1. 1 \in 1..Len(path)
    OBVIOUS
  <2> QED
    BY <2>1, <1>2 DEF WalkBy
<1> QED
  BY <1>3, <1>4

(* The objects are put together from the last one on.                      *)
UpBy(heap, at, path, changed, m, f) ==
    f = [k \in m..Len(path) |->
            IF k = Len(path) THEN changed
            ELSE Below(at[k], Fields(heap, at[k]), path[k], f[k + 1])]

LEMMA UpExists ==
    ASSUME NEW heap, NEW at, NEW path, NEW changed, Len(path) \in Nat
    PROVE  \A d \in Nat : \E f : UpBy(heap, at, path, changed, Len(path) - d, f)
<1> DEFINE P == {d \in Nat : \E f : UpBy(heap, at, path, changed, Len(path) - d, f)}
           Step(k, under) == Below(at[k], Fields(heap, at[k]), path[k], under)
<1> HIDE DEF Step
<1>1. 0 \in P
  <2>1. \A k \in (Len(path) - 0)..Len(path) : k = Len(path)
    OBVIOUS
  <2>2. UpBy(heap, at, path, changed, Len(path) - 0,
             [k \in (Len(path) - 0)..Len(path) |-> changed])
    BY <2>1 DEF UpBy
  <2> QED
    BY <2>2
<1>2. ASSUME NEW d \in Nat, d \in P PROVE d + 1 \in P
  <2>1. PICK m : m = Len(path) - d
    OBVIOUS
  <2>2. PICK l : l = Len(path) - (d + 1)
    OBVIOUS
  <2>3. m \in Int /\ l \in Int /\ l = m - 1 /\ m <= Len(path)
    BY <2>1, <2>2
  <2>4. PICK g : UpBy(heap, at, path, changed, m, g)
    BY <1>2, <2>1
  <2>5. g = [k \in m..Len(path) |-> IF k = Len(path) THEN changed ELSE Step(k, g[k + 1])]
    BY <2>4 DEF UpBy, Step
  <2> DEFINE f == [k \in l..Len(path) |-> IF k = l THEN Step(k, g[k + 1]) ELSE g[k]]
  <2>6. ASSUME NEW k \in l..Len(path)
        PROVE  f[k] = IF k = Len(path) THEN changed ELSE Step(k, f[k + 1])
    <3>1. k # Len(path) => k + 1 \in l..Len(path) /\ k + 1 # l
      BY <2>3
    <3>2. k # Len(path) => f[k + 1] = g[k + 1]
      BY <3>1
    <3>3. CASE k = l
      <4>1. k # Len(path) /\ f[k] = Step(k, g[k + 1])
        BY <2>3, <3>3
      <4> HIDE DEF f
      <4> QED
        BY <3>2, <4>1
    <3>4. CASE k # l
      <4>1. k \in m..Len(path) /\ f[k] = g[k]
        BY <2>3, <3>4
      <4> HIDE DEF f
      <4> QED
        BY <3>2, <4>1, <2>5
    <3> QED
      BY <3>3, <3>4
  <2>7. f = [k \in l..Len(path) |-> f[k]]
    OBVIOUS
  <2> HIDE DEF f
  <2>8. f = [k \in l..Len(path) |-> IF k = Len(path) THEN changed ELSE Step(k, f[k + 1])]
    BY <2>6, <2>7
  <2>9. UpBy(heap, at, path, changed, l, f)
    BY <2>8 DEF UpBy, Step
  <2> QED
    BY <2>2, <2>9
<1> HIDE DEF P
<1>3. Nat \subseteq P
  BY <1>1, <1>2, EveryNumber
<1> QED
  BY <1>3 DEF P

LEMMA RebuiltIs ==
    ASSUME NEW heap, NEW at, NEW path, NEW changed, Len(path) \in Nat, Len(path) >= 1
    PROVE  IF Len(path) = 1 THEN Rebuilt(heap, at, path, changed) = changed
           ELSE \E under : Rebuilt(heap, at, path, changed)
                             = Below(at[1], Fields(heap, at[1]), path[1], under)
<1> DEFINE f == CHOOSE up : up = [k \in 1..Len(path) |->
                    IF k = Len(path) THEN changed
                    ELSE Below(at[k], Fields(heap, at[k]), path[k], up[k + 1])]
<1>1. \E up : UpBy(heap, at, path, changed, 1, up)
  <2>1. PICK d \in Nat : Len(path) - d = 1
    <3>1. Len(path) - 1 \in Nat /\ Len(path) - (Len(path) - 1) = 1
      OBVIOUS
    <3> QED
      BY <3>1
  <2>2. \E up : UpBy(heap, at, path, changed, Len(path) - d, up)
    BY UpExists
  <2> QED
    BY <2>1, <2>2
<1>2. UpBy(heap, at, path, changed, 1, f)
  BY <1>1 DEF UpBy
<1>3. Rebuilt(heap, at, path, changed) = f[1]
  BY DEF Rebuilt
<1> HIDE DEF f
<1>4. f[1] = IF 1 = Len(path) THEN changed
             ELSE Below(at[1], Fields(heap, at[1]), path[1], f[1 + 1])
  <2>1. 1 \in 1..Len(path)
    OBVIOUS
  <2> QED
    BY <2>1, <1>2 DEF UpBy
<1> QED
  BY <1>3, <1>4

(* One patch.                                                              *)
Stays(n, r, path) ==
    /\ r.node.kind = "object"
    /\ \A key : key # path[1] => KeepsField(n, r.node, key)

LEMMA ObjFields == \A f : Obj(f).kind = "object" /\ Obj(f).fields = f
BY DEF Obj

LEMMA ChangedObject ==
    ASSUME NEW heap, NEW n, n.kind = "object", NEW f
    PROVE  Changed(heap, n, f).node.kind = "object" /\ Changed(heap, n, f).node.fields = f
<1>1. Changed(heap, n, f) = [node |-> Obj(f), heap |-> heap]
  BY DEF Changed
<1> QED
  BY <1>1, ObjFields

LEMMA RebuiltStays ==
    ASSUME NEW heap, NEW n, n.kind = "object", NEW path, Len(path) \in Nat, Len(path) >= 1,
           NEW at, at[1] = n, NEW f,
           Len(path) = 1 => \A key : key # path[1] /\ key \in DOMAIN n.fields =>
                                       key \in DOMAIN f /\ f[key] = n.fields[key],
           NEW r, r = Rebuilt(heap, at, path, Changed(heap, at[Len(path)], f))
    PROVE  Stays(n, r, path)
<1>1. CASE Len(path) = 1
  <2>1. r = Changed(heap, n, f)
    BY <1>1, RebuiltIs, SMTT(40)
  <2>2. r.node.kind = "object" /\ r.node.fields = f
    BY <2>1, ChangedObject
  <2> QED
    BY <1>1, <2>2 DEF Stays, KeepsField
<1>2. CASE Len(path) # 1
  <2>1. PICK under : r = Below(n, Fields(heap, n), path[1], under)
    BY <1>2, RebuiltIs
  <2>2. Fields(heap, n) = n.fields
    BY DEF Fields
  <2>3. r = Changed(under.heap, n, With(n.fields, path[1], under.node))
    BY <2>1, <2>2 DEF Below
  <2>4. r.node.kind = "object" /\ r.node.fields = With(n.fields, path[1], under.node)
    BY <2>3, ChangedObject
  <2> QED
    BY <2>4 DEF Stays, KeepsField, With
<1> QED
  BY <1>1, <1>2

LEMMA SetStays ==
    ASSUME NEW heap, NEW n, n.kind = "object", NEW path, Len(path) \in Nat, Len(path) >= 1,
           NEW v
    PROVE  Stays(n, SetPatchValue(heap, n, path, v), path)
<1> DEFINE r == SetPatchValue(heap, n, path, v)
<1>1. PICK at : at = Walk(heap, n, path)
  OBVIOUS
<1>2. at[1] = n
  BY <1>1, WalkStart
<1>3. PICK f : f = With(Fields(heap, at[Len(path)]), path[Len(path)], v)
  OBVIOUS
<1>4. \/ r = [node |-> n, heap |-> heap]
      \/ r = Rebuilt(heap, at, path, Changed(heap, at[Len(path)], f))
  BY <1>1, <1>3 DEF SetPatchValue
<1> HIDE DEF r
<1>5. ASSUME r = [node |-> n, heap |-> heap] PROVE Stays(n, r, path)
  BY <1>5 DEF Stays, KeepsField
<1>6. ASSUME r = Rebuilt(heap, at, path, Changed(heap, at[Len(path)], f))
      PROVE  Stays(n, r, path)
  <2>1. ASSUME Len(path) = 1, NEW key, key # path[1], key \in DOMAIN n.fields
        PROVE  key \in DOMAIN f /\ f[key] = n.fields[key]
    <3>1. f = With(n.fields, path[1], v)
      BY <1>2, <1>3, <2>1 DEF Fields
    <3> QED
      BY <2>1, <3>1 DEF With
  <2> QED
    BY <1>2, <1>6, <2>1, RebuiltStays, ZenonT(40)
<1> QED
  BY <1>4, <1>5, <1>6 DEF r

LEMMA DeleteStays ==
    ASSUME NEW heap, NEW n, n.kind = "object", NEW path, Len(path) \in Nat, Len(path) >= 1
    PROVE  Stays(n, DeletePatchValue(heap, n, path), path)
<1> DEFINE r == DeletePatchValue(heap, n, path)
<1>1. PICK at : at = Walk(heap, n, path)
  OBVIOUS
<1>2. at[1] = n
  BY <1>1, WalkStart
<1>3. PICK f : f = Without(Fields(heap, at[Len(path)]), path[Len(path)])
  OBVIOUS
<1>4. \/ r = [node |-> n, heap |-> heap]
      \/ r = Rebuilt(heap, at, path, Changed(heap, at[Len(path)], f))
  BY <1>1, <1>3 DEF DeletePatchValue
<1> HIDE DEF r
<1>5. ASSUME r = [node |-> n, heap |-> heap] PROVE Stays(n, r, path)
  BY <1>5 DEF Stays, KeepsField
<1>6. ASSUME r = Rebuilt(heap, at, path, Changed(heap, at[Len(path)], f))
      PROVE  Stays(n, r, path)
  <2>1. ASSUME Len(path) = 1, NEW key, key # path[1], key \in DOMAIN n.fields
        PROVE  key \in DOMAIN f /\ f[key] = n.fields[key]
    <3>1. f = Without(n.fields, path[1])
      BY <1>2, <1>3, <2>1 DEF Fields
    <3> QED
      BY <2>1, <3>1 DEF Without
  <2> QED
    BY <1>2, <1>6, <2>1, RebuiltStays
<1> QED
  BY <1>4, <1>5, <1>6 DEF r

LEMMA KeysTyped ==
    ASSUME NEW raw \in Text
    PROVE  /\ SplitPatchPath(raw) \in Seq(Text)
           /\ SplitPatchPath(raw) # <<>> =>
                 Len(SplitPatchPath(raw)) \in Nat /\ Len(SplitPatchPath(raw)) >= 1
<1>1. PICK parts : parts = Split(Trim(TrimSpace(raw), {"."}), ".")
  OBVIOUS
<1>2. \A t \in Text : \A cut : Trim(t, cut) \in Text
  BY TrimKeeps
<1>3. \A t \in Text : TrimSpace(t) \in Text
  BY <1>2 DEF TrimSpace
<1>4. parts \in Seq(Text)
  BY <1>1, <1>2, <1>3, SplitTyped
<1>5. PICK keys : keys = [i \in DOMAIN parts |-> TrimSpace(parts[i])]
  OBVIOUS
<1>6. keys \in Seq(Text)
  <2>1. DOMAIN parts = 1..Len(parts) /\ Len(parts) \in Nat
    BY <1>4
  <2>2. \A i \in 1..Len(parts) : TrimSpace(parts[i]) \in Text
    BY <1>3, <1>4
  <2> QED
    BY <1>5, <2>1, <2>2
<1>7. PICK named : named = Range(keys) \ {<<>>}
  OBVIOUS
<1>8. SplitPatchPath(raw) = Keep(keys, named)
  BY <1>1, <1>5, <1>7 DEF SplitPatchPath
<1>9. Keep(keys, named) \in Seq(named \cap Text)
  BY <1>6, KeepTyped
<1>10. SplitPatchPath(raw) \in Seq(Text)
  BY <1>8, <1>9
<1> QED
  BY <1>10, EmptySeq
-----------------------------------------------------------------------------
(* All patches of a route.                                                 *)
SoundPatch(p) == p.op \in {<<"set">>, <<"delete">>} /\ p.path \in Text
SoundPatches(patches) ==
    /\ Len(patches) \in Nat /\ DOMAIN patches = 1..Len(patches)
    /\ \A j \in 1..Len(patches) : SoundPatch(patches[j])
NoPatchBegins(patches, key) ==
    \A j \in 1..Len(patches) : key \notin Range(SplitPatchPath(patches[j].path))

LEMMA PatchStays ==
    ASSUME NEW acc, acc.node.kind = "object", NEW p, SoundPatch(p)
    PROVE  /\ ApplyPatch(acc, p).node.kind = "object"
           /\ \A key : key \notin Range(SplitPatchPath(p.path)) =>
                          KeepsField(acc.node, ApplyPatch(acc, p).node, key)
<1>1. PICK path : path = SplitPatchPath(p.path)
  OBVIOUS
<1>2. PICK after : after = PatchAt(acc, path, p)
  OBVIOUS
<1>3. ApplyPatch(acc, p).node = after.node
  BY <1>1, <1>2 DEF ApplyPatch, Applied
<1>4. path \in Seq(Text) /\ (path # <<>> => Len(path) \in Nat /\ Len(path) >= 1)
  BY <1>1, KeysTyped DEF SoundPatch
<1>5. CASE path = <<>>
  <2>1. after = [node |-> acc.node, heap |-> acc.heap]
    BY <1>2, <1>5 DEF PatchAt
  <2> QED
    BY <1>3, <2>1 DEF KeepsField
<1>6. CASE path # <<>>
  <2>1. <<"set">> # <<"delete">>
    <3>1. <<"set">>[1] = "set" /\ <<"delete">>[1] = "delete"
      OBVIOUS
    <3> QED
      BY <3>1
  <2>2. Stays(acc.node, after, path)
    <3>1. CASE p.op = <<"set">>
      <4>1. after = SetPatchValue(acc.heap, acc.node, path, p.value)
        BY <1>2, <1>6, <2>1, <3>1 DEF PatchAt
      <4> QED
        BY <1>4, <1>6, <4>1, SetStays
    <3>2. CASE p.op = <<"delete">>
      <4>1. after = DeletePatchValue(acc.heap, acc.node, path)
        BY <1>2, <1>6, <2>1, <3>2 DEF PatchAt
      <4> QED
        BY <1>4, <1>6, <4>1, DeleteStays
    <3> QED
      BY <3>1, <3>2 DEF SoundPatch
  <2>3. path[1] \in Range(path)
    <3>1. 1 \in DOMAIN path
      BY <1>4, <1>6
    <3> QED
      BY <3>1 DEF Range
  <2> QED
    BY <1>1, <1>3, <2>2, <2>3 DEF Stays
<1> QED
  BY <1>5, <1>6

KeepsList(n, m, key) ==
    key \in DOMAIN n.fields /\ n.fields[key].kind = "list" =>
        key \in DOMAIN m.fields /\ m.fields[key] = n.fields[key]

LEMMA ParsedKeepsLists ==
    ASSUME NEW n, n.kind = "object"
    PROVE  /\ Parsed(n).kind = "object"
           /\ \A key \in DOMAIN n.fields : key \in DOMAIN Parsed(n).fields
           /\ \A key : KeepsList(n, Parsed(n), key)
<1>1. PICK f : f = [k \in DOMAIN n.fields |->
                      IF IsObject(n.fields[k]) THEN InnerParsed(n.fields[k])
                      ELSE ParsedLeaf(n.fields[k])]
  OBVIOUS
<1>2. Parsed(n) = Obj(f)
  BY <1>1 DEF Parsed, IsObject
<1>3. \A k \in DOMAIN n.fields : n.fields[k].kind = "list" => f[k] = n.fields[k]
  BY <1>1 DEF IsObject, ParsedLeaf
<1> QED
  BY <1>1, <1>2, <1>3, ObjFields DEF KeepsList

LEMMA PlainKeepsLists ==
    ASSUME NEW heap, NEW n, n.kind = "object"
    PROVE  /\ Plain(heap, n).kind = "object"
           /\ \A key : KeepsList(n, Plain(heap, n), key)
<1>1. PICK f : f = [k \in DOMAIN n.fields |->
                      IF IsObject(n.fields[k]) THEN InnerPlain(heap, n.fields[k])
                      ELSE n.fields[k]]
  OBVIOUS
<1>2. Plain(heap, n) = Obj(f)
  BY <1>1 DEF Plain, IsObject, Fields
<1>3. \A k \in DOMAIN n.fields : n.fields[k].kind = "list" => f[k] = n.fields[k]
  BY <1>1 DEF IsObject
<1> QED
  BY <1>1, <1>2, <1>3, ObjFields DEF KeepsList

PatchedBy(heap, body, patches, n, f) ==
    f = [j \in 0..n |-> IF j = 0 THEN [node |-> Parsed(body), heap |-> heap, changed |-> FALSE]
                        ELSE ApplyPatch(f[j - 1], patches[j])]

LEMMA PatchedExists ==
    ASSUME NEW heap, NEW body, NEW patches
    PROVE  \A n \in Nat : \E f : PatchedBy(heap, body, patches, n, f)
<1> DEFINE P == {n \in Nat : \E f : PatchedBy(heap, body, patches, n, f)}
<1>1. PICK start : start = [node |-> Parsed(body), heap |-> heap, changed |-> FALSE]
  OBVIOUS
<1>2. 0 \in P
  <2>1. PatchedBy(heap, body, patches, 0, [j \in 0..0 |-> start])
    BY <1>1 DEF PatchedBy
  <2> QED
    BY <2>1
<1>3. ASSUME NEW n \in Nat, n \in P PROVE n + 1 \in P
  <2>1. PICK g : PatchedBy(heap, body, patches, n, g)
    BY <1>3
  <2>2. g = [j \in 0..n |-> IF j = 0 THEN start ELSE ApplyPatch(g[j - 1], patches[j])]
    BY <1>1, <2>1 DEF PatchedBy
  <2> DEFINE f == [j \in 0..(n + 1) |->
                     IF j <= n THEN g[j] ELSE ApplyPatch(g[j - 1], patches[j])]
  <2>3. ASSUME NEW j \in 0..(n + 1)
        PROVE  f[j] = IF j = 0 THEN start ELSE ApplyPatch(f[j - 1], patches[j])
    <3>1. j # 0 => j - 1 \in 0..(n + 1) /\ j - 1 <= n
      OBVIOUS
    <3>2. j # 0 => f[j - 1] = g[j - 1]
      BY <3>1
    <3>3. CASE j <= n
      <4>1. j \in 0..n /\ f[j] = g[j]
        BY <3>3
      <4> HIDE DEF f
      <4> QED
        BY <3>2, <4>1, <2>2
    <3>4. CASE ~(j <= n)
      <4>1. f[j] = ApplyPatch(g[j - 1], patches[j]) /\ j # 0
        BY <3>4
      <4> HIDE DEF f
      <4> QED
        BY <3>2, <4>1
    <3> QED
      BY <3>3, <3>4
  <2>4. f = [j \in 0..(n + 1) |-> f[j]]
    OBVIOUS
  <2> HIDE DEF f
  <2>5. f = [j \in 0..(n + 1) |->
                IF j = 0 THEN start ELSE ApplyPatch(f[j - 1], patches[j])]
    BY <2>3, <2>4
  <2>6. PatchedBy(heap, body, patches, n + 1, f)
    BY <1>1, <2>5 DEF PatchedBy
  <2> QED
    BY <2>6
<1> HIDE DEF P
<1>4. Nat \subseteq P
  BY <1>2, <1>3, EveryNumber
<1> QED
  BY <1>4 DEF P

(* A body stays an object under any patches, and its messages stay what    *)
(* they are if no patch names them.                                        *)
LEMMA PatchesStay ==
    ASSUME NEW heap, NEW body, body.kind = "object", NEW patches, SoundPatches(patches),
           NEW n, n = ApplyRequestPatches(heap, body, patches).node
    PROVE  /\ n.kind = "object"
           /\ \A key : NoPatchBegins(patches, key) => KeepsList(body, n, key)
<1> DEFINE f == CHOOSE end : end = [j \in 0..Len(patches) |->
                  IF j = 0 THEN [node |-> Parsed(body), heap |-> heap, changed |-> FALSE]
                  ELSE ApplyPatch(end[j - 1], patches[j])]
<1>1. Len(patches) \in Nat
  BY DEF SoundPatches
<1>2. \E end : PatchedBy(heap, body, patches, Len(patches), end)
  BY <1>1, PatchedExists
<1>3. PatchedBy(heap, body, patches, Len(patches), f)
  BY <1>2 DEF PatchedBy
<1>4. ApplyRequestPatches(heap, body, patches) = Encoded(body, f[Len(patches)])
  BY DEF ApplyRequestPatches
<1> HIDE DEF f
<1> DEFINE Kept(j) ==
             /\ f[j].node.kind = "object"
             /\ \A key : NoPatchBegins(patches, key) => KeepsList(body, f[j].node, key)
           P == {j \in Nat : j <= Len(patches) => Kept(j)}
<1>5. 0 \in P
  <2>1. f[0] = [node |-> Parsed(body), heap |-> heap, changed |-> FALSE]
    BY <1>1, <1>3 DEF PatchedBy
  <2>2. f[0].node = Parsed(body)
    BY <2>1
  <2>3. Kept(0)
    BY <2>2, ParsedKeepsLists
  <2> HIDE DEF Kept
  <2> QED
    BY <2>3
<1>6. ASSUME NEW j \in Nat, j \in P PROVE j + 1 \in P
  <2> SUFFICES ASSUME j + 1 <= Len(patches) PROVE Kept(j + 1)
    OBVIOUS
  <2>1. PICK m : m = j + 1
    OBVIOUS
  <2>2. m \in 0..Len(patches) /\ m # 0 /\ m - 1 = j /\ m \in 1..Len(patches) /\ j <= Len(patches)
    BY <1>1, <2>1
  <2>3. Kept(j)
    BY <1>6, <2>2
  <2>4. f[m] = ApplyPatch(f[j], patches[m])
    BY <2>2, <1>3 DEF PatchedBy
  <2>5. SoundPatch(patches[m])
    BY <2>2 DEF SoundPatches
  <2>6. /\ f[m].node.kind = "object"
        /\ \A key : key \notin Range(SplitPatchPath(patches[m].path)) =>
                       KeepsField(f[j].node, f[m].node, key)
    BY <2>3, <2>4, <2>5, PatchStays, ZenonT(40)
  <2>7. ASSUME NEW key, NoPatchBegins(patches, key) PROVE KeepsList(body, f[m].node, key)
    <3>1. KeepsField(f[j].node, f[m].node, key)
      BY <2>2, <2>6, <2>7 DEF NoPatchBegins
    <3>2. KeepsList(body, f[j].node, key)
      BY <2>3, <2>7
    <3> QED
      BY <3>1, <3>2 DEF KeepsField, KeepsList
  <2> QED
    BY <2>1, <2>6, <2>7
<1> HIDE DEF P
<1>7. Nat \subseteq P
  BY <1>5, <1>6, EveryNumber
<1>8. Kept(Len(patches))
  BY <1>1, <1>7 DEF P
<1>9. PICK end : end = f[Len(patches)]
  OBVIOUS
<1>10. n = IF end.changed THEN Plain(end.heap, end.node) ELSE body
  BY <1>4, <1>9 DEF Encoded
<1>11. CASE end.changed
  <2>1. n = Plain(end.heap, end.node)
    BY <1>10, <1>11
  <2>2. n.kind = "object" /\ \A key : KeepsList(end.node, n, key)
    BY <1>8, <1>9, <2>1, PlainKeepsLists
  <2> QED
    BY <1>8, <1>9, <2>2 DEF KeepsList
<1>12. CASE ~end.changed
  BY <1>10, <1>12 DEF KeepsList
<1> QED
  BY <1>11, <1>12
-----------------------------------------------------------------------------
(* What the fields of an accepted configuration are.                       *)
Loaded(c) == NormalizeUpstreamDefaults(SetDefaults(c))

LEMMA RawFields ==
    ASSUME NEW c \in RawConfigs
    PROVE  /\ DOMAIN c.modelMap \subseteq Text
           /\ c.baseURL \in {Unset} \cup Text
           /\ \A r \in Range(c.routes) : r.model \in Text
BY ConfigAssumption DEF IsRawConfig, IsRawRoute

LEMMA LowerIsText == ASSUME NEW s \in Text PROVE ToLower(s) \in Text
<1>1. DOMAIN s = 1..Len(s) /\ Len(s) \in Nat /\ \A i \in 1..Len(s) : s[i] \in Atoms
  BY DEF Text
<1>2. ASSUME NEW i \in 1..Len(s)
      PROVE  (IF s[i] \in DOMAIN LowerCase THEN LowerCase[s[i]] ELSE s[i]) \in Atoms
  BY <1>1, WordsAssumption, SMTT(40)
<1>3. PICK n \in Nat : n = Len(s)
  BY <1>1
<1>4. ToLower(s) = [i \in 1..n |-> IF s[i] \in DOMAIN LowerCase THEN LowerCase[s[i]] ELSE s[i]]
  BY <1>1, <1>3 DEF ToLower
<1>5. ToLower(s) \in [1..n -> Atoms]
  BY <1>2, <1>3, <1>4
<1> QED
  BY <1>3, <1>5 DEF Text

LEMMA LoadedFields ==
    ASSUME NEW c \in RawConfigs, NEW d, d = Loaded(c)
    PROVE  /\ d.modelMap = LowerKeys(c.modelMap)
           /\ DOMAIN d.routes = DOMAIN c.routes
           /\ \A i \in DOMAIN c.routes : d.routes[i] = NormalizeRoute(c.routes[i])
           /\ \A i \in DOMAIN d.endpoints :
                 d.endpoints[i].baseURL \in Text /\ d.endpoints[i].models \subseteq Text
<1> DEFINE s == SetDefaults(c)
<1>1. /\ DOMAIN s = DOMAIN c /\ s.endpoints = c.endpoints /\ s.routes = c.routes
      /\ s.modelMap = LowerKeys(c.modelMap) /\ s.baseURL = Given(c.baseURL, DefaultBaseURL)
  BY RawShape DEF SetDefaults
<1> HIDE DEF s
<1>2. /\ d.endpoints = NormalizeEndpoints(s) /\ d.modelMap = s.modelMap
      /\ d.routes = [i \in DOMAIN s.routes |-> NormalizeRoute(s.routes[i])]
  BY <1>1, RawShape DEF NormalizeUpstreamDefaults, s, Loaded
<1>3. ASSUME NEW i \in DOMAIN d.endpoints
      PROVE  d.endpoints[i].baseURL \in Text /\ d.endpoints[i].models \subseteq Text
  <2>1. CASE s.endpoints = <<>>
    <3>1. d.endpoints = <<DefaultEndpoint(s)>>
      BY <2>1, <1>2 DEF NormalizeEndpoints
    <3>2. \A x : DOMAIN <<x>> = 1..1 /\ <<x>>[1] = x
      OBVIOUS
    <3>3. i = 1
      BY <3>1, <3>2
    <3>4. d.endpoints[i] = DefaultEndpoint(s)
      BY <3>1, <3>2, <3>3
    <3>5. d.endpoints[i].baseURL = s.baseURL /\ d.endpoints[i].models = {}
      BY <3>4 DEF DefaultEndpoint
    <3>6. s.baseURL \in Text
      BY <1>1, RawFields, DefaultsAssumption DEF Given
    <3> QED
      BY <3>5, <3>6
  <2>2. CASE s.endpoints # <<>>
    <3>1. d.endpoints = [j \in DOMAIN s.endpoints |-> NormalizeEndpoint(s, j)]
      BY <2>2, <1>2 DEF NormalizeEndpoints
    <3>2. c.endpoints[i] \in RawEndpoints
      <4>1. i \in DOMAIN c.endpoints /\ c.endpoints \in Seq(RawEndpoints)
        BY <3>1, <1>1, RawShape
      <4> QED
        BY <4>1
    <3>3. d.endpoints[i] = NormalizeEndpoint(s, i)
      BY <3>1
    <3>4. PICK e \in RawEndpoints : e = c.endpoints[i]
      BY <3>2
    <3>5. /\ d.endpoints[i].baseURL = e.baseURL
          /\ d.endpoints[i].models = e.models
      BY <3>3, <3>4, <1>1 DEF NormalizeEndpoint, RawEndpoints
    <3> QED
      BY <3>4, <3>5 DEF RawEndpoints
  <2> QED
    BY <2>1, <2>2
<1> QED
  BY <1>1, <1>2, <1>3

LEMMA LoadedRoute ==
    ASSUME NEW r, IsRawRoute(r), NEW d, d = NormalizeRoute(r), d.path # <<>>
    PROVE  /\ d.kind = NormalizeRouteKind(r.kind) /\ d.upstreamPath = UpstreamPath(r)
           /\ d.model \in Text /\ r.upstreamPath \in Text
           /\ DOMAIN d.patches = DOMAIN r.patches
           /\ \A j \in DOMAIN r.patches : d.patches[j] = NormalizePatch(r.patches[j])
           /\ \A j \in DOMAIN r.patches : /\ DOMAIN r.patches[j] = {"op", "path", "value"}
                                          /\ r.patches[j].path \in Text
<1>1. PICK path : path = NormalizeRoutePath(r.path)
  OBVIOUS
<1>2. PICK name : name = OrElse(TrimSpace(r.name), SubSeq(path, 2, Len(path)))
  OBVIOUS
<1>3. d = [r EXCEPT !.path = path, !.kind = NormalizeRouteKind(@), !.name = name,
                    !.model = OrElse(@, name), !.upstreamPath = UpstreamPath(r),
                    !.patches = [j \in DOMAIN @ |-> NormalizePatch(@[j])]]
  BY <1>1, <1>2 DEF NormalizeRoute
<1>4. {"name", "path", "kind", "model", "upstreamModel", "upstreamPath",
       "endpoints", "patches"} = DOMAIN r
  BY RawRouteShape
<1>5. /\ d.kind = NormalizeRouteKind(r.kind) /\ d.upstreamPath = UpstreamPath(r)
      /\ d.model = OrElse(r.model, name) /\ d.path = path
      /\ d.patches = [j \in DOMAIN r.patches |-> NormalizePatch(r.patches[j])]
  BY <1>3, <1>4
<1>6. path \in Text /\ path # <<>>
  <2>1. PICK p \in Text : path = <<"/">> \o p
    <3>1. r.path \in Text
      BY RawRouteShape
    <3>2. NormalPath(path)
      BY <1>1, <3>1, PathsBecomeNormal
    <3> QED
      BY <1>5, <3>2 DEF NormalPath
  <2>2. <<"/">> \in Seq(Atoms)
    <3>1. "/" \in Atoms
      BY DEF Atoms, Separators
    <3>2. \A x \in Atoms : <<x>> \in Seq(Atoms)
      OBVIOUS
    <3> QED
      BY <3>1, <3>2
  <2> QED
    BY <2>1, <2>2, <1>5, ConcatProperties DEF Text
<1>7. SubSeq(path, 2, Len(path)) \in Text
  <2>1. Len(path) \in Nat /\ Len(path) >= 1
    BY <1>6, EmptySeq DEF Text
  <2> QED
    BY <2>1, <1>6, PartOfText
<1>8. TrimSpace(r.name) \in Text
  BY RawRouteShape, TrimKeeps DEF TrimSpace
<1>9. d.model \in Text
  BY <1>2, <1>5, <1>7, <1>8, RawRouteShape DEF OrElse
<1>10. r.upstreamPath \in Text
  BY DEF IsRawRoute
<1>11. \A j \in DOMAIN r.patches : r.patches[j] \in Range(r.patches)
  BY DEF Range
<1> QED
  BY <1>5, <1>9, <1>10, <1>11, RawRouteShape

(* The route a request gets is one of the configured, and its patches are  *)
(* such as the handlers know.                                              *)
Serving(c, w) == w \in RawConfigs /\ c = Loaded(w) /\ Accepted(c)

LEMMA GottenRoute ==
    ASSUME Serving(cfg, written), NEW q, Routed(q)
    PROVE  /\ RouteOf(q) \in DOMAIN cfg.routes
           /\ Route(q) = NormalizeRoute(written.routes[RouteOf(q)])
           /\ IsRawRoute(written.routes[RouteOf(q)])
           /\ Route(q).path # <<>>
<1>1. PICK n \in Nat : DOMAIN cfg.routes = 1..n
  BY DEF Serving, Accepted
<1>2. ASSUME NEW found \in SUBSET (1..n), LastRoute(found) # 0
      PROVE  LastRoute(found) \in found
    <2>1. {0} \cup found \in SUBSET Nat /\ {0} \cup found # {} /\ \A k \in {0} \cup found : k <= n
      OBVIOUS
    <2>2. Max({0} \cup found) \in {0} \cup found
      BY <2>1, GreatestPosition
    <2> QED
      BY <1>2, <2>2 DEF LastRoute
<1>3. RouteOf(q) \in 1..n
  <2>1. \A s : RouteByPath(cfg, s) # 0 => RouteByPath(cfg, s) \in 1..n
    BY <1>1, <1>2 DEF RouteByPath
  <2>2. \A m : RouteByModel(cfg, m) # 0 => RouteByModel(cfg, m) \in 1..n
    BY <1>1, <1>2 DEF RouteByModel
  <2> QED
    BY <2>1, <2>2 DEF RouteOf, Routed
<1>4. Route(q) = NormalizeRoute(written.routes[RouteOf(q)])
      /\ RouteOf(q) \in DOMAIN written.routes
  BY <1>1, <1>3, LoadedFields DEF Route, Serving
<1>5. IsRawRoute(written.routes[RouteOf(q)])
  BY <1>4, RawShape DEF Serving
<1>6. ValidRoute(cfg, RouteOf(q))
  BY <1>1, <1>3 DEF Serving, Accepted, Valid
<1> QED
  BY <1>1, <1>3, <1>4, <1>5, <1>6 DEF ValidRoute, Route

LEMMA GottenPatches ==
    ASSUME Serving(cfg, written), NEW q
    PROVE  SoundPatches(PatchesOf(q))
<1>1. CASE ~Routed(q)
  <2>1. PatchesOf(q) = <<>>
    BY <1>1 DEF PatchesOf
  <2> QED
    BY <2>1 DEF SoundPatches
<1>2. CASE Routed(q)
  <2>1. PICK r : r = written.routes[RouteOf(q)]
    OBVIOUS
  <2>2. PICK d : d = Route(q)
    OBVIOUS
  <2>3. d = NormalizeRoute(r) /\ IsRawRoute(r) /\ d.path # <<>>
    BY <1>2, <2>1, <2>2, GottenRoute
  <2>4. /\ DOMAIN d.patches = DOMAIN r.patches
        /\ \A j \in DOMAIN r.patches : d.patches[j] = NormalizePatch(r.patches[j])
        /\ \A j \in DOMAIN r.patches : /\ DOMAIN r.patches[j] = {"op", "path", "value"}
                                       /\ r.patches[j].path \in Text
    BY <2>3, LoadedRoute
  <2>5. PICK n \in Nat : DOMAIN r.patches = 1..n
    BY <2>3, RawRouteShape
  <2>6. \A j \in 1..n : d.patches[j].op \in {<<"set">>, <<"delete">>}
    <3>1. ValidRoute(cfg, RouteOf(q))
      BY <1>2, GottenRoute DEF Serving, Accepted, Valid
    <3> QED
      BY <2>2, <2>4, <2>5, <3>1 DEF ValidRoute, Range, Route
  <2>7. \A j \in 1..n : DOMAIN d.patches[j] = {"op", "path", "value"} /\ d.patches[j].path \in Text
    <3>1. SUFFICES ASSUME NEW j \in 1..n
                   PROVE  DOMAIN d.patches[j] = {"op", "path", "value"} /\ d.patches[j].path \in Text
      OBVIOUS
    <3>2. PICK p : p = r.patches[j]
      OBVIOUS
    <3>3. DOMAIN p = {"op", "path", "value"} /\ p.path \in Text /\ d.patches[j] = NormalizePatch(p)
      BY <2>4, <2>5, <3>2
    <3>4. DOMAIN d.patches[j] = {"op", "path", "value"} /\ d.patches[j].path = TrimSpace(p.path)
      BY <3>3 DEF NormalizePatch
    <3> QED
      BY <3>3, <3>4, TrimKeeps DEF TrimSpace
  <2>8. PICK ps : ps = PatchesOf(q)
    OBVIOUS
  <2>9. ps = [j \in 1..n |-> [d.patches[j] EXCEPT
                !.value = IF IsObject(@) THEN Shared(Id(RouteOf(q), j)) ELSE @]]
    BY <1>2, <2>2, <2>4, <2>5, <2>8 DEF PatchesOf
  <2>10. DOMAIN ps = 1..n /\ Len(ps) = n
    <3>1. ps \in Seq({ps[j] : j \in 1..n})
      BY <2>9
    <3> QED
      BY <2>9, <3>1
  <2>11. \A j \in 1..n : ps[j].op = d.patches[j].op /\ ps[j].path = d.patches[j].path
    BY <2>7, <2>9
  <2> QED
    BY <2>6, <2>7, <2>8, <2>10, <2>11 DEF SoundPatches, SoundPatch
<1> QED
  BY <1>1, <1>2
-----------------------------------------------------------------------------
(* What the handlers have sent is the outcome of the last request, with    *)
(* the configured objects as some earlier patches left them, under a       *)
(* configuration that was accepted.                                        *)
PipelineInv ==
    /\ written \in RawConfigs
    /\ phase = "raw" => cfg = written
    /\ phase \in {"loaded", "serving"} => Serving(cfg, written)
    /\ WasSent => /\ phase = "serving" /\ request \in Requests
                  /\ \E heap : sent = Outcome(request, heap).sent

LEMMA NothingYet == NothingSent.status # 200
BY DEF NothingSent, Refusal

LEMMA PipelineInit == Init => PipelineInv
BY NothingYet DEF Init, ConfigInit, PipelineInv, WasSent

(* A request is answered as it was while the configuration is the same.    *)
LEMMA SameOutcome ==
    ASSUME cfg' = cfg, NEW q, request' = q, NEW heap
    PROVE  Outcome(request, heap)' = Outcome(q, heap)
<1>1. RequestModel(request)' = RequestModel(q)
  BY DEF RequestModel
<1>2. RouteOf(request)' = RouteOf(q)
  BY <1>1 DEF RouteOf
<1>3. Routed(request)' = Routed(q) /\ Route(request)' = Route(q)
  BY <1>2 DEF Routed, Route
<1>4. PatchesOf(request)' = PatchesOf(q)
  BY <1>2, <1>3 DEF PatchesOf
<1>5. LogicalModel(request)' = LogicalModel(q)
  BY <1>1, <1>3 DEF LogicalModel
<1>6. UpstreamModel(request)' = UpstreamModel(q)
  BY <1>3, <1>5 DEF UpstreamModel
<1>7. ModelForUpstream(request)' = ModelForUpstream(q)
  BY <1>1, <1>3, <1>6 DEF ModelForUpstream
<1>8. WritesToNil(request)' = WritesToNil(q)
  BY <1>4, <1>7 DEF WritesToNil
<1>9. Status(request)' = Status(q)
  BY <1>3, <1>4, <1>8 DEF Status
<1>10. Chosen(request)' = Chosen(q)
  BY <1>3, <1>5 DEF Chosen
<1>11. UpstreamPathOf(request)' = UpstreamPathOf(q)
  BY <1>3 DEF UpstreamPathOf
<1>12. Rewritten(request, heap)' = Rewritten(q, heap)
  BY <1>4, <1>7 DEF Rewritten, PatchAndRewrite
<1> QED
  BY <1>9, <1>10, <1>11, <1>12 DEF Outcome, Answered, Forwarded

LEMMA ServeStep == ASSUME PipelineInv, NEW q \in Requests, Serve(q) PROVE PipelineInv'
<1>1. phase = "serving" /\ cfg' = cfg /\ phase' = phase /\ written' = written
  BY DEF Serve, configVars
<1>2. request' = q /\ sent' = Outcome(q, values).sent
  BY DEF Serve
<1>3. PICK h : h = values
  OBVIOUS
<1>4. Outcome(request, h)' = Outcome(q, h)
  BY <1>1, <1>2, SameOutcome
<1>5. sent' = Outcome(request, h)'.sent
  BY <1>2, <1>3, <1>4
<1>6. (\E heap : sent = Outcome(request, heap).sent)'
  BY <1>5
<1>7. Serving(cfg, written)'
  BY <1>1 DEF PipelineInv, Serving
<1> QED
  BY <1>1, <1>2, <1>6, <1>7 DEF PipelineInv

LEMMA NotServingStep ==
    ASSUME PipelineInv, LoadConfig \/ StartProxy PROVE PipelineInv'
<1>1. written' = written /\ request' = request /\ sent' = sent
  BY DEF LoadConfig, StartProxy
<1>2. phase # "serving"
  BY DEF LoadConfig, StartProxy, Load, NewChatProxy
<1>3. ~WasSent
  BY <1>2 DEF PipelineInv
<1>4. ~WasSent'
  BY <1>1, <1>3 DEF WasSent
<1>5. CASE LoadConfig
  <2>1. cfg = written /\ cfg' = Loaded(cfg)
    BY <1>5 DEF PipelineInv, LoadConfig, Load, Loaded
  <2>2. (phase' = "loaded" /\ Valid(cfg')) \/ phase' = "refused"
    BY <1>5 DEF LoadConfig, Load
  <2>3. Valid(cfg') => Accepted(cfg')
    BY <2>1, LoadedShape DEF Accepted, PipelineInv, Loaded
  <2>4. Valid(cfg') => Serving(cfg', written')
    BY <1>1, <2>1, <2>3 DEF Serving, PipelineInv
  <2> QED
    BY <1>1, <1>4, <2>2, <2>4 DEF PipelineInv
<1>6. CASE StartProxy
  <2>1. cfg' = cfg /\ phase = "loaded" /\ phase' \in {"serving", "refused"}
    BY <1>6 DEF StartProxy, NewChatProxy
  <2> QED
    BY <1>1, <1>4, <2>1 DEF PipelineInv
<1> QED
  BY <1>5, <1>6

LEMMA PipelineStep == PipelineInv /\ [Next]_vars => PipelineInv'
<1> SUFFICES ASSUME PipelineInv, [Next]_vars PROVE PipelineInv'
  OBVIOUS
<1>1. CASE LoadConfig \/ StartProxy
  BY <1>1, NotServingStep
<1>2. CASE HandleChatCompletions
  BY <1>2, ServeStep DEF HandleChatCompletions
<1>3. CASE HandleAudioTranscriptions
  BY <1>3, ServeStep DEF HandleAudioTranscriptions
<1>4. CASE UNCHANGED vars
  <2>1. /\ cfg' = cfg /\ phase' = phase /\ written' = written
        /\ request' = request /\ sent' = sent
    BY <1>4 DEF vars, configVars
  <2>2. WasSent' => (\E heap : sent = Outcome(request, heap).sent)'
    <3> SUFFICES ASSUME WasSent' PROVE (\E heap : sent = Outcome(request, heap).sent)'
      OBVIOUS
    <3>1. WasSent
      BY <2>1 DEF WasSent
    <3>2. PICK h : sent = Outcome(request, h).sent
      BY <3>1 DEF PipelineInv
    <3>3. PICK q : q = request
      OBVIOUS
    <3>4. Outcome(request, h)' = Outcome(q, h)
      BY <2>1, <3>3, SameOutcome
    <3>5. sent' = Outcome(request, h)'.sent
      BY <2>1, <3>2, <3>3, <3>4
    <3> QED
      BY <3>5
  <2>3. WasSent' => phase' = "serving" /\ request' \in Requests
    BY <2>1 DEF PipelineInv, WasSent
  <2>4. phase' \in {"loaded", "serving"} => Serving(cfg, written)'
    BY <2>1 DEF PipelineInv, Serving
  <2> QED
    BY <2>1, <2>2, <2>3, <2>4 DEF PipelineInv
<1> QED
  BY <1>1, <1>2, <1>3, <1>4 DEF Next

LEMMA PipelineHolds == Spec => []PipelineInv
BY PipelineInit, PipelineStep, PTL DEF Spec
-----------------------------------------------------------------------------
(* What a request that is sent sends.                                      *)
LEMMA Operations == Chat # Audio
<1>1. Len(<<"chat">>) = 1 /\ Len(<<"audio", "_", "transcription">>) = 3
  OBVIOUS
<1> QED
  BY <1>1 DEF Chat, Audio

LEMMA RequestShape ==
    ASSUME NEW q \in Requests
    PROVE  /\ q.op \in {Chat, Audio} /\ q.path \in Text /\ q.form \in BOOLEAN
           /\ DOMAIN q = {"op", "path", "form", "body"}
           /\ IsJson(q.body) /\ \A key \in DOMAIN q.body.fields : IsJson(q.body.fields[key])
BY RequestsAssumption DEF IsRequest

LEMMA OutcomeSent ==
    ASSUME NEW q \in Requests, NEW heap, NEW s, s = Outcome(q, heap).sent, s.status = 200
    PROVE  /\ Status(q) = 200 /\ Chosen(q) # {}
           /\ s.node = Rewritten(q, heap).node
           /\ s.targets = {JoinURLPath(cfg.endpoints[i].baseURL, UpstreamPathOf(q)) :
                              i \in Chosen(q)}
<1>1. PICK status : status = Status(q)
  OBVIOUS
<1>2. status = 200
  <2>1. CASE status # 200
    <3>1. s = Refusal(status)
      BY <1>1, <2>1 DEF Outcome, Answered
    <3> QED
      BY <2>1, <3>1 DEF Refusal
  <2> QED
    BY <2>1
<1>3. PICK r : r = Rewritten(q, heap)
  OBVIOUS
<1>4. PICK chosen : chosen = Chosen(q)
  OBVIOUS
<1>5. s = Forwarded(q, chosen, r).sent
  BY <1>1, <1>2, <1>3, <1>4 DEF Outcome, Answered
<1>6. chosen # {}
  <2>1. CASE chosen = {}
    <3>1. s = Refusal(400)
      BY <1>5, <2>1 DEF Forwarded
    <3> QED
      BY <3>1 DEF Refusal
  <2> QED
    BY <2>1
<1>7. s = [status |-> 200, node |-> r.node,
           targets |-> {JoinURLPath(cfg.endpoints[i].baseURL, UpstreamPathOf(q)) :
                           i \in chosen}]
  BY <1>5, <1>6 DEF Forwarded
<1> QED
  BY <1>1, <1>2, <1>3, <1>4, <1>6, <1>7

(* Two paths that differ at their end are suffixes of different texts.     *)
LEMMA NoSuffix ==
    ASSUME NEW T, NEW s \in Seq(T), NEW t \in Seq(T), NEW base \in Seq(T),
           Len(s) >= 1, Len(t) >= 1, s[Len(s)] # t[Len(t)]
    PROVE  ~IsSuffix(s, base \o t)
<1>1. PICK u \in Seq(T) : u = base \o t
  BY ConcatProperties
<1>2. Len(u) = Len(base) + Len(t) /\ Len(u) \in Nat /\ Len(u) >= 1
      /\ u[Len(u)] = t[Len(t)]
  <2>1. /\ Len(u) = Len(base) + Len(t)
        /\ \A i \in 1..Len(base) + Len(t) :
              u[i] = IF i <= Len(base) THEN base[i] ELSE t[i - Len(base)]
    BY <1>1, ConcatProperties
  <2>2. Len(u) \in 1..Len(base) + Len(t) /\ ~(Len(u) <= Len(base)) /\ Len(u) - Len(base) = Len(t)
    BY <2>1
  <2> QED
    BY <2>1, <2>2
<1>3. ASSUME NEW w \in Seq(T), Len(w) >= 1
      PROVE  Reverse(w) \in Seq(T) /\ Len(Reverse(w)) = Len(w) /\ Reverse(w)[1] = w[Len(w)]
  <2>1. PICK n \in Nat : n = Len(w)
    OBVIOUS
  <2>2. \A i \in 1..n : n - i + 1 \in 1..n
    OBVIOUS
  <2>3. Reverse(w) = [i \in 1..n |-> w[(n - i) + 1]]
    BY <2>1 DEF Reverse
  <2>4. \A i \in 1..n : w[(n - i) + 1] \in T
    BY <2>1, <2>2
  <2>5. Reverse(w) \in [1..n -> T]
    BY <2>3, <2>4
  <2>6. 1 \in 1..n /\ n - 1 + 1 = n
    BY <1>3, <2>1
  <2>7. Reverse(w)[1] = w[n]
    BY <2>3, <2>6
  <2>8. PICK f : f = Reverse(w)
    OBVIOUS
  <2>9. f \in [1..n -> T]
    BY <2>5, <2>8
  <2>10. f \in Seq(T) /\ Len(f) = n
    BY <2>9, FunctionsAreSequences
  <2> QED
    BY <2>1, <2>7, <2>8, <2>10
<1>4. PICK rs : rs = Reverse(s)
  OBVIOUS
<1>5. PICK ru : ru = Reverse(u)
  OBVIOUS
<1>6. /\ rs \in Seq(T) /\ ru \in Seq(T) /\ Len(rs) >= 1 /\ Len(rs) \in Nat
      /\ rs[1] # ru[1]
  <2>1. rs \in Seq(T) /\ Len(rs) = Len(s) /\ rs[1] = s[Len(s)]
    BY <1>3, <1>4
  <2>2. ru \in Seq(T) /\ Len(ru) = Len(u) /\ ru[1] = u[Len(u)]
    BY <1>2, <1>3, <1>5
  <2> QED
    BY <1>2, <2>1, <2>2
<1>7. ~IsPrefix(rs, ru)
  <2> SUFFICES ASSUME Len(rs) <= Len(ru), SubSeq(rs, 1, Len(rs)) = SubSeq(ru, 1, Len(rs))
               PROVE  FALSE
    BY DEF IsPrefix
  <2>1. SubSeq(rs, 1, Len(rs))[1] = rs[1]
    BY <1>6
  <2>2. SubSeq(ru, 1, Len(rs))[1] = ru[1]
    BY <1>6
  <2> QED
    BY <1>6, <2>1, <2>2
<1> QED
  BY <1>1, <1>4, <1>5, <1>7 DEF IsSuffix

LEMMA TrimRightIsText == ASSUME NEW s \in Text, NEW cut PROVE TrimRight(s, cut) \in Text
<1>1. PICK n \in Nat : n = Len(s)
  BY DEF Text
<1>2. PICK ends : ends = {0} \cup {i \in DOMAIN s : s[i] \notin cut}
  OBVIOUS
<1>3. ends \in SUBSET Nat /\ ends # {} /\ \A k \in ends : k <= n
  BY <1>1, <1>2 DEF Text
<1>4. PICK m : m = Max(ends)
  OBVIOUS
<1>5. m \in Nat /\ m <= n
  BY <1>3, <1>4, GreatestPosition
<1>6. TrimRight(s, cut) = SubSeq(s, 1, m)
  BY <1>2, <1>4 DEF TrimRight
<1>7. s \in Seq(Atoms)
  BY DEF Text
<1> QED
  BY <1>1, <1>5, <1>6, <1>7 DEF Text

PathWords == {"/", "v1", "chat", "audio", "completions", "transcriptions"}

LEMMA DefaultPathShape ==
    ASSUME NEW kind
    PROVE  /\ DefaultPath(kind) \in Seq(PathWords) /\ Len(DefaultPath(kind)) = 6
           /\ DefaultPath(kind)[1] = "/"
           /\ DefaultPath(kind)[6] = IF kind = Audio THEN "transcriptions" ELSE "completions"
<1>1. \A T : \A x, y, z, w \in T :
        /\ <<x, y, x, z, x, w>> \in Seq(T) /\ Len(<<x, y, x, z, x, w>>) = 6
        /\ <<x, y, x, z, x, w>>[1] = x /\ <<x, y, x, z, x, w>>[6] = w
  OBVIOUS
<1>2. /\ "/" \in PathWords /\ "v1" \in PathWords /\ "chat" \in PathWords
      /\ "audio" \in PathWords /\ "completions" \in PathWords
      /\ "transcriptions" \in PathWords
  BY DEF PathWords
<1>3. CASE kind = Audio
  BY <1>1, <1>2, <1>3, Zenon DEF DefaultPath
<1>4. CASE kind # Audio
  BY <1>1, <1>2, <1>4, Zenon DEF DefaultPath
<1> QED
  BY <1>3, <1>4

LEMMA PathSent ==
    ASSUME Serving(cfg, written), NEW q \in Requests, Status(q) = 200,
           Routed(q) => written.routes[RouteOf(q)].upstreamPath = <<>>
    PROVE  UpstreamPathOf(q) = DefaultPath(q.op)
<1>1. CASE ~Routed(q)
  BY <1>1 DEF UpstreamPathOf
<1>2. CASE Routed(q)
  <2>1. PICK r : r = written.routes[RouteOf(q)]
    OBVIOUS
  <2>2. Route(q) = NormalizeRoute(r) /\ IsRawRoute(r) /\ Route(q).path # <<>>
    BY <1>2, <2>1, GottenRoute
  <2>3. Route(q).kind = NormalizeRouteKind(r.kind) /\ Route(q).upstreamPath = UpstreamPath(r)
    BY <2>2, LoadedRoute
  <2>4. Route(q).kind = q.op
    BY <1>2 DEF Status
  <2>5. PICK path : path = DefaultPath(q.op)
    OBVIOUS
  <2>6. OrElse(r.upstreamPath, DefaultPath(NormalizeRouteKind(r.kind))) = path
    BY <1>2, <2>1, <2>3, <2>4, <2>5 DEF OrElse
  <2>7. Head(path) = "/"
    <3>1. path \in Seq(PathWords) /\ path[1] = "/" /\ Len(path) = 6
      BY <2>5, DefaultPathShape
    <3> QED
      BY <3>1
  <2>8. UpstreamPath(r) = path
    BY <2>6, <2>7 DEF UpstreamPath
  <2> QED
    BY <1>2, <2>3, <2>5, <2>8 DEF UpstreamPathOf
<1> QED
  BY <1>1, <1>2

(* Under every accepted configuration a transcription goes to the path of  *)
(* transcriptions and a chat to that of chats, whatever the spelling of    *)
(* the route's kind and of the base URL: the handler compares the kind     *)
(* with its own, and the path was chosen for the kind so normalized.       *)
THEOREM PathsFit == Spec => []PathFitsOperation
<1>1. ASSUME PipelineInv PROVE PathFitsOperation
  <2>1. PICK other : other = DefaultPath(IF request.op = Audio THEN Chat ELSE Audio)
    OBVIOUS
  <2> SUFFICES ASSUME WasSent, Routed(request) =>
                                  written.routes[RouteOf(request)].upstreamPath = <<>>,
                      NEW url \in sent.targets
               PROVE  ~IsSuffix(other, url)
    BY <2>1 DEF PathFitsOperation
  <2>2. PICK heap : sent = Outcome(request, heap).sent
    BY <1>1 DEF PipelineInv
  <2>3. Serving(cfg, written) /\ request \in Requests
    BY <1>1 DEF PipelineInv
  <2>4. /\ Status(request) = 200
        /\ sent.targets = {JoinURLPath(cfg.endpoints[i].baseURL, UpstreamPathOf(request)) :
                              i \in Chosen(request)}
    BY <2>2, <2>3, OutcomeSent DEF WasSent
  <2>5. PICK i \in Chosen(request) :
            url = JoinURLPath(cfg.endpoints[i].baseURL, UpstreamPathOf(request))
    BY <2>4
  <2>6. PICK path : path = DefaultPath(request.op)
    OBVIOUS
  <2>7. UpstreamPathOf(request) = path
    BY <2>3, <2>4, <2>6, PathSent
  <2>8. PICK base : base = TrimRight(cfg.endpoints[i].baseURL, {"/"})
    OBVIOUS
  <2>9. url = base \o path
    BY <2>5, <2>7, <2>8 DEF JoinURLPath
  <2>10. base \in Text
    <3>1. i \in DOMAIN cfg.endpoints
      BY DEF Chosen, Candidates, AllowedEndpoints
    <3>2. cfg.endpoints[i].baseURL \in Text
      BY <2>3, <3>1, LoadedFields DEF Serving
    <3> QED
      BY <2>8, <3>2, TrimRightIsText
  <2>11. /\ path \in Seq(PathWords) /\ Len(path) = 6
         /\ other \in Seq(PathWords) /\ Len(other) = 6 /\ other[6] # path[6]
    <3>1. request.op \in {Chat, Audio}
      BY <2>3, RequestShape
    <3> QED
      BY <2>1, <2>6, <3>1, DefaultPathShape, Operations
  <2>12. PICK T : T = Atoms \cup PathWords
    OBVIOUS
  <2>13. /\ path \in Seq(T) /\ other \in Seq(T) /\ base \in Seq(T)
         /\ Len(other) >= 1 /\ Len(path) >= 1 /\ other[Len(other)] # path[Len(path)]
    <3>1. Atoms \subseteq T /\ PathWords \subseteq T
      BY <2>12
    <3> QED
      BY <2>10, <2>11, <3>1, SeqMonotonic DEF Text
  <2>14. ~IsSuffix(other, base \o path)
    BY <2>13, NoSuffix
  <2> QED
    BY <2>9, <2>14
<1> QED
  BY <1>1, PipelineHolds, PTL
-----------------------------------------------------------------------------
(* The model.                                                              *)
HasModel(n, model) ==
    /\ n.kind = "object" /\ <<"model">> \in DOMAIN n.fields
    /\ n.fields[<<"model">>] = Leaf(model)

LEMMA ModelRead ==
    ASSUME NEW n, NEW model, HasModel(n, model) PROVE ModelField(n) = model
BY DEF HasModel, ModelField, IsObject, Leaf

LEMMA ModelWritten ==
    ASSUME NEW n, n.kind = "object", NEW model, model # <<>>
    PROVE  HasModel(RewriteModel(n, model), model)
<1>1. CASE <<"model">> \in DOMAIN n.fields /\ n.fields[<<"model">>] = Leaf(model)
  BY <1>1 DEF RewriteModel, HasModel
<1>2. CASE ~(<<"model">> \in DOMAIN n.fields /\ n.fields[<<"model">>] = Leaf(model))
  <2>1. PICK f : f = With(Parsed(n).fields, <<"model">>, Leaf(model))
    OBVIOUS
  <2>2. RewriteModel(n, model) = Obj(f)
    BY <1>2, <2>1 DEF RewriteModel
  <2>3. <<"model">> \in DOMAIN f /\ f[<<"model">>] = Leaf(model)
    BY <2>1 DEF With
  <2> QED
    BY <2>2, <2>3, ObjFields DEF HasModel
<1> QED
  BY <1>1, <1>2

(* One patch of a form.                                                    *)
LEMMA FormPatchKeeps ==
    ASSUME NEW n, NEW model, HasModel(n, model), NEW p, SoundPatch(p),
           FormKey(p) # <<"model">>
    PROVE  HasModel(ApplyFormPatch(n, p), model)
<1>1. <<"set">> # <<"delete">>
  <2>1. <<"set">>[1] = "set" /\ <<"delete">>[1] = "delete"
    OBVIOUS
  <2> QED
    BY <2>1
<1>2. PICK key : key = FormKey(p)
  OBVIOUS
<1>3. CASE key = <<>>
  BY <1>2, <1>3 DEF ApplyFormPatch
<1>4. CASE key # <<>> /\ p.op = <<"delete">>
  <2>1. ApplyFormPatch(n, p) = Obj(Without(n.fields, key))
    BY <1>1, <1>2, <1>4 DEF ApplyFormPatch
  <2>2. PICK f : f = Without(n.fields, key)
    OBVIOUS
  <2>3. <<"model">> \in DOMAIN f /\ f[<<"model">>] = Leaf(model)
    BY <1>2, <2>2 DEF Without, HasModel
  <2> QED
    BY <2>1, <2>2, <2>3, ObjFields DEF HasModel
<1>5. CASE key # <<>> /\ p.op = <<"set">>
  <2>1. PICK v : v = Leaf(FormPatchText(p.value))
    OBVIOUS
  <2>2. ApplyFormPatch(n, p) = Obj(With(n.fields, key, v))
    BY <1>1, <1>2, <1>5, <2>1 DEF ApplyFormPatch
  <2>3. PICK f : f = With(n.fields, key, v)
    OBVIOUS
  <2>4. <<"model">> \in DOMAIN f /\ f[<<"model">>] = Leaf(model)
    BY <1>2, <2>3 DEF With, HasModel
  <2> QED
    BY <2>2, <2>3, <2>4, ObjFields DEF HasModel
<1> QED
  BY <1>3, <1>4, <1>5 DEF SoundPatch

FormBy(named, patches, n, f) ==
    f = [j \in 0..n |-> IF j = 0 THEN named ELSE ApplyFormPatch(f[j - 1], patches[j])]

LEMMA FormExists ==
    ASSUME NEW named, NEW patches
    PROVE  \A n \in Nat : \E f : FormBy(named, patches, n, f)
<1> DEFINE P == {n \in Nat : \E f : FormBy(named, patches, n, f)}
<1>1. 0 \in P
  <2>1. FormBy(named, patches, 0, [j \in 0..0 |-> named])
    BY DEF FormBy
  <2> QED
    BY <2>1
<1>2. ASSUME NEW n \in Nat, n \in P PROVE n + 1 \in P
  <2>1. PICK g : FormBy(named, patches, n, g)
    BY <1>2
  <2>2. g = [j \in 0..n |-> IF j = 0 THEN named ELSE ApplyFormPatch(g[j - 1], patches[j])]
    BY <2>1 DEF FormBy
  <2> DEFINE f == [j \in 0..(n + 1) |->
                     IF j <= n THEN g[j] ELSE ApplyFormPatch(g[j - 1], patches[j])]
  <2>3. ASSUME NEW j \in 0..(n + 1)
        PROVE  f[j] = IF j = 0 THEN named ELSE ApplyFormPatch(f[j - 1], patches[j])
    <3>1. j # 0 => j - 1 \in 0..(n + 1) /\ j - 1 <= n
      OBVIOUS
    <3>2. j # 0 => f[j - 1] = g[j - 1]
      BY <3>1
    <3>3. CASE j <= n
      <4>1. j \in 0..n /\ f[j] = g[j]
        BY <3>3
      <4> HIDE DEF f
      <4> QED
        BY <3>2, <4>1, <2>2
    <3>4. CASE ~(j <= n)
      <4>1. f[j] = ApplyFormPatch(g[j - 1], patches[j]) /\ j # 0
        BY <3>4
      <4> HIDE DEF f
      <4> QED
        BY <3>2, <4>1
    <3> QED
      BY <3>3, <3>4
  <2>4. f = [j \in 0..(n + 1) |-> f[j]]
    OBVIOUS
  <2> HIDE DEF f
  <2>5. f = [j \in 0..(n + 1) |->
                IF j = 0 THEN named ELSE ApplyFormPatch(f[j - 1], patches[j])]
    BY <2>3, <2>4
  <2>6. FormBy(named, patches, n + 1, f)
    BY <2>5 DEF FormBy
  <2> QED
    BY <2>6
<1> HIDE DEF P
<1>3. Nat \subseteq P
  BY <1>1, <1>2, EveryNumber
<1> QED
  BY <1>3 DEF P

LEMMA FormKeepsModel ==
    ASSUME NEW form, form.kind = "object", NEW model, model # <<>>,
           NEW patches, SoundPatches(patches),
           \A j \in 1..Len(patches) : FormKey(patches[j]) # <<"model">>
    PROVE  HasModel(BuildAudioMultipartBody(form, model, patches), model)
<1>1. PICK named : named = Obj(With(form.fields, <<"model">>, Leaf(model)))
  OBVIOUS
<1> DEFINE f == CHOOSE end : end = [j \in 0..Len(patches) |->
                  IF j = 0 THEN named ELSE ApplyFormPatch(end[j - 1], patches[j])]
<1>2. BuildAudioMultipartBody(form, model, patches) = f[Len(patches)]
  BY <1>1 DEF BuildAudioMultipartBody
<1>3. Len(patches) \in Nat
  BY DEF SoundPatches
<1>4. FormBy(named, patches, Len(patches), f)
  BY <1>3, FormExists, SMTT(40) DEF FormBy
<1> HIDE DEF f
<1>5. HasModel(named, model)
  <2>1. PICK g : g = With(form.fields, <<"model">>, Leaf(model))
    OBVIOUS
  <2>2. <<"model">> \in DOMAIN g /\ g[<<"model">>] = Leaf(model)
    BY <2>1 DEF With
  <2> QED
    BY <1>1, <2>1, <2>2, ObjFields DEF HasModel
<1> DEFINE P == {j \in Nat : j <= Len(patches) => HasModel(f[j], model)}
<1>6. 0 \in P
  <2>1. f[0] = named
    BY <1>3, <1>4 DEF FormBy
  <2> QED
    BY <1>5, <2>1
<1>7. ASSUME NEW j \in Nat, j \in P PROVE j + 1 \in P
  <2> SUFFICES ASSUME j + 1 <= Len(patches) PROVE HasModel(f[j + 1], model)
    OBVIOUS
  <2>1. PICK m : m = j + 1
    OBVIOUS
  <2>2. m \in 0..Len(patches) /\ m # 0 /\ m - 1 = j /\ m \in 1..Len(patches) /\ j <= Len(patches)
    BY <1>3, <2>1
  <2>3. HasModel(f[j], model)
    BY <1>7, <2>2
  <2>4. f[m] = ApplyFormPatch(f[j], patches[m])
    BY <2>2, <1>4 DEF FormBy
  <2>5. SoundPatch(patches[m]) /\ FormKey(patches[m]) # <<"model">>
    BY <2>2 DEF SoundPatches
  <2> QED
    BY <2>1, <2>3, <2>4, <2>5, FormPatchKeeps
<1> HIDE DEF P
<1>8. Nat \subseteq P
  BY <1>6, <1>7, EveryNumber
<1> QED
  BY <1>2, <1>3, <1>8 DEF P

LEMMA ObjectBody ==
    ASSUME NEW q \in Requests
    PROVE  /\ IsObject(q.body) <=> q.body.kind = "object"
           /\ q.body.kind # "object" => q.body.fields = <<>>
BY RequestShape DEF IsJson, IsObject

LEMMA NormalizedIsObject ==
    ASSUME NEW n, n.kind = "object" PROVE NormalizeRequest(n).kind = "object"
BY ObjFields DEF NormalizeRequest

LEMMA JsonSent ==
    ASSUME NEW q \in Requests, NEW heap, IsObject(q.body), Json(q)
    PROVE  \E body : /\ body = IF q.op = Chat THEN NormalizeRequest(q.body) ELSE q.body
                     /\ body.kind = "object"
                     /\ Rewritten(q, heap).node
                          = RewriteModel(ApplyRequestPatches(heap, body, PatchesOf(q)).node,
                                         ModelForUpstream(q))
<1>1. PICK body : body = IF q.op = Chat THEN NormalizeRequest(q.body) ELSE q.body
  OBVIOUS
<1>2. body.kind = "object"
  BY <1>1, ObjectBody, NormalizedIsObject
<1>3. Rewritten(q, heap) = PatchAndRewrite(q, heap, body)
  <2>1. CASE q.op = Chat
    BY <1>1, <2>1, Operations DEF Rewritten
  <2>2. CASE q.op = Audio /\ ~q.form
    BY <1>1, <2>2, Operations DEF Rewritten
  <2> QED
    BY <2>1, <2>2, RequestShape DEF Json
<1>4. PICK patched : patched = ApplyRequestPatches(heap, body, PatchesOf(q))
  OBVIOUS
<1>5. DOMAIN patched = {"node", "heap"}
  BY <1>4 DEF ApplyRequestPatches, Encoded
<1>6. PatchAndRewrite(q, heap, body).node = RewriteModel(patched.node, ModelForUpstream(q))
  BY <1>4, <1>5 DEF PatchAndRewrite
<1> QED
  BY <1>1, <1>2, <1>3, <1>4, <1>6

(* Whatever the patches of its route do, a request whose route or whose    *)
(* model has an upstream model configured is sent with that model: JSON in *)
(* any case, for RewriteModel comes after the patches; a form unless a     *)
(* patch has the field of the model itself, for there it comes before.     *)
THEOREM ModelConfigured == Spec => []ConfiguredModelSent
<1>1. ASSUME PipelineInv PROVE ConfiguredModelSent
  <2> SUFFICES ASSUME WasSent, IsObject(request.body), UpstreamModel(request) # <<>>,
                      Json(request) \/ ~\E p \in Range(PatchesOf(request)) :
                                             FormKey(p) = <<"model">>
               PROVE  ModelField(sent.node) = UpstreamModel(request)
    BY DEF ConfiguredModelSent
  <2>1. PICK heap : sent = Outcome(request, heap).sent
    BY <1>1 DEF PipelineInv
  <2>2. Serving(cfg, written) /\ request \in Requests
    BY <1>1 DEF PipelineInv
  <2>3. sent.node = Rewritten(request, heap).node
    BY <2>1, <2>2, OutcomeSent DEF WasSent
  <2>4. PICK model : model = UpstreamModel(request)
    OBVIOUS
  <2>5. ModelForUpstream(request) = model /\ model # <<>>
    BY <2>4 DEF ModelForUpstream
  <2>6. PICK patches : patches = PatchesOf(request)
    OBVIOUS
  <2>7. SoundPatches(patches)
    BY <2>2, <2>6, GottenPatches
  <2>8. CASE Json(request)
    <3>1. PICK body : /\ body.kind = "object"
                      /\ Rewritten(request, heap).node
                           = RewriteModel(ApplyRequestPatches(heap, body, patches).node, model)
      BY <2>2, <2>5, <2>6, <2>8, JsonSent
    <3>2. PICK n : n = ApplyRequestPatches(heap, body, patches).node
      OBVIOUS
    <3>3. n.kind = "object"
      BY <2>7, <3>1, <3>2, PatchesStay
    <3>4. HasModel(RewriteModel(n, model), model)
      BY <2>5, <3>3, ModelWritten
    <3> QED
      BY <2>3, <2>4, <3>1, <3>2, <3>4, ModelRead
  <2>9. CASE ~Json(request)
    <3>1. request.op = Audio /\ request.form
      BY <2>2, <2>9, RequestShape DEF Json
    <3>2. Rewritten(request, heap).node = BuildAudioMultipartBody(request.body, model, patches)
      BY <2>5, <2>6, <3>1, Operations DEF Rewritten
    <3>3. \A j \in 1..Len(patches) : FormKey(patches[j]) # <<"model">>
      <4>1. DOMAIN patches = 1..Len(patches)
        BY <2>7 DEF SoundPatches
      <4> QED
        BY <2>6, <2>9, <4>1 DEF Range
    <3>4. request.body.kind = "object"
      BY <2>2, ObjectBody
    <3>5. HasModel(BuildAudioMultipartBody(request.body, model, patches), model)
      BY <2>5, <2>7, <3>3, <3>4, FormKeepsModel
    <3> QED
      BY <2>3, <2>4, <3>2, <3>5, ModelRead
  <2> QED
    BY <2>8, <2>9
<1> QED
  BY <1>1, PipelineHolds, PTL
-----------------------------------------------------------------------------
(* The messages.                                                           *)
LEMMA ListVal == \A v : List(v).kind = "list" /\ List(v).val = v
BY DEF List

LEMMA MessagesOrdered ==
    ASSUME NEW T, NEW came \in Seq(T), T = Range(came), NEW went, went = ReorderMessages(came),
           NEW others, others = T \ SystemMessages
    PROVE  /\ Range(went) = T
           /\ \A i, j \in DOMAIN went :
                 went[i] \in SystemMessages /\ went[j] \in others => i < j
           /\ Keep(went, SystemMessages) = Keep(came, SystemMessages)
           /\ Keep(went, others) = Keep(came, others)
<1>1. PICK S : S = SystemMessages \cap T
  OBVIOUS
<1>2. PICK a : a = Keep(came, SystemMessages)
  OBVIOUS
<1>3. PICK b : b = Keep(came, others)
  OBVIOUS
<1>4. went = a \o b
  BY <1>2, <1>3 DEF ReorderMessages
<1>5. a \in Seq(S) /\ b \in Seq(others)
  <2>1. others \cap T = others
    OBVIOUS
  <2> QED
    BY <1>1, <1>2, <1>3, <2>1, KeepTyped
<1>6. a \in Seq(T) /\ b \in Seq(T)
  BY <1>1, <1>5, SeqMonotonic
<1>7. Range(went) = T
  <2>1. Range(a) = SystemMessages \cap T /\ Range(b) = others \cap T
    BY <1>2, <1>3, KeepRange
  <2>2. Range(went) = Range(a) \cup Range(b)
    BY <1>4, <1>6, RangeConcatenation
  <2> QED
    BY <2>1, <2>2
<1>8. ASSUME NEW i \in DOMAIN went, NEW j \in DOMAIN went,
             went[i] \in SystemMessages, went[j] \in others
      PROVE  i < j
  <2>1. /\ went \in Seq(T) /\ Len(went) = Len(a) + Len(b)
        /\ \A k \in 1..Len(a) + Len(b) : went[k] = IF k <= Len(a) THEN a[k] ELSE b[k - Len(a)]
    BY <1>4, <1>6, ConcatProperties
  <2>2. i \in 1..Len(a) + Len(b) /\ j \in 1..Len(a) + Len(b) /\ Len(a) \in Nat /\ Len(b) \in Nat
    BY <2>1, <1>6
  <2>3. i <= Len(a)
    <3> SUFFICES ASSUME ~(i <= Len(a)) PROVE FALSE
      OBVIOUS
    <3>1. i - Len(a) \in 1..Len(b) /\ went[i] = b[i - Len(a)]
      BY <2>1, <2>2
    <3>2. went[i] \in others
      BY <1>5, <3>1
    <3> QED
      BY <1>8, <3>2
  <2>4. ~(j <= Len(a))
    <3> SUFFICES ASSUME j <= Len(a) PROVE FALSE
      OBVIOUS
    <3>1. j \in 1..Len(a) /\ went[j] = a[j]
      BY <2>1, <2>2
    <3>2. went[j] \in S
      BY <1>5, <3>1
    <3> QED
      BY <1>1, <1>8, <3>2
  <2> QED
    BY <2>2, <2>3, <2>4
<1>9. Keep(went, SystemMessages) = a
  <2>1. Keep(went, SystemMessages) = Keep(a, SystemMessages) \o Keep(b, SystemMessages)
    BY <1>4, <1>6, KeepConcat
  <2>2. Keep(a, SystemMessages) = a
    BY <1>1, <1>5, KeepAll
  <2>3. Keep(b, SystemMessages) = <<>>
    <3>1. SystemMessages \cap others = {}
      OBVIOUS
    <3> QED
      BY <1>5, <3>1, KeepNone
  <2>4. a \o <<>> = a
    BY <1>5
  <2> QED
    BY <2>1, <2>2, <2>3, <2>4
<1>10. Keep(went, others) = b
  <2>1. Keep(went, others) = Keep(a, others) \o Keep(b, others)
    <3>1. a \in Seq(T) /\ b \in Seq(T)
      BY <1>6
    <3>2. Keep(a \o b, others) = Keep(a, others) \o Keep(b, others)
      BY ONLY <3>1, KeepConcat
    <3> QED
      BY <1>4, <3>2
  <2>2. Keep(b, others) = b
    BY <1>5, KeepAll
  <2>3. Keep(a, others) = <<>>
    <3>1. others \cap S = {}
      BY <1>1
    <3> QED
      BY <1>5, <3>1, KeepNone
  <2>4. <<>> \o b = b
    BY <1>5
  <2> QED
    BY <2>1, <2>2, <2>3, <2>4
<1> QED
  BY <1>2, <1>3, <1>7, <1>8, <1>9, <1>10

LEMMA NormalizedMessages ==
    ASSUME NEW n, n.kind = "object", NEW key, key = <<"messages">>,
           key \in DOMAIN n.fields, n.fields[key].kind = "list", ReorderSystemMessages
    PROVE  /\ key \in DOMAIN NormalizeRequest(n).fields
           /\ NormalizeRequest(n).fields[key].kind = "list"
           /\ NormalizeRequest(n).fields[key].val = ReorderMessages(n.fields[key].val)
<1>1. PICK msgs : msgs = n.fields[key].val
  OBVIOUS
<1>2. CASE ReorderMessages(msgs) = msgs
  <2>1. NormalizeRequest(n) = n
    BY <1>1, <1>2 DEF NormalizeRequest
  <2> QED
    BY <1>1, <1>2, <2>1
<1>3. CASE ReorderMessages(msgs) # msgs
  <2>1. PICK f : f = With(Parsed(n).fields, key, List(ReorderMessages(msgs)))
    OBVIOUS
  <2>2. NormalizeRequest(n) = Obj(f)
    BY <1>1, <1>3, <2>1 DEF NormalizeRequest
  <2>3. key \in DOMAIN f /\ f[key] = List(ReorderMessages(msgs))
    BY <2>1 DEF With
  <2> QED
    BY <1>1, <2>2, <2>3, ObjFields, ListVal
<1> QED
  BY <1>2, <1>3

LEMMA RewriteKeepsMessages ==
    ASSUME NEW n, n.kind = "object", NEW model, NEW key, key = <<"messages">>
    PROVE  KeepsList(n, RewriteModel(n, model), key)
<1>1. CASE RewriteModel(n, model) = n
  BY <1>1 DEF KeepsList
<1>2. CASE RewriteModel(n, model) # n
  <2>1. PICK m : m = Parsed(n)
    OBVIOUS
  <2>2. PICK f : f = With(m.fields, <<"model">>, Leaf(model))
    OBVIOUS
  <2>3. RewriteModel(n, model) = Obj(f)
    BY <1>2, <2>1, <2>2 DEF RewriteModel
  <2>4. KeepsList(n, m, key)
    BY <2>1, ParsedKeepsLists
  <2>5. <<"model">> # <<"messages">>
    <3>1. <<"model">>[1] = "model" /\ <<"messages">>[1] = "messages"
      OBVIOUS
    <3> QED
      BY <3>1
  <2>6. key \in DOMAIN m.fields => key \in DOMAIN f /\ f[key] = m.fields[key]
    BY <2>2, <2>5 DEF With
  <2> QED
    BY <2>3, <2>4, <2>6, ObjFields DEF KeepsList
<1> QED
  BY <1>1, <1>2

(* The messages of a chat go out with those of the system in front, all of *)
(* them and each kind in its order, for any number of messages, under any  *)
(* patches that leave them alone, and whatever the model rewrite does.     *)
THEOREM SystemsInFront == Spec => []SystemFirst
<1>1. ASSUME PipelineInv PROVE SystemFirst
  <2>1. PICK key : key = <<"messages">>
    OBVIOUS
  <2>2. PICK came : came = request.body.fields[key]
    OBVIOUS
  <2>3. PICK went : went = sent.node.fields[key]
    OBVIOUS
  <2>4. PICK others : others = Range(came.val) \ SystemMessages
    OBVIOUS
  <2> SUFFICES ASSUME WasSent, request.op = Chat, ReorderSystemMessages,
                      key \in DOMAIN request.body.fields, came.kind = "list",
                      \A p \in Range(PatchesOf(request)) : key \notin Range(SplitPatchPath(p.path))
               PROVE  /\ Range(went.val) = Range(came.val)
                      /\ \A i, j \in DOMAIN went.val :
                            went.val[i] \in SystemMessages /\ went.val[j] \in others => i < j
                      /\ Keep(went.val, SystemMessages) = Keep(came.val, SystemMessages)
                      /\ Keep(went.val, others) = Keep(came.val, others)
    BY <2>1, <2>2, <2>3, <2>4 DEF SystemFirst
  <2>5. PICK heap : sent = Outcome(request, heap).sent
    BY <1>1 DEF PipelineInv
  <2>6. Serving(cfg, written) /\ request \in Requests
    BY <1>1 DEF PipelineInv
  <2>7. sent.node = Rewritten(request, heap).node
    BY <2>5, <2>6, OutcomeSent DEF WasSent
  <2>8. request.body.kind = "object"
    BY <2>6, ObjectBody
  <2>9. came.val \in Seq(Range(came.val))
    BY <2>2, <2>6, RequestShape DEF IsJson
  <2>10. PICK patches : patches = PatchesOf(request)
    OBVIOUS
  <2>11. SoundPatches(patches)
    BY <2>6, <2>10, GottenPatches
  <2>12. NoPatchBegins(patches, key)
    <3>1. DOMAIN patches = 1..Len(patches)
      BY <2>11 DEF SoundPatches
    <3> QED
      BY <2>10, <3>1 DEF NoPatchBegins, Range
  <2>13. PICK body : /\ body = NormalizeRequest(request.body) /\ body.kind = "object"
                     /\ sent.node = RewriteModel(ApplyRequestPatches(heap, body, patches).node,
                                                 ModelForUpstream(request))
    BY <2>6, <2>7, <2>8, <2>10, JsonSent DEF Json, IsObject
  <2>14. key \in DOMAIN body.fields /\ body.fields[key].kind = "list"
         /\ body.fields[key].val = ReorderMessages(came.val)
    BY <2>1, <2>2, <2>8, <2>13, NormalizedMessages
  <2>15. PICK n : n = ApplyRequestPatches(heap, body, patches).node
    OBVIOUS
  <2>16. n.kind = "object" /\ KeepsList(body, n, key)
    BY <2>11, <2>12, <2>13, <2>15, PatchesStay
  <2>17. KeepsList(n, sent.node, key)
    BY <2>1, <2>13, <2>15, <2>16, RewriteKeepsMessages
  <2>18. went.val = ReorderMessages(came.val)
    BY <2>3, <2>14, <2>16, <2>17 DEF KeepsList
  <2> QED
    BY <2>4, <2>9, <2>18, MessagesOrdered
<1> QED
  BY <1>1, PipelineHolds, PTL
-----------------------------------------------------------------------------
(* The way to a route.                                                     *)
LEMMA TrimmedTwice ==
    ASSUME NEW texts, texts \subseteq Text, NEW m \in Named(texts)
    PROVE  TrimSpace(m) = m /\ m # <<>>
<1>1. PICK t \in texts : m = TrimSpace(t) /\ m # <<>>
  BY DEF Named
<1>2. t \in Text
  BY <1>1
<1> QED
  BY <1>1, <1>2, TrimTwice DEF TrimSpace

(* No name /v1/models gives is changed by trimming it.                     *)
LEMMA ListedTrimmed ==
    ASSUME Serving(cfg, written), NEW m \in ModelIDs(cfg)
    PROVE  TrimSpace(m) = m /\ m # <<>>
<1>1. DOMAIN cfg.modelMap \subseteq Text
  <2>1. cfg.modelMap = LowerKeys(written.modelMap)
    BY LoadedFields DEF Serving
  <2>2. DOMAIN cfg.modelMap = {ToLower(key) : key \in DOMAIN written.modelMap}
    BY <2>1 DEF LowerKeys
  <2>3. \A key \in DOMAIN written.modelMap : ToLower(key) \in Text
    BY RawFields, LowerIsText DEF Serving
  <2> QED
    BY <2>2, <2>3
<1>2. {cfg.routes[i].model : i \in DOMAIN cfg.routes} \subseteq Text
  <2>1. SUFFICES ASSUME NEW i \in DOMAIN cfg.routes PROVE cfg.routes[i].model \in Text
    OBVIOUS
  <2>2. PICK r : r = written.routes[i]
    OBVIOUS
  <2>3. cfg.routes[i] = NormalizeRoute(r) /\ IsRawRoute(r)
    BY <2>2, LoadedFields, RawShape DEF Serving
  <2>4. cfg.routes[i].path # <<>>
    BY DEF Serving, Accepted, Valid, ValidRoute
  <2> QED
    BY <2>3, <2>4, LoadedRoute
<1>3. \A e \in Range(cfg.endpoints) : e.models \subseteq Text
  BY LoadedFields DEF Serving, Range
<1>4. CASE m \in Named(DOMAIN cfg.modelMap)
  BY <1>1, <1>4, TrimmedTwice
<1>5. CASE m \in Named({cfg.routes[i].model : i \in DOMAIN cfg.routes})
  BY <1>2, <1>5, TrimmedTwice
<1>6. CASE m \in UNION {Named(e.models) : e \in Range(cfg.endpoints)}
  <2>1. PICK e \in Range(cfg.endpoints) : m \in Named(e.models)
    BY <1>6
  <2> QED
    BY <1>3, <2>1, TrimmedTwice
<1> QED
  BY <1>4, <1>5, <1>6 DEF ModelIDs

LEMMA AskedForModel ==
    ASSUME Serving(cfg, written), NEW q \in ByPath, Listed(q), NEW n, n = AskingForModel(q)
    PROVE  /\ RouteOf(n) = RouteOf(q) /\ n.op = q.op /\ n.path = <<>>
           /\ n.body.kind = "object"
<1>1. /\ q \in Requests /\ IsObject(q.body) /\ Routed(q)
  BY DEF ByPath
<1>2. PICK m : m = Route(q).model
  OBVIOUS
<1>3. TrimSpace(m) = m /\ m # <<>> /\ RouteByModel(cfg, m) = RouteOf(q)
  BY <1>2, ListedTrimmed DEF Listed
<1>4. PICK f : f = With(q.body.fields, <<"model">>, Leaf(m))
  OBVIOUS
<1>5. n = [q EXCEPT !.path = <<>>, !.body = Obj(f)]
  BY <1>2, <1>4 DEF AskingForModel
<1>6. n.op = q.op /\ n.path = <<>> /\ n.body = Obj(f)
  BY <1>1, <1>5, RequestShape
<1>7. ModelField(n.body) = m
  <2>1. <<"model">> \in DOMAIN f /\ f[<<"model">>] = Leaf(m)
    BY <1>4 DEF With
  <2> QED
    BY <1>6, <2>1, ObjFields, ModelRead DEF HasModel
<1>8. RequestModel(n) = m
  BY <1>3, <1>7 DEF RequestModel
<1>9. RouteOf(n) = RouteOf(q)
  BY <1>3, <1>6, <1>8 DEF RouteOf
<1> QED
  BY <1>6, <1>9, ObjFields

LEMMA SameWay ==
    ASSUME NEW q, NEW n, RouteOf(n) = RouteOf(q), n.op = q.op, n.path = <<>>, Routed(q),
           IsObject(n.body), IsObject(q.body)
    PROVE  /\ Status(n) = Status(q) /\ Chosen(n) = Chosen(q)
           /\ UpstreamPathOf(n) = UpstreamPathOf(q)
<1>1. Routed(n) /\ Route(n) = Route(q)
  BY DEF Routed, Route
<1>2. \A b : IsObject(b) => b # Null
  BY DEF IsObject, Null, Leaf
<1>3. ~WritesToNil(n) /\ ~WritesToNil(q)
  BY <1>2 DEF WritesToNil
<1>4. Status(n) = Status(q)
  BY <1>1, <1>3 DEF Status
<1>5. LogicalModel(n) = LogicalModel(q)
  BY <1>1 DEF LogicalModel
<1>6. Chosen(n) = Chosen(q)
  BY <1>1, <1>5 DEF Chosen
<1>7. UpstreamPathOf(n) = UpstreamPathOf(q)
  BY <1>1 DEF UpstreamPathOf
<1> QED
  BY <1>4, <1>6, <1>7

LEMMA SameAnswer ==
    ASSUME NEW q, NEW n, Status(n) = Status(q), Chosen(n) = Chosen(q),
           UpstreamPathOf(n) = UpstreamPathOf(q), NEW heap
    PROVE  /\ Outcome(n, heap).sent.status = Outcome(q, heap).sent.status
           /\ Outcome(n, heap).sent.targets = Outcome(q, heap).sent.targets
<1>1. PICK status : status = Status(q) /\ status = Status(n)
  OBVIOUS
<1>2. CASE status # 200
  BY <1>1, <1>2 DEF Outcome, Answered
<1>3. CASE status = 200
  <2>1. PICK chosen : chosen = Chosen(q) /\ chosen = Chosen(n)
    OBVIOUS
  <2>2. PICK r : r = Rewritten(q, heap)
    OBVIOUS
  <2>3. PICK t : t = Rewritten(n, heap)
    OBVIOUS
  <2>4. PICK path : path = UpstreamPathOf(q) /\ path = UpstreamPathOf(n)
    OBVIOUS
  <2>5. PICK urls : urls = {JoinURLPath(cfg.endpoints[i].baseURL, path) : i \in chosen}
    OBVIOUS
  <2>6. Outcome(q, heap).sent
          = IF chosen = {} THEN Refusal(400)
            ELSE [status |-> 200, node |-> r.node, targets |-> urls]
    BY <1>1, <1>3, <2>1, <2>2, <2>4, <2>5 DEF Outcome, Answered, Forwarded
  <2>7. Outcome(n, heap).sent
          = IF chosen = {} THEN Refusal(400)
            ELSE [status |-> 200, node |-> t.node, targets |-> urls]
    BY <1>1, <1>3, <2>1, <2>3, <2>4, <2>5 DEF Outcome, Answered, Forwarded
  <2> QED
    BY <2>6, <2>7
<1> QED
  BY <1>2, <1>3

(* A client that asks for the model of a route, as /v1/models spells it,   *)
(* gets the answer and reaches the endpoints it would by the route's path: *)
(* what the list trims and what the tables of routes and model_map hold    *)
(* are the same texts, in every accepted configuration.                    *)
THEOREM PathAndModelLeadThere == Spec => []PathAndModelGoAlike
<1>1. ASSUME PipelineInv PROVE PathAndModelGoAlike
  <2> SUFFICES ASSUME phase = "serving", NEW q \in ByPath, Listed(q)
               PROVE  /\ Outcome(q, values).sent.status
                           = Outcome(AskingForModel(q), values).sent.status
                      /\ Outcome(q, values).sent.targets
                           = Outcome(AskingForModel(q), values).sent.targets
    BY DEF PathAndModelGoAlike
  <2>1. Serving(cfg, written)
    BY <1>1 DEF PipelineInv
  <2>2. PICK n : n = AskingForModel(q)
    OBVIOUS
  <2>3. RouteOf(n) = RouteOf(q) /\ n.op = q.op /\ n.path = <<>> /\ IsObject(n.body)
    BY <2>1, <2>2, AskedForModel DEF IsObject
  <2>4. Routed(q) /\ IsObject(q.body)
    BY DEF ByPath
  <2> QED
    BY <2>2, <2>3, <2>4, SameWay, SameAnswer
<1> QED
  BY <1>1, PipelineHolds, PTL
-----------------------------------------------------------------------------
(* The requests leave the configuration alone: the pipeline implements     *)
(* GatewayConfig, and what is proved of its behaviours holds while the     *)
(* gateway serves.                                                         *)
THEOREM ConfigImplemented == Spec => ConfigSpec
<1>1. Init => ConfigInit
  BY DEF Init
<1>2. [Next]_vars => [ConfigNext]_configVars
  BY DEF Next, ConfigNext, LoadConfig, StartProxy, HandleChatCompletions,
         HandleAudioTranscriptions, Serve, vars
<1> QED
  BY <1>1, <1>2, PTL DEF Spec, ConfigSpec
=============================================================================
