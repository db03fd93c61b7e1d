------------------------------ MODULE MCRequests ------------------------------
(* Two families of configurations: names, paths, kinds and endpoints       *)
(* written in many ways; and every list of up to three patches on a chat   *)
(* and an audio route, up to two where the chat route has an upstream      *)
(* model as well.                                                          *)
EXTENDS RequestPatches

MCLowerCase == "Random" :> "random" @@ "ASR" :> "asr" @@ "SET" :> "set" @@ "Think" :> "think"
MCDefaultBaseURL == <<"url">>
MCFloat64 == <<"2^53+1">> :> <<"2^53">>

Endpoint(name, url, key, forward, models) ==
    [name |-> name, baseURL |-> url, apiKey |-> key, forward |-> forward,
     timeout |-> 0, weight |-> 0, models |-> models]
RawRoute(name, path, kind, model, upstream, endpoints, patches) ==
    [name |-> name, path |-> path, kind |-> kind, model |-> model,
     upstreamModel |-> upstream, endpoints |-> endpoints, patches |-> patches,
     upstreamPath |-> IF name = <<"think">> THEN <<"special">> ELSE <<>>]
Config(strategy, url, key, endpoints, routes, map) ==
    [strategy |-> strategy, baseURL |-> url, timeout |-> Unset, apiKey |-> key,
     forward |-> Unset, modelMap |-> map, endpoints |-> endpoints, routes |-> routes]
Patch(op, path, value) == [op |-> op, path |-> path, value |-> value]

One == Leaf(<<"1">>)
Two == Leaf(<<"2">>)
Nested(key, n) == Obj(key :> n)
a == <<"a">>
b == <<"b">>

PatchPool ==
    {Patch(<<>>, <<"a", ".", "b">>, One),
     Patch(<<"SET">>, <<"a">>, Obj(b :> Two @@ <<"c">> :> One)),
     Patch(<<"delete", " ">>, <<" ", "a", ".", "b">>, One),
     Patch(<<"set">>, <<"a">>, Leaf(<<"2^53+1">>)),
     Patch(<<"set">>, <<"a", ".", ".", "b">>, Nested(b, One)),
     Patch(<<"set">>, <<"model">>, Leaf(<<"x">>)),
     Patch(<<"delete">>, <<"model">>, One),
     Patch(<<"set">>, <<".">>, One)}
PatchConfigsFor(up) ==
    {Config(Unset, Unset, <<>>, <<>>,
        <<RawRoute(<<>>, <<"think">>, <<>>, <<>>, up, {}, patches),
          RawRoute(<<"asr">>, <<"asr">>, <<"ASR">>, <<>>, <<"up">>, {}, patches)>>, <<>>) :
        patches \in SeqOf(PatchPool, IF up = <<>> THEN 3 ELSE 2)}
PatchConfigs == PatchConfigsFor(<<>>) \cup PatchConfigsFor(<<"up">>)

Paths == {<<"think">>, <<" ", "/", "think", "/">>, <<"think", "/", "x">>, <<"/">>,
          <<"/", " ", "think", "/">>}
Kinds == {<<>>, <<"chat", ".", "completions">>, <<"ASR", " ">>, <<"video">>}
NameLists == {{}, {<<" ">>}, {<<"e", " ">>}, {<<"e">>, <<"upstream", "-", "2">>}, {<<"f">>}}
EndpointLists ==
    {<<>>, <<Endpoint(<<"e", " ">>, <<"url">>, <<>>, Unset, {}),
             Endpoint(<<>>, <<"url", "2">>, <<"k">>, TRUE, {<<" ", "think">>})>>,
     <<Endpoint(<<"e">>, <<"url", "/">>, <<>>, Unset, {<<"only">>})>>,
     <<Endpoint(<<"e">>, <<"url">>, <<>>, Unset, {}), Endpoint(<<"f">>, <<"url", " ">>, <<>>, Unset, {})>>}
NamingConfigs ==
    {Config(d[1], d[2], <<"key">>, es,
        <<RawRoute(<<>>, p, k, m, <<>>, ns, <<>>),
          RawRoute(<<"think">>, <<"other">>, <<>>, p2, <<>>, {}, <<>>),
          RawRoute(<<"o">>, p2, <<>>, <<>>, <<>>, {}, <<>>)>>,
        <<"Think">> :> <<"real">>) :
        d \in {<<Unset, Unset>>, << <<"Random">>, <<>> >>}, es \in EndpointLists,
        p \in Paths, k \in Kinds, m \in {<<>>, <<"think">>}, ns \in NameLists,
        p2 \in {<<"/", "think">>, <<"o">>}}
(* The model names of docs/configuration.md.                               *)
DocumentedConfig ==
    Config(Unset, Unset, <<>>, <<>>, <<>>, <<"qwen3", ".", "6">> :> <<"qwen3.6-27b-w8a8">>)
MCRawConfigs == PatchConfigs \cup NamingConfigs \cup {DocumentedConfig}

Body(model, more) ==
    Obj((IF model = <<>> THEN <<>> ELSE <<"model">> :> Leaf(model)) @@ more)
Messages(msgs) == <<"messages">> :> List(msgs)
Request(op, form, path, body) == [op |-> op, form |-> form, path |-> path, body |-> body]
MCRequests ==
    {Request(Chat, FALSE, p, body) : p \in {<<>>, <<"think">>},
        body \in {Body(<<"think">>, a :> One @@ Messages(<<"u1", "s1", "u2", "s2">>)),
                  Body(<<"up">>, a :> Leaf(<<"2^53+1">>) @@ Messages(<<"s1", "u1">>))}}
    \cup {Request(Audio, FALSE, <<"asr">>, Body(<<>>, a :> Nested(b, Two))),
          Request(Audio, TRUE, <<"asr">>, Body(<<"asr">>, a :> Two)),
          Request(Audio, FALSE, <<>>, Body(<<"asr", " ">>, <<>>)),
          Request(Chat, FALSE, <<"think">>, Null),
          Request(Chat, FALSE, <<"think">>, Leaf(<<"text">>)),
          Request(Chat, FALSE, <<"nowhere">>, Body(<<>>, <<>>))}
=============================================================================
