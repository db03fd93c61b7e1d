----------------------------- MODULE MCChatProxy -----------------------------
(* Instances of ChatProxy for TLC: two goroutines, a metered key and an    *)
(* unlimited one, two endpoints, a chat and an audio route.                *)
EXTENDS ChatProxy, TLC

CONSTANTS s1, s2, s3, metered, free, wrong

Bearer(k) == [bearer |-> TRUE, key |-> k]
Bare(k) == [bearer |-> FALSE, key |-> k]

(* The metered key is configured twice; the second quota is not used.      *)
MCLegacyTokens == <<Bare(free)>>
MCAuthKeys == <<[raw |-> Bearer(metered), quota |-> 2, disabled |-> FALSE],
                [raw |-> Bare(metered), quota |-> 1, disabled |-> FALSE],
                [raw |-> Bare(wrong), quota |-> 0, disabled |-> TRUE]>>
MCStableID == [k \in {metered, free, wrong} |->
                CASE k = metered -> "key-m" [] k = free -> "key-f"
                  [] OTHER -> "key-w"]

MCEndpoints == <<[name |-> "a", weight |-> 2, models |-> {"qwen", "think"}, timeout |-> 1],
                 [name |-> "b", weight |-> 1, models |-> {"think", "asr"}, timeout |-> 1]>>
MCRoutes == <<[path |-> "think", kind |-> Chat, model |-> "think",
               upstreamModel |-> "qwen", endpoints |-> {}, patches |-> {"set"}],
              [path |-> "asr", kind |-> Audio, model |-> "asr",
               upstreamModel |-> "none", endpoints |-> {"b"}, patches |-> {}]>>
MCModelMap == [m \in {"qwen", "think", "asr", "none", "other"} |-> "none"]

Request(op, cred, path, model, body) ==
    [op |-> op, cred |-> cred, path |-> path, model |-> model, body |-> body]

(* The metered client's chat, audio and usage requests, a request with a   *)
(* disabled key, and requests that are refused on the way.                 *)
MeteredCalls ==
    {Request(Chat, Bearer(metered), "think", "other", "json"),
     Request(Chat, Bearer(wrong), "", "qwen", "json"),
     Request(Audio, Bare(metered), "", "asr", "form"),
     Request("usage", Bearer(metered), "", "none", "json")}
RefusedCalls ==
    {Request(Chat, Bearer(wrong), "", "qwen", "json"),
     Request(Chat, Bare(free), "nowhere", "qwen", "json"),
     Request(Chat, Bare(free), "asr", "qwen", "json"),
     Request(Chat, Bare(free), "think", "none", "invalid"),
     Request(Chat, Bare(free), "think", "none", "null"),
     Request(Chat, Bare(free), "", "other", "json"),
     Request("models", Bearer(free), "nowhere", "none", "json"),
     Request("models", Bearer(free), "", "none", "json")}
FreeCalls ==
    {Request(Chat, Bearer(free), "", "qwen", "json"),
     Request(Audio, Bearer(free), "asr", "none", "form")}
PathCalls == RefusedCalls \cup FreeCalls

MCTokens == {-1, 0, 1, 2}
FewTokens == {0, 2}
SlotSymmetry == Permutations(Slots)
=============================================================================
