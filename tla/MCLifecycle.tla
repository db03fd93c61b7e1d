----------------------------- MODULE MCLifecycle -----------------------------
(* One metered key; its chat requests go to an endpoint with a timeout,    *)
(* its audio requests to one without.                                      *)
EXTENDS Lifecycle

CONSTANTS s1, s2, metered

MCLegacyTokens == <<>>
MCAuthKeys == <<[raw |-> [bearer |-> TRUE, key |-> metered], quota |-> 2, disabled |-> FALSE]>>
MCStableID == [k \in {metered} |-> "key-m"]
MCEndpoints == <<[name |-> "a", weight |-> 1, models |-> {"qwen"}, timeout |-> 1],
                 [name |-> "b", weight |-> 1, models |-> {"asr"}, timeout |-> 0]>>
MCRoutes == <<>>
MCModelMap == [m \in {"qwen", "asr", "none"} |-> "none"]
Request(op, model) ==
    [op |-> op, cred |-> [bearer |-> TRUE, key |-> metered], path |-> "",
     model |-> model, body |-> "json"]
MCCalls == {Request(Chat, "qwen"), Request(Audio, "asr")}
=============================================================================
