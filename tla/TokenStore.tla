----------------------------- MODULE TokenStore -----------------------------
(***************************************************************************)
(* internal/auth: the keys a gateway accepts, the quota of each key and    *)
(* the tokens charged to it.  The keys come from the configuration; the    *)
(* charged tokens live only in the process (TokenStore.used).              *)
(*                                                                         *)
(* A credential is a record [bearer, key]: the header value with or        *)
(* without the "Bearer " scheme word, and the secret after it (NoKey for   *)
(* an empty one).                                                          *)
(***************************************************************************)
EXTENDS Integers, Sequences, FiniteSets

CONSTANTS
    AuthEnabled,    \* cfg.Auth.Enabled
    LegacyTokens,   \* cfg.Auth.Tokens, a sequence of credentials
    AuthKeys,       \* cfg.Auth.Keys, a sequence of [raw, quota, disabled]
    NoKey,          \* the empty secret
    StableID,       \* function from secrets to client ids (truncated sha256)
    Anonymous,      \* the client id used when authentication is off
    MaxInt64        \* the largest value of Go's int64

VARIABLE
    used            \* used[c]: tokens charged to client c so far

-----------------------------------------------------------------------------
(* "Bearer" alone loses its trailing space to TrimSpace and is then taken  *)
(* for a secret of its own.                                                *)
NormalizeToken(raw) ==
    IF raw.bearer /\ raw.key = NoKey THEN "Bearer" ELSE raw.key

(* What NewTokenStore offers to its add closure, in order.                 *)
Offered ==
    [i \in DOMAIN LegacyTokens |->
        [raw |-> LegacyTokens[i], quota |-> 0, disabled |-> FALSE]] \o AuthKeys

Secret(i) == NormalizeToken(Offered[i].raw)
Eligible(i) == ~Offered[i].disabled /\ Secret(i) # NoKey

(* The first eligible occurrence of a secret wins; a later one is dropped. *)
Entries ==
    {i \in DOMAIN Offered :
        /\ Eligible(i)
        /\ \A j \in 1..(i - 1) : Eligible(j) => Secret(j) # Secret(i)}

ClientOf(i) == StableID[Secret(i)]
KeyClients == {ClientOf(i) : i \in Entries}
Clients == KeyClients \cup {Anonymous}

(* The quota Snapshot and Authenticate see for a client; a client without  *)
(* an entry is unlimited, and so is one whose quota is not positive.       *)
Quota(c) ==
    IF c \in KeyClients
    THEN Offered[CHOOSE i \in Entries : ClientOf(i) = c].quota
    ELSE 0
Limited(c) == Quota(c) > 0

-----------------------------------------------------------------------------
(* Authenticate: which entry a header value matches, if any.               *)
Matches(raw) == {i \in Entries : Secret(i) = NormalizeToken(raw)}
Rejected(raw) == AuthEnabled /\ Matches(raw) = {}
ClientFor(raw) ==
    IF AuthEnabled THEN ClientOf(CHOOSE i \in Matches(raw) : TRUE)
    ELSE Anonymous

(* Slip: a client may start one more request at its limit.                 *)
ExhaustedPastLimit(c) == Limited(c) /\ used[c] > Quota(c)
Exhausted(c) == Limited(c) /\ used[c] >= Quota(c)

(* Slip: a counter of unbounded width.                                     *)
AddUnbounded(a, b) == a + b
(* Go's int64 addition of two values when the second is not negative.      *)
AddInt64(a, b) ==
    IF a + b > MaxInt64 THEN a + b - 2 * (MaxInt64 + 1) ELSE a + b
Int64 == -(MaxInt64 + 1) .. MaxInt64

RecordUsage(c, tokens) ==
    used' = [used EXCEPT ![c] = AddInt64(@, IF tokens < 0 THEN 0 ELSE tokens)]

TokenStoreInit == used = [c \in Clients |-> 0]
=============================================================================
