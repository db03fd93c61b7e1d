------------------------------- MODULE BodyLog -------------------------------
(***************************************************************************)
(* What logging does to the bodies a handler passes on.  limitBody cuts a  *)
(* body for the log with append(b[:max], "...<truncated>"...): a Go slice  *)
(* shares its array with the slice it was cut from, so where the array has *)
(* room the mark is written over the body itself.  A slice is a record     *)
(* [len, cell]: cell is its array (DOMAIN cell its capacity), position i   *)
(* of a body as it was read holds i, the k-th byte of the mark is -k, and  *)
(* 0 is room that was never written.                                       *)
(***************************************************************************)
EXTENDS Integers, Sequences

CONSTANTS
    Logging,        \* cfg.Log.LogBody
    MaxBodySize,    \* cfg.Log.MaxBodySize
    MarkLen,        \* length of "...<truncated>"
    MaxLen,         \* the longest body
    MaxSpare        \* the most room an array has after its body

VARIABLES
    pc,         \* the step of the handler
    kind,       \* "chat", "audio" or "stream"
    body,       \* the body the handler works on, a slice
    logged,     \* the bytes of the last body in the log
    passed,     \* the bytes passed on last, upstream or to the client
    counted     \* the bytes usage.total_tokens was last looked for in

vars == <<pc, kind, body, logged, passed, counted>>

ASSUME SizesAssumption ==
    /\ Logging \in BOOLEAN /\ MaxBodySize \in Int
    /\ MarkLen \in Nat /\ MaxLen \in Nat /\ MaxSpare \in Nat

Bytes(slice) == [i \in 1..slice.len |-> slice.cell[i]]
AsRead(n) == [i \in 1..n |-> i]
Nothing == <<>>

(* io.ReadAll: a body of any length in an array with any room behind it.   *)
Slices ==
    {[len |-> n, cell |-> [i \in 1..(n + room) |-> IF i <= n THEN i ELSE 0]] :
        n \in 0..MaxLen, room \in 0..MaxSpare}

TooLong(slice) == MaxBodySize > 0 /\ slice.len > MaxBodySize
MarkAt(i) == i \in (MaxBodySize + 1)..(MaxBodySize + MarkLen)

(* What limitBody returns, and what it leaves in the array of its argument.*)
Limited(slice) ==
    IF TooLong(slice)
    THEN [i \in 1..(MaxBodySize + MarkLen) |->
            IF MarkAt(i) THEN MaxBodySize - i ELSE slice.cell[i]]
    ELSE Bytes(slice)
(* Slip: the body is cut off where its log entry is.                       *)
AfterCut(slice) ==
    IF TooLong(slice) THEN [slice EXCEPT !.len = MaxBodySize] ELSE slice
AfterLimit(slice) ==
    IF TooLong(slice) /\ MaxBodySize + MarkLen <= Len(slice.cell)
    THEN [slice EXCEPT !.cell = [i \in DOMAIN @ |->
            IF MarkAt(i) THEN MaxBodySize - i ELSE @[i]]]
    ELSE slice

Log(next) ==
    /\ IF Logging THEN logged' = Limited(body) /\ body' = AfterLimit(body)
       ELSE UNCHANGED <<logged, body>>
    /\ pc' = next
-----------------------------------------------------------------------------
Init ==
    /\ pc = "request" /\ kind \in {"chat", "audio", "stream"}
    /\ body \in Slices
    /\ logged = Nothing /\ passed = Nothing /\ counted = Nothing

(* Slip: audio bodies are logged like chat bodies.                         *)
LogEveryRequest ==
    /\ pc = "request"
    /\ Log("send")
    /\ UNCHANGED <<kind, passed, counted>>
(* The chat handler logs the request body; the audio handler never does.   *)
LogRequest ==
    /\ pc = "request"
    /\ IF kind = "audio" THEN pc' = "send" /\ UNCHANGED <<logged, body>>
       ELSE Log("send")
    /\ UNCHANGED <<kind, passed, counted>>

Send ==
    /\ pc = "send"
    /\ passed' = Bytes(body)
    /\ pc' = "answer"
    /\ UNCHANGED <<kind, body, logged, counted>>

(* An answer that is not a stream is read in full; lines of a stream are   *)
(* not logged.                                                             *)
Receive ==
    /\ pc = "answer" /\ kind # "stream"
    /\ body' \in Slices
    /\ passed' = Nothing /\ logged' = Nothing
    /\ pc' = "usage"
    /\ UNCHANGED <<kind, counted>>

(* Slip: the answer is logged before its usage is looked for.              *)
CountAfterLog ==
    /\ pc = "usage"
    /\ counted' = Bytes(AfterLimit(body))
    /\ pc' = "log"
    /\ UNCHANGED <<kind, body, logged, passed>>
Count ==
    /\ pc = "usage"
    /\ counted' = Bytes(body)
    /\ pc' = "log"
    /\ UNCHANGED <<kind, body, logged, passed>>

LogAnswer ==
    /\ pc = "log"
    /\ Log("write")
    /\ UNCHANGED <<kind, passed, counted>>

Write ==
    /\ pc = "write"
    /\ passed' = Bytes(body)
    /\ pc' = "done"
    /\ UNCHANGED <<kind, body, logged, counted>>

Next == LogRequest \/ Send \/ Receive \/ Count \/ LogAnswer \/ Write

Spec == Init /\ [][Next]_vars
-----------------------------------------------------------------------------
PassedOn == pc \in {"answer", "done"}

(* The log shows the first MaxBodySize bytes of a body as it was read,     *)
(* then the mark, or the whole of a body that is not longer.               *)
LogShowsPrefix ==
    Logging /\ (pc = "write" \/ (pc = "send" /\ kind # "audio")) =>
        logged = IF TooLong(body)
                 THEN AsRead(MaxBodySize) \o [k \in 1..MarkLen |-> -k]
                 ELSE AsRead(body.len)

(* What logging can spoil: only MarkLen bytes behind the limit, never the  *)
(* length, and nothing of a body that is not cut, is not logged or fills   *)
(* its array up.                                                           *)
DamageConfined ==
    PassedOn =>
        /\ Len(passed) = body.len
        /\ \A i \in DOMAIN passed :
              passed[i] # i => /\ Logging /\ TooLong(body) /\ MarkAt(i)
                               /\ Len(body.cell) >= MaxBodySize + MarkLen
                               /\ ~(kind = "audio" /\ pc = "answer")

(* Tokens are counted from the answer as the upstream sent it: handleNon-  *)
(* Stream and the audio handler charge before they log.                    *)
UsageReadIntact == pc \in {"log", "write", "done"} => counted = AsRead(Len(counted))

(* README: every field but the consumed reasoning fields passes unchanged. *)
PassedUnchanged == PassedOn => passed = AsRead(Len(passed))
=============================================================================
