---------------------------- MODULE BodyLogProofs ----------------------------
(***************************************************************************)
(* What logging does to bodies, for every limit, mark, length and spare    *)
(* capacity.  The invariant follows the body a handler holds back to the   *)
(* slice io.ReadAll returned: up to the log entry it is that slice, after  *)
(* it what limitBody leaves of it.                                         *)
(***************************************************************************)
EXTENDS BodyLog, TLAPS

Kinds == {"chat", "audio", "stream"}
Steps == {"request", "send", "answer", "usage", "log", "write", "done"}

(* The steps at which the body is as it was read, and those at which it    *)
(* went through the log.                                                   *)
Untouched ==
    pc \in {"request", "usage", "log"} \/ (kind = "audio" /\ pc \in {"send", "answer"})
LoggedFrom(read) ==
    IF Logging THEN logged = Limited(read) /\ body = AfterLimit(read)
    ELSE body = read

BodyInv ==
    /\ pc \in Steps /\ kind \in Kinds
    /\ Untouched => body \in Slices
    /\ ~Untouched => \E read \in Slices : LoggedFrom(read)
    /\ pc \in {"log", "write", "done"} => counted = AsRead(body.len)
    /\ pc \in {"answer", "done"} => passed = Bytes(body)
-----------------------------------------------------------------------------
(* A slice as it was read holds the bytes in their order.                  *)
LEMMA SliceShape ==
    ASSUME NEW read \in Slices
    PROVE  /\ read = [len |-> read.len, cell |-> read.cell]
           /\ read.len \in Nat /\ Len(read.cell) \in Nat /\ read.len <= Len(read.cell)
           /\ DOMAIN read.cell = 1..Len(read.cell)
           /\ \A i \in 1..read.len : read.cell[i] = i
           /\ Bytes(read) = AsRead(read.len)
<1>1. PICK n \in 0..MaxLen, room \in 0..MaxSpare :
        read = [len |-> n, cell |-> [i \in 1..(n + room) |-> IF i <= n THEN i ELSE 0]]
  BY DEF Slices
<1>2. /\ n \in Nat /\ n + room \in Nat /\ n <= n + room
  BY SizesAssumption
<1>3. /\ read.len = n /\ read.cell = [i \in 1..(n + room) |-> IF i <= n THEN i ELSE 0]
  BY <1>1
<1>4. Len(read.cell) = n + room /\ DOMAIN read.cell = 1..(n + room)
  BY <1>2, <1>3
<1>5. \A i \in 1..n : read.cell[i] = i
  BY <1>2, <1>3
<1>6. Bytes(read) = AsRead(n)
  BY <1>3, <1>5 DEF Bytes, AsRead
<1> QED
  BY <1>1, <1>2, <1>3, <1>4, <1>5, <1>6

(* What limitBody returns is the part it promises.                         *)
LEMMA LimitedShows ==
    ASSUME NEW read \in Slices
    PROVE  Limited(read) =
             IF TooLong(read) THEN AsRead(MaxBodySize) \o [k \in 1..MarkLen |-> -k]
             ELSE AsRead(read.len)
<1>1. CASE ~TooLong(read)
  BY <1>1, SliceShape DEF Limited
<1>2. CASE TooLong(read)
  <2> DEFINE shown == AsRead(MaxBodySize)
             mark == [k \in 1..MarkLen |-> -k]
             cut == [i \in 1..(MaxBodySize + MarkLen) |->
                       IF MarkAt(i) THEN MaxBodySize - i ELSE read.cell[i]]
  <2>1. /\ MaxBodySize \in Nat /\ MarkLen \in Nat /\ MaxBodySize < read.len
    BY <1>2, SizesAssumption, SliceShape DEF TooLong
  <2>2. shown \in Seq(Int) /\ Len(shown) = MaxBodySize
    BY <2>1 DEF AsRead
  <2>3. mark \in Seq(Int) /\ Len(mark) = MarkLen
    BY <2>1
  <2>4. /\ shown \o mark \in Seq(Int) /\ Len(shown \o mark) = MaxBodySize + MarkLen
    <3> HIDE DEF shown, mark
    <3> QED
      BY <2>1, <2>2, <2>3
  <2>5. ASSUME NEW i \in 1..(MaxBodySize + MarkLen)
        PROVE  (shown \o mark)[i] = cut[i]
    <3>1. CASE i <= MaxBodySize
      <4>1. i \in 1..Len(shown) /\ ~MarkAt(i) /\ i \in 1..read.len
        BY <2>1, <2>2, <3>1, SliceShape DEF MarkAt
      <4>2. (shown \o mark)[i] = shown[i]
        BY <2>2, <2>3, <4>1
      <4> QED
        BY <2>2, <4>1, <4>2, SliceShape DEF AsRead
    <3>2. CASE ~(i <= MaxBodySize)
      <4>1. i - MaxBodySize \in 1..MarkLen /\ MarkAt(i)
        BY <2>1, <3>2 DEF MarkAt
      <4>2. (shown \o mark)[i] = mark[i - MaxBodySize]
        BY <2>1, <2>2, <2>3, <3>2
      <4>3. mark[i - MaxBodySize] = -(i - MaxBodySize)
        BY <4>1
      <4>4. cut[i] = MaxBodySize - i
        BY <4>1
      <4> HIDE DEF shown, mark, cut
      <4> QED
        BY <2>1, <4>2, <4>3, <4>4
    <3> QED
      BY <3>1, <3>2
  <2>6. shown \o mark = [i \in 1..(MaxBodySize + MarkLen) |-> (shown \o mark)[i]]
    BY <2>1, <2>4
  <2>7. shown \o mark = cut
    BY <2>5, <2>6
  <2> QED
    BY <1>2, <2>7 DEF Limited
<1> QED
  BY <1>1, <1>2

(* What limitBody leaves of its argument: the same length and capacity,    *)
(* and other bytes only where there was room for the mark.                 *)
LEMMA LimitLeaves ==
    ASSUME NEW read \in Slices, NEW b, b = AfterLimit(read)
    PROVE  /\ b.len = read.len /\ DOMAIN b.cell = DOMAIN read.cell
           /\ Len(b.cell) = Len(read.cell)
           /\ \A i \in 1..read.len :
                 b.cell[i] # i => /\ TooLong(read) /\ MarkAt(i)
                                  /\ Len(read.cell) >= MaxBodySize + MarkLen
<1>1. CASE TooLong(read) /\ MaxBodySize + MarkLen <= Len(read.cell)
  <2> DEFINE spoilt == [i \in DOMAIN read.cell |->
                          IF MarkAt(i) THEN MaxBodySize - i ELSE read.cell[i]]
  <2>1. b = [read EXCEPT !.cell = spoilt]
    BY <1>1 DEF AfterLimit
  <2>2. b.len = read.len /\ b.cell = spoilt
    BY <2>1, SliceShape
  <2>3. DOMAIN b.cell = 1..Len(read.cell) /\ Len(b.cell) = Len(read.cell)
    BY <2>2, SliceShape
  <2>4. \A i \in 1..read.len : i \in DOMAIN read.cell
    BY SliceShape
  <2> QED
    BY <1>1, <2>2, <2>3, <2>4, SliceShape
<1>2. CASE ~(TooLong(read) /\ MaxBodySize + MarkLen <= Len(read.cell))
  BY <1>2, SliceShape DEF AfterLimit
<1> QED
  BY <1>1, <1>2

(* So a body that went through the log is as long as the one read, and     *)
(* too long for the log exactly if that was.                               *)
LEMMA LoggedShape ==
    ASSUME NEW read \in Slices, LoggedFrom(read)
    PROVE  /\ body.len = read.len /\ Len(body.cell) = Len(read.cell)
           /\ TooLong(body) <=> TooLong(read)
           /\ ~Logging => body = read
           /\ \A i \in 1..body.len :
                 body.cell[i] # i => /\ Logging /\ TooLong(body) /\ MarkAt(i)
                                     /\ Len(body.cell) >= MaxBodySize + MarkLen
BY LimitLeaves, SliceShape, SizesAssumption DEF LoggedFrom, TooLong
-----------------------------------------------------------------------------
LEMMA BodyInit == Init => BodyInv
BY DEF Init, BodyInv, Untouched, Kinds, Steps

(* Logging a body that is as it was read.                                  *)
LEMMA LogStep ==
    ASSUME NEW read \in Slices, body = read, NEW next, Log(next)
    PROVE  /\ LoggedFrom(read)'
           /\ body'.len = body.len /\ pc' = next
<1>1. LoggedFrom(read)' /\ pc' = next
  BY DEF Log, LoggedFrom, Limited, AfterLimit, TooLong, Bytes, MarkAt
<1>2. body'.len = body.len
  BY <1>1, LimitLeaves DEF LoggedFrom
<1> QED
  BY <1>1, <1>2

LEMMA BodyNext == BodyInv /\ [Next]_vars => BodyInv'
<1> SUFFICES ASSUME BodyInv, [Next]_vars PROVE BodyInv'
  OBVIOUS
<1>1. CASE LogRequest
  <2>1. CASE kind = "audio"
    BY <1>1, <2>1 DEF LogRequest, BodyInv, Untouched, Steps
  <2>2. CASE kind # "audio"
    <3>1. Log("send") /\ kind' = kind /\ body \in Slices
      BY <1>1, <2>2 DEF LogRequest, BodyInv, Untouched
    <3>2. PICK read \in Slices : body = read
      BY <3>1
    <3>3. LoggedFrom(read)' /\ pc' = "send"
      BY <3>1, <3>2, LogStep
    <3> QED
      BY <2>2, <3>1, <3>3 DEF BodyInv, Untouched, Steps
  <2> QED
    BY <2>1, <2>2
<1>2. CASE Send
  BY <1>2 DEF Send, BodyInv, Untouched, Steps, LoggedFrom, Bytes
<1>3. CASE Receive
  BY <1>3 DEF Receive, BodyInv, Untouched, Steps
<1>4. CASE Count
  <2>1. body \in Slices /\ Bytes(body) = AsRead(body.len)
    BY <1>4, SliceShape DEF Count, BodyInv, Untouched
  <2> QED
    BY <1>4, <2>1 DEF Count, BodyInv, Untouched, Steps
<1>5. CASE LogAnswer
  <2>1. /\ Log("write") /\ UNCHANGED <<kind, counted>> /\ body \in Slices
        /\ counted = AsRead(body.len)
    BY <1>5 DEF LogAnswer, BodyInv, Untouched
  <2>2. PICK read \in Slices : body = read
    BY <2>1
  <2>3. LoggedFrom(read)' /\ pc' = "write" /\ body'.len = body.len
    BY <2>1, <2>2, LogStep
  <2>4. counted' = AsRead(body.len)'
    BY <2>1, <2>3 DEF AsRead
  <2> QED
    BY <2>1, <2>3, <2>4 DEF BodyInv, Untouched, Steps
<1>6. CASE Write
  BY <1>6 DEF Write, BodyInv, Untouched, Steps, LoggedFrom, Bytes
<1>7. CASE UNCHANGED vars
  BY <1>7 DEF vars, BodyInv, Untouched, LoggedFrom, Bytes
<1> QED
  BY <1>1, <1>2, <1>3, <1>4, <1>5, <1>6, <1>7 DEF Next

LEMMA BodyInvariant == Spec => []BodyInv
BY BodyInit, BodyNext, PTL DEF Spec
-----------------------------------------------------------------------------
(* The log shows the first MaxBodySize bytes of a body as it was read and  *)
(* the mark, or the whole body (limitBody, logRequest, logResponse).       *)
THEOREM ShowsPrefix == Spec => []LogShowsPrefix
<1>1. BodyInv => LogShowsPrefix
  <2> SUFFICES ASSUME BodyInv, Logging, pc = "write" \/ (pc = "send" /\ kind # "audio")
               PROVE  logged = IF TooLong(body)
                               THEN AsRead(MaxBodySize) \o [k \in 1..MarkLen |-> -k]
                               ELSE AsRead(body.len)
    BY DEF LogShowsPrefix
  <2>1. PICK read \in Slices : LoggedFrom(read)
    BY DEF BodyInv, Untouched
  <2>2. logged = Limited(read)
    BY <2>1 DEF LoggedFrom
  <2> QED
    BY <2>1, <2>2, LimitedShows, LoggedShape
<1> QED
  BY <1>1, BodyInvariant, PTL

(* What logging can spoil of a body that is passed on: nothing but         *)
(* MarkLen bytes behind the limit of a body that was cut for the log in an *)
(* array with room.                                                        *)
THEOREM SpoilsOnlyBehindLimit == Spec => []DamageConfined
<1>1. BodyInv => DamageConfined
  <2> SUFFICES ASSUME BodyInv, PassedOn
               PROVE  /\ Len(passed) = body.len
                      /\ \A i \in DOMAIN passed :
                            passed[i] # i =>
                              /\ Logging /\ TooLong(body) /\ MarkAt(i)
                              /\ Len(body.cell) >= MaxBodySize + MarkLen
                              /\ ~(kind = "audio" /\ pc = "answer")
    BY DEF DamageConfined
  <2>1. passed = [i \in 1..body.len |-> body.cell[i]]
    BY DEF BodyInv, PassedOn, Bytes
  <2>2. CASE Untouched
    <3>1. body \in Slices
      BY <2>2 DEF BodyInv
    <3> QED
      BY <2>1, <3>1, SliceShape
  <2>3. CASE ~Untouched
    <3>1. PICK read \in Slices : LoggedFrom(read)
      BY <2>3 DEF BodyInv
    <3>2. body.len \in Nat
      BY <3>1, LoggedShape, SliceShape
    <3> QED
      BY <2>1, <2>3, <3>1, <3>2, LoggedShape DEF Untouched
  <2> QED
    BY <2>2, <2>3
<1> QED
  BY <1>1, BodyInvariant, PTL

(* Tokens are counted in the answer as it was read, before the log can     *)
(* spoil it (handleNonStream, HandleAudioTranscriptions).                  *)
THEOREM CountsUnspoilt == Spec => []UsageReadIntact
<1>1. BodyInv => UsageReadIntact
  <2> SUFFICES ASSUME BodyInv, pc \in {"log", "write", "done"}
               PROVE  counted = AsRead(Len(counted))
    BY DEF UsageReadIntact
  <2>1. counted = AsRead(body.len)
    BY DEF BodyInv
  <2>2. body.len \in Nat
    <3>1. CASE Untouched
      BY <3>1, SliceShape DEF BodyInv
    <3>2. CASE ~Untouched
      BY <3>2, LoggedShape, SliceShape DEF BodyInv
    <3> QED
      BY <3>1, <3>2
  <2> QED
    BY <2>1, <2>2 DEF AsRead
<1> QED
  BY <1>1, BodyInvariant, PTL
=============================================================================
