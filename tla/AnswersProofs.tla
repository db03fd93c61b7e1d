---------------------------- MODULE AnswersProofs ----------------------------
(***************************************************************************)
(* Proofs about the answers of an upstream, for every stream of lines and  *)
(* every message: what is charged and what the client reads.               *)
(***************************************************************************)
EXTENDS Answers, TextProofs
-----------------------------------------------------------------------------
(* The lines of a stream.                                                  *)
Payload == [json : BOOLEAN, moved : BOOLEAN, usage : Nat]
EventName == Names \cup {"message"}
Event == [name : EventName, data : Seq(Payload)]
Parser == [events : Seq(Event), next : Event]
AnyLine ==
    {Blank, Line("comment", ""), Line("unknown", "")}
      \cup {Line("event", n) : n \in Names} \cup {Line("data", p) : p \in Payload}

LEMMA LinesTyped == Lines \subseteq AnyLine /\ Rests \subseteq AnyLine
<1>1. Payloads \subseteq Payload
  BY PayloadsAssumption DEF Payload
<1>2. Cut \in Payload
  BY DEF Cut, Payload
<1> QED
  BY <1>1, <1>2 DEF Lines, Rests, AnyLine

LEMMA KindOfLine ==
    ASSUME NEW line \in AnyLine
    PROVE  /\ line.field = "blank" <=> line = Blank
           /\ line.field = "data" => line.value \in Payload
           /\ line.field = "event" => line.value \in Names
<1>1. \A f, v : Line(f, v).field = f /\ Line(f, v).value = v
  BY DEF Line
<1>2. Blank.field = "blank"
  BY <1>1 DEF Blank
<1>3. ASSUME NEW f \in {"comment", "unknown"}, line = Line(f, "")
      PROVE  line.field = f /\ line # Blank
  BY <1>1, <1>2, <1>3
<1>4. ASSUME NEW n \in Names, line = Line("event", n)
      PROVE  line.field = "event" /\ line.value \in Names /\ line # Blank
  BY <1>1, <1>2, <1>4
<1>5. ASSUME NEW p \in Payload, line = Line("data", p)
      PROVE  line.field = "data" /\ line.value \in Payload /\ line # Blank
  BY <1>1, <1>2, <1>5
<1> QED
  BY <1>2, <1>3, <1>4, <1>5 DEF AnyLine

LEMMA NormalizedTyped ==
    ASSUME NEW p \in Payload PROVE NormalizeData(p) \in Payload
BY DEF NormalizeData, Payload

LEMMA NothingReadTyped ==
    NothingRead \in Parser /\ NoEvent \in Event /\ NoEvent.data = <<>>
BY EmptySeq DEF NothingRead, NoEvent, Parser, Event, EventName

(* Each kind of line, as a client takes it.                                *)
LEMMA BlankParsed ==
    ASSUME NEW acc \in Parser
    PROVE  /\ acc.next.data # <<>> =>
                 ParseLine(acc, Blank) = [events |-> Append(acc.events, acc.next),
                                          next |-> NoEvent]
           /\ acc.next.data = <<>> =>
                 ParseLine(acc, Blank) = [events |-> acc.events, next |-> NoEvent]
BY DEF ParseLine, Blank, Line, Parser

LEMMA EventParsed ==
    ASSUME NEW acc \in Parser, NEW n \in Names
    PROVE  ParseLine(acc, Line("event", n)) =
             [events |-> acc.events, next |-> [name |-> n, data |-> acc.next.data]]
BY DEF ParseLine, Line, Parser, Event

LEMMA DataParsed ==
    ASSUME NEW acc \in Parser, NEW p \in Payload
    PROVE  ParseLine(acc, Line("data", p)) =
             [events |-> acc.events,
              next |-> [name |-> acc.next.name, data |-> Append(acc.next.data, p)]]
BY DEF ParseLine, Line, Parser, Event

LEMMA OtherParsed ==
    ASSUME NEW acc, NEW f \in {"comment", "unknown"}
    PROVE  ParseLine(acc, Line(f, "")) = acc
BY DEF ParseLine, Line

LEMMA ParseTyped ==
    ASSUME NEW acc \in Parser, NEW line \in AnyLine
    PROVE  ParseLine(acc, line) \in Parser
<1>1. acc.events \in Seq(Event) /\ acc.next \in Event
      /\ acc.next.name \in EventName /\ acc.next.data \in Seq(Payload)
  BY DEF Parser, Event
<1>0. /\ \A es \in Seq(Event) : \A e \in Event : [events |-> es, next |-> e] \in Parser
      /\ \A n \in EventName : \A d \in Seq(Payload) : [name |-> n, data |-> d] \in Event
  BY DEF Parser, Event
<1>2. CASE line = Blank
  <2>1. Append(acc.events, acc.next) \in Seq(Event)
    BY <1>1, AppendProperties
  <2> QED
    BY <1>0, <1>1, <1>2, <2>1, BlankParsed, NothingReadTyped
<1>3. ASSUME NEW n \in Names, line = Line("event", n) PROVE ParseLine(acc, line) \in Parser
  <2>1. n \in EventName
    BY DEF EventName
  <2> QED
    BY <1>0, <1>1, <1>3, <2>1, EventParsed
<1>4. ASSUME NEW p \in Payload, line = Line("data", p) PROVE ParseLine(acc, line) \in Parser
  <2>1. Append(acc.next.data, p) \in Seq(Payload)
    BY <1>1, AppendProperties
  <2> QED
    BY <1>0, <1>1, <1>4, <2>1, DataParsed
<1>5. ASSUME NEW f \in {"comment", "unknown"}, line = Line(f, "")
      PROVE  ParseLine(acc, line) \in Parser
  BY <1>5, OtherParsed
<1> QED
  BY <1>2, <1>3, <1>4, <1>5 DEF AnyLine

(* What the client makes of what is written for a line: an event of its    *)
(* own for data, otherwise what the line itself is.                        *)
LEMMA WrittenParsed ==
    ASSUME NEW acc \in Parser, NEW line \in AnyLine
    PROVE  /\ line.field # "data" => ParseWritten(acc, Write(line)) = ParseLine(acc, line)
           /\ line.field = "data" =>
                ParseWritten(acc, Write(line)) =
                  [events |-> Append(acc.events,
                                [name |-> acc.next.name,
                                 data |-> Append(acc.next.data, NormalizeData(line.value))]),
                   next |-> NoEvent]
<1>1. \A x, y : /\ Len(<<x>>) = 1 /\ <<x>>[1] = x /\ <<x>> # <<>>
                /\ Len(<<x, y>>) = 2 /\ <<x, y>>[1] = x /\ <<x, y>>[2] = y /\ <<x, y>> # <<>>
  OBVIOUS
<1>2. CASE line.field # "data"
  <2>1. Write(line) = <<line>>
    BY <1>2 DEF Write
  <2> QED
    BY <1>1, <1>2, <2>1 DEF ParseWritten
<1>3. CASE line.field = "data"
  <2> DEFINE p == NormalizeData(line.value)
             first == ParseLine(acc, Line("data", p))
  <2>1. line.value \in Payload /\ p \in Payload
    BY <1>3, KindOfLine, NormalizedTyped
  <2>2. Write(line) = <<Line("data", p), Blank>>
    BY <1>3 DEF Write
  <2>3. ParseWritten(acc, Write(line)) = ParseLine(first, Blank)
    <3>1. \A l \in {Write(line)} : Len(l) = 2 /\ l # <<>> /\ l[1] = Line("data", p) /\ l[2] = Blank
      BY <1>1, <2>2
    <3> QED
      BY <3>1 DEF ParseWritten
  <2>4. Line("data", p) \in AnyLine
    BY <2>1 DEF AnyLine
  <2>5. first \in Parser
    BY <2>4, ParseTyped
  <2>6. first = [events |-> acc.events,
                 next |-> [name |-> acc.next.name, data |-> Append(acc.next.data, p)]]
    BY <2>1, DataParsed
  <2>7. Append(acc.next.data, p) # <<>>
    <3>1. acc.next.data \in Seq(Payload)
      BY DEF Parser, Event
    <3> QED
      BY <3>1, <2>1, AppendProperties
  <2> HIDE DEF first, p
  <2>8. ParseLine(first, Blank) = [events |-> Append(first.events, first.next), next |-> NoEvent]
    BY <2>5, <2>6, <2>7, BlankParsed
  <2> QED
    BY <1>3, <2>3, <2>6, <2>8 DEF p
<1> QED
  BY <1>2, <1>3

-----------------------------------------------------------------------------
(* A step of the answer is a step of the lines or leaves them alone.       *)
LEMMA LinesAct == [Next]_vars => LinesNext \/ UNCHANGED lineVars
BY DEF Next, vars, Forward, HandleNonStream, HandleStream

LinesTypeInv ==
    /\ arrived \in Seq(AnyLine) /\ data \in Seq(Payload)
    /\ direct \in Parser /\ read \in Parser

LEMMA HandleTyped ==
    ASSUME LinesTypeInv, NEW line \in AnyLine, Handle(line)
    PROVE  LinesTypeInv'
<1>1. arrived' \in Seq(AnyLine)
  BY AppendProperties DEF LinesTypeInv, Handle
<1>2. data' \in Seq(Payload)
  <2>1. CASE line.field = "data"
    BY <2>1, KindOfLine, AppendProperties DEF LinesTypeInv, Handle
  <2>2. CASE line.field # "data"
    BY <2>2 DEF LinesTypeInv, Handle
  <2> QED
    BY <2>1, <2>2
<1>3. direct' \in Parser
  BY ParseTyped DEF LinesTypeInv, Handle
<1>4. read' \in Parser
  <2>1. read' = ParseWritten(read, Write(line)) /\ read \in Parser
    BY DEF Handle, LinesTypeInv
  <2>2. CASE line.field # "data"
    BY <2>1, <2>2, WrittenParsed, ParseTyped
  <2>3. CASE line.field = "data"
    <3> DEFINE p == NormalizeData(line.value)
               e == [name |-> read.next.name, data |-> Append(read.next.data, p)]
    <3>1. p \in Payload
      BY <2>3, KindOfLine, NormalizedTyped
    <3>2. read' = [events |-> Append(read.events, e), next |-> NoEvent]
      BY <2>1, <2>3, WrittenParsed
    <3>3. read.events \in Seq(Event) /\ read.next.name \in EventName
          /\ read.next.data \in Seq(Payload)
      BY <2>1 DEF Parser, Event
    <3>4. Append(read.next.data, p) \in Seq(Payload)
      BY <3>1, <3>3, AppendProperties
    <3>5. e \in Event
      BY <3>3, <3>4 DEF Event
    <3> HIDE DEF e
    <3>6. Append(read.events, e) \in Seq(Event)
      BY <3>3, <3>5, AppendProperties
    <3> QED
      BY <3>2, <3>6, NothingReadTyped DEF Parser
  <2> QED
    BY <2>2, <2>3
<1> QED
  BY <1>1, <1>2, <1>3, <1>4 DEF LinesTypeInv

LEMMA LinesTypeInit == LinesInit => LinesTypeInv
BY NothingReadTyped, EmptySeq DEF LinesInit, LinesTypeInv

(* Every step of the lines handles a line, or ends the stream between two. *)
LEMMA LinesSteps ==
    ASSUME LinesNext
    PROVE  /\ Streaming
           /\ \/ \E line \in AnyLine :
                    Handle(line) /\ (UNCHANGED charged \/ charged' = totalTokens')
              \/ charged' = totalTokens
                 /\ UNCHANGED <<arrived, data, direct, read, totalTokens>>
BY LinesTyped DEF LinesNext, ReadLine, ReadRest, ReadNothing

LEMMA LinesTypeNext == LinesTypeInv /\ [Next]_vars => LinesTypeInv'
<1> SUFFICES ASSUME LinesTypeInv, [Next]_vars PROVE LinesTypeInv'
  OBVIOUS
<1>1. CASE LinesNext
  BY <1>1, LinesSteps, HandleTyped DEF LinesTypeInv
<1>2. CASE UNCHANGED lineVars
  BY <1>2 DEF LinesTypeInv, lineVars
<1> QED
  BY <1>1, <1>2, LinesAct
-----------------------------------------------------------------------------
(* The usage seen so far is that of the last report.                       *)
LastUsage == IF Reports = {} THEN 0 ELSE data[Max(Reports)].usage
UsageInv ==
    /\ totalTokens = LastUsage
    /\ ~Streaming => charged = totalTokens

LEMMA ReportsGrow ==
    ASSUME LinesTypeInv, NEW p \in Payload, data' = Append(data, p)
    PROVE  LastUsage' = IF p.usage > 0 THEN p.usage ELSE LastUsage
<1> DEFINE n == Len(data) + 1
<1>1. /\ data \in Seq(Payload) /\ DOMAIN data = 1..Len(data) /\ Len(data) \in Nat
      /\ data' \in Seq(Payload) /\ DOMAIN data' = 1..n
      /\ \A i \in 1..Len(data) : data'[i] = data[i]
      /\ data'[n] = p
  BY AppendProperties DEF LinesTypeInv
<1>2. Reports \in SUBSET Nat /\ \A i \in Reports : i \in 1..Len(data) /\ i <= n
  BY <1>1 DEF Reports
<1>3. Reports' = IF p.usage > 0 THEN Reports \cup {n} ELSE Reports
  <2>1. \A i \in DOMAIN data' : i \in 1..Len(data) \/ i = n
    BY <1>1
  <2>2. \A i \in 1..Len(data) : i \in DOMAIN data' /\ data'[i].usage = data[i].usage
    BY <1>1
  <2>3. n \in DOMAIN data' /\ n \notin 1..Len(data)
    BY <1>1
  <2> HIDE DEF n
  <2> QED
    BY <1>1, <2>1, <2>2, <2>3 DEF Reports
<1>4. CASE p.usage > 0
  <2>1. Reports' = Reports \cup {n} /\ n \in Nat
    BY <1>1, <1>3, <1>4
  <2>2. Max(Reports') \in Reports' /\ \A k \in Reports' : k <= Max(Reports')
    <3> HIDE DEF n
    <3>1. Reports' \in SUBSET Nat /\ Reports' # {} /\ \A k \in Reports' : k <= n
      <4>1. \A k \in Reports : k \in Nat /\ k <= n
        BY <1>2
      <4>2. n <= n
        BY <2>1
      <4> QED
        BY <2>1, <4>1, <4>2
    <3> QED
      BY <2>1, <3>1, GreatestPosition
  <2>3. Max(Reports') = n
    <3>1. n <= Max(Reports') /\ Max(Reports') <= n /\ Max(Reports') \in Nat
      BY <1>2, <2>1, <2>2
    <3> HIDE DEF n
    <3> QED
      BY <2>1, <3>1
  <2>4. LastUsage' = data'[n].usage
    BY <2>1, <2>3 DEF LastUsage
  <2> QED
    BY <1>1, <1>4, <2>4
<1>5. CASE ~(p.usage > 0)
  <2>1. Reports' = Reports
    BY <1>3, <1>5
  <2>2. CASE Reports = {}
    BY <1>5, <2>1, <2>2 DEF LastUsage
  <2>3. CASE Reports # {}
    <3>1. Max(Reports) \in Reports
      <4>1. n \in Nat /\ \A k \in Reports : k <= n
        BY <1>1, <1>2
      <4> HIDE DEF n
      <4> QED
        BY <1>2, <2>3, <4>1, GreatestPosition
    <3>2. data'[Max(Reports)] = data[Max(Reports)]
      BY <1>1, <1>2, <3>1
    <3>3. LastUsage' = data'[Max(Reports')].usage /\ LastUsage = data[Max(Reports)].usage
      BY <2>1, <2>3 DEF LastUsage
    <3> QED
      BY <1>5, <2>1, <3>2, <3>3
  <2> QED
    BY <2>2, <2>3
<1> QED
  BY <1>4, <1>5

LEMMA UsageHandled ==
    ASSUME LinesTypeInv, UsageInv, NEW line \in AnyLine, Handle(line)
    PROVE  totalTokens' = LastUsage'
<1>1. CASE line.field = "data"
  <2>1. line.value \in Payload /\ data' = Append(data, line.value)
    BY <1>1, KindOfLine DEF Handle
  <2>2. LastUsage' = IF line.value.usage > 0 THEN line.value.usage ELSE LastUsage
    BY <2>1, ReportsGrow
  <2> QED
    BY <1>1, <2>2 DEF Handle, Tokens, UsageInv
<1>2. CASE line.field # "data"
  <2>1. data' = data /\ totalTokens' = totalTokens
    BY <1>2 DEF Handle, Tokens
  <2> QED
    BY <2>1 DEF UsageInv, LastUsage, Reports
<1> QED
  BY <1>1, <1>2

LEMMA UsageNext == LinesTypeInv /\ UsageInv /\ [Next]_vars => UsageInv'
<1> SUFFICES ASSUME LinesTypeInv, UsageInv, [Next]_vars PROVE UsageInv'
  OBVIOUS
<1>1. CASE LinesNext
  <2>1. Streaming
    BY <1>1, LinesSteps
  <2>2. ASSUME NEW line \in AnyLine, Handle(line),
               UNCHANGED charged \/ charged' = totalTokens'
        PROVE  UsageInv'
    BY <2>1, <2>2, UsageHandled DEF UsageInv, Streaming
  <2>3. ASSUME charged' = totalTokens, UNCHANGED <<arrived, data, direct, read, totalTokens>>
        PROVE  UsageInv'
    BY <2>3 DEF UsageInv, LastUsage, Reports
  <2> QED
    BY <1>1, <2>2, <2>3, LinesSteps
<1>2. CASE UNCHANGED lineVars
  BY <1>2 DEF UsageInv, lineVars, LastUsage, Reports, Streaming
<1> QED
  BY <1>1, <1>2, LinesAct

(* However a stream ends, what recordUsage is called with is the usage of  *)
(* the last data line that reported one, wherever it stood and for streams *)
(* of any length.                                                          *)
THEOREM LastReportCharged == Spec => []ChargedAsReported
<1>1. Init => LinesTypeInv /\ UsageInv
  <2>1. LinesInit => UsageInv
    <3>1. DOMAIN <<>> = {}
      BY EmptySeq
    <3>2. LinesInit => Reports = {}
      BY <3>1 DEF LinesInit, Reports
    <3> QED
      BY <3>2 DEF LinesInit, UsageInv, LastUsage, Streaming
  <2> QED
    BY <2>1, LinesTypeInit DEF Init
<1>2. LinesTypeInv /\ UsageInv /\ [Next]_vars => (LinesTypeInv /\ UsageInv)'
  BY LinesTypeNext, UsageNext
<1>3. UsageInv => ChargedAsReported
  BY DEF UsageInv, ChargedAsReported, LastUsage
<1> QED
  BY <1>1, <1>2, <1>3, PTL DEF Spec

-----------------------------------------------------------------------------
(* Of what was written for the lines so far the client has read an event   *)
(* per data line, and has begun no data of a next one.                     *)
DataInv ==
    /\ read.next.data = <<>>
    /\ DataInOrder

LEMMA DataHandled ==
    ASSUME LinesTypeInv, DataInv, NEW line \in AnyLine, Handle(line)
    PROVE  DataInv'
<1>1. read \in Parser /\ read' = ParseWritten(read, Write(line))
      /\ read.events \in Seq(Event) /\ read.next \in Event
  BY DEF LinesTypeInv, Handle, Parser
<1>2. /\ data \in Seq(Payload) /\ Len(data) \in Nat /\ DOMAIN data = 1..Len(data)
      /\ Len(read.events) = Len(data) /\ read.next.data = <<>>
      /\ \A i \in DOMAIN data : read.events[i].data = <<NormalizeData(data[i])>>
  BY DEF LinesTypeInv, DataInv, DataInOrder
<1>3. CASE line.field = "data"
  <2> DEFINE p == line.value
             e == [name |-> read.next.name,
                   data |-> Append(read.next.data, NormalizeData(p))]
  <2>1. p \in Payload /\ NormalizeData(p) \in Payload
    BY <1>3, KindOfLine, NormalizedTyped
  <2>2. data' = Append(data, p)
    BY <1>3 DEF Handle
  <2>3. read' = [events |-> Append(read.events, e), next |-> NoEvent]
    BY <1>1, <1>3, WrittenParsed
  <2>4. e.data = <<NormalizeData(p)>>
    BY <1>2
  <2>5. e \in Event
    <3>1. read.next.name \in EventName /\ Append(read.next.data, NormalizeData(p)) \in Seq(Payload)
      BY <1>1, <2>1, AppendProperties DEF Event
    <3> QED
      BY <3>1 DEF Event
  <2> HIDE DEF p, e
  <2>6. /\ Len(data') = Len(data) + 1 /\ DOMAIN data' = 1..(Len(data) + 1)
        /\ data'[Len(data) + 1] = p /\ \A i \in 1..Len(data) : data'[i] = data[i]
    BY <1>2, <2>1, <2>2, AppendProperties
  <2>7. /\ Len(read'.events) = Len(data) + 1
        /\ read'.events[Len(data) + 1] = e
        /\ \A i \in 1..Len(data) : read'.events[i] = read.events[i]
    <3>1. read'.events = Append(read.events, e)
      BY <2>3
    <3> QED
      BY <1>1, <1>2, <2>5, <3>1, AppendProperties
  <2>8. ASSUME NEW i \in DOMAIN data' PROVE read'.events[i].data = <<NormalizeData(data'[i])>>
    <3>1. CASE i \in 1..Len(data)
      BY <1>2, <2>6, <2>7, <3>1
    <3>2. CASE i = Len(data) + 1
      BY <2>4, <2>6, <2>7, <3>2
    <3> QED
      BY <1>2, <2>6, <3>1, <3>2
  <2>9. read'.next.data = <<>>
    BY <2>3, NothingReadTyped
  <2> QED
    BY <2>6, <2>7, <2>8, <2>9 DEF DataInv, DataInOrder
<1>4. CASE line.field # "data"
  <2>1. read' = ParseLine(read, line) /\ data' = data
    BY <1>1, <1>4, WrittenParsed DEF Handle
  <2>2. read'.events = read.events /\ read'.next.data = <<>>
    <3>1. CASE line = Blank
      BY <1>1, <1>2, <2>1, <3>1, BlankParsed, NothingReadTyped
    <3>2. ASSUME NEW n \in Names, line = Line("event", n)
          PROVE  read'.events = read.events /\ read'.next.data = <<>>
      BY <1>1, <1>2, <2>1, <3>2, EventParsed
    <3>3. ASSUME NEW f \in {"comment", "unknown"}, line = Line(f, "")
          PROVE  read'.events = read.events /\ read'.next.data = <<>>
      BY <1>2, <2>1, <3>3, OtherParsed
    <3>4. ASSUME NEW p \in Payload, line = Line("data", p) PROVE FALSE
      BY <1>4, <3>4 DEF Line
    <3> QED
      BY <3>1, <3>2, <3>3, <3>4 DEF AnyLine
  <2> QED
    BY <2>1, <2>2 DEF DataInv, DataInOrder
<1> QED
  BY <1>3, <1>4

LEMMA DataNext == LinesTypeInv /\ DataInv /\ [Next]_vars => DataInv'
<1> SUFFICES ASSUME LinesTypeInv, DataInv, [Next]_vars PROVE DataInv'
  OBVIOUS
<1>1. CASE LinesNext
  BY <1>1, LinesSteps, DataHandled DEF DataInv, DataInOrder
<1>2. CASE UNCHANGED lineVars
  BY <1>2 DEF DataInv, DataInOrder, lineVars
<1> QED
  BY <1>1, <1>2, LinesAct

LEMMA DataInit == LinesInit => DataInv
<1>1. Len(<<>>) = 0 /\ DOMAIN <<>> = {}
  BY EmptySeq
<1> QED
  BY <1>1 DEF LinesInit, DataInv, DataInOrder, NothingRead, NoEvent

(* For any upstream and a stream of any length the client reads every data *)
(* line as an event of its own, in the order they came: the blank line the *)
(* gateway writes behind each ends the event, whatever stands around it.   *)
THEOREM EveryDataLineRead == Spec => []DataInOrder
<1>1. Init => LinesTypeInv /\ DataInv
  BY LinesTypeInit, DataInit DEF Init
<1>2. LinesTypeInv /\ DataInv /\ [Next]_vars => (LinesTypeInv /\ DataInv)'
  BY LinesTypeNext, DataNext
<1>3. DataInv => DataInOrder
  BY DEF DataInv
<1> QED
  BY <1>1, <1>2, <1>3, PTL DEF Spec

-----------------------------------------------------------------------------
(* A client of the upstream has data it still waits to read as an event    *)
(* only while the last data line has no blank line behind it.  While the   *)
(* data of every event are one line, the last but comments, the client of  *)
(* the gateway is ahead by that event.                                     *)
Normalized(es) == [i \in DOMAIN es |-> NormalizedEvent(es[i])]
WaitingSince(i) ==
    arrived[i].field = "data" /\ \A k \in DOMAIN arrived : i <= k => arrived[k] # Blank
Level ==
    /\ direct.next.data = <<>> /\ read.next = direct.next
    /\ read.events = Normalized(direct.events)
Ahead ==
    /\ direct.next.data # <<>> /\ read.next = NoEvent
    /\ read.events = Normalized(Append(direct.events, direct.next))
EventsInv ==
    /\ direct.next.data # <<>> => \E i \in DOMAIN arrived : WaitingSince(i)
    /\ DataLast(arrived) => Level \/ Ahead

LEMMA NormalizedAppend ==
    ASSUME NEW es \in Seq(Event), NEW e \in Event
    PROVE  Normalized(Append(es, e)) = Append(Normalized(es), NormalizedEvent(e))
<1> DEFINE both == es \o <<e>>
<1>1. /\ Append(es, e) \in Seq(Event) /\ Len(Append(es, e)) = Len(es) + 1
      /\ \A i \in 1..Len(es) : Append(es, e)[i] = es[i]
      /\ Append(es, e)[Len(es) + 1] = e
      /\ Len(es) \in Nat /\ DOMAIN es = 1..Len(es)
      /\ DOMAIN Append(es, e) = 1..(Len(es) + 1)
  BY AppendProperties
<1> DEFINE S == {NormalizedEvent(x) : x \in Event}
           ns == Normalized(es)
           ne == NormalizedEvent(e)
<1>2. ns \in Seq(S) /\ Len(ns) = Len(es) /\ \A i \in 1..Len(es) : ns[i] = NormalizedEvent(es[i])
  <2>1. ns = [i \in 1..Len(es) |-> NormalizedEvent(es[i])]
    BY <1>1 DEF Normalized
  <2>2. \A i \in 1..Len(es) : NormalizedEvent(es[i]) \in S
    BY <1>1
  <2> HIDE DEF S, ns
  <2> QED
    BY <1>1, <2>1, <2>2
<1>3. ne \in S
  OBVIOUS
<1> HIDE DEF S, ns, ne
<1>4. /\ Append(ns, ne) \in Seq(S) /\ Len(Append(ns, ne)) = Len(es) + 1
      /\ \A i \in 1..Len(es) : Append(ns, ne)[i] = ns[i]
      /\ Append(ns, ne)[Len(es) + 1] = ne
      /\ DOMAIN Append(ns, ne) = 1..(Len(es) + 1)
  BY <1>1, <1>2, <1>3, AppendProperties
<1>5. Normalized(Append(es, e)) = [i \in 1..(Len(es) + 1) |-> NormalizedEvent(Append(es, e)[i])]
  BY <1>1 DEF Normalized
<1>6. ASSUME NEW i \in 1..(Len(es) + 1)
      PROVE  NormalizedEvent(Append(es, e)[i]) = Append(ns, ne)[i]
  <2>1. CASE i \in 1..Len(es)
    BY <1>1, <1>2, <1>4, <2>1
  <2>2. CASE i = Len(es) + 1
    BY <1>1, <1>4, <2>2 DEF ne
  <2>3. Len(es) \in Nat
    BY <1>1
  <2>4. i \in 1..Len(es) \/ i = Len(es) + 1
    BY <2>3
  <2> QED
    BY <2>1, <2>2, <2>4
<1>7. Append(ns, ne) = [i \in 1..(Len(es) + 1) |-> Append(ns, ne)[i]]
  <2>1. \A f \in Seq(S) : f = [i \in 1..Len(f) |-> f[i]]
    OBVIOUS
  <2> QED
    BY <1>4, <2>1
<1> QED
  BY <1>5, <1>6, <1>7 DEF ns, ne

LEMMA NormalizedOne ==
    ASSUME NEW n, NEW p
    PROVE  NormalizedEvent([name |-> n, data |-> <<p>>])
             = [name |-> n, data |-> <<NormalizeData(p)>>]
<1>1. [i \in DOMAIN <<p>> |-> NormalizeData(<<p>>[i])] = <<NormalizeData(p)>>
  OBVIOUS
<1>2. NormalizedEvent([name |-> n, data |-> <<p>>])
        = [name |-> n, data |-> [i \in DOMAIN <<p>> |-> NormalizeData(<<p>>[i])]]
  BY DEF NormalizedEvent
<1> QED
  BY <1>1, <1>2

(* What a line more does to the waiting and to the form of the stream.     *)
LEMMA ArrivedGrows ==
    ASSUME LinesTypeInv, NEW line \in AnyLine, arrived' = Append(arrived, line)
    PROVE  /\ DataLast(arrived') => DataLast(arrived)
           /\ line.field = "data" => \E i \in DOMAIN arrived' : WaitingSince(i)'
           /\ \A i \in DOMAIN arrived :
                WaitingSince(i) /\ line # Blank =>
                    i \in DOMAIN arrived' /\ WaitingSince(i)'
           /\ \A i \in DOMAIN arrived :
                WaitingSince(i) /\ line.field \in {"data", "event"} => ~DataLast(arrived')
<1> DEFINE n == Len(arrived) + 1
<1>1. /\ Len(arrived) \in Nat /\ DOMAIN arrived = 1..Len(arrived)
      /\ DOMAIN arrived' = 1..n /\ arrived'[n] = line
      /\ \A i \in 1..Len(arrived) : arrived'[i] = arrived[i]
  BY AppendProperties DEF LinesTypeInv
<1>2. ASSUME DataLast(arrived') PROVE DataLast(arrived)
  <2>1. \A i \in DOMAIN arrived : i \in DOMAIN arrived' /\ i \in Nat /\ i <= Len(arrived)
    BY <1>1
  <2> SUFFICES ASSUME NEW i \in DOMAIN arrived, NEW j \in DOMAIN arrived, i < j,
                      arrived[i].field = "data", arrived[j].field \in {"data", "event"}
               PROVE  \E k \in i..j : arrived[k] = Blank
    BY DEF DataLast
  <2>2. arrived'[i].field = "data" /\ arrived'[j].field \in {"data", "event"}
    BY <1>1
  <2>3. PICK k \in i..j : arrived'[k] = Blank
    BY <1>2, <2>1, <2>2 DEF DataLast
  <2>4. k \in 1..Len(arrived)
    BY <1>1, <2>1, <2>3
  <2> QED
    BY <1>1, <2>3, <2>4
<1>3. ASSUME line.field = "data" PROVE \E i \in DOMAIN arrived' : WaitingSince(i)'
  <2>1. n \in DOMAIN arrived' /\ n \in Nat /\ \A k \in DOMAIN arrived' : n <= k => k = n
    BY <1>1
  <2>2. line # Blank
    BY <1>3, KindOfLine
  <2> HIDE DEF n
  <2> QED
    BY <1>1, <1>3, <2>1, <2>2 DEF WaitingSince
<1>4. ASSUME line # Blank, NEW i \in DOMAIN arrived, WaitingSince(i)
      PROVE  i \in DOMAIN arrived' /\ WaitingSince(i)'
  <2>1. i \in DOMAIN arrived' /\ arrived'[i].field = "data"
    BY <1>1, <1>4 DEF WaitingSince
  <2>2. ASSUME NEW k \in DOMAIN arrived', i <= k PROVE arrived'[k] # Blank
    <3>1. CASE k \in 1..Len(arrived)
      BY <1>1, <1>4, <2>2, <3>1 DEF WaitingSince
    <3>2. CASE k = n
      BY <1>1, <1>4, <3>2
    <3> QED
      BY <1>1, <3>1, <3>2
  <2> QED
    BY <2>1, <2>2 DEF WaitingSince
<1>5. ASSUME line.field \in {"data", "event"}, NEW i \in DOMAIN arrived, WaitingSince(i)
      PROVE  ~DataLast(arrived')
  <2>1. line # Blank
    BY <1>5, KindOfLine
  <2>2. i \in DOMAIN arrived' /\ WaitingSince(i)'
    BY <1>4, <1>5, <2>1
  <2>3. n \in DOMAIN arrived' /\ i < n /\ arrived'[i].field = "data"
        /\ arrived'[n].field \in {"data", "event"}
    BY <1>1, <1>5, <2>2 DEF WaitingSince
  <2>4. \A k \in i..n : k \in DOMAIN arrived' /\ i <= k
    BY <1>1, <2>2
  <2>5. \A k \in i..n : arrived'[k] # Blank
    BY <2>2, <2>4 DEF WaitingSince
  <2> HIDE DEF n
  <2> QED
    BY <2>2, <2>3, <2>5 DEF DataLast
<1> QED
  BY <1>2, <1>3, <1>4, <1>5

LEMMA WaitingHandled ==
    ASSUME LinesTypeInv, EventsInv, NEW line \in AnyLine, Handle(line),
           direct'.next.data # <<>>
    PROVE  \E i \in DOMAIN arrived' : WaitingSince(i)'
<1>1. arrived' = Append(arrived, line) /\ direct' = ParseLine(direct, line)
      /\ direct \in Parser
  BY DEF Handle, LinesTypeInv
<1>2. CASE line.field = "data"
  BY <1>1, <1>2, ArrivedGrows
<1>3. CASE line = Blank
  BY <1>1, <1>3, BlankParsed, NothingReadTyped
<1>4. CASE line # Blank /\ direct.next.data # <<>>
  <2>1. PICK i \in DOMAIN arrived : WaitingSince(i)
    BY <1>4 DEF EventsInv
  <2> QED
    BY <1>1, <1>4, <2>1, ArrivedGrows
<1>5. CASE line # Blank /\ line.field # "data" /\ direct.next.data = <<>>
  <2>1. ASSUME NEW n \in Names, line = Line("event", n) PROVE FALSE
    BY <1>1, <1>5, <2>1, EventParsed
  <2>2. ASSUME NEW f \in {"comment", "unknown"}, line = Line(f, "") PROVE FALSE
    BY <1>1, <1>5, <2>2, OtherParsed
  <2>3. ASSUME NEW p \in Payload, line = Line("data", p) PROVE FALSE
    BY <1>5, <2>3 DEF Line
  <2> QED
    BY <1>5, <2>1, <2>2, <2>3 DEF AnyLine
<1> QED
  BY <1>2, <1>3, <1>4, <1>5

LEMMA EventsHandled ==
    ASSUME LinesTypeInv, EventsInv, NEW line \in AnyLine, Handle(line), DataLast(arrived')
    PROVE  (Level \/ Ahead)'
<1>1. /\ arrived' = Append(arrived, line) /\ direct' = ParseLine(direct, line)
      /\ read' = ParseWritten(read, Write(line))
      /\ direct \in Parser /\ read \in Parser
      /\ direct.events \in Seq(Event) /\ direct.next \in Event
  BY DEF Handle, LinesTypeInv, Parser
<1>2. Level \/ Ahead
  BY <1>1, ArrivedGrows DEF EventsInv
<1>3. Ahead => line.field \notin {"data", "event"}
  BY <1>1, ArrivedGrows DEF EventsInv, Ahead
<1>4. CASE line = Blank
  <2>1. line.field # "data"
    BY <1>4, KindOfLine
  <2>2. read' = ParseLine(read, Blank)
    BY <1>1, <1>4, <2>1, WrittenParsed
  <2>3. CASE Level
    <3>1. direct' = [events |-> direct.events, next |-> NoEvent]
          /\ read' = [events |-> read.events, next |-> NoEvent]
      BY <1>1, <1>4, <2>2, <2>3, BlankParsed DEF Level
    <3> QED
      BY <2>3, <3>1, NothingReadTyped DEF Level
  <2>4. CASE Ahead
    <3>1. direct' = [events |-> Append(direct.events, direct.next), next |-> NoEvent]
          /\ read' = [events |-> read.events, next |-> NoEvent]
      BY <1>1, <1>4, <2>2, <2>4, BlankParsed, NothingReadTyped DEF Ahead
    <3> QED
      BY <2>4, <3>1, NothingReadTyped DEF Ahead, Level
  <2> QED
    BY <1>2, <2>3, <2>4
<1>5. ASSUME NEW n \in Names, line = Line("event", n) PROVE (Level \/ Ahead)'
  <2>1. line.field = "event" /\ Level
    BY <1>2, <1>3, <1>5 DEF Line
  <2>2. read' = ParseLine(read, line)
    BY <1>1, <2>1, WrittenParsed
  <2>3. /\ direct' = [events |-> direct.events, next |-> [name |-> n, data |-> direct.next.data]]
        /\ read' = [events |-> read.events, next |-> [name |-> n, data |-> read.next.data]]
    BY <1>1, <1>5, <2>2, EventParsed
  <2> QED
    BY <2>1, <2>3 DEF Level
<1>6. ASSUME NEW f \in {"comment", "unknown"}, line = Line(f, "") PROVE (Level \/ Ahead)'
  <2>1. line.field # "data"
    BY <1>6 DEF Line
  <2>2. direct' = direct /\ read' = read
    BY <1>1, <1>6, <2>1, WrittenParsed, OtherParsed
  <2> QED
    BY <1>2, <2>2 DEF Level, Ahead
<1>7. ASSUME NEW p \in Payload, line = Line("data", p) PROVE (Level \/ Ahead)'
  <2> DEFINE q == NormalizeData(p)
             was == [name |-> direct.next.name, data |-> <<p>>]
             now == [name |-> direct.next.name, data |-> <<q>>]
  <2>1. line.field = "data" /\ line.value = p /\ Level
    BY <1>2, <1>3, <1>7 DEF Line
  <2>2. direct' = [events |-> direct.events, next |-> was]
    <3>1. Append(direct.next.data, p) = <<p>>
      BY <2>1 DEF Level
    <3> QED
      BY <1>1, <1>7, <3>1, DataParsed
  <2>3. read' = [events |-> Append(read.events, now), next |-> NoEvent]
    <3>0. read.next.data = <<>> /\ read.next.name = direct.next.name
      BY <2>1 DEF Level
    <3>1. Append(read.next.data, q) = <<q>> /\ read.next.name = direct.next.name
      <4> HIDE DEF q
      <4> QED
        BY <3>0
    <3>2. read' = [events |-> Append(read.events, [name |-> read.next.name,
                                                  data |-> Append(read.next.data, q)]),
                   next |-> NoEvent]
      BY <1>1, <2>1, WrittenParsed
    <3> QED
      BY <3>1, <3>2
  <2>4. NormalizedEvent(was) = now
    BY NormalizedOne
  <2>5. was \in Event /\ was.data # <<>>
    BY <1>1 DEF Event
  <2> HIDE DEF was, now
  <2>6. Normalized(Append(direct.events, was)) = Append(read.events, now)
    BY <1>1, <2>1, <2>4, <2>5, NormalizedAppend DEF Level
  <2> QED
    BY <2>2, <2>3, <2>5, <2>6 DEF Ahead
<1> QED
  BY <1>4, <1>5, <1>6, <1>7 DEF AnyLine

LEMMA EventsNext == LinesTypeInv /\ EventsInv /\ [Next]_vars => EventsInv'
<1> SUFFICES ASSUME LinesTypeInv, EventsInv, [Next]_vars PROVE EventsInv'
  OBVIOUS
<1>1. ASSUME NEW line \in AnyLine, Handle(line) PROVE EventsInv'
  BY <1>1, WaitingHandled, EventsHandled DEF EventsInv
<1>2. ASSUME UNCHANGED <<arrived, data, direct, read, totalTokens>> PROVE EventsInv'
  BY <1>2 DEF EventsInv, WaitingSince, Level, Ahead
<1>3. CASE LinesNext
  BY <1>1, <1>2, <1>3, LinesSteps
<1>4. CASE UNCHANGED lineVars
  BY <1>2, <1>4 DEF lineVars
<1> QED
  BY <1>3, <1>4, LinesAct

LEMMA EventsInit == LinesInit => EventsInv
<1>1. Len(<<>>) = 0 /\ DOMAIN <<>> = {}
  BY EmptySeq
<1>2. Normalized(<<>>) = <<>>
  <2>1. DOMAIN Normalized(<<>>) = {} /\ Normalized(<<>>) \in Seq(Event)
    BY <1>1 DEF Normalized
  <2> QED
    BY <2>1
<1> QED
  BY <1>1, <1>2 DEF LinesInit, EventsInv, Level, NothingRead, NoEvent

LEMMA EventsInvSuffices == LinesTypeInv /\ EventsInv => EventsKept
<1> SUFFICES ASSUME LinesTypeInv, EventsInv, DataLast(arrived)
             PROVE  read.events = Normalized(ParseLine(direct, Blank).events)
  BY DEF EventsKept, Normalized
<1>1. direct \in Parser
  BY DEF LinesTypeInv
<1>2. CASE Level
  <2>1. direct.next.data = <<>> /\ read.events = Normalized(direct.events)
    BY <1>2 DEF Level
  <2>2. ParseLine(direct, Blank).events = direct.events
    BY <1>1, <2>1, BlankParsed
  <2> QED
    BY <2>1, <2>2
<1>3. CASE Ahead
  <2>1. direct.next.data # <<>> /\ read.events = Normalized(Append(direct.events, direct.next))
    BY <1>3 DEF Ahead
  <2>2. ParseLine(direct, Blank).events = Append(direct.events, direct.next)
    BY <1>1, <2>1, BlankParsed
  <2> QED
    BY <2>1, <2>2
<1> QED
  BY <1>2, <1>3 DEF EventsInv

(* For streams of any length with one data line per event and nothing but  *)
(* comments behind it, the client of the gateway reads the events the      *)
(* upstream sends, each with its name: it is level with a client of the    *)
(* upstream, or ahead of it by the one event still open there.             *)
THEOREM EventsStayEvents == Spec => []EventsKept
<1>1. Init => LinesTypeInv /\ EventsInv
  BY LinesTypeInit, EventsInit DEF Init
<1>2. LinesTypeInv /\ EventsInv /\ [Next]_vars => (LinesTypeInv /\ EventsInv)'
  BY LinesTypeNext, EventsNext
<1> QED
  BY <1>1, <1>2, EventsInvSuffices, PTL DEF Spec

-----------------------------------------------------------------------------
(* Where the tags are in a text.                                           *)
IsAt(t, s, i) == \A k \in 1..Len(t) : s[i + k - 1] = t[k]

LEMMA OccurrenceIs ==
    ASSUME NEW s \in Text, NEW t \in Text, Len(t) >= 1, NEW i
    PROVE  i \in Occurrences(t, s) <=> i \in 1..(Len(s) - Len(t) + 1) /\ IsAt(t, s, i)
<1>1. s \in Seq(Atoms) /\ t \in Seq(Atoms) /\ Len(s) \in Nat /\ Len(t) \in Nat
  BY DEF Text
<1> SUFFICES ASSUME i \in 1..(Len(s) - Len(t) + 1)
             PROVE  SubSeq(s, i, i + Len(t) - 1) = t <=> IsAt(t, s, i)
  BY DEF Occurrences
<1> DEFINE p == SubSeq(s, i, i + Len(t) - 1)
<1>2. p \in Text /\ Len(p) = Len(t) /\ \A k \in 1..Len(t) : p[k] = s[i + k - 1]
  <2>1. /\ i \in Nat /\ i + Len(t) - 1 \in Nat /\ 1 <= i /\ i <= (i + Len(t) - 1) + 1
        /\ i + Len(t) - 1 <= Len(s) /\ (i + Len(t) - 1) - i + 1 = Len(t)
    BY <1>1
  <2> QED
    BY <2>1, PartOfText
<1> HIDE DEF p
<1>3. ASSUME p = t PROVE IsAt(t, s, i)
  BY <1>2, <1>3 DEF IsAt
<1>4. ASSUME IsAt(t, s, i) PROVE p = t
  <2>1. \A k \in 1..Len(p) : p[k] = t[k]
    BY <1>2, <1>4 DEF IsAt
  <2> QED
    BY <1>1, <1>2, <2>1, SeqEqual DEF Text
<1> QED
  BY <1>3, <1>4 DEF p

LEMMA ShortTexts ==
    ASSUME NEW x \in Atoms, NEW y \in Atoms, NEW z \in Atoms
    PROVE  /\ <<x>> \in Text /\ Len(<<x>>) = 1 /\ <<x>>[1] = x
           /\ <<x, y>> \in Text /\ Len(<<x, y>>) = 2
           /\ <<x, y>>[1] = x /\ <<x, y>>[2] = y
           /\ <<x, y, z>> \in Text /\ Len(<<x, y, z>>) = 3
           /\ <<x, y, z>>[1] = x /\ <<x, y, z>>[2] = y /\ <<x, y, z>>[3] = z
BY DEF Text

LEMMA TagTexts ==
    /\ ThinkOpen \in Text /\ Len(ThinkOpen) = 2
    /\ ThinkOpen[1] = "<" /\ ThinkOpen[2] = "think>"
    /\ ThinkClose \in Text /\ Len(ThinkClose) = 3
    /\ ThinkClose[1] = "<" /\ ThinkClose[2] = "/" /\ ThinkClose[3] = "think>"
    /\ <<"\n">> \in Text /\ Len(<<"\n">>) = 1 /\ <<"\n">>[1] = "\n"
    /\ <<"\n", "\n">> \in Text /\ Len(<<"\n", "\n">>) = 2
    /\ <<"\n", "\n">>[1] = "\n" /\ <<"\n", "\n">>[2] = "\n"
<1>1. "<" \in Atoms /\ "/" \in Atoms /\ "think>" \in Atoms /\ "\n" \in Atoms
  BY DEF Atoms, Separators
<1> QED
  BY <1>1, ShortTexts DEF ThinkOpen, ThinkClose

LEMMA OpenAt ==
    ASSUME NEW s \in Text, NEW i
    PROVE  i \in Occurrences(ThinkOpen, s) <=>
             /\ i \in Nat /\ i >= 1 /\ i + 1 <= Len(s)
             /\ s[i] = "<" /\ s[i + 1] = "think>"
<1>1. Len(s) \in Nat
  BY DEF Text
<1>2. i \in Occurrences(ThinkOpen, s) <=> i \in 1..(Len(s) - 1) /\ IsAt(ThinkOpen, s, i)
  <2>1. Len(ThinkOpen) = 2 /\ Len(ThinkOpen) >= 1 /\ ThinkOpen \in Text
    BY TagTexts
  <2>2. i \in Occurrences(ThinkOpen, s) <=>
          i \in 1..(Len(s) - Len(ThinkOpen) + 1) /\ IsAt(ThinkOpen, s, i)
    BY <2>1, OccurrenceIs
  <2>3. Len(s) - Len(ThinkOpen) + 1 = Len(s) - 1
    BY <1>1, <2>1
  <2> QED
    BY <2>2, <2>3
<1>3. ASSUME i \in Nat
      PROVE  IsAt(ThinkOpen, s, i) <=> s[i] = "<" /\ s[i + 1] = "think>"
  <2>1. IsAt(ThinkOpen, s, i) <=> \A k \in {1, 2} : s[i + k - 1] = ThinkOpen[k]
    <3>1. 1..2 = {1, 2}
      OBVIOUS
    <3> QED
      BY <3>1, TagTexts DEF IsAt
  <2>2. i + 1 - 1 = i /\ i + 2 - 1 = i + 1
    BY <1>3
  <2> QED
    BY <2>1, <2>2, TagTexts
<1>4. i \in 1..(Len(s) - 1) <=> i \in Nat /\ i >= 1 /\ i + 1 <= Len(s)
  BY <1>1
<1> QED
  BY <1>2, <1>3, <1>4

LEMMA CloseAt ==
    ASSUME NEW s \in Text, NEW i
    PROVE  i \in Occurrences(ThinkClose, s) <=>
             /\ i \in Nat /\ i >= 1 /\ i + 2 <= Len(s)
             /\ s[i] = "<" /\ s[i + 1] = "/" /\ s[i + 2] = "think>"
<1>1. Len(s) \in Nat
  BY DEF Text
<1>2. i \in Occurrences(ThinkClose, s) <=> i \in 1..(Len(s) - 2) /\ IsAt(ThinkClose, s, i)
  <2>1. Len(ThinkClose) = 3 /\ Len(ThinkClose) >= 1 /\ ThinkClose \in Text
    BY TagTexts
  <2>2. i \in Occurrences(ThinkClose, s) <=>
          i \in 1..(Len(s) - Len(ThinkClose) + 1) /\ IsAt(ThinkClose, s, i)
    BY <2>1, OccurrenceIs
  <2>3. Len(s) - Len(ThinkClose) + 1 = Len(s) - 2
    BY <1>1, <2>1
  <2> QED
    BY <2>2, <2>3
<1>3. ASSUME i \in Nat
      PROVE  IsAt(ThinkClose, s, i) <=> s[i] = "<" /\ s[i + 1] = "/" /\ s[i + 2] = "think>"
  <2>1. IsAt(ThinkClose, s, i) <=> \A k \in {1, 2, 3} : s[i + k - 1] = ThinkClose[k]
    <3>1. 1..3 = {1, 2, 3}
      OBVIOUS
    <3> QED
      BY <3>1, TagTexts DEF IsAt
  <2>2. i + 1 - 1 = i /\ i + 2 - 1 = i + 1 /\ i + 3 - 1 = i + 2
    BY <1>3
  <2> QED
    BY <2>1, <2>2, TagTexts
<1>4. i \in 1..(Len(s) - 2) <=> i \in Nat /\ i >= 1 /\ i + 2 <= Len(s)
  BY <1>1
<1> QED
  BY <1>2, <1>3, <1>4

(* The first of the places of a tag.                                       *)
LEMMA FirstPlace ==
    ASSUME NEW t, NEW s \in Text, Has(t, s), Len(t) \in Nat
    PROVE  /\ Min(Occurrences(t, s)) \in Occurrences(t, s)
           /\ Min(Occurrences(t, s)) \in Nat
           /\ \A i \in Occurrences(t, s) : i \in Nat /\ Min(Occurrences(t, s)) <= i
<1>1. Occurrences(t, s) \in SUBSET Nat
  BY DEF Occurrences, Text
<1> QED
  BY <1>1, LeastPosition DEF Has

LEMMA FirstPlaceIs ==
    ASSUME NEW t, NEW s \in Text, Len(t) \in Nat, NEW p \in Occurrences(t, s),
           \A i \in Occurrences(t, s) : p <= i
    PROVE  Has(t, s) /\ Min(Occurrences(t, s)) = p
<1>1. Has(t, s)
  BY DEF Has
<1> DEFINE m == Min(Occurrences(t, s))
<1>2. m \in Nat /\ p \in Nat /\ m <= p /\ p <= m
  BY <1>1, FirstPlace
<1> HIDE DEF m
<1> QED
  BY <1>1, <1>2 DEF m

-----------------------------------------------------------------------------
(* Reasoning between its tags, and what comes behind them.                 *)
Block(r, rest) == ThinkOpen \o <<"\n">> \o r \o <<"\n">> \o ThinkClose \o rest

LEMMA ConcatText ==
    ASSUME NEW s \in Text, NEW t \in Text
    PROVE  /\ s \o t \in Text /\ Len(s \o t) = Len(s) + Len(t)
           /\ Len(s) \in Nat /\ Len(t) \in Nat
           /\ \A k \in 1..Len(s) : (s \o t)[k] = s[k]
           /\ \A k \in 1..Len(t) : (s \o t)[Len(s) + k] = t[k]
<1>1. s \in Seq(Atoms) /\ t \in Seq(Atoms) /\ Len(s) \in Nat /\ Len(t) \in Nat
  BY DEF Text
<1>2. /\ s \o t \in Seq(Atoms) /\ Len(s \o t) = Len(s) + Len(t)
      /\ \A i \in 1..(Len(s) + Len(t)) :
            (s \o t)[i] = IF i <= Len(s) THEN s[i] ELSE t[i - Len(s)]
  BY <1>1, ConcatProperties
<1>3. ASSUME NEW k \in 1..Len(s) PROVE (s \o t)[k] = s[k]
  BY <1>1, <1>2
<1>4. ASSUME NEW k \in 1..Len(t) PROVE (s \o t)[Len(s) + k] = t[k]
  <2>1. Len(s) + k \in 1..(Len(s) + Len(t)) /\ ~(Len(s) + k <= Len(s))
        /\ (Len(s) + k) - Len(s) = k
    BY <1>1
  <2> QED
    BY <1>2, <2>1
<1> QED
  BY <1>1, <1>2, <1>3, <1>4 DEF Text

IsBlock(b, r, rest, n) ==
    /\ b \in Text /\ Len(b) = n + 7 + Len(rest)
    /\ n \in Nat /\ Len(rest) \in Nat
    /\ b[1] = "<" /\ b[2] = "think>" /\ b[3] = "\n"
    /\ \A k \in 1..n : b[k + 3] = r[k]
    /\ b[n + 4] = "\n" /\ b[n + 5] = "<" /\ b[n + 6] = "/" /\ b[n + 7] = "think>"
    /\ \A k \in 1..Len(rest) : b[n + 7 + k] = rest[k]

LEMMA BlockAtoms ==
    ASSUME NEW r \in Text, NEW rest \in Text, NEW n, n = Len(r),
           NEW b, b = Block(r, rest)
    PROVE  IsBlock(b, r, rest, n)
<1> DEFINE nl == <<"\n">>
           b1 == ThinkOpen \o nl
           b2 == b1 \o r
           b3 == b2 \o nl
           b4 == b3 \o ThinkClose
<1>1. /\ b1 \in Text /\ Len(b1) = 3
      /\ b1[1] = "<" /\ b1[2] = "think>" /\ b1[3] = "\n"
  <2>1. /\ b1 \in Text /\ Len(b1) = 2 + 1
        /\ \A k \in 1..2 : b1[k] = ThinkOpen[k]
        /\ \A k \in 1..1 : b1[2 + k] = nl[k]
    <3>1. /\ b1 \in Text /\ Len(b1) = Len(ThinkOpen) + Len(nl)
          /\ Len(ThinkOpen) \in Nat /\ Len(nl) \in Nat
          /\ \A k \in 1..Len(ThinkOpen) : b1[k] = ThinkOpen[k]
          /\ \A k \in 1..Len(nl) : b1[Len(ThinkOpen) + k] = nl[k]
      <4>1. ThinkOpen \in Text /\ nl \in Text
        BY TagTexts
      <4> QED
        BY <4>1, ConcatText
    <3>2. Len(ThinkOpen) = 2 /\ Len(nl) = 1
      BY TagTexts
    <3> HIDE DEF b1, nl
    <3> QED
      BY <3>1, <3>2
  <2> HIDE DEF b1, nl
  <2>2. b1[1] = ThinkOpen[1] /\ b1[2] = ThinkOpen[2] /\ b1[2 + 1] = nl[1]
    BY <2>1
  <2> QED
    BY <2>1, <2>2, TagTexts DEF nl
<1> HIDE DEF b1
<1>2. /\ b2 \in Text /\ Len(b2) = 3 + n /\ n \in Nat
      /\ \A k \in 1..3 : b2[k] = b1[k]
      /\ \A k \in 1..n : b2[3 + k] = r[k]
  <2>1. /\ b2 \in Text /\ Len(b2) = Len(b1) + Len(r)
        /\ Len(b1) \in Nat /\ Len(r) \in Nat
        /\ \A k \in 1..Len(b1) : b2[k] = b1[k]
        /\ \A k \in 1..Len(r) : b2[Len(b1) + k] = r[k]
    BY <1>1, ConcatText
  <2> HIDE DEF b2
  <2> QED
    BY <1>1, <2>1
<1> HIDE DEF b2
<1>3. /\ b3 \in Text /\ Len(b3) = n + 4
      /\ \A k \in 1..(3 + n) : b3[k] = b2[k]
      /\ b3[n + 4] = "\n"
  <2>1. /\ b3 \in Text /\ Len(b3) = (3 + n) + 1
        /\ \A k \in 1..(3 + n) : b3[k] = b2[k]
        /\ \A k \in 1..1 : b3[(3 + n) + k] = nl[k]
    <3>1. /\ b3 \in Text /\ Len(b3) = Len(b2) + Len(nl)
          /\ Len(b2) \in Nat /\ Len(nl) \in Nat
          /\ \A k \in 1..Len(b2) : b3[k] = b2[k]
          /\ \A k \in 1..Len(nl) : b3[Len(b2) + k] = nl[k]
      <4>1. b2 \in Text /\ nl \in Text
        BY <1>2, TagTexts
      <4> QED
        BY <4>1, ConcatText
    <3>2. Len(nl) = 1
      BY TagTexts
    <3> HIDE DEF b3, nl
    <3> QED
      BY <1>2, <3>1, <3>2
  <2>2. nl[1] = "\n"
    BY TagTexts
  <2> HIDE DEF b3, nl
  <2>3. b3[(3 + n) + 1] = nl[1] /\ (3 + n) + 1 = n + 4
    BY <1>2, <2>1
  <2> QED
    BY <2>1, <2>2, <2>3
<1> HIDE DEF b3
<1>4. /\ b4 \in Text /\ Len(b4) = n + 7
      /\ \A k \in 1..(n + 4) : b4[k] = b3[k]
      /\ b4[n + 5] = "<" /\ b4[n + 6] = "/" /\ b4[n + 7] = "think>"
  <2>1. /\ b4 \in Text /\ Len(b4) = (n + 4) + 3
        /\ \A k \in 1..(n + 4) : b4[k] = b3[k]
        /\ \A k \in 1..3 : b4[(n + 4) + k] = ThinkClose[k]
    <3>1. /\ b4 \in Text /\ Len(b4) = Len(b3) + Len(ThinkClose)
          /\ Len(b3) \in Nat /\ Len(ThinkClose) \in Nat
          /\ \A k \in 1..Len(b3) : b4[k] = b3[k]
          /\ \A k \in 1..Len(ThinkClose) : b4[Len(b3) + k] = ThinkClose[k]
      <4>1. b3 \in Text /\ ThinkClose \in Text
        BY <1>3, TagTexts
      <4> QED
        BY <4>1, ConcatText
    <3>2. Len(ThinkClose) = 3
      BY TagTexts
    <3> HIDE DEF b4
    <3> QED
      BY <1>3, <3>1, <3>2
  <2> HIDE DEF b4
  <2>2. /\ b4[(n + 4) + 1] = ThinkClose[1] /\ b4[(n + 4) + 2] = ThinkClose[2]
        /\ b4[(n + 4) + 3] = ThinkClose[3]
    BY <2>1
  <2>3. (n + 4) + 1 = n + 5 /\ (n + 4) + 2 = n + 6 /\ (n + 4) + 3 = n + 7
    BY <1>2
  <2> QED
    BY <2>1, <2>2, <2>3, TagTexts
<1> HIDE DEF b4
<1>5. /\ b \in Text /\ Len(b) = n + 7 + Len(rest) /\ Len(rest) \in Nat
      /\ \A k \in 1..(n + 7) : b[k] = b4[k]
      /\ \A k \in 1..Len(rest) : b[n + 7 + k] = rest[k]
  <2>1. b = b4 \o rest
    BY DEF Block, b1, b2, b3, b4
  <2>2. /\ b \in Text /\ Len(b) = Len(b4) + Len(rest)
        /\ Len(b4) \in Nat /\ Len(rest) \in Nat
        /\ \A k \in 1..Len(b4) : b[k] = b4[k]
        /\ \A k \in 1..Len(rest) : b[Len(b4) + k] = rest[k]
    <3>1. b4 \in Text /\ rest \in Text
      BY <1>4
    <3> DEFINE c == b4 \o rest
    <3>2. /\ c \in Text /\ Len(c) = Len(b4) + Len(rest)
          /\ Len(b4) \in Nat /\ Len(rest) \in Nat
          /\ \A k \in 1..Len(b4) : c[k] = b4[k]
          /\ \A k \in 1..Len(rest) : c[Len(b4) + k] = rest[k]
      BY <3>1, ConcatText
    <3>3. b = c
      BY <2>1
    <3> HIDE DEF c
    <3> QED
      BY <3>2, <3>3
  <2> QED
    BY <1>4, <2>2
<1>6. \A k \in 1..3 : b[k] = b1[k]
  <2>1. ASSUME NEW k \in 1..3 PROVE k \in 1..(3 + n) /\ k \in 1..(n + 4) /\ k \in 1..(n + 7)
    BY <1>2
  <2> QED
    BY <2>1, <1>2, <1>3, <1>4, <1>5
<1>7. ASSUME NEW k \in 1..n PROVE b[k + 3] = r[k]
  <2>1. /\ 3 + k = k + 3 /\ k + 3 \in 1..(3 + n) /\ k + 3 \in 1..(n + 4)
        /\ k + 3 \in 1..(n + 7)
    BY <1>2
  <2> QED
    BY <2>1, <1>2, <1>3, <1>4, <1>5
<1>8. /\ b[n + 4] = b3[n + 4] /\ b[n + 5] = b4[n + 5]
      /\ b[n + 6] = b4[n + 6] /\ b[n + 7] = b4[n + 7]
  <2>1. /\ n + 4 \in 1..(n + 4) /\ n + 4 \in 1..(n + 7) /\ n + 5 \in 1..(n + 7)
        /\ n + 6 \in 1..(n + 7) /\ n + 7 \in 1..(n + 7)
    BY <1>2
  <2> QED
    BY <2>1, <1>4, <1>5
<1>9. b[1] = b1[1] /\ b[2] = b1[2] /\ b[3] = b1[3]
  BY <1>6
<1> QED
  BY <1>1, <1>2, <1>3, <1>4, <1>5, <1>7, <1>8, <1>9 DEF IsBlock

(* The first closing tag of a block is the one behind the reasoning, as    *)
(* long as the reasoning has none.                                         *)
LEMMA BlockTags ==
    ASSUME NEW r \in Text, NEW rest \in Text, NEW n, n = Len(r), ~Has(ThinkClose, r),
           NEW b, IsBlock(b, r, rest, n)
    PROVE  /\ Has(ThinkOpen, b) /\ Min(Occurrences(ThinkOpen, b)) = 1
           /\ n + 5 \in Occurrences(ThinkClose, b)
           /\ \A i \in Occurrences(ThinkClose, b) : n + 5 <= i
           /\ Has(ThinkClose, b) /\ Min(Occurrences(ThinkClose, b)) = n + 5
<1>1. /\ b \in Text /\ Len(b) = n + 7 + Len(rest)
      /\ n \in Nat /\ Len(rest) \in Nat
      /\ b[1] = "<" /\ b[2] = "think>" /\ b[3] = "\n"
      /\ \A k \in 1..n : b[k + 3] = r[k]
      /\ b[n + 4] = "\n" /\ b[n + 5] = "<" /\ b[n + 6] = "/" /\ b[n + 7] = "think>"
  BY DEF IsBlock
<1>2. 1 \in Occurrences(ThinkOpen, b)
  <2>1. b \in Text /\ 1 \in Nat /\ 1 >= 1 /\ 1 + 1 <= Len(b)
        /\ b[1] = "<" /\ b[1 + 1] = "think>"
    BY <1>1
  <2> QED
    BY <2>1, OpenAt
<1>3. \A i \in Occurrences(ThinkOpen, b) : 1 <= i
  BY <1>1, OpenAt
<1>4. n + 5 \in Occurrences(ThinkClose, b)
  <2> DEFINE i == n + 5
  <2>1. i \in Nat /\ i >= 1 /\ i + 2 <= Len(b) /\ i + 1 = n + 6 /\ i + 2 = n + 7
    BY <1>1
  <2>2. b \in Text /\ b[i] = "<" /\ b[i + 1] = "/" /\ b[i + 2] = "think>"
    BY <1>1, <2>1
  <2> HIDE DEF i
  <2>3. i \in Occurrences(ThinkClose, b)
    BY <2>1, <2>2, CloseAt
  <2> QED
    BY <2>3 DEF i
<1>5. ASSUME NEW i \in Occurrences(ThinkClose, b), i < n + 5
      PROVE  FALSE
  <2>a. b \in Text
    BY <1>1
  <2>1. i \in Nat /\ i >= 1 /\ b[i] = "<" /\ b[i + 1] = "/" /\ b[i + 2] = "think>"
    BY <1>5, <2>a, CloseAt
  <2>2. i # 1
    <3>1. i = 1 => b[i + 1] = b[2]
      BY <2>1
    <3> QED
      BY <1>1, <2>1, <3>1
  <2>3. i # 2 /\ i # 3 /\ i # n + 4
    BY <1>1, <2>1
  <2>4. i # n + 3
    <3>1. i = n + 3 => i + 1 = n + 4
      BY <1>1
    <3> QED
      BY <1>1, <2>1, <3>1
  <2>5. i # n + 2
    <3>1. i = n + 2 => i + 2 = n + 4
      BY <1>1
    <3> QED
      BY <1>1, <2>1, <3>1
  <2>6. PICK j : j = i - 3
    OBVIOUS
  <2>7. /\ j \in Nat /\ j >= 1 /\ j + 2 <= n
        /\ j \in 1..n /\ j + 1 \in 1..n /\ j + 2 \in 1..n
        /\ j + 3 = i /\ (j + 1) + 3 = i + 1 /\ (j + 2) + 3 = i + 2
    BY <1>1, <1>5, <2>1, <2>2, <2>3, <2>4, <2>5, <2>6, SMTT(40)
  <2>8. r[j] = "<" /\ r[j + 1] = "/" /\ r[j + 2] = "think>"
    <3>1. b[j + 3] = r[j] /\ b[(j + 1) + 3] = r[j + 1] /\ b[(j + 2) + 3] = r[j + 2]
      BY <1>1, <2>7
    <3> QED
      BY <2>1, <2>7, <3>1
  <2>9. j \in Occurrences(ThinkClose, r)
    BY <2>7, <2>8, CloseAt
  <2> QED
    BY <2>9 DEF Has
<1>6. \A i \in Occurrences(ThinkClose, b) : n + 5 <= i
  <2>1. \A i \in Occurrences(ThinkClose, b) : i \in Nat
    BY <1>1, CloseAt
  <2> QED
    BY <1>1, <1>5, <2>1
<1>7. Len(ThinkOpen) \in Nat /\ Len(ThinkClose) \in Nat
  BY TagTexts
<1> QED
  BY <1>1, <1>2, <1>3, <1>4, <1>6, <1>7, FirstPlaceIs

(* A text that begins and ends with ink.                                   *)
InkAtEnds(r) ==
    /\ Len(r) >= 1
    /\ r[1] \notin {" ", "\n"} /\ r[Len(r)] \notin {" ", "\n"}

(* Behind the opening tag of a block come a newline, the reasoning, and a  *)
(* newline before the closing tag.                                         *)
LEMMA BlockThinking ==
    ASSUME NEW r \in Text, NEW rest \in Text, NEW n, n = Len(r), ~Has(ThinkClose, r),
           InkAtEnds(r), NEW b, IsBlock(b, r, rest, n)
    PROVE  Thinking(b) = r
<1>1. /\ b \in Text /\ Len(b) = n + 7 + Len(rest)
      /\ n \in Nat /\ Len(rest) \in Nat
      /\ b[3] = "\n" /\ \A k \in 1..n : b[k + 3] = r[k]
      /\ b[n + 4] = "\n"
  BY DEF IsBlock
<1>2. /\ Min(Occurrences(ThinkOpen, b)) = 1
      /\ n + 5 \in Occurrences(ThinkClose, b)
      /\ \A i \in Occurrences(ThinkClose, b) : n + 5 <= i
  BY BlockTags
<1> DEFINE u == SubSeq(b, 3, Len(b))
           v == SubSeq(u, 1, n + 2)
<1>3. After(ThinkOpen, b) = u
  BY <1>2, TagTexts DEF After
<1>4. u \in Text /\ Len(u) = n + 5 + Len(rest)
      /\ \A k \in 1..(n + 5 + Len(rest)) : u[k] = b[k + 2]
  <2>1. 1 <= 3 /\ 3 \in Nat /\ Len(b) \in Nat /\ 3 <= Len(b) + 1 /\ Len(b) <= Len(b)
    BY <1>1
  <2>2. u \in Text /\ Len(u) = Len(b) - 3 + 1
        /\ \A k \in 1..(Len(b) - 3 + 1) : u[k] = b[3 + k - 1]
    BY <1>1, <2>1, PartOfText
  <2>3. Len(b) - 3 + 1 = n + 5 + Len(rest)
    BY <1>1
  <2>4. \A k \in 1..(n + 5 + Len(rest)) : 3 + k - 1 = k + 2
    BY <1>1
  <2> HIDE DEF u
  <2> QED
    BY <2>2, <2>3, <2>4
<1> HIDE DEF u
<1>5. ASSUME NEW i
      PROVE  i \in Occurrences(ThinkClose, u) <=>
               i \in Nat /\ i >= 1 /\ i + 2 \in Occurrences(ThinkClose, b)
  <2>1. i \in Occurrences(ThinkClose, u) <=>
          /\ i \in Nat /\ i >= 1 /\ i + 2 <= n + 5 + Len(rest)
          /\ u[i] = "<" /\ u[i + 1] = "/" /\ u[i + 2] = "think>"
    <3>1. u \in Text /\ Len(u) = n + 5 + Len(rest)
      BY <1>4
    <3>2. i \in Occurrences(ThinkClose, u) <=>
            /\ i \in Nat /\ i >= 1 /\ i + 2 <= Len(u)
            /\ u[i] = "<" /\ u[i + 1] = "/" /\ u[i + 2] = "think>"
      BY <3>1, CloseAt
    <3> QED
      BY <3>1, <3>2
  <2>2. i + 2 \in Occurrences(ThinkClose, b) <=>
          /\ i + 2 \in Nat /\ i + 2 >= 1 /\ (i + 2) + 2 <= n + 7 + Len(rest)
          /\ b[i + 2] = "<" /\ b[(i + 2) + 1] = "/" /\ b[(i + 2) + 2] = "think>"
    <3>1. b \in Text /\ Len(b) = n + 7 + Len(rest)
      BY <1>1
    <3> DEFINE j == i + 2
    <3>2. j \in Occurrences(ThinkClose, b) <=>
            /\ j \in Nat /\ j >= 1 /\ j + 2 <= Len(b)
            /\ b[j] = "<" /\ b[j + 1] = "/" /\ b[j + 2] = "think>"
      BY <3>1, CloseAt
    <3> QED
      BY <3>1, <3>2
  <2>3. ASSUME i \in Nat, i >= 1, i + 2 <= n + 5 + Len(rest)
        PROVE  u[i] = b[i + 2] /\ u[i + 1] = b[(i + 2) + 1] /\ u[i + 2] = b[(i + 2) + 2]
    <3>1. /\ i \in 1..(n + 5 + Len(rest)) /\ i + 1 \in 1..(n + 5 + Len(rest))
          /\ i + 2 \in 1..(n + 5 + Len(rest))
          /\ (i + 1) + 2 = (i + 2) + 1
      BY <1>1, <2>3
    <3> QED
      BY <1>4, <3>1
  <2>4. i \in Nat => (/\ i + 2 \in Nat /\ i + 2 >= 1
                      /\ (i + 2) + 2 <= n + 7 + Len(rest) <=> i + 2 <= n + 5 + Len(rest))
    BY <1>1
  <2> QED
    BY <2>1, <2>2, <2>3, <2>4
<1>6. Has(ThinkClose, u) /\ Min(Occurrences(ThinkClose, u)) = n + 3
  <2>1. (n + 3) + 2 = n + 5 /\ n + 3 \in Nat /\ n + 3 >= 1
    BY <1>1
  <2>2. n + 3 \in Occurrences(ThinkClose, u)
    BY <1>2, <1>5, <2>1
  <2>3. ASSUME NEW i \in Occurrences(ThinkClose, u) PROVE n + 3 <= i
    <3>1. i \in Nat /\ n + 5 <= i + 2
      BY <1>2, <1>5
    <3> QED
      BY <1>1, <3>1
  <2>4. Len(ThinkClose) \in Nat
    BY TagTexts
  <2> QED
    BY <1>4, <2>2, <2>3, <2>4, FirstPlaceIs
<1>7. Before(ThinkClose, u) = v
  <2>1. (n + 3) - 1 = n + 2
    BY <1>1
  <2> QED
    BY <1>6, <2>1 DEF Before
<1>8. v \in Text /\ Len(v) = n + 2
      /\ v[1] = "\n" /\ v[n + 2] = "\n" /\ \A k \in 1..n : v[k + 1] = r[k]
  <2>1. 1 <= 1 /\ 1 \in Nat /\ n + 2 \in Nat /\ 1 <= (n + 2) + 1 /\ n + 2 <= Len(u)
    BY <1>1, <1>4
  <2>2. v \in Text /\ Len(v) = (n + 2) - 1 + 1
        /\ \A k \in 1..((n + 2) - 1 + 1) : v[k] = u[1 + k - 1]
    BY <1>4, <2>1, PartOfText
  <2> HIDE DEF v
  <2>3. ASSUME NEW k \in 1..(n + 2) PROVE v[k] = b[k + 2]
    <3>1. k \in 1..((n + 2) - 1 + 1) /\ 1 + k - 1 = k /\ k \in 1..(n + 5 + Len(rest))
      BY <1>1
    <3> QED
      BY <1>4, <2>2, <3>1
  <2>4. v[1] = b[3] /\ v[n + 2] = b[n + 4]
    <3>1. 1 \in 1..(n + 2) /\ n + 2 \in 1..(n + 2) /\ 1 + 2 = 3 /\ (n + 2) + 2 = n + 4
      BY <1>1
    <3> QED
      BY <2>3, <3>1
  <2>5. ASSUME NEW k \in 1..n PROVE v[k + 1] = r[k]
    <3>1. k + 1 \in 1..(n + 2) /\ (k + 1) + 2 = k + 3
      BY <1>1
    <3> QED
      BY <1>1, <2>3, <3>1
  <2>6. (n + 2) - 1 + 1 = n + 2
    BY <1>1
  <2> QED
    BY <1>1, <2>2, <2>4, <2>5, <2>6
<1> HIDE DEF v
<1>9. TrimSpace(v) = SubSeq(v, 2, n + 1)
  <2>1. DOMAIN v = 1..(n + 2)
    BY <1>8 DEF Text
  <2>0. n >= 1
    BY DEF InkAtEnds
  <2>2. 2 \in DOMAIN v /\ n + 1 \in DOMAIN v /\ 1 \in 1..n /\ n \in 1..n /\ 1 + 1 = 2
    BY <1>1, <2>0, <2>1
  <2>3. v[2] \notin {" ", "\n"} /\ v[n + 1] \notin {" ", "\n"}
    <3>1. v[1 + 1] = r[1] /\ v[n + 1] = r[n]
      BY <1>8, <2>2
    <3> QED
      BY <2>2, <3>1 DEF InkAtEnds
  <2>4. \A i \in DOMAIN v : i < 2 \/ n + 1 < i => v[i] \in {" ", "\n"}
    <3>1. \A i \in DOMAIN v : i < 2 \/ n + 1 < i => i = 1 \/ i = n + 2
      BY <1>1, <2>1
    <3> QED
      BY <1>8, <3>1
  <2>5. Trim(v, {" ", "\n"}) = SubSeq(v, 2, n + 1)
    BY <1>8, <2>2, <2>3, <2>4, TrimIs, ZenonT(40)
  <2> QED
    BY <2>5 DEF TrimSpace
<1>10. SubSeq(v, 2, n + 1) = r
  <2> DEFINE w == SubSeq(v, 2, n + 1)
  <2>1. 1 <= 2 /\ 2 \in Nat /\ n + 1 \in Nat /\ 2 <= (n + 1) + 1 /\ n + 1 <= Len(v)
    BY <1>1, <1>8
  <2>2. w \in Text /\ Len(w) = (n + 1) - 2 + 1
        /\ \A k \in 1..((n + 1) - 2 + 1) : w[k] = v[2 + k - 1]
    BY <1>8, <2>1, PartOfText
  <2> HIDE DEF w
  <2>3. (n + 1) - 2 + 1 = n
    BY <1>1
  <2>4. ASSUME NEW k \in 1..n PROVE w[k] = r[k]
    <3>1. k \in 1..((n + 1) - 2 + 1) /\ 2 + k - 1 = k + 1
      BY <2>3
    <3> QED
      BY <1>8, <2>2, <3>1
  <2>5. w \in Seq(Atoms) /\ r \in Seq(Atoms) /\ Len(w) = Len(r)
    BY <2>2, <2>3 DEF Text
  <2>6. w = r
    BY <2>4, <2>5, SeqEqual
  <2> QED
    BY <2>6 DEF w
<1> QED
  BY <1>3, <1>7, <1>9, <1>10 DEF Thinking

(* Around a block there is what comes behind it.                           *)
LEMMA BlockAnswer ==
    ASSUME NEW r \in Text, NEW rest \in Text, NEW n, n = Len(r), ~Has(ThinkClose, r),
           NEW b, IsBlock(b, r, rest, n)
    PROVE  Answer(b) = TrimSpace(rest)
<1>1. /\ b \in Text /\ Len(b) = n + 7 + Len(rest)
      /\ n \in Nat /\ Len(rest) \in Nat
      /\ \A k \in 1..Len(rest) : b[n + 7 + k] = rest[k]
  BY DEF IsBlock
<1>2. /\ Min(Occurrences(ThinkOpen, b)) = 1
      /\ Min(Occurrences(ThinkClose, b)) = n + 5
  BY BlockTags
<1>3. Before(ThinkOpen, b) = <<>>
  <2>1. Before(ThinkOpen, b) = SubSeq(b, 1, 1 - 1)
    BY <1>2 DEF Before
  <2>2. SubSeq(b, 1, 0) \in Text /\ Len(SubSeq(b, 1, 0)) = 0 - 1 + 1
    <3>1. 1 <= 1 /\ 1 \in Nat /\ 0 \in Nat /\ 1 <= 0 + 1 /\ 0 <= Len(b)
      BY <1>1
    <3> QED
      BY <1>1, <3>1, PartOfText
  <2>3. 1 - 1 = 0 /\ 0 - 1 + 1 = 0
    OBVIOUS
  <2> QED
    BY <2>1, <2>2, <2>3, EmptySeq DEF Text
<1> DEFINE w == SubSeq(b, n + 8, Len(b))
<1>4. After(ThinkClose, b) = w
  <2>1. (n + 5) + 3 = n + 8
    BY <1>1
  <2> QED
    BY <1>2, <2>1, TagTexts DEF After
<1>5. w = rest
  <2>1. 1 <= n + 8 /\ n + 8 \in Nat /\ Len(b) \in Nat /\ n + 8 <= Len(b) + 1
        /\ Len(b) <= Len(b)
    BY <1>1
  <2>2. w \in Text /\ Len(w) = Len(b) - (n + 8) + 1
        /\ \A k \in 1..(Len(b) - (n + 8) + 1) : w[k] = b[n + 8 + k - 1]
    BY <1>1, <2>1, PartOfText
  <2> HIDE DEF w
  <2>3. Len(b) - (n + 8) + 1 = Len(rest)
    BY <1>1
  <2>4. ASSUME NEW k \in 1..Len(rest) PROVE w[k] = rest[k]
    <3>1. n + 8 + k - 1 = n + 7 + k
      BY <1>1
    <3> QED
      BY <1>1, <2>2, <2>3, <3>1
  <2>5. w \in Seq(Atoms) /\ rest \in Seq(Atoms) /\ Len(w) = Len(rest)
    BY <2>2, <2>3 DEF Text
  <2> QED
    BY <2>4, <2>5, SeqEqual
<1> HIDE DEF w
<1>6. <<>> \o rest = rest
  BY ConcatEmptySeq DEF Text
<1> QED
  BY <1>3, <1>4, <1>5, <1>6 DEF Answer

-----------------------------------------------------------------------------
(* Trimmed texts, and what is read and written between and behind tags.    *)
LEMMA TrimSpaceText ==
    ASSUME NEW s \in Text
    PROVE  /\ TrimSpace(s) \in Text /\ TrimSpace(TrimSpace(s)) = TrimSpace(s)
           /\ TrimSpace(s) # <<>> => InkAtEnds(TrimSpace(s))
<1>1. PICK p : p = Trim(s, {" ", "\n"})
  OBVIOUS
<1>2. /\ p \in Text
      /\ p # <<>> => Len(p) >= 1 /\ p[1] \notin {" ", "\n"} /\ p[Len(p)] \notin {" ", "\n"}
  BY <1>1, TrimKeeps
<1>3. Trim(Trim(s, {" ", "\n"}), {" ", "\n"}) = Trim(s, {" ", "\n"})
  BY TrimTwice
<1>4. p # <<>> => InkAtEnds(p)
  BY <1>2 DEF InkAtEnds
<1> QED
  BY <1>1, <1>2, <1>3, <1>4 DEF TrimSpace

(* White space before a trimmed text goes.                                 *)
LEMMA NewlinesGo ==
    ASSUME NEW t \in Text, t # <<>>, TrimSpace(t) = t
    PROVE  TrimSpace(<<"\n", "\n">> \o t) = t
<1> DEFINE nls == <<"\n", "\n">>
           s == nls \o t
<1>1. nls \in Text /\ Len(nls) = 2 /\ nls[1] = "\n" /\ nls[2] = "\n"
  BY TagTexts
<1> HIDE DEF nls
<1>2. InkAtEnds(t)
  BY TrimSpaceText
<1>3. PICK n : n = Len(t)
  OBVIOUS
<1>4. /\ s \in Text /\ Len(s) = n + 2 /\ n \in Nat /\ n >= 1
      /\ s[1] = "\n" /\ s[2] = "\n" /\ \A k \in 1..n : s[2 + k] = t[k]
  <2>1. /\ s \in Text /\ Len(s) = Len(nls) + Len(t)
        /\ Len(nls) \in Nat /\ Len(t) \in Nat
        /\ \A k \in 1..Len(nls) : s[k] = nls[k]
        /\ \A k \in 1..Len(t) : s[Len(nls) + k] = t[k]
    BY <1>1, ConcatText
  <2> HIDE DEF s
  <2>2. n \in Nat /\ n >= 1
    BY <1>2, <1>3, <2>1 DEF InkAtEnds
  <2>3. s[1] = nls[1] /\ s[2] = nls[2]
    BY <1>1, <2>1
  <2> QED
    BY <1>1, <1>3, <2>1, <2>2, <2>3
<1> HIDE DEF s
<1>5. TrimSpace(s) = SubSeq(s, 3, n + 2)
  <2>1. DOMAIN s = 1..(n + 2)
    BY <1>4 DEF Text
  <2>2. 3 \in DOMAIN s /\ n + 2 \in DOMAIN s /\ 1 \in 1..n /\ n \in 1..n
    BY <1>4, <2>1
  <2>3. s[3] = t[1] /\ s[n + 2] = t[n]
    <3>1. s[2 + 1] = t[1] /\ s[2 + n] = t[n]
      BY <1>4, <2>2
    <3>2. 2 + 1 = 3 /\ 2 + n = n + 2
      BY <1>4
    <3> QED
      BY <3>1, <3>2
  <2>4. s[3] \notin {" ", "\n"} /\ s[n + 2] \notin {" ", "\n"}
    BY <1>2, <1>3, <2>3 DEF InkAtEnds
  <2>5. \A i \in DOMAIN s : i < 3 \/ n + 2 < i => s[i] \in {" ", "\n"}
    <3>1. \A i \in DOMAIN s : i < 3 \/ n + 2 < i => i = 1 \/ i = 2
      BY <1>4, <2>1
    <3> QED
      BY <1>4, <3>1
  <2>6. Trim(s, {" ", "\n"}) = SubSeq(s, 3, n + 2)
    BY <1>4, <2>2, <2>4, <2>5, TrimIs, ZenonT(40)
  <2> QED
    BY <2>6 DEF TrimSpace
<1>6. SubSeq(s, 3, n + 2) = t
  <2> DEFINE w == SubSeq(s, 3, n + 2)
  <2>1. 1 <= 3 /\ 3 \in Nat /\ n + 2 \in Nat /\ 3 <= (n + 2) + 1 /\ n + 2 <= Len(s)
    BY <1>4
  <2>2. w \in Text /\ Len(w) = (n + 2) - 3 + 1
        /\ \A k \in 1..((n + 2) - 3 + 1) : w[k] = s[3 + k - 1]
    BY <1>4, <2>1, PartOfText
  <2> HIDE DEF w
  <2>3. (n + 2) - 3 + 1 = n
    BY <1>4
  <2>4. ASSUME NEW k \in 1..n PROVE w[k] = t[k]
    <3>1. 3 + k - 1 = 2 + k
      BY <1>4
    <3> QED
      BY <1>4, <2>2, <2>3, <3>1
  <2>5. w \in Seq(Atoms) /\ t \in Seq(Atoms) /\ Len(w) = Len(t)
    BY <1>3, <2>2, <2>3 DEF Text
  <2>6. w = t
    BY <1>3, <2>4, <2>5, SeqEqual
  <2> QED
    BY <2>6 DEF w
<1> QED
  BY <1>5, <1>6 DEF s, nls

(* What joinThinkAndContent writes is a block, and trimming what is behind *)
(* it gives the trimmed content again.                                     *)
Behind(content) ==
    IF TrimSpace(content) = <<>> THEN <<>> ELSE <<"\n", "\n">> \o TrimSpace(content)

LEMMA BehindTrimmed ==
    ASSUME NEW c \in Text
    PROVE  Behind(c) \in Text /\ TrimSpace(Behind(c)) = TrimSpace(c)
<1>1. PICK t : t = TrimSpace(c)
  OBVIOUS
<1>2. t \in Text /\ TrimSpace(t) = t
  BY <1>1, TrimSpaceText
<1>3. CASE t = <<>>
  BY <1>1, <1>2, <1>3 DEF Behind
<1>4. CASE t # <<>>
  <2>1. Behind(c) = <<"\n", "\n">> \o t
    BY <1>1, <1>4 DEF Behind
  <2>2. TrimSpace(<<"\n", "\n">> \o t) = t
    BY <1>2, <1>4, NewlinesGo
  <2>3. <<"\n", "\n">> \in Text
    BY TagTexts
  <2>4. <<"\n", "\n">> \o t \in Text
    BY <1>2, <2>3, ConcatText
  <2> QED
    BY <1>1, <2>1, <2>2, <2>4
<1> QED
  BY <1>3, <1>4

LEMMA JoinIsBlock ==
    ASSUME NEW r, TrimSpace(r) = r, NEW c
    PROVE  JoinThinkAndContent(r, c) = Block(r, Behind(c))
BY DEF JoinThinkAndContent, Block, Behind

(* Reasoning in tags before an answer is found again, and joining the two  *)
(* again changes nothing.                                                  *)
LEMMA JoinReadBack ==
    ASSUME NEW r \in Text, TrimSpace(r) = r, r # <<>>, ~Has(ThinkClose, r), NEW c \in Text,
           NEW b, b = JoinThinkAndContent(r, c)
    PROVE  /\ b \in Text /\ Extractable(b) /\ Thinking(b) = r
           /\ Answer(b) = TrimSpace(c) /\ JoinThinkAndContent(r, Answer(b)) = b
<1>1. PICK n : n = Len(r)
  OBVIOUS
<1>2. PICK rest : rest = Behind(c)
  OBVIOUS
<1>3. rest \in Text /\ TrimSpace(rest) = TrimSpace(c)
  BY <1>2, BehindTrimmed
<1>4. b = Block(r, rest)
  BY <1>2, JoinIsBlock
<1>5. IsBlock(b, r, rest, n)
  BY <1>1, <1>3, <1>4, BlockAtoms
<1>6. InkAtEnds(r)
  BY TrimSpaceText
<1>7. b \in Text /\ n \in Nat
  BY <1>5 DEF IsBlock
<1>8. Extractable(b)
  <2>1. /\ Has(ThinkOpen, b) /\ Min(Occurrences(ThinkOpen, b)) = 1
        /\ Has(ThinkClose, b) /\ Min(Occurrences(ThinkClose, b)) = n + 5
    BY <1>1, <1>3, <1>5, BlockTags
  <2>2. 1 < n + 5
    BY <1>7
  <2> QED
    BY <2>1, <2>2 DEF Extractable
<1>9. Thinking(b) = r
  BY <1>1, <1>3, <1>5, <1>6, BlockThinking
<1>10. Answer(b) = TrimSpace(c)
  BY <1>1, <1>3, <1>5, BlockAnswer
<1>11. TrimSpace(TrimSpace(c)) = TrimSpace(c)
  BY TrimSpaceText
<1>12. JoinThinkAndContent(r, TrimSpace(c)) = b
  BY <1>11 DEF JoinThinkAndContent
<1> QED
  BY <1>7, <1>8, <1>9, <1>10, <1>12

(* No part of a text without a closing tag has one, and what is before the *)
(* first has none.                                                         *)
LEMMA PartHasNoClose ==
    ASSUME NEW s \in Text, NEW m \in Nat, NEW n \in Nat, 1 <= m, m <= n + 1, n <= Len(s),
           \A i \in Occurrences(ThinkClose, s) : i < m \/ n < i + 2
    PROVE  SubSeq(s, m, n) \in Text /\ ~Has(ThinkClose, SubSeq(s, m, n))
<1> DEFINE w == SubSeq(s, m, n)
<1>1. w \in Text /\ Len(w) = n - m + 1 /\ \A k \in 1..(n - m + 1) : w[k] = s[m + k - 1]
  BY PartOfText
<1>2. Len(s) \in Nat
  BY DEF Text
<1> HIDE DEF w
<1>3. ASSUME NEW i \in Occurrences(ThinkClose, w) PROVE FALSE
  <2>1. /\ i \in Nat /\ i >= 1 /\ i + 2 <= n - m + 1
        /\ w[i] = "<" /\ w[i + 1] = "/" /\ w[i + 2] = "think>"
    <3>1. w \in Text
      BY <1>1
    <3>2. /\ i \in Nat /\ i >= 1 /\ i + 2 <= Len(w)
          /\ w[i] = "<" /\ w[i + 1] = "/" /\ w[i + 2] = "think>"
      BY <3>1, CloseAt
    <3> QED
      BY <1>1, <3>2
  <2>2. PICK j : j = m + i - 1
    OBVIOUS
  <2>3. /\ j \in Nat /\ j >= m /\ j + 2 <= n /\ j + 2 <= Len(s) /\ j >= 1
        /\ m + (i + 1) - 1 = j + 1 /\ m + (i + 2) - 1 = j + 2
        /\ i \in 1..(n - m + 1) /\ i + 1 \in 1..(n - m + 1) /\ i + 2 \in 1..(n - m + 1)
    BY <1>2, <2>1, <2>2
  <2>4. w[i] = s[j] /\ w[i + 1] = s[j + 1] /\ w[i + 2] = s[j + 2]
    <3>1. /\ w[i] = s[m + i - 1] /\ w[i + 1] = s[m + (i + 1) - 1]
          /\ w[i + 2] = s[m + (i + 2) - 1]
      BY <1>1, <2>3
    <3> QED
      BY <2>2, <2>3, <3>1
  <2>5. s[j] = "<" /\ s[j + 1] = "/" /\ s[j + 2] = "think>"
    BY <2>1, <2>4
  <2>6. j \in Occurrences(ThinkClose, s)
    BY <2>3, <2>5, CloseAt
  <2>7. j < m \/ n < j + 2
    BY <2>6
  <2> QED
    BY <2>3, <2>7
<1> QED
  BY <1>1, <1>3 DEF w, Has

LEMMA BeforeHasNoClose ==
    ASSUME NEW s \in Text, Has(ThinkClose, s)
    PROVE  Before(ThinkClose, s) \in Text /\ ~Has(ThinkClose, Before(ThinkClose, s))
<1>1. PICK c : c = Min(Occurrences(ThinkClose, s))
  OBVIOUS
<1>2. /\ c \in Occurrences(ThinkClose, s) /\ c \in Nat
      /\ \A i \in Occurrences(ThinkClose, s) : i \in Nat /\ c <= i
  <2>1. Len(ThinkClose) \in Nat
    BY TagTexts
  <2> QED
    BY <1>1, <2>1, FirstPlace
<1>3. c >= 1 /\ c + 2 <= Len(s) /\ Len(s) \in Nat
  BY <1>2, CloseAt DEF Text
<1>4. PICK n : n = c - 1
  OBVIOUS
<1>5. n \in Nat /\ 1 \in Nat /\ 1 <= 1 /\ 1 <= n + 1 /\ n <= Len(s)
  BY <1>2, <1>3, <1>4
<1>6. \A i \in Occurrences(ThinkClose, s) : i < 1 \/ n < i + 2
  BY <1>2, <1>4
<1>7. SubSeq(s, 1, n) \in Text /\ ~Has(ThinkClose, SubSeq(s, 1, n))
  BY <1>5, <1>6, PartHasNoClose
<1> QED
  BY <1>1, <1>4, <1>7 DEF Before

LEMMA TrimHasNoClose ==
    ASSUME NEW s \in Text, ~Has(ThinkClose, s)
    PROVE  ~Has(ThinkClose, TrimSpace(s))
<1>1. Occurrences(ThinkClose, s) = {}
  BY DEF Has
<1>2. CASE TrimSpace(s) = <<>>
  <2>1. <<>> \in Text /\ Len(<<>>) = 0
    BY EmptySeq DEF Text
  <2>2. \A i : i \notin Occurrences(ThinkClose, <<>>)
    <3>1. \A i \in Nat : i >= 1 => ~(i + 2 <= 0)
      OBVIOUS
    <3> QED
      BY <2>1, <3>1, CloseAt
  <2> QED
    BY <1>2, <2>2 DEF Has
<1>3. CASE TrimSpace(s) # <<>>
  <2>1. Trim(s, {" ", "\n"}) # <<>>
    BY <1>3 DEF TrimSpace
  <2>2. PICK m, n \in 1..Len(s) : m <= n /\ Trim(s, {" ", "\n"}) = SubSeq(s, m, n)
    BY <2>1, TrimIsPart
  <2>3. m \in Nat /\ n \in Nat /\ 1 <= m /\ m <= n + 1 /\ n <= Len(s)
    <3>1. Len(s) \in Nat
      BY DEF Text
    <3>2. m \in 1..Len(s) /\ n \in 1..Len(s) /\ m <= n
      BY <2>2
    <3> QED
      BY <3>1, <3>2
  <2>4. ~Has(ThinkClose, SubSeq(s, m, n))
    BY <1>1, <2>3, PartHasNoClose
  <2> QED
    BY <2>2, <2>4 DEF TrimSpace
<1> QED
  BY <1>2, <1>3

(* What ExtractThink takes from between the first tags has no closing tag, *)
(* and is trimmed.                                                         *)
LEMMA ThinkingIsPlain ==
    ASSUME NEW s \in Text, Extractable(s), NEW t, t = Thinking(s)
    PROVE  t \in Text /\ TrimSpace(t) = t /\ ~Has(ThinkClose, t)
<1>1. PICK o : o = Min(Occurrences(ThinkOpen, s))
  OBVIOUS
<1>2. PICK c : c = Min(Occurrences(ThinkClose, s))
  OBVIOUS
<1>3. /\ o \in Occurrences(ThinkOpen, s) /\ o \in Nat
      /\ c \in Occurrences(ThinkClose, s) /\ c \in Nat /\ o < c
  <2>1. Len(ThinkClose) \in Nat /\ Len(ThinkOpen) \in Nat
    BY TagTexts
  <2>2. Has(ThinkOpen, s) /\ Has(ThinkClose, s) /\ o < c
    BY <1>1, <1>2 DEF Extractable
  <2> QED
    BY <1>1, <1>2, <2>1, <2>2, FirstPlace
<1>4. o >= 1 /\ o + 1 <= Len(s) /\ s[o + 1] = "think>" /\ Len(s) \in Nat
  BY <1>3, OpenAt DEF Text
<1>5. /\ c + 2 <= Len(s) /\ s[c] = "<" /\ s[c + 1] = "/" /\ s[c + 2] = "think>"
  BY <1>3, CloseAt
<1>6. c >= o + 2
  <2>1. c # o + 1
    BY <1>4, <1>5
  <2> QED
    BY <1>3, <2>1
<1> DEFINE u == SubSeq(s, o + 2, Len(s))
<1>7. After(ThinkOpen, s) = u
  <2>1. Len(ThinkOpen) = 2
    BY TagTexts
  <2> QED
    BY <1>1, <2>1 DEF After
<1>8. u \in Text /\ Len(u) = Len(s) - (o + 2) + 1
      /\ \A k \in 1..(Len(s) - (o + 2) + 1) : u[k] = s[o + 2 + k - 1]
  <2>1. 1 <= o + 2 /\ o + 2 \in Nat /\ o + 2 <= Len(s) + 1 /\ Len(s) <= Len(s)
    BY <1>3, <1>4
  <2> QED
    BY <1>4, <2>1, PartOfText
<1> HIDE DEF u
<1>9. Has(ThinkClose, u)
  <2>1. PICK j : j = c - (o + 1)
    OBVIOUS
  <2>2. /\ j \in Nat /\ j >= 1 /\ j + 2 <= Len(s) - (o + 2) + 1
        /\ o + 2 + j - 1 = c /\ o + 2 + (j + 1) - 1 = c + 1 /\ o + 2 + (j + 2) - 1 = c + 2
        /\ j \in 1..(Len(s) - (o + 2) + 1) /\ j + 1 \in 1..(Len(s) - (o + 2) + 1)
        /\ j + 2 \in 1..(Len(s) - (o + 2) + 1)
    BY <1>3, <1>4, <1>5, <1>6, <2>1
  <2>3. /\ u[j] = s[o + 2 + j - 1] /\ u[j + 1] = s[o + 2 + (j + 1) - 1]
        /\ u[j + 2] = s[o + 2 + (j + 2) - 1]
    BY <1>8, <2>2
  <2>4. u[j] = "<" /\ u[j + 1] = "/" /\ u[j + 2] = "think>"
    BY <1>5, <2>2, <2>3
  <2>5. u \in Text /\ j + 2 <= Len(u)
    BY <1>8, <2>2
  <2>6. j \in Occurrences(ThinkClose, u)
    BY <2>2, <2>4, <2>5, CloseAt
  <2> QED
    BY <2>6 DEF Has
<1>10. PICK v : v = Before(ThinkClose, u)
  OBVIOUS
<1>11. v \in Text /\ ~Has(ThinkClose, v)
  BY <1>8, <1>9, <1>10, BeforeHasNoClose
<1>12. t = TrimSpace(v)
  BY <1>7, <1>10 DEF Thinking
<1> QED
  BY <1>11, <1>12, TrimSpaceText, TrimHasNoClose

-----------------------------------------------------------------------------
(* The messages of an upstream.                                            *)
Value == {Absent, Null, Other} \cup Text
Message == [{"content"} \cup Fields -> Value]

LEMMA FieldsApart ==
    /\ "content" \notin Fields
    /\ \A i \in DOMAIN ReasoningFields : ReasoningFields[i] \in Fields
    /\ DOMAIN ReasoningFields = 1..Len(ReasoningFields) /\ Len(ReasoningFields) \in Nat
BY OptionsAssumption DEF Fields, Range

LEMMA TextOrNot ==
    /\ \A v \in Text : IsText(v)
    /\ \A v \in Value : IsText(v) => v \in Text
    /\ ~IsText(Absent) /\ ~IsText(Null) /\ ~IsText(Other)
BY OptionsAssumption DEF IsText, Value

LEMMA PartIsText ==
    ASSUME NEW v \in Value PROVE Part(v) \in Text
<1>1. <<>> \in Text
  BY EmptySeq DEF Text
<1>2. ASSUME IsText(v) PROVE <<"\n">> \o v \in Text
  <2>1. v \in Text /\ <<"\n">> \in Text
    BY <1>2, TextOrNot, TagTexts
  <2> QED
    BY <2>1, ConcatText
<1> QED
  BY <1>1, <1>2 DEF Part

(* Reasoning is collected trimmed.                                         *)
LEMMA CollectedTrimmed ==
    ASSUME NEW m \in Message
    PROVE  Collected(m) \in Text /\ TrimSpace(Collected(m)) = Collected(m)
<1> DEFINE parts == [i \in DOMAIN ReasoningFields |-> Part(m[ReasoningFields[i]])]
<1>1. \A i \in DOMAIN ReasoningFields : Part(m[ReasoningFields[i]]) \in Text
  BY FieldsApart, PartIsText DEF Message
<1>2. parts \in Seq(Text)
  BY <1>1, FieldsApart
<1>3. FlattenSeq(parts) \in Text
  BY <1>2, FlattenIsText
<1> HIDE DEF parts
<1>4. Collected(m) = TrimSpace(FlattenSeq(parts))
  BY DEF Collected, parts
<1> QED
  BY <1>3, <1>4, TrimSpaceText

(* Where the fields are consumed, nothing is left to collect.              *)
LEMMA NothingCollected ==
    ASSUME StripReasoningFields, NEW m \in Message
    PROVE  /\ Stripped(m) \in Message /\ Stripped(Stripped(m)) = Stripped(m)
           /\ Stripped(m)["content"] = m["content"] /\ Collected(Stripped(m)) = <<>>
<1>1. PICK x : x = Stripped(m)
  OBVIOUS
<1>2. x = [key \in {"content"} \cup Fields |->
              IF key \in Fields /\ IsText(m[key]) THEN Absent ELSE m[key]]
  <2>1. DOMAIN m = {"content"} \cup Fields
    BY DEF Message
  <2> QED
    BY <1>1, <2>1 DEF Stripped, Fields
<1>3. /\ \A key \in {"content"} \cup Fields : x[key] \in Value
      /\ \A key \in Fields : ~IsText(x[key])
      /\ x["content"] = m["content"]
  BY <1>2, FieldsApart, TextOrNot DEF Message, Value
<1>4. x \in Message
  BY <1>2, <1>3 DEF Message
<1>5. Stripped(x) = x
  <2>1. Stripped(x) = [key \in {"content"} \cup Fields |->
                          IF key \in Fields /\ IsText(x[key]) THEN Absent ELSE x[key]]
    <3>1. DOMAIN x = {"content"} \cup Fields
      BY <1>2
    <3> QED
      BY <3>1 DEF Stripped, Fields
  <2>2. \A key \in {"content"} \cup Fields :
          (IF key \in Fields /\ IsText(x[key]) THEN Absent ELSE x[key]) = x[key]
    BY <1>3
  <2>3. Stripped(x) = [key \in {"content"} \cup Fields |-> x[key]]
    BY <2>1, <2>2
  <2>4. x = [key \in {"content"} \cup Fields |-> x[key]]
    BY <1>2
  <2> QED
    BY <2>3, <2>4
<1>6. Collected(x) = <<>>
  <2> DEFINE parts == [i \in DOMAIN ReasoningFields |-> Part(x[ReasoningFields[i]])]
  <2>1. \A i \in DOMAIN ReasoningFields : Part(x[ReasoningFields[i]]) = <<>>
    BY <1>3, FieldsApart DEF Part
  <2>2. parts \in Seq({<<>>})
    BY <2>1, FieldsApart
  <2>3. \A s, t \in {<<>>} : s \o t \in {<<>>}
    BY EmptySeq, ConcatEmptySeq
  <2>4. FlattenSeq(parts) \in {<<>>}
    BY <2>2, <2>3, FlattenStays
  <2> HIDE DEF parts
  <2>5. Collected(x) = TrimSpace(FlattenSeq(parts))
    BY DEF Collected, parts
  <2> QED
    BY <2>4, <2>5, NothingToTrim DEF TrimSpace
<1> QED
  BY <1>1, <1>3, <1>4, <1>5, <1>6

(* What is around the tags is a text.                                      *)
LEMMA AnswerIsText ==
    ASSUME NEW s \in Text, Extractable(s) PROVE Answer(s) \in Text
<1>1. PICK o : o = Min(Occurrences(ThinkOpen, s))
  OBVIOUS
<1>2. PICK c : c = Min(Occurrences(ThinkClose, s))
  OBVIOUS
<1>3. o \in Occurrences(ThinkOpen, s) /\ c \in Occurrences(ThinkClose, s)
  <2>1. Len(ThinkClose) \in Nat /\ Len(ThinkOpen) \in Nat
    BY TagTexts
  <2>2. Has(ThinkOpen, s) /\ Has(ThinkClose, s)
    BY DEF Extractable
  <2> QED
    BY <1>1, <1>2, <2>1, <2>2, FirstPlace
<1>4. /\ o \in Nat /\ o >= 1 /\ o + 1 <= Len(s) /\ Len(s) \in Nat
      /\ c \in Nat /\ c >= 1 /\ c + 2 <= Len(s)
  BY <1>3, OpenAt, CloseAt DEF Text
<1>5. Before(ThinkOpen, s) \in Text
  <2>1. 1 \in Nat /\ o - 1 \in Nat /\ 1 <= 1 /\ 1 <= (o - 1) + 1 /\ o - 1 <= Len(s)
    BY <1>4
  <2>2. SubSeq(s, 1, o - 1) \in Text
    BY <2>1, PartOfText
  <2> QED
    BY <1>1, <2>2 DEF Before
<1>6. After(ThinkClose, s) \in Text
  <2>1. /\ c + 3 \in Nat /\ 1 <= c + 3 /\ c + 3 <= Len(s) + 1 /\ Len(s) <= Len(s)
    BY <1>4
  <2>2. SubSeq(s, c + 3, Len(s)) \in Text
    BY <1>4, <2>1, PartOfText
  <2>3. Len(ThinkClose) = 3
    BY TagTexts
  <2> QED
    BY <1>2, <2>2, <2>3 DEF After
<1>7. Before(ThinkOpen, s) \o After(ThinkClose, s) \in Text
  BY <1>5, <1>6, ConcatText
<1> QED
  BY <1>7, TrimSpaceText DEF Answer

(* What NormalizeMessage makes of a message of which no closing tag is in  *)
(* the reasoning, and that it then makes nothing else of it.               *)
Injected(m, r, c) == Stripped([m EXCEPT !["content"] = JoinThinkAndContent(r, c)])

LEMMA ContentTyped ==
    ASSUME NEW o \in Message
    PROVE  o["content"] \in Value /\ ContentOf(o) \in Text
<1>1. o["content"] \in Value
  BY DEF Message
<1>2. <<>> \in Text
  BY EmptySeq DEF Text
<1> QED
  BY <1>1, <1>2, TextOrNot DEF ContentOf

(* With reasoning in fields.                                               *)
LEMMA FieldsNormalized ==
    ASSUME StripReasoningFields, InjectThinkTag, NEW o \in Message,
           Collected(o) # <<>>, o["content"] # Other
    PROVE  NormalizeMessage(o) = Injected(o, Collected(o), ContentOf(o))
BY DEF NormalizeMessage, Injected

LEMMA TagsNormalized ==
    ASSUME NEW o \in Message, Collected(o) = <<>>, ParseThinkFromContent, InjectThinkTag,
           IsText(o["content"]), Extractable(o["content"]), Thinking(o["content"]) # <<>>
    PROVE  NormalizeMessage(o) =
             Injected(o, Thinking(o["content"]), Answer(o["content"]))
<1>1. o["content"] # Other
  BY TextOrNot
<1> QED
  BY <1>1 DEF NormalizeMessage, Injected

LEMMA NothingNormalized ==
    ASSUME NEW o, Collected(o) = <<>>, ~ParseThinkFromContent
    PROVE  NormalizeMessage(o) = Stripped(o)
BY DEF NormalizeMessage

LEMMA InjectedTwice ==
    ASSUME StripReasoningFields, InjectThinkTag, NEW o \in Message,
           NEW r \in Text, TrimSpace(r) = r, r # <<>>, ~Has(ThinkClose, r),
           NEW c \in Text, NEW m, m = Injected(o, r, c)
    PROVE  /\ m["content"] \in Text /\ Extractable(m["content"])
           /\ Thinking(m["content"]) = r /\ Answer(m["content"]) = TrimSpace(c)
           /\ NormalizeMessage(m) = m
<1>1. PICK b : b = JoinThinkAndContent(r, c)
  OBVIOUS
<1>2. /\ b \in Text /\ Extractable(b) /\ Thinking(b) = r
      /\ Answer(b) = TrimSpace(c) /\ JoinThinkAndContent(r, Answer(b)) = b
  BY <1>1, JoinReadBack
<1>3. PICK w : w = [o EXCEPT !["content"] = b]
  OBVIOUS
<1>4. w \in Message /\ w["content"] = b
  BY <1>2, <1>3 DEF Message, Value
<1>5. m = Stripped(w)
  BY <1>1, <1>3 DEF Injected
<1>6. /\ m \in Message /\ Stripped(m) = m /\ m["content"] = b
      /\ Collected(m) = <<>>
  BY <1>4, <1>5, NothingCollected
<1>7. IsText(b)
  BY <1>2, TextOrNot
<1>8. CASE ParseThinkFromContent
  <2>1. IsText(m["content"]) /\ Extractable(m["content"]) /\ Thinking(m["content"]) # <<>>
    BY <1>2, <1>6, <1>7
  <2>2. [m EXCEPT !["content"] = JoinThinkAndContent(Thinking(b), Answer(b))] = m
    <3>1. JoinThinkAndContent(Thinking(b), Answer(b)) = m["content"]
      BY <1>2, <1>6
    <3>2. \A v : v = m["content"] => [m EXCEPT !["content"] = v] = m
      BY <1>6 DEF Message
    <3> QED
      BY <3>1, <3>2
  <2>3. NormalizeMessage(m) = Injected(m, Thinking(m["content"]), Answer(m["content"]))
    BY <1>6, <1>8, <2>1, TagsNormalized
  <2>4. Injected(m, Thinking(b), Answer(b)) = Stripped(m)
    BY <2>2 DEF Injected
  <2> QED
    BY <1>2, <1>6, <2>3, <2>4
<1>9. CASE ~ParseThinkFromContent
  <2>1. NormalizeMessage(m) = Stripped(m)
    BY <1>6, <1>9, NothingNormalized
  <2> QED
    BY <1>2, <1>6, <2>1
<1> QED
  BY <1>2, <1>6, <1>8, <1>9

LEMMA NormalizedTwice ==
    ASSUME StripReasoningFields, NEW o \in Message, ~Has(ThinkClose, Collected(o))
    PROVE  NormalizeMessage(NormalizeMessage(o)) = NormalizeMessage(o)
<1> DEFINE c == o["content"]
           parsed == /\ ParseThinkFromContent /\ Collected(o) = <<>>
                     /\ IsText(c) /\ Extractable(c)
<1>1. PICK r : r = IF parsed THEN Thinking(c) ELSE Collected(o)
  OBVIOUS
<1>2. CASE ~(r # <<>> /\ InjectThinkTag /\ c # Other)
  <2>1. NormalizeMessage(o) = Stripped(o)
    BY <1>1, <1>2 DEF NormalizeMessage
  <2>2. PICK m : m = Stripped(o)
    OBVIOUS
  <2>3. /\ m \in Message /\ Stripped(m) = m /\ m["content"] = c /\ Collected(m) = <<>>
    BY <2>2, NothingCollected
  <2>4. NormalizeMessage(m) = Stripped(m)
    <3>1. CASE InjectThinkTag /\ c # Other
      <4>1. r = <<>>
        BY <1>2, <3>1
      <4>2. parsed => Thinking(c) = <<>>
        BY <1>1, <4>1
      <4>3. Collected(o) = <<>>
        BY <1>1, <4>1
      <4> QED
        BY <2>3, <4>2, <4>3 DEF NormalizeMessage
    <3>2. CASE ~(InjectThinkTag /\ c # Other)
      BY <2>3, <3>2 DEF NormalizeMessage
    <3> QED
      BY <3>1, <3>2
  <2> QED
    BY <2>1, <2>2, <2>3, <2>4
<1>3. CASE (r # <<>> /\ InjectThinkTag /\ c # Other) /\ parsed
  <2>1. c \in Text
    BY <1>3, ContentTyped, TextOrNot
  <2>2. r = Thinking(c)
    BY <1>1, <1>3
  <2>3. r \in Text /\ TrimSpace(r) = r /\ ~Has(ThinkClose, r)
    BY <1>3, <2>1, <2>2, ThinkingIsPlain
  <2>4. PICK a : a = Answer(c)
    OBVIOUS
  <2>5. a \in Text
    BY <1>3, <2>1, <2>4, AnswerIsText
  <2>6. NormalizeMessage(o) = Injected(o, r, a)
    BY <1>3, <2>2, <2>4, TagsNormalized
  <2> QED
    BY <1>3, <2>3, <2>5, <2>6, InjectedTwice
<1>4. CASE (r # <<>> /\ InjectThinkTag /\ c # Other) /\ ~parsed
  <2>1. r = Collected(o)
    BY <1>1, <1>4
  <2>2. r \in Text /\ TrimSpace(r) = r /\ ~Has(ThinkClose, r)
    BY <2>1, CollectedTrimmed
  <2>3. NormalizeMessage(o) = Injected(o, r, ContentOf(o))
    BY <1>4, <2>1, FieldsNormalized
  <2>4. ContentOf(o) \in Text
    BY ContentTyped
  <2> QED
    BY <1>4, <2>2, <2>3, <2>4, InjectedTwice
<1> QED
  BY <1>2, <1>3, <1>4
-----------------------------------------------------------------------------
(* A message is as the upstream sent it, or as one or two passes make it.  *)
MessageInv ==
    /\ original \in Message
    /\ \/ passes = 0 /\ message = original
       \/ passes = 1 /\ message = NormalizeMessage(original)
       \/ passes = 2 /\ message = NormalizeMessage(NormalizeMessage(original))

LEMMA MessageInvInit == Init => MessageInv
<1>1. \A messages \in SUBSET Message : MessageInit(messages) => MessageInv
  BY DEF MessageInit, MessageInv
<1>2. Messages \subseteq Message
  <2>1. Contents \subseteq Value /\ Reasonings \subseteq Value
    BY MessagesAssumption DEF Value
  <2>2. ASSUME NEW c \in Contents, NEW r \in [Fields -> Reasonings]
        PROVE  [key \in {"content"} \cup Fields |-> IF key = "content" THEN c ELSE r[key]]
                  \in Message
    BY <2>1 DEF Message
  <2> QED
    BY <2>2 DEF Messages
<1>3. {NoMessage} \subseteq Message
  BY DEF NoMessage, Message, Value
<1> QED
  BY <1>1, <1>2, <1>3 DEF Init

LEMMA MessageSteps ==
    [Next]_vars => NormalizeNonStream \/ UNCHANGED messageVars
BY DEF Next, vars, Forward, HandleNonStream, HandleStream

LEMMA MessageInvNext == MessageInv /\ [Next]_vars => MessageInv'
<1> SUFFICES ASSUME MessageInv, [Next]_vars PROVE MessageInv'
  OBVIOUS
<1>1. CASE NormalizeNonStream
  BY <1>1 DEF NormalizeNonStream, MessageInv
<1>2. CASE UNCHANGED messageVars
  BY <1>2 DEF messageVars, MessageInv
<1> QED
  BY <1>1, <1>2, MessageSteps

LEMMA MessageInvSuffices == MessageInv => ClientReadsBack
<1> SUFFICES ASSUME MessageInv, NEW r, r = Collected(original),
                    passes > 0, InjectThinkTag, Separable,
                    r # <<>>, original["content"] # Other
             PROVE  /\ Extractable(message["content"])
                    /\ Thinking(message["content"]) = r
                    /\ Answer(message["content"]) = TrimSpace(ContentOf(original))
  BY DEF ClientReadsBack
<1>1. original \in Message
  BY DEF MessageInv
<1>2. StripReasoningFields /\ ~Has(ThinkClose, r)
  BY DEF Separable
<1>3. PICK m : m = NormalizeMessage(original)
  OBVIOUS
<1>4. m = Injected(original, r, ContentOf(original))
  BY <1>1, <1>2, <1>3, FieldsNormalized
<1>5. r \in Text /\ TrimSpace(r) = r
  BY <1>1, CollectedTrimmed
<1>6. ContentOf(original) \in Text
  BY <1>1, ContentTyped
<1>7. /\ Extractable(m["content"]) /\ Thinking(m["content"]) = r
      /\ Answer(m["content"]) = TrimSpace(ContentOf(original))
      /\ NormalizeMessage(m) = m
  BY <1>1, <1>2, <1>4, <1>5, <1>6, InjectedTwice
<1>8. message = m
  BY <1>3, <1>7 DEF MessageInv
<1> QED
  BY <1>7, <1>8

(* For all texts of an upstream: reasoning from fields that has no closing *)
(* tag of its own is found again between the first tags of the content,    *)
(* and the answer around them, after one gateway and after two.            *)
THEOREM ReasoningReadBack == Spec => []ClientReadsBack
<1> QED
  BY MessageInvInit, MessageInvNext, MessageInvSuffices, PTL DEF Spec

(* For all texts of an upstream: the second gateway changes nothing that   *)
(* the first has normalised.                                               *)
THEOREM SecondPassIdle == Spec => SecondPassChangesNothing
<1>1. MessageInv /\ [Next]_vars => [passes = 1 /\ Separable => message' = message]_messageVars
  <2> SUFFICES ASSUME MessageInv, [Next]_vars, passes = 1, Separable
               PROVE  message' = message
    OBVIOUS
  <2>1. CASE NormalizeNonStream
    <3>1. original \in Message /\ message = NormalizeMessage(original)
      BY DEF MessageInv
    <3>2. message' = NormalizeMessage(message)
      BY <2>1 DEF NormalizeNonStream
    <3>3. NormalizeMessage(NormalizeMessage(original)) = NormalizeMessage(original)
      BY <3>1, NormalizedTwice DEF Separable
    <3> QED
      BY <3>1, <3>2, <3>3
  <2>2. CASE UNCHANGED messageVars
    BY <2>2 DEF messageVars
  <2> QED
    BY <2>1, <2>2, MessageSteps
<1> QED
  BY <1>1, MessageInvInit, MessageInvNext, PTL DEF Spec, SecondPassChangesNothing
=============================================================================
