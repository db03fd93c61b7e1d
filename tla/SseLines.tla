------------------------------- MODULE SseLines -------------------------------
(***************************************************************************)
(* The line loop of handleStream (internal/proxy/proxy.go).  An upstream   *)
(* sends server-sent events: lines of fields, an event ends with a blank   *)
(* line.  The loop knows lines only: it passes on every line at once, data *)
(* lines normalized and with a blank line of their own behind.  Line ends  *)
(* ("\n" or "\r\n") are left out.                                          *)
(***************************************************************************)
EXTENDS Integers, SequencesExt, FiniteSetsExt

CONSTANTS
    Names,      \* the names of "event:" lines
    Payloads,   \* what data lines carry: [json, moved, usage]
    MaxLines    \* most lines of a stream (bound)

VARIABLES
    arrived,        \* the lines read from the upstream
    data,           \* what the data lines among them carried
    direct,         \* what a client of the upstream itself had read by now
    read,           \* what the client has read of the lines written to it
    totalTokens,
    charged         \* what recordUsage was called with; -1 before

lineVars == <<arrived, data, direct, read, totalTokens, charged>>

ASSUME PayloadsAssumption ==
    Payloads \subseteq [json : BOOLEAN, moved : BOOLEAN, usage : Nat]

Line(field, value) == [field |-> field, value |-> value]
Blank == Line("blank", "")
Lines ==
    {Blank, Line("comment", "")} \cup {Line("event", n) : n \in Names}
      \cup {Line("data", p) : p \in Payloads}
(* What comes behind the last line end: all of a line, data that are no    *)
(* JSON any more, or less than a field name.                               *)
Cut == [json |-> FALSE, moved |-> FALSE, usage |-> 0]
Rests == (Lines \ {Blank}) \cup {Line("data", Cut), Line("unknown", "")}

(* NormalizeSSEData, see ThinkStream: only JSON is changed.                *)
NormalizeData(p) == [p EXCEPT !.moved = @ \/ p.json]

(* Slip: the blank line is left to the upstream.                           *)
WriteLineOnly(line) ==
    IF line.field = "data" THEN <<Line("data", NormalizeData(line.value))>> ELSE <<line>>
(* Slip: lines that are no data are left out.                              *)
WriteDataOnly(line) ==
    IF line.field = "data" THEN <<Line("data", NormalizeData(line.value)), Blank>>
    ELSE <<>>
Write(line) ==
    IF line.field = "data" THEN <<Line("data", NormalizeData(line.value)), Blank>>
    ELSE <<line>>

(* Slip: a line without a usage clears it.                                 *)
TokensOfLast(total, line) == IF line.field = "data" THEN line.value.usage ELSE total
Tokens(total, line) ==
    IF line.field = "data" /\ line.value.usage > 0 THEN line.value.usage ELSE total

-----------------------------------------------------------------------------
(* What a client makes of lines: events of a name and data lines.  Lines   *)
(* after the last blank line are no event yet; a block without data never  *)
(* becomes one.                                                            *)
NoEvent == [name |-> "message", data |-> <<>>]
NothingRead == [events |-> <<>>, next |-> NoEvent]
ParseLine(acc, line) ==
    CASE line.field = "blank" /\ acc.next.data # <<>> ->
            [events |-> Append(acc.events, acc.next), next |-> NoEvent]
      [] line.field = "blank" /\ acc.next.data = <<>> -> [acc EXCEPT !.next = NoEvent]
      [] line.field = "event" -> [acc EXCEPT !.next.name = line.value]
      [] line.field = "data" -> [acc EXCEPT !.next.data = Append(@, line.value)]
      [] OTHER -> acc
(* A line of the upstream becomes two lines at most.                       *)
ParseWritten(acc, lines) ==
    CASE lines = <<>> -> acc
      [] Len(lines) = 1 -> ParseLine(acc, lines[1])
      [] Len(lines) = 2 -> ParseLine(ParseLine(acc, lines[1]), lines[2])
-----------------------------------------------------------------------------
LinesInit ==
    /\ arrived = <<>> /\ data = <<>> /\ direct = NothingRead /\ read = NothingRead
    /\ totalTokens = 0 /\ charged = -1

Streaming == charged = -1

Handle(line) ==
    /\ arrived' = Append(arrived, line)
    /\ data' = IF line.field = "data" THEN Append(data, line.value) ELSE data
    /\ direct' = ParseLine(direct, line)
    /\ read' = ParseWritten(read, Write(line))
    /\ totalTokens' = Tokens(totalTokens, line)

ReadLine ==
    /\ Streaming /\ Len(arrived) < MaxLines
    /\ \E line \in Lines : Handle(line)
    /\ UNCHANGED charged

(* The stream ends, or breaks, inside a line: the rest counts as a line.   *)
ReadRest ==
    /\ Streaming /\ Len(arrived) < MaxLines
    /\ \E line \in Rests : Handle(line)
    /\ charged' = totalTokens'

(* The stream ends, or breaks, between two lines.                          *)
ReadNothing ==
    /\ Streaming
    /\ charged' = totalTokens
    /\ UNCHANGED <<arrived, data, direct, read, totalTokens>>

LinesNext == ReadLine \/ ReadRest \/ ReadNothing
-----------------------------------------------------------------------------
NormalizedEvent(e) == [e EXCEPT !.data = [i \in DOMAIN @ |-> NormalizeData(@[i])]]

(* Every event has one data line, and nothing but comments behind it: the  *)
(* form of chat completion streams.                                        *)
DataLast(lines) ==
    \A i, j \in DOMAIN lines :
        (/\ i < j /\ lines[i].field = "data" /\ lines[j].field \in {"data", "event"}) =>
            \E k \in i..j : lines[k] = Blank

(* A client of the gateway reads the events an upstream sends, in order,   *)
(* each with its name, although the gateway ends them earlier: none waits  *)
(* for its blank line, and that makes no second one.                       *)
EventsKept ==
    DataLast(arrived) =>
        LET sent == ParseLine(direct, Blank).events
        IN  read.events = [i \in DOMAIN sent |-> NormalizedEvent(sent[i])]

(* For any upstream no data is lost, repeated or put behind other data:    *)
(* every data line, also one that is cut off, is an event of its own.      *)
DataInOrder ==
    /\ Len(read.events) = Len(data)
    /\ \A i \in DOMAIN data : read.events[i].data = <<NormalizeData(data[i])>>

(* A stream is charged with the last usage it reported, however it ends    *)
(* and whatever came after the report.                                     *)
Reports == {i \in DOMAIN data : data[i].usage > 0}
ChargedAsReported ==
    ~Streaming => charged = IF Reports = {} THEN 0 ELSE data[Max(Reports)].usage
=============================================================================
