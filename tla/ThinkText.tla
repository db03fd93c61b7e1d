------------------------------ MODULE ThinkText ------------------------------
(***************************************************************************)
(* What internal/transform does to the text of an answer: one message read *)
(* in full (NormalizeMessage), or one streamed delta given the state of    *)
(* its choice (NormalizeDelta).  A text is a sequence of atoms.  The tags  *)
(* are atoms that can be cut between: "<", "/" and "think>"; " " and "\n"  *)
(* are white space; every other atom is ink.                               *)
(***************************************************************************)
EXTENDS Texts

CONSTANTS
    InjectThinkTag, ParseThinkFromContent, StripReasoningFields, \* Options
    ReasoningFields,        \* the normalised fields, a sequence of keys
    Absent, Null, Other     \* no such key, JSON null, a value that is no string

ASSUME OptionsAssumption ==
    /\ {InjectThinkTag, ParseThinkFromContent, StripReasoningFields} \subseteq BOOLEAN
    /\ ReasoningFields \in Seq(STRING) \ {<<>>} /\ IsInjective(ReasoningFields)
    /\ "content" \notin Range(ReasoningFields)
    /\ Cardinality({Absent, Null, Other}) = 3 /\ \A v \in {Absent, Null, Other} : v \notin Text

ThinkOpen == <<"<", "think>">>
ThinkClose == <<"<", "/", "think>">>

Occurrences(t, s) ==
    {i \in 1..(Len(s) - Len(t) + 1) : SubSeq(s, i, i + Len(t) - 1) = t}
Has(t, s) == Occurrences(t, s) # {}
Before(t, s) == SubSeq(s, 1, Min(Occurrences(t, s)) - 1)
After(t, s) == SubSeq(s, Min(Occurrences(t, s)) + Len(t), Len(s))
-----------------------------------------------------------------------------
(* Slip: the shortest possible suffix is held back.                        *)
PossibleTagSuffixShortest(s) ==
    IF s # <<>> /\ Last(s) = "<" THEN <<"<">> ELSE <<>>

(* The end of s that more text may turn into a tag: the longest such.      *)
PossibleTagSuffix(s) ==
    CHOOSE keep \in Suffixes(s) :
        /\ IsPrefix(keep, ThinkOpen) \/ IsPrefix(keep, ThinkClose)
        /\ \A n \in (Len(keep) + 1)..Len(s) :
             LET suf == SubSeq(s, Len(s) - n + 1, Len(s))
             IN  ~IsPrefix(suf, ThinkOpen) /\ ~IsPrefix(suf, ThinkClose)

(* The loop of FilterRawThinkContent: each pass consumes text up to and    *)
(* with the next tag; text between the tags is dropped.                    *)
NextTag(inside) == IF inside THEN ThinkClose ELSE ThinkOpen
Emitted(inside, s) == IF inside THEN <<>> ELSE s

Scan[at \in Text \X BOOLEAN] ==
    LET buf == at[1]
        inside == at[2]
        keep == PossibleTagSuffix(buf)
    IN  IF Has(NextTag(inside), buf)
        THEN LET rest == Scan[<<After(NextTag(inside), buf), ~inside>>]
             IN  [rest EXCEPT !.out = Emitted(inside, Before(NextTag(inside), buf)) \o @]
        ELSE [out |-> Emitted(inside, SubSeq(buf, 1, Len(buf) - Len(keep))),
              rawBuf |-> keep, inside |-> inside]

(* Slip: what was held back is forgotten.                                  *)
FilterForgetful(rawBuf, inside, text) ==
    IF ParseThinkFromContent /\ text # <<>>
    THEN Scan[<<text, inside>>]
    ELSE [out |-> text, rawBuf |-> rawBuf, inside |-> inside]

Filter(rawBuf, inside, text) ==
    IF ParseThinkFromContent /\ text # <<>>
    THEN Scan[<<rawBuf \o text, inside>>]
    ELSE [out |-> text, rawBuf |-> rawBuf, inside |-> inside]
-----------------------------------------------------------------------------
IsText(v) == v \notin {Absent, Null, Other}
ContentOf(m) == IF IsText(m["content"]) THEN m["content"] ELSE <<>>
ReasoningOf(m) ==
    FlattenSeq([i \in DOMAIN ReasoningFields |->
        IF IsText(m[ReasoningFields[i]]) THEN m[ReasoningFields[i]] ELSE <<>>])

(* collectReasoning: the fields with any ink, on lines of their own.  The  *)
(* outer TrimSpace also takes the newline before the first one.            *)
Part(v) == IF IsText(v) /\ TrimSpace(v) # <<>> THEN <<"\n">> \o v ELSE <<>>
Collected(m) ==
    TrimSpace(FlattenSeq([i \in DOMAIN ReasoningFields |-> Part(m[ReasoningFields[i]])]))

(* Slip: consumed fields stay.                                             *)
StrippedNever(m) == m

Stripped(m) ==
    [key \in DOMAIN m |->
        IF StripReasoningFields /\ key \in Range(ReasoningFields) /\ IsText(m[key])
        THEN Absent ELSE m[key]]

(* ExtractThink.                                                           *)
Extractable(s) ==
    /\ Has(ThinkOpen, s) /\ Has(ThinkClose, s)
    /\ Min(Occurrences(ThinkOpen, s)) < Min(Occurrences(ThinkClose, s))
Thinking(s) == TrimSpace(Before(ThinkClose, After(ThinkOpen, s)))

(* Slip: only what follows the closing tag is the answer.                  *)
AnswerAfterClose(s) == TrimSpace(After(ThinkClose, s))

Answer(s) == TrimSpace(Before(ThinkOpen, s) \o After(ThinkClose, s))

(* Slip: the thinking after the answer.                                    *)
JoinContentFirst(reasoning, content) ==
    TrimSpace(content) \o <<"\n", "\n">> \o ThinkOpen \o reasoning \o ThinkClose

JoinThinkAndContent(reasoning, content) ==
    ThinkOpen \o <<"\n">> \o TrimSpace(reasoning) \o <<"\n">> \o ThinkClose
      \o (IF TrimSpace(content) = <<>> THEN <<>> ELSE <<"\n", "\n">> \o TrimSpace(content))

NormalizeMessage(m) ==
    LET parsed == /\ ParseThinkFromContent /\ Collected(m) = <<>>
                  /\ IsText(m["content"]) /\ Extractable(m["content"])
        reasoning == IF parsed THEN Thinking(m["content"]) ELSE Collected(m)
        content == IF parsed THEN Answer(m["content"]) ELSE ContentOf(m)
    IN  Stripped(IF reasoning # <<>> /\ InjectThinkTag /\ m["content"] # Other
                 THEN [m EXCEPT !["content"] = JoinThinkAndContent(reasoning, content)]
                 ELSE m)
-----------------------------------------------------------------------------
(* The state of a choice in a stream, and what a delta makes of it.        *)
NewStreamState ==
    [started |-> FALSE, closed |-> FALSE, rawBuf |-> <<>>, inside |-> FALSE]

(* Slip: each piece of reasoning opens the tag.                            *)
OpensAlways(state, d) == Collected(d) # <<>> /\ InjectThinkTag

Opens(state, d) == Collected(d) # <<>> /\ InjectThinkTag /\ ~state.started

NormalizeDelta(state, d) ==
    LET reasoning == Collected(d)
        opens == Opens(state, d)
        started == state.started \/ opens
        f == Filter(state.rawBuf, state.inside, ContentOf(d))
        closes == f.out # <<>> /\ started /\ ~state.closed
        text == (IF opens THEN ThinkOpen \o <<"\n">> ELSE <<>>) \o reasoning
                \o (IF closes THEN <<"\n">> \o ThinkClose \o <<"\n">> ELSE <<>>) \o f.out
        kept == IF d["content"] \in {Absent, Other} THEN d["content"] ELSE <<>>
    IN  [state |-> [started |-> started, closed |-> state.closed \/ closes,
                    rawBuf |-> f.rawBuf, inside |-> f.inside],
         delta |-> Stripped([d EXCEPT !["content"] = IF text = <<>> THEN kept ELSE text])]
=============================================================================
