----------------------------- MODULE ThinkStream -----------------------------
(***************************************************************************)
(* NormalizeSSEData on the data lines of one stream.  A line carries one   *)
(* or more choices; each choice has its own StreamState, kept by the       *)
(* tracker of the stream under the choice's index.  Lines that are not     *)
(* JSON with choices change nothing and are left out.                      *)
(***************************************************************************)
EXTENDS ThinkText

CONSTANTS
    Indices,                \* the indices of choices
    Upstreams               \* sequence of what upstreams may send: lines, a set of
                            \* sequences of choices; maxSaid and maxReasoned, the
                            \* most atoms per index (bounds)

VARIABLES
    upstream,   \* the one of Upstreams that answers
    tracker,    \* the StreamState per index
    sent,       \* per index, what the upstream sent so far
    shown,      \* per index, the content the client was sent so far
    open        \* the stream has not ended

streamVars == <<upstream, tracker, sent, shown, open>>

ASSUME IndicesAssumption == Indices \subseteq Nat /\ 0 \in Indices

(* What the upstream sent: the texts in full; moved, the reasoning as      *)
(* collectReasoning gives it line by line; late, that reasoning came after *)
(* content of which something is to be shown.                              *)
NothingSent == [said |-> <<>>, reasoned |-> <<>>, moved |-> <<>>, late |-> FALSE]

Whole(said) == Filter(<<>>, FALSE, said)

Sent(s, d) ==
    [said |-> s.said \o ContentOf(d),
     reasoned |-> s.reasoned \o ReasoningOf(d),
     moved |-> s.moved \o Collected(d),
     late |-> s.late \/ (Collected(d) # <<>> /\ Whole(s.said).out # <<>>)]

(* A choice without an index is taken for its position in the line.        *)
ChoiceIndex(line, pos) ==
    IF line[pos].index = Absent THEN pos - 1 ELSE line[pos].index

Deltas ==
    [{"content"} \cup Range(ReasoningFields) -> {Absent, Null, Other} \cup Text]
DataLines ==
    {line \in Seq([index : Indices \cup {Absent}, delta : Deltas]) :
        \A pos \in DOMAIN line : ChoiceIndex(line, pos) \in Indices}
ASSUME UpstreamsAssumption ==
    \A u \in DOMAIN Upstreams : Upstreams[u].lines \subseteq DataLines

(* Slip: one state for the whole stream.                                   *)
StateKeyShared(i) == 0

(* The tracker's key for the state of choice i.                            *)
StateKey(i) == i

StreamInit(upstreams) ==
    /\ upstream \in upstreams
    /\ tracker = [i \in Indices |-> NewStreamState]
    /\ sent = [i \in Indices |-> NothingSent]
    /\ shown = [i \in Indices |-> <<>>]
    /\ open = TRUE

(* The bounds: every choice of the line by itself fits.                    *)
Fits(line) ==
    \A pos \in DOMAIN line :
        LET i == ChoiceIndex(line, pos)
            d == line[pos].delta
        IN  /\ Len(sent[i].said) + Len(ContentOf(d)) <= Upstreams[upstream].maxSaid[i]
            /\ Len(sent[i].reasoned) + Len(ReasoningOf(d)) <= Upstreams[upstream].maxReasoned[i]

(* One choice of a line, given what the tracker and the client have.       *)
NormalizeChoice(acc, i, d) ==
    LET n == NormalizeDelta(acc.tracker[StateKey(i)], d)
    IN  [tracker |-> [acc.tracker EXCEPT ![StateKey(i)] = n.state],
         sent |-> [acc.sent EXCEPT ![i] = Sent(@, d)],
         shown |-> [acc.shown EXCEPT ![i] = @ \o ContentOf(n.delta)]]

(* The choices of a line, one after the other.                             *)
NormalizeChoices(acc, line) ==
    LET after[n \in 0..Len(line)] ==
            IF n = 0 THEN acc
            ELSE NormalizeChoice(after[n - 1], ChoiceIndex(line, n), line[n].delta)
    IN  after[Len(line)]

NormalizeSSEData(line) ==
    LET after == NormalizeChoices([tracker |-> tracker, sent |-> sent, shown |-> shown], line)
    IN  /\ open /\ Fits(line)
        /\ tracker' = after.tracker
        /\ sent' = after.sent
        /\ shown' = after.shown
        /\ UNCHANGED <<upstream, open>>

(* The stream ends: completed, or broken off anywhere.                     *)
EndStream == open /\ open' = FALSE /\ UNCHANGED <<upstream, tracker, sent, shown>>

StreamNext == (\E line \in Upstreams[upstream].lines : NormalizeSSEData(line)) \/ EndStream
-----------------------------------------------------------------------------
Inked(s) == TrimSpace(s) # <<>>
Ink(s) == Keep(s, Atoms \ {" ", "\n"})

(* Cuts and other choices do not change the words a choice shows: its      *)
(* reasoning in one block, then its content just as the filter makes it in *)
(* one piece, and the filter waits for the same rest.  Cuts do change the  *)
(* white space in the reasoning, which is trimmed line by line (moved), so *)
(* only its ink is that of the reasoning in full.  The block is still open *)
(* while no content was shown, thinking that came as content is not shown, *)
(* and reasoning after content, behind the closed tag, is excepted.        *)
WordsIndependentOfCuts ==
    \A i \in Indices :
        LET whole == Whole(sent[i].said)
            r == sent[i].moved
            both == r # <<>> /\ InjectThinkTag
        IN  ~sent[i].late =>
              /\ Ink(r) = Ink(sent[i].reasoned)
              /\ shown[i] = (IF both THEN ThinkOpen \o <<"\n">> ELSE <<>>) \o r
                    \o (IF both /\ whole.out # <<>>
                        THEN <<"\n">> \o ThinkClose \o <<"\n">> ELSE <<>>)
                    \o whole.out
              /\ <<tracker[i].rawBuf, tracker[i].inside>> = <<whole.rawBuf, whole.inside>>

(* Content without an opening tag is passed on at once, but for an end     *)
(* that may still become a tag; while the stream is open no character is   *)
(* lost or swapped, what is held back when it ends is lost.                *)
OnlyAPossibleTagIsHeld ==
    \A i \in Indices :
        (sent[i].moved = <<>> /\ ~Has(ThinkOpen, sent[i].said)) =>
            /\ sent[i].said = shown[i] \o tracker[i].rawBuf
            /\ IsPrefix(tracker[i].rawBuf, ThinkOpen) \/ IsPrefix(tracker[i].rawBuf, ThinkClose)

(* The same answer streamed or read in full says the same, white space     *)
(* aside: where there are reasoning, first, and content, and no tags in    *)
(* the content.                                                            *)
StreamMatchesMessage ==
    \A i \in Indices :
        LET s == sent[i]
            answer == [key \in {"content"} \cup Range(ReasoningFields) |->
                        CASE key = "content" -> s.said
                          [] key = ReasoningFields[1] -> s.reasoned
                          [] OTHER -> Absent]
        IN  (/\ InjectThinkTag /\ ~s.late /\ Inked(s.moved) /\ Inked(s.said)
             /\ "<" \notin Range(s.said)) =>
                Ink(shown[i]) = Ink(NormalizeMessage(answer)["content"])

(* The comment of NormalizeSSEData: reasoning is moved into the content.   *)
(* Violated: each piece is trimmed, the blanks between words are gone.     *)
ReasoningMoved ==
    \A i \in Indices :
        ~sent[i].late => Has(TrimSpace(sent[i].reasoned), shown[i])

(* README: thinking is collected in a real <think>...</think> of the       *)
(* content, also where the upstream has it in the content already.  What a *)
(* client reads there at the end is all thinking that was sent, white      *)
(* space aside.  Violated: only content closes the tag, not the end of a   *)
(* stream; reasoning after content follows the closed tag as plain text;   *)
(* and the filter drops what stands between the upstream's own tags.       *)
Read(s) == IF Extractable(s) THEN Thinking(s) ELSE <<>>
ThinkingInTags ==
    \A i \in Indices :
        ~open => Ink(Read(shown[i])) = Ink(sent[i].reasoned \o Read(sent[i].said))
=============================================================================
