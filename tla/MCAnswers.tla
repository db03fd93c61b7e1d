------------------------------ MODULE MCAnswers ------------------------------
(* Messages: every content of up to four pieces out of tags, a cut-off     *)
(* tag, words and blanks, with every reasoning in either field.  Streams:  *)
(* one upstream whose choice 0 says much and its choice 1 little, another  *)
(* that mixes reasoning and content in one choice.  Lines of every kind.    *)
EXTENDS Answers

MCFields == <<"reasoning_content", "reasoning">>
Pieces == {ThinkOpen, ThinkClose, <<"<">>, <<"c">>, <<" ">>}
MCContents == {FlattenSeq(p) : p \in SeqOf(Pieces, 4)} \cup {Absent, Null, Other}
MCReasonings == {Absent, Null, <<" ">>, <<"r">>, <<" ", "r", "\n", "r">>,
                 <<"r">> \o ThinkClose \o <<"r">>}

Delta(c, r) == [content |-> c, reasoning_content |-> r, reasoning |-> Absent]
One(i, d) == <<[index |-> i, delta |-> d]>>
Two(i, d, j, e) == One(i, d) \o One(j, e)

(* Two choices: content of choice 0 cut anywhere, with or without its      *)
(* index, beside a choice 1, also in one line and in either order.         *)
Cuts == {Delta(c, Absent) : c \in SeqOf({"<", "/", "think>", "c"}, 2) \cup {Null, Other}}
Aside == {Delta(<<"c">>, Absent), Delta(<<"<">>, Absent), Delta(Absent, <<"r">>)}
Beside == {Delta(<<"c">>, Absent), Delta(<<"/">>, Absent), Delta(<<"think>">>, Absent)}
CutLines ==
    {One(i, d) : i \in {0, Absent}, d \in Cuts}
    \cup {One(1, d) : d \in Aside}
    \cup {Two(i, d, j, e) : i \in {0, Absent}, j \in {1, Absent}, d \in Beside, e \in Aside}
    \cup {Two(1, e, 0, d) : d \in Beside, e \in Aside}
Cutting ==
    [lines |-> CutLines, maxSaid |-> 0 :> 6 @@ 1 :> 1, maxReasoned |-> 0 :> 0 @@ 1 :> 1]

(* One choice with reasoning and content, in one delta or in several.      *)
TalkLines ==
    {One(0, Delta(c, r)) :
        c \in {Absent, Null, Other, <<"c">>, <<" ">>, <<"c", "<">>, <<"think>">>},
        r \in {Absent, <<"r">>, <<" ", "r">>, <<" ">>}}
Talking == [lines |-> TalkLines, maxSaid |-> 0 :> 4 @@ 1 :> 0,
            maxReasoned |-> 0 :> 3 @@ 1 :> 0]
MCUpstreams == <<Cutting, Talking>>

(* Data lines with and without a usage, and one that is no JSON ([DONE]).  *)
Payload(json, usage) == [json |-> json, moved |-> FALSE, usage |-> usage]
MCPayloads == {Payload(TRUE, 0), Payload(TRUE, 3), Payload(TRUE, 5), Payload(FALSE, 0)}
=============================================================================
