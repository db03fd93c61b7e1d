----------------------------- MODULE ThinkMessage -----------------------------
(***************************************************************************)
(* NormalizeNonStream on the messages of an answer, as often as they pass  *)
(* a gateway: the upstream of a gateway may be a gateway.                  *)
(***************************************************************************)
EXTENDS ThinkText

CONSTANTS
    Contents,       \* the contents an upstream may send
    Reasonings      \* what it may send in a reasoning field

ASSUME MessagesAssumption ==
    Contents \cup Reasonings \subseteq {Absent, Null, Other} \cup Text

VARIABLES
    original,       \* the message as the upstream sent it
    message,        \* the message as it is now
    passes          \* the gateways it has passed, two at most

messageVars == <<original, message, passes>>

Fields == Range(ReasoningFields)
Messages ==
    {[key \in {"content"} \cup Fields |-> IF key = "content" THEN c ELSE r[key]] :
        c \in Contents, r \in [Fields -> Reasonings]}

MessageInit(messages) == original \in messages /\ message = original /\ passes = 0

NormalizeNonStream ==
    /\ passes < 2
    /\ message' = NormalizeMessage(message)
    /\ passes' = passes + 1
    /\ UNCHANGED original

-----------------------------------------------------------------------------
Count(atom, m) == Len(Keep(ReasoningOf(m) \o ContentOf(m), {atom}))

(* Moving reasoning into the content neither loses nor repeats a word of   *)
(* either, whether the reasoning came in fields or as tags in the content  *)
(* (normalizeMessageMap, ExtractThink).  Content that is no string, and    *)
(* options without tags or that leave the fields, are the exceptions the   *)
(* code makes.                                                             *)
TextKept ==
    InjectThinkTag /\ StripReasoningFields /\ original["content"] # Other =>
        \A atom \in {"r", "c"} : Count(atom, message) = Count(atom, original)

(* Where the fields are consumed and no closing tag is in the reasoning,   *)
(* the block it makes can be told from the rest.                           *)
Separable == StripReasoningFields /\ ~Has(ThinkClose, Collected(original))

(* A client that splits the content at the tags finds the reasoning        *)
(* between them and the answer around them (joinThinkAndContent), also if  *)
(* the answer itself has tags.                                             *)
ClientReadsBack ==
    LET r == Collected(original)
    IN  (/\ passes > 0 /\ InjectThinkTag /\ Separable
         /\ r # <<>> /\ original["content"] # Other) =>
            /\ Extractable(message["content"])
            /\ Thinking(message["content"]) = r
            /\ Answer(message["content"]) = TrimSpace(ContentOf(original))

(* A second gateway finds nothing left to do: neither reasoning that was   *)
(* moved nor tags that were in the content are moved again.                *)
SecondPassChangesNothing == [][passes = 1 /\ Separable => message' = message]_messageVars
=============================================================================
