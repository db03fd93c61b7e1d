-------------------------------- MODULE Texts --------------------------------
(***************************************************************************)
(* The functions of Go's strings package the gateway uses, on texts that   *)
(* are sequences of atoms: separators and words.                           *)
(***************************************************************************)
EXTENDS Integers, FiniteSetsExt, SequencesExt

Separators == {" ", "\n", "/", ".", "<", "think>"}
Atoms == Separators \cup STRING
Text == Seq(Atoms)

Trim(s, cut) ==
    LET kept == {i \in DOMAIN s : s[i] \notin cut}
    IN  IF kept = {} THEN <<>> ELSE SubSeq(s, Min(kept), Max(kept))

TrimRight(s, cut) == SubSeq(s, 1, Max({0} \cup {i \in DOMAIN s : s[i] \notin cut}))

TrimSpace(s) == Trim(s, {" ", "\n"})

Split(s, sep) ==
    LET parts[i \in 0..Len(s)] ==
            IF i = 0 THEN << <<>> >>
            ELSE LET before == parts[i - 1]
                 IN  IF s[i] = sep THEN Append(before, <<>>)
                     ELSE [before EXCEPT ![Len(before)] = Append(@, s[i])]
    IN  parts[Len(s)]

(* What a loop over s that appends the elements of S collects.             *)
Keep(s, S) ==
    LET kept[i \in 0..Len(s)] ==
            IF i = 0 THEN <<>>
            ELSE IF s[i] \in S THEN Append(kept[i - 1], s[i]) ELSE kept[i - 1]
    IN  kept[Len(s)]
=============================================================================
