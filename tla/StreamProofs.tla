---------------------------- MODULE StreamProofs ----------------------------
(***************************************************************************)
(* What the filter of raw tags and the stream state make of a stream, for  *)
(* every text and every way to cut it.                                     *)
(***************************************************************************)
EXTENDS AnswersProofs

Tags == {ThinkOpen, ThinkClose}

(* The last n atoms of a text, and whether they begin a tag.               *)
EndOf(s, n) == SubSeq(s, Len(s) - n + 1, Len(s))
BeginsTag(s, n) ==
    \E t \in Tags : n <= Len(t) /\ \A k \in 1..n : s[Len(s) - n + k] = t[k]

(* n is the length of what the filter holds back of s.                     *)
Holds(s, n) ==
    /\ n \in 0..Len(s) /\ BeginsTag(s, n)
    /\ \A m \in (n + 1)..Len(s) : ~BeginsTag(s, m)

LEMMA TagShape ==
    \A t \in Tags : /\ t \in Text /\ Len(t) \in {2, 3} /\ t[1] = "<"
                    /\ \A k \in 2..Len(t) : t[k] # "<"
<1>1. \A k \in 2..2 : k = 2
  OBVIOUS
<1>2. \A k \in 2..3 : k = 2 \/ k = 3
  OBVIOUS
<1>3. \A k \in 2..Len(ThinkOpen) : ThinkOpen[k] # "<"
  BY <1>1, TagTexts
<1>4. \A k \in 2..Len(ThinkClose) : ThinkClose[k] # "<"
  BY <1>2, TagTexts
<1> QED
  BY <1>3, <1>4, TagTexts DEF Tags

LEMMA EndOfText ==
    ASSUME NEW s \in Text, NEW n \in 0..Len(s)
    PROVE  /\ EndOf(s, n) \in Text /\ Len(EndOf(s, n)) = n
           /\ \A k \in 1..n : EndOf(s, n)[k] = s[Len(s) - n + k]
<1>1. Len(s) \in Nat
  BY DEF Text
<1>2. PICK m : m = Len(s) - n + 1
  OBVIOUS
<1>3. m \in Nat /\ 1 <= m /\ m <= Len(s) + 1 /\ Len(s) <= Len(s) /\ Len(s) - m + 1 = n
  BY <1>1, <1>2
<1>4. /\ SubSeq(s, m, Len(s)) \in Text /\ Len(SubSeq(s, m, Len(s))) = n
      /\ \A k \in 1..n : SubSeq(s, m, Len(s))[k] = s[m + k - 1]
  BY <1>1, <1>3, PartOfText
<1>5. \A k \in 1..n : m + k - 1 = Len(s) - n + k
  BY <1>1, <1>2
<1> QED
  BY <1>2, <1>4, <1>5 DEF EndOf

LEMMA EndBeginsTag ==
    ASSUME NEW s \in Text, NEW n \in 0..Len(s)
    PROVE  (IsPrefix(EndOf(s, n), ThinkOpen) \/ IsPrefix(EndOf(s, n), ThinkClose))
             <=> BeginsTag(s, n)
<1> DEFINE e == EndOf(s, n)
<1>1. /\ e \in Text /\ Len(e) = n /\ n \in Nat
      /\ \A k \in 1..n : e[k] = s[Len(s) - n + k]
  BY EndOfText DEF Text
<1> HIDE DEF e
<1>2. ASSUME NEW t \in Tags
      PROVE  IsPrefix(e, t) <=> n <= Len(t) /\ \A k \in 1..n : s[Len(s) - n + k] = t[k]
  <2>1. t \in Text /\ Len(t) \in Nat
    BY TagShape DEF Text
  <2> SUFFICES ASSUME n <= Len(t)
               PROVE  SubSeq(e, 1, n) = SubSeq(t, 1, n)
                        <=> \A k \in 1..n : s[Len(s) - n + k] = t[k]
    BY <1>1, <2>1 DEF IsPrefix
  <2>2. SubSeq(e, 1, n) = e
    BY <1>1, SubSeqFull DEF Text
  <2>3. /\ SubSeq(t, 1, n) \in Text /\ Len(SubSeq(t, 1, n)) = n
        /\ \A k \in 1..n : SubSeq(t, 1, n)[k] = t[k]
    <3>1. 1 \in Nat /\ 1 <= 1 /\ 1 <= n + 1 /\ n - 1 + 1 = n /\ \A k \in 1..n : 1 + k - 1 = k
      BY <1>1
    <3>2. /\ SubSeq(t, 1, n) \in Text /\ Len(SubSeq(t, 1, n)) = n - 1 + 1
          /\ \A k \in 1..(n - 1 + 1) : SubSeq(t, 1, n)[k] = t[1 + k - 1]
      BY <3>1, <1>1, <2>1, PartOfText
    <3> QED
      BY <3>1, <3>2
  <2>4. ASSUME \A k \in 1..n : s[Len(s) - n + k] = t[k] PROVE e = SubSeq(t, 1, n)
    <3>1. \A k \in 1..Len(e) : e[k] = SubSeq(t, 1, n)[k]
      BY <1>1, <2>3, <2>4
    <3> QED
      BY <3>1, <1>1, <2>3, SeqEqual DEF Text
  <2>5. ASSUME e = SubSeq(t, 1, n) PROVE \A k \in 1..n : s[Len(s) - n + k] = t[k]
    BY <1>1, <2>3, <2>5
  <2> QED
    BY <2>2, <2>4, <2>5
<1>3. IsPrefix(e, ThinkOpen) \/ IsPrefix(e, ThinkClose) <=> \E t \in Tags : IsPrefix(e, t)
  BY DEF Tags
<1> QED
  BY <1>2, <1>3 DEF e, BeginsTag

LEMMA SomethingHeld ==
    ASSUME NEW s \in Text
    PROVE  \E n : Holds(s, n)
<1> DEFINE C == {n \in 0..Len(s) : BeginsTag(s, n)}
<1>1. Len(s) \in Nat
  BY DEF Text
<1>2. 0 \in C
  <2>1. 1..0 = {} /\ Len(ThinkOpen) = 2 /\ ThinkOpen \in Tags
    BY TagTexts DEF Tags
  <2>2. BeginsTag(s, 0)
    BY <2>1 DEF BeginsTag
  <2> QED
    BY <1>1, <2>2
<1>3. C \in SUBSET Nat /\ C # {} /\ \A n \in C : n <= Len(s)
  BY <1>1, <1>2
<1>4. Max(C) \in C /\ \A n \in C : n <= Max(C)
  BY <1>1, <1>3, GreatestPosition
<1>5. PICK n : n = Max(C)
  OBVIOUS
<1>6. ASSUME NEW m \in (n + 1)..Len(s) PROVE ~BeginsTag(s, m)
  <2>1. n \in Nat /\ m \in 0..Len(s) /\ ~(m <= n)
    BY <1>1, <1>4, <1>5
  <2>2. m \notin C
    BY <1>4, <1>5, <2>1
  <2> QED
    BY <2>1, <2>2
<1> QED
  BY <1>4, <1>5, <1>6 DEF Holds

LEMMA HeldIs ==
    ASSUME NEW s \in Text, NEW n, Holds(s, n)
    PROVE  PossibleTagSuffix(s) = EndOf(s, n)
<1> DEFINE Longest(keep) ==
             /\ IsPrefix(keep, ThinkOpen) \/ IsPrefix(keep, ThinkClose)
             /\ \A m \in (Len(keep) + 1)..Len(s) :
                  LET suf == SubSeq(s, Len(s) - m + 1, Len(s))
                  IN  ~IsPrefix(suf, ThinkOpen) /\ ~IsPrefix(suf, ThinkClose)
<1>1. Len(s) \in Nat /\ n \in Nat /\ n <= Len(s) /\ n \in 0..Len(s)
  BY DEF Text, Holds
<1>2. ASSUME NEW m \in 0..Len(s)
      PROVE  EndOf(s, m) \in Suffixes(s) /\ Len(EndOf(s, m)) = m
  <2>1. CASE m = 0
    <3>1. EndOf(s, m) \in Text /\ Len(EndOf(s, m)) = 0
      BY <2>1, EndOfText
    <3>2. EndOf(s, m) = <<>>
      BY <3>1, EmptySeq DEF Text
    <3> QED
      BY <2>1, <3>1, <3>2 DEF Suffixes
  <2>2. CASE m # 0
    <3>1. Len(s) - m + 1 \in 1..Len(s)
      BY <1>1, <2>2
    <3> QED
      BY <3>1, EndOfText DEF Suffixes, EndOf
  <2> QED
    BY <2>1, <2>2
<1>3. ASSUME NEW e \in Suffixes(s)
      PROVE  \E m \in 0..Len(s) : e = EndOf(s, m)
  <2>1. CASE e = <<>>
    <3>1. EndOf(s, 0) \in Text /\ Len(EndOf(s, 0)) = 0 /\ 0 \in 0..Len(s)
      BY <1>1, EndOfText
    <3>2. EndOf(s, 0) = <<>>
      BY <3>1, EmptySeq DEF Text
    <3> QED
      BY <2>1, <3>1, <3>2
  <2>2. CASE e # <<>>
    <3>1. PICK l \in 1..Len(s) : e = SubSeq(s, l, Len(s))
      BY <2>2 DEF Suffixes
    <3>2. PICK m : m = Len(s) - l + 1
      OBVIOUS
    <3>3. m \in 0..Len(s) /\ Len(s) - m + 1 = l
      BY <1>1, <3>2
    <3> QED
      BY <3>1, <3>3 DEF EndOf
  <2> QED
    BY <2>1, <2>2
<1>4. ASSUME NEW m \in 0..Len(s)
      PROVE  Longest(EndOf(s, m)) <=> BeginsTag(s, m) /\ \A j \in (m + 1)..Len(s) : ~BeginsTag(s, j)
  <2>1. Len(EndOf(s, m)) = m /\ m \in Nat
    BY <1>2
  <2>2. \A j \in (m + 1)..Len(s) : j \in 0..Len(s)
    BY <1>1, <2>1
  <2>3. \A j \in (m + 1)..Len(s) :
           ~BeginsTag(s, j) <=> LET suf == SubSeq(s, Len(s) - j + 1, Len(s))
                               IN  ~IsPrefix(suf, ThinkOpen) /\ ~IsPrefix(suf, ThinkClose)
    BY <2>2, EndBeginsTag DEF EndOf
  <2> QED
    BY <2>1, <2>3, EndBeginsTag
<1>5. EndOf(s, n) \in Suffixes(s) /\ Longest(EndOf(s, n))
  BY <1>1, <1>2, <1>4 DEF Holds
<1> HIDE DEF Longest
<1>6. ASSUME NEW e \in Suffixes(s), Longest(e) PROVE e = EndOf(s, n)
  <2>1. PICK m \in 0..Len(s) : e = EndOf(s, m)
    BY <1>3
  <2>2. BeginsTag(s, m) /\ \A j \in (m + 1)..Len(s) : ~BeginsTag(s, j)
    BY <1>4, <1>6, <2>1
  <2>3. m \in Nat /\ ~(n < m) /\ ~(m < n)
    <3>1. m \in Nat
      OBVIOUS
    <3>2. n < m => m \in (n + 1)..Len(s)
      BY <1>1, <3>1
    <3>3. m < n => n \in (m + 1)..Len(s)
      BY <1>1, <3>1
    <3> QED
      BY <2>2, <3>1, <3>2, <3>3 DEF Holds
  <2>4. m = n
    BY <1>1, <2>3
  <2> QED
    BY <2>1, <2>4
<1>7. PossibleTagSuffix(s) = CHOOSE keep \in Suffixes(s) : Longest(keep)
  BY DEF PossibleTagSuffix, Longest
<1> QED
  BY <1>5, <1>6, <1>7
-----------------------------------------------------------------------------
(* A text with a tag is what is before the first, the tag, and the rest.   *)
LEMMA TagSplits ==
    ASSUME NEW s \in Text, NEW t \in Tags, Has(t, s), NEW p, p = Min(Occurrences(t, s))
    PROVE  /\ p \in Occurrences(t, s) /\ p \in 1..(Len(s) - Len(t) + 1)
           /\ \A i \in Occurrences(t, s) : i \in Nat /\ p <= i
           /\ Before(t, s) = SubSeq(s, 1, p - 1) /\ After(t, s) = SubSeq(s, p + Len(t), Len(s))
           /\ Before(t, s) \in Text /\ Len(Before(t, s)) = p - 1
           /\ After(t, s) \in Text /\ Len(After(t, s)) = Len(s) - Len(t) - p + 1
           /\ Len(After(t, s)) \in Nat /\ Len(After(t, s)) < Len(s)
<1>1. Len(s) \in Nat /\ t \in Text /\ Len(t) \in {2, 3} /\ Len(t) \in Nat
  BY TagShape DEF Text
<1>2. /\ p \in Occurrences(t, s)
      /\ \A i \in Occurrences(t, s) : i \in Nat /\ p <= i
  BY <1>1, FirstPlace
<1>3. p \in 1..(Len(s) - Len(t) + 1)
  BY <1>2 DEF Occurrences
<1>4. Before(t, s) = SubSeq(s, 1, p - 1) /\ After(t, s) = SubSeq(s, p + Len(t), Len(s))
  BY DEF Before, After
<1>5. Before(t, s) \in Text /\ Len(Before(t, s)) = p - 1
  <2>1. PICK n : n = p - 1
    OBVIOUS
  <2>2. n \in Nat /\ 1 \in Nat /\ 1 <= 1 /\ 1 <= n + 1 /\ n <= Len(s) /\ n - 1 + 1 = n
    BY <1>1, <1>3, <2>1
  <2>3. SubSeq(s, 1, n) \in Text /\ Len(SubSeq(s, 1, n)) = n - 1 + 1
    BY <2>2, PartOfText
  <2>4. Before(t, s) = SubSeq(s, 1, n)
    BY <2>1, <1>4
  <2> QED
    BY <2>1, <2>2, <2>3, <2>4
<1>6. After(t, s) \in Text /\ Len(After(t, s)) = Len(s) - Len(t) - p + 1
  <2>1. PICK m : m = p + Len(t)
    OBVIOUS
  <2>2. m \in Nat /\ 1 <= m /\ m <= Len(s) + 1 /\ Len(s) <= Len(s)
        /\ Len(s) - m + 1 = Len(s) - Len(t) - p + 1
    BY <1>1, <1>3, <2>1
  <2>3. SubSeq(s, m, Len(s)) \in Text /\ Len(SubSeq(s, m, Len(s))) = Len(s) - m + 1
    BY <2>2, <1>1, PartOfText
  <2>4. After(t, s) = SubSeq(s, m, Len(s))
    BY <2>1, <1>4
  <2>5. After(t, s) \in Text
    BY <2>3, <2>4
  <2>6. Len(After(t, s)) = Len(s) - m + 1
    BY <2>3, <2>4
  <2> QED
    BY <2>2, <2>5, <2>6
<1>7. Len(s) - Len(t) - p + 1 \in Nat /\ Len(s) - Len(t) - p + 1 < Len(s)
  <2>1. \A n \in Nat : \A l \in Nat : \A q \in 1..(n - l + 1) :
            l >= 1 => n - l - q + 1 \in Nat /\ n - l - q + 1 < n
    OBVIOUS
  <2>2. Len(t) >= 1
    BY <1>1
  <2> QED
    BY <1>1, <1>3, <2>1, <2>2
<1> QED
  BY <1>2, <1>3, <1>4, <1>5, <1>6, <1>7

(* The equation of Scan.  That there is a function with this equation is   *)
(* shown up to every length, for the least length where there were none;   *)
(* what these functions agree on makes the whole one.                      *)
Places == Text \X BOOLEAN
ScanBy(f, at) ==
    LET buf == at[1]
        inside == at[2]
        keep == PossibleTagSuffix(buf)
    IN  IF Has(NextTag(inside), buf)
        THEN LET rest == f[<<After(NextTag(inside), buf), ~inside>>]
             IN  [rest EXCEPT !.out = Emitted(inside, Before(NextTag(inside), buf)) \o @]
        ELSE [out |-> Emitted(inside, SubSeq(buf, 1, Len(buf) - Len(keep))),
              rawBuf |-> keep, inside |-> inside]
ScansUpTo(f, n) == \A at \in Places : Len(at[1]) <= n => f[at] = ScanBy(f, at)

LEMMA PlaceLength ==
    ASSUME NEW at \in Places
    PROVE  at[1] \in Text /\ at[2] \in BOOLEAN /\ at = <<at[1], at[2]>> /\ Len(at[1]) \in Nat
<1>1. at[1] \in Text /\ at[2] \in BOOLEAN /\ at = <<at[1], at[2]>>
  BY DEF Places
<1> QED
  BY <1>1 DEF Text

LEMMA NextIsTag == \A inside : NextTag(inside) \in Tags
BY DEF NextTag, Tags

LEMMA ScanLocal ==
    ASSUME NEW at \in Places, NEW f, NEW g,
           \A b \in Places : Len(b[1]) < Len(at[1]) => f[b] = g[b]
    PROVE  ScanBy(f, at) = ScanBy(g, at)
<1>1. CASE Has(NextTag(at[2]), at[1])
  <2>1. PICK b : b = <<After(NextTag(at[2]), at[1]), ~at[2]>>
    OBVIOUS
  <2>2. After(NextTag(at[2]), at[1]) \in Text
        /\ Len(After(NextTag(at[2]), at[1])) < Len(at[1])
    BY <1>1, PlaceLength, NextIsTag, TagSplits
  <2>3. b \in Places /\ b[1] = After(NextTag(at[2]), at[1])
    BY <2>1, <2>2 DEF Places
  <2>4. f[b] = g[b]
    BY <2>2, <2>3
  <2> QED
    BY <1>1, <2>1, <2>4 DEF ScanBy
<1>2. CASE ~Has(NextTag(at[2]), at[1])
  BY <1>2 DEF ScanBy
<1> QED
  BY <1>1, <1>2

LEMMA ScansAgree ==
    ASSUME NEW f, NEW g, NEW n \in Nat, ScansUpTo(f, n), ScansUpTo(g, n)
    PROVE  \A at \in Places : Len(at[1]) <= n => f[at] = g[at]
<1> DEFINE Fails == {m \in 0..n : \E at \in Places : Len(at[1]) = m /\ f[at] # g[at]}
<1>1. Fails = {}
  <2> SUFFICES ASSUME Fails # {} PROVE FALSE
    OBVIOUS
  <2>1. Fails \in SUBSET Nat
    OBVIOUS
  <2>2. PICK m \in Fails : \A k \in Fails : m <= k
    BY <2>1, LeastPosition
  <2>3. PICK at \in Places : Len(at[1]) = m /\ f[at] # g[at]
    OBVIOUS
  <2>4. ASSUME NEW b \in Places, Len(b[1]) < Len(at[1]) PROVE f[b] = g[b]
    <3>1. Len(b[1]) \in Nat /\ m \in Nat /\ m <= n
      BY PlaceLength
    <3>2. Len(b[1]) \in 0..n /\ ~(m <= Len(b[1]))
      BY <2>3, <2>4, <3>1
    <3>3. Len(b[1]) \notin Fails
      BY <2>2, <3>2
    <3> QED
      BY <3>2, <3>3
  <2>5. ScanBy(f, at) = ScanBy(g, at)
    BY <2>4, ScanLocal
  <2>6. Len(at[1]) <= n
    BY <2>3
  <2> QED
    BY <2>3, <2>5, <2>6 DEF ScansUpTo
<1> SUFFICES ASSUME NEW at \in Places, Len(at[1]) <= n, f[at] # g[at] PROVE FALSE
  OBVIOUS
<1>2. Len(at[1]) \in 0..n
  BY PlaceLength
<1> QED
  BY <1>1, <1>2

LEMMA ScansExist ==
    ASSUME NEW n \in Nat
    PROVE  \E f : ScansUpTo(f, n)
<1> DEFINE Fails == {k \in Nat : ~\E f : ScansUpTo(f, k)}
<1> SUFFICES ASSUME Fails # {} PROVE FALSE
  OBVIOUS
<1>1. Fails \in SUBSET Nat
  OBVIOUS
<1>2. PICK m \in Fails : \A k \in Fails : m <= k
  BY <1>1, LeastPosition
<1>3. m \in Nat /\ ~\E f : ScansUpTo(f, m)
  OBVIOUS
<1>4. \E g : \A at \in Places : Len(at[1]) < m => g[at] = ScanBy(g, at)
  <2>1. CASE m = 0
    <3>1. \A at \in Places : ~(Len(at[1]) < m)
      BY <2>1, PlaceLength
    <3> QED
      BY <3>1
  <2>2. CASE m # 0
    <3>1. m - 1 \in Nat /\ m - 1 \notin Fails
      BY <1>2, <1>3, <2>2
    <3>2. PICK g : ScansUpTo(g, m - 1)
      BY <3>1
    <3>3. \A at \in Places : Len(at[1]) < m => Len(at[1]) <= m - 1
      BY <1>3, PlaceLength
    <3> QED
      BY <3>2, <3>3 DEF ScansUpTo
  <2> QED
    BY <2>1, <2>2
<1>5. PICK g : \A at \in Places : Len(at[1]) < m => g[at] = ScanBy(g, at)
  BY <1>4
<1> DEFINE f == [at \in Places |-> IF Len(at[1]) < m THEN g[at] ELSE ScanBy(g, at)]
<1>6. ASSUME NEW at \in Places, Len(at[1]) <= m PROVE f[at] = ScanBy(f, at)
  <2>1. f[at] = ScanBy(g, at)
    BY <1>5
  <2>2. \A b \in Places : Len(b[1]) < Len(at[1]) => f[b] = g[b]
    <3>1. \A b \in Places : Len(b[1]) < Len(at[1]) => Len(b[1]) < m
      BY <1>3, <1>6, PlaceLength
    <3> QED
      BY <3>1
  <2> HIDE DEF f
  <2>3. ScanBy(f, at) = ScanBy(g, at)
    BY <2>2, ScanLocal
  <2> QED
    BY <2>1, <2>3
<1> HIDE DEF f
<1> QED
  BY <1>3, <1>6 DEF ScansUpTo

LEMMA ScanEquation ==
    /\ Scan = [at \in Places |-> Scan[at]]
    /\ \A at \in Places : Scan[at] = ScanBy(Scan, at)
<1> DEFINE upTo(n) == CHOOSE f : ScansUpTo(f, n)
           F == [at \in Places |-> upTo(Len(at[1]))[at]]
<1>1. \A n \in Nat : ScansUpTo(upTo(n), n)
  BY ScansExist
<1> HIDE DEF upTo
<1>2. ASSUME NEW at \in Places PROVE F[at] = ScanBy(F, at)
  <2>1. PICK n : n = Len(at[1])
    OBVIOUS
  <2>2. n \in Nat /\ ScansUpTo(upTo(n), n)
    BY <1>1, <2>1, PlaceLength
  <2>3. upTo(n)[at] = ScanBy(upTo(n), at)
    BY <2>1, <2>2 DEF ScansUpTo
  <2>4. ASSUME NEW b \in Places, Len(b[1]) < Len(at[1]) PROVE F[b] = upTo(n)[b]
    <3>1. PICK m : m = Len(b[1])
      OBVIOUS
    <3>2. m \in Nat /\ m < n /\ ScansUpTo(upTo(m), m)
      BY <1>1, <2>1, <2>4, <3>1, PlaceLength
    <3>3. ScansUpTo(upTo(n), m)
      <4>1. \A c \in Places : Len(c[1]) <= m => Len(c[1]) <= n
        BY <2>2, <3>2, PlaceLength
      <4> QED
        BY <2>2, <4>1 DEF ScansUpTo
    <3>4. upTo(m)[b] = upTo(n)[b]
      <4>1. Len(b[1]) <= m
        BY <3>1, <3>2
      <4> QED
        BY <3>2, <3>3, <4>1, ScansAgree
    <3> QED
      BY <3>1, <3>4
  <2>5. F[at] = upTo(n)[at]
    BY <2>1
  <2> HIDE DEF F
  <2>6. ScanBy(F, at) = ScanBy(upTo(n), at)
    BY <2>4, ScanLocal
  <2> QED
    BY <2>3, <2>5, <2>6
<1>3. F = [at \in Places |-> F[at]]
  OBVIOUS
<1> HIDE DEF F
<1>4. F = [at \in Places |-> ScanBy(F, at)]
  BY <1>2, <1>3
<1>5. \E f : f = [at \in Places |-> ScanBy(f, at)]
  BY <1>4
<1>6. Scan = CHOOSE f : f = [at \in Places |-> ScanBy(f, at)]
  BY DEF Scan, ScanBy, Places
<1>7. Scan = [at \in Places |-> ScanBy(Scan, at)]
  BY <1>5, <1>6
<1> QED
  BY <1>7
-----------------------------------------------------------------------------
(* What Scan gives, by its two cases.                                      *)
Follows(r, text, q) ==
    r.out = text \o q.out /\ r.rawBuf = q.rawBuf /\ r.inside = q.inside
Scanned == [out : Text, rawBuf : Text, inside : BOOLEAN]

LEMMA ThreeTexts ==
    \A x, y, z \in Text : (x \o y) \o z = x \o (y \o z)
<1>1. \A x, y, z \in Seq(Atoms) : (x \o y) \o z = x \o (y \o z)
  BY ConcatAssociative
<1> QED
  BY <1>1 DEF Text

LEMMA NothingAdded == \A x \in Text : <<>> \o x = x /\ x \o <<>> = x
BY ConcatEmptySeq DEF Text

LEMMA EmittedText == \A in \in BOOLEAN : \A s \in Text : Emitted(in, s) \in Text
BY EmptySeq DEF Emitted, Text

LEMMA EmittedParts ==
    \A in \in BOOLEAN : \A x, y \in Text :
        Emitted(in, x \o y) = Emitted(in, x) \o Emitted(in, y)
<1>1. <<>> \o <<>> = <<>>
  BY EmptySeq, NothingAdded DEF Text
<1> QED
  BY <1>1 DEF Emitted

LEMMA ScanUntagged ==
    ASSUME NEW s \in Text, NEW in \in BOOLEAN, ~Has(NextTag(in), s), NEW n, Holds(s, n),
           NEW r, r = Scan[<<s, in>>]
    PROVE  /\ r \in Scanned
           /\ r.out = Emitted(in, SubSeq(s, 1, Len(s) - n))
           /\ r.rawBuf = EndOf(s, n) /\ r.inside = in
           /\ SubSeq(s, 1, Len(s) - n) \in Text /\ Len(SubSeq(s, 1, Len(s) - n)) = Len(s) - n
<1>1. Len(s) \in Nat /\ n \in Nat /\ n <= Len(s) /\ n \in 0..Len(s)
  BY DEF Text, Holds
<1>2. EndOf(s, n) \in Text /\ Len(EndOf(s, n)) = n
  BY <1>1, EndOfText
<1>3. PossibleTagSuffix(s) = EndOf(s, n)
  BY HeldIs
<1>4. <<s, in>> \in Places /\ <<s, in>>[1] = s /\ <<s, in>>[2] = in
  BY DEF Places
<1>5. r = ScanBy(Scan, <<s, in>>)
  BY <1>4, ScanEquation
<1>6. r = [out |-> Emitted(in, SubSeq(s, 1, Len(s) - n)), rawBuf |-> EndOf(s, n),
           inside |-> in]
  BY <1>2, <1>3, <1>4, <1>5 DEF ScanBy
<1>7. SubSeq(s, 1, Len(s) - n) \in Text /\ Len(SubSeq(s, 1, Len(s) - n)) = Len(s) - n
  <2>1. PICK m : m = Len(s) - n
    OBVIOUS
  <2>2. m \in Nat /\ 1 \in Nat /\ 1 <= 1 /\ 1 <= m + 1 /\ m <= Len(s) /\ m - 1 + 1 = m
    BY <1>1, <2>1
  <2>3. SubSeq(s, 1, m) \in Text /\ Len(SubSeq(s, 1, m)) = m - 1 + 1
    BY <2>2, PartOfText
  <2> QED
    BY <2>1, <2>2, <2>3
<1>8. Emitted(in, SubSeq(s, 1, Len(s) - n)) \in Text
  BY <1>7, EmittedText
<1> QED
  BY <1>2, <1>6, <1>7, <1>8 DEF Scanned

LEMMA ScanTaggedBy ==
    ASSUME NEW s \in Text, NEW in \in BOOLEAN, Has(NextTag(in), s)
    PROVE  /\ <<After(NextTag(in), s), ~in>> \in Places
           /\ Scan[<<s, in>>] =
                [Scan[<<After(NextTag(in), s), ~in>>]
                    EXCEPT !.out = Emitted(in, Before(NextTag(in), s)) \o @]
<1>1. <<s, in>> \in Places /\ <<s, in>>[1] = s /\ <<s, in>>[2] = in
  BY DEF Places
<1>2. Scan[<<s, in>>] = ScanBy(Scan, <<s, in>>)
  BY <1>1, ScanEquation
<1>3. After(NextTag(in), s) \in Text
  BY NextIsTag, TagSplits
<1> QED
  BY <1>1, <1>2, <1>3 DEF ScanBy, Places

LEMMA ScanTyped == \A at \in Places : Scan[at] \in Scanned
<1> DEFINE Fails == {m \in Nat : \E at \in Places : Len(at[1]) = m /\ Scan[at] \notin Scanned}
<1>1. Fails = {}
  <2> SUFFICES ASSUME Fails # {} PROVE FALSE
    OBVIOUS
  <2>1. Fails \in SUBSET Nat
    OBVIOUS
  <2>2. PICK m \in Fails : \A k \in Fails : m <= k
    BY <2>1, LeastPosition
  <2>3. PICK at \in Places : Len(at[1]) = m /\ Scan[at] \notin Scanned
    OBVIOUS
  <2>4. PICK s \in Text, in \in BOOLEAN : at = <<s, in>> /\ at[1] = s
    BY PlaceLength
  <2>5. CASE Has(NextTag(in), s)
    <3>1. PICK b : b = <<After(NextTag(in), s), ~in>>
      OBVIOUS
    <3>2. b \in Places /\ Scan[at] =
             [Scan[b] EXCEPT !.out = Emitted(in, Before(NextTag(in), s)) \o @]
      BY <2>4, <2>5, <3>1, ScanTaggedBy
    <3>3. b[1] = After(NextTag(in), s)
      BY <3>1
    <3>4. /\ Before(NextTag(in), s) \in Text
          /\ Len(After(NextTag(in), s)) \in Nat /\ Len(After(NextTag(in), s)) < Len(s)
      BY <2>5, NextIsTag, TagSplits
    <3>5. Len(b[1]) \in Nat /\ Len(b[1]) < m
      BY <2>3, <2>4, <3>3, <3>4
    <3>6. m \in Nat /\ ~(m <= Len(b[1]))
      BY <3>5
    <3>7. Len(b[1]) \notin Fails
      BY <2>2, <3>6
    <3>8. Scan[b] \in Scanned
      BY <3>2, <3>5, <3>7
    <3>9. PICK e \in Text : e = Emitted(in, Before(NextTag(in), s))
      BY <3>4, EmittedText
    <3>10. e \o Scan[b].out \in Text
      <4>1. Scan[b].out \in Text
        BY <3>8 DEF Scanned
      <4> QED
        BY <4>1, ConcatText
    <3>11. [Scan[b] EXCEPT !.out = e \o @] \in Scanned
      BY <3>8, <3>10 DEF Scanned
    <3> QED
      BY <2>3, <3>2, <3>9, <3>11
  <2>6. CASE ~Has(NextTag(in), s)
    <3>1. PICK n : Holds(s, n)
      BY SomethingHeld
    <3> QED
      BY <2>3, <2>4, <2>6, <3>1, ScanUntagged
  <2> QED
    BY <2>5, <2>6
<1> SUFFICES ASSUME NEW at \in Places, Scan[at] \notin Scanned PROVE FALSE
  OBVIOUS
<1>2. Len(at[1]) \in Nat
  BY PlaceLength
<1> QED
  BY <1>1, <1>2

LEMMA ScanTagged ==
    ASSUME NEW s \in Text, NEW in \in BOOLEAN, Has(NextTag(in), s)
    PROVE  Follows(Scan[<<s, in>>], Emitted(in, Before(NextTag(in), s)),
                   Scan[<<After(NextTag(in), s), ~in>>])
<1>1. PICK b : b = <<After(NextTag(in), s), ~in>>
  OBVIOUS
<1>2. b \in Places /\ Scan[<<s, in>>] =
             [Scan[b] EXCEPT !.out = Emitted(in, Before(NextTag(in), s)) \o @]
  BY <1>1, ScanTaggedBy
<1>3. Scan[b] \in Scanned
  BY <1>2, ScanTyped
<1>4. DOMAIN Scan[b] = {"out", "rawBuf", "inside"}
  BY <1>3 DEF Scanned
<1> QED
  BY <1>1, <1>2, <1>4 DEF Follows
-----------------------------------------------------------------------------
(* Parts of two texts one behind the other.                                *)
LEMMA SameText ==
    ASSUME NEW s \in Text, NEW t \in Text, Len(s) = Len(t), \A k \in 1..Len(s) : s[k] = t[k]
    PROVE  s = t
BY SeqEqual DEF Text

LEMMA ConcatAtoms ==
    ASSUME NEW a \in Text, NEW b \in Text, NEW i \in 1..(Len(a) + Len(b))
    PROVE  (a \o b)[i] = IF i <= Len(a) THEN a[i] ELSE b[i - Len(a)]
BY ConcatProperties DEF Text

(* A part of the first, ...                                                *)
LEMMA FrontPart ==
    ASSUME NEW a \in Text, NEW b \in Text, NEW n \in 0..Len(a)
    PROVE  SubSeq(a \o b, 1, n) = SubSeq(a, 1, n)
<1>1. /\ a \o b \in Text /\ Len(a \o b) = Len(a) + Len(b) /\ Len(a) \in Nat /\ Len(b) \in Nat
      /\ \A k \in 1..Len(a) : (a \o b)[k] = a[k]
  BY ConcatText
<1>2. n \in Nat /\ 1 \in Nat /\ 1 <= 1 /\ 1 <= n + 1 /\ n <= Len(a) /\ n <= Len(a \o b)
      /\ n - 1 + 1 = n /\ \A k \in 1..n : 1 + k - 1 = k /\ k \in 1..Len(a)
  BY <1>1
<1>3. /\ SubSeq(a, 1, n) \in Text /\ Len(SubSeq(a, 1, n)) = n - 1 + 1
      /\ \A k \in 1..(n - 1 + 1) : SubSeq(a, 1, n)[k] = a[1 + k - 1]
  BY <1>2, PartOfText
<1>4. /\ SubSeq(a \o b, 1, n) \in Text /\ Len(SubSeq(a \o b, 1, n)) = n - 1 + 1
      /\ \A k \in 1..(n - 1 + 1) : SubSeq(a \o b, 1, n)[k] = (a \o b)[1 + k - 1]
  BY <1>1, <1>2, PartOfText, ZenonT(40)
<1>5. \A k \in 1..n : SubSeq(a \o b, 1, n)[k] = SubSeq(a, 1, n)[k]
  BY <1>1, <1>2, <1>3, <1>4
<1> QED
  BY <1>2, <1>3, <1>4, <1>5, SameText

(* ... the end of the first with the second, ...                           *)
LEMMA BackPart ==
    ASSUME NEW a \in Text, NEW b \in Text, NEW m \in 1..(Len(a) + 1)
    PROVE  SubSeq(a \o b, m, Len(a \o b)) = SubSeq(a, m, Len(a)) \o b
<1> DEFINE ab == a \o b
           n == Len(a)
           x == SubSeq(ab, m, Len(ab))
           y == SubSeq(a, m, n)
<1>1. /\ ab \in Text /\ Len(ab) = n + Len(b) /\ n \in Nat /\ Len(b) \in Nat
      /\ \A k \in 1..n : ab[k] = a[k]
      /\ \A k \in 1..Len(b) : ab[n + k] = b[k]
  BY ConcatText
<1>2. m \in Nat /\ 1 <= m /\ m <= n + 1 /\ n <= n /\ m <= Len(ab) + 1 /\ Len(ab) <= Len(ab)
      /\ n \in Nat /\ Len(ab) \in Nat
  BY <1>1
<1>3. /\ x \in Text /\ Len(x) = Len(ab) - m + 1
      /\ \A k \in 1..(Len(ab) - m + 1) : x[k] = ab[m + k - 1]
  BY <1>1, <1>2, PartOfText
<1>4. /\ y \in Text /\ Len(y) = n - m + 1
      /\ \A k \in 1..(n - m + 1) : y[k] = a[m + k - 1]
  BY <1>1, <1>2, PartOfText
<1> HIDE DEF ab, x, y, n
<1>5. /\ y \o b \in Text /\ Len(y \o b) = Len(y) + Len(b)
      /\ \A k \in 1..Len(y) : (y \o b)[k] = y[k]
      /\ \A k \in 1..Len(b) : (y \o b)[Len(y) + k] = b[k]
  BY <1>4, ConcatText
<1>6. Len(x) = Len(y \o b)
  BY <1>1, <1>2, <1>3, <1>4, <1>5
<1>7. ASSUME NEW k \in 1..Len(x) PROVE x[k] = (y \o b)[k]
  <2>1. x[k] = ab[m + k - 1] /\ k \in Nat /\ k >= 1 /\ k <= n + Len(b) - m + 1
    BY <1>1, <1>2, <1>3
  <2>2. CASE k <= n - m + 1
    <3>1. k \in 1..(n - m + 1) /\ k \in 1..Len(y) /\ m + k - 1 \in 1..n
      BY <1>2, <1>4, <2>1, <2>2
    <3> QED
      BY <1>1, <1>4, <1>5, <2>1, <3>1
  <2>3. CASE ~(k <= n - m + 1)
    <3>1. PICK j : j = k - (n - m + 1)
      OBVIOUS
    <3>2. j \in 1..Len(b) /\ n + j = m + k - 1 /\ Len(y) + j = k
      BY <1>1, <1>2, <1>4, <2>1, <2>3, <3>1
    <3>3. ab[n + j] = b[j] /\ (y \o b)[Len(y) + j] = b[j]
      BY <1>1, <1>5, <3>2
    <3> QED
      BY <2>1, <3>2, <3>3
  <2> QED
    BY <2>2, <2>3
<1>8. x = y \o b
  BY <1>3, <1>5, <1>6, <1>7, SameText
<1> QED
  BY <1>8 DEF ab, x, y, n

(* ... the first with a part of the second, and a part of the second.      *)
LEMMA OverPart ==
    ASSUME NEW a \in Text, NEW b \in Text, NEW n \in 0..Len(b)
    PROVE  SubSeq(a \o b, 1, Len(a) + n) = a \o SubSeq(b, 1, n)
<1> DEFINE ab == a \o b
           l == Len(a)
           x == SubSeq(ab, 1, l + n)
           y == SubSeq(b, 1, n)
<1>1. /\ ab \in Text /\ Len(ab) = l + Len(b) /\ l \in Nat /\ Len(b) \in Nat
      /\ \A k \in 1..l : ab[k] = a[k]
      /\ \A k \in 1..Len(b) : ab[l + k] = b[k]
  BY ConcatText
<1>2. 1 \in Nat /\ 1 <= 1 /\ n \in Nat /\ l + n \in Nat /\ 1 <= n + 1 /\ 1 <= (l + n) + 1
      /\ n <= Len(b) /\ l + n <= Len(ab) /\ n - 1 + 1 = n /\ (l + n) - 1 + 1 = l + n
      /\ \A k \in 1..(l + n) : 1 + k - 1 = k
  BY <1>1
<1>3. /\ x \in Text /\ Len(x) = (l + n) - 1 + 1
      /\ \A k \in 1..((l + n) - 1 + 1) : x[k] = ab[1 + k - 1]
  BY <1>1, <1>2, PartOfText
<1>4. /\ y \in Text /\ Len(y) = n - 1 + 1
      /\ \A k \in 1..(n - 1 + 1) : y[k] = b[1 + k - 1]
  BY <1>1, <1>2, PartOfText
<1> HIDE DEF ab, x, y, l
<1>5. Len(x) = l + n /\ \A k \in 1..(l + n) : x[k] = ab[k]
  BY <1>2, <1>3
<1>6. Len(y) = n /\ \A k \in 1..n : y[k] = b[k]
  <2>1. \A k \in 1..n : 1 + k - 1 = k
    BY <1>2
  <2> QED
    BY <1>2, <1>4, <2>1
<1>7. /\ a \o y \in Text /\ Len(a \o y) = l + n
      /\ \A k \in 1..l : (a \o y)[k] = a[k]
      /\ \A k \in 1..n : (a \o y)[l + k] = y[k]
  BY <1>4, <1>6, ConcatText DEF l
<1>8. ASSUME NEW k \in 1..Len(x) PROVE x[k] = (a \o y)[k]
  <2>1. k \in 1..(l + n) /\ x[k] = ab[k]
    BY <1>5
  <2>2. CASE k <= l
    <3>1. k \in 1..l
      BY <1>1, <2>1, <2>2
    <3> QED
      BY <1>1, <1>7, <2>1, <3>1
  <2>3. CASE ~(k <= l)
    <3>1. PICK j : j = k - l
      OBVIOUS
    <3>2. j \in 1..n /\ j \in 1..Len(b) /\ k = l + j
      BY <1>1, <1>2, <2>1, <2>3, <3>1
    <3> QED
      BY <1>1, <1>6, <1>7, <2>1, <3>2
  <2> QED
    BY <2>2, <2>3
<1>9. x = a \o y
  BY <1>3, <1>5, <1>7, <1>8, SameText
<1> QED
  BY <1>9 DEF ab, x, y, l

LEMMA SecondPart ==
    ASSUME NEW a \in Text, NEW b \in Text, NEW m \in 1..(Len(b) + 1)
    PROVE  SubSeq(a \o b, Len(a) + m, Len(a \o b)) = SubSeq(b, m, Len(b))
<1> DEFINE ab == a \o b
           l == Len(a)
           x == SubSeq(ab, l + m, Len(ab))
           y == SubSeq(b, m, Len(b))
<1>1. /\ ab \in Text /\ Len(ab) = l + Len(b) /\ l \in Nat /\ Len(b) \in Nat
      /\ \A k \in 1..Len(b) : ab[l + k] = b[k]
  BY ConcatText
<1>2. /\ m \in Nat /\ 1 <= m /\ m <= Len(b) + 1 /\ Len(b) <= Len(b)
      /\ l + m \in Nat /\ 1 <= l + m /\ l + m <= Len(ab) + 1 /\ Len(ab) <= Len(ab)
      /\ Len(ab) \in Nat /\ Len(ab) - (l + m) + 1 = Len(b) - m + 1
      /\ \A k \in 1..(Len(b) - m + 1) : /\ (l + m) + k - 1 = l + (m + k - 1)
                                        /\ m + k - 1 \in 1..Len(b)
  BY <1>1
<1>3. /\ x \in Text /\ Len(x) = Len(ab) - (l + m) + 1
      /\ \A k \in 1..(Len(ab) - (l + m) + 1) : x[k] = ab[(l + m) + k - 1]
  BY <1>1, <1>2, PartOfText
<1>4. /\ y \in Text /\ Len(y) = Len(b) - m + 1
      /\ \A k \in 1..(Len(b) - m + 1) : y[k] = b[m + k - 1]
  BY <1>1, <1>2, PartOfText
<1> HIDE DEF ab, x, y, l
<1>5. Len(x) = Len(y)
  BY <1>2, <1>3, <1>4
<1>6. ASSUME NEW k \in 1..Len(x) PROVE x[k] = y[k]
  <2>1. k \in 1..(Len(b) - m + 1)
    BY <1>4, <1>5
  <2> QED
    BY <1>1, <1>2, <1>3, <1>4, <2>1
<1>7. x = y
  BY <1>3, <1>4, <1>5, <1>6, SameText
<1> QED
  BY <1>7 DEF ab, x, y, l
-----------------------------------------------------------------------------
(* Where the tags of a text are that was cut in two.                       *)
LEMMA TagAt ==
    ASSUME NEW s \in Text, NEW t \in Tags, NEW i
    PROVE  i \in Occurrences(t, s) <=> i \in 1..(Len(s) - Len(t) + 1) /\ IsAt(t, s, i)
<1>1. t \in Text /\ Len(t) >= 1
  BY TagShape
<1> QED
  BY <1>1, OccurrenceIs

(* A tag in the first part is a tag of the whole, and conversely.          *)
LEMMA TagInFront ==
    ASSUME NEW a \in Text, NEW b \in Text, NEW t \in Tags, NEW i \in Nat,
           i + Len(t) - 1 <= Len(a)
    PROVE  i \in Occurrences(t, a) <=> i \in Occurrences(t, a \o b)
<1>1. /\ a \o b \in Text /\ Len(a \o b) = Len(a) + Len(b) /\ Len(a) \in Nat /\ Len(b) \in Nat
      /\ \A k \in 1..Len(a) : (a \o b)[k] = a[k]
  BY ConcatText
<1>2. Len(t) \in Nat /\ Len(t) >= 1
  BY TagShape DEF Text
<1>3. i \in 1..(Len(a) - Len(t) + 1) <=> i >= 1
  BY <1>1, <1>2
<1>4. i \in 1..(Len(a \o b) - Len(t) + 1) <=> i >= 1
  BY <1>1, <1>2
<1>5. i >= 1 => (IsAt(t, a, i) <=> IsAt(t, a \o b, i))
  <2>1. i >= 1 => \A k \in 1..Len(t) : i + k - 1 \in 1..Len(a)
    BY <1>1, <1>2
  <2>2. i >= 1 => \A k \in 1..Len(t) : (a \o b)[i + k - 1] = a[i + k - 1]
    BY <1>1, <2>1
  <2> QED
    BY <2>2 DEF IsAt
<1> QED
  BY <1>1, <1>3, <1>4, <1>5, TagAt

(* A tag in the second part is a tag of the whole, and conversely.         *)
LEMMA TagBehind ==
    ASSUME NEW a \in Text, NEW b \in Text, NEW t \in Tags, NEW i \in Nat, i >= 1
    PROVE  i \in Occurrences(t, b) <=> Len(a) + i \in Occurrences(t, a \o b)
<1>1. /\ a \o b \in Text /\ Len(a \o b) = Len(a) + Len(b) /\ Len(a) \in Nat /\ Len(b) \in Nat
      /\ \A k \in 1..Len(b) : (a \o b)[Len(a) + k] = b[k]
  BY ConcatText
<1>2. Len(t) \in Nat /\ Len(t) >= 1
  BY TagShape DEF Text
<1>3. i \in 1..(Len(b) - Len(t) + 1) <=> Len(a) + i \in 1..(Len(a \o b) - Len(t) + 1)
  BY <1>1, <1>2
<1>4. i \in 1..(Len(b) - Len(t) + 1) => (IsAt(t, b, i) <=> IsAt(t, a \o b, Len(a) + i))
  <2>1. ASSUME i \in 1..(Len(b) - Len(t) + 1)
        PROVE  \A k \in 1..Len(t) : /\ i + k - 1 \in 1..Len(b)
                                    /\ Len(a) + (i + k - 1) = (Len(a) + i) + k - 1
    BY <1>1, <1>2, <2>1
  <2>2. ASSUME i \in 1..(Len(b) - Len(t) + 1)
        PROVE  \A k \in 1..Len(t) : (a \o b)[(Len(a) + i) + k - 1] = b[i + k - 1]
    BY <1>1, <2>1, <2>2
  <2> QED
    BY <2>2 DEF IsAt
<1>5. i \in Occurrences(t, b) <=> i \in 1..(Len(b) - Len(t) + 1) /\ IsAt(t, b, i)
  BY TagAt
<1>6. Len(a) + i \in Occurrences(t, a \o b)
        <=> Len(a) + i \in 1..(Len(a \o b) - Len(t) + 1) /\ IsAt(t, a \o b, Len(a) + i)
  BY <1>1, TagAt
<1> QED
  BY <1>3, <1>4, <1>5, <1>6

(* The first tag stays the first when text is added behind it.             *)
LEMMA FirstTagStays ==
    ASSUME NEW a \in Text, NEW b \in Text, NEW t \in Tags, Has(t, a)
    PROVE  /\ Has(t, a \o b) /\ Before(t, a \o b) = Before(t, a)
           /\ After(t, a \o b) = After(t, a) \o b
<1>1. PICK p : p = Min(Occurrences(t, a))
  OBVIOUS
<1>2. /\ p \in Occurrences(t, a) /\ p \in 1..(Len(a) - Len(t) + 1)
      /\ \A i \in Occurrences(t, a) : i \in Nat /\ p <= i
      /\ Before(t, a) = SubSeq(a, 1, p - 1) /\ After(t, a) = SubSeq(a, p + Len(t), Len(a))
  BY <1>1, TagSplits
<1>3. a \o b \in Text /\ Len(a) \in Nat /\ Len(t) \in Nat /\ Len(t) >= 1
  BY ConcatText, TagShape DEF Text
<1>4. p \in Nat /\ p + Len(t) - 1 <= Len(a) /\ p - 1 \in 0..Len(a)
      /\ p + Len(t) \in 1..(Len(a) + 1)
  BY <1>2, <1>3
<1>5. p \in Occurrences(t, a \o b)
  BY <1>2, <1>4, TagInFront
<1>6. ASSUME NEW i \in Occurrences(t, a \o b) PROVE p <= i
  <2>1. i \in Nat
    BY <1>3 DEF Occurrences, Text
  <2> SUFFICES ASSUME i < p PROVE FALSE
    BY <2>1, <1>4
  <2>2. i + Len(t) - 1 <= Len(a)
    BY <2>1, <1>3, <1>4
  <2>3. i \in Occurrences(t, a)
    BY <2>1, <2>2, TagInFront
  <2> QED
    BY <1>2, <1>4, <2>1, <2>3
<1>7. Has(t, a \o b) /\ Min(Occurrences(t, a \o b)) = p
  BY <1>3, <1>5, <1>6, FirstPlaceIs
<1>8. Before(t, a \o b) = SubSeq(a \o b, 1, p - 1)
      /\ After(t, a \o b) = SubSeq(a \o b, p + Len(t), Len(a \o b))
  BY <1>7 DEF Before, After
<1>9. SubSeq(a \o b, 1, p - 1) = SubSeq(a, 1, p - 1)
  BY <1>4, FrontPart
<1>10. SubSeq(a \o b, p + Len(t), Len(a \o b)) = SubSeq(a, p + Len(t), Len(a)) \o b
  BY <1>4, BackPart
<1> QED
  BY <1>2, <1>7, <1>8, <1>9, <1>10

(* Text without a tag, also across its end, only moves the first tag.      *)
LEMMA FirstTagMoves ==
    ASSUME NEW f \in Text, NEW c \in Text, NEW t \in Tags,
           \A i \in Occurrences(t, f \o c) : Len(f) < i
    PROVE  /\ Has(t, f \o c) <=> Has(t, c)
           /\ Has(t, c) => /\ Before(t, f \o c) = f \o Before(t, c)
                           /\ After(t, f \o c) = After(t, c)
<1>1. /\ f \o c \in Text /\ Len(f) \in Nat /\ Len(c) \in Nat /\ Len(t) \in Nat /\ Len(t) >= 1
      /\ Len(f \o c) = Len(f) + Len(c)
  BY ConcatText, TagShape DEF Text
<1>2. ASSUME NEW i \in Occurrences(t, f \o c)
      PROVE  i - Len(f) \in Nat /\ i - Len(f) >= 1 /\ i - Len(f) \in Occurrences(t, c)
  <2>1. i \in Nat /\ Len(f) < i
    <3>1. i \in Nat
      BY <1>1 DEF Occurrences
    <3> QED
      BY <3>1
  <2>2. PICK j : j = i - Len(f)
    OBVIOUS
  <2>3. j \in Nat /\ j >= 1 /\ Len(f) + j = i
    BY <2>1, <2>2, <1>1
  <2>4. j \in Occurrences(t, c)
    BY <2>3, TagBehind
  <2> QED
    BY <2>2, <2>3, <2>4
<1>3. ASSUME NEW j \in Occurrences(t, c)
      PROVE  j \in Nat /\ j >= 1 /\ Len(f) + j \in Occurrences(t, f \o c)
  <2>1. j \in Nat /\ j >= 1
    BY DEF Occurrences
  <2> QED
    BY <2>1, TagBehind
<1>4. Has(t, f \o c) <=> Has(t, c)
  BY <1>2, <1>3 DEF Has
<1>5. ASSUME Has(t, c)
      PROVE  /\ Before(t, f \o c) = f \o Before(t, c)
             /\ After(t, f \o c) = After(t, c)
  <2>1. PICK p : p = Min(Occurrences(t, c))
    OBVIOUS
  <2>2. /\ p \in Occurrences(t, c) /\ p \in 1..(Len(c) - Len(t) + 1)
        /\ \A i \in Occurrences(t, c) : i \in Nat /\ p <= i
        /\ Before(t, c) = SubSeq(c, 1, p - 1) /\ After(t, c) = SubSeq(c, p + Len(t), Len(c))
    BY <1>5, <2>1, TagSplits
  <2>3. p \in Nat /\ p >= 1 /\ p - 1 \in 0..Len(c) /\ p + Len(t) \in 1..(Len(c) + 1)
    BY <1>1, <2>2
  <2>4. PICK q : q = Len(f) + p
    OBVIOUS
  <2>5. q \in Nat /\ q \in Occurrences(t, f \o c)
    BY <1>1, <1>3, <2>2, <2>3, <2>4
  <2>6. ASSUME NEW i \in Occurrences(t, f \o c) PROVE q <= i
    <3>1. i \in Nat
      BY <1>1 DEF Occurrences, Text
    <3>2. p <= i - Len(f)
      BY <1>2, <2>2
    <3> QED
      BY <1>1, <2>3, <2>4, <3>1, <3>2
  <2>7. Min(Occurrences(t, f \o c)) = q
    BY <1>1, <2>5, <2>6, FirstPlaceIs
  <2>8. Before(t, f \o c) = SubSeq(f \o c, 1, Len(f) + (p - 1))
        /\ After(t, f \o c) = SubSeq(f \o c, Len(f) + (p + Len(t)), Len(f \o c))
    <3>1. q - 1 = Len(f) + (p - 1) /\ q + Len(t) = Len(f) + (p + Len(t))
      BY <1>1, <2>3, <2>4
    <3> QED
      BY <2>7, <3>1 DEF Before, After
  <2>9. SubSeq(f \o c, 1, Len(f) + (p - 1)) = f \o SubSeq(c, 1, p - 1)
    BY <2>3, OverPart
  <2>10. SubSeq(f \o c, Len(f) + (p + Len(t)), Len(f \o c)) = SubSeq(c, p + Len(t), Len(c))
    BY <2>3, SecondPart
  <2> QED
    BY <2>2, <2>8, <2>9, <2>10
<1> QED
  BY <1>4, <1>5

(* What begins a tag at the end of the whole ...                           *)
LEMMA BeginsBehind ==
    ASSUME NEW f \in Text, NEW c \in Text, NEW m \in 0..Len(c)
    PROVE  BeginsTag(f \o c, m) <=> BeginsTag(c, m)
<1>1. /\ Len(f \o c) = Len(f) + Len(c) /\ Len(f) \in Nat /\ Len(c) \in Nat
      /\ \A k \in 1..Len(c) : (f \o c)[Len(f) + k] = c[k]
  BY ConcatText
<1>2. ASSUME NEW k \in 1..m PROVE (f \o c)[Len(f \o c) - m + k] = c[Len(c) - m + k]
  <2>1. PICK j : j = Len(c) - m + k
    OBVIOUS
  <2>2. j \in 1..Len(c) /\ Len(f \o c) - m + k = Len(f) + j
    BY <1>1, <2>1
  <2> QED
    BY <1>1, <2>1, <2>2
<1> QED
  BY <1>2 DEF BeginsTag

(* ... and reaches into the first part began one there.                    *)
LEMMA BeginsBefore ==
    ASSUME NEW a \in Text, NEW b \in Text, NEW m \in Nat,
           Len(b) < m, m <= Len(a) + Len(b), BeginsTag(a \o b, m)
    PROVE  BeginsTag(a, m - Len(b))
<1>1. /\ Len(a \o b) = Len(a) + Len(b) /\ Len(a) \in Nat /\ Len(b) \in Nat
      /\ \A k \in 1..Len(a) : (a \o b)[k] = a[k]
  BY ConcatText
<1>2. PICK t \in Tags : m <= Len(t) /\ \A k \in 1..m : (a \o b)[Len(a \o b) - m + k] = t[k]
  BY DEF BeginsTag
<1>3. Len(t) \in Nat
  BY TagShape DEF Text
<1>4. PICK n : n = m - Len(b)
  OBVIOUS
<1>5. n \in Nat /\ n <= Len(t) /\ n <= Len(a)
  BY <1>1, <1>2, <1>3, <1>4
<1>6. ASSUME NEW k \in 1..n PROVE a[Len(a) - n + k] = t[k]
  <2>1. k \in 1..m /\ Len(a \o b) - m + k = Len(a) - n + k /\ Len(a) - n + k \in 1..Len(a)
    BY <1>1, <1>4, <1>5
  <2> QED
    BY <1>1, <1>2, <2>1
<1>7. BeginsTag(a, n)
  BY <1>5, <1>6 DEF BeginsTag
<1> QED
  BY <1>4, <1>7
-----------------------------------------------------------------------------
(* Where the filter stops: what it held back of the first part is all that *)
(* the second needs.                                                       *)
FrontOf(s, n) == SubSeq(s, 1, Len(s) - n)
Carried(s, n, b) == EndOf(s, n) \o b
Joined(a, b, f, c) == a \o b = f \o c
Passed(f, c, t) ==
    /\ \A i \in Occurrences(t, f \o c) : Len(f) < i
    /\ \A m \in (Len(c) + 1)..(Len(f) + Len(c)) : ~BeginsTag(f \o c, m)

LEMMA FrontAndEnd ==
    ASSUME NEW s \in Text, NEW n \in 0..Len(s)
    PROVE  s = FrontOf(s, n) \o EndOf(s, n)
<1>1. Len(s) \in Nat
  BY DEF Text
<1>2. PICK m : m = Len(s) - n
  OBVIOUS
<1>3. 1 \in 1..(Len(s) + 1) /\ m \in 0..Len(s) /\ m \in (1 - 1)..Len(s) /\ Len(s) \in m..Len(s)
  BY <1>1, <1>2
<1>4. SubSeq(s, 1, m) \o SubSeq(s, m + 1, Len(s)) = SubSeq(s, 1, Len(s))
  BY <1>3, ConcatAdjacentSubSeq DEF Text
<1>5. SubSeq(s, 1, Len(s)) = s
  BY SubSeqFull DEF Text
<1> QED
  BY <1>2, <1>4, <1>5 DEF EndOf, FrontOf

LEMMA StopsThere ==
    ASSUME NEW a \in Text, NEW b \in Text, NEW n, Holds(a, n), NEW t \in Tags, ~Has(t, a)
    PROVE  \E f, c \in Text :
             /\ f = FrontOf(a, n) /\ c = Carried(a, n, b)
             /\ Joined(a, b, f, c) /\ Passed(f, c, t)
<1>9. PICK f : f = FrontOf(a, n)
  OBVIOUS
<1>10. PICK c : c = Carried(a, n, b)
  OBVIOUS
<1>1. Len(a) \in Nat /\ Len(b) \in Nat /\ n \in Nat /\ n <= Len(a) /\ n \in 0..Len(a)
  BY DEF Text, Holds
<1>2. EndOf(a, n) \in Text /\ Len(EndOf(a, n)) = n
  BY <1>1, EndOfText
<1>3. f \in Text /\ Len(f) = Len(a) - n
  <2>1. PICK m : m = Len(a) - n
    OBVIOUS
  <2>2. m \in Nat /\ 1 \in Nat /\ 1 <= 1 /\ 1 <= m + 1 /\ m <= Len(a) /\ m - 1 + 1 = m
    BY <1>1, <2>1
  <2>3. SubSeq(a, 1, m) \in Text /\ Len(SubSeq(a, 1, m)) = m - 1 + 1
    BY <2>2, PartOfText
  <2> QED
    BY <1>9, <2>1, <2>2, <2>3 DEF FrontOf
<1>4. c \in Text /\ Len(c) = n + Len(b)
  BY <1>2, <1>10, ConcatText DEF Carried
<1>5. a = f \o EndOf(a, n)
  BY <1>1, <1>9, FrontAndEnd
<1>6. a \o b = f \o c
  <2>1. PICK e : e = EndOf(a, n)
    OBVIOUS
  <2>2. (f \o e) \o b = f \o (e \o b)
    BY <1>2, <1>3, <2>1, ThreeTexts
  <2> QED
    BY <1>5, <1>10, <2>1, <2>2 DEF Carried
<1>7. ASSUME NEW m \in (Len(c) + 1)..(Len(f) + Len(c)) PROVE ~BeginsTag(f \o c, m)
  <2> SUFFICES ASSUME BeginsTag(a \o b, m) PROVE FALSE
    BY <1>6
  <2>1. m \in (n + Len(b) + 1)..(Len(a) - n + (n + Len(b)))
    BY <1>3, <1>4
  <2>2. m \in Nat /\ Len(b) < m /\ m <= Len(a) + Len(b) /\ m - Len(b) \in (n + 1)..Len(a)
    BY <1>1, <2>1
  <2>3. BeginsTag(a, m - Len(b))
    BY <2>2, BeginsBefore
  <2> QED
    BY <2>2, <2>3 DEF Holds
<1>8. ASSUME NEW i \in Occurrences(t, f \o c) PROVE Len(f) < i
  <2>1. Len(t) \in Nat /\ Len(t) >= 1 /\ a \o b \in Text /\ Len(a \o b) = Len(a) + Len(b)
    BY ConcatText, TagShape DEF Text
  <2>2. i \in 1..(Len(a \o b) - Len(t) + 1) /\ IsAt(t, a \o b, i)
    BY <1>6, <2>1, TagAt
  <2> SUFFICES ASSUME i <= Len(f) PROVE FALSE
    BY <1>1, <1>3, <2>1, <2>2
  <2>3. i \in Nat /\ i >= 1 /\ i + Len(t) - 1 <= Len(a) + Len(b)
    BY <1>1, <2>1, <2>2
  <2>4. CASE i + Len(t) - 1 <= Len(a)
    <3>1. i \in Occurrences(t, a)
      BY <1>6, <2>3, <2>4, TagInFront
    <3> QED
      BY <3>1 DEF Has
  <2>5. CASE ~(i + Len(t) - 1 <= Len(a))
    <3>1. PICK m : m = Len(a) - i + 1
      OBVIOUS
    <3>2. /\ m \in (n + 1)..Len(a) /\ m <= Len(t) /\ m \in Nat
          /\ \A k \in 1..m : /\ Len(a) - m + k = i + k - 1 /\ i + k - 1 \in 1..Len(a)
                            /\ k \in 1..Len(t)
      BY <1>1, <1>3, <2>1, <2>3, <2>5, <3>1
    <3>3. \A k \in 1..m : a[Len(a) - m + k] = t[k]
      <4>1. \A k \in 1..Len(a) : (a \o b)[k] = a[k]
        BY ConcatText
      <4>2. \A k \in 1..Len(t) : (a \o b)[i + k - 1] = t[k]
        BY <2>2 DEF IsAt
      <4> QED
        BY <3>2, <4>1, <4>2
    <3>4. BeginsTag(a, m)
      BY <3>2, <3>3 DEF BeginsTag
    <3> QED
      BY <3>2, <3>4 DEF Holds
  <2> QED
    BY <2>4, <2>5
<1> QED
  BY <1>3, <1>4, <1>6, <1>7, <1>8, <1>9, <1>10 DEF Passed, Joined

(* The filter goes on behind text it has passed: same tags, same rest.     *)
LEMMA ScanBehind ==
    ASSUME NEW f \in Text, NEW c \in Text, NEW in \in BOOLEAN,
           Passed(f, c, NextTag(in))
    PROVE  Follows(Scan[<<f \o c, in>>], Emitted(in, f), Scan[<<c, in>>])
<1> DEFINE t == NextTag(in)
           s == f \o c
<1>1. t \in Tags /\ s \in Text /\ Len(s) = Len(f) + Len(c) /\ Len(f) \in Nat /\ Len(c) \in Nat
  BY NextIsTag, ConcatText
<1>3. /\ \A i \in Occurrences(t, s) : Len(f) < i
      /\ \A m \in (Len(c) + 1)..(Len(f) + Len(c)) : ~BeginsTag(s, m)
  BY DEF Passed
<1>2. /\ Has(t, s) <=> Has(t, c)
      /\ Has(t, c) => Before(t, s) = f \o Before(t, c) /\ After(t, s) = After(t, c)
  BY <1>1, <1>3, FirstTagMoves
<1>4. CASE Has(t, c)
  <2>1. Follows(Scan[<<s, in>>], Emitted(in, Before(t, s)), Scan[<<After(t, s), ~in>>])
    BY <1>1, <1>2, <1>4, ScanTagged
  <2>2. Follows(Scan[<<c, in>>], Emitted(in, Before(t, c)), Scan[<<After(t, c), ~in>>])
    BY <1>1, <1>4, ScanTagged
  <2>3. /\ Before(t, c) \in Text /\ Scan[<<After(t, c), ~in>>] \in Scanned
        /\ Before(t, s) = f \o Before(t, c) /\ After(t, s) = After(t, c)
    <3>1. Before(t, c) \in Text /\ After(t, c) \in Text
      BY <1>1, <1>4, TagSplits
    <3>2. <<After(t, c), ~in>> \in Places
      BY <3>1 DEF Places
    <3> QED
      BY <1>2, <1>4, <3>1, <3>2, ScanTyped
  <2> HIDE DEF t, s
  <2>4. PICK r \in Scanned : r = Scan[<<After(t, c), ~in>>]
    BY <2>3
  <2>5. r.out \in Text
    BY <2>4 DEF Scanned
  <2>6. (Emitted(in, f) \o Emitted(in, Before(t, c))) \o r.out
          = Emitted(in, f) \o (Emitted(in, Before(t, c)) \o r.out)
        /\ Emitted(in, Before(t, s)) = Emitted(in, f) \o Emitted(in, Before(t, c))
    <3>1. PICK x \in Text : x = Before(t, c)
      BY <2>3
    <3>2. Emitted(in, f) \in Text /\ Emitted(in, x) \in Text
      BY EmittedText
    <3>3. (Emitted(in, f) \o Emitted(in, x)) \o r.out = Emitted(in, f) \o (Emitted(in, x) \o r.out)
      <4>1. PICK e \in Text, g \in Text, o \in Text :
              e = Emitted(in, f) /\ g = Emitted(in, x) /\ o = r.out
        BY <2>5, <3>2
      <4>2. (e \o g) \o o = e \o (g \o o)
        BY ThreeTexts, ZenonT(60)
      <4> QED
        BY <4>1, <4>2
    <3>4. Emitted(in, f \o x) = Emitted(in, f) \o Emitted(in, x)
      BY EmittedParts
    <3> QED
      BY <2>3, <3>1, <3>3, <3>4
  <2>7. Follows(Scan[<<s, in>>], Emitted(in, f), Scan[<<c, in>>])
    BY <2>1, <2>2, <2>3, <2>4, <2>6 DEF Follows
  <2> QED
    BY <2>7 DEF s
<1>5. CASE ~Has(t, c)
  <2>1. PICK n : Holds(c, n)
    BY SomethingHeld
  <2>2. n \in Nat /\ n <= Len(c) /\ n \in 0..Len(c)
    BY <1>1, <2>1 DEF Holds
  <2>3. Holds(s, n)
    <3>1. BeginsTag(s, n)
      BY <2>1, <2>2, BeginsBehind DEF Holds
    <3>2. ASSUME NEW m \in (n + 1)..Len(s) PROVE ~BeginsTag(s, m)
      <4>1. CASE m <= Len(c)
        <5>1. m \in 0..Len(c) /\ m \in (n + 1)..Len(c)
          BY <1>1, <2>2, <4>1
        <5>2. ~BeginsTag(c, m)
          BY <2>1, <5>1 DEF Holds
        <5> QED
          BY <5>1, <5>2, BeginsBehind
      <4>2. CASE ~(m <= Len(c))
        <5>1. m \in (Len(c) + 1)..(Len(f) + Len(c))
          BY <1>1, <2>2, <4>2
        <5> QED
          BY <1>3, <5>1
      <4> QED
        BY <4>1, <4>2
    <3>3. n \in 0..Len(s)
      BY <1>1, <2>2
    <3> QED
      BY <3>1, <3>2, <3>3 DEF Holds
  <2>4. EndOf(s, n) = EndOf(c, n)
    <3>1. PICK m : m = Len(c) - n + 1
      OBVIOUS
    <3>2. m \in 1..(Len(c) + 1) /\ Len(s) - n + 1 = Len(f) + m
      BY <1>1, <2>2, <3>1
    <3>3. SubSeq(s, Len(f) + m, Len(s)) = SubSeq(c, m, Len(c))
      BY <3>2, SecondPart
    <3> QED
      BY <3>1, <3>2, <3>3 DEF EndOf
  <2>5. SubSeq(s, 1, Len(s) - n) = f \o SubSeq(c, 1, Len(c) - n)
    <3>1. PICK m : m = Len(c) - n
      OBVIOUS
    <3>2. m \in 0..Len(c) /\ Len(s) - n = Len(f) + m
      BY <1>1, <2>2, <3>1
    <3>3. SubSeq(s, 1, Len(f) + m) = f \o SubSeq(c, 1, m)
      BY <3>2, OverPart
    <3> QED
      BY <3>1, <3>2, <3>3
  <2>6. /\ Scan[<<s, in>>].out = Emitted(in, SubSeq(s, 1, Len(s) - n))
        /\ Scan[<<s, in>>].rawBuf = EndOf(s, n) /\ Scan[<<s, in>>].inside = in
    <3>1. ~Has(NextTag(in), s)
      BY <1>2, <1>5
    <3> HIDE DEF s
    <3> QED
      BY <1>1, <2>3, <3>1, ScanUntagged
  <2>7. /\ Scan[<<c, in>>].out = Emitted(in, SubSeq(c, 1, Len(c) - n))
        /\ Scan[<<c, in>>].rawBuf = EndOf(c, n) /\ Scan[<<c, in>>].inside = in
        /\ SubSeq(c, 1, Len(c) - n) \in Text
    BY <1>1, <1>5, <2>1, ScanUntagged
  <2> HIDE DEF t, s
  <2>8. Emitted(in, SubSeq(s, 1, Len(s) - n))
          = Emitted(in, f) \o Emitted(in, SubSeq(c, 1, Len(c) - n))
    BY <2>5, <2>7, EmittedParts, ZenonT(40)
  <2>9. Follows(Scan[<<s, in>>], Emitted(in, f), Scan[<<c, in>>])
    BY <2>4, <2>6, <2>7, <2>8 DEF Follows
  <2> QED
    BY <2>9 DEF s
<1> QED
  BY <1>4, <1>5

(* Text in two pieces: what is held back of the first, put in front of the *)
(* second, and the mode are all the filter needs to remember.              *)
Composes(a, b, in) ==
    Follows(Scan[<<a \o b, in>>], Scan[<<a, in>>].out,
            Scan[<<Scan[<<a, in>>].rawBuf \o b, Scan[<<a, in>>].inside>>])

LEMMA UntaggedComposes ==
    ASSUME NEW a \in Text, NEW b \in Text, NEW in \in BOOLEAN, ~Has(NextTag(in), a)
    PROVE  Composes(a, b, in)
<1>1. PICK n : Holds(a, n)
  BY SomethingHeld
<1>2. PICK r : r = Scan[<<a, in>>]
  OBVIOUS
<1>3. PICK t \in Tags : t = NextTag(in)
  BY NextIsTag
<1>4. ~Has(t, a)
  BY <1>3
<1>5. PICK f \in Text, c \in Text :
        /\ f = FrontOf(a, n) /\ c = Carried(a, n, b)
        /\ Joined(a, b, f, c) /\ Passed(f, c, t)
  BY <1>1, <1>4, StopsThere
<1>8. FrontOf(a, n) = SubSeq(a, 1, Len(a) - n)
  BY DEF FrontOf
<1>6. r.out = Emitted(in, f) /\ r.rawBuf = EndOf(a, n) /\ r.inside = in
  BY <1>1, <1>2, <1>5, <1>8, ScanUntagged
<1>7. Follows(Scan[<<f \o c, in>>], Emitted(in, f), Scan[<<c, in>>])
  BY <1>3, <1>5, ScanBehind
<1> QED
  BY <1>2, <1>5, <1>6, <1>7 DEF Composes, Carried, Joined

LEMMA TaggedComposes ==
    ASSUME NEW a \in Text, NEW b \in Text, NEW in \in BOOLEAN, Has(NextTag(in), a),
           Composes(After(NextTag(in), a), b, ~in)
    PROVE  Composes(a, b, in)
<1>1. PICK t \in Tags : t = NextTag(in)
  BY NextIsTag
<1>2. PICK x : x = After(t, a)
  OBVIOUS
<1>3. PICK e : e = Emitted(in, Before(t, a))
  OBVIOUS
<1>4. x \in Text /\ e \in Text
  BY <1>1, <1>2, <1>3, TagSplits, EmittedText
<1>5. PICK q : q = Scan[<<x, ~in>>]
  OBVIOUS
<1>6. <<x, ~in>> \in Places
  BY <1>4 DEF Places
<1>7. q \in Scanned
  BY <1>5, <1>6, ScanTyped
<1>8. Follows(Scan[<<a, in>>], e, q)
  BY <1>1, <1>2, <1>3, <1>5, ScanTagged
<1>9. Has(t, a \o b) /\ Before(t, a \o b) = Before(t, a) /\ After(t, a \o b) = x \o b
  BY <1>1, <1>2, FirstTagStays
<1>10. a \o b \in Text
  BY ConcatText
<1>11. Follows(Scan[<<a \o b, in>>], e, Scan[<<x \o b, ~in>>])
  BY <1>1, <1>3, <1>9, <1>10, ScanTagged
<1>12. PICK w : w = Scan[<<q.rawBuf \o b, q.inside>>]
  OBVIOUS
<1>13. w \in Scanned
  <2>1. q.rawBuf \in Text /\ q.inside \in BOOLEAN
    BY <1>7 DEF Scanned
  <2>2. q.rawBuf \o b \in Text
    BY <2>1, ConcatText
  <2>3. <<q.rawBuf \o b, q.inside>> \in Places
    BY <2>1, <2>2 DEF Places
  <2> QED
    BY <1>12, <2>3, ScanTyped
<1>14. Follows(Scan[<<x \o b, ~in>>], q.out, w)
  BY <1>1, <1>2, <1>5, <1>12 DEF Composes
<1>15. e \o (q.out \o w.out) = (e \o q.out) \o w.out
  <2>1. PICK y \in Text, z \in Text : y = q.out /\ z = w.out
    BY <1>7, <1>13 DEF Scanned
  <2>2. (e \o y) \o z = e \o (y \o z)
    <3>1. e \in Text
      BY <1>4
    <3> QED
      BY <3>1, ThreeTexts
  <2> QED
    BY <2>1, <2>2
<1>16. PICK r : r = Scan[<<a, in>>]
  OBVIOUS
<1>17. r.out = e \o q.out /\ r.rawBuf = q.rawBuf /\ r.inside = q.inside
  BY <1>8, <1>16 DEF Follows
<1>18. Follows(Scan[<<a \o b, in>>], r.out, w)
  BY <1>11, <1>14, <1>15, <1>17 DEF Follows
<1> QED
  BY <1>12, <1>16, <1>17, <1>18 DEF Composes

LEMMA ScanComposes == \A a, b \in Text : \A in \in BOOLEAN : Composes(a, b, in)
<1> SUFFICES ASSUME NEW b \in Text PROVE \A a \in Text : \A in \in BOOLEAN : Composes(a, b, in)
  OBVIOUS
<1> DEFINE Fails == {m \in Nat : \E a \in Text, in \in BOOLEAN : Len(a) = m /\ ~Composes(a, b, in)}
<1>1. Fails = {}
  <2> SUFFICES ASSUME Fails # {} PROVE FALSE
    OBVIOUS
  <2>1. Fails \in SUBSET Nat
    OBVIOUS
  <2>2. PICK m \in Fails : \A k \in Fails : m <= k
    BY <2>1, LeastPosition
  <2>3. PICK a \in Text, in \in BOOLEAN : Len(a) = m /\ ~Composes(a, b, in)
    OBVIOUS
  <2>4. Has(NextTag(in), a)
    BY <2>3, UntaggedComposes
  <2>5. PICK t \in Tags : t = NextTag(in)
    BY NextIsTag
  <2>10. PICK x : x = After(t, a)
    OBVIOUS
  <2>6. x \in Text /\ Len(x) \in Nat /\ Len(x) < m
    BY <2>3, <2>4, <2>5, <2>10, TagSplits
  <2>7. m \in Nat /\ ~(m <= Len(x))
    BY <2>6
  <2>8. Len(x) \notin Fails
    BY <2>2, <2>7
  <2>9. Composes(x, b, ~in)
    <3>1. \A d \in BOOLEAN : Composes(x, b, d)
      BY <2>6, <2>8
    <3> QED
      BY <3>1
  <2> QED
    BY <2>3, <2>4, <2>5, <2>10, <2>9, TaggedComposes
<1> SUFFICES ASSUME NEW a \in Text, NEW in \in BOOLEAN, ~Composes(a, b, in) PROVE FALSE
  OBVIOUS
<1>2. Len(a) \in Nat
  BY DEF Text
<1> QED
  BY <1>1, <1>2

(* What the filter keeps of an empty start, and what it makes of a whole.  *)
LEMMA NothingFiltered ==
    Whole(<<>>) = [out |-> <<>>, rawBuf |-> <<>>, inside |-> FALSE]
BY DEF Whole, Filter

LEMMA WholeTyped == \A said \in Text : Whole(said) \in Scanned
<1> SUFFICES ASSUME NEW said \in Text PROVE Whole(said) \in Scanned
  OBVIOUS
<1>1. <<>> \in Text /\ <<>> \o said = said
  BY NothingAdded, EmptySeq DEF Text
<1>2. <<said, FALSE>> \in Places
  BY DEF Places
<1>3. Scan[<<said, FALSE>>] \in Scanned
  BY <1>2, ScanTyped
<1> QED
  BY <1>1, <1>3 DEF Whole, Filter, Scanned

LEMMA WholeOfParsed ==
    \A said \in Text : ParseThinkFromContent /\ said # <<>> => Whole(said) = Scan[<<said, FALSE>>]
BY NothingAdded DEF Whole, Filter

(* Content in two pieces through the filter of a stream, for both settings *)
(* of the option.                                                          *)
LEMMA FilterComposes ==
    ASSUME NEW a \in Text, NEW b \in Text, NEW w, w = Whole(a)
    PROVE  Follows(Whole(a \o b), w.out, Filter(w.rawBuf, w.inside, b))
<1>1. w \in Scanned /\ w.out \in Text
  BY WholeTyped DEF Scanned
<1>2. <<>> \in Text /\ a \o b \in Text
  BY EmptySeq, ConcatText DEF Text
<1>3. CASE b = <<>>
  <2>1. a \o b = a /\ w.out \o <<>> = w.out
    BY <1>1, <1>3, NothingAdded
  <2> QED
    BY <1>3, <2>1 DEF Follows, Filter
<1>4. CASE ~ParseThinkFromContent
  <2>1. w = [out |-> a, rawBuf |-> <<>>, inside |-> FALSE]
    BY <1>4 DEF Whole, Filter
  <2>2. Whole(a \o b) = [out |-> a \o b, rawBuf |-> <<>>, inside |-> FALSE]
    BY <1>4 DEF Whole, Filter
  <2> QED
    BY <1>4, <2>1, <2>2 DEF Follows, Filter
<1>5. CASE a = <<>>
  <2>1. a \o b = b /\ w = [out |-> <<>>, rawBuf |-> <<>>, inside |-> FALSE]
    BY <1>5, NothingAdded, NothingFiltered
  <2>2. PICK q \in Scanned : q = Whole(b)
    BY WholeTyped
  <2>3. q.out = <<>> \o q.out
    BY NothingAdded DEF Scanned
  <2>4. Follows(q, <<>>, q)
    BY <2>3 DEF Follows
  <2>5. Filter(<<>>, FALSE, b) = q
    BY <2>2 DEF Whole
  <2>6. w.out = <<>> /\ w.rawBuf = <<>> /\ w.inside = FALSE
    BY <2>1
  <2>7. Whole(a \o b) = q
    BY <2>1, <2>2
  <2>8. Filter(w.rawBuf, w.inside, b) = q
    BY <2>5, <2>6
  <2>9. Follows(q, w.out, q)
    BY <2>4, <2>6
  <2> QED
    BY <2>7, <2>8, <2>9
<1>6. CASE ParseThinkFromContent /\ a # <<>> /\ b # <<>>
  <2>1. a \o b # <<>>
    <3>1. Len(a) # 0 /\ Len(a) \in Nat /\ Len(b) \in Nat /\ Len(a \o b) = Len(a) + Len(b)
      BY <1>6, ConcatText, EmptySeq DEF Text
    <3>2. Len(a \o b) # 0
      BY <3>1
    <3> QED
      BY <3>2, EmptySeq
  <2>2. w = Scan[<<a, FALSE>>] /\ Whole(a \o b) = Scan[<<a \o b, FALSE>>]
    BY <1>2, <1>6, <2>1, WholeOfParsed
  <2>3. Composes(a, b, FALSE)
    BY ScanComposes
  <2> QED
    BY <1>6, <2>2, <2>3 DEF Composes, Filter
<1> QED
  BY <1>3, <1>4, <1>5, <1>6
-----------------------------------------------------------------------------
(* What is kept of the texts an answer is made of, white space aside.      *)
White == {" ", "\n"}

LEMMA BothKept ==
    ASSUME NEW S, NEW x \in Text, NEW y \in Text
    PROVE  /\ x \o y \in Text /\ Keep(x, S) \in Text
           /\ Keep(x \o y, S) = Keep(x, S) \o Keep(y, S)
<1>1. x \o y \in Text
  BY ConcatText
<1>2. Keep(x, S) \in Seq(S \cap Atoms)
  BY KeepTyped DEF Text
<1>3. Keep(x, S) \in Text
  BY <1>2 DEF Text
<1>4. Keep(x \o y, S) = Keep(x, S) \o Keep(y, S)
  BY KeepConcat DEF Text
<1> QED
  BY <1>1, <1>3, <1>4

LEMMA WhiteDropped ==
    ASSUME NEW S, S \cap White = {}
    PROVE  /\ Keep(<<"\n">>, S) = <<>> /\ Keep(<<"\n", "\n">>, S) = <<>>
           /\ \A s \in Text : TrimSpace(s) \in Text /\ Keep(TrimSpace(s), S) = Keep(s, S)
<1>1. \A x \in White : <<x>> \in Seq(White) /\ <<x, x>> \in Seq(White)
  OBVIOUS
<1>2. "\n" \in White
  BY DEF White
<1>3. Keep(<<"\n">>, S) = <<>> /\ Keep(<<"\n", "\n">>, S) = <<>>
  BY <1>1, <1>2, KeepNone
<1>4. ASSUME NEW s \in Text PROVE TrimSpace(s) \in Text /\ Keep(TrimSpace(s), S) = Keep(s, S)
  <2>1. Keep(Trim(s, White), S) = Keep(s, S)
    BY KeepTrimmed
  <2> QED
    BY <2>1, TrimSpaceText DEF TrimSpace, White
<1> QED
  BY <1>3, <1>4

LEMMA ReasoningIsText ==
    ASSUME NEW m \in Message
    PROVE  ReasoningOf(m) \in Text
<1> DEFINE Plainly(v) == IF IsText(v) THEN v ELSE <<>>
           texts == [i \in DOMAIN ReasoningFields |-> Plainly(m[ReasoningFields[i]])]
<1>1. ASSUME NEW i \in DOMAIN ReasoningFields PROVE Plainly(m[ReasoningFields[i]]) \in Text
  <2>1. m[ReasoningFields[i]] \in Value
    BY FieldsApart DEF Message
  <2> QED
    BY <2>1, TextOrNot, EmptySeq DEF Text
<1>2. texts \in Seq(Text)
  BY <1>1, FieldsApart
<1>3. FlattenSeq(texts) \in Text
  BY <1>2, FlattenIsText
<1> QED
  BY <1>3 DEF ReasoningOf

(* Reasoning loses nothing but white space when it is collected.           *)
LEMMA CollectedKept ==
    ASSUME NEW S, S \cap White = {}, NEW m \in Message
    PROVE  Keep(Collected(m), S) = Keep(ReasoningOf(m), S)
<1> DEFINE Plainly(v) == IF IsText(v) THEN v ELSE <<>>
           parts == [i \in DOMAIN ReasoningFields |-> Part(m[ReasoningFields[i]])]
           texts == [i \in DOMAIN ReasoningFields |-> Plainly(m[ReasoningFields[i]])]
<1>1. ASSUME NEW v \in Value
      PROVE  /\ Part(v) \in Text /\ Plainly(v) \in Text
             /\ Keep(Part(v), S) = Keep(Plainly(v), S)
  <2>1. CASE ~IsText(v)
    <3>1. Part(v) = <<>> /\ Plainly(v) = <<>>
      BY <2>1 DEF Part
    <3> QED
      BY <3>1, EmptySeq DEF Text
  <2>2. CASE IsText(v) /\ TrimSpace(v) = <<>>
    <3>1. v \in Text /\ Part(v) = <<>> /\ Plainly(v) = v
      BY <2>2, TextOrNot DEF Part
    <3>2. Keep(v, S) = Keep(<<>>, S)
      BY <2>2, <3>1, WhiteDropped
    <3> QED
      BY <3>1, <3>2, EmptySeq DEF Text
  <2>3. CASE IsText(v) /\ TrimSpace(v) # <<>>
    <3>1. v \in Text /\ Part(v) = <<"\n">> \o v /\ Plainly(v) = v
      BY <2>3, TextOrNot DEF Part
    <3>2. <<"\n">> \in Text
      BY TagTexts
    <3>3. <<"\n">> \o v \in Text /\ Keep(<<"\n">> \o v, S) = Keep(<<"\n">>, S) \o Keep(v, S)
          /\ Keep(v, S) \in Text
      BY <3>1, <3>2, BothKept
    <3>4. <<>> \o Keep(v, S) = Keep(v, S)
      BY <3>3, NothingAdded
    <3> QED
      BY <3>1, <3>3, <3>4, WhiteDropped
  <2> HIDE DEF Plainly
  <2> QED
    BY <2>1, <2>2, <2>3
<1>2. ASSUME NEW i \in DOMAIN ReasoningFields PROVE m[ReasoningFields[i]] \in Value
  BY FieldsApart DEF Message
<1>3. PICK l \in Nat : l = Len(ReasoningFields) /\ DOMAIN ReasoningFields = 1..l
  BY FieldsApart
<1>4. /\ parts \in Seq(Text) /\ texts \in Seq(Text) /\ Len(parts) = l /\ Len(texts) = l
      /\ \A i \in 1..l : Keep(parts[i], S) = Keep(texts[i], S)
  <2>1. \A i \in 1..l : /\ parts[i] \in Text /\ texts[i] \in Text
                        /\ Keep(parts[i], S) = Keep(texts[i], S)
    BY <1>1, <1>2, <1>3
  <2>2. parts \in Seq(Text) /\ Len(parts) = l
    BY <1>1, <1>2, <1>3
  <2>3. texts \in Seq(Text) /\ Len(texts) = l
    BY <1>1, <1>2, <1>3
  <2> HIDE DEF parts, texts
  <2> QED
    BY <2>1, <2>2, <2>3
<1>5. Collected(m) = TrimSpace(FlattenSeq(parts)) /\ ReasoningOf(m) = FlattenSeq(texts)
  BY DEF Collected, ReasoningOf
<1> HIDE DEF parts, texts
<1>6. Keep(FlattenSeq(parts), S) = Keep(FlattenSeq(texts), S)
  BY <1>4, KeepFlattened DEF Text
<1>7. FlattenSeq(parts) \in Text
  BY <1>4, FlattenIsText
<1> QED
  BY <1>5, <1>6, <1>7, WhiteDropped

(* Nor when it is put in front of content.                                 *)
LEMMA JoinKept ==
    ASSUME NEW S, S \cap White = {}, NEW r \in Text, TrimSpace(r) = r, NEW c \in Text
    PROVE  Keep(JoinThinkAndContent(r, c), S)
             = Keep(ThinkOpen, S) \o Keep(r, S) \o Keep(ThinkClose, S) \o Keep(c, S)
<1>1. PICK rest : rest = Behind(c)
  OBVIOUS
<1>2. rest \in Text /\ Keep(rest, S) = Keep(c, S)
  <2>1. TrimSpace(c) \in Text /\ Keep(TrimSpace(c), S) = Keep(c, S)
    BY WhiteDropped
  <2>2. CASE TrimSpace(c) = <<>>
    BY <1>1, <2>1, <2>2, EmptySeq DEF Behind, Text
  <2>3. CASE TrimSpace(c) # <<>>
    <3>1. PICK t \in Text : t = TrimSpace(c)
      BY <2>1
    <3>2. rest = <<"\n", "\n">> \o t
      BY <1>1, <2>3, <3>1 DEF Behind
    <3>3. <<"\n", "\n">> \in Text
      BY TagTexts
    <3>4. <<"\n", "\n">> \o t \in Text /\ Keep(t, S) \in Text
          /\ Keep(<<"\n", "\n">> \o t, S) = Keep(<<"\n", "\n">>, S) \o Keep(t, S)
      BY <3>3, BothKept
    <3>5. <<>> \o Keep(t, S) = Keep(t, S)
      BY <3>4, NothingAdded
    <3>6. Keep(<<"\n", "\n">>, S) = <<>>
      BY WhiteDropped
    <3> QED
      BY <2>1, <3>1, <3>2, <3>4, <3>5, <3>6
  <2> QED
    BY <2>2, <2>3
<1>3. JoinThinkAndContent(r, c) = Block(r, rest)
  BY <1>1, JoinIsBlock
<1>4. PICK tagOpen \in Text, tagClose \in Text, nl \in Text :
        tagOpen = ThinkOpen /\ tagClose = ThinkClose /\ nl = <<"\n">>
  BY TagTexts
<1>5. Keep(nl, S) = <<>>
  BY <1>4, WhiteDropped
<1>6. PICK a \in Text : a = tagOpen \o nl /\ Keep(a, S) = Keep(tagOpen, S)
  <2>1. tagOpen \o nl \in Text /\ Keep(tagOpen, S) \in Text
        /\ Keep(tagOpen \o nl, S) = Keep(tagOpen, S) \o Keep(nl, S)
    BY BothKept
  <2> QED
    BY <1>5, <2>1, NothingAdded
<1>7. PICK b \in Text : b = a \o r /\ Keep(b, S) = Keep(tagOpen, S) \o Keep(r, S)
  <2>1. a \o r \in Text /\ Keep(a \o r, S) = Keep(a, S) \o Keep(r, S)
    BY BothKept
  <2> QED
    BY <1>6, <2>1
<1>8. PICK d \in Text : d = b \o nl /\ Keep(d, S) = Keep(b, S)
  <2>1. b \o nl \in Text /\ Keep(b, S) \in Text
        /\ Keep(b \o nl, S) = Keep(b, S) \o Keep(nl, S)
    BY BothKept
  <2> QED
    BY <1>5, <2>1, NothingAdded
<1>9. PICK e \in Text : e = d \o tagClose /\ Keep(e, S) = Keep(d, S) \o Keep(tagClose, S)
  BY BothKept
<1>10. Keep(e \o rest, S) = Keep(e, S) \o Keep(rest, S)
  BY <1>2, BothKept
<1>11. Block(r, rest) = e \o rest
  BY <1>4, <1>6, <1>7, <1>8, <1>9 DEF Block
<1> QED
  BY <1>2, <1>3, <1>4, <1>7, <1>8, <1>9, <1>10, <1>11
-----------------------------------------------------------------------------
(* What is shown of a choice: its reasoning in one block, then its content. *)
Opening(r) == IF r # <<>> /\ InjectThinkTag THEN ThinkOpen \o <<"\n">> ELSE <<>>
Closing(r, out) ==
    IF r # <<>> /\ InjectThinkTag /\ out # <<>>
    THEN <<"\n">> \o ThinkClose \o <<"\n">> ELSE <<>>
ShownOf(r, out) == Opening(r) \o r \o Closing(r, out) \o out

(* The inductive invariant of a choice with what was sent s, the state t   *)
(* of the tracker and the content c the client has: the reasoning was      *)
(* moved but for white space, the filter is where the whole said so far    *)
(* would leave it, and the two flags of the tag say what was sent, as long *)
(* as reasoning came first.                                                *)
ChoiceInv(s, t, c) ==
    /\ s.said \in Text /\ s.moved \in Text /\ s.late \in BOOLEAN /\ c \in Text
    /\ s.reasoned \in Text /\ Ink(s.moved) = Ink(s.reasoned)
    /\ t.started \in BOOLEAN /\ t.closed \in BOOLEAN
    /\ t.rawBuf = Whole(s.said).rawBuf /\ t.inside = Whole(s.said).inside
    /\ t.started <=> (s.moved # <<>> /\ InjectThinkTag)
    /\ s.late => s.moved # <<>>
    /\ ~s.late => /\ t.closed <=> (t.started /\ Whole(s.said).out # <<>>)
                  /\ c = ShownOf(s.moved, Whole(s.said).out)

LEMMA TagLines ==
    \A r, out : Opening(r) \in Text /\ Closing(r, out) \in Text
<1>1. ThinkOpen \o <<"\n">> \in Text
  BY TagTexts, ConcatText
<1>2. <<"\n">> \o ThinkClose \in Text
  BY TagTexts, ConcatText
<1>3. <<"\n">> \o ThinkClose \o <<"\n">> \in Text
  BY <1>2, TagTexts, ConcatText
<1>4. <<>> \in Text
  BY EmptySeq DEF Text
<1> QED
  BY <1>1, <1>3, <1>4 DEF Opening, Closing

LEMMA EmptyTogether ==
    ASSUME NEW x \in Text, NEW y \in Text
    PROVE  x \o y = <<>> <=> x = <<>> /\ y = <<>>
<1>1. Len(x) \in Nat /\ Len(y) \in Nat /\ Len(x \o y) = Len(x) + Len(y) /\ x \o y \in Text
  BY ConcatText
<1>2. \A z \in Text : z = <<>> <=> Len(z) = 0
  BY EmptySeq DEF Text
<1> QED
  BY <1>1, <1>2

LEMMA DeltaTexts ==
    ASSUME NEW d \in Deltas
    PROVE  d \in Message /\ ContentOf(d) \in Text /\ Collected(d) \in Text
<1>1. d \in Message
  BY DEF Deltas, Message, Fields, Value
<1>2. d["content"] \in Value
  BY <1>1 DEF Message
<1>3. ContentOf(d) \in Text
  BY <1>2, TextOrNot, EmptySeq DEF ContentOf, Text
<1> QED
  BY <1>1, <1>3, CollectedTrimmed

(* What a delta makes of the content: the text, or nothing to show.        *)
LEMMA DeltaShows ==
    ASSUME NEW d \in Deltas, NEW text \in Text, NEW kept, kept \in {Absent, Other, <<>>}
    PROVE  ContentOf(Stripped([d EXCEPT !["content"] = IF text = <<>> THEN kept ELSE text]))
             = text
<1>1. PICK x : x = IF text = <<>> THEN kept ELSE text
  OBVIOUS
<1>2. PICK e : e = [d EXCEPT !["content"] = x]
  OBVIOUS
<1>3. "content" \in DOMAIN d /\ "content" \notin Range(ReasoningFields)
  BY OptionsAssumption DEF Deltas
<1>4. e["content"] = x /\ DOMAIN e = DOMAIN d
  BY <1>2, <1>3
<1>5. Stripped(e)["content"] = x
  BY <1>3, <1>4 DEF Stripped
<1>6. CASE text = <<>>
  <2>1. x \in {Absent, Other, <<>>}
    BY <1>1, <1>6
  <2>2. IsText(x) => x = <<>>
    BY <2>1, TextOrNot
  <2> QED
    BY <1>1, <1>2, <1>5, <1>6, <2>2 DEF ContentOf
<1>7. CASE text # <<>>
  <2>1. x = text /\ IsText(x)
    BY <1>1, <1>7, TextOrNot
  <2> QED
    BY <1>1, <1>2, <1>5, <2>1 DEF ContentOf
<1> QED
  BY <1>6, <1>7

(* One more delta: its reasoning r, and what the filter gives of it, f.     *)
Regroups(x, y, z) == (x \o y) \o z = x \o (y \o z)

LEMMA RegroupTexts == \A x, y, z \in Text : Regroups(x, y, z)
BY ThreeTexts DEF Regroups

DeltaText(opens, r, closes, f) ==
    (IF opens THEN ThinkOpen \o <<"\n">> ELSE <<>>) \o r
      \o (IF closes THEN <<"\n">> \o ThinkClose \o <<"\n">> ELSE <<>>) \o f
Grows(m, r, o, f, text) == ShownOf(m, o) \o text = ShownOf(m \o r, o \o f)
FlagsBefore(m, o, started, closed) ==
    /\ started <=> (m # <<>> /\ InjectThinkTag)
    /\ closed <=> (started /\ o # <<>>)
FlagsMove(r, f, started, closed, opens, closes) ==
    /\ opens <=> (r # <<>> /\ InjectThinkTag /\ ~started)
    /\ closes <=> (f # <<>> /\ (started \/ opens) /\ ~closed)

LEMMA ShownGrows ==
    ASSUME NEW m \in Text, NEW r \in Text, NEW o \in Text, NEW f \in Text,
           r = <<>> \/ o = <<>>,
           NEW started \in BOOLEAN, NEW closed \in BOOLEAN,
           FlagsBefore(m, o, started, closed),
           NEW opens \in BOOLEAN, NEW closes \in BOOLEAN,
           FlagsMove(r, f, started, closed, opens, closes)
    PROVE  /\ Grows(m, r, o, f, DeltaText(opens, r, closes, f))
           /\ (closed \/ closes) <=> ((started \/ opens) /\ o \o f # <<>>)
<1>5. /\ started <=> (m # <<>> /\ InjectThinkTag)
      /\ closed <=> (started /\ o # <<>>)
      /\ opens <=> (r # <<>> /\ InjectThinkTag /\ ~started)
      /\ closes <=> (f # <<>> /\ (started \/ opens) /\ ~closed)
  BY DEF FlagsBefore, FlagsMove
<1> DEFINE O == IF opens THEN ThinkOpen \o <<"\n">> ELSE <<>>
           C == IF closes THEN <<"\n">> \o ThinkClose \o <<"\n">> ELSE <<>>
<1>1. /\ m \o r = <<>> <=> m = <<>> /\ r = <<>>
      /\ o \o f = <<>> <=> o = <<>> /\ f = <<>>
  BY EmptyTogether
<1>2. (closed \/ closes) <=> ((started \/ opens) /\ o \o f # <<>>)
  BY <1>1, <1>5
<1>3. CASE o # <<>>
  <2>1. r = <<>> /\ ~opens /\ ~closes
    BY <1>3, <1>5
  <2>2. O = <<>> /\ C = <<>>
    BY <2>1
  <2> HIDE DEF O, C
  <2>3. <<>> \o <<>> = <<>> /\ <<>> \o f = f
    BY NothingAdded, EmptySeq DEF Text
  <2>4. O \o r \o C \o f = f
    BY <2>1, <2>2, <2>3
  <2>5. m \o r = m
    BY <2>1, NothingAdded
  <2>6. Closing(m, o \o f) = Closing(m, o)
    BY <1>1, <1>3 DEF Closing
  <2>7. PICK a \in Text, b \in Text : a = Opening(m) /\ b = Closing(m, o)
    BY TagLines
  <2>8. (a \o m \o b \o o) \o f = a \o m \o b \o (o \o f)
    <3>1. PICK x \in Text : x = a \o m \o b
      <4>1. a \o m \in Text
        BY ConcatText
      <4> QED
        BY <4>1, ConcatText
    <3>2. (x \o o) \o f = x \o (o \o f)
      BY ThreeTexts, ZenonT(60)
    <3> QED
      BY <3>1, <3>2
  <2>9. ShownOf(m, o) = a \o m \o b \o o
    BY <2>7 DEF ShownOf
  <2>10. ShownOf(m, o \o f) = a \o m \o b \o (o \o f)
    BY <2>6, <2>7 DEF ShownOf
  <2>11. ShownOf(m, o) \o (O \o r \o C \o f) = ShownOf(m \o r, o \o f)
    BY <2>4, <2>5, <2>8, <2>9, <2>10
  <2> QED
    BY <1>2, <2>11 DEF O, C, Grows, DeltaText
<1>4. CASE o = <<>>
  <2>1. o \o f = f
    BY <1>4, NothingAdded
  <2>2. C = Closing(m \o r, f)
    BY <1>1, <1>4, <1>5 DEF Closing
  <2>3. Closing(m, o) = <<>> /\ ~closed
    BY <1>4, <1>5 DEF Closing
  <2>4. PICK a \in Text, b \in Text : a = Opening(m) /\ b = C
    BY <2>2, TagLines
  <2>5. ShownOf(m, o) = a \o m
    <3>1. a \o m \in Text
      BY ConcatText
    <3>2. a \o m \o <<>> \o <<>> = a \o m
      BY <3>1, NothingAdded
    <3> QED
      BY <1>4, <2>3, <2>4, <3>2 DEF ShownOf
  <2>6. CASE m = <<>>
    <3>1. a = <<>> /\ ~started
      BY <1>5, <2>4, <2>6 DEF Opening
    <3>2. O = Opening(r)
      BY <1>5, <3>1 DEF Opening
    <3>3. m \o r = r /\ a \o m = <<>>
      BY <2>6, <3>1, NothingAdded, EmptySeq DEF Text
    <3>4. PICK x \in Text : x = O \o r \o b \o f
      <4>1. O \in Text
        BY <3>2, TagLines
      <4> HIDE DEF O
      <4>2. O \o r \in Text
        BY <4>1, ConcatText
      <4>3. O \o r \o b \in Text
        BY <4>2, ConcatText
      <4> QED
        BY <4>3, ConcatText
    <3>5. <<>> \o x = x
      BY NothingAdded
    <3> HIDE DEF O, C
    <3>6. ShownOf(m \o r, o \o f) = x
      BY <2>1, <2>2, <2>4, <3>2, <3>3, <3>4 DEF ShownOf
    <3>7. ShownOf(m, o) \o (O \o r \o C \o f) = ShownOf(m \o r, o \o f)
      BY <2>4, <2>5, <3>3, <3>4, <3>5, <3>6
    <3> QED
      BY <1>2, <3>7 DEF O, C, Grows, DeltaText
  <2>7. CASE m # <<>>
    <3>1. ~opens /\ O = <<>>
      BY <1>5, <2>7
    <3>2. Opening(m \o r) = a
      BY <1>1, <2>4, <2>7 DEF Opening
    <3> HIDE DEF O, C
    <3>3. O \o r = r
      BY <3>1, NothingAdded
    <3>4. ShownOf(m \o r, o \o f) = a \o (m \o r) \o b \o f
      BY <2>1, <2>2, <2>4, <3>2 DEF ShownOf
    <3>5. (a \o m) \o (r \o b \o f) = a \o (m \o r) \o b \o f
      <4>1. PICK u \in Text : u = a \o m
        BY ConcatText
      <4>2. PICK v \in Text : v = r \o b
        BY ConcatText
      <4>3. Regroups(a, m, r) /\ Regroups(u, r, b) /\ Regroups(u, v, f)
        BY RegroupTexts
      <4> QED
        BY <4>1, <4>2, <4>3 DEF Regroups
    <3>6. ShownOf(m, o) \o (O \o r \o C \o f) = ShownOf(m \o r, o \o f)
      BY <2>4, <2>5, <3>3, <3>4, <3>5
    <3> QED
      BY <1>2, <3>6 DEF O, C, Grows, DeltaText
  <2> QED
    BY <2>6, <2>7
<1> QED
  BY <1>3, <1>4

LEMMA FilterTyped ==
    ASSUME NEW rawBuf \in Text, NEW inside \in BOOLEAN, NEW k \in Text
    PROVE  Filter(rawBuf, inside, k) \in Scanned
<1>1. rawBuf \o k \in Text
  BY ConcatText
<1>2. <<rawBuf \o k, inside>> \in Places
  BY <1>1 DEF Places
<1>3. Scan[<<rawBuf \o k, inside>>] \in Scanned
  BY <1>2, ScanTyped
<1> QED
  BY <1>3 DEF Filter, Scanned

(* A delta keeps the invariant of its choice.                              *)
LEMMA ChoiceStep ==
    ASSUME NEW s, NEW t, NEW c, ChoiceInv(s, t, c), NEW d \in Deltas,
           NEW n, n = NormalizeDelta(t, d)
    PROVE  ChoiceInv(Sent(s, d), n.state, c \o ContentOf(n.delta))
<1>1. PICK r \in Text : r = Collected(d)
  BY DeltaTexts
<1>2. PICK k \in Text : k = ContentOf(d)
  BY DeltaTexts
<1>3. /\ s.said \in Text /\ s.moved \in Text /\ s.late \in BOOLEAN /\ c \in Text
      /\ t.started \in BOOLEAN /\ t.closed \in BOOLEAN
      /\ t.started <=> (s.moved # <<>> /\ InjectThinkTag)
      /\ s.late => s.moved # <<>>
  BY DEF ChoiceInv
<1>4. PICK w \in Scanned : w = Whole(s.said)
  BY <1>3, WholeTyped
<1>5. t.rawBuf = w.rawBuf /\ t.inside = w.inside /\ w.out \in Text
      /\ w.rawBuf \in Text /\ w.inside \in BOOLEAN
  BY <1>4 DEF ChoiceInv, Scanned
<1>6. PICK f \in Scanned : f = Filter(w.rawBuf, w.inside, k)
  BY <1>5, FilterTyped
<1>7. f.out \in Text /\ f.rawBuf \in Text /\ f.inside \in BOOLEAN
  BY DEF Scanned
<1>8. PICK q : q = Whole(s.said \o k)
  OBVIOUS
<1>9. q.out = w.out \o f.out /\ q.rawBuf = f.rawBuf /\ q.inside = f.inside
  <2>1. Follows(Whole(s.said \o k), w.out, Filter(w.rawBuf, w.inside, k))
    BY <1>3, <1>4, FilterComposes
  <2> QED
    BY <1>6, <1>8, <2>1 DEF Follows
<1>10. PICK opens \in BOOLEAN : opens <=> (r # <<>> /\ InjectThinkTag /\ ~t.started)
  OBVIOUS
<1>11. PICK closes \in BOOLEAN :
         closes <=> (f.out # <<>> /\ (t.started \/ opens) /\ ~t.closed)
  OBVIOUS
<1>12. PICK text \in Text :
         text = DeltaText(opens, r, closes, f.out)
  <2>1. PICK x \in Text : x = IF opens THEN ThinkOpen \o <<"\n">> ELSE <<>>
    BY TagTexts, ConcatText, EmptySeq DEF Text
  <2>2. PICK y \in Text : y = IF closes THEN <<"\n">> \o ThinkClose \o <<"\n">> ELSE <<>>
    <3>1. <<"\n">> \o ThinkClose \in Text
      BY TagTexts, ConcatText
    <3>2. <<"\n">> \o ThinkClose \o <<"\n">> \in Text
      BY <3>1, TagTexts, ConcatText
    <3> QED
      BY <3>2, EmptySeq DEF Text
  <2>3. x \o r \in Text
    BY ConcatText
  <2>4. x \o r \o y \in Text
    BY <2>3, ConcatText
  <2>5. x \o r \o y \o f.out \in Text
    BY <1>7, <2>4, ConcatText
  <2> QED
    BY <2>1, <2>2, <2>5 DEF DeltaText
<1>13. PICK kept : kept = IF d["content"] \in {Absent, Other} THEN d["content"] ELSE <<>>
  OBVIOUS
<1>14. /\ n.state = [started |-> t.started \/ opens, closed |-> t.closed \/ closes,
                     rawBuf |-> f.rawBuf, inside |-> f.inside]
       /\ n.delta = Stripped([d EXCEPT !["content"] = IF text = <<>> THEN kept ELSE text])
  <2>1. Opens(t, d) <=> opens
    BY <1>1, <1>10 DEF Opens
  <2>2. Filter(t.rawBuf, t.inside, ContentOf(d)) = f
    BY <1>2, <1>5, <1>6
  <2> QED
    BY <1>1, <1>11, <1>12, <1>13, <2>1, <2>2, <1>3 DEF NormalizeDelta, DeltaText
<1>15. ContentOf(n.delta) = text
  <2>1. kept \in {Absent, Other, <<>>}
    BY <1>13
  <2> QED
    BY <1>14, <2>1, DeltaShows, SMTT(40)
<1>16. PICK z : z = Sent(s, d)
  OBVIOUS
<1>17. /\ z.said = s.said \o k /\ z.moved = s.moved \o r
       /\ z.late <=> (s.late \/ (r # <<>> /\ w.out # <<>>))
       /\ z.late \in BOOLEAN
  BY <1>1, <1>2, <1>3, <1>4, <1>16 DEF Sent
<1>18. /\ s.moved \o r = <<>> <=> s.moved = <<>> /\ r = <<>>
       /\ s.said \o k \in Text /\ s.moved \o r \in Text /\ c \o text \in Text
  BY <1>3, EmptyTogether, ConcatText
<1>19. ASSUME ~z.late
       PROVE  /\ (t.closed \/ closes) <=> ((t.started \/ opens) /\ q.out # <<>>)
              /\ c \o text = ShownOf(z.moved, q.out)
  <2>1. ~s.late /\ (r = <<>> \/ w.out = <<>>)
    BY <1>17, <1>19
  <2>2. (t.closed <=> (t.started /\ w.out # <<>>)) /\ c = ShownOf(s.moved, w.out)
    BY <1>4, <2>1 DEF ChoiceInv
  <2>3. PICK m \in Text, o \in Text, g \in Text : m = s.moved /\ o = w.out /\ g = f.out
    BY <1>3, <1>5, <1>7
  <2>4. PICK started \in BOOLEAN, closed \in BOOLEAN : started = t.started /\ closed = t.closed
    BY <1>3
  <2>5. FlagsBefore(m, o, started, closed)
    BY <1>3, <2>2, <2>3, <2>4 DEF FlagsBefore
  <2>6. FlagsMove(r, g, started, closed, opens, closes)
    BY <1>10, <1>11, <2>3, <2>4 DEF FlagsMove
  <2>7. r = <<>> \/ o = <<>>
    BY <2>1, <2>3
  <2>8. /\ Grows(m, r, o, g, DeltaText(opens, r, closes, g))
        /\ (closed \/ closes) <=> ((started \/ opens) /\ o \o g # <<>>)
    BY <2>5, <2>6, <2>7, ShownGrows, SMTT(40)
  <2>9. c \o text = ShownOf(z.moved, q.out)
    BY <1>9, <1>12, <1>17, <2>2, <2>3, <2>8 DEF Grows
  <2> QED
    BY <1>9, <2>3, <2>4, <2>8, <2>9
<1>20. PICK u : u = n.state
  OBVIOUS
<1>21. /\ u.started <=> (t.started \/ opens)
       /\ u.closed <=> (t.closed \/ closes)
       /\ u.started \in BOOLEAN /\ u.closed \in BOOLEAN
       /\ u.rawBuf = f.rawBuf /\ u.inside = f.inside
  BY <1>3, <1>14, <1>20
<1>22. z.reasoned \in Text /\ Ink(z.moved) = Ink(z.reasoned)
  <2>1. PICK S : S = Atoms \ {" ", "\n"}
    OBVIOUS
  <2>2. S \cap White = {} /\ \A x : Ink(x) = Keep(x, S)
    BY <2>1 DEF White, Ink
  <2>3. PICK g \in Text : g = ReasoningOf(d)
    BY DeltaTexts, ReasoningIsText
  <2>4. Keep(r, S) = Keep(g, S)
    BY <1>1, <2>2, <2>3, DeltaTexts, CollectedKept
  <2>5. PICK x \in Text, y \in Text : x = s.moved /\ y = s.reasoned
    BY DEF ChoiceInv
  <2>6. Keep(x, S) = Keep(y, S)
    <3>1. Ink(x) = Ink(y)
      BY <2>5 DEF ChoiceInv
    <3> QED
      BY <2>2, <3>1
  <2>7. /\ Keep(x \o r, S) = Keep(x, S) \o Keep(r, S)
        /\ y \o g \in Text /\ Keep(y \o g, S) = Keep(y, S) \o Keep(g, S)
    BY BothKept
  <2>8. z.moved = x \o r /\ z.reasoned = y \o g
    BY <1>16, <1>17, <2>3, <2>5 DEF Sent
  <2> QED
    BY <2>2, <2>4, <2>6, <2>7, <2>8
<1>23. ChoiceInv(z, u, c \o text)
  <2>1. z.said \in Text /\ z.moved \in Text /\ Whole(z.said) = q
    BY <1>8, <1>17, <1>18
  <2>2. u.started <=> (z.moved # <<>> /\ InjectThinkTag)
    BY <1>3, <1>10, <1>17, <1>18, <1>21
  <2>3. z.late => z.moved # <<>>
    BY <1>3, <1>17, <1>18
  <2>4. ~z.late => /\ u.closed <=> (u.started /\ q.out # <<>>)
                   /\ c \o text = ShownOf(z.moved, q.out)
    BY <1>19, <1>21
  <2> QED
    BY <1>9, <1>17, <1>18, <1>21, <1>22, <2>1, <2>2, <2>3, <2>4 DEF ChoiceInv
<1> QED
  BY <1>15, <1>16, <1>20, <1>23
-----------------------------------------------------------------------------
(* All choices of a stream, and a line with several of them.               *)
StreamsInv(acc) ==
    /\ DOMAIN acc.tracker = Indices /\ DOMAIN acc.sent = Indices /\ DOMAIN acc.shown = Indices
    /\ \A i \in Indices : ChoiceInv(acc.sent[i], acc.tracker[i], acc.shown[i])

LEMMA StreamsStep ==
    ASSUME NEW acc, StreamsInv(acc), NEW i \in Indices, NEW d \in Deltas
    PROVE  StreamsInv(NormalizeChoice(acc, i, d))
<1>1. PICK s : s = acc.sent[i]
  OBVIOUS
<1>2. PICK t : t = acc.tracker[i]
  OBVIOUS
<1>3. PICK c : c = acc.shown[i]
  OBVIOUS
<1>4. PICK n : n = NormalizeDelta(t, d)
  OBVIOUS
<1>5. ChoiceInv(Sent(s, d), n.state, c \o ContentOf(n.delta))
  <2>1. ChoiceInv(s, t, c)
    BY <1>1, <1>2, <1>3 DEF StreamsInv
  <2> QED
    BY <1>4, <2>1, ChoiceStep
<1>6. PICK x : x = Sent(s, d)
  OBVIOUS
<1>7. PICK y : y = c \o ContentOf(n.delta)
  OBVIOUS
<1>8. PICK new : new = NormalizeChoice(acc, i, d)
  OBVIOUS
<1>9. /\ new.tracker = [acc.tracker EXCEPT ![i] = n.state]
      /\ new.sent = [acc.sent EXCEPT ![i] = x]
      /\ new.shown = [acc.shown EXCEPT ![i] = y]
  BY <1>1, <1>2, <1>3, <1>4, <1>6, <1>7, <1>8 DEF NormalizeChoice, StateKey
<1>10. /\ DOMAIN new.tracker = Indices /\ DOMAIN new.sent = Indices
       /\ DOMAIN new.shown = Indices
  BY <1>9 DEF StreamsInv
<1>11. ASSUME NEW j \in Indices PROVE ChoiceInv(new.sent[j], new.tracker[j], new.shown[j])
  <2>1. CASE j = i
    <3>1. new.sent[j] = x /\ new.tracker[j] = n.state /\ new.shown[j] = y
      BY <1>9, <2>1 DEF StreamsInv
    <3> QED
      BY <1>5, <1>6, <1>7, <3>1
  <2>2. CASE j # i
    <3>1. /\ new.sent[j] = acc.sent[j] /\ new.tracker[j] = acc.tracker[j]
          /\ new.shown[j] = acc.shown[j]
      BY <1>9, <2>2 DEF StreamsInv
    <3> QED
      BY <3>1 DEF StreamsInv
  <2> QED
    BY <2>1, <2>2
<1> QED
  BY <1>8, <1>10, <1>11 DEF StreamsInv

(* The choices of a line one after the other, as a function of how many.   *)
AfterChoice(acc, line, k) == NormalizeChoice(acc, ChoiceIndex(line, k), line[k].delta)
ChoicesBy(acc, line, n, f) ==
    f = [k \in 0..n |-> IF k = 0 THEN acc ELSE AfterChoice(f[k - 1], line, k)]

LEMMA ChoicesExist ==
    ASSUME NEW acc, NEW line, NEW n \in Nat
    PROVE  \E f : ChoicesBy(acc, line, n, f)
<1> DEFINE Fails == {k \in Nat : ~\E f : ChoicesBy(acc, line, k, f)}
<1> SUFFICES ASSUME Fails # {} PROVE FALSE
  OBVIOUS
<1>1. Fails \in SUBSET Nat
  OBVIOUS
<1>2. PICK m \in Fails : \A k \in Fails : m <= k
  BY <1>1, LeastPosition
<1>3. m \in Nat /\ ~\E f : ChoicesBy(acc, line, m, f)
  OBVIOUS
<1>4. m # 0
  <2>1. \A k \in 0..0 : k = 0
    OBVIOUS
  <2>2. [k \in 0..0 |-> acc] = [k \in 0..0 |-> IF k = 0 THEN acc
                          ELSE AfterChoice([j \in 0..0 |-> acc][k - 1], line, k)]
    BY <2>1
  <2>3. ChoicesBy(acc, line, 0, [k \in 0..0 |-> acc])
    BY <2>2 DEF ChoicesBy
  <2> QED
    BY <1>3, <2>3
<1>5. m - 1 \in Nat /\ m - 1 \notin Fails
  BY <1>2, <1>3, <1>4
<1>6. PICK g : ChoicesBy(acc, line, m - 1, g)
  BY <1>5
<1> DEFINE f == [k \in 0..m |-> IF k < m THEN g[k] ELSE AfterChoice(g[k - 1], line, k)]
<1>7. ChoicesBy(acc, line, m, f)
  <2>1. ASSUME NEW k \in 0..m
        PROVE  f[k] = IF k = 0 THEN acc ELSE AfterChoice(f[k - 1], line, k)
    <3>1. CASE k < m
      <4>1. k \in 0..(m - 1)
        BY <1>3, <3>1
      <4>2. g[k] = IF k = 0 THEN acc ELSE AfterChoice(g[k - 1], line, k)
        BY <4>1, <1>6 DEF ChoicesBy
      <4>3. k # 0 => k - 1 \in 0..m /\ k - 1 < m
        BY <1>3, <3>1
      <4> QED
        BY <3>1, <4>2, <4>3
    <3>2. CASE k = m
      <4>1. k - 1 \in 0..m /\ k - 1 < m
        BY <1>3, <1>4, <3>2
      <4> QED
        BY <1>3, <1>4, <3>2, <4>1
    <3> QED
      BY <1>3, <3>1, <3>2
  <2>2. f = [k \in 0..m |-> f[k]]
    OBVIOUS
  <2> HIDE DEF f
  <2>3. f = [k \in 0..m |-> IF k = 0 THEN acc ELSE AfterChoice(f[k - 1], line, k)]
    BY <2>1, <2>2
  <2> QED
    BY <2>3 DEF ChoicesBy
<1> QED
  BY <1>3, <1>7

LEMMA LineStep ==
    ASSUME NEW acc, StreamsInv(acc), NEW line \in DataLines
    PROVE  StreamsInv(NormalizeChoices(acc, line))
<1>1. PICK n \in Nat : n = Len(line)
  BY DEF DataLines
<1>2. \A k \in 1..n : ChoiceIndex(line, k) \in Indices /\ line[k].delta \in Deltas
  <2>1. PICK C : C = [index : Indices \cup {Absent}, delta : Deltas]
    OBVIOUS
  <2>2. line \in Seq(C) /\ \A pos \in DOMAIN line : ChoiceIndex(line, pos) \in Indices
    BY <2>1 DEF DataLines
  <2>3. DOMAIN line = 1..n /\ \A k \in 1..n : line[k] \in C
    BY <1>1, <2>2
  <2>4. \A k \in 1..n : line[k].delta \in Deltas
    BY <2>1, <2>3
  <2> QED
    BY <2>2, <2>3, <2>4
<1> DEFINE f == CHOOSE g : g = [k \in 0..n |-> IF k = 0 THEN acc
                 ELSE NormalizeChoice(g[k - 1], ChoiceIndex(line, k), line[k].delta)]
<1>3. NormalizeChoices(acc, line) = f[n]
  BY <1>1 DEF NormalizeChoices
<1>4. \E g : g = [k \in 0..n |-> IF k = 0 THEN acc
                 ELSE NormalizeChoice(g[k - 1], ChoiceIndex(line, k), line[k].delta)]
  <2>1. PICK g : ChoicesBy(acc, line, n, g)
    BY ChoicesExist
  <2>2. g = [k \in 0..n |-> IF k = 0 THEN acc
                 ELSE NormalizeChoice(g[k - 1], ChoiceIndex(line, k), line[k].delta)]
    BY <2>1 DEF ChoicesBy, AfterChoice
  <2> QED
    BY <2>2
<1>5. f = [k \in 0..n |-> IF k = 0 THEN acc
             ELSE NormalizeChoice(f[k - 1], ChoiceIndex(line, k), line[k].delta)]
  BY <1>4
<1> HIDE DEF f
<1> DEFINE Fails == {k \in 0..n : ~StreamsInv(f[k])}
<1>6. Fails = {}
  <2> SUFFICES ASSUME Fails # {} PROVE FALSE
    OBVIOUS
  <2>1. Fails \in SUBSET Nat
    OBVIOUS
  <2>2. PICK m \in Fails : \A k \in Fails : m <= k
    BY <2>1, LeastPosition
  <2>3. m \in 0..n /\ ~StreamsInv(f[m])
    OBVIOUS
  <2>4. m # 0
    BY <1>5, <2>3
  <2>5. m - 1 \in 0..n /\ ~(m <= m - 1) /\ m \in 1..n
    BY <2>3, <2>4
  <2>6. m - 1 \notin Fails
    BY <2>2, <2>5
  <2>7. PICK x : x = f[m - 1]
    OBVIOUS
  <2>8. StreamsInv(x)
    BY <2>5, <2>6, <2>7
  <2>9. PICK i \in Indices, d \in Deltas : i = ChoiceIndex(line, m) /\ d = line[m].delta
    BY <1>2, <2>5
  <2>10. f[m] = NormalizeChoice(x, i, d)
    BY <1>5, <2>3, <2>4, <2>7, <2>9
  <2> QED
    BY <2>3, <2>8, <2>10, StreamsStep
<1>7. n \in 0..n
  OBVIOUS
<1> QED
  BY <1>3, <1>6, <1>7
-----------------------------------------------------------------------------
(* The stream as the client has it.                                        *)
StreamInv ==
    /\ StreamsInv([tracker |-> tracker, sent |-> sent, shown |-> shown])
    /\ form = "choices" => upstream \in DOMAIN Upstreams

LEMMA NewChoice == ChoiceInv(NothingSent, NewStreamState, <<>>)
<1>1. PICK s : s = NothingSent
  OBVIOUS
<1>2. PICK t : t = NewStreamState
  OBVIOUS
<1>3. /\ s.said = <<>> /\ s.moved = <<>> /\ s.reasoned = <<>> /\ s.late = FALSE
      /\ t.started = FALSE /\ t.closed = FALSE /\ t.rawBuf = <<>> /\ t.inside = FALSE
  BY <1>1, <1>2 DEF NothingSent, NewStreamState
<1>4. PICK w : w = Whole(<<>>)
  OBVIOUS
<1>5. w.out = <<>> /\ w.rawBuf = <<>> /\ w.inside = FALSE
  BY <1>4, NothingFiltered
<1>6. <<>> \in Text /\ <<>> \o <<>> = <<>>
  BY NothingAdded, EmptySeq DEF Text
<1>7. ShownOf(<<>>, <<>>) = <<>>
  BY <1>6 DEF ShownOf, Opening, Closing
<1>8. ChoiceInv(s, t, <<>>)
  BY <1>3, <1>4, <1>5, <1>6, <1>7 DEF ChoiceInv
<1> QED
  BY <1>1, <1>2, <1>8

LEMMA StreamInvInit == Init => StreamInv
<1> SUFFICES ASSUME Init PROVE StreamInv
  OBVIOUS
<1>1. PICK upstreams : StreamInit(upstreams) /\ (form = "choices" => upstreams = DOMAIN Upstreams)
  BY DEF Init
<1>2. PICK acc : acc = [tracker |-> tracker, sent |-> sent, shown |-> shown]
  OBVIOUS
<1>3. /\ acc.tracker = [i \in Indices |-> NewStreamState]
      /\ acc.sent = [i \in Indices |-> NothingSent] /\ acc.shown = [i \in Indices |-> <<>>]
  BY <1>1, <1>2 DEF StreamInit
<1>4. StreamsInv(acc)
  BY <1>3, NewChoice DEF StreamsInv
<1>5. form = "choices" => upstream \in DOMAIN Upstreams
  BY <1>1 DEF StreamInit
<1> QED
  BY <1>2, <1>4, <1>5 DEF StreamInv

LEMMA StreamSteps ==
    [Next]_vars => \/ form = "choices" /\ StreamNext
                   \/ UNCHANGED streamVars
BY DEF Next, vars, Forward, HandleNonStream, HandleStream

LEMMA FormStays == [Next]_vars => form' = form
BY DEF Next, vars, Forward, HandleNonStream, HandleStream

LEMMA StreamInvNext == StreamInv /\ [Next]_vars => StreamInv'
<1> SUFFICES ASSUME StreamInv, [Next]_vars PROVE StreamInv'
  OBVIOUS
<1>1. form' = form
  BY FormStays
<1>2. ASSUME form = "choices", NEW line \in Upstreams[upstream].lines, NormalizeSSEData(line)
      PROVE  StreamInv'
  <2>1. line \in DataLines
    BY <1>2, UpstreamsAssumption DEF StreamInv
  <2>2. PICK acc : acc = [tracker |-> tracker, sent |-> sent, shown |-> shown]
    OBVIOUS
  <2>3. PICK after : after = NormalizeChoices(acc, line)
    OBVIOUS
  <2>4. StreamsInv(after)
    BY <2>1, <2>2, <2>3, LineStep DEF StreamInv
  <2>5. tracker' = after.tracker /\ sent' = after.sent /\ shown' = after.shown
        /\ upstream' = upstream
    BY <1>2, <2>2, <2>3 DEF NormalizeSSEData
  <2>6. PICK new : new = [tracker |-> tracker', sent |-> sent', shown |-> shown']
    OBVIOUS
  <2>7. StreamsInv(new)
    <3>1. new.tracker = after.tracker /\ new.sent = after.sent /\ new.shown = after.shown
      BY <2>5, <2>6
    <3> QED
      BY <2>4, <3>1 DEF StreamsInv
  <2> QED
    BY <1>1, <2>5, <2>6, <2>7 DEF StreamInv
<1>3. CASE UNCHANGED <<upstream, tracker, sent, shown>>
  BY <1>1, <1>3 DEF StreamInv
<1>4. CASE EndStream
  BY <1>3, <1>4 DEF EndStream
<1>5. CASE UNCHANGED streamVars
  BY <1>3, <1>5 DEF streamVars
<1> QED
  BY <1>2, <1>4, <1>5, StreamSteps DEF StreamNext

LEMMA EachChoice ==
    StreamInv => \A i \in Indices : ChoiceInv(sent[i], tracker[i], shown[i])
<1> SUFFICES ASSUME StreamInv, NEW i \in Indices PROVE ChoiceInv(sent[i], tracker[i], shown[i])
  OBVIOUS
<1>1. PICK acc : acc = [tracker |-> tracker, sent |-> sent, shown |-> shown]
  OBVIOUS
<1>2. acc.tracker = tracker /\ acc.sent = sent /\ acc.shown = shown
  BY <1>1
<1>3. StreamsInv(acc)
  BY <1>1 DEF StreamInv
<1> QED
  BY <1>2, <1>3 DEF StreamsInv

LEMMA ShownAsWhole == StreamInv => WordsIndependentOfCuts
<1> SUFFICES ASSUME StreamInv, NEW i \in Indices, NEW w, w = Whole(sent[i].said),
                    NEW r, r = sent[i].moved, ~sent[i].late
             PROVE  /\ Ink(r) = Ink(sent[i].reasoned)
                    /\ shown[i] = ShownOf(r, w.out)
                    /\ <<tracker[i].rawBuf, tracker[i].inside>> = <<w.rawBuf, w.inside>>
  BY DEF WordsIndependentOfCuts, ShownOf, Opening, Closing
<1>1. ChoiceInv(sent[i], tracker[i], shown[i])
  BY EachChoice
<1> QED
  BY <1>1 DEF ChoiceInv

(* For all texts, all cuttings of them into deltas and lines and all       *)
(* interleavings of choices: a choice shows the content, and the filter    *)
(* holds back the rest, that the whole of it would give, behind the ink of *)
(* its reasoning, as long as reasoning came before content.                *)
THEOREM CutsKeepWords == Spec => []WordsIndependentOfCuts
<1> QED
  BY StreamInvInit, StreamInvNext, ShownAsWhole, PTL DEF Spec

LEMMA NothingIsPrefix == \A t \in Tags : IsPrefix(<<>>, t)
<1>1. <<>> \in Text /\ Len(<<>>) = 0
  BY EmptySeq DEF Text
<1> QED
  BY <1>1 DEF IsPrefix

(* Outside of tags nothing is dropped: the content so far is what the      *)
(* filter let go and what it holds, and that begins a tag.                 *)
LEMMA UntaggedIsWhole ==
    ASSUME NEW said \in Text, ~Has(ThinkOpen, said), NEW w, w = Whole(said)
    PROVE  /\ said = w.out \o w.rawBuf
           /\ IsPrefix(w.rawBuf, ThinkOpen) \/ IsPrefix(w.rawBuf, ThinkClose)
<1>1. CASE ParseThinkFromContent /\ said # <<>>
  <2>1. w = Scan[<<said, FALSE>>]
    BY <1>1, WholeOfParsed
  <2>2. PICK n : Holds(said, n)
    BY SomethingHeld
  <2>3. NextTag(FALSE) = ThinkOpen /\ \A x : Emitted(FALSE, x) = x
    BY DEF NextTag, Emitted
  <2>4. w.out = SubSeq(said, 1, Len(said) - n) /\ w.rawBuf = EndOf(said, n)
    <3>1. PICK in \in BOOLEAN : in = FALSE
      OBVIOUS
    <3>2. ~Has(NextTag(in), said) /\ w = Scan[<<said, in>>]
      BY <2>1, <2>3, <3>1
    <3>3. w.out = Emitted(in, SubSeq(said, 1, Len(said) - n)) /\ w.rawBuf = EndOf(said, n)
      BY <2>2, <3>2, ScanUntagged
    <3> QED
      BY <2>3, <3>1, <3>3
  <2>5. Len(said) \in Nat /\ n \in Nat /\ n <= Len(said) /\ n \in 0..Len(said)
    BY <2>2 DEF Holds, Text
  <2>6. said = FrontOf(said, n) \o EndOf(said, n)
    BY <2>5, FrontAndEnd
  <2>7. BeginsTag(said, n)
    BY <2>2 DEF Holds
  <2>8. IsPrefix(EndOf(said, n), ThinkOpen) \/ IsPrefix(EndOf(said, n), ThinkClose)
    BY <2>5, <2>7, EndBeginsTag
  <2> QED
    BY <2>4, <2>6, <2>8 DEF FrontOf
<1>2. CASE ~ParseThinkFromContent \/ said = <<>>
  <2>1. w.out = said /\ w.rawBuf = <<>>
    BY <1>2 DEF Whole, Filter
  <2>2. said \o <<>> = said
    BY NothingAdded
  <2>3. IsPrefix(<<>>, ThinkOpen)
    BY NothingIsPrefix DEF Tags
  <2> QED
    BY <2>1, <2>2, <2>3
<1> QED
  BY <1>1, <1>2

LEMMA HeldIsPossibleTag == StreamInv => OnlyAPossibleTagIsHeld
<1> SUFFICES ASSUME StreamInv, NEW i \in Indices,
                    sent[i].moved = <<>>, ~Has(ThinkOpen, sent[i].said)
             PROVE  /\ sent[i].said = shown[i] \o tracker[i].rawBuf
                    /\ IsPrefix(tracker[i].rawBuf, ThinkOpen)
                         \/ IsPrefix(tracker[i].rawBuf, ThinkClose)
  BY DEF OnlyAPossibleTagIsHeld
<1>1. PICK w : w = Whole(sent[i].said)
  OBVIOUS
<1>2. ChoiceInv(sent[i], tracker[i], shown[i])
  BY EachChoice
<1>3. sent[i].said \in Text /\ tracker[i].rawBuf = w.rawBuf /\ shown[i] = ShownOf(<<>>, w.out)
  BY <1>1, <1>2 DEF ChoiceInv
<1>4. w.out \in Text
  BY <1>1, <1>3, WholeTyped DEF Scanned
<1>5. ShownOf(<<>>, w.out) = w.out
  <2>1. <<>> \in Text /\ <<>> \o <<>> = <<>> /\ <<>> \o w.out = w.out
    BY <1>4, NothingAdded, EmptySeq DEF Text
  <2> QED
    BY <2>1 DEF ShownOf, Opening, Closing
<1>6. /\ sent[i].said = w.out \o w.rawBuf
      /\ IsPrefix(w.rawBuf, ThinkOpen) \/ IsPrefix(w.rawBuf, ThinkClose)
  BY <1>1, <1>3, UntaggedIsWhole
<1> QED
  BY <1>3, <1>5, <1>6

(* For all texts and cuttings: of content without a tag nothing is out of  *)
(* order or missing but an end that may become a tag.                      *)
THEOREM NothingLostInFilter == Spec => []OnlyAPossibleTagIsHeld
<1> QED
  BY StreamInvInit, StreamInvNext, HeldIsPossibleTag, PTL DEF Spec
-----------------------------------------------------------------------------
(* The same answer streamed and in full.                                   *)
LEMMA AroundKept ==
    ASSUME NEW S, NEW x \in Text, NEW y \in Text, Keep(y, S) = <<>>
    PROVE  /\ x \o y \in Text /\ Keep(x \o y, S) = Keep(x, S)
           /\ y \o x \in Text /\ Keep(y \o x, S) = Keep(x, S)
<1>1. /\ x \o y \in Text /\ Keep(x, S) \in Text
      /\ Keep(x \o y, S) = Keep(x, S) \o Keep(y, S)
  BY BothKept
<1>2. y \o x \in Text /\ Keep(y \o x, S) = Keep(y, S) \o Keep(x, S)
  BY BothKept
<1>3. Keep(x, S) \o <<>> = Keep(x, S) /\ <<>> \o Keep(x, S) = Keep(x, S)
  BY <1>1, NothingAdded
<1> QED
  BY <1>1, <1>2, <1>3

LEMMA ShownKept ==
    ASSUME NEW S, S \cap White = {}, InjectThinkTag,
           NEW r \in Text, r # <<>>, NEW o \in Text, o # <<>>
    PROVE  Keep(ShownOf(r, o), S)
             = Keep(ThinkOpen, S) \o Keep(r, S) \o Keep(ThinkClose, S) \o Keep(o, S)
<1>1. PICK a \in Text, b \in Text, nl \in Text :
        a = ThinkOpen /\ b = ThinkClose /\ nl = <<"\n">>
  BY TagTexts
<1>2. Keep(nl, S) = <<>>
  BY <1>1, WhiteDropped
<1>3. PICK x \in Text : x = a \o nl /\ Keep(x, S) = Keep(a, S)
  BY <1>2, AroundKept, ZenonT(40)
<1>4. PICK v \in Text : v = nl \o b /\ Keep(v, S) = Keep(b, S)
  BY <1>2, AroundKept
<1>5. PICK y \in Text : y = v \o nl /\ Keep(y, S) = Keep(b, S)
  <2>1. v \o nl \in Text /\ Keep(v \o nl, S) = Keep(v, S)
    BY <1>2, AroundKept
  <2> QED
    BY <1>4, <2>1
<1>6. Opening(r) = x /\ Closing(r, o) = y
  BY <1>1, <1>3, <1>4, <1>5 DEF Opening, Closing
<1>7. PICK p \in Text : p = x \o r
  BY ConcatText
<1>8. PICK q \in Text : q = p \o y
  BY ConcatText
<1>9. /\ Keep(p, S) = Keep(x, S) \o Keep(r, S)
      /\ Keep(q, S) = Keep(p, S) \o Keep(y, S)
      /\ Keep(q \o o, S) = Keep(q, S) \o Keep(o, S)
  BY <1>7, <1>8, BothKept
<1>10. ShownOf(r, o) = q \o o
  BY <1>6, <1>7, <1>8 DEF ShownOf
<1> QED
  BY <1>1, <1>3, <1>5, <1>9, <1>10

(* A text is not only white space, or keeps nothing.                       *)
LEMMA InkKept ==
    ASSUME NEW s \in Text, TrimSpace(s) # <<>>
    PROVE  Ink(s) # <<>>
<1>1. PICK t : t = TrimSpace(s)
  OBVIOUS
<1>2. t \in Text /\ t # <<>> /\ InkAtEnds(t)
  BY <1>1, TrimSpaceText
<1>3. PICK S : S = Atoms \ {" ", "\n"}
  OBVIOUS
<1>4. S \cap White = {}
  BY <1>3 DEF White
<1>5. Keep(t, S) = Keep(s, S)
  BY <1>1, <1>4, WhiteDropped
<1>6. t[1] \in S /\ t[1] \in Range(t)
  <2>1. DOMAIN t = 1..Len(t) /\ Len(t) \in Nat /\ Len(t) # 0
    BY <1>2, EmptySeq DEF Text
  <2>2. 1 \in DOMAIN t /\ t[1] \in Atoms
    BY <1>2, <2>1 DEF Text
  <2>3. t[1] \notin {" ", "\n"}
    BY <1>2 DEF InkAtEnds
  <2> QED
    BY <1>3, <2>2, <2>3 DEF Range
<1>7. Range(Keep(t, S)) = S \cap Range(t)
  BY <1>2, KeepRange DEF Text
<1>8. Range(<<>>) = {}
  BY DEF Range
<1>9. Keep(t, S) # <<>>
  BY <1>6, <1>7, <1>8
<1> QED
  BY <1>3, <1>5, <1>9 DEF Ink

(* Content without the first atom of the tags goes through the filter.     *)
LEMMA UntaggedGoesThrough ==
    ASSUME NEW said \in Text, "<" \notin Range(said), NEW w, w = Whole(said)
    PROVE  w.out = said
<1>1. Len(said) \in Nat /\ \A i \in 1..Len(said) : said[i] # "<"
  BY DEF Text, Range
<1>2. ~Has(ThinkOpen, said)
  <2>1. ASSUME NEW i \in Occurrences(ThinkOpen, said) PROVE FALSE
    <3>1. i \in Nat /\ i >= 1 /\ i + 1 <= Len(said) /\ said[i] = "<"
      BY OpenAt
    <3>2. i \in 1..Len(said)
      BY <1>1, <3>1
    <3> QED
      BY <1>1, <3>1, <3>2
  <2> QED
    BY <2>1 DEF Has
<1>3. PICK o \in Text, h \in Text : o = w.out /\ h = w.rawBuf
  BY WholeTyped DEF Scanned
<1>4. said = o \o h /\ (IsPrefix(h, ThinkOpen) \/ IsPrefix(h, ThinkClose))
  BY <1>2, <1>3, UntaggedIsWhole
<1>5. /\ Len(said) = Len(o) + Len(h) /\ Len(o) \in Nat /\ Len(h) \in Nat
      /\ \A k \in 1..Len(h) : said[Len(o) + k] = h[k]
  BY <1>4, ConcatText
<1>6. h = <<>>
  <2> SUFFICES ASSUME h # <<>> PROVE FALSE
    OBVIOUS
  <2>1. Len(h) # 0
    BY EmptySeq DEF Text
  <2>2. 1 \in 1..Len(h) /\ Len(o) + 1 \in 1..Len(said)
    BY <1>5, <2>1
  <2>3. h[1] = "<"
    <3>1. PICK n \in Nat : n = Len(h) /\ n - n + 1 = 1 /\ n \in 0..Len(h) /\ 1 \in 1..n
      BY <1>5, <2>2
    <3>2. EndOf(h, n) = h
      BY <3>1, SubSeqFull DEF EndOf, Text
    <3>3. BeginsTag(h, n)
      BY <1>4, <3>1, <3>2, EndBeginsTag
    <3>4. PICK t \in Tags : h[n - n + 1] = t[1]
      <4>1. Len(h) - n + 1 = n - n + 1
        BY <3>1
      <4> QED
        BY <3>1, <3>3, <4>1 DEF BeginsTag
    <3> QED
      BY <3>1, <3>4, TagShape
  <2> QED
    BY <1>1, <1>5, <2>2, <2>3
<1> QED
  BY <1>3, <1>4, <1>6, NothingAdded

(* The answer a stream amounts to.                                         *)
InFull(said, reasoned) ==
    [key \in {"content"} \cup Range(ReasoningFields) |->
        CASE key = "content" -> said
          [] key = ReasoningFields[1] -> reasoned
          [] OTHER -> Absent]

LEMMA AnswerInFull ==
    ASSUME NEW said \in Text, NEW reasoned \in Text, NEW m, m = InFull(said, reasoned)
    PROVE  m \in Message /\ m["content"] = said /\ ReasoningOf(m) = reasoned
<1>1. PICK l \in Nat : l = Len(ReasoningFields) /\ DOMAIN ReasoningFields = 1..l
  BY FieldsApart
<1>2. l # 0
  BY <1>1, OptionsAssumption, EmptySeq
<1>3. /\ \A i \in 1..l : ReasoningFields[i] \in Fields /\ ReasoningFields[i] # "content"
      /\ \A i \in 2..l : ReasoningFields[i] # ReasoningFields[1]
  <2>1. \A i \in 1..l : ReasoningFields[i] \in Fields
    BY <1>1, FieldsApart
  <2>2. \A i \in 2..l : i \in 1..l /\ 1 \in 1..l /\ i # 1
    BY <1>2
  <2> QED
    BY <1>1, <2>1, <2>2, FieldsApart, OptionsAssumption DEF IsInjective
<1>4. /\ m["content"] = said /\ m[ReasoningFields[1]] = reasoned
      /\ \A i \in 2..l : m[ReasoningFields[i]] = Absent
  <2>1. \A key \in {"content"} \cup Fields :
          m[key] = IF key = "content" THEN said
                   ELSE IF key = ReasoningFields[1] THEN reasoned ELSE Absent
    BY <1>2, <1>3 DEF InFull, Fields
  <2>2. 1 \in 1..l /\ \A i \in 2..l : i \in 1..l
    BY <1>2
  <2> QED
    BY <1>3, <2>1, <2>2
<1>5. m \in Message
  <2>1. DOMAIN m = {"content"} \cup Fields /\ m = [key \in {"content"} \cup Fields |-> m[key]]
    BY DEF InFull, Fields
  <2>2. \A key \in {"content"} \cup Fields : m[key] \in {said, reasoned, Absent}
    BY <1>2, <1>3 DEF InFull, Fields
  <2> QED
    BY <2>1, <2>2 DEF Message, Value
<1> DEFINE Plainly(v) == IF IsText(v) THEN v ELSE <<>>
           texts == [i \in DOMAIN ReasoningFields |-> Plainly(m[ReasoningFields[i]])]
<1>6. Plainly(reasoned) = reasoned /\ Plainly(Absent) = <<>>
  BY TextOrNot
<1>7. ReasoningOf(m) = FlattenSeq(texts)
  BY DEF ReasoningOf
<1> HIDE DEF Plainly
<1>8. /\ \A i \in 1..l : texts[i] \in Text
      /\ texts[1] = reasoned /\ \A i \in 2..l : texts[i] = <<>>
  <2>1. 1 \in 1..l /\ \A i \in 1..l : i = 1 \/ i \in 2..l
    BY <1>2
  <2>2. texts[1] = reasoned
    BY <1>1, <1>4, <1>6, <2>1
  <2>3. \A i \in 2..l : i \in 1..l
    OBVIOUS
  <2>4. \A i \in 2..l : texts[i] = <<>>
    BY <1>1, <1>4, <1>6, <2>3
  <2> HIDE DEF texts
  <2> QED
    BY <2>1, <2>2, <2>4, EmptySeq DEF Text
<1>9. texts \in Seq(Text) /\ Len(texts) = l
  <2>1. texts = [i \in 1..l |-> texts[i]]
    BY <1>1
  <2> HIDE DEF texts
  <2> QED
    BY <1>8, <2>1
<1> HIDE DEF texts
<1>10. FlattenSeq(texts) = reasoned
  BY <1>2, <1>8, <1>9, FlattenFirst
<1> QED
  BY <1>4, <1>5, <1>7, <1>10, SMTT(40)

LEMMA SameInFull ==
    ASSUME NEW s, NEW t, NEW c, ChoiceInv(s, t, c), InjectThinkTag, ~s.late,
           Inked(s.moved), "<" \notin Range(s.said), Inked(s.said),
           NEW m, m = InFull(s.said, s.reasoned)
    PROVE  Ink(c) = Ink(NormalizeMessage(m)["content"])
<1>1. PICK S : S = Atoms \ {" ", "\n"}
  OBVIOUS
<1>2. S \cap White = {} /\ \A x : Ink(x) = Keep(x, S)
  BY <1>1 DEF White, Ink
<1>3. PICK said \in Text, moved \in Text, reasoned \in Text :
        said = s.said /\ moved = s.moved /\ reasoned = s.reasoned
  BY DEF ChoiceInv
<1>4. said # <<>> /\ moved # <<>>
  BY <1>3, NothingToTrim DEF Inked, TrimSpace
<1>5. Whole(said).out = said
  BY <1>3, UntaggedGoesThrough
<1>6. c = ShownOf(moved, said)
  BY <1>3, <1>5 DEF ChoiceInv
<1>7. Keep(moved, S) = Keep(reasoned, S) /\ Keep(moved, S) # <<>>
  <2>1. Ink(moved) = Ink(reasoned)
    BY <1>3 DEF ChoiceInv
  <2>2. Ink(moved) # <<>>
    BY <1>3, InkKept DEF Inked
  <2> QED
    BY <1>2, <2>1, <2>2
<1>8. m \in Message /\ m["content"] = said /\ ReasoningOf(m) = reasoned
  BY <1>3, AnswerInFull
<1>9. PICK r \in Text : r = Collected(m) /\ TrimSpace(r) = r
  BY <1>8, CollectedTrimmed
<1>10. Keep(r, S) = Keep(moved, S)
  BY <1>2, <1>7, <1>8, <1>9, CollectedKept
<1>11. r # <<>>
  BY <1>7, <1>10, KeepNothing
<1>12. IsText(said) /\ said # Other
  BY TextOrNot
<1>13. NormalizeMessage(m) = Injected(m, r, said)
  BY <1>8, <1>9, <1>11, <1>12 DEF NormalizeMessage, Injected, ContentOf
<1>14. NormalizeMessage(m)["content"] = JoinThinkAndContent(r, said)
  <2>1. PICK j : j = JoinThinkAndContent(r, said)
    OBVIOUS
  <2>2. PICK e : e = [m EXCEPT !["content"] = j]
    OBVIOUS
  <2>3. "content" \in DOMAIN e /\ e["content"] = j
    BY <1>8, <2>2 DEF Message
  <2>4. Stripped(e)["content"] = j
    BY <2>3, FieldsApart DEF Stripped, Fields
  <2> QED
    BY <1>13, <2>1, <2>2, <2>4 DEF Injected
<1>15. Keep(JoinThinkAndContent(r, said), S)
         = Keep(ThinkOpen, S) \o Keep(r, S) \o Keep(ThinkClose, S) \o Keep(said, S)
  BY <1>2, <1>9, JoinKept
<1>16. Keep(ShownOf(moved, said), S)
         = Keep(ThinkOpen, S) \o Keep(moved, S) \o Keep(ThinkClose, S) \o Keep(said, S)
  BY <1>2, <1>4, ShownKept
<1> QED
  BY <1>2, <1>6, <1>10, <1>14, <1>15, <1>16

LEMMA StreamedAsInFull == StreamInv => StreamMatchesMessage
<1> SUFFICES ASSUME StreamInv, NEW i \in Indices, InjectThinkTag, ~sent[i].late,
                    Inked(sent[i].moved), Inked(sent[i].said), "<" \notin Range(sent[i].said)
             PROVE  Ink(shown[i])
                      = Ink(NormalizeMessage(InFull(sent[i].said, sent[i].reasoned))["content"])
  BY SMTT(40) DEF StreamMatchesMessage, InFull
<1>1. ChoiceInv(sent[i], tracker[i], shown[i])
  BY EachChoice, SMTT(40)
<1> QED
  BY <1>1, SameInFull

(* For all texts and cuttings: an answer without tags of its own says the  *)
(* same streamed and read in full, white space aside.                      *)
THEOREM StreamSaysTheSame == Spec => []StreamMatchesMessage
<1> QED
  BY StreamInvInit, StreamInvNext, StreamedAsInFull, PTL DEF Spec
-----------------------------------------------------------------------------
(* The words of a message: what is kept of it that no tag and no white     *)
(* space has.                                                              *)
Words(m, S) == Len(Keep(ReasoningOf(m) \o ContentOf(m), S))

(* A text is what is before the first tag, the tag, and what is after it.  *)
LEMMA TagCuts ==
    ASSUME NEW s \in Text, NEW t \in Tags, Has(t, s)
    PROVE  s = (Before(t, s) \o t) \o After(t, s)
<1>1. PICK p : p = Min(Occurrences(t, s))
  OBVIOUS
<1>2. /\ p \in Occurrences(t, s) /\ p \in 1..(Len(s) - Len(t) + 1)
      /\ Before(t, s) = SubSeq(s, 1, p - 1) /\ After(t, s) = SubSeq(s, p + Len(t), Len(s))
  BY <1>1, TagSplits
<1>3. Len(s) \in Nat /\ Len(t) \in {2, 3}
  BY TagShape DEF Text
<1>4. PICK b, e : b = p - 1 /\ e = p + Len(t) - 1
  OBVIOUS
<1>5. /\ b + 1 = p /\ e + 1 = p + Len(t)
      /\ 1 \in 1..(Len(s) + 1) /\ b \in (1 - 1)..Len(s) /\ e \in b..Len(s)
      /\ e \in (1 - 1)..Len(s) /\ Len(s) \in e..Len(s)
  BY <1>2, <1>3, <1>4
<1>6. SubSeq(s, p, e) = t
  BY <1>2, <1>4 DEF Occurrences
<1>7. SubSeq(s, 1, b) \o SubSeq(s, b + 1, e) = SubSeq(s, 1, e)
  BY <1>5, ConcatAdjacentSubSeq DEF Text
<1>8. SubSeq(s, 1, e) \o SubSeq(s, e + 1, Len(s)) = SubSeq(s, 1, Len(s))
  BY <1>5, ConcatAdjacentSubSeq DEF Text
<1>9. SubSeq(s, 1, Len(s)) = s
  BY SubSeqFull DEF Text
<1> QED
  BY <1>2, <1>4, <1>5, <1>6, <1>7, <1>8, <1>9

(* The tags that ExtractThink finds cut a text into three.                 *)
LEMMA ThinkCuts ==
    ASSUME NEW s \in Text, Extractable(s)
    PROVE  \E x, y, z \in Text :
             /\ s = (x \o ThinkOpen) \o ((y \o ThinkClose) \o z)
             /\ Thinking(s) = TrimSpace(y) /\ Answer(s) = TrimSpace(x \o z)
<1>1. PICK p : p = Min(Occurrences(ThinkOpen, s))
  OBVIOUS
<1>2. Has(ThinkOpen, s) /\ Has(ThinkClose, s) /\ p < Min(Occurrences(ThinkClose, s))
  BY <1>1 DEF Extractable
<1>3. ThinkOpen \in Tags /\ ThinkClose \in Tags
  BY DEF Tags
<1>4. PICK x \in Text, a \in Text : x = Before(ThinkOpen, s) /\ a = After(ThinkOpen, s)
  BY <1>2, <1>3, TagSplits
<1>5. /\ p \in Occurrences(ThinkOpen, s) /\ Len(x) = p - 1
      /\ p \in Nat /\ s[p + 1] = "think>"
  BY <1>1, <1>2, <1>3, <1>4, TagSplits, OpenAt
<1>6. PICK f \in Text : f = x \o ThinkOpen /\ Len(f) = p + 1
  <2>1. PICK o \in Text : o = ThinkOpen /\ Len(o) = 2
    BY TagTexts
  <2>2. x \o o \in Text /\ Len(x \o o) = Len(x) + Len(o)
    BY ConcatText
  <2>3. Len(x) + Len(o) = p + 1
    BY <1>5, <2>1
  <2> QED
    BY <2>1, <2>2, <2>3
<1>7. s = f \o a
  BY <1>2, <1>3, <1>4, <1>6, TagCuts
<1>8. ASSUME NEW i \in Occurrences(ThinkClose, f \o a) PROVE Len(f) < i
  <2>1. i \in Nat /\ s[i] = "<"
    BY <1>7, CloseAt
  <2>2. /\ Min(Occurrences(ThinkClose, s)) \in Nat
        /\ Min(Occurrences(ThinkClose, s)) <= i
    BY <1>2, <1>3, <1>7, FirstPlace, TagTexts
  <2>3. i # p + 1
    BY <1>5, <2>1
  <2> QED
    BY <1>2, <1>5, <1>6, <2>1, <2>2, <2>3
<1>9. Has(ThinkClose, a) /\ After(ThinkClose, s) = After(ThinkClose, a)
  BY <1>2, <1>3, <1>7, <1>8, FirstTagMoves
<1>10. PICK y \in Text, z \in Text : y = Before(ThinkClose, a) /\ z = After(ThinkClose, a)
  BY <1>3, <1>9, TagSplits
<1>11. a = (y \o ThinkClose) \o z
  BY <1>3, <1>9, <1>10, TagCuts
<1>12. s = (x \o ThinkOpen) \o ((y \o ThinkClose) \o z)
  BY <1>6, <1>7, <1>11
<1>13. Thinking(s) = TrimSpace(y) /\ Answer(s) = TrimSpace(x \o z)
  BY <1>4, <1>9, <1>10 DEF Thinking, Answer
<1> QED
  BY <1>12, <1>13

LEMMA LengthsKept ==
    ASSUME NEW S, NEW x \in Text, NEW y \in Text
    PROVE  /\ Len(Keep(x, S)) \in Nat
           /\ Len(Keep(x \o y, S)) = Len(Keep(x, S)) + Len(Keep(y, S))
<1>1. Keep(x, S) \in Text /\ Keep(x \o y, S) = Keep(x, S) \o Keep(y, S)
  BY BothKept
<1>2. Keep(y, S) \in Text
  BY BothKept
<1> QED
  BY <1>1, <1>2, ConcatText

LEMMA NoWordInTags ==
    ASSUME NEW S, S \cap Separators = {}
    PROVE  /\ S \cap White = {} /\ Len(<<>>) = 0
           /\ Keep(ThinkOpen, S) = <<>> /\ Keep(ThinkClose, S) = <<>>
<1>1. White \subseteq Separators
  BY DEF White, Separators
<1>2. ThinkOpen \in Seq(Separators) /\ ThinkClose \in Seq(Separators)
  <2>1. "<" \in Separators /\ "/" \in Separators /\ "think>" \in Separators
    BY DEF Separators
  <2>2. \A a, b, c \in Separators : <<a, b>> \in Seq(Separators) /\ <<a, b, c>> \in Seq(Separators)
    OBVIOUS
  <2> QED
    BY <2>1, <2>2 DEF ThinkOpen, ThinkClose
<1>3. Keep(ThinkOpen, S) = <<>> /\ Keep(ThinkClose, S) = <<>>
  BY <1>2, KeepNone
<1> QED
  BY <1>1, <1>3

(* Taking the thinking out of a text leaves the other words.               *)
LEMMA Separates ==
    ASSUME NEW S, S \cap Separators = {}, NEW s \in Text, Extractable(s)
    PROVE  /\ Thinking(s) \in Text /\ Answer(s) \in Text
           /\ Len(Keep(s, S)) = Len(Keep(Thinking(s), S)) + Len(Keep(Answer(s), S))
<1>1. PICK x \in Text, y \in Text, z \in Text :
        /\ s = (x \o ThinkOpen) \o ((y \o ThinkClose) \o z)
        /\ Thinking(s) = TrimSpace(y) /\ Answer(s) = TrimSpace(x \o z)
  BY ThinkCuts
<1>2. PICK a \in Text, b \in Text :
        a = ThinkOpen /\ b = ThinkClose /\ Keep(a, S) = <<>> /\ Keep(b, S) = <<>>
  BY TagTexts, NoWordInTags
<1>3. PICK k, l, m : k = Len(Keep(x, S)) /\ l = Len(Keep(y, S)) /\ m = Len(Keep(z, S))
  OBVIOUS
<1>4. k \in Nat /\ l \in Nat /\ m \in Nat
  BY <1>3, LengthsKept
<1>5. PICK xa \in Text : xa = x \o a /\ Len(Keep(xa, S)) = k
  <2>1. x \o a \in Text /\ Keep(x \o a, S) = Keep(x, S)
    BY <1>2, AroundKept
  <2> QED
    BY <1>3, <2>1
<1>6. PICK yb \in Text : yb = y \o b /\ Len(Keep(yb, S)) = l
  <2>1. y \o b \in Text /\ Keep(y \o b, S) = Keep(y, S)
    BY <1>2, AroundKept
  <2> QED
    BY <1>3, <2>1
<1>7. PICK ybz \in Text : ybz = yb \o z /\ Len(Keep(ybz, S)) = l + m
  <2>1. yb \o z \in Text /\ Len(Keep(yb \o z, S)) = Len(Keep(yb, S)) + Len(Keep(z, S))
    BY ConcatText, LengthsKept
  <2> QED
    BY <1>3, <1>6, <2>1
<1>8. Len(Keep(s, S)) = k + (l + m)
  <2>1. Len(Keep(xa \o ybz, S)) = Len(Keep(xa, S)) + Len(Keep(ybz, S))
    BY LengthsKept
  <2> QED
    BY <1>1, <1>2, <1>5, <1>6, <1>7, <2>1
<1>9. S \cap White = {}
  BY NoWordInTags
<1>10. Thinking(s) \in Text /\ Len(Keep(Thinking(s), S)) = l
  <2>1. TrimSpace(y) \in Text /\ Keep(TrimSpace(y), S) = Keep(y, S)
    BY <1>9, WhiteDropped
  <2> QED
    BY <1>1, <1>3, <2>1
<1>11. Answer(s) \in Text /\ Len(Keep(Answer(s), S)) = k + m
  <2>1. x \o z \in Text /\ Len(Keep(x \o z, S)) = Len(Keep(x, S)) + Len(Keep(z, S))
    BY ConcatText, LengthsKept
  <2>2. TrimSpace(x \o z) \in Text /\ Keep(TrimSpace(x \o z), S) = Keep(x \o z, S)
    BY <1>9, <2>1, WhiteDropped
  <2> QED
    BY <1>1, <1>3, <2>1, <2>2
<1> QED
  BY <1>4, <1>8, <1>10, <1>11

(* The words of a message are those of its reasoning and of its content.   *)
LEMMA WordsOfBoth ==
    ASSUME NEW S, S \cap Separators = {}, NEW m \in Message
    PROVE  /\ Words(m, S) = Len(Keep(Collected(m), S)) + Len(Keep(ContentOf(m), S))
           /\ Len(Keep(Collected(m), S)) \in Nat /\ Len(Keep(ContentOf(m), S)) \in Nat
<1>1. PICK r \in Text, g \in Text, c \in Text :
        r = Collected(m) /\ g = ReasoningOf(m) /\ c = ContentOf(m)
  BY CollectedTrimmed, ReasoningIsText, ContentTyped
<1>2. S \cap White = {}
  BY NoWordInTags
<1>3. Keep(r, S) = Keep(g, S)
  BY <1>1, <1>2, CollectedKept
<1>4. Len(Keep(g \o c, S)) = Len(Keep(g, S)) + Len(Keep(c, S))
  BY LengthsKept
<1>5. Len(Keep(r, S)) \in Nat /\ Len(Keep(c, S)) \in Nat
  BY LengthsKept
<1> QED
  BY <1>1, <1>3, <1>4, <1>5 DEF Words

(* Of a message whose fields are consumed only the content has words.      *)
LEMMA WordsStripped ==
    ASSUME NEW S, S \cap Separators = {}, StripReasoningFields, NEW m \in Message,
           NEW n, n = Stripped(m)
    PROVE  /\ n \in Message /\ n["content"] = m["content"]
           /\ Words(n, S) = Len(Keep(ContentOf(m), S))
<1>1. n \in Message /\ n["content"] = m["content"] /\ Collected(n) = <<>>
  BY NothingCollected
<1>2. ContentOf(n) = ContentOf(m)
  BY <1>1 DEF ContentOf
<1>3. /\ Words(n, S) = Len(Keep(<<>>, S)) + Len(Keep(ContentOf(m), S))
      /\ Len(Keep(ContentOf(m), S)) \in Nat
  BY <1>1, <1>2, WordsOfBoth
<1>4. Len(Keep(<<>>, S)) = 0
  BY KeepNothing, NoWordInTags
<1> QED
  BY <1>1, <1>3, <1>4

LEMMA WordsInjected ==
    ASSUME NEW S, S \cap Separators = {}, StripReasoningFields, NEW m \in Message,
           NEW r \in Text, TrimSpace(r) = r, NEW c \in Text, NEW n, n = Injected(m, r, c)
    PROVE  /\ n \in Message /\ n["content"] # Other
           /\ Words(n, S) = Len(Keep(r, S)) + Len(Keep(c, S))
<1>1. PICK b : b = JoinThinkAndContent(r, c)
  OBVIOUS
<1>2. S \cap White = {} /\ Keep(ThinkOpen, S) = <<>> /\ Keep(ThinkClose, S) = <<>>
  BY NoWordInTags
<1>3. b \in Text
  <2>1. b = Block(r, Behind(c)) /\ Behind(c) \in Text
    BY <1>1, JoinIsBlock, BehindTrimmed
  <2>2. PICK n1 : n1 = Len(r)
    OBVIOUS
  <2>3. IsBlock(b, r, Behind(c), n1)
    BY <2>1, <2>2, BlockAtoms
  <2> QED
    BY <2>3 DEF IsBlock
<1>4. Keep(b, S) = Keep(r, S) \o Keep(c, S)
  <2>1. Keep(b, S) = Keep(ThinkOpen, S) \o Keep(r, S) \o Keep(ThinkClose, S) \o Keep(c, S)
    BY <1>1, <1>2, JoinKept
  <2>2. PICK x \in Text, y \in Text : x = Keep(r, S) /\ y = Keep(c, S)
    BY BothKept
  <2>3. <<>> \o x = x /\ x \o <<>> = x
    BY NothingAdded
  <2> QED
    BY <1>2, <2>1, <2>2, <2>3
<1>5. Len(Keep(b, S)) = Len(Keep(r, S)) + Len(Keep(c, S))
  BY <1>4, BothKept, ConcatText
<1>6. PICK w : w = [m EXCEPT !["content"] = b]
  OBVIOUS
<1>7. w \in Message /\ w["content"] = b
  BY <1>3, <1>6 DEF Message, Value
<1>8. n = Stripped(w)
  BY <1>1, <1>6 DEF Injected
<1>9. n \in Message /\ n["content"] = b /\ Words(n, S) = Len(Keep(ContentOf(w), S))
  BY <1>7, <1>8, WordsStripped
<1>10. ContentOf(w) = b /\ b # Other
  BY <1>3, <1>7, TextOrNot DEF ContentOf
<1> QED
  BY <1>5, <1>9, <1>10

LEMMA WordsKept ==
    ASSUME NEW S, S \cap Separators = {}, StripReasoningFields, InjectThinkTag,
           NEW m \in Message, m["content"] # Other, NEW n, n = NormalizeMessage(m)
    PROVE  n \in Message /\ n["content"] # Other /\ Words(n, S) = Words(m, S)
<1>1. PICK c : c = m["content"]
  OBVIOUS
<1>2. PICK parsed \in BOOLEAN : parsed <=> /\ ParseThinkFromContent /\ Collected(m) = <<>>
                                           /\ IsText(c) /\ Extractable(c)
  OBVIOUS
<1>3. PICK r : r = IF parsed THEN Thinking(c) ELSE Collected(m)
  OBVIOUS
<1>4. /\ Words(m, S) = Len(Keep(Collected(m), S)) + Len(Keep(ContentOf(m), S))
      /\ Len(Keep(Collected(m), S)) \in Nat /\ Len(Keep(ContentOf(m), S)) \in Nat
  BY WordsOfBoth
<1>5. Collected(m) = <<>> => Words(m, S) = Len(Keep(ContentOf(m), S))
  <2>1. Len(Keep(<<>>, S)) = 0
    BY KeepNothing, NoWordInTags
  <2> QED
    BY <1>4, <2>1
<1>6. CASE r = <<>>
  <2>1. n = Stripped(m)
    BY <1>1, <1>2, <1>3, <1>6 DEF NormalizeMessage
  <2>2. Collected(m) = <<>>
    BY <1>2, <1>3, <1>6
  <2> QED
    BY <1>5, <2>1, <2>2, WordsStripped
<1>7. CASE r # <<>> /\ parsed
  <2>1. c \in Text /\ ContentOf(m) = c
    BY <1>1, <1>2, <1>7, ContentTyped, TextOrNot DEF ContentOf
  <2>2. r = Thinking(c) /\ TrimSpace(r) = r /\ r \in Text
    BY <1>2, <1>3, <1>7, <2>1, ThinkingIsPlain
  <2>3. PICK a \in Text : a = Answer(c)
    BY <1>2, <1>7, <2>1, AnswerIsText
  <2>4. n = Injected(m, r, a)
    BY <1>1, <1>2, <1>7, <2>2, <2>3, TagsNormalized
  <2>5. n \in Message /\ n["content"] # Other /\ Words(n, S) = Len(Keep(r, S)) + Len(Keep(a, S))
    <3>1. PICK q \in Text : q = r /\ TrimSpace(q) = q
      BY <2>2
    <3>2. n = Injected(m, q, a)
      BY <2>4, <3>1
    <3>3. /\ n \in Message /\ n["content"] # Other
          /\ Words(n, S) = Len(Keep(q, S)) + Len(Keep(a, S))
      BY <3>1, <3>2, WordsInjected
    <3> QED
      BY <3>1, <3>3
  <2>6. Len(Keep(c, S)) = Len(Keep(r, S)) + Len(Keep(a, S))
    BY <1>2, <1>7, <2>1, <2>2, <2>3, Separates
  <2> QED
    BY <1>2, <1>5, <1>7, <2>1, <2>5, <2>6
<1>8. CASE r # <<>> /\ ~parsed
  <2>1. r = Collected(m) /\ r \in Text /\ TrimSpace(r) = r
    BY <1>3, <1>8, CollectedTrimmed
  <2>2. n = Injected(m, r, ContentOf(m))
    BY <1>8, <2>1, FieldsNormalized
  <2>3. /\ n \in Message /\ n["content"] # Other
        /\ Words(n, S) = Len(Keep(r, S)) + Len(Keep(ContentOf(m), S))
    BY <2>1, <2>2, ContentTyped, WordsInjected
  <2> QED
    BY <1>4, <2>1, <2>3
<1> QED
  BY <1>6, <1>7, <1>8

LEMMA WordsStay == MessageInv => TextKept
<1> SUFFICES ASSUME MessageInv, InjectThinkTag, StripReasoningFields,
                    original["content"] # Other, NEW atom \in {"r", "c"}
             PROVE  Count(atom, message) = Count(atom, original)
  BY DEF TextKept
<1>1. PICK S : S = {atom}
  OBVIOUS
<1>2. S \cap Separators = {}
  BY <1>1 DEF Separators
<1>3. \A m : Count(atom, m) = Words(m, S)
  BY <1>1 DEF Count, Words
<1>4. PICK o \in Message : o = original
  BY DEF MessageInv
<1>5. PICK n : n = NormalizeMessage(o)
  OBVIOUS
<1>6. n \in Message /\ n["content"] # Other /\ Words(n, S) = Words(o, S)
  BY <1>2, <1>4, <1>5, WordsKept
<1>7. Words(NormalizeMessage(n), S) = Words(n, S)
  BY <1>2, <1>6, WordsKept
<1>8. message = o \/ message = n \/ message = NormalizeMessage(n)
  BY <1>4, <1>5 DEF MessageInv
<1> QED
  BY <1>3, <1>4, <1>6, <1>7, <1>8

(* For all texts of an upstream: no word of the reasoning or the content   *)
(* of a message is lost or repeated, after one gateway and after two.      *)
THEOREM NoWordLost == Spec => []TextKept
<1> QED
  BY MessageInvInit, MessageInvNext, WordsStay, PTL DEF Spec
=============================================================================
