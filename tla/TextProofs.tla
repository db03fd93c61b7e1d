------------------------------ MODULE TextProofs ------------------------------
(***************************************************************************)
(* Facts about texts, for every text: what Trim leaves and where it cuts.  *)
(* The library's induction theorems cannot be used by the provers; a least *)
(* or greatest position does the same service.                             *)
(***************************************************************************)
EXTENDS Texts, WellFoundedInduction, SequenceTheorems, TLAPS

LEMMA FunctionsAreSequences ==
    ASSUME NEW T, NEW n \in Nat, NEW f \in [1..n -> T]
    PROVE  f \in Seq(T) /\ Len(f) = n
OBVIOUS

LEMMA LeastPosition ==
    ASSUME NEW S \in SUBSET Nat, S # {}
    PROVE  Min(S) \in S /\ \A k \in S : Min(S) <= k
<1>1. \E m \in S : \A k \in S : <<k, m>> \notin OpToRel(<, Nat)
  BY NatLessThanWellFounded, WFMin
<1>2. PICK m \in S : \A k \in S : <<k, m>> \notin OpToRel(<, Nat)
  BY <1>1
<1>3. \A k \in S : k \in Nat /\ m \in Nat /\ ~(k < m)
  BY <1>2 DEF OpToRel
<1>4. \E x \in S : \A y \in S : x =< y
  BY <1>3
<1> QED
  BY <1>4 DEF Min

LEMMA GreatestPosition ==
    ASSUME NEW S \in SUBSET Nat, S # {}, NEW b \in Nat, \A k \in S : k <= b
    PROVE  Max(S) \in S /\ \A k \in S : k <= Max(S)
<1> DEFINE T == {b - k : k \in S}
<1>1. T \in SUBSET Nat /\ T # {}
  <2>1. \A k \in S : k \in Nat /\ k <= b
    OBVIOUS
  <2>2. \A k \in S : b - k \in Nat
    BY <2>1
  <2> QED
    BY <2>2
<1>2. Min(T) \in T /\ \A k \in T : Min(T) <= k
  BY <1>1, LeastPosition
<1>3. PICK n \in S : Min(T) = b - n
  BY <1>2
<1>4. ASSUME NEW k \in S PROVE n >= k
  <2>1. k \in Nat /\ n \in Nat /\ b - k \in T
    OBVIOUS
  <2>2. b - n <= b - k
    BY <1>2, <1>3, <2>1
  <2> HIDE DEF T
  <2> QED
    BY <2>1, <2>2
<1>5. \E x \in S : \A y \in S : x >= y
  BY <1>4
<1>6. Max(S) \in S /\ \A k \in S : Max(S) >= k
  BY <1>5 DEF Max
<1> QED
  BY <1>6

-----------------------------------------------------------------------------
(* Trim cuts at the first and the last atom it keeps.                      *)
LEMMA TrimKeeps ==
    ASSUME NEW s \in Text, NEW cut, NEW p, p = Trim(s, cut)
    PROVE  /\ p \in Text
           /\ p # <<>> => /\ Len(p) >= 1
                          /\ p[1] \notin cut /\ p[Len(p)] \notin cut
<1> DEFINE kept == {i \in DOMAIN s : s[i] \notin cut}
           m == Min(kept)
           n == Max(kept)
<1>1. s \in Seq(Atoms) /\ DOMAIN s = 1..Len(s) /\ Len(s) \in Nat
  BY DEF Text
<1>2. CASE kept = {}
  <2>1. p = <<>>
    BY <1>2 DEF Trim
  <2> QED
    BY <2>1 DEF Text
<1>3. CASE kept # {}
  <2>1. kept \in SUBSET Nat /\ \A k \in kept : k <= Len(s)
    BY <1>1
  <2>2. m \in kept /\ n \in kept /\ m <= n
    BY <2>1, <1>1, <1>3, LeastPosition, GreatestPosition
  <2>3. p = SubSeq(s, m, n)
    BY <1>3 DEF Trim
  <2>4. m \in 1..Len(s) /\ n \in 1..Len(s) /\ s[m] \notin cut /\ s[n] \notin cut
    BY <2>2, <1>1
  <2> HIDE DEF kept, m, n
  <2>5. /\ p \in Seq(Atoms) /\ Len(p) = n - m + 1
        /\ p[1] = s[m] /\ p[n - m + 1] = s[n]
    <3>1. SubSeq(s, m, n) \in Seq(Atoms) /\ Len(SubSeq(s, m, n)) = n - m + 1
      BY <1>1, <2>2, <2>4, SubSeqProperties
    <3>2. \A i \in 1 .. (n - m + 1) : SubSeq(s, m, n)[i] = s[m + i - 1]
      BY <1>1, <2>2, <2>4, SubSeqProperties
    <3>3. 1 \in 1 .. (n - m + 1) /\ (n - m + 1) \in 1 .. (n - m + 1)
      BY <1>1, <2>2, <2>4
    <3>4. m + 1 - 1 = m /\ m + (n - m + 1) - 1 = n
      BY <1>1, <2>4
    <3> QED
      BY <2>3, <3>1, <3>2, <3>3, <3>4
  <2> QED
    BY <2>2, <2>4, <2>5, <1>1 DEF Text
<1> QED
  BY <1>2, <1>3

(* Trim gives what is between two kept atoms if all before and behind them *)
(* is cut.                                                                 *)
LEMMA TrimIs ==
    ASSUME NEW s \in Text, NEW cut, NEW m \in DOMAIN s, NEW n \in DOMAIN s,
           s[m] \notin cut, s[n] \notin cut,
           \A i \in DOMAIN s : i < m \/ n < i => s[i] \in cut
    PROVE  Trim(s, cut) = SubSeq(s, m, n)
<1> DEFINE kept == {i \in DOMAIN s : s[i] \notin cut}
<1>1. DOMAIN s = 1..Len(s) /\ Len(s) \in Nat /\ m \in Nat /\ n \in Nat
  BY DEF Text
<1>2. m \in kept /\ n \in kept /\ \A k \in kept : k \in Nat /\ m <= k /\ k <= n /\ k <= Len(s)
  <2>1. ASSUME NEW k \in kept PROVE k \in Nat /\ m <= k /\ k <= n /\ k <= Len(s)
    <3>1. k \in 1..Len(s) /\ ~(k < m \/ n < k)
      BY <1>1
    <3> QED
      BY <3>1, <1>1
  <2> QED
    BY <2>1
<1>3. kept \in SUBSET Nat /\ kept # {}
  BY <1>2
<1>4. Min(kept) \in kept /\ Min(kept) <= m /\ Max(kept) \in kept /\ n <= Max(kept)
  BY <1>1, <1>2, <1>3, LeastPosition, GreatestPosition
<1>5. Min(kept) = m /\ Max(kept) = n
  <2>1. Min(kept) \in Nat /\ Max(kept) \in Nat /\ m <= Min(kept) /\ Max(kept) <= n
    BY <1>2, <1>4
  <2> HIDE DEF kept
  <2> QED
    BY <1>1, <1>4, <2>1
<1> QED
  BY <1>3, <1>5 DEF Trim

LEMMA NothingToTrim == \A cut : Trim(<<>>, cut) = <<>>
<1>1. DOMAIN <<>> = {}
  BY EmptySeq
<1>2. \A cut : {i \in DOMAIN <<>> : <<>>[i] \notin cut} = {}
  BY <1>1
<1> QED
  BY <1>2 DEF Trim

(* A text that Trim leaves something of begins and ends with kept atoms,   *)
(* and a second Trim leaves it as it is.                                   *)
LEMMA TrimTwice ==
    ASSUME NEW s \in Text, NEW cut
    PROVE  Trim(Trim(s, cut), cut) = Trim(s, cut)
<1>1. PICK p : p = Trim(s, cut)
  OBVIOUS
<1>2. p \in Text /\ (p # <<>> => Len(p) >= 1 /\ p[1] \notin cut /\ p[Len(p)] \notin cut)
  BY <1>1, TrimKeeps
<1>3. CASE p = <<>>
  BY <1>1, <1>3, NothingToTrim
<1>4. CASE p # <<>>
  <2>1. DOMAIN p = 1..Len(p) /\ Len(p) \in Nat
    BY <1>2 DEF Text
  <2>2. 1 \in DOMAIN p /\ Len(p) \in DOMAIN p
    BY <2>1, <1>2, <1>4
  <2>3. \A i \in DOMAIN p : ~(i < 1) /\ ~(Len(p) < i)
    BY <2>1
  <2>4. Trim(p, cut) = SubSeq(p, 1, Len(p))
    BY <1>2, <1>4, <2>2, <2>3, TrimIs
  <2>5. SubSeq(p, 1, Len(p)) = p
    BY <1>2, SubSeqFull DEF Text
  <2> QED
    BY <1>1, <2>4, <2>5
<1> QED
  BY <1>3, <1>4

(* Texts one behind the other are a text.  That the function by which      *)
(* FlattenSeq is defined exists, and that its values are texts, is shown   *)
(* for the least length where it would fail.                               *)
FlattenBy(seqs, n, f) ==
    f = [i \in 1..n |-> IF i = 1 THEN seqs[i] ELSE f[i - 1] \o seqs[i]]

LEMMA FlattenExists ==
    ASSUME NEW seqs, NEW n \in Nat
    PROVE  \E f : FlattenBy(seqs, n, f)
<1> DEFINE Fails == {k \in Nat : ~\E f : FlattenBy(seqs, k, f)}
<1> SUFFICES ASSUME Fails # {} PROVE FALSE
  OBVIOUS
<1>1. Fails \in SUBSET Nat
  OBVIOUS
<1>2. PICK m \in Fails : \A k \in Fails : m <= k
  BY <1>1, LeastPosition
<1>3. m \in Nat /\ ~\E f : FlattenBy(seqs, m, f)
  OBVIOUS
<1>4. m # 0
  <2>1. 1..0 = {}
    OBVIOUS
  <2>2. FlattenBy(seqs, 0, [i \in 1..0 |-> seqs])
    BY <2>1 DEF FlattenBy
  <2> QED
    BY <1>3, <2>2
<1>5. m - 1 \in Nat /\ m - 1 \notin Fails
  BY <1>2, <1>3, <1>4
<1>6. PICK g : FlattenBy(seqs, m - 1, g)
  BY <1>5
<1> DEFINE f == [i \in 1..m |-> IF i < m THEN g[i]
                               ELSE IF i = 1 THEN seqs[i] ELSE g[i - 1] \o seqs[i]]
<1>7. FlattenBy(seqs, m, f)
  <2>1. ASSUME NEW i \in 1..m
        PROVE  f[i] = IF i = 1 THEN seqs[i] ELSE f[i - 1] \o seqs[i]
    <3>1. CASE i < m
      <4>1. i \in 1..(m - 1)
        BY <1>3, <3>1
      <4>2. g[i] = IF i = 1 THEN seqs[i] ELSE g[i - 1] \o seqs[i]
        BY <4>1, <1>6 DEF FlattenBy
      <4>3. i # 1 => i - 1 \in 1..m /\ i - 1 < m
        BY <1>3, <3>1
      <4> QED
        BY <3>1, <4>2, <4>3
    <3>2. CASE i = m
      <4>1. i # 1 => i - 1 \in 1..m /\ i - 1 < m
        BY <1>3, <3>2
      <4> QED
        BY <3>2, <4>1, <1>3
    <3> QED
      BY <1>3, <3>1, <3>2
  <2>2. f = [i \in 1..m |-> f[i]]
    OBVIOUS
  <2> HIDE DEF f
  <2>3. f = [i \in 1..m |-> IF i = 1 THEN seqs[i] ELSE f[i - 1] \o seqs[i]]
    BY <2>1, <2>2
  <2> QED
    BY <2>3 DEF FlattenBy
<1> QED
  BY <1>3, <1>7

LEMMA FlattenStays ==
    ASSUME NEW T, <<>> \in T, \A s, t \in T : s \o t \in T, NEW seqs \in Seq(T)
    PROVE  FlattenSeq(seqs) \in T
<1>1. Len(seqs) \in Nat /\ \A i \in 1..Len(seqs) : seqs[i] \in T
  OBVIOUS
<1>2. CASE Len(seqs) = 0
  <2>1. FlattenSeq(seqs) = seqs
    BY <1>2 DEF FlattenSeq
  <2>2. seqs = <<>>
    BY <1>2, EmptySeq
  <2> QED
    BY <2>1, <2>2
<1>3. CASE Len(seqs) # 0
  <2> DEFINE f == CHOOSE g : g = [i \in 1..Len(seqs) |->
                                   IF i = 1 THEN seqs[i] ELSE g[i - 1] \o seqs[i]]
  <2>1. FlattenSeq(seqs) = f[Len(seqs)]
    BY <1>3 DEF FlattenSeq
  <2>2. \E g : g = [i \in 1..Len(seqs) |-> IF i = 1 THEN seqs[i] ELSE g[i - 1] \o seqs[i]]
    BY <1>1, FlattenExists DEF FlattenBy
  <2>3. f = [i \in 1..Len(seqs) |-> IF i = 1 THEN seqs[i] ELSE f[i - 1] \o seqs[i]]
    BY <2>2
  <2> HIDE DEF f
  <2> DEFINE Fails == {k \in 1..Len(seqs) : f[k] \notin T}
  <2>4. Fails = {}
    <3> SUFFICES ASSUME Fails # {} PROVE FALSE
      OBVIOUS
    <3>1. Fails \in SUBSET Nat
      OBVIOUS
    <3>2. PICK m \in Fails : \A k \in Fails : m <= k
      BY <3>1, LeastPosition
    <3>3. m \in 1..Len(seqs) /\ f[m] \notin T
      OBVIOUS
    <3>4. f[m] = IF m = 1 THEN seqs[m] ELSE f[m - 1] \o seqs[m]
      BY <2>3, <3>3
    <3>5. m # 1
      BY <1>1, <3>3, <3>4
    <3>6. m - 1 \in 1..Len(seqs) /\ m - 1 \notin Fails
      BY <1>1, <3>2, <3>3, <3>5
    <3>7. f[m - 1] \in T /\ seqs[m] \in T
      BY <1>1, <3>3, <3>6
    <3>8. f[m - 1] \o seqs[m] \in T
      BY <3>7
    <3> QED
      BY <3>3, <3>4, <3>5, <3>8
  <2>5. Len(seqs) \in 1..Len(seqs)
    BY <1>1, <1>3
  <2> QED
    BY <2>1, <2>4, <2>5
<1> QED
  BY <1>2, <1>3

LEMMA FlattenIsText ==
    ASSUME NEW seqs \in Seq(Text)
    PROVE  FlattenSeq(seqs) \in Text
<1>1. <<>> \in Text
  BY EmptySeq DEF Text
<1>2. \A s, t \in Text : s \o t \in Text
  BY ConcatProperties DEF Text
<1> QED
  BY <1>1, <1>2, FlattenStays
-----------------------------------------------------------------------------
(* Parts of texts.                                                         *)
LEMMA PartOfText ==
    ASSUME NEW s \in Text, NEW m \in Nat, NEW n \in Nat, 1 <= m, m <= n + 1, n <= Len(s)
    PROVE  /\ SubSeq(s, m, n) \in Text /\ Len(SubSeq(s, m, n)) = n - m + 1
           /\ \A k \in 1..(n - m + 1) : SubSeq(s, m, n)[k] = s[m + k - 1]
<1>1. s \in Seq(Atoms) /\ Len(s) \in Nat
  BY DEF Text
<1>2. \A i \in m..n : s[i] \in Atoms
  <2>1. \A i \in m..n : i \in 1..Len(s)
    BY <1>1
  <2> QED
    BY <1>1, <2>1
<1>3. Len(SubSeq(s, m, n)) = n - m + 1
  <2>1. Len(SubSeq(s, m, n)) = IF m <= n THEN n - m + 1 ELSE 0
    BY <1>2, SubSeqProperties
  <2> QED
    BY <2>1
<1> QED
  BY <1>2, <1>3, SubSeqProperties DEF Text

LEMMA TrimIsPart ==
    ASSUME NEW s \in Text, NEW cut, Trim(s, cut) # <<>>
    PROVE  \E m, n \in 1..Len(s) : m <= n /\ Trim(s, cut) = SubSeq(s, m, n)
<1> DEFINE kept == {i \in DOMAIN s : s[i] \notin cut}
<1>1. DOMAIN s = 1..Len(s) /\ Len(s) \in Nat
  BY DEF Text
<1>2. kept # {} /\ Trim(s, cut) = SubSeq(s, Min(kept), Max(kept))
  BY DEF Trim
<1>3. kept \in SUBSET Nat /\ \A k \in kept : k \in 1..Len(s) /\ k <= Len(s)
  BY <1>1
<1>4. Min(kept) \in kept /\ Max(kept) \in kept /\ Min(kept) <= Max(kept)
  BY <1>1, <1>2, <1>3, LeastPosition, GreatestPosition
<1> QED
  BY <1>2, <1>3, <1>4
-----------------------------------------------------------------------------
(* Induction for a set: what holds of 0, and of n + 1 where it holds of n, *)
(* holds of every number; the same for sequences.                          *)
LEMMA EveryNumber ==
    ASSUME NEW P, 0 \in P, \A n \in Nat : n \in P => n + 1 \in P
    PROVE  Nat \subseteq P
<1> DEFINE S == Nat \ P
<1> SUFFICES ASSUME S # {} PROVE FALSE
  OBVIOUS
<1>1. S \in SUBSET Nat
  OBVIOUS
<1>2. PICK m \in S : \A k \in S : m <= k
  BY <1>1, LeastPosition
<1>3. m \in Nat /\ m # 0 /\ m \notin P
  OBVIOUS
<1>4. m - 1 \in Nat /\ m - 1 \notin S
  BY <1>2, <1>3
<1>5. m - 1 + 1 = m
  BY <1>3
<1> QED
  BY <1>3, <1>4, <1>5

LEMMA FrontAndLast ==
    ASSUME NEW T, NEW s \in Seq(T), Len(s) # 0
    PROVE  \E r \in Seq(T) : \E x \in T : Len(s) = Len(r) + 1 /\ s = Append(r, x)
<1>1. PICK n \in Nat : Len(s) = n + 1
  <2>1. Len(s) - 1 \in Nat /\ Len(s) = (Len(s) - 1) + 1
    OBVIOUS
  <2> QED
    BY <2>1
<1> DEFINE r == [i \in 1..n |-> s[i]]
           x == s[n + 1]
<1>2. r \in Seq(T) /\ Len(r) = n /\ x \in T
  BY <1>1
<1>3. s = Append(r, x)
  <2>1. Append(r, x) \in Seq(T) /\ Len(Append(r, x)) = n + 1
    BY <1>2
  <2>2. \A i \in 1..(n + 1) : Append(r, x)[i] = s[i]
    BY <1>2
  <2> HIDE DEF r, x
  <2> QED
    BY <1>1, <2>1, <2>2, SeqEqual
<1> QED
  BY <1>1, <1>2, <1>3

LEMMA EverySequence ==
    ASSUME NEW T, NEW P, <<>> \in P,
           \A s \in Seq(T) : \A x \in T : s \in P => Append(s, x) \in P
    PROVE  Seq(T) \subseteq P
<1> DEFINE L == {n \in Nat : \A s \in Seq(T) : Len(s) = n => s \in P}
<1>1. 0 \in L
  BY EmptySeq
<1>2. ASSUME NEW n \in Nat, n \in L PROVE n + 1 \in L
  <2>1. ASSUME NEW s \in Seq(T), Len(s) = n + 1 PROVE s \in P
    <3>1. Len(s) # 0
      BY <2>1
    <3>2. \E r \in Seq(T) : \E x \in T : Len(s) = Len(r) + 1 /\ s = Append(r, x)
      BY <3>1, FrontAndLast
    <3>3. PICK r \in Seq(T), x \in T : Len(s) = Len(r) + 1 /\ s = Append(r, x)
      BY <3>2
    <3>4. Len(r) = n
      BY <2>1, <3>3
    <3> QED
      BY <3>3, <3>4, <1>2
  <2> QED
    BY <2>1
<1> HIDE DEF L
<1>3. Nat \subseteq L
  BY <1>1, <1>2, EveryNumber
<1>4. ASSUME NEW s \in Seq(T) PROVE s \in P
  <2>1. Len(s) \in L
    BY <1>3
  <2> QED
    BY <2>1 DEF L
<1> QED
  BY <1>4
-----------------------------------------------------------------------------
(* What Keep collects.                                                     *)
KeptBy(s, S, n, f) ==
    f = [i \in 0..n |-> IF i = 0 THEN <<>>
                        ELSE IF s[i] \in S THEN Append(f[i - 1], s[i]) ELSE f[i - 1]]

LEMMA KeptExists ==
    ASSUME NEW s, NEW S
    PROVE  \A n \in Nat : \E f : KeptBy(s, S, n, f)
<1> DEFINE P == {n \in Nat : \E f : KeptBy(s, S, n, f)}
<1>1. 0 \in P
  <2>1. KeptBy(s, S, 0, [i \in 0..0 |-> <<>>])
    BY DEF KeptBy
  <2> QED
    BY <2>1
<1>2. ASSUME NEW n \in Nat, n \in P PROVE n + 1 \in P
  <2>1. PICK g : KeptBy(s, S, n, g)
    BY <1>2
  <2> DEFINE f == [i \in 0..(n + 1) |->
                     IF i <= n THEN g[i]
                     ELSE IF s[i] \in S THEN Append(g[i - 1], s[i]) ELSE g[i - 1]]
  <2>2. ASSUME NEW i \in 0..(n + 1)
        PROVE  f[i] = IF i = 0 THEN <<>>
                      ELSE IF s[i] \in S THEN Append(f[i - 1], s[i]) ELSE f[i - 1]
    <3>1. i # 0 => i - 1 \in 0..(n + 1) /\ i - 1 <= n
      OBVIOUS
    <3>2. i # 0 => f[i - 1] = g[i - 1]
      BY <3>1
    <3>3. CASE i <= n
      <4>1. i \in 0..n
        BY <3>3
      <4>2. g[i] = IF i = 0 THEN <<>>
                   ELSE IF s[i] \in S THEN Append(g[i - 1], s[i]) ELSE g[i - 1]
        BY <2>1, <4>1 DEF KeptBy
      <4>3. f[i] = g[i]
        BY <3>3
      <4> HIDE DEF f
      <4> QED
        BY <3>2, <4>2, <4>3
    <3>4. CASE ~(i <= n)
      <4>1. f[i] = IF s[i] \in S THEN Append(g[i - 1], s[i]) ELSE g[i - 1]
        BY <3>4
      <4>2. i # 0
        BY <3>4
      <4> HIDE DEF f
      <4> QED
        BY <3>2, <4>1, <4>2
    <3> QED
      BY <3>3, <3>4
  <2>3. f = [i \in 0..(n + 1) |-> f[i]]
    OBVIOUS
  <2> HIDE DEF f
  <2>4. f = [i \in 0..(n + 1) |->
                IF i = 0 THEN <<>>
                ELSE IF s[i] \in S THEN Append(f[i - 1], s[i]) ELSE f[i - 1]]
    BY <2>2, <2>3
  <2>5. KeptBy(s, S, n + 1, f)
    BY <2>4 DEF KeptBy
  <2> QED
    BY <2>5
<1> HIDE DEF P
<1>3. Nat \subseteq P
  BY <1>1, <1>2, EveryNumber
<1> QED
  BY <1>3 DEF P

LEMMA KeepIs ==
    ASSUME NEW s, NEW S, Len(s) \in Nat
    PROVE  \E f : KeptBy(s, S, Len(s), f) /\ Keep(s, S) = f[Len(s)]
<1> DEFINE f == CHOOSE g : g = [i \in 0..Len(s) |->
                    IF i = 0 THEN <<>>
                    ELSE IF s[i] \in S THEN Append(g[i - 1], s[i]) ELSE g[i - 1]]
<1>1. \E g : g = [i \in 0..Len(s) |->
                    IF i = 0 THEN <<>>
                    ELSE IF s[i] \in S THEN Append(g[i - 1], s[i]) ELSE g[i - 1]]
  <2>1. \E g : KeptBy(s, S, Len(s), g)
    BY KeptExists, SMTT(40)
  <2> QED
    BY <2>1 DEF KeptBy
<1>2. f = [i \in 0..Len(s) |->
                    IF i = 0 THEN <<>>
                    ELSE IF s[i] \in S THEN Append(f[i - 1], s[i]) ELSE f[i - 1]]
  BY <1>1
<1>3. Keep(s, S) = f[Len(s)]
  BY DEF Keep
<1> HIDE DEF f
<1> QED
  BY <1>2, <1>3 DEF KeptBy

LEMMA KeepNothing == \A S : Keep(<<>>, S) = <<>>
<1> SUFFICES ASSUME NEW S PROVE Keep(<<>>, S) = <<>>
  OBVIOUS
<1>1. Len(<<>>) = 0
  BY EmptySeq
<1>2. PICK f : KeptBy(<<>>, S, 0, f) /\ Keep(<<>>, S) = f[0]
  BY <1>1, KeepIs
<1> QED
  BY <1>2 DEF KeptBy

(* The equation of the loop.                                               *)
LEMMA KeepNext ==
    ASSUME NEW T, NEW s \in Seq(T), NEW x \in T, NEW S
    PROVE  Keep(Append(s, x), S) = IF x \in S THEN Append(Keep(s, S), x) ELSE Keep(s, S)
<1> DEFINE t == Append(s, x)
<1>1. /\ Len(s) \in Nat /\ Len(t) = Len(s) + 1 /\ t[Len(s) + 1] = x
      /\ \A i \in 1..Len(s) : t[i] = s[i]
  OBVIOUS
<1> HIDE DEF t
<1>2. PICK f : KeptBy(s, S, Len(s), f) /\ Keep(s, S) = f[Len(s)]
  BY <1>1, KeepIs
<1>3. PICK g : KeptBy(t, S, Len(t), g) /\ Keep(t, S) = g[Len(t)]
  BY <1>1, KeepIs
<1> DEFINE P == {n \in Nat : n <= Len(s) => f[n] = g[n]}
<1>4. 0 \in P
  <2>1. 0 \in 0..Len(s) /\ 0 \in 0..Len(t)
    BY <1>1
  <2> QED
    BY <2>1, <1>2, <1>3 DEF KeptBy
<1>5. ASSUME NEW n \in Nat, n \in P PROVE n + 1 \in P
  <2> SUFFICES ASSUME n + 1 <= Len(s) PROVE f[n + 1] = g[n + 1]
    OBVIOUS
  <2>1. PICK m : m = n + 1
    OBVIOUS
  <2>2. /\ m \in 0..Len(s) /\ m \in 0..Len(t) /\ m # 0
        /\ m - 1 = n /\ n <= Len(s) /\ m \in 1..Len(s)
    BY <1>1, <2>1
  <2>3. f[m] = IF s[m] \in S THEN Append(f[m - 1], s[m]) ELSE f[m - 1]
    BY <2>2, <1>2 DEF KeptBy
  <2>4. g[m] = IF t[m] \in S THEN Append(g[m - 1], t[m]) ELSE g[m - 1]
    BY <2>2, <1>3 DEF KeptBy
  <2>5. f[n] = g[n] /\ t[m] = s[m]
    BY <1>5, <2>2, <1>1
  <2> QED
    BY <2>1, <2>2, <2>3, <2>4, <2>5
<1> HIDE DEF P
<1>6. Nat \subseteq P
  BY <1>4, <1>5, EveryNumber
<1>7. f[Len(s)] = g[Len(s)]
  BY <1>1, <1>6 DEF P
<1>8. g[Len(t)] = IF x \in S THEN Append(g[Len(s)], x) ELSE g[Len(s)]
  <2>1. Len(t) \in 0..Len(t) /\ Len(t) # 0 /\ Len(t) - 1 = Len(s) /\ t[Len(t)] = x
    BY <1>1
  <2> QED
    BY <2>1, <1>3 DEF KeptBy
<1> QED
  BY <1>2, <1>3, <1>7, <1>8 DEF t

LEMMA KeepTyped ==
    ASSUME NEW T, NEW S
    PROVE  \A s \in Seq(T) : Keep(s, S) \in Seq(S \cap T)
<1> DEFINE P == {s \in Seq(T) : Keep(s, S) \in Seq(S \cap T)}
<1>1. <<>> \in P
  BY KeepNothing, EmptySeq
<1>2. ASSUME NEW s \in Seq(T), NEW x \in T, s \in P PROVE Append(s, x) \in P
  <2>1. Append(s, x) \in Seq(T)
    OBVIOUS
  <2>2. Keep(Append(s, x), S) = IF x \in S THEN Append(Keep(s, S), x) ELSE Keep(s, S)
    BY KeepNext
  <2>3. x \in S => Append(Keep(s, S), x) \in Seq(S \cap T)
    BY <1>2
  <2> QED
    BY <1>2, <2>1, <2>2, <2>3
<1> HIDE DEF P
<1>3. Seq(T) \subseteq P
  BY <1>1, <1>2, EverySequence
<1> QED
  BY <1>3 DEF P

LEMMA KeepAll ==
    ASSUME NEW T, NEW S, T \subseteq S
    PROVE  \A s \in Seq(T) : Keep(s, S) = s
<1> DEFINE P == {s \in Seq(T) : Keep(s, S) = s}
<1>1. <<>> \in P
  BY KeepNothing, EmptySeq
<1>2. ASSUME NEW s \in Seq(T), NEW x \in T, s \in P PROVE Append(s, x) \in P
  <2>1. Append(s, x) \in Seq(T)
    OBVIOUS
  <2>2. Keep(Append(s, x), S) = Append(Keep(s, S), x)
    BY KeepNext
  <2> QED
    BY <1>2, <2>1, <2>2
<1> HIDE DEF P
<1>3. Seq(T) \subseteq P
  BY <1>1, <1>2, EverySequence
<1> QED
  BY <1>3 DEF P

LEMMA KeepNone ==
    ASSUME NEW T, NEW S, S \cap T = {}
    PROVE  \A s \in Seq(T) : Keep(s, S) = <<>>
<1>1. \A s \in Seq(T) : Keep(s, S) \in Seq({})
  BY KeepTyped
<1>2. \A r \in Seq({}) : r = <<>>
  BY EmptySeq
<1> QED
  BY <1>1, <1>2

LEMMA AppendBehind ==
    ASSUME NEW T, NEW a \in Seq(T), NEW b \in Seq(T), NEW x \in T
    PROVE  a \o Append(b, x) = Append(a \o b, x)
OBVIOUS

LEMMA KeepConcat ==
    ASSUME NEW T, NEW S, NEW s \in Seq(T)
    PROVE  \A t \in Seq(T) : Keep(s \o t, S) = Keep(s, S) \o Keep(t, S)
<1> DEFINE P == {t \in Seq(T) : Keep(s \o t, S) = Keep(s, S) \o Keep(t, S)}
<1>1. <<>> \in P
  <2>1. s \o <<>> = s
    OBVIOUS
  <2>2. Keep(s, S) \in Seq(S \cap T)
    BY KeepTyped
  <2>3. Keep(s, S) \o <<>> = Keep(s, S)
    BY <2>2
  <2>4. <<>> \in Seq(T)
    OBVIOUS
  <2> QED
    BY <2>1, <2>3, <2>4, KeepNothing
<1>2. ASSUME NEW t \in Seq(T), NEW x \in T, t \in P PROVE Append(t, x) \in P
  <2>1. Append(t, x) \in Seq(T) /\ s \o t \in Seq(T)
    OBVIOUS
  <2>2. s \o Append(t, x) = Append(s \o t, x)
    BY AppendBehind
  <2>3. Keep(Append(s \o t, x), S)
          = IF x \in S THEN Append(Keep(s \o t, S), x) ELSE Keep(s \o t, S)
    BY <2>1, KeepNext
  <2>4. Keep(Append(t, x), S) = IF x \in S THEN Append(Keep(t, S), x) ELSE Keep(t, S)
    BY KeepNext
  <2>5. Keep(s, S) \in Seq(S \cap T) /\ Keep(t, S) \in Seq(S \cap T)
    BY KeepTyped
  <2>6. x \in S => Keep(s, S) \o Append(Keep(t, S), x) = Append(Keep(s, S) \o Keep(t, S), x)
    BY <2>5, AppendBehind
  <2>7. Keep(s \o t, S) = Keep(s, S) \o Keep(t, S)
    BY <1>2
  <2>8. Keep(s \o Append(t, x), S) = Keep(s, S) \o Keep(Append(t, x), S)
    <3>1. CASE x \in S
      BY <3>1, <2>2, <2>3, <2>4, <2>6, <2>7
    <3>2. CASE x \notin S
      BY <3>2, <2>2, <2>3, <2>4, <2>7
    <3> QED
      BY <3>1, <3>2
  <2> QED
    BY <2>1, <2>8
<1> HIDE DEF P
<1>3. Seq(T) \subseteq P
  BY <1>1, <1>2, EverySequence
<1> QED
  BY <1>3 DEF P

LEMMA RangeOfAppend ==
    ASSUME NEW T, NEW s \in Seq(T), NEW x \in T
    PROVE  Range(Append(s, x)) = Range(s) \cup {x}
<1> DEFINE t == Append(s, x)
<1>1. /\ DOMAIN s = 1..Len(s) /\ DOMAIN t = 1..(Len(s) + 1) /\ Len(s) \in Nat
      /\ t[Len(s) + 1] = x /\ \A i \in 1..Len(s) : t[i] = s[i]
  OBVIOUS
<1> HIDE DEF t
<1>2. \A i \in 1..(Len(s) + 1) : i \in 1..Len(s) \/ i = Len(s) + 1
  BY <1>1
<1>3. Range(t) = Range(s) \cup {x}
  BY <1>1, <1>2 DEF Range
<1> QED
  BY <1>3 DEF t

LEMMA KeepRange ==
    ASSUME NEW T, NEW S
    PROVE  \A s \in Seq(T) : Range(Keep(s, S)) = S \cap Range(s)
<1> DEFINE P == {s \in Seq(T) : Range(Keep(s, S)) = S \cap Range(s)}
<1>1. <<>> \in P
  <2>1. Range(<<>>) = {} /\ <<>> \in Seq(T)
    BY DEF Range
  <2> QED
    BY <2>1, KeepNothing
<1>2. ASSUME NEW s \in Seq(T), NEW x \in T, s \in P PROVE Append(s, x) \in P
  <2>1. Append(s, x) \in Seq(T)
    OBVIOUS
  <2>2. Keep(Append(s, x), S) = IF x \in S THEN Append(Keep(s, S), x) ELSE Keep(s, S)
    BY KeepNext
  <2>3. Range(Append(s, x)) = Range(s) \cup {x}
    BY RangeOfAppend
  <2>4. x \in S => Range(Append(Keep(s, S), x)) = Range(Keep(s, S)) \cup {x}
    <3>1. Keep(s, S) \in Seq(S \cap T)
      BY KeepTyped
    <3>2. \A r \in Seq(S \cap T) : \A y \in S \cap T : Range(Append(r, y)) = Range(r) \cup {y}
      BY RangeOfAppend
    <3> QED
      BY <3>1, <3>2
  <2>5. Range(Keep(s, S)) = S \cap Range(s)
    BY <1>2
  <2> HIDE DEF P
  <2>6. Range(Keep(Append(s, x), S)) = S \cap Range(Append(s, x))
    <3>1. CASE x \in S
      BY <3>1, <2>2, <2>3, <2>4, <2>5
    <3>2. CASE x \notin S
      BY <3>2, <2>2, <2>3, <2>5
    <3> QED
      BY <3>1, <3>2
  <2> QED
    BY <2>1, <2>6 DEF P
<1> HIDE DEF P
<1>3. Seq(T) \subseteq P
  BY <1>1, <1>2, EverySequence
<1> QED
  BY <1>3 DEF P
-----------------------------------------------------------------------------
(* What is cut off at the ends of a text is not kept anyway.               *)
LEMMA PartCut ==
    ASSUME NEW s \in Text, NEW cut, NEW S, S \cap cut = {},
           NEW m \in 1..(Len(s) + 1), NEW n \in 0..Len(s), m <= n + 1,
           \A i \in m..n : s[i] \in cut
    PROVE  SubSeq(s, m, n) \in Text /\ Keep(SubSeq(s, m, n), S) = <<>>
<1>1. Len(s) \in Nat /\ m \in Nat /\ n \in Nat /\ 1 <= m /\ n <= Len(s)
  BY DEF Text
<1>2. PICK p : p = SubSeq(s, m, n)
  OBVIOUS
<1>3. p \in Text /\ Len(p) = n - m + 1 /\ \A k \in 1..(n - m + 1) : p[k] = s[m + k - 1]
  BY <1>1, <1>2, PartOfText
<1>4. \A k \in 1..Len(p) : p[k] \in cut
  <2>1. \A k \in 1..(n - m + 1) : m + k - 1 \in m..n
    BY <1>1
  <2> QED
    BY <1>3, <2>1
<1>5. p \in Seq(cut)
  BY <1>3, <1>4 DEF Text
<1>6. Keep(p, S) = <<>>
  BY <1>5, KeepNone
<1> QED
  BY <1>2, <1>3, <1>6

LEMMA KeepTrimmed ==
    ASSUME NEW s \in Text, NEW cut, NEW S, S \cap cut = {}
    PROVE  Keep(Trim(s, cut), S) = Keep(s, S)
<1> DEFINE kept == {i \in DOMAIN s : s[i] \notin cut}
           m == Min(kept)
           n == Max(kept)
<1>1. s \in Seq(Atoms) /\ DOMAIN s = 1..Len(s) /\ Len(s) \in Nat
  BY DEF Text
<1>2. CASE kept = {}
  <2>1. \A i \in 1..Len(s) : s[i] \in cut
    BY <1>1, <1>2
  <2>2. s \in Seq(cut)
    BY <1>1, <2>1
  <2>3. Keep(s, S) = <<>>
    BY <2>2, KeepNone
  <2>4. Trim(s, cut) = <<>>
    BY <1>2 DEF Trim
  <2> QED
    BY <2>3, <2>4, KeepNothing
<1>3. CASE kept # {}
  <2>1. kept \in SUBSET Nat /\ \A k \in kept : k <= Len(s)
    BY <1>1
  <2>2. m \in kept /\ n \in kept /\ m <= n
        /\ \A k \in kept : m <= k /\ k <= n
    BY <2>1, <1>1, <1>3, LeastPosition, GreatestPosition
  <2>3. Trim(s, cut) = SubSeq(s, m, n)
    BY <1>3 DEF Trim
  <2>4. \A i \in 1..Len(s) : s[i] \notin cut => m <= i /\ i <= n
    BY <1>1, <2>2
  <2>5. m \in 1..Len(s) /\ n \in 1..Len(s)
    BY <1>1, <2>2
  <2> HIDE DEF kept, m, n
  <2>6. PICK a \in Int, b \in Int : a = m - 1 /\ b = n + 1
    BY <2>5
  <2>7. /\ a \in 0..Len(s) /\ 1 \in 1..(Len(s) + 1) /\ 1 <= a + 1 /\ a + 1 = m
        /\ b \in 1..(Len(s) + 1) /\ Len(s) \in 0..Len(s) /\ b <= Len(s) + 1
    BY <1>1, <2>5, <2>6
  <2>8. \A i \in 1..a : s[i] \in cut
    <3>1. \A i \in 1..a : i \in 1..Len(s) /\ ~(m <= i)
      BY <1>1, <2>5, <2>6
    <3> QED
      BY <2>4, <3>1
  <2>9. \A i \in b..Len(s) : s[i] \in cut
    <3>1. \A i \in b..Len(s) : i \in 1..Len(s) /\ ~(i <= n)
      BY <1>1, <2>5, <2>6
    <3> QED
      BY <2>4, <3>1
  <2>10. PICK x : x = SubSeq(s, 1, a)
    OBVIOUS
  <2>11. PICK y : y = SubSeq(s, m, n)
    OBVIOUS
  <2>12. PICK z : z = SubSeq(s, b, Len(s))
    OBVIOUS
  <2>13. x \in Text /\ Keep(x, S) = <<>>
    BY <2>7, <2>8, <2>10, PartCut
  <2>14. z \in Text /\ Keep(z, S) = <<>>
    BY <2>7, <2>9, <2>12, PartCut
  <2>15. y \in Text
    BY <1>1, <2>2, <2>5, <2>11, PartOfText
  <2>16. s = (x \o y) \o z
    <3>1. SubSeq(s, 1, a) \o SubSeq(s, a + 1, n) = SubSeq(s, 1, n)
      <4>1. 1 \in 1..(Len(s) + 1) /\ a \in (1 - 1)..Len(s) /\ n \in a..Len(s)
        BY <1>1, <2>2, <2>5, <2>6
      <4> QED
        BY <1>1, <4>1, ConcatAdjacentSubSeq
    <3>2. SubSeq(s, 1, n) \o SubSeq(s, n + 1, Len(s)) = SubSeq(s, 1, Len(s))
      <4>1. 1 \in 1..(Len(s) + 1) /\ n \in (1 - 1)..Len(s) /\ Len(s) \in n..Len(s)
        BY <1>1, <2>5
      <4> QED
        BY <1>1, <4>1, ConcatAdjacentSubSeq
    <3>3. SubSeq(s, 1, Len(s)) = s
      BY <1>1, SubSeqFull
    <3> QED
      BY <2>6, <2>7, <2>10, <2>11, <2>12, <3>1, <3>2, <3>3
  <2>17. x \o y \in Text
    BY <2>13, <2>15, ConcatProperties DEF Text
  <2>18. Keep(s, S) = (Keep(x, S) \o Keep(y, S)) \o Keep(z, S)
    <3>1. Keep(s, S) = Keep(x \o y, S) \o Keep(z, S)
      BY <2>14, <2>16, <2>17, KeepConcat, ZenonT(40) DEF Text
    <3>2. Keep(x \o y, S) = Keep(x, S) \o Keep(y, S)
      BY <2>13, <2>15, KeepConcat, ZenonT(40) DEF Text
    <3> QED
      BY <3>1, <3>2
  <2>19. Keep(y, S) \in Seq(S \cap Atoms)
    BY <2>15, KeepTyped DEF Text
  <2>20. (<<>> \o Keep(y, S)) \o <<>> = Keep(y, S)
    BY <2>19
  <2> QED
    BY <2>3, <2>11, <2>13, <2>14, <2>18, <2>20
<1> QED
  BY <1>2, <1>3

(* Texts that keep the same one by one keep the same behind one another.   *)
LEMMA FlattenIs ==
    ASSUME NEW seqs, Len(seqs) \in Nat, Len(seqs) # 0
    PROVE  \E f : FlattenBy(seqs, Len(seqs), f) /\ FlattenSeq(seqs) = f[Len(seqs)]
<1> DEFINE f == CHOOSE g : g = [i \in 1..Len(seqs) |->
                                 IF i = 1 THEN seqs[i] ELSE g[i - 1] \o seqs[i]]
<1>1. FlattenSeq(seqs) = f[Len(seqs)]
  BY DEF FlattenSeq
<1>2. \E g : g = [i \in 1..Len(seqs) |-> IF i = 1 THEN seqs[i] ELSE g[i - 1] \o seqs[i]]
  BY FlattenExists DEF FlattenBy
<1>3. f = [i \in 1..Len(seqs) |-> IF i = 1 THEN seqs[i] ELSE f[i - 1] \o seqs[i]]
  BY <1>2
<1> HIDE DEF f
<1> QED
  BY <1>1, <1>3 DEF FlattenBy

LEMMA FlattenNothing == \A seqs : Len(seqs) = 0 => FlattenSeq(seqs) = seqs
BY DEF FlattenSeq

LEMMA KeepFlattened ==
    ASSUME NEW T, NEW S, NEW a \in Seq(Seq(T)), NEW b \in Seq(Seq(T)), Len(a) = Len(b),
           \A i \in 1..Len(a) : Keep(a[i], S) = Keep(b[i], S)
    PROVE  Keep(FlattenSeq(a), S) = Keep(FlattenSeq(b), S)
<1>1. PICK l \in Nat : l = Len(a)
  OBVIOUS
<1>2. Len(b) = l /\ \A i \in 1..l : a[i] \in Seq(T) /\ b[i] \in Seq(T)
  BY <1>1
<1>3. CASE l = 0
  <2>1. a = <<>> /\ b = <<>>
    BY <1>1, <1>3, EmptySeq
  <2> QED
    BY <2>1
<1>4. CASE l # 0
  <2>1. PICK f : FlattenBy(a, l, f) /\ FlattenSeq(a) = f[l]
    BY <1>1, <1>4, FlattenIs
  <2>2. PICK g : FlattenBy(b, l, g) /\ FlattenSeq(b) = g[l]
    BY <1>1, <1>2, <1>4, FlattenIs
  <2> DEFINE P == {n \in Nat : n + 1 <= l =>
                      /\ f[n + 1] \in Seq(T) /\ g[n + 1] \in Seq(T)
                      /\ Keep(f[n + 1], S) = Keep(g[n + 1], S)}
  <2>3. 0 \in P
    <3>1. 1 \in 1..l /\ 0 + 1 = 1
      BY <1>4
    <3>2. f[1] = a[1] /\ g[1] = b[1]
      BY <2>1, <2>2, <3>1 DEF FlattenBy
    <3> QED
      BY <1>1, <1>2, <3>1, <3>2
  <2>4. ASSUME NEW n \in Nat, n \in P PROVE n + 1 \in P
    <3> SUFFICES ASSUME (n + 1) + 1 <= l
                 PROVE  /\ f[(n + 1) + 1] \in Seq(T) /\ g[(n + 1) + 1] \in Seq(T)
                        /\ Keep(f[(n + 1) + 1], S) = Keep(g[(n + 1) + 1], S)
      OBVIOUS
    <3>1. PICK k : k = n + 1
      OBVIOUS
    <3>2. PICK j : j = k + 1
      OBVIOUS
    <3>3. j \in 1..l /\ j # 1 /\ j - 1 = k /\ k + 1 <= l /\ n + 1 <= l /\ k \in 1..l
      BY <3>1, <3>2
    <3>4. f[k] \in Seq(T) /\ g[k] \in Seq(T) /\ Keep(f[k], S) = Keep(g[k], S)
      BY <2>4, <3>1, <3>3
    <3> HIDE DEF P
    <3>5. f[j] = f[k] \o a[j] /\ g[j] = g[k] \o b[j]
      BY <2>1, <2>2, <3>3 DEF FlattenBy
    <3>6. a[j] \in Seq(T) /\ b[j] \in Seq(T) /\ Keep(a[j], S) = Keep(b[j], S)
      BY <1>1, <1>2, <3>3
    <3>7. /\ Keep(f[k] \o a[j], S) = Keep(f[k], S) \o Keep(a[j], S)
          /\ Keep(g[k] \o b[j], S) = Keep(g[k], S) \o Keep(b[j], S)
      BY <3>4, <3>6, KeepConcat, ZenonT(40)
    <3>8. f[k] \o a[j] \in Seq(T) /\ g[k] \o b[j] \in Seq(T)
      BY <3>4, <3>6
    <3>9. f[j] \in Seq(T) /\ g[j] \in Seq(T) /\ Keep(f[j], S) = Keep(g[j], S)
      BY <3>4, <3>5, <3>6, <3>7, <3>8
    <3> QED
      BY <3>1, <3>2, <3>9
  <2> HIDE DEF P
  <2>5. Nat \subseteq P
    BY <2>3, <2>4, EveryNumber
  <2>6. PICK n \in Nat : n + 1 = l
    <3>1. l - 1 \in Nat /\ (l - 1) + 1 = l
      BY <1>4
    <3> QED
      BY <3>1
  <2>7. Keep(f[l], S) = Keep(g[l], S)
    <3>1. n \in P /\ n + 1 <= l
      BY <2>5, <2>6
    <3>2. Keep(f[n + 1], S) = Keep(g[n + 1], S)
      BY <3>1 DEF P
    <3> QED
      BY <2>6, <3>2
  <2> QED
    BY <2>1, <2>2, <2>7
<1> QED
  BY <1>3, <1>4

(* Behind the first there is nothing.                                      *)
LEMMA FlattenFirst ==
    ASSUME NEW seqs \in Seq(Text), Len(seqs) # 0, \A i \in 2..Len(seqs) : seqs[i] = <<>>
    PROVE  FlattenSeq(seqs) = seqs[1]
<1>1. PICK l \in Nat : l = Len(seqs)
  OBVIOUS
<1>2. PICK x : x = seqs[1]
  OBVIOUS
<1>3. x \in Text /\ 1 \in 1..l
  BY <1>1, <1>2
<1>4. PICK f : FlattenBy(seqs, l, f) /\ FlattenSeq(seqs) = f[l]
  BY <1>1, FlattenIs
<1>5. x \o <<>> = x
  BY <1>3 DEF Text
<1> DEFINE P == {n \in Nat : n + 1 <= l => f[n + 1] = x}
<1>6. 0 \in P
  <2>1. f[1] = x
    BY <1>2, <1>3, <1>4 DEF FlattenBy
  <2> QED
    BY <2>1
<1>7. ASSUME NEW n \in Nat, n \in P PROVE n + 1 \in P
  <2> SUFFICES ASSUME (n + 1) + 1 <= l PROVE f[(n + 1) + 1] = x
    OBVIOUS
  <2>1. PICK k : k = n + 1
    OBVIOUS
  <2>2. PICK j : j = k + 1
    OBVIOUS
  <2>3. j \in 1..l /\ j \in 2..l /\ j # 1 /\ j - 1 = k /\ n + 1 <= l
    BY <2>1, <2>2
  <2>4. f[k] = x
    BY <1>7, <2>1, <2>3
  <2> HIDE DEF P
  <2>5. f[j] = f[k] \o seqs[j]
    BY <1>4, <2>3 DEF FlattenBy
  <2>6. seqs[j] = <<>>
    BY <1>1, <2>3
  <2> QED
    BY <1>5, <2>1, <2>2, <2>4, <2>5, <2>6
<1> HIDE DEF P
<1>8. Nat \subseteq P
  BY <1>6, <1>7, EveryNumber
<1>9. PICK n \in Nat : n + 1 = l
  <2>1. l - 1 \in Nat /\ (l - 1) + 1 = l
    BY <1>1
  <2> QED
    BY <2>1
<1>10. f[l] = x
  BY <1>8, <1>9, SMTT(40) DEF P
<1> QED
  BY <1>2, <1>4, <1>10
-----------------------------------------------------------------------------
(* Split gives a sequence of texts, at least one.                          *)
SplitBy(s, sep, n, f) ==
    f = [i \in 0..n |-> IF i = 0 THEN << <<>> >>
                        ELSE IF s[i] = sep THEN Append(f[i - 1], <<>>)
                        ELSE [f[i - 1] EXCEPT ![Len(f[i - 1])] = Append(@, s[i])]]

LEMMA SplitExists ==
    ASSUME NEW s, NEW sep
    PROVE  \A n \in Nat : \E f : SplitBy(s, sep, n, f)
<1> DEFINE P == {n \in Nat : \E f : SplitBy(s, sep, n, f)}
           Step(before, x) == IF x = sep THEN Append(before, <<>>)
                              ELSE [before EXCEPT ![Len(before)] = Append(@, x)]
<1> HIDE DEF Step
<1>1. 0 \in P
  <2>1. SplitBy(s, sep, 0, [i \in 0..0 |-> << <<>> >>])
    BY DEF SplitBy
  <2> QED
    BY <2>1
<1>2. ASSUME NEW n \in Nat, n \in P PROVE n + 1 \in P
  <2>1. PICK g : SplitBy(s, sep, n, g)
    BY <1>2
  <2>2. g = [i \in 0..n |-> IF i = 0 THEN << <<>> >> ELSE Step(g[i - 1], s[i])]
    BY <2>1 DEF SplitBy, Step
  <2> DEFINE f == [i \in 0..(n + 1) |-> IF i <= n THEN g[i] ELSE Step(g[i - 1], s[i])]
  <2>3. ASSUME NEW i \in 0..(n + 1)
        PROVE  f[i] = IF i = 0 THEN << <<>> >> ELSE Step(f[i - 1], s[i])
    <3>1. i # 0 => i - 1 \in 0..(n + 1) /\ i - 1 <= n
      OBVIOUS
    <3>2. i # 0 => f[i - 1] = g[i - 1]
      BY <3>1
    <3>3. CASE i <= n
      <4>1. i \in 0..n /\ f[i] = g[i]
        BY <3>3
      <4> HIDE DEF f
      <4> QED
        BY <3>2, <4>1, <2>2
    <3>4. CASE ~(i <= n)
      <4>1. f[i] = Step(g[i - 1], s[i]) /\ i # 0
        BY <3>4
      <4> HIDE DEF f
      <4> QED
        BY <3>2, <4>1
    <3> QED
      BY <3>3, <3>4
  <2>4. f = [i \in 0..(n + 1) |-> f[i]]
    OBVIOUS
  <2> HIDE DEF f
  <2>5. f = [i \in 0..(n + 1) |-> IF i = 0 THEN << <<>> >> ELSE Step(f[i - 1], s[i])]
    BY <2>3, <2>4, SMTT(40)
  <2>6. SplitBy(s, sep, n + 1, f)
    BY <2>5 DEF SplitBy, Step
  <2> QED
    BY <2>6
<1> HIDE DEF P
<1>3. Nat \subseteq P
  BY <1>1, <1>2, EveryNumber
<1> QED
  BY <1>3 DEF P

LEMMA LastReplaced ==
    ASSUME NEW T, NEW parts \in Seq(T), Len(parts) >= 1, NEW t \in T
    PROVE  /\ [parts EXCEPT ![Len(parts)] = t] \in Seq(T)
           /\ Len([parts EXCEPT ![Len(parts)] = t]) = Len(parts)
OBVIOUS

LEMMA SplitTyped ==
    ASSUME NEW s \in Text, NEW sep
    PROVE  Split(s, sep) \in Seq(Text) /\ Len(Split(s, sep)) >= 1
<1> DEFINE f == CHOOSE g : g = [i \in 0..Len(s) |->
                    IF i = 0 THEN << <<>> >>
                    ELSE IF s[i] = sep THEN Append(g[i - 1], <<>>)
                    ELSE [g[i - 1] EXCEPT ![Len(g[i - 1])] = Append(@, s[i])]]
<1>1. Len(s) \in Nat /\ \A i \in 1..Len(s) : s[i] \in Atoms
  BY DEF Text
<1>2. \E g : SplitBy(s, sep, Len(s), g)
  BY <1>1, SplitExists
<1>3. SplitBy(s, sep, Len(s), f)
  BY <1>2 DEF SplitBy
<1>4. Split(s, sep) = f[Len(s)]
  BY DEF Split
<1> HIDE DEF f
<1> DEFINE P == {n \in Nat : n <= Len(s) => f[n] \in Seq(Text) /\ Len(f[n]) >= 1}
<1>5. 0 \in P
  <2>1. f[0] = << <<>> >>
    BY <1>1, <1>3 DEF SplitBy
  <2>2. <<>> \in Text
    BY DEF Text
  <2>3. \A t \in Text : <<t>> \in Seq(Text) /\ Len(<<t>>) = 1
    OBVIOUS
  <2>4. f[0] \in Seq(Text) /\ Len(f[0]) = 1
    BY <2>1, <2>2, <2>3
  <2>5. 0 \in Nat /\ Len(f[0]) >= 1
    BY <2>4
  <2> QED
    BY <2>4, <2>5
<1>6. ASSUME NEW n \in Nat, n \in P PROVE n + 1 \in P
  <2> SUFFICES ASSUME n + 1 <= Len(s) PROVE f[n + 1] \in Seq(Text) /\ Len(f[n + 1]) >= 1
    OBVIOUS
  <2>1. PICK m : m = n + 1
    OBVIOUS
  <2>2. m \in 0..Len(s) /\ m # 0 /\ m - 1 = n /\ m \in 1..Len(s) /\ n <= Len(s)
    BY <1>1, <2>1
  <2>3. f[n] \in Seq(Text) /\ Len(f[n]) >= 1 /\ s[m] \in Atoms
    BY <1>6, <2>2, <1>1, SMTT(40)
  <2>4. f[m] = IF s[m] = sep THEN Append(f[n], <<>>)
               ELSE [f[n] EXCEPT ![Len(f[n])] = Append(@, s[m])]
    BY <2>2, <1>3 DEF SplitBy
  <2> HIDE DEF P
  <2>5. CASE s[m] = sep
    <3>1. <<>> \in Text
      BY DEF Text
    <3>2. f[m] = Append(f[n], <<>>)
      BY <2>4, <2>5
    <3> QED
      BY <2>1, <2>3, <3>1, <3>2
  <2>6. CASE s[m] # sep
    <3>1. PICK parts : parts = f[n]
      OBVIOUS
    <3>2. Append(parts[Len(parts)], s[m]) \in Text
      <4>1. parts[Len(parts)] \in Seq(Atoms)
        BY <2>3, <3>1 DEF Text
      <4> QED
        BY <2>3, <4>1 DEF Text
    <3>3. f[m] = [parts EXCEPT ![Len(parts)] = Append(parts[Len(parts)], s[m])]
      BY <2>4, <2>6, <3>1
    <3>4. f[m] \in Seq(Text) /\ Len(f[m]) = Len(parts)
      BY <2>3, <3>1, <3>2, <3>3, LastReplaced
    <3> QED
      BY <2>1, <2>3, <3>1, <3>4
  <2> QED
    BY <2>5, <2>6
<1> HIDE DEF P
<1>7. Nat \subseteq P
  BY <1>5, <1>6, EveryNumber
<1> QED
  BY <1>1, <1>4, <1>7 DEF P
=============================================================================
