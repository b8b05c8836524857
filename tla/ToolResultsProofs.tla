--------------------------- MODULE ToolResultsProofs ---------------------------
(***************************************************************************)
(* Proofs about BoundedText, ShellOutput and ToolResults, for any bounds   *)
(* and any messages. Their loops are recursive functions over an interval: *)
(* what one computes is proved by induction, in the form of a set of       *)
(* naturals that holds 0 and the successor of each of its elements.        *)
(***************************************************************************)
EXTENDS ToolResults, SequenceTheorems, WellFoundedInduction, TLAPS

LEMMA LeastElement ==
  ASSUME NEW T, T \subseteq Nat, T # {}
  PROVE  \E m \in T : \A k \in T : m <= k
<1>1. PICK m \in T : \A k \in T : ~(<<k, m>> \in OpToRel(<, Nat))
  BY NatLessThanWellFounded, WFMin
<1>2. ASSUME NEW k \in T PROVE ~(k < m)
  <2>1. k < m => <<k, m>> \in OpToRel(<, Nat)
    BY DEF OpToRel
  <2> QED BY <1>1, <2>1
<1>3. \A k \in T : k \in Nat /\ m \in Nat
  OBVIOUS
<1> QED BY <1>2, <1>3

LEMMA GreatestElement ==
  ASSUME NEW n \in Nat, NEW S, S \subseteq 0..n, S # {}
  PROVE  Max(S) \in S /\ \A k \in S : Max(S) >= k
<1> DEFINE T == {n - k : k \in S}
<1>1. T \subseteq Nat /\ T # {}
  <2>1. \A k \in S : n - k \in Nat
    OBVIOUS
  <2> QED BY <2>1
<1>2. PICK m \in T : \A k \in T : m <= k
  BY <1>1, LeastElement
<1>3. PICK x \in S : m = n - x
  OBVIOUS
<1>4. \A k \in S : x >= k
  <2> TAKE k \in S
  <2>1. n - k \in T
    OBVIOUS
  <2>2. n - x <= n - k
    BY <1>2, <1>3, <2>1
  <2> QED BY <2>2
<1> QED BY <1>4 DEF Max

LEMMA SetInduction ==
  ASSUME NEW S, 0 \in S, \A n \in Nat : n \in S => n + 1 \in S
  PROVE  Nat \subseteq S
<1> DEFINE T == Nat \ S
<1>1. SUFFICES ASSUME T # {} PROVE FALSE
  OBVIOUS
<1>2. PICK m \in T : \A k \in T : m <= k
  BY <1>1, LeastElement
<1>3. m # 0 /\ m - 1 \in Nat /\ m - 1 + 1 = m
  OBVIOUS
<1> QED BY <1>2, <1>3

(* The same up to a bound. *)
LEMMA IntervalInduction ==
  ASSUME NEW n \in Nat, NEW S, 0 \in S, \A i \in 1..n : i - 1 \in S => i \in S
  PROVE  \A i \in 0..n : i \in S
<1> DEFINE T == {i \in Nat : i <= n => i \in S}
<1>1. 0 \in T
  OBVIOUS
<1>2. ASSUME NEW i \in Nat, i \in T PROVE i + 1 \in T
  <2>1. CASE i + 1 <= n
    <3>1. i \in S /\ i + 1 \in 1..n /\ i + 1 - 1 = i
      BY <1>2, <2>1
    <3> QED BY <3>1
  <2> QED BY <2>1
<1> HIDE DEF T
<1>3. Nat \subseteq T
  BY <1>1, <1>2, SetInduction
<1> QED BY <1>3 DEF T

(* A loop over n elements has a run: what it has computed after each. *)
IsRun(f, A, start, n, step) ==
  f \in [0..n -> A] /\ f[0] = start /\ \A i \in 1..n : f[i] = step[i][f[i - 1]]

LEMMA LoopRuns ==
  ASSUME NEW A, NEW start \in A, NEW n \in Nat, NEW step \in [1..n -> [A -> A]]
  PROVE  \E f : IsRun(f, A, start, n, step)
<1> DEFINE R(k, f) == IsRun(f, A, start, k, step)
           S == {k \in 0..n : \E f : R(k, f)}
<1>1. 0 \in S
  <2>1. R(0, [i \in 0..0 |-> start])
    BY DEF IsRun
  <2> HIDE DEF R
  <2> QED BY <2>1
<1>2. ASSUME NEW k \in 1..n, k - 1 \in S PROVE k \in S
  <2>1. PICK f : R(k - 1, f)
    BY <1>2
  <2>2. PICK g : g = [i \in 0..k |-> IF i < k THEN f[i] ELSE step[k][f[k - 1]]]
    OBVIOUS
  <2>a. f \in [0..k - 1 -> A] /\ f[0] = start /\ \A i \in 1..k - 1 : f[i] = step[i][f[i - 1]]
    BY <2>1 DEF IsRun
  <2>3. f[k - 1] \in A /\ step[k][f[k - 1]] \in A
    BY <2>a
  <2>4. g \in [0..k -> A] /\ g[0] = start
    BY <2>a, <2>2, <2>3
  <2>5. ASSUME NEW i \in 1..k PROVE g[i] = step[i][g[i - 1]]
    <3>1. CASE i < k
      <4>1. g[i] = f[i] /\ g[i - 1] = f[i - 1] /\ i \in 1..k - 1
        BY <2>2, <3>1
      <4> QED BY <2>a, <4>1
    <3>2. CASE i = k
      <4>1. g[k] = step[k][f[k - 1]] /\ g[k - 1] = f[k - 1]
        BY <2>2
      <4> QED BY <3>2, <4>1
    <3> QED BY <3>1, <3>2
  <2>6. R(k, g)
    BY <2>4, <2>5 DEF IsRun
  <2> HIDE DEF R
  <2> QED BY <2>6
<1> HIDE DEF S
<1>3. n \in S
  <2>1. \A i \in 0..n : i \in S
    BY <1>1, <1>2, IntervalInduction
  <2> QED BY <2>1
<1> QED BY <1>3 DEF S

(* Two runs of a loop that go on in the same way are the same. *)
SameLoop(f, g, n) == f[0] = g[0] /\ \A i \in 1..n : f[i - 1] = g[i - 1] => f[i] = g[i]

LEMMA LoopIsUnique ==
  ASSUME NEW n \in Nat, NEW f, NEW g, SameLoop(f, g, n)
  PROVE  \A i \in 0..n : f[i] = g[i]
<1> DEFINE S == {i \in 0..n : f[i] = g[i]}
<1>1. 0 \in S /\ \A i \in 1..n : i - 1 \in S => i \in S
  BY DEF SameLoop
<1> HIDE DEF S
<1>2. \A i \in 0..n : i \in S
  BY <1>1, IntervalInduction
<1> QED BY <1>2 DEF S

-------------------------------------------------------------------------------
LEMMA WidthType == Width \in [Runes -> 1..MaxWidth]
BY DEF Width, Runes, MaxWidth

(* The bytes of a text, summed up from its beginning. *)
LEMMA BytesSums ==
  ASSUME NEW text \in Seq(Runes)
  PROVE  \E sum \in [0..Len(text) -> Nat] :
           /\ Bytes(text) = sum[Len(text)]
           /\ sum[0] = 0 /\ \A i \in 1..Len(text) : sum[i] = sum[i - 1] + Width[text[i]]
<1> DEFINE n == Len(text)
           Sums(sum) == [i \in 0..n |-> IF i = 0 THEN 0 ELSE sum[i - 1] + Width[text[i]]]
           chosen == CHOOSE sum : sum = Sums(sum)
<1>1. n \in Nat /\ \A i \in 1..n : Width[text[i]] \in Nat
  BY LenProperties, ElementOfSeq, WidthType DEF MaxWidth
<1>2. \E sum : sum = Sums(sum)
  <2> DEFINE step == [i \in 1..n |-> [k \in Nat |-> k + Width[text[i]]]]
  <2>1. step \in [1..n -> [Nat -> Nat]]
    BY <1>1
  <2>2. PICK f : IsRun(f, Nat, 0, n, step)
    <3> HIDE DEF n, step
    <3> QED BY <1>1, <2>1, LoopRuns
  <2>3. f \in [0..n -> Nat] /\ f[0] = 0 /\ \A i \in 1..n : f[i] = f[i - 1] + Width[text[i]]
    <3>1. f \in [0..n -> Nat] /\ f[0] = 0 /\ \A i \in 1..n : f[i] = step[i][f[i - 1]]
      <4> HIDE DEF n, step
      <4> QED BY <2>2 DEF IsRun
    <3>2. ASSUME NEW i \in 1..n PROVE f[i] = f[i - 1] + Width[text[i]]
      <4>1. f[i - 1] \in Nat
        BY <1>1, <3>1
      <4>2. step[i][f[i - 1]] = f[i - 1] + Width[text[i]]
        BY <4>1
      <4> QED BY <3>1, <4>2
    <3> QED BY <3>1, <3>2
  <2>4. f = Sums(f)
    BY <1>1, <2>3
  <2> HIDE DEF Sums
  <2> QED BY <2>4
<1>3. chosen = Sums(chosen)
  <2> HIDE DEF Sums
  <2> QED BY <1>2
<1>4. Bytes(text) = chosen[n]
  BY DEF Bytes
<1> HIDE DEF chosen
<1>5. chosen[0] = 0 /\ \A i \in 1..n : chosen[i] = chosen[i - 1] + Width[text[i]]
  BY <1>1, <1>3
<1>6. \A i \in 0..n : chosen[i] \in Nat
  <2> DEFINE S == {i \in 0..n : chosen[i] \in Nat}
  <2>1. 0 \in S /\ \A i \in 1..n : i - 1 \in S => i \in S
    BY <1>1, <1>5
  <2> HIDE DEF S
  <2>2. \A i \in 0..n : i \in S
    BY <1>1, <2>1, IntervalInduction
  <2> QED BY <2>2 DEF S
<1>7. chosen \in [0..n -> Nat]
  BY <1>3, <1>6
<1> QED BY <1>4, <1>5, <1>7

LEMMA BytesIs ==
  ASSUME NEW text \in Seq(Runes), NEW sum, sum[0] = 0,
         \A i \in 1..Len(text) : sum[i] = sum[i - 1] + Width[text[i]]
  PROVE  Bytes(text) = sum[Len(text)]
<1>1. Len(text) \in Nat
  BY LenProperties
<1>2. PICK f \in [0..Len(text) -> Nat] :
        /\ Bytes(text) = f[Len(text)]
        /\ f[0] = 0 /\ \A i \in 1..Len(text) : f[i] = f[i - 1] + Width[text[i]]
  BY BytesSums
<1>3. \A i \in 0..Len(text) : f[i] = sum[i]
  <2>1. SameLoop(f, sum, Len(text))
    BY <1>2 DEF SameLoop
  <2> QED BY <1>1, <2>1, LoopIsUnique
<1> QED BY <1>1, <1>2, <1>3

LEMMA BytesType == ASSUME NEW text \in Seq(Runes) PROVE Bytes(text) \in Nat
BY BytesSums, LenProperties

LEMMA BytesConcat ==
  ASSUME NEW s \in Seq(Runes), NEW t \in Seq(Runes)
  PROVE  Bytes(s \o t) = Bytes(s) + Bytes(t)
<1>1. Len(s) \in Nat /\ Len(t) \in Nat
  BY LenProperties
<1>2. PICK f \in [0..Len(s) -> Nat] :
        /\ Bytes(s) = f[Len(s)] /\ f[0] = 0 /\ \A i \in 1..Len(s) : f[i] = f[i - 1] + Width[s[i]]
  BY BytesSums
<1>3. PICK g \in [0..Len(t) -> Nat] :
        /\ Bytes(t) = g[Len(t)] /\ g[0] = 0 /\ \A i \in 1..Len(t) : g[i] = g[i - 1] + Width[t[i]]
  BY BytesSums
<1>4. PICK h : h = [i \in 0..Len(s) + Len(t) |-> IF i <= Len(s) THEN f[i] ELSE f[Len(s)] + g[i - Len(s)]]
  OBVIOUS
<1>5. /\ s \o t \in Seq(Runes) /\ Len(s \o t) = Len(s) + Len(t)
      /\ \A i \in 1..Len(s) + Len(t) : (s \o t)[i] = IF i <= Len(s) THEN s[i] ELSE t[i - Len(s)]
  BY ConcatProperties
<1>6. ASSUME NEW i \in 1..Len(s) + Len(t) PROVE h[i] = h[i - 1] + Width[(s \o t)[i]]
  <2>1. CASE i <= Len(s)
    BY <1>1, <1>2, <1>4, <1>5, <2>1
  <2>2. CASE ~(i <= Len(s))
    <3>1. PICK j \in 1..Len(t) : i = Len(s) + j
      <4>1. i - Len(s) \in 1..Len(t) /\ i = Len(s) + (i - Len(s))
        BY <1>1, <2>2
      <4> QED BY <4>1
    <3>0. i - Len(s) = j /\ i - 1 \in 0..Len(s) + Len(t) /\ i - 1 - Len(s) = j - 1
      BY <1>1, <3>1
    <3>2. (s \o t)[i] = t[j] /\ h[i] = f[Len(s)] + g[j]
      BY <1>1, <1>4, <1>5, <2>2, <3>0
    <3>3. h[i - 1] = f[Len(s)] + g[j - 1]
      <4>1. CASE j = 1
        <5>1. i - 1 = Len(s)
          BY <1>1, <3>1, <4>1
        <5>2. h[i - 1] = f[Len(s)] /\ g[j - 1] = 0 /\ f[Len(s)] \in Nat
          BY <1>1, <1>2, <1>3, <1>4, <3>0, <4>1, <5>1
        <5> QED BY <5>2
      <4>2. CASE j # 1
        <5>1. ~(i - 1 <= Len(s))
          BY <1>1, <3>1, <4>2
        <5>2. PICK b : b = i - 1
          OBVIOUS
        <5>3. b \in 0..Len(s) + Len(t) /\ ~(b <= Len(s)) /\ b - Len(s) = j - 1
          BY <3>0, <5>1, <5>2
        <5>4. h[b] = f[Len(s)] + g[j - 1]
          BY <1>4, <5>3
        <5> QED BY <5>2, <5>4
      <4> QED BY <4>1, <4>2
    <3>4. g[j] = g[j - 1] + Width[t[j]] /\ Width[t[j]] \in Nat /\ g[j - 1] \in Nat /\ f[Len(s)] \in Nat
      <4>1. t[j] \in Runes /\ Width[t[j]] \in Nat
        BY <3>1, ElementOfSeq, WidthType DEF MaxWidth
      <4>2. g[j] = g[j - 1] + Width[t[j]]
        BY <1>3, <3>1
      <4>3. j - 1 \in 0..Len(t) /\ Len(s) \in 0..Len(s)
        BY <1>1, <3>1
      <4>4. g[j - 1] \in Nat /\ f[Len(s)] \in Nat
        BY <4>3
      <4> QED BY <4>1, <4>2, <4>4
    <3>5. (s \o t)[i] = t[j] /\ h[i] = h[i - 1] + Width[t[j]]
      BY <3>2, <3>3, <3>4
    <3> QED BY <3>5
  <2> QED BY <2>1, <2>2
<1>7. h[0] = 0
  BY <1>1, <1>2, <1>4
<1>8. Bytes(s \o t) = h[Len(s) + Len(t)]
  <2>1. \A i \in 1..Len(s \o t) : h[i] = h[i - 1] + Width[(s \o t)[i]]
    BY <1>5, <1>6
  <2> QED BY <1>5, <1>7, <2>1, BytesIs
<1>9. h[Len(s) + Len(t)] = f[Len(s)] + g[Len(t)]
  <2>1. CASE Len(t) = 0
    BY <1>1, <1>2, <1>3, <1>4, <2>1
  <2>2. CASE Len(t) > 0
    <3>1. /\ Len(s) + Len(t) \in 0..Len(s) + Len(t) /\ ~(Len(s) + Len(t) <= Len(s))
          /\ Len(s) + Len(t) - Len(s) = Len(t)
      BY <1>1, <2>2
    <3> QED BY <1>4, <3>1
  <2> QED BY <1>1, <2>1, <2>2
<1> QED BY <1>2, <1>3, <1>8, <1>9

LEMMA BytesOfNothing == Bytes(<<>>) = 0
<1>1. <<>> \in Seq(Runes) /\ Len(<<>>) = 0
  BY EmptySeq
<1> QED BY <1>1, BytesSums

LEMMA BytesOfOne == ASSUME NEW rune \in Runes PROVE Bytes(<<rune>>) = Width[rune]
<1>1. <<rune>> \in Seq(Runes) /\ Len(<<rune>>) = 1 /\ <<rune>>[1] = rune
  OBVIOUS
<1>2. PICK sum : sum = [i \in 0..1 |-> IF i = 0 THEN 0 ELSE Width[rune]]
  OBVIOUS
<1>3. Width[rune] \in Nat /\ sum[0] = 0 /\ sum[1] = Width[rune]
  BY <1>2, WidthType DEF MaxWidth
<1>4. \A i \in 1..1 : sum[i] = sum[i - 1] + Width[<<rune>>[i]]
  BY <1>1, <1>3
<1> QED BY <1>1, <1>3, <1>4, BytesIs

LEMMA BytesPositive ==
  ASSUME NEW text \in Seq(Runes), text # <<>>
  PROVE  Bytes(text) > 0
<1>1. PICK head \in Seq(Runes), rune \in Runes : text = Append(head, rune)
  BY SequenceEmptyOrAppend
<1>2. text = head \o <<rune>> /\ <<rune>> \in Seq(Runes)
  BY <1>1, AppendIsConcat
<1>3. Bytes(text) = Bytes(head) + Width[rune]
  BY <1>2, BytesConcat, BytesOfOne
<1>4. Bytes(head) \in Nat /\ Width[rune] \in 1..MaxWidth
  BY BytesType, WidthType
<1> QED BY <1>3, <1>4 DEF MaxWidth

LEMMA PrefixSplits ==
  ASSUME NEW S, NEW s \in Seq(S), NEW head \in Prefixes(s)
  PROVE  /\ head \in Seq(S) /\ Len(head) <= Len(s)
         /\ \E rest \in Seq(S) : s = head \o rest
<1>1. PICK n \in 0..Len(s) : head = SubSeq(s, 1, n)
  BY DEF Prefixes
<1>2. Len(s) \in Nat
  BY LenProperties
<1>3. \A i \in 1..Len(s) : s[i] \in S
  BY ElementOfSeq
<1>4. head \in Seq(S) /\ Len(head) = IF 1 <= n THEN n - 1 + 1 ELSE 0
  <2>1. n \in Int /\ 1 \in Int /\ \A i \in 1..n : s[i] \in S
    BY <1>2, <1>3
  <2> QED BY <1>1, <2>1, SubSeqProperties
<1>5. SubSeq(s, n + 1, Len(s)) \in Seq(S)
  <2>1. n + 1 \in Int /\ Len(s) \in Int /\ \A i \in n + 1..Len(s) : s[i] \in S
    BY <1>2, <1>3
  <2> QED BY <2>1, SubSeqProperties
<1>6. SubSeq(s, 1, n) \o SubSeq(s, n + 1, Len(s)) = SubSeq(s, 1, Len(s))
  <2>1. 1 \in 1..Len(s) + 1 /\ n \in 1 - 1..Len(s) /\ Len(s) \in n..Len(s)
    BY <1>2
  <2> QED BY <2>1, ConcatAdjacentSubSeq
<1>7. SubSeq(s, 1, Len(s)) = s
  BY SubSeqFull
<1>8. head \o SubSeq(s, n + 1, Len(s)) = s
  BY <1>1, <1>6, <1>7, Zenon
<1>9. Len(head) <= Len(s)
  BY <1>2, <1>4
<1> QED BY <1>4, <1>5, <1>8, <1>9

LEMMA HeadIsPrefix ==
  ASSUME NEW S, NEW head \in Seq(S), NEW rest \in Seq(S)
  PROVE  head \in Prefixes(head \o rest)
<1>1. /\ head \o rest \in Seq(S) /\ Len(head \o rest) = Len(head) + Len(rest)
      /\ \A i \in 1..Len(head) + Len(rest) :
           (head \o rest)[i] = IF i <= Len(head) THEN head[i] ELSE rest[i - Len(head)]
  BY ConcatProperties
<1>2. Len(head) \in Nat /\ Len(rest) \in Nat
  BY LenProperties
<1>3. PICK all : all = head \o rest
  OBVIOUS
<1>4. Len(head) \in 0..Len(all) /\ \A i \in 1..Len(head) : all[i] = head[i] /\ all[i] \in S
  BY <1>1, <1>2, <1>3, ElementOfSeq
<1>5. SubSeq(all, 1, Len(head)) = head
  <2>1. /\ SubSeq(all, 1, Len(head)) \in Seq(S)
        /\ Len(SubSeq(all, 1, Len(head))) = IF 1 <= Len(head) THEN Len(head) - 1 + 1 ELSE 0
        /\ \A i \in 1..Len(head) - 1 + 1 : SubSeq(all, 1, Len(head))[i] = all[1 + i - 1]
    BY <1>2, <1>4, SubSeqProperties
  <2>2. Len(SubSeq(all, 1, Len(head))) = Len(head)
    BY <1>2, <2>1
  <2>3. \A i \in 1..Len(head) : SubSeq(all, 1, Len(head))[i] = head[i]
    BY <1>2, <1>4, <2>1
  <2> QED BY <2>1, <2>2, <2>3, SeqEqual
<1> QED BY <1>3, <1>4, <1>5 DEF Prefixes

LEMMA PrefixOfItself == ASSUME NEW S, NEW s \in Seq(S) PROVE s \in Prefixes(s)
<1>1. s \o <<>> = s /\ <<>> \in Seq(S)
  BY ConcatEmptySeq, EmptySeq
<1> QED BY <1>1, HeadIsPrefix

LEMMA PrefixOfLonger ==
  ASSUME NEW S, NEW s \in Seq(S), NEW head \in Prefixes(s), NEW more \in Seq(S)
  PROVE  head \in Prefixes(s \o more)
<1>1. head \in Seq(S)
  BY PrefixSplits
<1>2. PICK rest \in Seq(S) : s = head \o rest
  BY PrefixSplits
<1>3. s \o more = head \o (rest \o more) /\ rest \o more \in Seq(S)
  BY <1>1, <1>2, ConcatAssociative, ConcatProperties
<1> QED BY <1>1, <1>3, HeadIsPrefix

LEMMA PrefixBehind ==
  ASSUME NEW S, NEW s \in Seq(S), NEW t \in Seq(S), NEW head \in Prefixes(t)
  PROVE  s \o head \in Prefixes(s \o t)
<1>1. head \in Seq(S)
  BY PrefixSplits
<1>2. PICK rest \in Seq(S) : t = head \o rest
  BY PrefixSplits
<1>3. s \o t = (s \o head) \o rest /\ s \o head \in Seq(S)
  BY <1>1, <1>2, ConcatAssociative, ConcatProperties
<1> QED BY <1>3, HeadIsPrefix

(* Fit: the longest prefix that fits. It loses less than a rune of room.    *)
LEMMA FitIs ==
  ASSUME NEW text \in Seq(Runes), NEW room \in Nat
  PROVE  /\ Fit(text, room) \in Prefixes(text)
         /\ Bytes(Fit(text, room)) <= room
         /\ Bytes(text) <= room => Fit(text, room) = text
         /\ Bytes(text) > room =>
              Len(Fit(text, room)) < Len(text) /\ Bytes(Fit(text, room)) > room - MaxWidth
<1>1. Len(text) \in Nat /\ \A i \in 1..Len(text) : text[i] \in Runes
  BY LenProperties, ElementOfSeq
<1>2. PICK head : head = [n \in 0..Len(text) |-> SubSeq(text, 1, n)]
  OBVIOUS
<1>3. /\ head[0] = <<>> /\ head[Len(text)] = text
      /\ \A n \in 0..Len(text) : head[n] \in Prefixes(text) /\ head[n] \in Seq(Runes) /\ Len(head[n]) = n
  <2>1. 0 \in 0..Len(text) /\ Len(text) \in 0..Len(text)
    BY <1>1
  <2>2. head[0] = SubSeq(text, 1, 0) /\ head[Len(text)] = SubSeq(text, 1, Len(text))
    BY <1>2, <2>1, Zenon
  <2>3. SubSeq(text, 1, 0) = <<>> /\ SubSeq(text, 1, Len(text)) = text
    BY SubSeqEmpty, SubSeqFull
  <2>4. ASSUME NEW n \in 0..Len(text)
        PROVE  head[n] \in Prefixes(text) /\ head[n] \in Seq(Runes) /\ Len(head[n]) = n
    <3>1. head[n] = SubSeq(text, 1, n)
      BY <1>2
    <3>2. SubSeq(text, 1, n) \in Prefixes(text)
      BY DEF Prefixes
    <3>3. SubSeq(text, 1, n) \in Seq(Runes)
      BY <3>2, PrefixSplits
    <3>4. Len(SubSeq(text, 1, n)) = IF 1 <= n THEN n - 1 + 1 ELSE 0
      BY <1>1, SubSeqProperties
    <3>5. Len(SubSeq(text, 1, n)) = n
      BY <1>1, <3>4
    <3> QED BY <3>1, <3>2, <3>3, <3>5, Zenon
  <2> QED BY <2>2, <2>3, <2>4, Zenon
<1>4. ASSUME NEW n \in 1..Len(text) PROVE head[n] = head[n - 1] \o <<text[n]>>
  <2>1. 1 \in 1..Len(text) /\ n \in 1..Len(text) /\ n \in 0..Len(text) /\ n - 1 \in 0..Len(text)
    BY <1>1
  <2>2. SubSeq(text, 1, n) = SubSeq(text, 1, n - 1) \o <<text[n]>>
    BY <2>1, SubSeqRecursiveSecond
  <2>3. head[n] = SubSeq(text, 1, n) /\ head[n - 1] = SubSeq(text, 1, n - 1)
    BY <1>2, <2>1, Zenon
  <2> QED BY <2>2, <2>3, Zenon
<1>5. PICK S : S = {n \in 0..Len(text) : Bytes(head[n]) <= room}
  OBVIOUS
<1>6. 0 \in S
  BY <1>1, <1>3, <1>5, BytesOfNothing
<1>7. PICK m : m = Max(S)
  OBVIOUS
<1>8. m \in S /\ \A k \in S : m >= k
  BY <1>1, <1>5, <1>6, <1>7, GreatestElement
<1>9. Fit(text, room) = head[m]
  <2>1. \A n \in 0..Len(text) : head[n] = SubSeq(text, 1, n)
    BY <1>2
  <2>2. S = {n \in 0..Len(text) : Bytes(SubSeq(text, 1, n)) <= room}
    BY <1>5, <2>1
  <2>3. Fit(text, room) = SubSeq(text, 1, m)
    BY <1>7, <2>2, Zenon DEF Fit
  <2>4. m \in 0..Len(text)
    BY <1>5, <1>8
  <2> QED BY <2>1, <2>3, <2>4, Zenon
<1>10. m \in 0..Len(text) /\ Bytes(head[m]) <= room
  BY <1>5, <1>8
<1>11. ASSUME Bytes(text) <= room PROVE head[m] = text
  <2>1. Len(text) \in S
    BY <1>1, <1>3, <1>5, <1>11
  <2>2. m = Len(text)
    BY <1>1, <1>8, <1>10, <2>1
  <2> QED BY <1>3, <2>2
<1>12. ASSUME Bytes(text) > room
       PROVE  Len(head[m]) < Len(text) /\ Bytes(head[m]) > room - MaxWidth
  <2>1. Bytes(text) \in Nat
    BY BytesType
  <2>2. m # Len(text)
    BY <1>3, <1>10, <1>12, <2>1
  <2>3. PICK n : n = m + 1
    OBVIOUS
  <2>4. n \in 1..Len(text) /\ n \in 0..Len(text) /\ n - 1 = m /\ n \notin S
    BY <1>1, <1>8, <1>10, <2>2, <2>3
  <2>5. head[n] = head[m] \o <<text[n]>>
    BY <1>4, <2>4
  <2>6. text[n] \in Runes /\ <<text[n]>> \in Seq(Runes) /\ head[m] \in Seq(Runes)
    BY <1>1, <1>3, <1>10, <2>4
  <2>7. /\ Bytes(head[n]) = Bytes(head[m]) + Width[text[n]]
        /\ Width[text[n]] \in 1..MaxWidth /\ Bytes(head[m]) \in Nat
    BY <2>5, <2>6, BytesConcat, BytesOfOne, BytesType, WidthType
  <2>8. ~(Bytes(head[n]) <= room)
    BY <1>5, <2>4
  <2>9. Bytes(head[m]) > room - MaxWidth
    BY <2>7, <2>8 DEF MaxWidth
  <2>10. Len(head[m]) < Len(text)
    BY <1>1, <1>3, <1>10, <2>2
  <2> QED BY <2>9, <2>10
<1>13. head[m] \in Prefixes(text)
  BY <1>3, <1>10
<1> QED BY <1>9, <1>10, <1>11, <1>12, <1>13

(* The conversion to UTF-8, rune by rune. *)
LEMMA ValidIs ==
  ASSUME NEW raw \in Seq(RawUnits)
  PROVE  ToValidUTF8(raw) \in Seq(Runes) /\ (raw = <<>> => ToValidUTF8(raw) = <<>>)
<1> DEFINE n == Len(raw)
           Next1(i, text) ==
             IF raw[i] # "invalid" THEN Append(text, raw[i])
             ELSE IF i > 1 /\ raw[i - 1] = "invalid" THEN text
             ELSE Append(text, "replacement")
           Valid(text) == [i \in 0..n |-> IF i = 0 THEN <<>> ELSE Next1(i, text[i - 1])]
           chosen == CHOOSE text : text = Valid(text)
           step == [i \in 1..n |-> [text \in Seq(Runes) |-> Next1(i, text)]]
<1>1. n \in Nat /\ \A i \in 1..n : raw[i] \in RawUnits
  BY LenProperties, ElementOfSeq
<1>2. /\ RawUnits \ {"invalid"} \subseteq Runes /\ "replacement" \in Runes
      /\ <<>> \in Seq(Runes)
  BY EmptySeq DEF RawUnits, Runes, Width
<1>3. ASSUME NEW i \in 1..n, NEW text \in Seq(Runes) PROVE Next1(i, text) \in Seq(Runes)
  <2>1. ASSUME raw[i] # "invalid" PROVE Append(text, raw[i]) \in Seq(Runes)
    <3>1. raw[i] \in Runes
      BY <1>1, <1>2, <2>1
    <3> QED BY <3>1, AppendProperties
  <2>2. Append(text, "replacement") \in Seq(Runes)
    BY <1>2, AppendProperties
  <2> QED BY <2>1, <2>2
<1>4. step \in [1..n -> [Seq(Runes) -> Seq(Runes)]]
  <2> HIDE DEF n, Next1
  <2> QED BY <1>3
<1>5. PICK f : IsRun(f, Seq(Runes), <<>>, n, step)
  <2> HIDE DEF n, step
  <2> QED BY <1>1, <1>2, <1>4, LoopRuns
<1>6. /\ f \in [0..n -> Seq(Runes)] /\ f[0] = <<>>
      /\ \A i \in 1..n : f[i] = Next1(i, f[i - 1])
  <2>1. f \in [0..n -> Seq(Runes)] /\ f[0] = <<>> /\ \A i \in 1..n : f[i] = step[i][f[i - 1]]
    <3> HIDE DEF n, step
    <3> QED BY <1>5 DEF IsRun
  <2>2. ASSUME NEW i \in 1..n PROVE f[i] = Next1(i, f[i - 1])
    <3> HIDE DEF n, Next1
    <3>1. f[i - 1] \in Seq(Runes)
      BY <1>1, <2>1
    <3>2. step[i][f[i - 1]] = Next1(i, f[i - 1])
      BY <3>1
    <3> QED BY <2>1, <3>2
  <2> QED BY <2>1, <2>2
<1>7. \E text : text = Valid(text)
  <2>1. f = Valid(f)
    <3> HIDE DEF n, Next1
    <3> QED BY <1>1, <1>6
  <2> HIDE DEF Valid
  <2> QED BY <2>1
<1>8. chosen = Valid(chosen)
  <2> HIDE DEF Valid
  <2> QED BY <1>7
<1>9. ToValidUTF8(raw) = chosen[n]
  BY DEF ToValidUTF8
<1> HIDE DEF chosen
<1>10. chosen[0] = <<>> /\ \A i \in 1..n : chosen[i] = Next1(i, chosen[i - 1])
  <2> HIDE DEF n, Next1
  <2> QED BY <1>1, <1>8
<1>11. \A i \in 0..n : chosen[i] \in Seq(Runes)
  <2> DEFINE T == {i \in 0..n : chosen[i] \in Seq(Runes)}
  <2> HIDE DEF n, Next1
  <2>1. 0 \in T
    <3>1. 0 \in 0..n /\ chosen[0] \in Seq(Runes)
      BY <1>1, <1>2, <1>10
    <3> QED BY <3>1
  <2>2. ASSUME NEW i \in 1..n, i - 1 \in T PROVE i \in T
    <3>1. chosen[i - 1] \in Seq(Runes) /\ chosen[i] = Next1(i, chosen[i - 1]) /\ i \in 0..n
      BY <1>1, <1>10, <2>2
    <3>2. Next1(i, chosen[i - 1]) \in Seq(Runes)
      BY <1>3, <3>1
    <3> QED BY <3>1, <3>2
  <2> HIDE DEF T
  <2>3. \A i \in 0..n : i \in T
    BY <1>1, <2>1, <2>2, IntervalInduction
  <2> QED BY <2>3 DEF T
<1>12. n \in 0..n /\ (raw = <<>> => n = 0)
  BY <1>1
<1> HIDE DEF n, Next1
<1> QED BY <1>9, <1>10, <1>11, <1>12

-------------------------------------------------------------------------------
(* What is kept of a text within a bound: it fits, only what did not fit is *)
(* missing, and then it is shorter than the text.                           *)
Keeps(some, text, bound) ==
  /\ some \in Seq(Runes) /\ text \in Seq(Runes)
  /\ Bytes(some) <= bound
  /\ HeadKept(some, text, bound)
  /\ some = text \/ Len(some) < Len(text)

LEMMA KeepsNothing == ASSUME NEW bound \in Nat PROVE Keeps(<<>>, <<>>, bound)
BY EmptySeq, BytesOfNothing DEF Keeps, HeadKept

(* One more string, of which only what fits is taken. *)
LEMMA KeepsMore ==
  ASSUME NEW bound \in Nat, NEW some, NEW text, Keeps(some, text, bound),
         NEW raw \in Seq(RawUnits), NEW room, room = bound - Bytes(some)
  PROVE  /\ Bounded(raw, room).text \in Seq(Runes)
         /\ Keeps(some \o Bounded(raw, room).text, text \o ToValidUTF8(raw), bound)
         /\ some \o Bounded(raw, room).text # text \o ToValidUTF8(raw)
              <=> some # text \/ Bounded(raw, room).cut
<1>1. PICK more : more = ToValidUTF8(raw)
  OBVIOUS
<1>2. PICK fit : fit = Fit(more, room)
  OBVIOUS
<1>3. more \in Seq(Runes)
  BY <1>1, ValidIs
<1>4. some \in Seq(Runes) /\ text \in Seq(Runes) /\ Bytes(some) \in Nat /\ room \in Nat
  BY BytesType DEF Keeps
<1>5. /\ fit \in Prefixes(more) /\ Bytes(fit) <= room
      /\ Bytes(more) <= room => fit = more
      /\ Bytes(more) > room => Len(fit) < Len(more) /\ Bytes(fit) > room - MaxWidth
  BY <1>2, <1>3, <1>4, FitIs
<1>6. fit \in Seq(Runes) /\ Len(fit) <= Len(more)
  BY <1>3, <1>5, PrefixSplits
<1>7. Bytes(fit) \in Nat /\ Bytes(more) \in Nat
  BY <1>3, <1>6, BytesType
<1>8. Bounded(raw, room).text = fit /\ Bounded(raw, room).cut = (Bytes(more) > room)
  BY <1>1, <1>2 DEF Bounded
<1>9. some \o fit \in Seq(Runes) /\ text \o more \in Seq(Runes)
  BY <1>3, <1>4, <1>6, ConcatProperties
<1>10. Bytes(some \o fit) = Bytes(some) + Bytes(fit)
  BY <1>4, <1>6, BytesConcat
<1>11. Bytes(some \o fit) <= bound
  BY <1>4, <1>5, <1>7, <1>10
<1>12. /\ Len(some \o fit) = Len(some) + Len(fit) /\ Len(text \o more) = Len(text) + Len(more)
       /\ Len(some) \in Nat /\ Len(fit) \in Nat /\ Len(text) \in Nat /\ Len(more) \in Nat
  BY <1>3, <1>4, <1>6, ConcatProperties, LenProperties
<1> DEFINE Goal == /\ Keeps(some \o fit, text \o more, bound)
                   /\ some \o fit # text \o more <=> some # text \/ Bytes(more) > room
<1>13. ASSUME some = text, Bytes(more) <= room PROVE Goal
  <2>1. some \o fit = text \o more
    BY <1>5, <1>13
  <2>2. ~(Bytes(more) > room)
    BY <1>4, <1>7, <1>13
  <2>3. Goal
    BY <1>9, <1>11, <1>13, <2>1, <2>2 DEF Keeps, HeadKept
  <2> QED BY <2>3
<1>14. ASSUME some = text, Bytes(more) > room PROVE Goal
  <2>1. Len(some \o fit) < Len(text \o more)
    BY <1>5, <1>12, <1>14
  <2>2. some \o fit \in Prefixes(some \o fit) /\ some \o fit \in Prefixes(text \o more)
    BY <1>3, <1>4, <1>5, <1>9, <1>14, PrefixOfItself, PrefixBehind
  <2>3. Bytes(some \o fit) > bound - MaxWidth
    BY <1>4, <1>5, <1>7, <1>10, <1>14 DEF MaxWidth
  <2>4. HeadKept(some \o fit, text \o more, bound)
    BY <2>2, <2>3 DEF HeadKept
  <2>5. some \o fit # text \o more
    BY <1>12, <2>1
  <2>6. Goal
    BY <1>9, <1>11, <1>14, <2>1, <2>4, <2>5 DEF Keeps
  <2> QED BY <2>6
<1>15. ASSUME some # text PROVE Goal
  <2>1. Len(some) < Len(text) /\ HeadKept(some, text, bound)
    BY <1>15 DEF Keeps
  <2>2. Len(some \o fit) < Len(text \o more)
    BY <1>6, <1>12, <2>1
  <2>3. PICK head \in Prefixes(some) \cap Prefixes(text) : Bytes(head) > bound - MaxWidth
    BY <1>15, <2>1 DEF HeadKept
  <2>4. head \in Prefixes(some \o fit) /\ head \in Prefixes(text \o more)
    BY <1>3, <1>4, <1>6, PrefixOfLonger
  <2>5. HeadKept(some \o fit, text \o more, bound)
    BY <2>3, <2>4 DEF HeadKept
  <2>6. some \o fit # text \o more
    BY <1>12, <2>2
  <2>7. Goal
    BY <1>9, <1>11, <1>15, <2>2, <2>5, <2>6 DEF Keeps
  <2> QED BY <2>7
<1>16. Goal
  <2> HIDE DEF Goal
  <2> QED BY <1>4, <1>7, <1>13, <1>14, <1>15
<1> QED BY <1>1, <1>6, <1>8, <1>16, Zenon

(* When the bound is reached, what follows may be left out. *)
LEMMA KeepsWhenFull ==
  ASSUME NEW bound \in Nat, NEW some, NEW text, Keeps(some, text, bound), Bytes(some) = bound,
         NEW more \in Seq(Runes)
  PROVE  Keeps(some, text \o more, bound)
<1>1. some \in Seq(Runes) /\ text \in Seq(Runes) /\ HeadKept(some, text, bound)
  BY DEF Keeps
<1>2. /\ text \o more \in Seq(Runes) /\ Len(text \o more) = Len(text) + Len(more)
      /\ Len(text) \in Nat /\ Len(more) \in Nat /\ Len(some) \in Nat
  BY <1>1, ConcatProperties, LenProperties
<1>3. HeadKept(some, text \o more, bound)
  <2>1. CASE some = text
    <3>1. some \in Prefixes(some) /\ some \in Prefixes(text \o more)
      BY <1>1, <2>1, PrefixOfItself, PrefixOfLonger
    <3>2. Bytes(some) > bound - MaxWidth
      BY DEF MaxWidth
    <3> QED BY <3>1, <3>2 DEF HeadKept
  <2>2. CASE some # text
    <3>1. PICK head \in Prefixes(some) \cap Prefixes(text) : Bytes(head) > bound - MaxWidth
      BY <1>1, <2>2 DEF HeadKept
    <3>2. head \in Prefixes(text \o more)
      BY <1>1, PrefixOfLonger
    <3> QED BY <3>1, <3>2 DEF HeadKept
  <2> QED BY <2>1, <2>2
<1>4. some = text \o more \/ Len(some) < Len(text \o more)
  <2>1. CASE more = <<>>
    <3>1. text \o more = text
      BY <1>1, <2>1, ConcatEmptySeq
    <3> QED BY <3>1 DEF Keeps
  <2>2. CASE more # <<>>
    <3>1. Len(more) > 0
      BY <2>2, EmptySeq
    <3> QED BY <1>2, <3>1 DEF Keeps
  <2> QED BY <2>1, <2>2
<1> QED BY <1>1, <1>2, <1>3, <1>4 DEF Keeps

-------------------------------------------------------------------------------
(***************************************************************************)
(* A Shell call: the inductive invariant says of each stream what its      *)
(* bound lost, and that the one flag tells of both.                        *)
(***************************************************************************)
ShellInv ==
  /\ kept \in [Outputs -> Seq(Runes)] /\ said \in [Outputs -> Seq(Runes)]
  /\ truncated \in BOOLEAN
  /\ \A s \in Outputs : Keeps(kept[s], said[s], MaxBytes)
  /\ truncated <=> kept # said
  /\ LossIsTold

LEMMA ShellInitInv == ShellInit => ShellInv
<1> SUFFICES ASSUME ShellInit PROVE ShellInv
  OBVIOUS
<1>1. /\ kept = [s \in Outputs |-> <<>>] /\ said = kept
      /\ truncated = FALSE /\ result = NoResult
  BY DEF ShellInit
<1>2. <<>> \in Seq(Runes)
  BY EmptySeq
<1>3. Keeps(<<>>, <<>>, MaxBytes)
  BY KeepsNothing, OutputAssumption
<1>4. LossIsTold
  BY <1>1 DEF LossIsTold, NoResult
<1> QED BY <1>1, <1>2, <1>3, <1>4 DEF ShellInv

LEMMA TakeDeltaInv ==
  ASSUME ShellInv, NEW s \in Outputs, NEW delta \in Deltas, TakeDelta(s, delta)
  PROVE  ShellInv'
<1>1. PICK bounded : bounded = Bounded(delta, MaxBytes - Bytes(kept[s]))
  OBVIOUS
<1>2. /\ result = NoResult /\ result' = result
      /\ kept' = [kept EXCEPT ![s] = @ \o bounded.text]
      /\ truncated' = (truncated \/ bounded.cut)
      /\ said' = [said EXCEPT ![s] = @ \o ToValidUTF8(delta)]
  BY <1>1 DEF TakeDelta
<1>3. /\ kept \in [Outputs -> Seq(Runes)] /\ said \in [Outputs -> Seq(Runes)]
      /\ \A t \in Outputs : Keeps(kept[t], said[t], MaxBytes)
      /\ truncated <=> kept # said
  BY DEF ShellInv
<1>4. MaxBytes \in Nat /\ delta \in Seq(RawUnits)
  BY OutputAssumption
<1>5. PICK room : room = MaxBytes - Bytes(kept[s])
  OBVIOUS
<1>6. /\ Keeps(kept[s] \o Bounded(delta, room).text, said[s] \o ToValidUTF8(delta), MaxBytes)
      /\ kept[s] \o Bounded(delta, room).text # said[s] \o ToValidUTF8(delta)
           <=> kept[s] # said[s] \/ Bounded(delta, room).cut
  <2>1. Keeps(kept[s], said[s], MaxBytes)
    BY <1>3
  <2> HIDE DEF ShellInv
  <2> QED BY <1>4, <1>5, <2>1, KeepsMore
<1>7. bounded = Bounded(delta, room)
  BY <1>1, <1>5, Zenon
<1>8. /\ Keeps(kept[s] \o bounded.text, said[s] \o ToValidUTF8(delta), MaxBytes)
      /\ kept[s] \o bounded.text # said[s] \o ToValidUTF8(delta)
           <=> kept[s] # said[s] \/ bounded.cut
  BY <1>6, <1>7, Zenon
<1>9. kept'[s] = kept[s] \o bounded.text /\ said'[s] = said[s] \o ToValidUTF8(delta)
  BY <1>2, <1>3
<1>10. \A t \in Outputs \ {s} : kept'[t] = kept[t] /\ said'[t] = said[t]
  BY <1>2, <1>3
<1>11. \A t \in Outputs : Keeps(kept'[t], said'[t], MaxBytes)
  <2>1. Keeps(kept'[s], said'[s], MaxBytes)
    BY <1>8, <1>9, Zenon
  <2> QED BY <1>3, <1>10, <2>1
<1>12. kept' \in [Outputs -> Seq(Runes)] /\ said' \in [Outputs -> Seq(Runes)]
  <2>1. kept'[s] \in Seq(Runes) /\ said'[s] \in Seq(Runes)
    BY <1>11 DEF Keeps
  <2> QED BY <1>2, <1>3, <1>9, <2>1
<1>13. (kept' # said') <=> (kept # said \/ bounded.cut)
  <2>1. (kept'[s] # said'[s]) <=> (kept[s] # said[s] \/ bounded.cut)
    BY <1>8, <1>9, Zenon
  <2>2. (kept # said) <=> \E t \in Outputs : kept[t] # said[t]
    BY <1>3
  <2>3. (kept' # said') <=> \E t \in Outputs : kept'[t] # said'[t]
    BY <1>12
  <2> QED BY <1>10, <2>1, <2>2, <2>3
<1>14. truncated' \in BOOLEAN /\ (truncated' <=> kept' # said')
  BY <1>2, <1>3, <1>13
<1>15. LossIsTold'
  BY <1>2 DEF LossIsTold, NoResult
<1> QED BY <1>11, <1>12, <1>14, <1>15 DEF ShellInv

LEMMA TakeTerminalInv ==
  ASSUME ShellInv, NEW event \in Terminal, TakeTerminal(event)
  PROVE  ShellInv'
<1>1. /\ result' = [event |-> event, content |-> Content(event)]
      /\ kept' = kept /\ said' = said /\ truncated' = truncated
  BY DEF TakeTerminal
<1>2. LossIsTold'
  <2> SUFFICES ASSUME event = "exit"
               PROVE  /\ result'.content.marked = (kept # said)
                      /\ ~result'.content.marked => result'.content.text = [s \in Outputs |-> Trim(said[s])]
    BY <1>1 DEF LossIsTold
  <2>1. result'.content = [text |-> [s \in Outputs |-> Trim(kept[s])], marked |-> truncated]
    BY <1>1 DEF Content
  <2>2. result'.content.marked = truncated /\ result'.content.text = [s \in Outputs |-> Trim(kept[s])]
    BY <2>1
  <2>3. truncated = (kept # said)
    BY DEF ShellInv
  <2>4. ~truncated => kept = said
    BY <2>3
  <2> QED BY <2>2, <2>3, <2>4
<1> QED BY <1>1, <1>2 DEF ShellInv

LEMMA ShellStepInv == ShellInv /\ [ShellNext]_shellVars => ShellInv'
<1> SUFFICES ASSUME ShellInv, [ShellNext]_shellVars PROVE ShellInv'
  OBVIOUS
<1>1. ASSUME NEW s \in Outputs, NEW delta \in Deltas, TakeDelta(s, delta) PROVE ShellInv'
  BY <1>1, TakeDeltaInv
<1>2. ASSUME NEW event \in Terminal, TakeTerminal(event) PROVE ShellInv'
  BY <1>2, TakeTerminalInv
<1>3. CASE UNCHANGED shellVars
  BY <1>3 DEF ShellInv, LossIsTold, shellVars
<1> QED BY <1>1, <1>2, <1>3 DEF ShellNext

LEMMA ShellInvTells == ShellInv => ShellLossIsTold
<1> SUFFICES ASSUME ShellInv PROVE ShellLossIsTold
  OBVIOUS
<1>1. HeadIsKept
  BY DEF ShellInv, Keeps, HeadIsKept
<1> QED BY <1>1 DEF ShellInv, ShellLossIsTold

-------------------------------------------------------------------------------
LEMMA SeqOfLength ==
  ASSUME NEW A, NEW n \in Nat, NEW s \in [1..n -> A]
  PROVE  s \in Seq(A) /\ Len(s) = n
<1>1. s \in Seq(A)
  BY SeqDef
<1>2. PICK m : m = Len(s)
  OBVIOUS
<1>3. m \in Nat /\ DOMAIN s = 1..m
  BY <1>1, <1>2, LenProperties
<1>4. DOMAIN s = 1..n
  OBVIOUS
<1>5. \A i \in Nat \ {0} : i <= m <=> i <= n
  <2>1. \A i \in Nat \ {0} : (i \in 1..m <=> i <= m) /\ (i \in 1..n <=> i <= n)
    BY <1>3
  <2> QED BY <1>3, <1>4, <2>1
<1>6. m = n
  BY <1>3, <1>5
<1> QED BY <1>1, <1>2, <1>6

(* The concatenation of sequences, summed up from its beginning as the      *)
(* bytes of a text are.                                                     *)
LEMMA FlattenSums ==
  ASSUME NEW A, NEW seqs \in Seq(Seq(A))
  PROVE  \E sum \in [0..Len(seqs) -> Seq(A)] :
           /\ FlattenSeq(seqs) = sum[Len(seqs)]
           /\ sum[0] = <<>> /\ \A i \in 1..Len(seqs) : sum[i] = sum[i - 1] \o seqs[i]
<1> DEFINE n == Len(seqs)
           Flat(f) == [i \in 1..n |-> IF i = 1 THEN seqs[i] ELSE f[i - 1] \o seqs[i]]
           chosen == CHOOSE f : f = Flat(f)
           step == [i \in 1..n |-> [s \in Seq(A) |-> s \o seqs[i]]]
<1>1. n \in Nat /\ \A i \in 1..n : seqs[i] \in Seq(A)
  BY LenProperties, ElementOfSeq
<1>2. <<>> \in Seq(A) /\ \A s \in Seq(A) : <<>> \o s = s
  BY EmptySeq, ConcatEmptySeq
<1>3. ASSUME NEW i \in 1..n, NEW s \in Seq(A) PROVE s \o seqs[i] \in Seq(A)
  BY <1>1, ConcatProperties
<1>4. step \in [1..n -> [Seq(A) -> Seq(A)]]
  <2> HIDE DEF n
  <2> QED BY <1>3
<1>5. PICK sum : IsRun(sum, Seq(A), <<>>, n, step)
  <2> HIDE DEF n, step
  <2> QED BY <1>1, <1>2, <1>4, LoopRuns
<1>6. /\ sum \in [0..n -> Seq(A)] /\ sum[0] = <<>>
      /\ \A i \in 1..n : sum[i] = sum[i - 1] \o seqs[i]
  <2>1. sum \in [0..n -> Seq(A)] /\ sum[0] = <<>> /\ \A i \in 1..n : sum[i] = step[i][sum[i - 1]]
    <3> HIDE DEF n, step
    <3> QED BY <1>5 DEF IsRun
  <2>2. ASSUME NEW i \in 1..n PROVE sum[i] = sum[i - 1] \o seqs[i]
    <3> HIDE DEF n
    <3>1. sum[i - 1] \in Seq(A)
      BY <1>1, <2>1
    <3>2. step[i][sum[i - 1]] = sum[i - 1] \o seqs[i]
      BY <3>1
    <3> QED BY <2>1, <3>2
  <2> QED BY <2>1, <2>2
<1>7. CASE n = 0
  <2>1. FlattenSeq(seqs) = seqs /\ seqs = <<>>
    BY <1>7, EmptySeq DEF FlattenSeq
  <2> QED BY <1>6, <1>7, <2>1
<1>8. CASE n # 0
  <2>1. \E f : f = Flat(f)
    <3>1. PICK f : f = [i \in 1..n |-> sum[i]]
      OBVIOUS
    <3>2. ASSUME NEW i \in 1..n PROVE f[i] = IF i = 1 THEN seqs[i] ELSE f[i - 1] \o seqs[i]
      <4> HIDE DEF n
      <4>1. CASE i = 1
        <5>3. f[i] = sum[i] /\ sum[i] = sum[i - 1] \o seqs[i]
          BY <1>6, <3>1
        <5>4. sum[i - 1] = <<>>
          BY <1>6, <4>1
        <5>1. f[i] = <<>> \o seqs[i]
          BY <5>3, <5>4
        <5>2. <<>> \o seqs[i] = seqs[i]
          BY <1>1, <1>2
        <5> QED BY <4>1, <5>1, <5>2
      <4>2. CASE i # 1
        <5>1. i - 1 \in 1..n
          BY <1>1, <4>2
        <5>2. f[i - 1] = sum[i - 1]
          BY <3>1, <5>1
        <5> QED BY <1>6, <3>1, <4>2, <5>2
      <4> QED BY <4>1, <4>2
    <3>3. f = Flat(f)
      <4> HIDE DEF n
      <4> QED BY <3>1, <3>2
    <3> HIDE DEF Flat
    <3> QED BY <3>3
  <2>2. chosen = Flat(chosen)
    <3> HIDE DEF Flat
    <3> QED BY <2>1
  <2>3. FlattenSeq(seqs) = chosen[n]
    BY <1>8 DEF FlattenSeq
  <2> HIDE DEF chosen
  <2>4. \A i \in 1..n : chosen[i] = IF i = 1 THEN seqs[i] ELSE chosen[i - 1] \o seqs[i]
    <3> HIDE DEF n
    <3> QED BY <2>2
  <2>5. PICK g : g = [i \in 0..n |-> IF i = 0 THEN <<>> ELSE chosen[i]]
    OBVIOUS
  <2>6. SameLoop(sum, g, n)
    <3>1. sum[0] = g[0]
      BY <1>1, <1>6, <2>5
    <3>2. ASSUME NEW i \in 1..n, sum[i - 1] = g[i - 1] PROVE sum[i] = g[i]
      <4> HIDE DEF n
      <4>1. g[i] = chosen[i]
        BY <1>1, <2>5
      <4>2. CASE i = 1
        <5>1. sum[i - 1] = <<>> /\ seqs[i] \in Seq(A)
          BY <1>1, <1>6, <4>2
        <5>2. sum[i] = seqs[i]
          BY <1>2, <1>6, <5>1
        <5> QED BY <2>4, <4>1, <4>2, <5>2
      <4>3. CASE i # 1
        <5>1. g[i - 1] = chosen[i - 1]
          BY <1>1, <2>5, <4>3
        <5> QED BY <1>6, <2>4, <3>2, <4>1, <4>3, <5>1
      <4> QED BY <4>2, <4>3
    <3> HIDE DEF n
    <3> QED BY <3>1, <3>2 DEF SameLoop
  <2>7. sum[n] = g[n] /\ g[n] = chosen[n]
    <3> HIDE DEF n
    <3>1. sum[n] = g[n]
      BY <1>1, <2>6, LoopIsUnique
    <3> QED BY <1>1, <1>8, <2>5, <3>1
  <2> QED BY <1>6, <2>3, <2>7
<1> QED BY <1>7, <1>8

LEMMA FlattenIs ==
  ASSUME NEW A, NEW seqs \in Seq(Seq(A)), NEW sum, sum[0] = <<>>,
         \A i \in 1..Len(seqs) : sum[i] = sum[i - 1] \o seqs[i]
  PROVE  FlattenSeq(seqs) = sum[Len(seqs)]
<1>1. Len(seqs) \in Nat
  BY LenProperties
<1>2. PICK f \in [0..Len(seqs) -> Seq(A)] :
        /\ FlattenSeq(seqs) = f[Len(seqs)]
        /\ f[0] = <<>> /\ \A i \in 1..Len(seqs) : f[i] = f[i - 1] \o seqs[i]
  BY FlattenSums
<1>3. SameLoop(f, sum, Len(seqs))
  BY <1>2 DEF SameLoop
<1>4. \A i \in 0..Len(seqs) : f[i] = sum[i]
  BY <1>1, <1>3, LoopIsUnique
<1> QED BY <1>1, <1>2, <1>4

LEMMA FlattenType ==
  ASSUME NEW A, NEW seqs \in Seq(Seq(A)) PROVE FlattenSeq(seqs) \in Seq(A)
<1>1. Len(seqs) \in Nat
  BY LenProperties
<1>2. PICK f \in [0..Len(seqs) -> Seq(A)] : FlattenSeq(seqs) = f[Len(seqs)]
  BY FlattenSums
<1> QED BY <1>1, <1>2

LEMMA FlattenNothing == FlattenSeq(<<>>) = <<>>
BY DEF FlattenSeq

LEMMA FlattenAppend ==
  ASSUME NEW A, NEW seqs \in Seq(Seq(A)), NEW s \in Seq(A)
  PROVE  FlattenSeq(Append(seqs, s)) = FlattenSeq(seqs) \o s
<1>1. Len(seqs) \in Nat
  BY LenProperties
<1>2. PICK f \in [0..Len(seqs) -> Seq(A)] :
        /\ FlattenSeq(seqs) = f[Len(seqs)]
        /\ f[0] = <<>> /\ \A i \in 1..Len(seqs) : f[i] = f[i - 1] \o seqs[i]
  BY FlattenSums
<1>3. PICK all : all = Append(seqs, s)
  OBVIOUS
<1>4. /\ all \in Seq(Seq(A)) /\ Len(all) = Len(seqs) + 1
      /\ \A i \in 1..Len(seqs) : all[i] = seqs[i]
      /\ all[Len(seqs) + 1] = s
  BY <1>3, AppendProperties
<1>5. PICK g : g = [i \in 0..Len(all) |-> IF i <= Len(seqs) THEN f[i] ELSE f[Len(seqs)] \o s]
  OBVIOUS
<1>6. g[0] = <<>> /\ g[Len(all)] = f[Len(seqs)] \o s
  BY <1>1, <1>2, <1>4, <1>5
<1>7. ASSUME NEW i \in 1..Len(all) PROVE g[i] = g[i - 1] \o all[i]
  <2>1. CASE i <= Len(seqs)
    <3>1. i \in 1..Len(seqs) /\ g[i] = f[i] /\ g[i - 1] = f[i - 1]
      BY <1>1, <1>4, <1>5, <2>1
    <3> QED BY <1>2, <1>4, <3>1
  <2>2. CASE i = Len(seqs) + 1
    <3>1. PICK b : b = i - 1
      OBVIOUS
    <3>2. b = Len(seqs) /\ b \in 0..Len(all)
      BY <1>1, <1>4, <2>2, <3>1
    <3>3. g[b] = f[Len(seqs)]
      BY <1>1, <1>5, <3>2
    <3>4. g[i] = f[Len(seqs)] \o s
      BY <1>4, <1>6, <2>2
    <3> QED BY <1>4, <2>2, <3>1, <3>3, <3>4, Zenon
  <2> QED BY <1>1, <1>4, <2>1, <2>2
<1>8. FlattenSeq(all) = g[Len(all)]
  BY <1>4, <1>6, <1>7, FlattenIs
<1> QED BY <1>2, <1>3, <1>6, <1>8

LEMMA BeginningIs ==
  ASSUME NEW A, NEW all \in Seq(A), NEW n \in Nat
  PROVE  /\ Beginning(all, n) \in Seq(A)
         /\ Len(Beginning(all, n)) = IF Len(all) > n THEN n ELSE Len(all)
         /\ \A i \in 1..Len(Beginning(all, n)) : Beginning(all, n)[i] = all[i]
<1>1. Len(all) \in Nat /\ \A i \in 1..Len(all) : all[i] \in A
  BY LenProperties, ElementOfSeq
<1>2. CASE Len(all) > n
  <2>1. Beginning(all, n) = SubSeq(all, 1, n)
    BY <1>2 DEF Beginning
  <2>2. PICK some : some = SubSeq(all, 1, n)
    OBVIOUS
  <2>3. some \in Seq(A) /\ Len(some) = (IF 1 <= n THEN n - 1 + 1 ELSE 0) /\ \A i \in 1..n - 1 + 1 : some[i] = all[1 + i - 1]
    <3>1. n \in Int /\ 1 \in Int /\ \A i \in 1..n : all[i] \in A
      BY <1>1, <1>2
    <3> QED BY <2>2, <3>1, SubSeqProperties
  <2>4. some \in Seq(A) /\ Len(some) = n /\ \A i \in 1..n : some[i] = all[i]
    BY <2>3
  <2> QED BY <1>2, <2>1, <2>2, <2>4
<1>3. CASE ~(Len(all) > n)
  BY <1>3 DEF Beginning
<1> QED BY <1>2, <1>3

(* Bounding what is found so far loses nothing of the beginning of it all. *)
LEMMA BeginningMore ==
  ASSUME NEW A, NEW all \in Seq(A), NEW more \in Seq(A), NEW n \in Nat
  PROVE  /\ Beginning(Beginning(all, n) \o more, n) = Beginning(all \o more, n)
         /\ Len(all \o more) > n <=> Len(all) > n \/ Len(Beginning(all, n) \o more) > n
<1>1. CASE ~(Len(all) > n)
  <2>1. Beginning(all, n) = all
    BY <1>1 DEF Beginning
  <2> QED BY <1>1, <2>1, Zenon
<1>2. CASE Len(all) > n
  <2>1. PICK some : some = Beginning(all, n)
    OBVIOUS
  <2>2. some \in Seq(A) /\ Len(some) = n /\ \A i \in 1..n : some[i] = all[i]
    <3>1. some \in Seq(A) /\ Len(some) = (IF Len(all) > n THEN n ELSE Len(all)) /\ \A i \in 1..Len(some) : some[i] = all[i]
      BY <2>1, BeginningIs
    <3> QED BY <1>2, <3>1
  <2>3. PICK s : s = some \o more
    OBVIOUS
  <2>4. PICK t : t = all \o more
    OBVIOUS
  <2>5. Len(all) \in Nat /\ Len(more) \in Nat
    BY LenProperties
  <2>6. s \in Seq(A) /\ Len(s) = n + Len(more) /\ \A i \in 1..n : s[i] = all[i]
    <3>1. /\ s \in Seq(A) /\ Len(s) = Len(some) + Len(more)
          /\ \A i \in 1..Len(some) + Len(more) : s[i] = IF i <= Len(some) THEN some[i] ELSE more[i - Len(some)]
      BY <2>2, <2>3, ConcatProperties
    <3> QED BY <2>2, <2>5, <3>1
  <2>7. t \in Seq(A) /\ Len(t) = Len(all) + Len(more) /\ \A i \in 1..n : t[i] = all[i]
    <3>1. /\ t \in Seq(A) /\ Len(t) = Len(all) + Len(more)
          /\ \A i \in 1..Len(all) + Len(more) : t[i] = IF i <= Len(all) THEN all[i] ELSE more[i - Len(all)]
      BY <2>4, ConcatProperties
    <3> QED BY <1>2, <2>5, <3>1
  <2>8. Beginning(s, n) \in Seq(A) /\ Len(Beginning(s, n)) = n /\ \A i \in 1..n : Beginning(s, n)[i] = all[i]
    <3>1. /\ Beginning(s, n) \in Seq(A) /\ Len(Beginning(s, n)) = (IF Len(s) > n THEN n ELSE Len(s))
          /\ \A i \in 1..Len(Beginning(s, n)) : Beginning(s, n)[i] = s[i]
      BY <2>6, BeginningIs
    <3> QED BY <2>5, <2>6, <3>1
  <2>9. Beginning(t, n) \in Seq(A) /\ Len(Beginning(t, n)) = n /\ \A i \in 1..n : Beginning(t, n)[i] = all[i]
    <3>1. /\ Beginning(t, n) \in Seq(A) /\ Len(Beginning(t, n)) = (IF Len(t) > n THEN n ELSE Len(t))
          /\ \A i \in 1..Len(Beginning(t, n)) : Beginning(t, n)[i] = t[i]
      BY <2>7, BeginningIs
    <3> QED BY <1>2, <2>5, <2>7, <3>1
  <2>10. Beginning(s, n) = Beginning(t, n)
    BY <2>8, <2>9, SeqEqual
  <2>11. Len(t) > n
    BY <1>2, <2>5, <2>7
  <2> QED BY <1>2, <2>1, <2>3, <2>4, <2>10, <2>11, Zenon
<1> QED BY <1>1, <1>2

-------------------------------------------------------------------------------
(***************************************************************************)
(* A search.                                                               *)
(***************************************************************************)
Found == [malformed : BOOLEAN, items : [Kinds -> Seq(Hits)], truncated : BOOLEAN]
FoundNothing == [malformed |-> FALSE, items |-> [k \in Kinds |-> <<>>], truncated |-> FALSE]

LEMMA AppendUnionType ==
  ASSUME NEW found \in Found, NEW union \in Unions
  PROVE  AppendUnion(found, union) \in Found
<1>1. union.items \in Seq(Hits) /\ MaxItems \in Nat
  BY ResultsAssumption DEF Unions
<1>2. found.items \in [Kinds -> Seq(Hits)] /\ found.malformed \in BOOLEAN /\ found.truncated \in BOOLEAN
  BY DEF Found
<1>3. ASSUME NEW k \in Kinds, NEW all, all = found.items[k] \o union.items
      PROVE  [found EXCEPT !.items[k] = Beginning(all, MaxItems),
                           !.truncated = @ \/ Len(all) > MaxItems] \in Found
  <2>1. all \in Seq(Hits)
    BY <1>1, <1>2, <1>3, ConcatProperties
  <2>2. Beginning(all, MaxItems) \in Seq(Hits)
    BY <1>1, <2>1, BeginningIs
  <2> QED BY <1>2, <2>2 DEF Found
<1>4. [found EXCEPT !.malformed = TRUE] \in Found
  BY DEF Found
<1> QED BY <1>3, <1>4 DEF AppendUnion

LEMMA AppendUnionsRuns ==
  ASSUME NEW unions \in Seq(Unions)
  PROVE  /\ AppendUnions(unions)[0] = FoundNothing
         /\ \A i \in 1..Len(unions) :
              AppendUnions(unions)[i] = AppendUnion(AppendUnions(unions)[i - 1], unions[i])
         /\ \A i \in 0..Len(unions) : AppendUnions(unions)[i] \in Found
<1> DEFINE n == Len(unions)
           Body(f) == [i \in 0..n |-> IF i = 0 THEN FoundNothing ELSE AppendUnion(f[i - 1], unions[i])]
           chosen == CHOOSE f : f = Body(f)
           step == [i \in 1..n |-> [found \in Found |-> AppendUnion(found, unions[i])]]
<1>1. n \in Nat /\ \A i \in 1..n : unions[i] \in Unions
  BY LenProperties, ElementOfSeq
<1>2. FoundNothing \in Found
  <2>1. <<>> \in Seq(Hits)
    BY EmptySeq
  <2> QED BY <2>1 DEF FoundNothing, Found
<1>3. PICK f : IsRun(f, Found, FoundNothing, n, step)
  <2>1. step \in [1..n -> [Found -> Found]]
    <3> HIDE DEF n
    <3> QED BY <1>1, AppendUnionType
  <2> HIDE DEF n, step
  <2> QED BY <1>1, <1>2, <2>1, LoopRuns
<1>4. \E g : g = Body(g)
  <2> HIDE DEF n
  <2>1. f \in [0..n -> Found] /\ f[0] = FoundNothing /\ \A i \in 1..n : f[i] = step[i][f[i - 1]]
    <3> HIDE DEF step
    <3> QED BY <1>3 DEF IsRun
  <2>2. ASSUME NEW i \in 1..n PROVE f[i] = AppendUnion(f[i - 1], unions[i])
    <3>1. f[i - 1] \in Found
      BY <1>1, <2>1
    <3>2. step[i][f[i - 1]] = AppendUnion(f[i - 1], unions[i])
      BY <3>1
    <3> QED BY <2>1, <3>2
  <2>3. f = Body(f)
    BY <1>1, <2>1, <2>2
  <2> HIDE DEF Body
  <2> QED BY <2>3
<1>5. chosen = Body(chosen)
  <2> HIDE DEF Body
  <2> QED BY <1>4
<1>6. AppendUnions(unions) = chosen
  BY DEF AppendUnions, FoundNothing
<1> HIDE DEF chosen
<1>7. chosen[0] = FoundNothing /\ \A i \in 1..n : chosen[i] = AppendUnion(chosen[i - 1], unions[i])
  <2> HIDE DEF n
  <2> QED BY <1>1, <1>5
<1>8. \A i \in 0..n : chosen[i] \in Found
  <2> DEFINE T == {i \in 0..n : chosen[i] \in Found}
  <2>1. 0 \in T
    BY <1>1, <1>2, <1>7
  <2>2. ASSUME NEW i \in 1..n, i - 1 \in T PROVE i \in T
    <3>1. chosen[i] = AppendUnion(chosen[i - 1], unions[i]) /\ chosen[i - 1] \in Found /\ unions[i] \in Unions
      BY <1>1, <1>7, <2>2
    <3> QED BY <1>1, <3>1, AppendUnionType
  <2> HIDE DEF T, n
  <2>3. \A i \in 0..n : i \in T
    BY <1>1, <2>1, <2>2, IntervalInduction
  <2> QED BY <2>3 DEF T
<1> QED BY <1>6, <1>7, <1>8

(* What the unions so far have of a kind, before each of them and after it. *)
UnionItems(unions, k) ==
  [i \in DOMAIN unions |-> IF unions[i].kind = k THEN unions[i].items ELSE <<>>]
IsSumOfKind(sum, unions, k) ==
  /\ sum \in [0..Len(unions) -> Seq(Hits)] /\ OfKind(unions, k) = sum[Len(unions)] /\ sum[0] = <<>>
  /\ \A i \in 1..Len(unions) :
       sum[i] = IF unions[i].kind = k THEN sum[i - 1] \o unions[i].items ELSE sum[i - 1]

LEMMA OfKindSums ==
  ASSUME NEW unions \in Seq(Unions), NEW k
  PROVE  \E sum : IsSumOfKind(sum, unions, k)
<1>1. PICK items : items = UnionItems(unions, k)
  OBVIOUS
<1>2. Len(unions) \in Nat /\ DOMAIN unions = 1..Len(unions) /\ \A i \in 1..Len(unions) : unions[i] \in Unions
  BY LenProperties, ElementOfSeq
<1>3. \A i \in 1..Len(unions) :
        items[i] = (IF unions[i].kind = k THEN unions[i].items ELSE <<>>) /\ items[i] \in Seq(Hits)
  BY <1>1, <1>2, EmptySeq DEF UnionItems, Unions
<1>4. items \in Seq(Seq(Hits)) /\ Len(items) = Len(unions)
  <2>1. items = [i \in 1..Len(unions) |-> items[i]]
    BY <1>1, <1>2 DEF UnionItems
  <2>2. items \in [1..Len(unions) -> Seq(Hits)]
    BY <1>3, <2>1
  <2> QED BY <1>2, <2>2, SeqOfLength
<1>5. PICK sum \in [0..Len(unions) -> Seq(Hits)] :
        /\ FlattenSeq(items) = sum[Len(unions)]
        /\ sum[0] = <<>> /\ \A i \in 1..Len(unions) : sum[i] = sum[i - 1] \o items[i]
  <2>1. \E sum \in [0..Len(items) -> Seq(Hits)] :
           /\ FlattenSeq(items) = sum[Len(items)]
           /\ sum[0] = <<>> /\ \A i \in 1..Len(items) : sum[i] = sum[i - 1] \o items[i]
    BY <1>4, FlattenSums
  <2> QED BY <1>4, <2>1, Zenon
<1>6. OfKind(unions, k) = FlattenSeq(items)
  BY <1>1 DEF OfKind, UnionItems
<1>7. ASSUME NEW i \in 1..Len(unions)
      PROVE  sum[i] = IF unions[i].kind = k THEN sum[i - 1] \o unions[i].items ELSE sum[i - 1]
  <2>1. sum[i] = sum[i - 1] \o items[i]
    BY <1>5
  <2>2. i - 1 \in 0..Len(unions)
    BY <1>2
  <2>3. sum[i - 1] \in Seq(Hits)
    BY <2>2
  <2>4. sum[i - 1] \o <<>> = sum[i - 1]
    BY <2>3, ConcatEmptySeq
  <2> QED BY <1>3, <2>1, <2>4
<1>8. IsSumOfKind(sum, unions, k)
  BY <1>4, <1>5, <1>6, <1>7 DEF IsSumOfKind
<1> QED BY <1>8

(* After each union the search has the first results of every kind, and     *)
(* its flag says whether one of the kinds has more.                         *)
HasHeads(found, sums, i) ==
  ~found.malformed =>
    /\ \A k \in Kinds : found.items[k] = Beginning(sums[k][i], MaxItems)
    /\ found.truncated <=> \E k \in Kinds : Len(sums[k][i]) > MaxItems

LEMMA UnionKeepsHeads ==
  ASSUME NEW unions \in Seq(Unions), NEW sums, NEW i \in 1..Len(unions), NEW found \in Found,
         \A k \in Kinds : IsSumOfKind(sums[k], unions, k),
         HasHeads(found, sums, i - 1)
  PROVE  HasHeads(AppendUnion(found, unions[i]), sums, i)
<1>1. PICK union \in Unions : union = unions[i]
  BY ElementOfSeq
<1>2. Len(unions) \in Nat /\ MaxItems \in Nat
  BY LenProperties, ResultsAssumption
<1>3. \A k \in Kinds : /\ sums[k][i - 1] \in Seq(Hits)
                       /\ sums[k][i] = IF union.kind = k THEN sums[k][i - 1] \o union.items ELSE sums[k][i - 1]
  <2> TAKE k \in Kinds
  <2>1. IsSumOfKind(sums[k], unions, k) /\ i - 1 \in 0..Len(unions)
    BY <1>2
  <2> QED BY <1>1, <2>1 DEF IsSumOfKind
<1>4. SUFFICES ASSUME ~AppendUnion(found, union).malformed
               PROVE  HasHeads(AppendUnion(found, union), sums, i)
  BY <1>1 DEF HasHeads
<1>5. found.malformed \in BOOLEAN /\ found.items \in [Kinds -> Seq(Hits)] /\ found.truncated \in BOOLEAN
  BY DEF Found
<1>6. ~found.malformed
  BY <1>4 DEF AppendUnion
<1>7. /\ \A k \in Kinds : found.items[k] = Beginning(sums[k][i - 1], MaxItems)
      /\ found.truncated <=> \E k \in Kinds : Len(sums[k][i - 1]) > MaxItems
  BY <1>6 DEF HasHeads
<1>8. CASE union.kind = "absent"
  <2>1. AppendUnion(found, union) = found
    BY <1>8 DEF AppendUnion
  <2>2. \A k \in Kinds : sums[k][i] = sums[k][i - 1]
    BY <1>3, <1>8 DEF Kinds
  <2> QED BY <1>7, <2>1, <2>2 DEF HasHeads
<1>9. CASE union.kind \notin Kinds /\ union.kind # "absent"
  <2>1. AppendUnion(found, union).malformed
    BY <1>6, <1>9 DEF AppendUnion, Found
  <2> QED BY <1>4, <2>1
<1>10. CASE union.kind \in Kinds
  <2>1. PICK kind \in Kinds : kind = union.kind
    BY <1>10
  <2>2. PICK all : all = found.items[kind] \o union.items
    OBVIOUS
  <2>3. PICK next : next = AppendUnion(found, union)
    OBVIOUS
  <2>4. next = [found EXCEPT !.items[kind] = Beginning(all, MaxItems),
                             !.truncated = @ \/ Len(all) > MaxItems]
    BY <1>6, <2>1, <2>2, <2>3 DEF AppendUnion, Kinds
  <2>5. /\ next.items[kind] = Beginning(all, MaxItems)
        /\ \A k \in Kinds \ {kind} : next.items[k] = found.items[k]
        /\ next.truncated = (found.truncated \/ Len(all) > MaxItems)
    BY <1>5, <2>4 DEF Found
  <2>6. union.items \in Seq(Hits) /\ sums[kind][i - 1] \in Seq(Hits)
    BY <1>3 DEF Unions
  <2>7. /\ Beginning(all, MaxItems) = Beginning(sums[kind][i - 1] \o union.items, MaxItems)
        /\ Len(sums[kind][i - 1] \o union.items) > MaxItems
             <=> Len(sums[kind][i - 1]) > MaxItems \/ Len(all) > MaxItems
    <3>1. all = Beginning(sums[kind][i - 1], MaxItems) \o union.items
      BY <1>7, <2>2
    <3> QED BY <1>2, <2>6, <3>1, BeginningMore
  <2>8. sums[kind][i] = sums[kind][i - 1] \o union.items /\ \A k \in Kinds \ {kind} : sums[k][i] = sums[k][i - 1]
    BY <1>3, <2>1
  <2>9. \A k \in Kinds : next.items[k] = Beginning(sums[k][i], MaxItems)
    BY <1>7, <2>5, <2>7, <2>8
  <2>10. next.truncated <=> \E k \in Kinds : Len(sums[k][i]) > MaxItems
    BY <1>7, <2>5, <2>7, <2>8
  <2> QED BY <2>3, <2>9, <2>10 DEF HasHeads
<1> QED BY <1>8, <1>9, <1>10

LEMMA UnionsHaveHeads ==
  ASSUME NEW unions \in Seq(Unions), NEW found, found = AppendUnions(unions)[Len(unions)],
         ~found.malformed
  PROVE  /\ \A k \in Kinds : found.items[k] = Beginning(OfKind(unions, k), MaxItems)
         /\ found.truncated <=> \E k \in Kinds : Len(OfKind(unions, k)) > MaxItems
<1>1. PICK sums : sums = [k \in Kinds |-> CHOOSE sum : IsSumOfKind(sum, unions, k)]
  OBVIOUS
<1>2. \A k \in Kinds : IsSumOfKind(sums[k], unions, k)
  BY <1>1, OfKindSums
<1>3. PICK all : all = AppendUnions(unions)
  OBVIOUS
<1>4. /\ all[0] = FoundNothing
      /\ \A i \in 1..Len(unions) : all[i] = AppendUnion(all[i - 1], unions[i])
      /\ \A i \in 0..Len(unions) : all[i] \in Found
  BY <1>3, AppendUnionsRuns, Zenon
<1>5. Len(unions) \in Nat /\ MaxItems \in Nat
  BY LenProperties, ResultsAssumption
<1> DEFINE T == {i \in 0..Len(unions) : HasHeads(all[i], sums, i)}
<1>6. 0 \in T
  <2>1. \A k \in Kinds : sums[k][0] = <<>>
    BY <1>2 DEF IsSumOfKind
  <2>2. Beginning(<<>>, MaxItems) = <<>> /\ ~(Len(<<>>) > MaxItems)
    BY <1>5 DEF Beginning
  <2>3. HasHeads(FoundNothing, sums, 0)
    BY <2>1, <2>2 DEF HasHeads, FoundNothing
  <2> QED BY <1>4, <1>5, <2>3
<1>7. ASSUME NEW i \in 1..Len(unions), i - 1 \in T PROVE i \in T
  <2>1. all[i - 1] \in Found /\ HasHeads(all[i - 1], sums, i - 1) /\ all[i] = AppendUnion(all[i - 1], unions[i])
    BY <1>4, <1>7
  <2>2. HasHeads(all[i], sums, i)
    BY <1>2, <2>1, UnionKeepsHeads
  <2> QED BY <1>5, <2>2
<1>8. Len(unions) \in T
  <2> HIDE DEF T
  <2>1. \A i \in 0..Len(unions) : i \in T
    BY <1>5, <1>6, <1>7, IntervalInduction
  <2> QED BY <1>5, <2>1
<1>9. HasHeads(found, sums, Len(unions))
  BY <1>3, <1>8
<1>10. \A k \in Kinds : sums[k][Len(unions)] = OfKind(unions, k)
  BY <1>2 DEF IsSumOfKind
<1> QED BY <1>9, <1>10 DEF HasHeads

LEMMA SearchGives ==
  ASSUME NEW msg \in Searches, NEW given, given = Search(msg), given.status = "ok"
  PROVE  /\ \A k \in Kinds : given.items[k] = Beginning(OfKind(AllUnions(msg), k), MaxItems)
         /\ given.truncated = \E k \in Kinds : Len(OfKind(AllUnions(msg), k)) > MaxItems
<1>1. PICK unions : unions = AllUnions(msg)
  OBVIOUS
<1>2. unions \in Seq(Unions)
  <2>1. msg.workspaces \in Seq(Unions) /\ msg.active \in Unions
    BY ResultsAssumption
  <2> QED BY <1>1, <2>1, AppendProperties DEF AllUnions
<1>3. PICK found : found = AppendUnions(unions)[Len(unions)]
  OBVIOUS
<1>4. Search(msg) = IF found.malformed THEN Malformed
                    ELSE [status |-> "ok", items |-> found.items, truncated |-> found.truncated]
  BY <1>1, <1>3, Zenon DEF Search
<1>5. ~found.malformed
  BY <1>4 DEF Malformed
<1>6. given.items = found.items /\ given.truncated = found.truncated
  BY <1>4, <1>5
<1>7. found \in Found
  BY <1>2, <1>3, AppendUnionsRuns, LenProperties
<1>8. /\ \A k \in Kinds : found.items[k] = Beginning(OfKind(unions, k), MaxItems)
      /\ found.truncated <=> \E k \in Kinds : Len(OfKind(unions, k)) > MaxItems
  BY <1>2, <1>3, <1>5, UnionsHaveHeads
<1>9. found.truncated \in BOOLEAN
  BY <1>7 DEF Found
<1>10. found.truncated = \E k \in Kinds : Len(OfKind(unions, k)) > MaxItems
  BY <1>8, <1>9
<1> QED BY <1>1, <1>6, <1>8, <1>10, Zenon

-------------------------------------------------------------------------------
(***************************************************************************)
(* An MCP result.                                                          *)
(***************************************************************************)
Summary ==
  [sections : Seq(Seq(Runes)), bytes : Nat, open : BOOLEAN, malformed : BOOLEAN, truncated : BOOLEAN]
FirstSummary(items) ==
  [sections |-> <<>>, bytes |-> 0, open |-> TRUE, malformed |-> FALSE,
   truncated |-> Len(items) > MaxMcpItems]

(* A summary so far of what an MCP result has said so far: it is kept       *)
(* within the bound, it is only closed when it fills it, and what is        *)
(* missing is told. more: there are items that are not looked at.           *)
SummaryOf(summary, text, more) ==
  /\ summary \in Summary
  /\ summary.bytes = Bytes(FlattenSeq(summary.sections))
  /\ Keeps(FlattenSeq(summary.sections), text, MaxMcpBytes)
  /\ ~summary.open => summary.bytes = MaxMcpBytes /\ summary.truncated
  /\ FlattenSeq(summary.sections) # text \/ more => summary.truncated
  /\ summary.truncated => FlattenSeq(summary.sections) # text \/ more \/ summary.bytes = MaxMcpBytes

LEMMA AddSectionKeeps ==
  ASSUME NEW summary, NEW text, NEW more, SummaryOf(summary, text, more),
         NEW raw \in Seq(RawUnits), NEW added, added = AddSection(summary, raw),
         summary.open, ~summary.truncated \/ more \/ FlattenSeq(summary.sections) # text
  PROVE  /\ SummaryOf(added, text \o ToValidUTF8(raw), more)
         /\ added.open = summary.open /\ added.malformed = summary.malformed
         /\ added.truncated <=> FlattenSeq(added.sections) # text \o ToValidUTF8(raw) \/ more
<1>1. /\ summary.sections \in Seq(Seq(Runes)) /\ summary.bytes \in Nat
      /\ summary.open \in BOOLEAN /\ summary.malformed \in BOOLEAN /\ summary.truncated \in BOOLEAN
  BY DEF SummaryOf, Summary
<1>2. MaxMcpBytes \in Nat
  BY ResultsAssumption
<1>3. PICK some : some = FlattenSeq(summary.sections)
  OBVIOUS
<1>4. PICK room : room = MaxMcpBytes - summary.bytes
  OBVIOUS
<1>5. PICK bounded : bounded = Bounded(raw, room)
  OBVIOUS
<1>6. some \in Seq(Runes) /\ summary.bytes = Bytes(some) /\ Keeps(some, text, MaxMcpBytes)
  BY <1>1, <1>3, FlattenType DEF SummaryOf
<1>7. /\ bounded.text \in Seq(Runes)
      /\ Keeps(some \o bounded.text, text \o ToValidUTF8(raw), MaxMcpBytes)
      /\ some \o bounded.text # text \o ToValidUTF8(raw) <=> some # text \/ bounded.cut
  <2>1. room = MaxMcpBytes - Bytes(some)
    BY <1>4, <1>6
  <2>2. /\ Bounded(raw, room).text \in Seq(Runes)
        /\ Keeps(some \o Bounded(raw, room).text, text \o ToValidUTF8(raw), MaxMcpBytes)
        /\ some \o Bounded(raw, room).text # text \o ToValidUTF8(raw)
             <=> some # text \/ Bounded(raw, room).cut
    BY <1>2, <1>6, <2>1, KeepsMore
  <2> QED BY <1>5, <2>2, Zenon
<1>8. added = [summary EXCEPT
                 !.sections = IF bounded.text = <<>> THEN @ ELSE Append(@, bounded.text),
                 !.bytes = @ + Bytes(bounded.text), !.truncated = @ \/ bounded.cut]
  BY <1>4, <1>5, Zenon DEF AddSection
<1>9. PICK sections : sections = IF bounded.text = <<>> THEN summary.sections
                                 ELSE Append(summary.sections, bounded.text)
  OBVIOUS
<1>10. sections \in Seq(Seq(Runes)) /\ FlattenSeq(sections) = some \o bounded.text
  <2>1. CASE bounded.text = <<>>
    <3>1. some \o bounded.text = some
      BY <1>6, <2>1, ConcatEmptySeq
    <3> QED BY <1>1, <1>3, <1>9, <2>1, <3>1
  <2>2. CASE bounded.text # <<>>
    <3>1. sections = Append(summary.sections, bounded.text)
      BY <1>9, <2>2
    <3> QED BY <1>1, <1>3, <1>7, <3>1, FlattenAppend, AppendProperties
  <2> QED BY <2>1, <2>2
<1>11. /\ added.sections = sections /\ added.bytes = summary.bytes + Bytes(bounded.text)
       /\ added.open = summary.open /\ added.malformed = summary.malformed
       /\ added.truncated = (summary.truncated \/ bounded.cut)
       /\ added = [sections |-> added.sections, bytes |-> added.bytes, open |-> added.open,
                   malformed |-> added.malformed, truncated |-> added.truncated]
  BY <1>8, <1>9 DEF SummaryOf, Summary
<1>12. Bytes(bounded.text) \in Nat /\ added.bytes = Bytes(some \o bounded.text)
  BY <1>6, <1>7, <1>11, BytesType, BytesConcat
<1>13. added \in Summary
  <2>1. added.bytes \in Nat /\ added.truncated \in BOOLEAN
    BY <1>1, <1>11, <1>12
  <2> QED BY <1>1, <1>10, <1>11, <2>1 DEF Summary
<1>14. summary.truncated <=> some # text \/ more
  BY <1>3 DEF SummaryOf
<1>15. added.truncated <=> some \o bounded.text # text \o ToValidUTF8(raw) \/ more
  BY <1>7, <1>11, <1>14
<1>16. FlattenSeq(added.sections) = some \o bounded.text
  BY <1>10, <1>11
<1> QED BY <1>7, <1>11, <1>12, <1>13, <1>15, <1>16 DEF SummaryOf

LEMMA SectionType == ASSUME NEW item \in McpItems PROVE Section(item) \in Seq(RawUnits)
<1>1. "letter" \in RawUnits /\ item.raw \in Seq(RawUnits)
  BY DEF RawUnits, McpItems
<1>2. <<>> \in Seq(RawUnits) /\ <<"letter", "letter">> \in Seq(RawUnits)
  BY <1>1, EmptySeq
<1> QED BY <1>1, <1>2 DEF Section

LEMMA SummaryGrows ==
  ASSUME NEW summary, NEW text, NEW more, SummaryOf(summary, text, more), ~summary.open,
         NEW next \in Seq(Runes)
  PROVE  SummaryOf(summary, text \o next, more)
<1>1. summary.bytes = MaxMcpBytes /\ summary.truncated /\ MaxMcpBytes \in Nat
  BY ResultsAssumption DEF SummaryOf
<1>2. Keeps(FlattenSeq(summary.sections), text \o next, MaxMcpBytes)
  BY <1>1, KeepsWhenFull DEF SummaryOf
<1> QED BY <1>1, <1>2 DEF SummaryOf

(* An item: while the summary is open it is below its bound. *)
LEMMA AddItemKeeps ==
  ASSUME NEW summary, NEW text, NEW more, SummaryOf(summary, text, more),
         summary.open => summary.bytes < MaxMcpBytes,
         NEW item \in McpItems, NEW added, added = AddItem(summary, item), ~added.malformed
  PROVE  /\ SummaryOf(added, text \o ToValidUTF8(Section(item)), more)
         /\ added.open => added.bytes < MaxMcpBytes
<1>1. Section(item) \in Seq(RawUnits) /\ ToValidUTF8(Section(item)) \in Seq(Runes)
  BY SectionType, ValidIs
<1>2. summary \in Summary /\ MaxMcpBytes \in Nat
  BY ResultsAssumption DEF SummaryOf
<1>3. ~summary.malformed
  BY DEF AddItem
<1>4. CASE ~summary.open
  <2>1. added = summary
    BY <1>4 DEF AddItem
  <2> QED BY <1>1, <1>4, <2>1, SummaryGrows
<1>5. CASE summary.open
  <2>1. item.kind # "malformed"
    BY <1>2, <1>3, <1>5 DEF AddItem, Summary
  <2>2. PICK section : section = AddSection(summary, Section(item))
    OBVIOUS
  <2>3. PICK full \in BOOLEAN : full <=> section.bytes >= MaxMcpBytes
    OBVIOUS
  <2>4. added = [section EXCEPT !.truncated = @ \/ full, !.open = ~full]
    BY <1>3, <1>5, <2>1, <2>2, <2>3 DEF AddItem
  <2>5. ~summary.truncated \/ more \/ FlattenSeq(summary.sections) # text
    BY <1>2, <1>5 DEF SummaryOf, Summary
  <2>6. /\ SummaryOf(section, text \o ToValidUTF8(Section(item)), more)
        /\ section.truncated <=> FlattenSeq(section.sections) # text \o ToValidUTF8(Section(item)) \/ more
    BY <1>1, <1>5, <2>2, <2>5, AddSectionKeeps
  <2>7. PICK all : all = text \o ToValidUTF8(Section(item))
    OBVIOUS
  <2>8. /\ added.sections = section.sections /\ added.bytes = section.bytes
        /\ added.truncated = (section.truncated \/ full) /\ added.open = ~full /\ added \in Summary
    BY <2>3, <2>4, <2>6 DEF SummaryOf, Summary
  <2>9. section.bytes \in Nat /\ section.bytes <= MaxMcpBytes
    BY <2>6 DEF SummaryOf, Summary, Keeps
  <2>10. full <=> section.bytes = MaxMcpBytes
    BY <1>2, <2>3, <2>9
  <2>11. SummaryOf(section, all, more) /\ (section.truncated <=> FlattenSeq(section.sections) # all \/ more)
    BY <2>6, <2>7, Zenon
  <2>12. SummaryOf(added, all, more)
    BY <2>8, <2>10, <2>11 DEF SummaryOf
  <2>13. added.open => added.bytes < MaxMcpBytes
    <3>1. added.open => ~full
      BY <2>8
    <3>2. ~full => section.bytes < MaxMcpBytes
      BY <1>2, <2>9, <2>10
    <3> QED BY <2>8, <3>1, <3>2
  <2> QED BY <2>7, <2>12, <2>13
<1> QED BY <1>4, <1>5

LEMMA AddSectionType ==
  ASSUME NEW summary \in Summary, NEW raw \in Seq(RawUnits)
  PROVE  summary.bytes <= MaxMcpBytes =>
           AddSection(summary, raw) \in Summary /\ AddSection(summary, raw).bytes <= MaxMcpBytes
<1>1. SUFFICES ASSUME summary.bytes <= MaxMcpBytes
               PROVE  AddSection(summary, raw) \in Summary /\ AddSection(summary, raw).bytes <= MaxMcpBytes
  OBVIOUS
<1>2. PICK bounded : bounded = Bounded(raw, MaxMcpBytes - summary.bytes)
  OBVIOUS
<1>3. PICK room \in Nat : room = MaxMcpBytes - summary.bytes
  BY <1>1, ResultsAssumption DEF Summary
<1>4. bounded.text \in Seq(Runes) /\ Bytes(bounded.text) <= room /\ Bytes(bounded.text) \in Nat
  <2>1. PICK text : text = ToValidUTF8(raw)
    OBVIOUS
  <2>2. text \in Seq(Runes)
    BY <2>1, ValidIs
  <2>3. bounded.text = Fit(text, room)
    BY <1>2, <1>3, <2>1, Zenon DEF Bounded
  <2>4. Fit(text, room) \in Prefixes(text) /\ Bytes(Fit(text, room)) <= room
    BY <2>2, FitIs
  <2>5. bounded.text \in Seq(Runes)
    BY <2>2, <2>3, <2>4, PrefixSplits
  <2> QED BY <2>3, <2>4, <2>5, BytesType
<1>5. PICK added : added = AddSection(summary, raw)
  OBVIOUS
<1>6. added = [summary EXCEPT
                 !.sections = IF bounded.text = <<>> THEN @ ELSE Append(@, bounded.text),
                 !.bytes = @ + Bytes(bounded.text), !.truncated = @ \/ bounded.cut]
  BY <1>2, <1>5, Zenon DEF AddSection
<1>7. Append(summary.sections, bounded.text) \in Seq(Seq(Runes)) /\ summary.sections \in Seq(Seq(Runes))
  BY <1>4, AppendProperties DEF Summary
<1>8. added.bytes = summary.bytes + Bytes(bounded.text) /\ summary.bytes \in Nat
  BY <1>6 DEF Summary
<1>9. added.bytes \in Nat /\ added.bytes <= MaxMcpBytes
  BY <1>3, <1>4, <1>8, ResultsAssumption
<1>10. added \in Summary
  BY <1>6, <1>7, <1>8, <1>9 DEF Summary
<1> QED BY <1>5, <1>9, <1>10

FittingSummary == {summary \in Summary : summary.bytes <= MaxMcpBytes}

LEMMA AddItemType ==
  ASSUME NEW summary \in FittingSummary, NEW item \in McpItems
  PROVE  AddItem(summary, item) \in FittingSummary
<1>1. Section(item) \in Seq(RawUnits)
  BY SectionType
<1>2. PICK section : section = AddSection(summary, Section(item))
  OBVIOUS
<1>3. section \in Summary /\ section.bytes <= MaxMcpBytes
  BY <1>1, <1>2, AddSectionType DEF FittingSummary
<1>4. \A full \in BOOLEAN : [section EXCEPT !.truncated = @ \/ full, !.open = ~full] \in FittingSummary
  BY <1>3 DEF FittingSummary, Summary
<1>5. [summary EXCEPT !.malformed = TRUE] \in FittingSummary
  BY DEF FittingSummary, Summary
<1>6. PICK full \in BOOLEAN : full <=> section.bytes >= MaxMcpBytes
  OBVIOUS
<1>7. AddItem(summary, item) =
        IF ~summary.open \/ summary.malformed THEN summary
        ELSE IF item.kind = "malformed" THEN [summary EXCEPT !.malformed = TRUE]
        ELSE [section EXCEPT !.truncated = @ \/ full, !.open = ~full]
  BY <1>2, <1>6 DEF AddItem
<1> QED BY <1>4, <1>5, <1>7

LEMMA SummariesRun ==
  ASSUME NEW items \in Seq(McpItems)
  PROVE  /\ TakenItems(items) \in Seq(McpItems)
         /\ Summaries(items)[0] = FirstSummary(items)
         /\ \A i \in 1..Len(TakenItems(items)) :
              Summaries(items)[i] = AddItem(Summaries(items)[i - 1], TakenItems(items)[i])
<1> DEFINE n == Len(TakenItems(items))
           first == FirstSummary(items)
           item(i) == TakenItems(items)[i]
           Body(f) == [i \in 0..n |-> IF i = 0 THEN first ELSE AddItem(f[i - 1], item(i))]
           chosen == CHOOSE f : f = Body(f)
           step == [i \in 1..n |-> [summary \in FittingSummary |-> AddItem(summary, item(i))]]
<1>1. MaxMcpItems \in Nat /\ MaxMcpBytes \in Nat
  BY ResultsAssumption
<1>2. TakenItems(items) \in Seq(McpItems)
  BY <1>1, BeginningIs DEF TakenItems
<1>3. n \in Nat /\ \A i \in 1..n : item(i) \in McpItems
  BY <1>2, LenProperties, ElementOfSeq
<1>4. first \in FittingSummary
  <2>1. <<>> \in Seq(Seq(Runes))
    BY EmptySeq
  <2> QED BY <1>1, <2>1 DEF FirstSummary, FittingSummary, Summary
<1>5. PICK f : IsRun(f, FittingSummary, first, n, step)
  <2>1. step \in [1..n -> [FittingSummary -> FittingSummary]]
    <3> HIDE DEF n, item
    <3> QED BY <1>3, AddItemType
  <2> HIDE DEF n, step, first
  <2> QED BY <1>3, <1>4, <2>1, LoopRuns
<1>6. \E g : g = Body(g)
  <2> HIDE DEF n, first, item
  <2>1. f \in [0..n -> FittingSummary] /\ f[0] = first /\ \A i \in 1..n : f[i] = step[i][f[i - 1]]
    <3> HIDE DEF step
    <3> QED BY <1>5 DEF IsRun
  <2>2. ASSUME NEW i \in 1..n PROVE f[i] = AddItem(f[i - 1], item(i))
    <3>1. f[i - 1] \in FittingSummary
      BY <1>3, <2>1
    <3>2. step[i][f[i - 1]] = AddItem(f[i - 1], item(i))
      BY <3>1
    <3> QED BY <2>1, <3>2
  <2>3. f = Body(f)
    BY <1>3, <2>1, <2>2
  <2> HIDE DEF Body
  <2> QED BY <2>3
<1>7. chosen = Body(chosen)
  <2> HIDE DEF Body
  <2> QED BY <1>6
<1>8. Summaries(items) = chosen
  BY DEF Summaries, FirstSummary
<1> HIDE DEF chosen
<1>9. chosen[0] = first /\ \A i \in 1..n : chosen[i] = AddItem(chosen[i - 1], item(i))
  <2> HIDE DEF n, first, item
  <2> QED BY <1>3, <1>7
<1> QED BY <1>2, <1>8, <1>9

(* What the items so far say, before each of them and after it. *)
IsSumOfTexts(sum, items) ==
  /\ sum \in [0..Len(items) -> Seq(Runes)] /\ FlattenSeq(Texts(items)) = sum[Len(items)] /\ sum[0] = <<>>
  /\ \A i \in 1..Len(items) : sum[i] = sum[i - 1] \o ToValidUTF8(Section(items[i]))

LEMMA TextsSum ==
  ASSUME NEW items \in Seq(McpItems)
  PROVE  \E sum : IsSumOfTexts(sum, items)
<1>1. PICK texts : texts = Texts(items)
  OBVIOUS
<1>2. Len(items) \in Nat /\ DOMAIN items = 1..Len(items) /\ \A i \in 1..Len(items) : items[i] \in McpItems
  BY LenProperties, ElementOfSeq
<1>3. ASSUME NEW i \in 1..Len(items) PROVE ToValidUTF8(Section(items[i])) \in Seq(Runes)
  <2>1. Section(items[i]) \in Seq(RawUnits)
    BY <1>2, SectionType
  <2> QED BY <2>1, ValidIs
<1>4. texts = [i \in 1..Len(items) |-> ToValidUTF8(Section(items[i]))]
  BY <1>1, <1>2 DEF Texts
<1>5. texts \in Seq(Seq(Runes)) /\ Len(texts) = Len(items)
  <2>1. texts \in [1..Len(items) -> Seq(Runes)]
    BY <1>3, <1>4
  <2> QED BY <1>2, <2>1, SeqOfLength
<1>6. PICK sum \in [0..Len(items) -> Seq(Runes)] :
        /\ FlattenSeq(texts) = sum[Len(items)]
        /\ sum[0] = <<>> /\ \A i \in 1..Len(items) : sum[i] = sum[i - 1] \o texts[i]
  <2>1. \E sum \in [0..Len(texts) -> Seq(Runes)] :
           /\ FlattenSeq(texts) = sum[Len(texts)]
           /\ sum[0] = <<>> /\ \A i \in 1..Len(texts) : sum[i] = sum[i - 1] \o texts[i]
    BY <1>5, FlattenSums
  <2> QED BY <1>5, <2>1, Zenon
<1>7. IsSumOfTexts(sum, items)
  BY <1>1, <1>4, <1>6 DEF IsSumOfTexts
<1> QED BY <1>7

LEMMA ItemsAreSummarized ==
  ASSUME NEW items \in Seq(McpItems), NEW summary,
         summary = Summaries(items)[Len(TakenItems(items))], ~summary.malformed
  PROVE  /\ SummaryOf(summary, FlattenSeq(Texts(TakenItems(items))), Len(items) > MaxMcpItems)
         /\ summary.open => summary.bytes < MaxMcpBytes
<1>1. PICK some : some = TakenItems(items)
  OBVIOUS
<1>2. PICK all : all = Summaries(items)
  OBVIOUS
<1>3. PICK more \in BOOLEAN : more <=> Len(items) > MaxMcpItems
  OBVIOUS
<1>4. /\ some \in Seq(McpItems) /\ all[0] = FirstSummary(items)
      /\ \A i \in 1..Len(some) : all[i] = AddItem(all[i - 1], some[i])
  BY <1>1, <1>2, SummariesRun, Zenon
<1>5. PICK sum : IsSumOfTexts(sum, some)
  BY <1>4, TextsSum
<1>6. /\ sum \in [0..Len(some) -> Seq(Runes)] /\ FlattenSeq(Texts(some)) = sum[Len(some)] /\ sum[0] = <<>>
      /\ \A i \in 1..Len(some) : sum[i] = sum[i - 1] \o ToValidUTF8(Section(some[i]))
  BY <1>5 DEF IsSumOfTexts
<1>7. Len(some) \in Nat /\ \A i \in 1..Len(some) : some[i] \in McpItems
  BY <1>4, LenProperties, ElementOfSeq
<1> DEFINE Good(s, text) == SummaryOf(s, text, more) /\ (s.open => s.bytes < MaxMcpBytes)
           T == {i \in 0..Len(some) : ~all[i].malformed => Good(all[i], sum[i])}
<1>8. 0 \in T
  <2>1. PICK first : first = FirstSummary(items)
    OBVIOUS
  <2>2. /\ first.sections = <<>> /\ first.bytes = 0 /\ first.open /\ (first.truncated <=> more)
        /\ first \in Summary
    <3>1. <<>> \in Seq(Seq(Runes))
      BY EmptySeq
    <3> QED BY <1>3, <2>1, <3>1 DEF FirstSummary, Summary
  <2>3. MaxMcpBytes \in Nat \ {0}
    BY ResultsAssumption
  <2>4. FlattenSeq(<<>>) = <<>> /\ Bytes(<<>>) = 0 /\ Keeps(<<>>, <<>>, MaxMcpBytes)
    BY <2>3, FlattenNothing, BytesOfNothing, KeepsNothing
  <2>5. Good(first, <<>>)
    BY <2>2, <2>3, <2>4 DEF SummaryOf
  <2> HIDE DEF Good
  <2> QED BY <1>4, <1>6, <1>7, <2>1, <2>5
<1>9. ASSUME NEW i \in 1..Len(some), i - 1 \in T PROVE i \in T
  <2>1. SUFFICES ASSUME ~all[i].malformed PROVE Good(all[i], sum[i])
    BY <1>7
  <2>2. all[i] = AddItem(all[i - 1], some[i]) /\ some[i] \in McpItems
    BY <1>4, <1>7
  <2>3. ~all[i - 1].malformed
    BY <2>1, <2>2 DEF AddItem
  <2>4. Good(all[i - 1], sum[i - 1])
    BY <1>9, <2>3
  <2>5. Good(all[i], sum[i - 1] \o ToValidUTF8(Section(some[i])))
    BY <2>1, <2>2, <2>4, AddItemKeeps
  <2> QED BY <1>6, <2>5
<1>10. ~all[Len(some)].malformed => Good(all[Len(some)], sum[Len(some)])
  <2> HIDE DEF T
  <2>1. \A i \in 0..Len(some) : i \in T
    BY <1>7, <1>8, <1>9, IntervalInduction
  <2>2. Len(some) \in T
    BY <1>7, <2>1
  <2> QED BY <2>2 DEF T
<1>11. Good(summary, FlattenSeq(Texts(some)))
  BY <1>1, <1>2, <1>6, <1>10
<1>12. SummaryOf(summary, FlattenSeq(Texts(some)), Len(items) > MaxMcpItems)
  BY <1>3, <1>11 DEF SummaryOf
<1> QED BY <1>1, <1>11, <1>12

LEMMA StructuredIsSummarized ==
  ASSUME NEW summary, NEW text, NEW more, SummaryOf(summary, text, more),
         summary.open => summary.bytes < MaxMcpBytes, text \in Seq(Runes),
         NEW structured \in McpStructured, NEW added, added = AddStructured(summary, structured),
         ~added.malformed
  PROVE  SummaryOf(added, text \o ToValidUTF8(structured.raw), more)
<1>1. structured.raw \in Seq(RawUnits) /\ (structured.kind # "struct" => structured.raw = <<>>)
  BY EmptySeq DEF McpStructured
<1>2. ToValidUTF8(structured.raw) \in Seq(Runes) /\ (structured.kind # "struct" => ToValidUTF8(structured.raw) = <<>>)
  BY <1>1, ValidIs
<1>3. summary \in Summary
  BY DEF SummaryOf
<1>4. CASE ~summary.open
  <2>1. added = summary
    BY <1>4 DEF AddStructured
  <2> QED BY <1>2, <1>4, <2>1, SummaryGrows
<1>5. CASE summary.open /\ (structured.kind = "absent" \/ summary.malformed)
  <2>1. added = summary
    BY <1>5 DEF AddStructured
  <2>2. structured.kind = "absent"
    BY <1>5, <2>1
  <2>3. text \o ToValidUTF8(structured.raw) = text
    BY <1>2, <2>2, ConcatEmptySeq
  <2> QED BY <2>1, <2>3
<1>6. CASE summary.open /\ structured.kind # "absent" /\ ~summary.malformed
  <2>1. structured.kind # "malformed"
    <3>1. [summary EXCEPT !.malformed = TRUE].malformed
      BY <1>3 DEF Summary
    <3> QED BY <1>6, <3>1 DEF AddStructured
  <2>2. added = AddSection(summary, structured.raw)
    BY <1>6, <2>1 DEF AddStructured
  <2>3. ~summary.truncated \/ more \/ FlattenSeq(summary.sections) # text
    BY <1>3, <1>6 DEF SummaryOf, Summary
  <2> QED BY <1>1, <1>6, <2>2, <2>3, AddSectionKeeps
<1> QED BY <1>4, <1>5, <1>6

LEMMA MalformedStays ==
  ASSUME NEW summary, summary.malformed, NEW structured
  PROVE  AddStructured(summary, structured) = summary
BY DEF AddStructured

LEMMA McpGives ==
  ASSUME NEW msg \in McpResults, NEW given, given = SummarizeMcp(msg), given.status = "ok",
         NEW out, out = FlattenSeq(given.sections)
  PROVE  /\ Bytes(out) <= MaxMcpBytes
         /\ HeadKept(out, Said(TakenItems(msg.items), msg.structured), MaxMcpBytes)
         /\ out # Said(msg.items, msg.structured) => given.truncated
         /\ given.truncated => \/ out # Said(msg.items, msg.structured)
                               \/ Len(msg.items) > MaxMcpItems \/ Bytes(out) = MaxMcpBytes
<1>1. msg.items \in Seq(McpItems) /\ msg.structured \in McpStructured
  BY ResultsAssumption
<1>2. PICK items : items = msg.items
  OBVIOUS
<1>3. PICK structured : structured = msg.structured
  OBVIOUS
<1>4. PICK before : before = Summaries(items)[Len(TakenItems(items))]
  OBVIOUS
<1>5. PICK summary : summary = AddStructured(before, structured)
  OBVIOUS
<1>6. given = IF summary.malformed THEN Malformed
              ELSE [status |-> "ok", sections |-> summary.sections, truncated |-> summary.truncated]
  BY <1>2, <1>3, <1>4, <1>5, Zenon DEF SummarizeMcp
<1>7. ~summary.malformed
  BY <1>6 DEF Malformed
<1>8. given.sections = summary.sections /\ given.truncated = summary.truncated
  BY <1>6, <1>7
<1>9. ~before.malformed
  BY <1>5, <1>7, MalformedStays
<1>10. PICK text : text = FlattenSeq(Texts(TakenItems(items)))
  OBVIOUS
<1>11. PICK more \in BOOLEAN : more <=> Len(items) > MaxMcpItems
  OBVIOUS
<1>12. SummaryOf(before, text, more) /\ (before.open => before.bytes < MaxMcpBytes)
  <2>1. /\ SummaryOf(before, text, Len(items) > MaxMcpItems)
        /\ before.open => before.bytes < MaxMcpBytes
    BY <1>1, <1>2, <1>4, <1>9, <1>10, ItemsAreSummarized
  <2> QED BY <1>11, <2>1 DEF SummaryOf
<1>13. text \in Seq(Runes)
  BY <1>12 DEF SummaryOf, Keeps
<1>14. PICK all : all = text \o ToValidUTF8(structured.raw)
  OBVIOUS
<1>15. SummaryOf(summary, all, more)
  <2>1. SummaryOf(summary, text \o ToValidUTF8(structured.raw), more)
    BY <1>1, <1>3, <1>5, <1>7, <1>12, <1>13, StructuredIsSummarized
  <2> QED BY <1>14, <2>1, Zenon
<1>16. all = Said(TakenItems(items), structured)
  BY <1>10, <1>14 DEF Said
<1>17. ~more => all = Said(items, structured)
  <2>1. ~more => TakenItems(items) = items
    BY <1>11 DEF TakenItems, Beginning
  <2> QED BY <1>16, <2>1
<1>18. Keeps(out, all, MaxMcpBytes) /\ summary.bytes = Bytes(out)
  BY <1>8, <1>15 DEF SummaryOf
<1>19. /\ out # all \/ more => summary.truncated
       /\ summary.truncated => out # all \/ more \/ Bytes(out) = MaxMcpBytes
  BY <1>8, <1>15, <1>18 DEF SummaryOf
<1>20. Bytes(out) <= MaxMcpBytes /\ HeadKept(out, Said(TakenItems(items), structured), MaxMcpBytes)
  BY <1>16, <1>18 DEF Keeps
<1>21. out # Said(items, structured) => given.truncated
  BY <1>8, <1>17, <1>19
<1>22. given.truncated => out # Said(items, structured) \/ Len(items) > MaxMcpItems \/ Bytes(out) = MaxMcpBytes
  BY <1>8, <1>11, <1>17, <1>19
<1> QED BY <1>2, <1>3, <1>20, <1>21, <1>22, Zenon

-------------------------------------------------------------------------------
(***************************************************************************)
(* A listing. What a loop over files or directories has after an element:  *)
(* its entries and whether it goes on.                                     *)
(***************************************************************************)
Loop == [entries : Entries, truncated : BOOLEAN, loop : {"open", "full", "malformed"}]

LEMMA BeginningFull ==
  ASSUME NEW A, NEW all \in Seq(A), NEW more \in Seq(A), NEW n \in Nat,
         Len(Beginning(all, n)) = n
  PROVE  Beginning(all \o more, n) = Beginning(all, n)
<1>1. PICK some : some = Beginning(all, n)
  OBVIOUS
<1>2. some \in Seq(A) /\ Len(some) = n
  BY <1>1, BeginningIs
<1>3. PICK s : s = some \o more
  OBVIOUS
<1>4. /\ s \in Seq(A) /\ Len(s) = Len(some) + Len(more)
      /\ \A i \in 1..Len(some) + Len(more) : s[i] = IF i <= Len(some) THEN some[i] ELSE more[i - Len(some)]
  <2>1. some \in Seq(A)
    BY <1>2
  <2> QED BY <1>3, <2>1, ConcatProperties
<1>5. Len(more) \in Nat
  BY LenProperties
<1>6. Beginning(s, n) \in Seq(A) /\ Len(Beginning(s, n)) = n /\ \A i \in 1..n : Beginning(s, n)[i] = some[i]
  <2>1. /\ Beginning(s, n) \in Seq(A) /\ Len(Beginning(s, n)) = (IF Len(s) > n THEN n ELSE Len(s))
        /\ \A i \in 1..Len(Beginning(s, n)) : Beginning(s, n)[i] = s[i]
    BY <1>4, BeginningIs
  <2> QED BY <1>2, <1>4, <1>5, <2>1
<1>7. Beginning(s, n) = some
  BY <1>2, <1>6, SeqEqual
<1>8. Beginning(some \o more, n) = Beginning(all \o more, n)
  BY <1>1, BeginningMore
<1> QED BY <1>1, <1>3, <1>7, <1>8

WithEntry(all, name, entry) == IF name = "" THEN all ELSE Append(all, entry)

IsNamed(sum, dir, files) ==
  /\ sum \in [0..Len(files) -> Entries] /\ Named(dir, files) = sum[Len(files)] /\ sum[0] = <<>>
  /\ \A i \in 1..Len(files) :
       sum[i] = WithEntry(sum[i - 1], files[i], <<dir, files[i]>>)

LEMMA EntryType ==
  ASSUME NEW dir \in Names, NEW name \in FileNames
  PROVE  <<dir, name>> \in Seq(FileNames)
BY DEF FileNames

LEMMA NamedSums ==
  ASSUME NEW dir \in Names, NEW files \in Seq(FileNames)
  PROVE  \E sum : IsNamed(sum, dir, files)
<1> DEFINE n == Len(files)
           Next1(i, named) == IF files[i] = "" THEN named ELSE Append(named, <<dir, files[i]>>)
           Body(f) ==
             [i \in 0..n |-> IF i = 0 THEN <<>>
                             ELSE IF files[i] = "" THEN f[i - 1]
                             ELSE Append(f[i - 1], <<dir, files[i]>>)]
           chosen == CHOOSE f : f = Body(f)
           step == [i \in 1..n |-> [named \in Entries |-> Next1(i, named)]]
<1>1. n \in Nat /\ \A i \in 1..n : files[i] \in FileNames
  BY LenProperties, ElementOfSeq
<1>2. <<>> \in Entries
  BY EmptySeq DEF Entries
<1>3. ASSUME NEW i \in 1..n, NEW named \in Entries PROVE Next1(i, named) \in Entries
  <2>1. <<dir, files[i]>> \in Seq(FileNames)
    BY <1>1, EntryType
  <2> QED BY <2>1, AppendProperties DEF Entries
<1>4. PICK f : IsRun(f, Entries, <<>>, n, step)
  <2>1. step \in [1..n -> [Entries -> Entries]]
    <3> HIDE DEF n, Next1
    <3> QED BY <1>3
  <2> HIDE DEF n, step
  <2> QED BY <1>1, <1>2, <2>1, LoopRuns
<1>5. \E g : g = Body(g)
  <2>1. f \in [0..n -> Entries] /\ f[0] = <<>> /\ \A i \in 1..n : f[i] = step[i][f[i - 1]]
    <3> HIDE DEF n, step
    <3> QED BY <1>4 DEF IsRun
  <2>2. ASSUME NEW i \in 1..n PROVE f[i] = Next1(i, f[i - 1])
    <3> HIDE DEF n, Next1
    <3>1. f[i - 1] \in Entries
      BY <1>1, <2>1
    <3>2. step[i][f[i - 1]] = Next1(i, f[i - 1])
      BY <3>1
    <3> QED BY <2>1, <3>2
  <2>3. f = [i \in 0..n |-> IF i = 0 THEN <<>> ELSE Next1(i, f[i - 1])]
    <3> HIDE DEF n, Next1
    <3> QED BY <1>1, <2>1, <2>2
  <2>4. f = Body(f)
    BY <2>3
  <2> HIDE DEF Body
  <2> QED BY <2>4
<1>6. chosen = Body(chosen)
  <2> HIDE DEF Body
  <2> QED BY <1>5
<1>7. Named(dir, files) = chosen[n]
  BY DEF Named
<1> HIDE DEF chosen
<1>8. chosen[0] = <<>> /\ \A i \in 1..n : chosen[i] = Next1(i, chosen[i - 1])
  <2>1. chosen = [i \in 0..n |-> IF i = 0 THEN <<>> ELSE Next1(i, chosen[i - 1])]
    BY <1>6
  <2> HIDE DEF n, Next1, Body
  <2> QED BY <1>1, <2>1
<1>9. \A i \in 0..n : chosen[i] \in Entries
  <2> DEFINE T == {i \in 0..n : chosen[i] \in Entries}
  <2>1. 0 \in T
    <3> HIDE DEF n, Next1
    <3>1. 0 \in 0..n /\ chosen[0] \in Entries
      BY <1>1, <1>2, <1>8
    <3> QED BY <3>1
  <2>2. ASSUME NEW i \in 1..n, i - 1 \in T PROVE i \in T
    <3> HIDE DEF n, Next1
    <3>1. chosen[i] = Next1(i, chosen[i - 1]) /\ chosen[i - 1] \in Entries /\ i \in 0..n
      BY <1>1, <1>8, <2>2
    <3>2. Next1(i, chosen[i - 1]) \in Entries
      BY <1>3, <3>1
    <3> QED BY <3>1, <3>2
  <2> HIDE DEF T, n
  <2>3. \A i \in 0..n : i \in T
    BY <1>1, <2>1, <2>2, IntervalInduction
  <2> QED BY <2>3 DEF T
<1>10. chosen \in [0..n -> Entries]
  BY <1>6, <1>9
<1>11. IsNamed(chosen, dir, files)
  <2>1. \A i \in 1..n : chosen[i] = WithEntry(chosen[i - 1], files[i], <<dir, files[i]>>)
    BY <1>8 DEF WithEntry
  <2> QED BY <1>7, <1>8, <1>10, <2>1, Zenon DEF IsNamed
<1> QED BY <1>11

LEMMA AddFileType ==
  ASSUME NEW dir \in Names, NEW name \in FileNames, NEW listed \in Loop
  PROVE  AddFile(dir, listed, name) \in Loop
<1>1. Append(listed.entries, <<dir, name>>) \in Entries
  BY EntryType, AppendProperties DEF Loop, Entries
<1> QED BY <1>1 DEF AddFile, Loop

LEMMA ListFilesRuns ==
  ASSUME NEW dir \in Names, NEW files \in Seq(FileNames), NEW entries \in Entries
  PROVE  /\ ListFiles(dir, files, entries)[0] = [entries |-> entries, truncated |-> FALSE, loop |-> "open"]
         /\ \A i \in 1..Len(files) :
              ListFiles(dir, files, entries)[i] = AddFile(dir, ListFiles(dir, files, entries)[i - 1], files[i])
         /\ \A i \in 0..Len(files) : ListFiles(dir, files, entries)[i] \in Loop
<1> DEFINE n == Len(files)
           first == [entries |-> entries, truncated |-> FALSE, loop |-> "open"]
           Body(f) == [i \in 0..n |-> IF i = 0 THEN first ELSE AddFile(dir, f[i - 1], files[i])]
           chosen == CHOOSE f : f = Body(f)
           step == [i \in 1..n |-> [listed \in Loop |-> AddFile(dir, listed, files[i])]]
<1>1. n \in Nat /\ \A i \in 1..n : files[i] \in FileNames
  BY LenProperties, ElementOfSeq
<1>2. first \in Loop
  BY DEF Loop
<1>3. PICK f : IsRun(f, Loop, first, n, step)
  <2>1. step \in [1..n -> [Loop -> Loop]]
    <3> HIDE DEF n
    <3> QED BY <1>1, AddFileType
  <2> HIDE DEF n, step, first
  <2> QED BY <1>1, <1>2, <2>1, LoopRuns
<1>4. \E g : g = Body(g)
  <2> HIDE DEF n, first
  <2>1. f \in [0..n -> Loop] /\ f[0] = first /\ \A i \in 1..n : f[i] = step[i][f[i - 1]]
    <3> HIDE DEF step
    <3> QED BY <1>3 DEF IsRun
  <2>2. ASSUME NEW i \in 1..n PROVE f[i] = AddFile(dir, f[i - 1], files[i])
    <3>1. f[i - 1] \in Loop
      BY <1>1, <2>1
    <3>2. step[i][f[i - 1]] = AddFile(dir, f[i - 1], files[i])
      BY <3>1
    <3> QED BY <2>1, <3>2
  <2>3. f = Body(f)
    BY <1>1, <2>1, <2>2
  <2> HIDE DEF Body
  <2> QED BY <2>3
<1>5. chosen = Body(chosen)
  <2> HIDE DEF Body
  <2> QED BY <1>4
<1>6. ListFiles(dir, files, entries) = chosen
  BY DEF ListFiles
<1> HIDE DEF chosen
<1>7. chosen[0] = first /\ \A i \in 1..n : chosen[i] = AddFile(dir, chosen[i - 1], files[i])
  <2> HIDE DEF n, first
  <2> QED BY <1>1, <1>5
<1>8. \A i \in 0..n : chosen[i] \in Loop
  <2> DEFINE T == {i \in 0..n : chosen[i] \in Loop}
  <2>1. 0 \in T
    <3> HIDE DEF first
    <3> QED BY <1>1, <1>2, <1>7
  <2>2. ASSUME NEW i \in 1..n, i - 1 \in T PROVE i \in T
    <3>1. chosen[i] = AddFile(dir, chosen[i - 1], files[i]) /\ chosen[i - 1] \in Loop /\ i \in 0..n
      BY <1>1, <1>7, <2>2
    <3> QED BY <1>1, <3>1, AddFileType
  <2> HIDE DEF T, n
  <2>3. \A i \in 0..n : i \in T
    BY <1>1, <2>1, <2>2, IntervalInduction
  <2> QED BY <2>3 DEF T
<1> QED BY <1>6, <1>7, <1>8

(* What a loop has listed of all that comes by, before it meets an entry    *)
(* that does not decode: the beginning of it, and all of it while it goes   *)
(* on. When it does not, its bound is reached.                              *)
ListedOf(listed, all) ==
  listed.loop # "malformed" =>
    /\ listed.entries = Beginning(all, MaxItems)
    /\ listed.loop = "open" => Len(all) <= MaxItems
    /\ listed.loop = "full" => Len(listed.entries) = MaxItems

AddEntry(entry, listed, name) ==
  IF listed.loop # "open" THEN listed
  ELSE IF Len(listed.entries) >= MaxItems THEN [listed EXCEPT !.loop = "full"]
  ELSE IF name = Undecodable THEN [listed EXCEPT !.loop = "malformed"]
  ELSE IF name = "" THEN listed
  ELSE [listed EXCEPT !.entries = Append(@, entry)]

LEMMA EntryBehindFull ==
  ASSUME NEW all \in Entries, NEW entry \in Seq(FileNames), NEW next, next \in {all, Append(all, entry)},
         Len(Beginning(all, MaxItems)) = MaxItems
  PROVE  Beginning(next, MaxItems) = Beginning(all, MaxItems)
<1>1. MaxItems \in Nat /\ all \in Seq(Seq(FileNames))
  BY ResultsAssumption DEF Entries
<1>2. PICK more : more = <<entry>>
  OBVIOUS
<1>3. more \in Seq(Seq(FileNames)) /\ Append(all, entry) = all \o more
  BY <1>1, <1>2, AppendIsConcat
<1>4. Beginning(all \o more, MaxItems) = Beginning(all, MaxItems)
  BY <1>1, <1>3, BeginningFull
<1> QED BY <1>3, <1>4

LEMMA AddEntryLists ==
  ASSUME NEW entry \in Seq(FileNames), NEW name, NEW listed \in Loop, NEW all \in Entries,
         ListedOf(listed, all), NEW next, next = WithEntry(all, name, entry),
         NEW added, added = AddEntry(entry, listed, name)
  PROVE  ListedOf(added, next) /\ next \in Entries
<1>1. MaxItems \in Nat
  BY ResultsAssumption
<1>2. all \in Seq(Seq(FileNames)) /\ Len(all) \in Nat
  BY LenProperties DEF Entries
<1>3. listed.entries \in Entries /\ listed.loop \in {"open", "full", "malformed"}
  BY DEF Loop
<1>4. Append(all, entry) \in Entries /\ Len(Append(all, entry)) = Len(all) + 1
  BY <1>2, AppendProperties DEF Entries
<1>5. next \in {all, Append(all, entry)}
  BY DEF WithEntry
<1>6. CASE listed.loop = "malformed"
  BY <1>4, <1>6 DEF AddEntry, ListedOf, WithEntry
<1>7. CASE listed.loop = "full"
  <2>1. added = listed
    BY <1>7 DEF AddEntry
  <2>2. listed.entries = Beginning(all, MaxItems) /\ Len(listed.entries) = MaxItems
    BY <1>7 DEF ListedOf
  <2>3. Beginning(next, MaxItems) = Beginning(all, MaxItems)
    BY <1>5, <2>2, EntryBehindFull
  <2> QED BY <1>4, <1>7, <1>5, <2>1, <2>2, <2>3 DEF ListedOf
<1>8. CASE listed.loop = "open"
  <2>1. listed.entries = all /\ Len(all) <= MaxItems
    BY <1>1, <1>2, <1>8 DEF ListedOf, Beginning
  <2>2. CASE Len(all) >= MaxItems
    <3>1. added.loop = "full" /\ added.entries = all
      BY <1>8, <2>1, <2>2 DEF AddEntry, Loop
    <3>2. Len(all) = MaxItems
      BY <1>1, <1>2, <2>1, <2>2
    <3>3. Beginning(all, MaxItems) = all
      BY <1>1, <3>2 DEF Beginning
    <3>4. Beginning(next, MaxItems) = all
      BY <1>5, <3>2, <3>3, EntryBehindFull
    <3> QED BY <1>4, <1>5, <3>1, <3>2, <3>4 DEF ListedOf
  <2>3. CASE ~(Len(all) >= MaxItems) /\ name = Undecodable
    BY <1>4, <1>8, <1>5, <2>1, <2>3 DEF AddEntry, ListedOf, Loop
  <2>4. CASE ~(Len(all) >= MaxItems) /\ name # Undecodable
    <3>1. added.entries = next /\ added.loop = "open"
      BY <1>8, <2>1, <2>4 DEF AddEntry, Loop, WithEntry
    <3>2. Len(next) <= MaxItems /\ Len(next) \in Nat
      BY <1>1, <1>2, <1>4, <1>5, <2>4
    <3>3. Beginning(next, MaxItems) = next
      BY <1>1, <3>2 DEF Beginning
    <3> QED BY <1>4, <1>5, <3>1, <3>2, <3>3 DEF ListedOf
  <2> QED BY <2>2, <2>3, <2>4
<1> QED BY <1>3, <1>6, <1>7, <1>8

LEMMA AddFileLists ==
  ASSUME NEW dir \in Names, NEW name \in FileNames, NEW listed \in Loop, NEW all \in Entries,
         ListedOf(listed, all), NEW next, next = WithEntry(all, name, <<dir, name>>)
  PROVE  ListedOf(AddFile(dir, listed, name), next)
<1>1. PICK entry \in Seq(FileNames) : entry = <<dir, name>>
  BY EntryType
<1>2. AddFile(dir, listed, name) = AddEntry(entry, listed, name)
  BY <1>1, Zenon DEF AddFile, AddEntry
<1>3. next = WithEntry(all, name, entry)
  BY <1>1, Zenon
<1> QED BY <1>2, <1>3, AddEntryLists

LEMMA AppendBehind ==
  ASSUME NEW A, NEW s \in Seq(A), NEW t \in Seq(A), NEW e \in A
  PROVE  s \o Append(t, e) = Append(s \o t, e)
<1>1. PICK one : one = <<e>>
  OBVIOUS
<1>2. s \o t \in Seq(A) /\ one \in Seq(A)
  BY <1>1, ConcatProperties
<1>3. Append(t, e) = t \o one /\ Append(s \o t, e) = (s \o t) \o one
  BY <1>1, <1>2, AppendIsConcat
<1>4. (s \o t) \o one = s \o (t \o one)
  BY <1>2, ConcatAssociative
<1> QED BY <1>3, <1>4

(* The files of a directory, behind the entries there are. *)
LEMMA FilesAreListed ==
  ASSUME NEW dir \in Names, NEW files \in Seq(FileNames), NEW entries \in Entries, Len(entries) <= MaxItems,
         NEW filed, filed = ListFiles(dir, files, entries)[Len(files)]
  PROVE  /\ filed \in Loop /\ ~filed.truncated
         /\ Named(dir, files) \in Entries /\ ListedOf(filed, entries \o Named(dir, files))
<1>1. PICK all : all = ListFiles(dir, files, entries)
  OBVIOUS
<1>2. PICK sum : IsNamed(sum, dir, files)
  BY NamedSums
<1>3. /\ all[0] = [entries |-> entries, truncated |-> FALSE, loop |-> "open"]
      /\ \A i \in 1..Len(files) : all[i] = AddFile(dir, all[i - 1], files[i])
      /\ \A i \in 0..Len(files) : all[i] \in Loop
  BY <1>1, ListFilesRuns, Zenon
<1>4. /\ Len(files) \in Nat /\ \A i \in 1..Len(files) : files[i] \in FileNames
      /\ entries \in Seq(Seq(FileNames)) /\ MaxItems \in Nat
  BY LenProperties, ElementOfSeq, ResultsAssumption DEF Entries
<1>5. /\ sum \in [0..Len(files) -> Entries] /\ Named(dir, files) = sum[Len(files)] /\ sum[0] = <<>>
      /\ \A i \in 1..Len(files) :
           sum[i] = WithEntry(sum[i - 1], files[i], <<dir, files[i]>>)
  BY <1>2, Zenon DEF IsNamed
<1>6. PICK whole : whole = [i \in 0..Len(files) |-> entries \o sum[i]]
  OBVIOUS
<1>7. ASSUME NEW i \in 0..Len(files) PROVE whole[i] = entries \o sum[i] /\ whole[i] \in Entries /\ sum[i] \in Entries
  <2>1. sum[i] \in Entries
    BY <1>5
  <2>2. entries \o sum[i] \in Entries
    BY <1>4, <2>1, ConcatProperties DEF Entries
  <2> QED BY <1>6, <2>1, <2>2
<1>8. ASSUME NEW i \in 1..Len(files)
      PROVE  whole[i] = WithEntry(whole[i - 1], files[i], <<dir, files[i]>>)
  <2>1. i \in 0..Len(files) /\ i - 1 \in 0..Len(files)
    BY <1>4
  <2>2. PICK entry \in Seq(FileNames) : entry = <<dir, files[i]>>
    BY <1>4, EntryType
  <2>3. sum[i] = WithEntry(sum[i - 1], files[i], entry)
    BY <1>5, <2>2, Zenon
  <2>4. entries \o Append(sum[i - 1], entry) = Append(entries \o sum[i - 1], entry)
    <3>1. sum[i - 1] \in Seq(Seq(FileNames)) /\ entries \in Seq(Seq(FileNames))
      BY <1>4, <1>7, <2>1 DEF Entries
    <3> QED BY <3>1, AppendBehind
  <2>5. whole[i] = WithEntry(whole[i - 1], files[i], entry)
    BY <1>7, <2>1, <2>3, <2>4 DEF WithEntry
  <2> QED BY <2>2, <2>5, Zenon
<1> DEFINE T == {i \in 0..Len(files) : ListedOf(all[i], whole[i]) /\ all[i].truncated = FALSE}
<1>9. 0 \in T
  <2>1. whole[0] = entries
    <3>1. entries \o <<>> = entries
      BY <1>4, ConcatEmptySeq
    <3>2. 0 \in 0..Len(files)
      BY <1>4
    <3>3. whole[0] = entries \o sum[0]
      BY <1>7, <3>2
    <3> QED BY <1>5, <3>1, <3>3
  <2>2. Beginning(entries, MaxItems) = entries
    BY <1>4, LenProperties DEF Beginning
  <2>3. ListedOf(all[0], whole[0]) /\ all[0].truncated = FALSE
    BY <1>3, <2>1, <2>2 DEF ListedOf
  <2> QED BY <1>4, <2>3
<1>10. ASSUME NEW i \in 1..Len(files), i - 1 \in T PROVE i \in T
  <2>1. i \in 0..Len(files) /\ i - 1 \in 0..Len(files)
    BY <1>4
  <2>2. PICK listed \in Loop : listed = all[i - 1]
    BY <1>3, <2>1
  <2>3. PICK before \in Entries : before = whole[i - 1]
    BY <1>7, <2>1
  <2>4. all[i] = AddFile(dir, listed, files[i])
    BY <1>3, <2>2
  <2>5. whole[i] = WithEntry(before, files[i], <<dir, files[i]>>)
    BY <1>8, <2>3, Zenon
  <2>6. ListedOf(listed, before) /\ listed.truncated = FALSE
    BY <1>10, <2>2, <2>3
  <2>7. ListedOf(all[i], whole[i])
    <3>1. files[i] \in FileNames
      BY <1>4
    <3>2. PICK next : next = whole[i]
      OBVIOUS
    <3>3. ListedOf(AddFile(dir, listed, files[i]), next)
      BY <2>5, <2>6, <3>1, <3>2, AddFileLists, Zenon
    <3> QED BY <2>4, <3>2, <3>3, Zenon
  <2>8. all[i].truncated = FALSE
    BY <2>4, <2>6 DEF AddFile, Loop
  <2> QED BY <2>1, <2>7, <2>8
<1>11. Len(files) \in T
  <2> HIDE DEF T
  <2>1. \A i \in 0..Len(files) : i \in T
    BY <1>4, <1>9, <1>10, IntervalInduction
  <2> QED BY <1>4, <2>1
<1>12. Len(files) \in 0..Len(files)
  BY <1>4
<1>13. filed \in Loop /\ whole[Len(files)] = entries \o Named(dir, files) /\ Named(dir, files) \in Entries
  BY <1>1, <1>3, <1>5, <1>7, <1>12
<1> QED BY <1>1, <1>11, <1>13

(* What one level makes of a directory, given all that it would have        *)
(* without the bound and whether there are directories below its levels.    *)
Listed == {Malformed} \cup [status : {"ok"}, entries : Entries, truncated : BOOLEAN]
Visits == [tree : Trees, nested : BOOLEAN, entries : Entries]
Gives(given, all, deeper) ==
  given.status = "ok" =>
    /\ given.entries = Beginning(all, MaxItems)
    /\ Len(all) > MaxItems \/ deeper => given.truncated
    /\ given.truncated => Len(given.entries) = MaxItems \/ deeper

(* The same of the loop over directories. *)
DirsOf(listed, all, deeper) ==
  /\ ListedOf(listed, all)
  /\ listed.loop # "malformed" =>
       /\ listed.truncated => Len(listed.entries) = MaxItems \/ deeper
       /\ listed.loop = "open" /\ deeper => listed.truncated

LEMMA ChildIsListed ==
  ASSUME NEW listed \in Loop, NEW all \in Entries, NEW deeper \in BOOLEAN, DirsOf(listed, all, deeper),
         NEW sub \in Listed, NEW part \in Entries, NEW deep \in BOOLEAN,
         listed.loop = "open" => Gives(sub, listed.entries \o part, deep),
         NEW added,
         added = IF listed.loop # "open" THEN listed
                 ELSE IF sub.status = "malformed" THEN [listed EXCEPT !.loop = "malformed"]
                 ELSE [entries |-> sub.entries, truncated |-> listed.truncated \/ sub.truncated,
                       loop |-> IF Len(sub.entries) >= MaxItems THEN "full" ELSE "open"]
  PROVE  DirsOf(added, all \o part, deeper \/ deep) /\ added \in Loop
<1>1. MaxItems \in Nat
  BY ResultsAssumption
<1>2. all \in Seq(Seq(FileNames)) /\ part \in Seq(Seq(FileNames)) /\ Len(all) \in Nat /\ Len(part) \in Nat
  BY LenProperties DEF Entries
<1>3. /\ listed.entries \in Entries /\ listed.truncated \in BOOLEAN
      /\ listed.loop \in {"open", "full", "malformed"}
  BY DEF Loop
<1>4. PICK both : both = all \o part
  OBVIOUS
<1>5. both \in Seq(Seq(FileNames)) /\ Len(both) = Len(all) + Len(part)
  BY <1>2, <1>4, ConcatProperties
<1>6. ASSUME listed.loop = "malformed" PROVE DirsOf(added, both, deeper \/ deep) /\ added \in Loop
  BY <1>6 DEF DirsOf, ListedOf
<1>7. ASSUME listed.loop = "full" PROVE DirsOf(added, both, deeper \/ deep) /\ added \in Loop
  <2>1. added = listed
    BY <1>7
  <2>2. listed.entries = Beginning(all, MaxItems) /\ Len(listed.entries) = MaxItems
    BY <1>7 DEF DirsOf, ListedOf
  <2>3. Beginning(both, MaxItems) = Beginning(all, MaxItems)
    BY <1>1, <1>2, <1>4, <2>2, BeginningFull
  <2> QED BY <1>7, <2>1, <2>2, <2>3 DEF DirsOf, ListedOf
<1>8. ASSUME listed.loop = "open", sub.status = "malformed"
      PROVE  DirsOf(added, both, deeper \/ deep) /\ added \in Loop
  BY <1>8 DEF DirsOf, ListedOf, Loop
<1>9. ASSUME listed.loop = "open", sub.status # "malformed"
      PROVE  DirsOf(added, both, deeper \/ deep) /\ added \in Loop
  <2>1. sub.status = "ok" /\ sub.entries \in Entries /\ sub.truncated \in BOOLEAN
    BY <1>9 DEF Listed, Malformed
  <2>2. listed.entries = all /\ Len(all) <= MaxItems
    BY <1>1, <1>2, <1>9 DEF DirsOf, ListedOf, Beginning
  <2>3. /\ listed.truncated => Len(all) = MaxItems \/ deeper
        /\ deeper => listed.truncated
    BY <1>9, <2>2 DEF DirsOf
  <2>4. Gives(sub, both, deep)
    BY <1>4, <1>9, <2>2
  <2>5. /\ sub.entries = Beginning(both, MaxItems)
        /\ deep => sub.truncated
        /\ sub.truncated => Len(sub.entries) = MaxItems \/ deep
    BY <2>1, <2>4 DEF Gives
  <2>6. PICK length \in Nat : length = Len(sub.entries)
    BY <2>1, LenProperties DEF Entries
  <2>7. length = IF Len(both) > MaxItems THEN MaxItems ELSE Len(both)
    BY <1>1, <1>5, <2>5, <2>6, BeginningIs
  <2>8. /\ added.entries = sub.entries /\ added.truncated = (listed.truncated \/ sub.truncated)
        /\ added.loop = IF length >= MaxItems THEN "full" ELSE "open"
        /\ added \in Loop
    BY <1>9, <2>1, <2>6 DEF Loop
  <2>9. ListedOf(added, both)
    <3>1. Len(both) \in Nat
      BY <1>5, LenProperties
    <3>2. length >= MaxItems => length = MaxItems
      BY <1>1, <2>7, <3>1
    <3>3. ~(length >= MaxItems) => Len(both) <= MaxItems
      BY <1>1, <2>7, <3>1
    <3>4. added.loop = "open" => ~(length >= MaxItems)
      BY <2>8
    <3>5. added.loop = "full" => length >= MaxItems
      BY <2>8
    <3>6. added.entries = Beginning(both, MaxItems) /\ Len(added.entries) = length
      BY <2>5, <2>6, <2>8
    <3> QED BY <3>2, <3>3, <3>4, <3>5, <3>6 DEF ListedOf
  <2>10. added.truncated => Len(added.entries) = MaxItems \/ deeper \/ deep
    <3>1. Len(all) = MaxItems => length = MaxItems
      BY <1>1, <1>2, <1>5, <2>7
    <3> QED BY <2>3, <2>5, <2>6, <2>8, <3>1
  <2>11. deeper \/ deep => added.truncated
    BY <2>3, <2>5, <2>8
  <2> QED BY <2>8, <2>9, <2>10, <2>11 DEF DirsOf
<1> QED BY <1>3, <1>4, <1>6, <1>7, <1>8, <1>9

LEMMA AddDirectoryType ==
  ASSUME NEW listed \in Loop, NEW child \in Trees, NEW below \in [Visits -> Listed]
  PROVE  AddDirectory(listed, child, below) \in Loop
<1>1. Visit(child, TRUE, listed.entries) \in Visits
  BY DEF Visit, Visits, Loop
<1>2. PICK sub \in Listed : sub = below[Visit(child, TRUE, listed.entries)]
  BY <1>1
<1>3. sub.status # "malformed" => sub.entries \in Entries /\ sub.truncated \in BOOLEAN
  BY DEF Listed, Malformed
<1>4. AddDirectory(listed, child, below) =
        IF listed.loop # "open" THEN listed
        ELSE IF sub.status = "malformed" THEN [listed EXCEPT !.loop = "malformed"]
        ELSE [entries |-> sub.entries, truncated |-> listed.truncated \/ sub.truncated,
              loop |-> IF Len(sub.entries) >= MaxItems THEN "full" ELSE "open"]
  BY <1>2 DEF AddDirectory
<1> QED BY <1>3, <1>4 DEF Loop

LEMMA ListDirectoriesRuns ==
  ASSUME NEW dirs \in Seq(Trees), NEW files \in Loop, NEW below \in [Visits -> Listed]
  PROVE  /\ ListDirectories(dirs, files, below)[0] = files
         /\ \A i \in 1..Len(dirs) :
              ListDirectories(dirs, files, below)[i] =
                AddDirectory(ListDirectories(dirs, files, below)[i - 1], dirs[i], below)
         /\ \A i \in 0..Len(dirs) : ListDirectories(dirs, files, below)[i] \in Loop
<1> DEFINE n == Len(dirs)
           Body(f) == [i \in 0..n |-> IF i = 0 THEN files ELSE AddDirectory(f[i - 1], dirs[i], below)]
           chosen == CHOOSE f : f = Body(f)
           step == [i \in 1..n |-> [listed \in Loop |-> AddDirectory(listed, dirs[i], below)]]
<1>1. n \in Nat /\ \A i \in 1..n : dirs[i] \in Trees
  BY LenProperties, ElementOfSeq
<1>2. PICK f : IsRun(f, Loop, files, n, step)
  <2>1. step \in [1..n -> [Loop -> Loop]]
    <3> HIDE DEF n
    <3> QED BY <1>1, AddDirectoryType
  <2> HIDE DEF n, step
  <2> QED BY <1>1, <2>1, LoopRuns
<1>3. \E g : g = Body(g)
  <2> HIDE DEF n
  <2>1. f \in [0..n -> Loop] /\ f[0] = files /\ \A i \in 1..n : f[i] = step[i][f[i - 1]]
    <3> HIDE DEF step
    <3> QED BY <1>2 DEF IsRun
  <2>2. ASSUME NEW i \in 1..n PROVE f[i] = AddDirectory(f[i - 1], dirs[i], below)
    <3>1. f[i - 1] \in Loop
      BY <1>1, <2>1
    <3>2. step[i][f[i - 1]] = AddDirectory(f[i - 1], dirs[i], below)
      BY <3>1
    <3> QED BY <2>1, <3>2
  <2>3. f = Body(f)
    BY <1>1, <2>1, <2>2
  <2> HIDE DEF Body
  <2> QED BY <2>3
<1>4. chosen = Body(chosen)
  <2> HIDE DEF Body
  <2> QED BY <1>3
<1>5. ListDirectories(dirs, files, below) = chosen
  BY DEF ListDirectories
<1> HIDE DEF chosen
<1>6. chosen[0] = files /\ \A i \in 1..n : chosen[i] = AddDirectory(chosen[i - 1], dirs[i], below)
  <2> HIDE DEF n
  <2> QED BY <1>1, <1>4
<1>7. \A i \in 0..n : chosen[i] \in Loop
  <2> DEFINE T == {i \in 0..n : chosen[i] \in Loop}
  <2>1. 0 \in T
    BY <1>1, <1>6
  <2>2. ASSUME NEW i \in 1..n, i - 1 \in T PROVE i \in T
    <3>1. chosen[i] = AddDirectory(chosen[i - 1], dirs[i], below) /\ chosen[i - 1] \in Loop /\ i \in 0..n
      BY <1>1, <1>6, <2>2
    <3> QED BY <1>1, <3>1, AddDirectoryType
  <2> HIDE DEF T, n
  <2>3. \A i \in 0..n : i \in T
    BY <1>1, <2>1, <2>2, IntervalInduction
  <2> QED BY <2>3 DEF T
<1> QED BY <1>5, <1>6, <1>7

(* below lists its levels of a directory as whole and deeper say. *)
Places == [tree : Trees, nested : BOOLEAN]
Place(tree, nested) == [tree |-> tree, nested |-> nested]
LevelIs(below, whole, deeper) ==
  \A tree \in Trees, nested \in BOOLEAN, entries \in Entries :
    Len(entries) <= MaxItems =>
      Gives(below[Visit(tree, nested, entries)], entries \o whole[Place(tree, nested)], deeper[tree])
Parts(dirs, whole) == [i \in DOMAIN dirs |-> whole[Place(dirs[i], TRUE)]]

LEMMA DirsAreListed ==
  ASSUME NEW dirs \in Seq(Trees), NEW files \in Loop, NEW all \in Entries,
         ListedOf(files, all), files.truncated = FALSE,
         NEW below \in [Visits -> Listed], NEW whole \in [Places -> Entries], NEW deeper \in [Trees -> BOOLEAN],
         LevelIs(below, whole, deeper),
         NEW end, end = ListDirectories(dirs, files, below)[Len(dirs)]
  PROVE  /\ FlattenSeq(Parts(dirs, whole)) \in Entries /\ end \in Loop
         /\ DirsOf(end, all \o FlattenSeq(Parts(dirs, whole)), \E i \in DOMAIN dirs : deeper[dirs[i]])
<1>1. /\ Len(dirs) \in Nat /\ DOMAIN dirs = 1..Len(dirs) /\ MaxItems \in Nat
      /\ \A i \in 1..Len(dirs) : dirs[i] \in Trees
  BY LenProperties, ElementOfSeq, ResultsAssumption
<1>2. PICK parts : parts = Parts(dirs, whole)
  OBVIOUS
<1>3. ASSUME NEW i \in 1..Len(dirs) PROVE parts[i] = whole[Place(dirs[i], TRUE)] /\ parts[i] \in Entries
  <2>1. Place(dirs[i], TRUE) \in Places
    BY <1>1 DEF Place, Places
  <2>2. whole[Place(dirs[i], TRUE)] \in Entries
    BY <2>1
  <2> QED BY <1>1, <1>2, <2>2 DEF Parts
<1>4. parts \in Seq(Entries) /\ Len(parts) = Len(dirs)
  <2>1. DOMAIN parts = 1..Len(dirs) /\ parts = [i \in 1..Len(dirs) |-> parts[i]]
    BY <1>1, <1>2 DEF Parts
  <2>2. parts \in [1..Len(dirs) -> Entries]
    BY <1>3, <2>1
  <2> QED BY <1>1, <2>2, SeqOfLength
<1>5. PICK sum \in [0..Len(dirs) -> Entries] :
        /\ FlattenSeq(parts) = sum[Len(dirs)]
        /\ sum[0] = <<>> /\ \A i \in 1..Len(dirs) : sum[i] = sum[i - 1] \o parts[i]
  <2>1. \E sum \in [0..Len(parts) -> Entries] :
           /\ FlattenSeq(parts) = sum[Len(parts)]
           /\ sum[0] = <<>> /\ \A i \in 1..Len(parts) : sum[i] = sum[i - 1] \o parts[i]
    BY <1>4, FlattenSums DEF Entries
  <2> QED BY <1>4, <2>1, Zenon
<1>6. PICK loop : loop = ListDirectories(dirs, files, below)
  OBVIOUS
<1>7. /\ loop[0] = files /\ \A i \in 1..Len(dirs) : loop[i] = AddDirectory(loop[i - 1], dirs[i], below)
      /\ \A i \in 0..Len(dirs) : loop[i] \in Loop
  BY <1>6, ListDirectoriesRuns, Zenon
<1>8. PICK deep : deep = [i \in 0..Len(dirs) |-> \E j \in 1..i : deeper[dirs[j]]]
  OBVIOUS
<1>9. /\ deep[0] = FALSE /\ \A i \in 0..Len(dirs) : deep[i] \in BOOLEAN
      /\ \A i \in 1..Len(dirs) : deep[i] = (deep[i - 1] \/ deeper[dirs[i]])
  <2>1. deep[0] = FALSE
    BY <1>1, <1>8
  <2>2. ASSUME NEW i \in 0..Len(dirs) PROVE deep[i] = (\E j \in 1..i : deeper[dirs[j]]) /\ deep[i] \in BOOLEAN
    BY <1>8
  <2>3. ASSUME NEW i \in 1..Len(dirs) PROVE deep[i] = (deep[i - 1] \/ deeper[dirs[i]])
    <3>1. i \in 0..Len(dirs) /\ i - 1 \in 0..Len(dirs)
      BY <1>1
    <3>2. deeper[dirs[i]] \in BOOLEAN
      BY <1>1
    <3>3. \A j : j \in 1..i <=> j \in 1..i - 1 \/ j = i
      BY <1>1
    <3>4. (\E j \in 1..i : deeper[dirs[j]]) <=> (\E j \in 1..i - 1 : deeper[dirs[j]]) \/ deeper[dirs[i]]
      BY <3>3, Zenon
    <3> QED BY <2>2, <3>1, <3>2, <3>4
  <2> QED BY <2>1, <2>2, <2>3
<1>10. PICK total : total = [i \in 0..Len(dirs) |-> all \o sum[i]]
  OBVIOUS
<1>11. all \in Seq(Seq(FileNames)) /\ \A i \in 0..Len(dirs) : sum[i] \in Seq(Seq(FileNames))
  BY <1>5 DEF Entries
<1>12. ASSUME NEW i \in 0..Len(dirs) PROVE total[i] = all \o sum[i] /\ total[i] \in Entries
  <2>1. sum[i] \in Seq(Seq(FileNames))
    BY <1>11
  <2>2. all \o sum[i] \in Entries
    BY <1>11, <2>1, ConcatProperties DEF Entries
  <2> QED BY <1>10, <2>2
<1>13. ASSUME NEW i \in 1..Len(dirs) PROVE total[i] = total[i - 1] \o parts[i]
  <2>1. i \in 0..Len(dirs) /\ i - 1 \in 0..Len(dirs)
    BY <1>1
  <2>2. PICK before \in Seq(Seq(FileNames)) : before = sum[i - 1]
    BY <1>11, <2>1
  <2>3. PICK part \in Seq(Seq(FileNames)) : part = parts[i]
    BY <1>3 DEF Entries
  <2>4. (all \o before) \o part = all \o (before \o part)
    <3>1. all \in Seq(Seq(FileNames))
      BY <1>11
    <3> QED BY <3>1, ConcatAssociative
  <2>5. sum[i] = before \o part /\ total[i] = all \o sum[i] /\ total[i - 1] = all \o before
    BY <1>5, <1>12, <2>1, <2>2, <2>3
  <2> QED BY <2>3, <2>4, <2>5
<1> DEFINE T == {i \in 0..Len(dirs) : DirsOf(loop[i], total[i], deep[i])}
<1>14. 0 \in T
  <2>1. 0 \in 0..Len(dirs)
    BY <1>1
  <2>2. total[0] = all
    <3>1. all \o <<>> = all
      BY <1>11, ConcatEmptySeq
    <3> QED BY <1>5, <1>12, <2>1, <3>1
  <2>3. DirsOf(files, all, FALSE)
    BY DEF DirsOf
  <2> QED BY <1>7, <1>9, <2>1, <2>2, <2>3
<1>15. ASSUME NEW i \in 1..Len(dirs), i - 1 \in T PROVE i \in T
  <2>1. i \in 0..Len(dirs) /\ i - 1 \in 0..Len(dirs)
    BY <1>1
  <2>2. PICK listed \in Loop : listed = loop[i - 1]
    BY <1>7, <2>1
  <2>3. PICK before \in Entries : before = total[i - 1]
    BY <1>12, <2>1
  <2>4. PICK was \in BOOLEAN : was = deep[i - 1]
    BY <1>9, <2>1
  <2>5. PICK child \in Trees : child = dirs[i]
    BY <1>1
  <2>6. PICK part \in Entries : part = parts[i]
    BY <1>3
  <2>7. PICK is \in BOOLEAN : is = deeper[child]
    OBVIOUS
  <2>8. DirsOf(listed, before, was)
    BY <1>15, <2>2, <2>3, <2>4
  <2>9. Visit(child, TRUE, listed.entries) \in Visits
    BY DEF Visit, Visits, Loop
  <2>10. PICK sub \in Listed : sub = below[Visit(child, TRUE, listed.entries)]
    BY <2>9
  <2>11. listed.loop = "open" => Gives(sub, listed.entries \o part, is)
    <3> SUFFICES ASSUME listed.loop = "open" PROVE Gives(sub, listed.entries \o part, is)
      OBVIOUS
    <3>1. listed.entries = before /\ Len(before) <= MaxItems
      <4>1. listed.entries = Beginning(before, MaxItems) /\ Len(before) <= MaxItems
        BY <2>8 DEF DirsOf, ListedOf
      <4>2. Len(before) \in Nat
        BY LenProperties DEF Entries
      <4> QED BY <1>1, <4>1, <4>2 DEF Beginning
    <3>2. listed.entries \in Entries
      BY DEF Loop
    <3>3. part = whole[Place(child, TRUE)]
      BY <1>3, <2>5, <2>6
    <3>4. Gives(below[Visit(child, TRUE, listed.entries)], listed.entries \o whole[Place(child, TRUE)], deeper[child])
      BY <3>1, <3>2 DEF LevelIs
    <3> QED BY <2>7, <2>10, <3>3, <3>4
  <2>12. PICK added : added = loop[i]
    OBVIOUS
  <2>13. added = AddDirectory(listed, child, below)
    BY <1>7, <2>2, <2>5, <2>12
  <2>14. added = IF listed.loop # "open" THEN listed
                 ELSE IF sub.status = "malformed" THEN [listed EXCEPT !.loop = "malformed"]
                 ELSE [entries |-> sub.entries, truncated |-> listed.truncated \/ sub.truncated,
                       loop |-> IF Len(sub.entries) >= MaxItems THEN "full" ELSE "open"]
    BY <2>10, <2>13, Zenon DEF AddDirectory
  <2>15. DirsOf(added, before \o part, was \/ is)
    BY <2>8, <2>11, <2>14, ChildIsListed
  <2>16. total[i] = before \o part
    BY <1>13, <2>3, <2>6
  <2>17. deep[i] = (was \/ is)
    BY <1>9, <2>4, <2>5, <2>7
  <2> QED BY <2>1, <2>12, <2>15, <2>16, <2>17
<1>16. Len(dirs) \in T
  <2> HIDE DEF T
  <2>1. \A i \in 0..Len(dirs) : i \in T
    BY <1>1, <1>14, <1>15, IntervalInduction
  <2> QED BY <1>1, <2>1
<1>17. Len(dirs) \in 0..Len(dirs)
  BY <1>1
<1>18. total[Len(dirs)] = all \o FlattenSeq(parts) /\ FlattenSeq(parts) \in Entries /\ end \in Loop
  BY <1>5, <1>6, <1>7, <1>12, <1>17
<1>19. deep[Len(dirs)] = \E i \in DOMAIN dirs : deeper[dirs[i]]
  BY <1>1, <1>8, <1>17
<1>20. DirsOf(end, total[Len(dirs)], deep[Len(dirs)])
  BY <1>6, <1>16
<1> QED BY <1>2, <1>18, <1>19, <1>20

LEMMA TreeType ==
  ASSUME NEW tree \in Trees
  PROVE  tree.name \in Names /\ tree.files \in Seq(FileNames) /\ tree.dirs \in Seq(Trees) /\ tree.malformed \in BOOLEAN
BY ResultsAssumption

LEMMA OwnNameType ==
  ASSUME NEW tree \in Trees, NEW nested \in BOOLEAN
  PROVE  OwnName(tree, nested) \in Entries /\ Len(OwnName(tree, nested)) <= 1
<1>1. PICK name \in FileNames : name = tree.name
  BY TreeType DEF FileNames
<1>2. PICK entry : entry = <<name>>
  OBVIOUS
<1>3. entry \in Seq(FileNames)
  BY <1>2
<1>4. PICK own : own = <<entry>>
  OBVIOUS
<1>5. own \in Seq(Seq(FileNames)) /\ Len(own) = 1
  BY <1>3, <1>4
<1>6. OwnName(tree, nested) \in {own, <<>>}
  BY <1>1, <1>2, <1>4, Zenon DEF OwnName
<1>7. <<>> \in Seq(Seq(FileNames)) /\ Len(<<>>) = 0
  BY EmptySeq
<1>8. own \in Entries /\ Len(own) <= 1
  BY <1>5 DEF Entries
<1>9. <<>> \in Entries /\ Len(<<>>) <= 1
  BY <1>7 DEF Entries
<1> QED BY <1>6, <1>8, <1>9, Zenon

(* The files that a level lists of a directory. *)
FilesAt(tree, left) == IF left = 1 THEN <<>> ELSE tree.files
NamedAt(tree, left) == IF left = 1 THEN <<>> ELSE Named(tree.name, tree.files)

LEMMA FilesAtType ==
  ASSUME NEW tree \in Trees, NEW left
  PROVE  /\ FilesAt(tree, left) \in Seq(FileNames) /\ NamedAt(tree, left) \in Entries
         /\ NamedAt(tree, left) = Named(tree.name, FilesAt(tree, left))
<1>1. tree.name \in Names /\ tree.files \in Seq(FileNames) /\ <<>> \in Seq(FileNames) /\ Len(<<>>) = 0
  BY TreeType, EmptySeq
<1>2. ASSUME NEW files \in Seq(FileNames)
      PROVE  Named(tree.name, files) \in Entries /\ (files = <<>> => Named(tree.name, files) = <<>>)
  <2>1. PICK sum : IsNamed(sum, tree.name, files)
    BY <1>1, NamedSums
  <2>2. Len(files) \in Nat
    BY LenProperties
  <2> QED BY <1>1, <2>1, <2>2 DEF IsNamed
<1>3. Named(tree.name, <<>>) = <<>> /\ <<>> \in Entries /\ Named(tree.name, tree.files) \in Entries
  BY <1>1, <1>2
<1>4. CASE left = 1
  BY <1>1, <1>3, <1>4 DEF FilesAt, NamedAt
<1>5. CASE left # 1
  BY <1>1, <1>3, <1>5 DEF FilesAt, NamedAt
<1> QED BY <1>4, <1>5

WholeHere(tree, nested, left, whole) ==
  OwnName(tree, nested) \o NamedAt(tree, left) \o FlattenSeq(Parts(tree.dirs, whole))

LEMMA PartsType ==
  ASSUME NEW dirs \in Seq(Trees), NEW whole \in [Places -> Entries]
  PROVE  FlattenSeq(Parts(dirs, whole)) \in Entries
<1>1. Len(dirs) \in Nat /\ DOMAIN dirs = 1..Len(dirs) /\ \A i \in 1..Len(dirs) : dirs[i] \in Trees
  BY LenProperties, ElementOfSeq
<1>2. ASSUME NEW i \in 1..Len(dirs) PROVE whole[Place(dirs[i], TRUE)] \in Entries
  <2>1. Place(dirs[i], TRUE) \in Places
    BY <1>1 DEF Place, Places
  <2> QED BY <2>1
<1>3. Parts(dirs, whole) \in [1..Len(dirs) -> Entries]
  BY <1>1, <1>2 DEF Parts
<1>4. Parts(dirs, whole) \in Seq(Entries)
  BY <1>1, <1>3, SeqOfLength
<1> QED BY <1>4, FlattenType DEF Entries

LEMMA WholeHereType ==
  ASSUME NEW tree \in Trees, NEW nested \in BOOLEAN, NEW left, NEW whole \in [Places -> Entries]
  PROVE  WholeHere(tree, nested, left, whole) \in Entries
<1>1. PICK own \in Seq(Seq(FileNames)) : own = OwnName(tree, nested)
  BY OwnNameType DEF Entries
<1>2. PICK named \in Seq(Seq(FileNames)) : named = NamedAt(tree, left)
  BY FilesAtType DEF Entries
<1>3. PICK parts \in Seq(Seq(FileNames)) : parts = FlattenSeq(Parts(tree.dirs, whole))
  BY PartsType, TreeType DEF Entries
<1>4. own \o named \in Seq(Seq(FileNames))
  BY ConcatProperties
<1>5. (own \o named) \o parts \in Seq(Seq(FileNames))
  BY <1>4, ConcatProperties
<1> QED BY <1>1, <1>2, <1>3, <1>5, Zenon DEF WholeHere, Entries

LEMMA ListDirectoryType ==
  ASSUME NEW visit \in Visits, NEW left \in Nat, NEW below, left = 0 \/ below \in [Visits -> Listed]
  PROVE  ListDirectory(visit, left, below) \in Listed
<1>1. visit.tree \in Trees /\ visit.nested \in BOOLEAN /\ visit.entries \in Entries
  BY DEF Visits
<1>2. PICK tree \in Trees : tree = visit.tree
  BY <1>1
<1>3. CASE Len(visit.entries) >= MaxItems \/ left = 0
  <2>1. ListDirectory(visit, left, below) = [status |-> "ok", entries |-> visit.entries, truncated |-> TRUE]
    BY <1>3 DEF ListDirectory
  <2> QED BY <1>1, <2>1 DEF Listed
<1>4. CASE ~(Len(visit.entries) >= MaxItems \/ left = 0)
  <2>1. PICK named : named = visit.entries \o OwnName(tree, visit.nested)
    OBVIOUS
  <2>2. named \in Entries
    <3>1. visit.entries \in Seq(Seq(FileNames)) /\ OwnName(tree, visit.nested) \in Seq(Seq(FileNames))
      BY <1>1, OwnNameType DEF Entries
    <3> QED BY <2>1, <3>1, ConcatProperties DEF Entries
  <2>3. PICK files : files = FilesAt(tree, left)
    OBVIOUS
  <2>4. PICK filed : filed = ListFiles(tree.name, files, named)[Len(files)]
    OBVIOUS
  <2>5. filed \in Loop
    <3>1. files \in Seq(FileNames) /\ tree.name \in Names
      BY <2>3, FilesAtType, TreeType
    <3>2. Len(files) \in 0..Len(files)
      BY <3>1, LenProperties
    <3> QED BY <2>2, <2>4, <3>1, <3>2, ListFilesRuns
  <2>6. PICK all : all = ListDirectories(tree.dirs, filed, below)[Len(tree.dirs)]
    OBVIOUS
  <2>7. all \in Loop
    <3>1. tree.dirs \in Seq(Trees) /\ below \in [Visits -> Listed]
      BY <1>4, TreeType
    <3>2. Len(tree.dirs) \in 0..Len(tree.dirs)
      BY <3>1, LenProperties
    <3> QED BY <2>5, <2>6, <3>1, <3>2, ListDirectoriesRuns
  <2>8. ListDirectory(visit, left, below) =
          IF tree.malformed \/ all.loop = "malformed" THEN Malformed
          ELSE [status |-> "ok", entries |-> all.entries, truncated |-> all.truncated \/ all.loop = "full"]
    BY <1>2, <1>4, <2>1, <2>3, <2>4, <2>6, Zenon DEF ListDirectory, FilesAt
  <2> QED BY <2>7, <2>8 DEF Listed, Loop
<1> QED BY <1>3, <1>4

IsJoined(all, a, b, c) == all = (a \o b) \o c
AreJoined(left, d, a, right) == left \o d = a \o right
FourOf(A, a, b, c, d) == a \in Seq(A) /\ b \in Seq(A) /\ c \in Seq(A) /\ d \in Seq(A)

LEMMA ConcatFour ==
  ASSUME NEW A, NEW a, NEW b, NEW c, NEW d, FourOf(A, a, b, c, d), NEW left, IsJoined(left, a, b, c), NEW right, IsJoined(right, b, c, d)
  PROVE  AreJoined(left, d, a, right)
<1>1. PICK middle : middle = b \o c
  OBVIOUS
<1>2. a \in Seq(A) /\ b \in Seq(A) /\ c \in Seq(A) /\ d \in Seq(A)
  BY DEF FourOf
<1>3. middle \in Seq(A)
  BY <1>1, <1>2, ConcatProperties
<1>4. left = a \o middle /\ right = middle \o d
  BY <1>1, <1>2, ConcatAssociative DEF IsJoined
<1>5. (a \o middle) \o d = a \o (middle \o d)
  BY <1>2, <1>3, ConcatAssociative
<1> QED BY <1>4, <1>5 DEF AreJoined

(* One level more, and its own part in what there is to list. *)
LEMMA LevelLists ==
  ASSUME NEW left \in Nat \ {0}, NEW below \in [Visits -> Listed],
         NEW whole \in [Places -> Entries], NEW deeper \in [Trees -> BOOLEAN], LevelIs(below, whole, deeper),
         NEW tree \in Trees, NEW nested \in BOOLEAN, NEW entries \in Entries, Len(entries) <= MaxItems
  PROVE  Gives(ListDirectory(Visit(tree, nested, entries), left, below),
               entries \o WholeHere(tree, nested, left, whole), \E i \in DOMAIN tree.dirs : deeper[tree.dirs[i]])
<1> DEFINE deep == \E i \in DOMAIN tree.dirs : deeper[tree.dirs[i]]
<1>1. MaxItems \in Nat /\ MaxItems > 0
  BY ResultsAssumption
<1>2. entries \in Seq(Seq(FileNames)) /\ Len(entries) \in Nat
  BY LenProperties DEF Entries
<1>3. PICK own \in Seq(Seq(FileNames)) : own = OwnName(tree, nested)
  BY OwnNameType DEF Entries
<1>4. PICK named \in Seq(Seq(FileNames)) : named = NamedAt(tree, left)
  BY FilesAtType DEF Entries
<1>5. PICK parts \in Seq(Seq(FileNames)) : parts = FlattenSeq(Parts(tree.dirs, whole))
  BY PartsType, TreeType DEF Entries
<1>6. PICK here \in Seq(Seq(FileNames)) : here = WholeHere(tree, nested, left, whole)
  BY WholeHereType DEF Entries
<1>7. here = (own \o named) \o parts
  BY <1>3, <1>4, <1>5, <1>6, Zenon DEF WholeHere
<1>8. PICK given : given = ListDirectory(Visit(tree, nested, entries), left, below)
  OBVIOUS
<1>9. /\ Visit(tree, nested, entries).tree = tree /\ Visit(tree, nested, entries).nested = nested
      /\ Visit(tree, nested, entries).entries = entries
  BY DEF Visit
<1>10. ASSUME Len(entries) >= MaxItems PROVE Gives(given, entries \o here, deep)
  <2>1. given = [status |-> "ok", entries |-> entries, truncated |-> TRUE]
    BY <1>8, <1>9, <1>10 DEF ListDirectory
  <2>2. Len(entries) = MaxItems
    BY <1>1, <1>2, <1>10
  <2>3. Beginning(entries, MaxItems) = entries
    BY <1>1, <2>2 DEF Beginning
  <2>4. Beginning(entries \o here, MaxItems) = entries
    BY <1>1, <1>2, <2>2, <2>3, BeginningFull
  <2> HIDE DEF deep
  <2> QED BY <2>1, <2>2, <2>4 DEF Gives
<1>11. ASSUME ~(Len(entries) >= MaxItems) PROVE Gives(given, entries \o here, deep)
  <2>1. PICK before : before = entries \o own
    OBVIOUS
  <2>2. before \in Entries /\ Len(before) <= MaxItems
    <3>1. before \in Seq(Seq(FileNames)) /\ Len(before) = Len(entries) + Len(own)
      BY <1>2, <2>1, ConcatProperties
    <3>2. Len(own) <= 1 /\ Len(own) \in Nat
      BY <1>3, OwnNameType, LenProperties
    <3> QED BY <1>1, <1>2, <1>11, <3>1, <3>2 DEF Entries
  <2>3. PICK files : files = FilesAt(tree, left)
    OBVIOUS
  <2>4. files \in Seq(FileNames) /\ tree.name \in Names /\ named = Named(tree.name, files)
    BY <1>4, <2>3, FilesAtType, TreeType
  <2>5. PICK filed : filed = ListFiles(tree.name, files, before)[Len(files)]
    OBVIOUS
  <2>6. filed \in Loop /\ filed.truncated = FALSE /\ ListedOf(filed, before \o named)
    <3>1. filed \in Loop /\ ~filed.truncated /\ ListedOf(filed, before \o Named(tree.name, files))
      BY <2>2, <2>4, <2>5, FilesAreListed
    <3> QED BY <2>4, <3>1 DEF Loop
  <2>7. before \o named \in Entries
    BY <2>2, ConcatProperties DEF Entries
  <2>8. PICK all : all = ListDirectories(tree.dirs, filed, below)[Len(tree.dirs)]
    OBVIOUS
  <2>9. all \in Loop /\ DirsOf(all, (before \o named) \o parts, deep)
    <3>1. tree.dirs \in Seq(Trees)
      BY TreeType
    <3>2. PICK some \in Entries : some = before \o named
      BY <2>7
    <3>3. all \in Loop /\ DirsOf(all, some \o FlattenSeq(Parts(tree.dirs, whole)), deep)
      BY <2>6, <2>8, <3>1, <3>2, DirsAreListed
    <3> QED BY <1>5, <3>2, <3>3, Zenon
  <2>10. (before \o named) \o parts = entries \o here
    <3>1. FourOf(Seq(FileNames), entries, own, named, parts)
      BY <1>2, <1>3, <1>4, <1>5 DEF FourOf
    <3>2. PICK first : first = before \o named
      OBVIOUS
    <3>3. IsJoined(first, entries, own, named)
      BY <2>1, <3>2, Zenon DEF IsJoined
    <3>4. IsJoined(here, own, named, parts)
      BY <1>7, Zenon DEF IsJoined
    <3>5. AreJoined(first, parts, entries, here)
      <4> HIDE DEF deep
      <4> QED BY <3>1, <3>3, <3>4, ConcatFour, Zenon
    <3> QED BY <3>2, <3>5, Zenon DEF AreJoined
  <2>11. given = IF tree.malformed \/ all.loop = "malformed" THEN Malformed
                 ELSE [status |-> "ok", entries |-> all.entries, truncated |-> all.truncated \/ all.loop = "full"]
    <3>1. ~(Len(entries) >= MaxItems \/ left = 0)
      BY <1>11
    <3> QED BY <1>3, <1>8, <1>9, <2>1, <2>3, <2>5, <2>8, <3>1, Zenon DEF ListDirectory, FilesAt
  <2>12. SUFFICES ASSUME given.status = "ok"
                  PROVE  /\ given.entries = Beginning(entries \o here, MaxItems)
                         /\ Len(entries \o here) > MaxItems \/ deep => given.truncated
                         /\ given.truncated => Len(given.entries) = MaxItems \/ deep
    BY DEF Gives
  <2>13. /\ all.loop # "malformed" /\ given.entries = all.entries
         /\ given.truncated = (all.truncated \/ all.loop = "full")
    BY <2>11, <2>12 DEF Malformed
  <2>14. DirsOf(all, entries \o here, deep)
    BY <2>9, <2>10
  <2>15. all.loop \in {"open", "full"} /\ all.truncated \in BOOLEAN
    BY <2>9, <2>13 DEF Loop
  <2>16. /\ all.entries = Beginning(entries \o here, MaxItems)
         /\ all.loop = "open" => Len(entries \o here) <= MaxItems
         /\ all.loop = "full" => Len(all.entries) = MaxItems
         /\ all.truncated => Len(all.entries) = MaxItems \/ deep
         /\ all.loop = "open" /\ deep => all.truncated
    <3> HIDE DEF deep
    <3> QED BY <2>13, <2>14 DEF DirsOf, ListedOf
  <2>17. Len(entries \o here) \in Nat
    BY <1>2, ConcatProperties, LenProperties
  <2>18. Len(entries \o here) > MaxItems => all.loop # "open"
    BY <1>1, <2>16, <2>17
  <2> HIDE DEF deep
  <2> QED BY <2>13, <2>15, <2>16, <2>18
<1>12. Gives(given, entries \o here, deep)
  <2> HIDE DEF deep
  <2> QED BY <1>10, <1>11
<1> QED BY <1>6, <1>8, <1>12


(* All levels of a listing, from the one that lists nothing upwards. *)
NothingBelow == [visit \in Visits |-> [status |-> "ok", entries |-> visit.entries, truncated |-> TRUE]]
LevelAbove(left, below) == [visit \in Visits |-> ListDirectory(visit, left, below)]

LEMMA NothingBelowType == NothingBelow \in [Visits -> Listed]
<1>1. ASSUME NEW visit \in Visits
      PROVE  [status |-> "ok", entries |-> visit.entries, truncated |-> TRUE] \in Listed
  BY DEF Visits, Listed
<1> QED BY <1>1 DEF NothingBelow

LEMMA LevelZero ==
  ASSUME NEW below
  PROVE  LevelAbove(0, below) = NothingBelow
BY DEF LevelAbove, NothingBelow, ListDirectory

LEMMA LevelAboveType ==
  ASSUME NEW left \in Nat, NEW below \in [Visits -> Listed]
  PROVE  LevelAbove(left, below) \in [Visits -> Listed]
<1>1. ASSUME NEW visit \in Visits PROVE ListDirectory(visit, left, below) \in Listed
  BY ListDirectoryType
<1> QED BY <1>1 DEF LevelAbove

LEMMA FlattenRuns ==
  ASSUME NEW n \in Nat
  PROVE  /\ Flatten(n)[0] = NothingBelow
         /\ \A i \in 1..n : Flatten(n)[i] = LevelAbove(i, Flatten(n)[i - 1])
         /\ \A i \in 0..n : Flatten(n)[i] \in [Visits -> Listed]
<1> DEFINE A == [Visits -> Listed]
           Body(f) == [i \in 0..n |-> LevelAbove(i, f[i - 1])]
           chosen == CHOOSE f : f = Body(f)
           step == [i \in 1..n |-> [below \in A |-> LevelAbove(i, below)]]
<1>1. PICK f : IsRun(f, A, NothingBelow, n, step)
  <2>1. step \in [1..n -> [A -> A]]
    BY LevelAboveType
  <2>2. NothingBelow \in A
    BY NothingBelowType
  <2> HIDE DEF A, step
  <2> QED BY <2>1, <2>2, LoopRuns
<1>2. \E g : g = Body(g)
  <2>1. f \in [0..n -> A] /\ f[0] = NothingBelow /\ \A i \in 1..n : f[i] = step[i][f[i - 1]]
    <3> HIDE DEF A, step
    <3> QED BY <1>1 DEF IsRun
  <2>2. ASSUME NEW i \in 1..n PROVE f[i] = LevelAbove(i, f[i - 1])
    <3> HIDE DEF A
    <3>1. f[i - 1] \in A
      BY <2>1
    <3>2. step[i][f[i - 1]] = LevelAbove(i, f[i - 1])
      BY <3>1
    <3> QED BY <2>1, <3>2
  <2>3. f[0] = LevelAbove(0, f[0 - 1])
    BY <2>1, LevelZero
  <2>4. f = Body(f)
    <3> HIDE DEF A
    <3>1. \A i \in 0..n : f[i] = LevelAbove(i, f[i - 1])
      BY <2>2, <2>3
    <3> QED BY <2>1, <3>1
  <2> HIDE DEF Body
  <2> QED BY <2>4
<1>3. chosen = Body(chosen)
  <2> HIDE DEF Body
  <2> QED BY <1>2
<1>4. Flatten(n) = chosen
  BY DEF Flatten, LevelAbove, Visits
<1> HIDE DEF chosen, A
<1>5. chosen[0] = NothingBelow /\ \A i \in 1..n : chosen[i] = LevelAbove(i, chosen[i - 1])
  <2>1. \A i \in 0..n : chosen[i] = LevelAbove(i, chosen[i - 1])
    BY <1>3
  <2> QED BY <2>1, LevelZero
<1>6. \A i \in 0..n : chosen[i] \in A
  <2> DEFINE T == {i \in 0..n : chosen[i] \in A}
  <2>1. 0 \in T
    BY <1>5, NothingBelowType DEF A
  <2>2. ASSUME NEW i \in 1..n, i - 1 \in T PROVE i \in T
    <3>1. chosen[i] = LevelAbove(i, chosen[i - 1]) /\ chosen[i - 1] \in A /\ i \in 0..n /\ i \in Nat
      BY <1>5, <2>2
    <3> QED BY <3>1, LevelAboveType DEF A
  <2> HIDE DEF T
  <2>3. \A i \in 0..n : i \in T
    BY <2>1, <2>2, IntervalInduction
  <2> QED BY <2>3 DEF T
<1> QED BY <1>4, <1>5, <1>6 DEF A

(* All that there is to list of every level. *)
NothingAt == [place \in Places |-> <<>>]
WholeAbove(left, whole) == [place \in Places |-> WholeHere(place.tree, place.nested, left, whole)]

LEMMA NothingAtType == NothingAt \in [Places -> Entries]
<1>1. <<>> \in Entries
  BY EmptySeq DEF Entries
<1> QED BY <1>1 DEF NothingAt

LEMMA WholeAboveType ==
  ASSUME NEW left, NEW whole \in [Places -> Entries]
  PROVE  WholeAbove(left, whole) \in [Places -> Entries]
<1>1. ASSUME NEW place \in Places PROVE WholeHere(place.tree, place.nested, left, whole) \in Entries
  <2>1. place.tree \in Trees /\ place.nested \in BOOLEAN
    BY DEF Places
  <2> QED BY <2>1, WholeHereType
<1> QED BY <1>1 DEF WholeAbove

LEMMA WholeRuns ==
  ASSUME NEW n \in Nat
  PROVE  /\ Whole(n)[0] = NothingAt
         /\ \A i \in 1..n : Whole(n)[i] = WholeAbove(i, Whole(n)[i - 1])
         /\ \A i \in 0..n : Whole(n)[i] \in [Places -> Entries]
<1> DEFINE A == [Places -> Entries]
           Body(f) == [i \in 0..n |-> [place \in Places |->
                         IF i = 0 THEN <<>> ELSE WholeHere(place.tree, place.nested, i, f[i - 1])]]
           chosen == CHOOSE f : f = Body(f)
           step == [i \in 1..n |-> [whole \in A |-> WholeAbove(i, whole)]]
<1>1. PICK f : IsRun(f, A, NothingAt, n, step)
  <2>1. step \in [1..n -> [A -> A]]
    BY WholeAboveType
  <2>2. NothingAt \in A
    BY NothingAtType
  <2> HIDE DEF A, step
  <2> QED BY <2>1, <2>2, LoopRuns
<1>2. ASSUME NEW g PROVE Body(g) = [i \in 0..n |-> IF i = 0 THEN NothingAt ELSE WholeAbove(i, g[i - 1])]
  BY DEF NothingAt, WholeAbove
<1>3. \E g : g = Body(g)
  <2>1. f \in [0..n -> A] /\ f[0] = NothingAt /\ \A i \in 1..n : f[i] = step[i][f[i - 1]]
    <3> HIDE DEF A, step
    <3> QED BY <1>1 DEF IsRun
  <2> HIDE DEF A, Body
  <2>2. ASSUME NEW i \in 1..n PROVE f[i] = WholeAbove(i, f[i - 1])
    <3>1. f[i - 1] \in A
      BY <2>1
    <3>2. step[i][f[i - 1]] = WholeAbove(i, f[i - 1])
      BY <3>1
    <3> QED BY <2>1, <3>2
  <2>3. f = [i \in 0..n |-> IF i = 0 THEN NothingAt ELSE WholeAbove(i, f[i - 1])]
    BY <2>1, <2>2
  <2> QED BY <1>2, <2>3
<1>4. chosen = Body(chosen)
  <2> HIDE DEF Body
  <2> QED BY <1>3
<1>5. Whole(n) = chosen
  BY DEF Whole, WholeHere, NamedAt, Parts, Place, Places
<1>6. chosen = [i \in 0..n |-> IF i = 0 THEN NothingAt ELSE WholeAbove(i, chosen[i - 1])]
  <2> HIDE DEF chosen, Body
  <2> QED BY <1>2, <1>4
<1> HIDE DEF chosen, A
<1>7. chosen[0] = NothingAt /\ \A i \in 1..n : chosen[i] = WholeAbove(i, chosen[i - 1])
  BY <1>6
<1>8. \A i \in 0..n : chosen[i] \in A
  <2> DEFINE T == {i \in 0..n : chosen[i] \in A}
  <2>1. 0 \in T
    BY <1>7, NothingAtType DEF A
  <2>2. ASSUME NEW i \in 1..n, i - 1 \in T PROVE i \in T
    <3>1. chosen[i] = WholeAbove(i, chosen[i - 1]) /\ chosen[i - 1] \in A /\ i \in 0..n
      BY <1>7, <2>2
    <3> QED BY <3>1, WholeAboveType DEF A
  <2> HIDE DEF T
  <2>3. \A i \in 0..n : i \in T
    BY <2>1, <2>2, IntervalInduction
  <2> QED BY <2>3 DEF T
<1> QED BY <1>5, <1>7, <1>8 DEF A

(* Where there are directories below a level. *)
DeepAbove(deeper) == [tree \in Trees |-> \E i \in DOMAIN tree.dirs : deeper[tree.dirs[i]]]

LEMMA DeeperRuns ==
  ASSUME NEW n \in Nat
  PROVE  /\ Deeper(n)[0] = [tree \in Trees |-> TRUE]
         /\ \A i \in 1..n : Deeper(n)[i] = DeepAbove(Deeper(n)[i - 1])
         /\ \A i \in 0..n : Deeper(n)[i] \in [Trees -> BOOLEAN]
<1> DEFINE A == [Trees -> BOOLEAN]
           All == [tree \in Trees |-> TRUE]
           Body(f) == [i \in 0..n |-> [tree \in Trees |->
                         i = 0 \/ \E j \in DOMAIN tree.dirs : f[i - 1][tree.dirs[j]]]]
           chosen == CHOOSE f : f = Body(f)
           step == [i \in 1..n |-> [deeper \in A |-> DeepAbove(deeper)]]
<1>1. PICK f : IsRun(f, A, All, n, step)
  <2>1. step \in [1..n -> [A -> A]]
    BY DEF DeepAbove
  <2>2. All \in A
    OBVIOUS
  <2> HIDE DEF A, All, step
  <2> QED BY <2>1, <2>2, LoopRuns
<1>2. ASSUME NEW g PROVE Body(g) = [i \in 0..n |-> IF i = 0 THEN All ELSE DeepAbove(g[i - 1])]
  BY DEF DeepAbove
<1>3. \E g : g = Body(g)
  <2>1. f \in [0..n -> A] /\ f[0] = All /\ \A i \in 1..n : f[i] = step[i][f[i - 1]]
    <3> HIDE DEF A, All, step
    <3> QED BY <1>1 DEF IsRun
  <2> HIDE DEF A, All, Body
  <2>2. ASSUME NEW i \in 1..n PROVE f[i] = DeepAbove(f[i - 1])
    <3>1. f[i - 1] \in A
      BY <2>1
    <3>2. step[i][f[i - 1]] = DeepAbove(f[i - 1])
      BY <3>1
    <3> QED BY <2>1, <3>2
  <2>3. f = [i \in 0..n |-> IF i = 0 THEN All ELSE DeepAbove(f[i - 1])]
    BY <2>1, <2>2
  <2> QED BY <1>2, <2>3
<1>4. chosen = Body(chosen)
  <2> HIDE DEF Body
  <2> QED BY <1>3
<1>5. Deeper(n) = chosen
  BY DEF Deeper
<1>6. chosen = [i \in 0..n |-> IF i = 0 THEN All ELSE DeepAbove(chosen[i - 1])]
  <2> HIDE DEF chosen, Body, All
  <2> QED BY <1>2, <1>4
<1> HIDE DEF chosen
<1>7. chosen[0] = All /\ \A i \in 1..n : chosen[i] = DeepAbove(chosen[i - 1])
  <2> HIDE DEF All
  <2> QED BY <1>6
<1>8. ASSUME NEW i \in 0..n PROVE chosen[i] \in A
  <2>1. ASSUME NEW deeper PROVE DeepAbove(deeper) \in A
    BY DEF DeepAbove
  <2>2. CASE i = 0
    BY <1>7, <2>2
  <2>3. CASE i # 0
    <3>1. chosen[i] = DeepAbove(chosen[i - 1])
      BY <1>7, <2>3
    <3> HIDE DEF A
    <3> QED BY <2>1, <3>1
  <2> QED BY <2>2, <2>3
<1> QED BY <1>5, <1>7, <1>8

(* Every number of levels lists what there is of it, up to the bound. *)
LEMMA LevelsList ==
  ASSUME NEW n \in Nat
  PROVE  LevelIs(Flatten(n)[n], Whole(n)[n], Deeper(n)[n])
<1>1. PICK flat : flat = Flatten(n)
  OBVIOUS
<1>2. PICK whole : whole = Whole(n)
  OBVIOUS
<1>3. PICK deeper : deeper = Deeper(n)
  OBVIOUS
<1>4. /\ flat[0] = NothingBelow /\ \A i \in 1..n : flat[i] = LevelAbove(i, flat[i - 1])
      /\ \A i \in 0..n : flat[i] \in [Visits -> Listed]
  BY <1>1, FlattenRuns, Zenon
<1>5. /\ whole[0] = NothingAt /\ \A i \in 1..n : whole[i] = WholeAbove(i, whole[i - 1])
      /\ \A i \in 0..n : whole[i] \in [Places -> Entries]
  BY <1>2, WholeRuns, Zenon
<1>6. /\ deeper[0] = [tree \in Trees |-> TRUE] /\ \A i \in 1..n : deeper[i] = DeepAbove(deeper[i - 1])
      /\ \A i \in 0..n : deeper[i] \in [Trees -> BOOLEAN]
  BY <1>3, DeeperRuns, Zenon
<1> DEFINE T == {i \in 0..n : LevelIs(flat[i], whole[i], deeper[i])}
<1>7. 0 \in T
  <2> SUFFICES ASSUME NEW tree \in Trees, NEW nested \in BOOLEAN, NEW entries \in Entries, Len(entries) <= MaxItems
               PROVE  Gives(flat[0][Visit(tree, nested, entries)], entries \o whole[0][Place(tree, nested)],
                            deeper[0][tree])
    BY DEF LevelIs
  <2>1. Visit(tree, nested, entries) \in Visits /\ Visit(tree, nested, entries).entries = entries
    BY DEF Visit, Visits
  <2>2. flat[0][Visit(tree, nested, entries)] = [status |-> "ok", entries |-> entries, truncated |-> TRUE]
    BY <1>4, <2>1 DEF NothingBelow
  <2>3. whole[0][Place(tree, nested)] = <<>>
    <3>1. Place(tree, nested) \in Places
      BY DEF Place, Places
    <3> QED BY <1>5, <3>1 DEF NothingAt
  <2>4. deeper[0][tree] = TRUE
    BY <1>6
  <2>5. entries \o <<>> = entries
    BY ConcatEmptySeq DEF Entries
  <2>6. Beginning(entries, MaxItems) = entries
    <3>1. ~(Len(entries) > MaxItems)
      BY LenProperties, ResultsAssumption DEF Entries
    <3> QED BY <3>1 DEF Beginning
  <2> QED BY <2>2, <2>3, <2>4, <2>5, <2>6 DEF Gives
<1>8. ASSUME NEW i \in 1..n, i - 1 \in T PROVE i \in T
  <2>1. i \in 0..n /\ i - 1 \in 0..n /\ i \in Nat \ {0}
    OBVIOUS
  <2>2. PICK below \in [Visits -> Listed] : below = flat[i - 1]
    BY <1>4, <2>1
  <2>3. PICK under \in [Places -> Entries] : under = whole[i - 1]
    BY <1>5, <2>1
  <2>4. PICK deep \in [Trees -> BOOLEAN] : deep = deeper[i - 1]
    BY <1>6, <2>1
  <2>5. LevelIs(below, under, deep)
    BY <1>8, <2>2, <2>3, <2>4
  <2>6. flat[i] = LevelAbove(i, below) /\ whole[i] = WholeAbove(i, under) /\ deeper[i] = DeepAbove(deep)
    BY <1>4, <1>5, <1>6, <2>2, <2>3, <2>4
  <2>7. LevelIs(LevelAbove(i, below), WholeAbove(i, under), DeepAbove(deep))
    <3> SUFFICES ASSUME NEW tree \in Trees, NEW nested \in BOOLEAN, NEW entries \in Entries, Len(entries) <= MaxItems
                 PROVE  Gives(LevelAbove(i, below)[Visit(tree, nested, entries)],
                              entries \o WholeAbove(i, under)[Place(tree, nested)], DeepAbove(deep)[tree])
      BY DEF LevelIs
    <3>1. LevelAbove(i, below)[Visit(tree, nested, entries)] = ListDirectory(Visit(tree, nested, entries), i, below)
      <4>1. Visit(tree, nested, entries) \in Visits
        BY DEF Visit, Visits
      <4> QED BY <4>1 DEF LevelAbove
    <3>2. WholeAbove(i, under)[Place(tree, nested)] = WholeHere(tree, nested, i, under)
      <4>1. Place(tree, nested) \in Places /\ Place(tree, nested).tree = tree /\ Place(tree, nested).nested = nested
        BY DEF Place, Places
      <4> QED BY <4>1 DEF WholeAbove
    <3>3. DeepAbove(deep)[tree] = \E j \in DOMAIN tree.dirs : deep[tree.dirs[j]]
      BY DEF DeepAbove
    <3>4. Gives(ListDirectory(Visit(tree, nested, entries), i, below),
                entries \o WholeHere(tree, nested, i, under), \E j \in DOMAIN tree.dirs : deep[tree.dirs[j]])
      BY <2>1, <2>5, LevelLists
    <3> QED BY <3>1, <3>2, <3>3, <3>4, Zenon
  <2> QED BY <2>1, <2>6, <2>7
<1>9. n \in T
  <2> HIDE DEF T
  <2>1. \A i \in 0..n : i \in T
    BY <1>7, <1>8, IntervalInduction
  <2> QED BY <2>1
<1> QED BY <1>1, <1>2, <1>3, <1>9

LEMMA ListGives ==
  ASSUME NEW msg \in Listings, NEW given, given = List(msg),
         NEW all, all = Whole(Levels(msg))[Levels(msg)][Place(msg.tree, FALSE)],
         NEW deeper, deeper = Deeper(Levels(msg))[Levels(msg)][msg.tree]
  PROVE  Gives(given, all, deeper)
<1>1. PICK levels : levels = Levels(msg)
  OBVIOUS
<1>2. PICK tree : tree = msg.tree
  OBVIOUS
<1>3. levels \in Nat /\ tree \in Trees
  BY <1>1, <1>2, ResultsAssumption DEF Levels
<1>4. <<>> \in Entries /\ Len(<<>>) <= MaxItems
  BY EmptySeq, ResultsAssumption DEF Entries
<1>5. Gives(Flatten(levels)[levels][Visit(tree, FALSE, <<>>)],
            <<>> \o Whole(levels)[levels][Place(tree, FALSE)], Deeper(levels)[levels][tree])
  <2>1. LevelIs(Flatten(levels)[levels], Whole(levels)[levels], Deeper(levels)[levels])
    BY <1>3, LevelsList
  <2> QED BY <1>3, <1>4, <2>1 DEF LevelIs
<1>6. <<>> \o all = all
  <2>1. Whole(levels)[levels] \in [Places -> Entries]
    BY <1>3, WholeRuns
  <2>2. Place(tree, FALSE) \in Places
    BY <1>3 DEF Place, Places
  <2>3. all \in Seq(Seq(FileNames))
    BY <1>1, <1>2, <2>1, <2>2 DEF Entries
  <2> QED BY <2>3, ConcatEmptySeq
<1>7. given = Flatten(levels)[levels][Visit(tree, FALSE, <<>>)]
  BY <1>1, <1>2, Zenon DEF List
<1> QED BY <1>1, <1>2, <1>5, <1>6, <1>7, Zenon

-------------------------------------------------------------------------------
(* What is called and what came of it; a Shell call also has its output.    *)
ResultsInv ==
  /\ tool = "mcp" => message \in McpResults /\ answer \in {Pending, SummarizeMcp(message)}
  /\ tool = "list" => message \in Listings /\ answer \in {Pending, List(message)}
  /\ tool = "search" => message \in Searches /\ answer \in {Pending, Search(message)}
  /\ ShellInv

LEMMA ResultsInitInv == ResultsInit => ResultsInv
<1> SUFFICES ASSUME ResultsInit PROVE ResultsInv
  OBVIOUS
<1>1. ShellInv
  BY ShellInitInv DEF ResultsInit
<1>2. tool = "mcp" => message \in McpResults
  BY DEF ResultsInit
<1>3. tool = "list" => message \in Listings
  BY DEF ResultsInit
<1>4. tool = "search" => message \in Searches
  BY DEF ResultsInit
<1>5. answer = Pending
  BY DEF ResultsInit
<1> QED BY <1>1, <1>2, <1>3, <1>4, <1>5 DEF ResultsInv

LEMMA AnswerInv ==
  ASSUME ResultsInv, NEW name \in {"mcp", "list", "search"}, NEW value, Answer(name, value),
         name = "mcp" => value = SummarizeMcp(message),
         name = "list" => value = List(message),
         name = "search" => value = Search(message)
  PROVE  ResultsInv'
<1>1. tool = name /\ answer' = value /\ tool' = tool /\ message' = message /\ UNCHANGED shellVars
  BY DEF Answer
<1>2. ShellInv'
  BY <1>1, ShellStepInv DEF ResultsInv
<1>3. (tool = "mcp" => message \in McpResults /\ answer \in {Pending, SummarizeMcp(message)})'
  BY <1>1 DEF ResultsInv
<1>4. (tool = "list" => message \in Listings /\ answer \in {Pending, List(message)})'
  BY <1>1 DEF ResultsInv
<1>5. (tool = "search" => message \in Searches /\ answer \in {Pending, Search(message)})'
  BY <1>1 DEF ResultsInv
<1> QED BY <1>2, <1>3, <1>4, <1>5 DEF ResultsInv

LEMMA ResultsStepInv == ResultsInv /\ [ResultsNext]_resultVars => ResultsInv'
<1> SUFFICES ASSUME ResultsInv, [ResultsNext]_resultVars PROVE ResultsInv'
  OBVIOUS
<1>1. CASE ShellMessage
  <2>1. ShellInv'
    BY <1>1, ShellStepInv DEF ShellMessage, ResultsInv
  <2>2. tool' = "shell"
    BY <1>1 DEF ShellMessage
  <2> QED BY <2>1, <2>2 DEF ResultsInv
<1>2. CASE Answer("mcp", SummarizeMcp(message))
  BY <1>2, AnswerInv
<1>3. CASE Answer("list", List(message))
  BY <1>3, AnswerInv
<1>4. CASE Answer("search", Search(message))
  BY <1>4, AnswerInv
<1>5. CASE UNCHANGED resultVars
  <2>1. UNCHANGED <<tool, message, answer>> /\ UNCHANGED shellVars
    BY <1>5 DEF resultVars
  <2>2. ShellInv'
    BY <2>1, ShellStepInv DEF ResultsInv
  <2> QED BY <2>1, <2>2 DEF ResultsInv
<1> QED BY <1>1, <1>2, <1>3, <1>4, <1>5 DEF ResultsNext

LEMMA McpInvTells == ResultsInv => McpLossIsTold
<1> SUFFICES ASSUME ResultsInv, Answered("mcp") PROVE McpLossIsTold
  BY DEF McpLossIsTold
<1>1. message \in McpResults /\ answer = SummarizeMcp(message) /\ answer.status = "ok"
  BY DEF ResultsInv, Answered, Pending
<1>2. PICK out : out = FlattenSeq(answer.sections)
  OBVIOUS
<1>3. /\ Bytes(out) <= MaxMcpBytes
      /\ HeadKept(out, Said(TakenItems(message.items), message.structured), MaxMcpBytes)
      /\ out # Said(message.items, message.structured) => answer.truncated
      /\ answer.truncated => \/ out # Said(message.items, message.structured)
                             \/ Len(message.items) > MaxMcpItems \/ Bytes(out) = MaxMcpBytes
  BY <1>1, <1>2, McpGives
<1> QED BY <1>2, <1>3 DEF McpLossIsTold

LEMMA ListInvTells == ResultsInv => ListLossIsTold
<1> SUFFICES ASSUME ResultsInv, Answered("list") PROVE ListLossIsTold
  BY DEF ListLossIsTold
<1>1. message \in Listings /\ answer = List(message) /\ answer.status = "ok"
  BY DEF ResultsInv, Answered, Pending
<1>2. PICK all : all = Whole(Levels(message))[Levels(message)][Place(message.tree, FALSE)]
  OBVIOUS
<1>3. PICK deeper : deeper = Deeper(Levels(message))[Levels(message)][message.tree]
  OBVIOUS
<1>4. Gives(answer, all, deeper)
  BY <1>1, <1>2, <1>3, ListGives, Zenon
<1>5. /\ answer.entries = Beginning(all, MaxItems)
      /\ Len(all) > MaxItems \/ deeper => answer.truncated
      /\ answer.truncated => Len(answer.entries) = MaxItems \/ deeper
  BY <1>1, <1>4 DEF Gives
<1> QED BY <1>2, <1>3, <1>5, Zenon DEF ListLossIsTold, Place

LEMMA SearchInvTells == ResultsInv => SearchIsHead
<1> SUFFICES ASSUME ResultsInv, Answered("search") PROVE SearchIsHead
  BY DEF SearchIsHead
<1>1. message \in Searches /\ answer = Search(message) /\ answer.status = "ok"
  BY DEF ResultsInv, Answered, Pending
<1> QED BY <1>1, SearchGives DEF SearchIsHead

(* agentSession.applyToolResult and appendBoundedShellOutput,               *)
(* server/agent.go, FinalizeShellToolResult, protocol/tool_shell.go: of     *)
(* what a command writes, in whatever deltas and with whatever is invalid   *)
(* in them, output is only lost where less than a rune of the bound is      *)
(* left, and the provider is told so exactly when some was. For any bound   *)
(* and any deltas.                                                          *)
THEOREM ShellLossIsAlwaysTold == ResultsSpec => []ShellLossIsTold
<1>1. ResultsInit => ResultsInv
  BY ResultsInitInv
<1>2. ResultsInv /\ [ResultsNext]_resultVars => ResultsInv'
  BY ResultsStepInv
<1>3. ResultsInv => ShellLossIsTold
  BY ShellInvTells DEF ResultsInv
<1> QED BY <1>1, <1>2, <1>3, PTL DEF ResultsSpec

(* summarizeMCPSuccess, protocol/tool_mcp.go, for any message and any       *)
(* bounds: what the provider is given stays within its bytes, of the items  *)
(* that are looked at nothing is lost while a rune still fits, whatever is  *)
(* missing is told, and nothing else but a bound that happens to be full.   *)
THEOREM McpLossIsAlwaysTold == ResultsSpec => []McpLossIsTold
<1>1. ResultsInit => ResultsInv
  BY ResultsInitInv
<1>2. ResultsInv /\ [ResultsNext]_resultVars => ResultsInv'
  BY ResultsStepInv
<1>3. ResultsInv => McpLossIsTold
  BY McpInvTells
<1> QED BY <1>1, <1>2, <1>3, PTL DEF ResultsSpec

(* flattenListTree, protocol/tool_files.go, for trees of any size and       *)
(* depth: the entries are the beginning of those that a listing without a   *)
(* bound has, over all levels of its recursion, and a listing is marked     *)
(* when there are more or directories below the depth asked for, and        *)
(* otherwise only when it is just full.                                     *)
THEOREM ListLossIsAlwaysTold == ResultsSpec => []ListLossIsTold
<1>1. ResultsInit => ResultsInv
  BY ResultsInitInv
<1>2. ResultsInv /\ [ResultsNext]_resultVars => ResultsInv'
  BY ResultsStepInv
<1>3. ResultsInv => ListLossIsTold
  BY ListInvTells
<1> QED BY <1>1, <1>2, <1>3, PTL DEF ResultsSpec

(* parseGrepResult and appendGrepUnion, protocol/tool_files.go, for any     *)
(* workspaces: of each kind the first results over all of them are given,   *)
(* and the search is marked exactly when one of the kinds has more.         *)
THEOREM SearchIsAlwaysHead == ResultsSpec => []SearchIsHead
<1>1. ResultsInit => ResultsInv
  BY ResultsInitInv
<1>2. ResultsInv /\ [ResultsNext]_resultVars => ResultsInv'
  BY ResultsStepInv
<1>3. ResultsInv => SearchIsHead
  BY SearchInvTells
<1> QED BY <1>1, <1>2, <1>3, PTL DEF ResultsSpec

===============================================================================
