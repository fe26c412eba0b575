----------------------- MODULE SubscriptionKeys_proofs -----------------------
(***************************************************************************)
(* More proofs about Subscriptions, those that look into the lists of keys *)
(* and lines: their types, and what they say of each other.                *)
(***************************************************************************)
EXTENDS Subscriptions_proofs, FiniteSetTheorems

-----------------------------------------------------------------------------
LEMMA FunctionIsSeq ==
    ASSUME NEW X, NEW m \in Nat, NEW t \in [1..m -> X]
    PROVE  t \in Seq(X) /\ Len(t) = m
<1>1. t \in Seq(X)
  BY SeqDef
<1>2. Len(t) \in Nat /\ DOMAIN t = 1..Len(t) /\ DOMAIN t = 1..m
  BY <1>1, LenProperties
<1> QED BY <1>1, <1>2

-----------------------------------------------------------------------------
(* What SelectAt keeps of a list. *)

Rank(at, i) == Cardinality({j \in at : j <= i})

LEMMA RankStep ==
    ASSUME NEW n \in Nat, NEW at \in SUBSET (1..n)
    PROVE  /\ IsFiniteSet(at) /\ Cardinality(at) \in 0..n
           /\ Rank(at, 0) = 0 /\ Rank(at, n) = Cardinality(at)
           /\ \A i \in 0..n : Rank(at, i) \in Nat
           /\ \A i, j \in 0..n : i <= j => Rank(at, i) <= Rank(at, j)
           /\ \A i \in 1..n : Rank(at, i) = IF i \in at THEN Rank(at, i - 1) + 1 ELSE Rank(at, i - 1)
<1>0. \A j \in at : j \in 1..n
  OBVIOUS
<1>1. IsFiniteSet(1..n) /\ Cardinality(1..n) = n
  BY FS_Interval
<1>2. IsFiniteSet(at) /\ Cardinality(at) \in Nat /\ Cardinality(at) <= n
  BY <1>1, FS_Subset, FS_CardinalityType
<1>3. \A i : IsFiniteSet({j \in at : j <= i}) /\ Rank(at, i) \in Nat
  <2> TAKE i
  <2>1. {j \in at : j <= i} \in SUBSET at
    OBVIOUS
  <2> QED BY <1>2, <2>1, FS_Subset, FS_CardinalityType DEF Rank
<1>4. Rank(at, 0) = 0
  <2>1. {j \in at : j <= 0} = {}
    <3>1. \A j \in at : ~(j <= 0)
      BY <1>0
    <3> QED BY <3>1
  <2> QED BY <2>1, FS_EmptySet DEF Rank
<1>5. Rank(at, n) = Cardinality(at)
  <2>1. {j \in at : j <= n} = at
    <3>1. \A j \in at : j <= n
      BY <1>0
    <3> QED BY <3>1
  <2> QED BY <2>1 DEF Rank
<1>6. ASSUME NEW i \in 0..n, NEW j \in 0..n, i <= j
      PROVE  Rank(at, i) <= Rank(at, j)
  <2>1. {k \in at : k <= i} \in SUBSET {k \in at : k <= j}
    <3>1. \A k \in at : k \in Nat /\ (k <= i => k <= j)
      BY <1>0, <1>6
    <3> QED BY <3>1
  <2> QED BY <1>3, <2>1, FS_Subset DEF Rank
<1>7. ASSUME NEW i \in 1..n
      PROVE  Rank(at, i) = IF i \in at THEN Rank(at, i - 1) + 1 ELSE Rank(at, i - 1)
  <2> \A j \in at : j \in 1..n /\ (j <= i <=> j <= i - 1 \/ j = i)
    BY <1>0
  <2>1. CASE i \in at
    <3>1. {j \in at : j <= i} = {j \in at : j <= i - 1} \cup {i}
      BY <2>1
    <3>2. i \notin {j \in at : j <= i - 1}
      OBVIOUS
    <3>3. IsFiniteSet({j \in at : j <= i - 1})
      BY <1>3
    <3>4. Cardinality({j \in at : j <= i - 1} \cup {i}) = Cardinality({j \in at : j <= i - 1}) + 1
      BY <3>2, <3>3, FS_AddElement
    <3> QED BY <2>1, <3>1, <3>4 DEF Rank
  <2>2. CASE i \notin at
    <3>1. {j \in at : j <= i} = {j \in at : j <= i - 1}
      <4>1. \A j \in at : j <= i <=> j <= i - 1
        BY <2>2
      <4> QED BY <4>1
    <3> QED BY <2>2, <3>1 DEF Rank
  <2> QED BY <2>1, <2>2
<1>8. Cardinality(at) \in 0..n
  BY <1>2
<1> QED BY <1>2, <1>3, <1>4, <1>5, <1>6, <1>7, <1>8

LEMMA RankReached ==
    ASSUME NEW n \in Nat, NEW at \in SUBSET (1..n), NEW k \in 1..Cardinality(at)
    PROVE  \E i \in at : Rank(at, i) = k
<1> DEFINE T == {i \in 0..n : Rank(at, i) >= k}
<1>1. Cardinality(at) \in 0..n
  BY RankStep
<1>2. n \in T
  BY <1>1, RankStep
<1>3. PICK i \in T : \A j \in T : i <= j
  <2>1. T \subseteq Nat /\ T # {}
    BY <1>2
  <2> HIDE DEF T
  <2> QED BY <2>1, LeastExists
<1>4. i # 0
  BY <1>1, <1>3, RankStep
<1>5. i \in 1..n /\ i - 1 \in 0..n /\ i - 1 \notin T
  BY <1>3, <1>4
<1>6. Rank(at, i) \in Nat /\ Rank(at, i - 1) \in Nat /\ Rank(at, i - 1) < k /\ Rank(at, i) >= k
  BY <1>1, <1>3, <1>5, RankStep
<1>7. Rank(at, i) = IF i \in at THEN Rank(at, i - 1) + 1 ELSE Rank(at, i - 1)
  <2>1. \A j \in 1..n : Rank(at, j) = IF j \in at THEN Rank(at, j - 1) + 1 ELSE Rank(at, j - 1)
    BY RankStep
  <2> HIDE DEF T
  <2> QED BY <1>5, <2>1
<1> QED BY <1>1, <1>6, <1>7

\* The elements that are selected, in their order: h[k] is the place of the
\* k-th.
PlacesOf(h, s, at) ==
    /\ h \in [1..Cardinality(at) -> at]
    /\ \A k \in 1..Cardinality(at) : SelectAt(s, at)[k] = s[h[k]]
    /\ \A j, k \in 1..Cardinality(at) : j < k => h[j] < h[k]

LEMMA SelectAtIs ==
    ASSUME NEW X, NEW s \in Seq(X), NEW at \in SUBSET (DOMAIN s)
    PROVE  /\ SelectAt(s, at) \in Seq(X) /\ Len(SelectAt(s, at)) = Cardinality(at)
           /\ Cardinality(at) \in 0..Len(s)
           /\ \E h : PlacesOf(h, s, at)
<1> DEFINE n == Len(s)
           c == Cardinality(at)
           h == [k \in 1..c |-> CHOOSE i \in at : Rank(at, i) = k]
<1>1. n \in Nat /\ DOMAIN s = 1..n /\ at \in SUBSET (1..n) /\ \A i \in 1..n : s[i] \in X
  BY LenProperties, ElementOfSeq
<1>2. c \in 0..n
  BY <1>1, RankStep
<1>3. \A k \in 1..c : h[k] \in at /\ Rank(at, h[k]) = k
  BY <1>1, RankReached
<1>4. SelectAt(s, at) = [k \in 1..c |-> s[h[k]]]
  BY DEF SelectAt, Rank
<1>5. h \in [1..c -> at]
  BY <1>3
<1> HIDE DEF h
<1>6. SelectAt(s, at) \in [1..c -> X]
  BY <1>1, <1>3, <1>4
<1>7. SelectAt(s, at) \in Seq(X) /\ Len(SelectAt(s, at)) = c
  <2>1. c \in Nat
    BY <1>2
  <2> HIDE DEF c
  <2> QED BY <1>6, <2>1, FunctionIsSeq
<1>8. ASSUME NEW j \in 1..c, NEW k \in 1..c, j < k
      PROVE  h[j] < h[k]
  <2>1. h[j] \in 0..n /\ h[k] \in 0..n
    BY <1>1, <1>3
  <2>2. h[k] <= h[j] => Rank(at, h[k]) <= Rank(at, h[j])
    BY <1>1, <2>1, RankStep
  <2>3. h[k] <= h[j] => k <= j
    BY <1>3, <2>2
  <2> QED BY <1>2, <1>8, <2>1, <2>3
<1>9. \A k \in 1..c : SelectAt(s, at)[k] = s[h[k]]
  BY <1>4
<1>10. PlacesOf(h, s, at)
  <2> HIDE DEF h
  <2> QED BY <1>5, <1>8, <1>9 DEF PlacesOf
<1> QED BY <1>2, <1>5, <1>7, <1>10

\* What is kept of a list was in it.
LEMMA SelectAtKeeps ==
    ASSUME NEW X, NEW s \in Seq(X), NEW at \in SUBSET (DOMAIN s)
    PROVE  /\ SelectAt(s, at) \in Seq(X) /\ Len(SelectAt(s, at)) \in 0..Len(s)
           /\ \A k \in DOMAIN SelectAt(s, at) : \E i \in at : SelectAt(s, at)[k] = s[i]
<1>1. PICK h \in [1..Cardinality(at) -> at] :
         \A k \in 1..Cardinality(at) : SelectAt(s, at)[k] = s[h[k]]
  BY SelectAtIs DEF PlacesOf
<1>2. DOMAIN SelectAt(s, at) = 1..Cardinality(at)
  BY DEF SelectAt
<1> QED BY <1>1, <1>2, SelectAtIs

LEMMA SelectAll ==
    ASSUME NEW X, NEW s \in Seq(X)
    PROVE  SelectAt(s, DOMAIN s) = s
<1> DEFINE n == Len(s)
           at == 1..n
<1>1. n \in Nat /\ DOMAIN s = 1..n /\ s \in [1..n -> X]
  BY LenProperties
<1>2. \A i \in 1..n : Rank(at, i) = i
  <2> SUFFICES ASSUME NEW i \in 1..n PROVE Rank(at, i) = i
    OBVIOUS
  <2>1. {j \in at : j <= i} = 1..i
    BY <1>1
  <2>2. Cardinality(1..i) = i
    BY FS_Interval
  <2> QED BY <2>1, <2>2 DEF Rank
<1>3. Cardinality(at) = n
  BY <1>1, FS_Interval
<1>4. \A k \in 1..n : (CHOOSE i \in at : Rank(at, i) = k) = k
  BY <1>2
<1>5. SelectAt(s, at) = [k \in 1..n |-> s[CHOOSE i \in at : Rank(at, i) = k]]
  BY <1>3 DEF SelectAt, Rank
<1>6. SelectAt(s, at) = [k \in 1..n |-> s[k]]
  BY <1>4, <1>5
<1> QED BY <1>1, <1>6

LEMMA SelectNone ==
    ASSUME NEW s
    PROVE  SelectAt(s, {}) = <<>>
<1>1. Cardinality({}) = 0
  BY FS_EmptySet
<1>2. SelectAt(s, {}) = [k \in 1..0 |-> s[CHOOSE i \in {} : Cardinality({j \in {} : j <= i}) = k]]
  BY <1>1 DEF SelectAt
<1> QED BY <1>2

-----------------------------------------------------------------------------
(* Types of keys, lines and listings. *)

LEMMA GreatestExists ==
    ASSUME NEW n \in Nat, NEW T \in SUBSET (1..n), T # {}
    PROVE  \E i \in T : \A j \in T : j <= i
<1> DEFINE U == {i \in 0..n : \A j \in T : j <= i}
<1>0. \A j \in T : j \in 1..n
  OBVIOUS
<1>1. n \in U
  BY <1>0
<1>2. PICK i \in U : \A j \in U : i <= j
  <2>1. U \subseteq Nat /\ U # {}
    BY <1>1
  <2> HIDE DEF U
  <2> QED BY <2>1, LeastExists
<1>3. i \in 0..n /\ \A j \in T : j <= i
  BY <1>2
<1>4. i \in T
  <2> SUFFICES ASSUME i \notin T PROVE FALSE
    OBVIOUS
  <2>1. PICK k \in T : TRUE
    OBVIOUS
  <2>2. i - 1 \in 0..n /\ ~(i <= i - 1)
    BY <1>0, <1>3, <2>1
  <2>3. \A j \in T : j <= i - 1
    BY <1>0, <1>3
  <2> QED BY <1>2, <2>2, <2>3
<1> QED BY <1>3, <1>4

LEMMA KeyListIs ==
    ASSUME NEW keys \in KeyLists
    PROVE  /\ keys \in Seq(Key) /\ Len(keys) \in 0..MaxKeys /\ DOMAIN keys = 1..Len(keys)
           /\ \A i \in DOMAIN keys : keys[i] \in Key
<1>1. keys \in Seq(Key) /\ Len(keys) <= MaxKeys
  BY DEF KeyLists
<1>2. Len(keys) \in Nat /\ DOMAIN keys = 1..Len(keys) /\ \A i \in 1..Len(keys) : keys[i] \in Key
  BY <1>1, LenProperties, ElementOfSeq
<1> QED BY <1>1, <1>2, BoundAssumption

\* What is in a file that was written: the links up to the last one that was
\* generated, or one empty line.
LEMMA FileLinesIs ==
    ASSUME NEW X, NEW keys \in Seq(X)
    PROVE  LET filled == {i \in DOMAIN keys : IsGenerated(keys[i])} IN
           \/ filled = {} /\ FileLines(keys) = <<Empty>>
           \/ \E last \in filled :
                /\ \A i \in filled : i <= last
                /\ FileLines(keys) = [i \in 1..last |-> keys[i].link]
                /\ Len(FileLines(keys)) = last
<1> DEFINE n == Len(keys)
           filled == {i \in DOMAIN keys : IsGenerated(keys[i])}
           last == CHOOSE i \in filled : \A j \in filled : j <= i
<1>1. n \in Nat /\ DOMAIN keys = 1..n
  BY LenProperties
<1>2. CASE filled = {}
  BY <1>2 DEF FileLines
<1>3. CASE filled # {}
  <2>1. last \in filled /\ \A j \in filled : j <= last
    <3>1. filled \in SUBSET (1..n)
      BY <1>1
    <3> HIDE DEF filled
    <3> QED BY <1>1, <1>3, <3>1, GreatestExists
  <2>2. last \in 1..n
    BY <1>1, <2>1
  <2>3. FileLines(keys) = SubSeq(LinksOf(keys), 1, last)
    BY <1>3 DEF FileLines
  <2> DEFINE Y == {keys[i].link : i \in 1..n}
  <2>4. \A i \in 1..last : i \in 1..n /\ LinksOf(keys)[i] = keys[i].link /\ LinksOf(keys)[i] \in Y
    BY <1>1, <2>2 DEF LinksOf
  <2> HIDE DEF Y, last, n, filled
  <2>5. /\ SubSeq(LinksOf(keys), 1, last) \in Seq(Y)
        /\ Len(SubSeq(LinksOf(keys), 1, last)) = last
        /\ \A i \in 1..last : SubSeq(LinksOf(keys), 1, last)[i] = LinksOf(keys)[1 + i - 1]
    <3>1. 1 \in Int /\ last \in Int /\ 1 <= last /\ last - 1 + 1 = last
      BY <1>1, <2>2
    <3> QED BY <2>4, <3>1, SubSeqProperties
  <2>6. FileLines(keys) \in Seq(Y) /\ Len(FileLines(keys)) = last
    BY <2>3, <2>5
  <2>7. \A i \in 1..last : FileLines(keys)[i] = keys[i].link
    <3> SUFFICES ASSUME NEW i \in 1..last PROVE FileLines(keys)[i] = keys[i].link
      OBVIOUS
    <3>1. 1 + i - 1 = i
      BY <1>1, <2>2
    <3> QED BY <2>3, <2>4, <2>5, <3>1
  <2>8. FileLines(keys) = [i \in 1..last |-> keys[i].link]
    <3>1. DOMAIN FileLines(keys) = 1..last /\ FileLines(keys) = [i \in 1..last |-> FileLines(keys)[i]]
      BY <2>6, LenProperties
    <3> QED BY <2>7, <3>1
  <2> QED BY <2>1, <2>6, <2>8 DEF filled
<1> QED BY <1>2, <1>3

LEMMA FileLinesType ==
    ASSUME NEW keys \in KeyLists
    PROVE  FileLines(keys) \in Lines /\ Len(FileLines(keys)) \in 1..MaxKeys
<1> DEFINE X == Refs \cup LegacyLinks \cup {Empty}
           filled == {i \in DOMAIN keys : IsGenerated(keys[i])}
<1>1. keys \in Seq(Key) /\ Len(keys) \in 0..MaxKeys /\ DOMAIN keys = 1..Len(keys)
      /\ \A i \in DOMAIN keys : keys[i].link \in X
  BY KeyListIs DEF Key
<1>2. CASE FileLines(keys) = <<Empty>>
  <2>1. <<Empty>> \in Seq(X) /\ Len(<<Empty>>) = 1
    OBVIOUS
  <2> QED BY <1>2, <2>1, BoundAssumption DEF Lines
<1>3. ASSUME NEW last \in filled, FileLines(keys) = [i \in 1..last |-> keys[i].link],
             Len(FileLines(keys)) = last
      PROVE  FileLines(keys) \in Lines /\ Len(FileLines(keys)) \in 1..MaxKeys
  <2>1. last \in 1..Len(keys) /\ last \in Nat /\ last \in 1..MaxKeys
    BY <1>1, BoundAssumption
  <2>2. FileLines(keys) \in [1..last -> X]
    BY <1>1, <1>3, <2>1
  <2> HIDE DEF X
  <2>3. FileLines(keys) \in Seq(X)
    BY <2>1, <2>2, FunctionIsSeq
  <2> QED BY <1>3, <2>1, <2>3 DEF Lines, X
<1> QED BY <1>1, <1>2, <1>3, FileLinesIs

\* The key that ListSubscriptions makes of line i.
PairedKey(keys, lines, i) ==
    IF i \in DOMAIN keys THEN [keys[i] EXCEPT !.link = lines[i]]
                         ELSE SubKey(LineId(i), lines[i], NoRef)

\* The keys of a listing: first those that have a line, m of them, then those
\* beyond the file.
PairedUpTo(keys, lines, m) ==
    LET pair == PairWithLines(keys, lines) IN
    /\ m \in 0..Len(pair)
    /\ \A k \in 1..Len(pair) :
         IF k <= m THEN \E i \in DOMAIN lines : lines[i] # Empty /\ pair[k] = PairedKey(keys, lines, i)
                   ELSE \E j \in DOMAIN keys : j > Len(lines) /\ pair[k] = keys[j]

LEMMA PairIs ==
    ASSUME NEW X, NEW keys \in Seq(X), NEW L, NEW lines \in Seq(L)
    PROVE  LET pair == PairWithLines(keys, lines)
               S == X \cup {PairedKey(keys, lines, i) : i \in DOMAIN lines}
           IN  /\ pair \in Seq(S) /\ (Len(pair) <= Len(lines) \/ Len(pair) <= Len(keys))
               /\ \E m : PairedUpTo(keys, lines, m)
<1> DEFINE pair == PairWithLines(keys, lines)
           S == X \cup {PairedKey(keys, lines, i) : i \in DOMAIN lines}
           paired == [i \in DOMAIN lines |-> PairedKey(keys, lines, i)]
           at == {i \in DOMAIN lines : lines[i] # Empty}
           kept == SelectAt(paired, at)
           n == Len(lines)
           rest == SubSeq(keys, n + 1, Len(keys))
           m == Len(kept)
<1>1. /\ n \in Nat /\ DOMAIN lines = 1..n
      /\ Len(keys) \in Nat /\ DOMAIN keys = 1..Len(keys) /\ \A i \in DOMAIN keys : keys[i] \in X
  BY LenProperties, ElementOfSeq
<1>2. pair = kept \o rest
  BY DEF PairWithLines, PairedKey
<1>3. paired \in Seq(S) /\ DOMAIN paired = 1..n /\ Len(paired) = n
  <2>1. paired \in [1..n -> S]
    BY <1>1
  <2> HIDE DEF paired, S
  <2> QED BY <1>1, <2>1, FunctionIsSeq
<1>4. at \in SUBSET (DOMAIN paired)
  OBVIOUS
<1>5. \A i \in at : i \in DOMAIN lines /\ lines[i] # Empty /\ paired[i] = PairedKey(keys, lines, i)
  OBVIOUS
<1> HIDE DEF paired, at
<1>6. /\ kept \in Seq(S) /\ m \in 0..n
      /\ \A k \in DOMAIN kept : \E i \in at : kept[k] = paired[i]
  BY <1>3, <1>4, SelectAtKeeps
<1>7. /\ rest \in Seq(S) /\ Len(rest) = (IF n + 1 <= Len(keys) THEN Len(keys) - n ELSE 0)
      /\ \A k \in DOMAIN rest : \E j \in DOMAIN keys : j > n /\ rest[k] = keys[j]
  <2>1. \A j \in (n + 1)..Len(keys) : keys[j] \in S /\ j \in DOMAIN keys
    BY <1>1
  <2> HIDE DEF S
  <2>2. n + 1 \in Int /\ Len(keys) \in Int
    BY <1>1
  <2>3. /\ rest \in Seq(S)
        /\ Len(rest) = IF n + 1 <= Len(keys) THEN Len(keys) - (n + 1) + 1 ELSE 0
        /\ \A k \in 1..(Len(keys) - (n + 1) + 1) : rest[k] = keys[n + 1 + k - 1]
    BY <2>1, <2>2, SubSeqProperties
  <2>4. Len(rest) = (IF n + 1 <= Len(keys) THEN Len(keys) - n ELSE 0)
    BY <1>1, <2>3
  <2>5. DOMAIN rest = 1..Len(rest)
    BY <2>3, LenProperties
  <2>6. ASSUME NEW k \in DOMAIN rest PROVE \E j \in DOMAIN keys : j > n /\ rest[k] = keys[j]
    <3> HIDE DEF n, rest
    <3>1. k \in 1..Len(rest) /\ k \in Nat /\ k >= 1 /\ n + 1 <= Len(keys) /\ k <= Len(keys) - n
      <4>1. n \in Nat /\ Len(keys) \in Nat /\ k \in 1..Len(rest)
        BY <1>1, <2>5
      <4>2. CASE n + 1 <= Len(keys)
        <5>1. Len(rest) = Len(keys) - n
          BY <2>4, <4>2
        <5> QED BY <4>1, <4>2, <5>1
      <4>3. CASE ~(n + 1 <= Len(keys))
        <5>1. Len(rest) = 0
          BY <2>4, <4>3
        <5> QED BY <4>1, <5>1
      <4> QED BY <4>2, <4>3
    <3>2. k \in 1..(Len(keys) - (n + 1) + 1) /\ n + 1 + k - 1 \in 1..Len(keys) /\ n + 1 + k - 1 > n
      BY <1>1, <3>1
    <3> QED BY <1>1, <2>3, <3>2
  <2> QED BY <2>3, <2>4, <2>6
<1> HIDE DEF kept, rest, S
<1>8. /\ pair \in Seq(S) /\ Len(pair) = m + Len(rest)
      /\ \A k \in 1..(m + Len(rest)) : pair[k] = IF k <= m THEN kept[k] ELSE rest[k - m]
  <2>1. /\ kept \o rest \in Seq(S) /\ Len(kept \o rest) = Len(kept) + Len(rest)
        /\ \A k \in 1..(Len(kept) + Len(rest)) :
             (kept \o rest)[k] = IF k <= Len(kept) THEN kept[k] ELSE rest[k - Len(kept)]
    BY <1>6, <1>7, ConcatProperties
  <2> QED BY <1>2, <2>1
<1>9. DOMAIN kept = 1..m /\ DOMAIN rest = 1..Len(rest) /\ Len(rest) \in Nat
  BY <1>6, <1>7, LenProperties
<1>10. Len(pair) <= n \/ Len(pair) <= Len(keys)
  <2> HIDE DEF n, m
  <2>1. Len(pair) = m + (IF n + 1 <= Len(keys) THEN Len(keys) - n ELSE 0)
    BY <1>7, <1>8
  <2> QED BY <1>1, <1>6, <2>1
<1>11. m \in 0..Len(pair)
  BY <1>6, <1>8, <1>9
<1>12. ASSUME NEW k \in 1..Len(pair)
       PROVE  IF k <= m
              THEN \E i \in DOMAIN lines : lines[i] # Empty /\ pair[k] = PairedKey(keys, lines, i)
              ELSE \E j \in DOMAIN keys : j > n /\ pair[k] = keys[j]
  <2>1. CASE k <= m
    <3>1. k \in DOMAIN kept /\ pair[k] = kept[k]
      BY <1>6, <1>8, <1>9, <2>1
    <3> QED BY <1>5, <1>6, <2>1, <3>1
  <2>2. CASE ~(k <= m)
    <3>1. k - m \in DOMAIN rest /\ pair[k] = rest[k - m]
      BY <1>6, <1>8, <1>9, <2>2
    <3> QED BY <1>7, <2>2, <3>1
  <2> QED BY <2>1, <2>2
<1> HIDE DEF pair, m
<1>13. PairedUpTo(keys, lines, m)
  BY <1>11, <1>12 DEF PairedUpTo, pair
<1> QED BY <1>8, <1>10, <1>13 DEF S, pair

LEMMA PairType ==
    ASSUME NEW keys \in KeyLists, NEW lines \in Lines, Len(lines) <= MaxKeys
    PROVE  PairWithLines(keys, lines) \in KeyLists
<1> DEFINE pair == PairWithLines(keys, lines)
           L == Refs \cup LegacyLinks \cup {Empty}
           S == Key \cup {PairedKey(keys, lines, i) : i \in DOMAIN lines}
<1>1. keys \in Seq(Key) /\ Len(keys) \in 0..MaxKeys /\ \A i \in DOMAIN keys : keys[i] \in Key
  BY KeyListIs
<1>2. lines \in Seq(L) /\ Len(lines) \in 0..MaxKeys /\ \A i \in DOMAIN lines : i \in 1..MaxKeys /\ lines[i] \in L
  <2>1. lines \in Seq(L)
    BY DEF Lines
  <2> HIDE DEF L
  <2> QED BY <2>1, LenProperties, ElementOfSeq, BoundAssumption
<1>3. \A i \in DOMAIN lines : PairedKey(keys, lines, i) \in Key
  BY <1>1, <1>2 DEF PairedKey, Key, SubKey, Ids
<1>4. S = Key
  BY <1>3
<1> HIDE DEF L
<1>a. lines \in Seq(L) /\ keys \in Seq(Key)
  BY <1>1, <1>2
<1>5. pair \in Seq(S) /\ (Len(pair) <= Len(lines) \/ Len(pair) <= Len(keys))
  BY <1>a, PairIs
<1> HIDE DEF S
<1>6. Len(pair) \in Nat
  BY <1>5, LenProperties
<1> QED BY <1>1, <1>2, <1>4, <1>5, <1>6, BoundAssumption DEF KeyLists

LEMMA EmptyKeyList == <<>> \in KeyLists
BY BoundAssumption, EmptySeq DEF KeyLists

LEMMA ListingType ==
    ASSUME TypeInv
    PROVE  IsBook(Listing) /\ DOMAIN Listing = DOMAIN files \cup DOMAIN metas
<1>1. DOMAIN Listing = DOMAIN files \cup DOMAIN metas
  BY DEF Listing, ListSubscriptions
<1>2. ASSUME NEW n \in DOMAIN files \cup DOMAIN metas
      PROVE  n \in Names /\ Listing[n] \in Record
  <2> DEFINE stored == IF n \in DOMAIN metas THEN metas[n].keys ELSE <<>>
             keys == IF n \notin DOMAIN files THEN metas[n].keys ELSE PairWithLines(stored, files[n])
             status == IF n \in DOMAIN metas THEN metas[n].status ELSE "active"
  <2>1. Listing[n] = [status |-> status, keys |-> keys]
    BY DEF Listing, ListSubscriptions
  <2>2. n \in DOMAIN metas => metas[n].status \in {"draft", "active"} /\ metas[n].keys \in KeyLists
    BY DEF TypeInv, IsBook, Record
  <2>3. stored \in KeyLists
    BY <2>2, EmptyKeyList
  <2>4. n \in DOMAIN files => files[n] \in Lines /\ Len(files[n]) \in 1..MaxKeys /\ Len(files[n]) <= MaxKeys
    BY BoundAssumption DEF TypeInv
  <2> HIDE DEF stored
  <2>5. keys \in KeyLists
    BY <2>2, <2>3, <2>4, PairType
  <2>6. status \in {"draft", "active"}
    BY <2>2
  <2>7. n \in Names
    BY DEF TypeInv, IsBook
  <2> HIDE DEF keys, status
  <2> QED BY <2>1, <2>5, <2>6, <2>7 DEF Record
<1> QED BY <1>1, <1>2 DEF IsBook

-----------------------------------------------------------------------------
(* TypeOK: every request holds keys and calls of their types. *)

LEMMA CallTypes ==
    ASSUME NEW n \in Names, NEW keys \in KeyLists
    PROVE  /\ RemoveFile(n) \in Call /\ ForgetMeta(n) \in Call /\ PutFile(n, keys) \in Call
           /\ \A st \in {"draft", "active"} : UpsertMeta(n, st, keys) \in Call
           /\ UpsertMeta(n, StatusFor(keys), keys) \in Call
           /\ \A new \in Names : RenameFile(n, new) \in Call
           /\ Mark \in Call /\ Script \in Call /\ Clear \in Call
           /\ \A r \in Refs : DropSource(r) \in Call
<1>1. RemoveFile(n) \in Call /\ ForgetMeta(n) \in Call
  BY DEF RemoveFile, ForgetMeta, Call
<1>2. keys # <<>> => WriteFile(n, keys) \in Call
  BY DEF WriteFile, Call
<1>3. \A st \in {"draft", "active"} : UpsertMeta(n, st, keys) \in Call
  BY DEF UpsertMeta, Call, Record
<1>4. \A new \in Names : RenameFile(n, new) \in Call
  BY DEF RenameFile, Call
<1>5. Mark \in Call /\ Script \in Call /\ Clear \in Call
  BY DEF Call
<1>6. \A r \in Refs : DropSource(r) \in Call
  BY DEF DropSource, Call
<1> QED BY <1>1, <1>2, <1>3, <1>4, <1>5, <1>6 DEF PutFile, StatusFor

LEMMA ShortSeqs ==
    ASSUME NEW S, NEW c \in S, NEW d \in S, NEW e \in S
    PROVE  <<c>> \in Seq(S) /\ <<c, d>> \in Seq(S) /\ <<c, d, e>> \in Seq(S)
OBVIOUS

LEMMA PublishTypes ==
    ASSUME NEW n \in Names, NEW keys \in KeyLists
    PROVE  Publish(n, keys) \in Seq(Call)
BY CallTypes, ShortSeqs DEF Publish

LEMMA RequestTyped ==
    ASSUME TypeInv, NEW w \in Workers, NEW j, Continue(w, j), JobType(j),
           UNCHANGED <<store, needed, stale>>, own' \subseteq Names
    PROVE  TypeInv'
<1>1. job' \in [Workers -> Range(job')] /\ job'[w] = j /\ \A v \in Workers \ {w} : job'[v] = job[v]
  BY JobChanges DEF TypeInv
<1>2. \A v \in Workers : JobType(job'[v])
  BY <1>1 DEF TypeInv
<1>3. UNCHANGED <<files, metas, sources, needed, stale>>
  BY DEF store
<1> QED BY <1>1, <1>2, <1>3 DEF TypeInv

LEMMA RunTyped ==
    ASSUME TypeInv, NEW w \in Workers, NEW op, NEW t \in Seq(Call), Continue(w, Running(op, t)),
           UNCHANGED <<store, needed, stale>>, own' \subseteq Names
    PROVE  TypeInv'
<1>1. PICK j : j = Running(op, t)
  OBVIOUS
<1>2. t # <<>> => j.phase = "run" /\ j.todo = t
  BY <1>1, RunningIs
<1>3. t = <<>> => j = Idle
  BY <1>1, RunningIs
<1>4. JobType(j)
  <2>1. CASE t = <<>>
    BY <1>3, <2>1 DEF JobType, Idle
  <2>2. CASE t # <<>>
    BY <1>2, <2>2 DEF JobType
  <2> QED BY <2>1, <2>2
<1> QED BY <1>1, <1>4, RequestTyped

\* The names with keys of a client's are names of subscriptions.
LEMMA OwnTyped ==
    ASSUME TypeInv, NEW w \in Workers, NEW r,
           \/ \E n \in NamesOf[w] : OnName(w, n)
           \/ StartRegenerateAll(w) \/ DeleteSource(w, r) \/ SyncRun(w) \/ Proceed(w)
    PROVE  own' \subseteq Names
<1>1. own \subseteq Names /\ NamesOf[w] \subseteq Names
  BY WorkerAssumption DEF TypeInv
<1>2. ASSUME NEW n \in NamesOf[w], OnName(w, n)
      PROVE  own' \subseteq own \cup NamesOf[w]
  BY <1>2 DEF OnName, Create, CreateLegacy, Regenerate, RenameSubscription, AddRefs, RemoveKey,
             ReplaceKeys, Delete
<1>3. ASSUME Proceed(w)
      PROVE  own' \subseteq own
  <2>1. CASE PanelsAnswered(w)
    <3>1. PICK lost : own' = own \ lost
      BY <2>1 DEF PanelsAnswered
    <3> QED BY <3>1
  <2>2. CASE Resolved(w)
    BY <2>2 DEF Resolved
  <2>3. CASE ~ PanelsAnswered(w) /\ ~ Resolved(w)
    BY <1>3, <2>3 DEF Proceed, ResolveKey, CallFiles, CallMetas, CallMark, CallScript, CallFails
  <2> QED BY <2>1, <2>2, <2>3
<1>4. ASSUME StartRegenerateAll(w) \/ DeleteSource(w, r) \/ SyncRun(w)
      PROVE  own' = own
  BY <1>4 DEF StartRegenerateAll, DeleteSource, SyncRun
<1> QED BY <1>1, <1>2, <1>3, <1>4

LEMMA ResolvingTyped ==
    ASSUME NEW op \in {"create", "regenerate"}, NEW n \in Names, NEW pending \in Seq(Key),
           NEW done \in Seq(Key), Len(pending) + Len(done) <= MaxKeys
    PROVE  JobType(Resolving(op, n, pending, done))
BY DEF JobType, Resolving

\* A key that is resolved again keeps its type.
LEMMA RelinkTyped ==
    ASSUME NEW key \in Key
    PROVE  Relink(key) \in Key
BY DEF Relink, Key, LinkFor

LEMMA RefreshedTyped ==
    ASSUME NEW keys \in KeyLists, NEW known, NEW answered
    PROVE  Refreshed(keys, known, answered) \in KeyLists
<1> DEFINE at == {i \in DOMAIN keys : keys[i].ref \in {NoRef} \cup (known \ PanelRefs) \cup answered}
           kept == SelectAt(keys, at)
           new == [i \in DOMAIN kept |-> Relink(kept[i])]
<1>1. keys \in Seq(Key) /\ Len(keys) \in 0..MaxKeys
  BY KeyListIs
<1>2. at \in SUBSET (DOMAIN keys)
  OBVIOUS
<1>3. Refreshed(keys, known, answered) = new
  BY DEF Refreshed
<1> HIDE DEF at
<1>4. kept \in Seq(Key) /\ Len(kept) \in 0..Len(keys)
  BY <1>1, <1>2, SelectAtKeeps
<1> HIDE DEF kept
<1>5. DOMAIN kept = 1..Len(kept) /\ \A i \in 1..Len(kept) : kept[i] \in Key
  BY <1>4, LenProperties, ElementOfSeq
<1>6. new \in [1..Len(kept) -> Key]
  BY <1>5, RelinkTyped
<1> HIDE DEF new
<1>7. new \in Seq(Key) /\ Len(new) = Len(kept)
  <2>1. Len(kept) \in Nat
    BY <1>4
  <2> QED BY <1>6, <2>1, FunctionIsSeq
<1> QED BY <1>1, <1>3, <1>4, <1>7, BoundAssumption DEF KeyLists

LEMMA SelectedTyped ==
    ASSUME NEW keys \in KeyLists, NEW at \in SUBSET (DOMAIN keys)
    PROVE  SelectAt(keys, at) \in KeyLists
<1>1. keys \in Seq(Key) /\ Len(keys) \in 0..MaxKeys
  BY KeyListIs
<1>2. SelectAt(keys, at) \in Seq(Key) /\ Len(SelectAt(keys, at)) \in 0..Len(keys)
  BY <1>1, SelectAtKeeps
<1> QED BY <1>1, <1>2, BoundAssumption DEF KeyLists

LEMMA NewKeysTyped ==
    ASSUME NEW k \in 0..MaxKeys, NEW refs \in [1..k -> Refs]
    PROVE  NewKeys(refs) \in KeyLists /\ Len(NewKeys(refs)) = k
<1>1. k \in Nat /\ \A i \in 1..k : SubKey(RandomId(i), Empty, refs[i]) \in Key
  BY BoundAssumption DEF SubKey, Key, Ids
<1>2. NewKeys(refs) \in [1..k -> Key]
  BY <1>1 DEF NewKeys
<1>3. NewKeys(refs) \in Seq(Key) /\ Len(NewKeys(refs)) = k
  BY <1>1, <1>2, FunctionIsSeq
<1> QED BY <1>3, BoundAssumption DEF KeyLists

LEMMA Pigeons ==
    ASSUME NEW m \in Nat, NEW n \in Nat, n < m, NEW at \in [1..m -> 1..n]
    PROVE  \E x, y \in 1..m : x # y /\ at[x] = at[y]
<1>1. IsFiniteSet(1..m) /\ Cardinality(1..m) = m /\ IsFiniteSet(1..n) /\ Cardinality(1..n) = n
  BY FS_Interval
<1>2. Cardinality(1..n) < Cardinality(1..m)
  BY <1>1
<1> QED BY <1>1, <1>2, FS_PigeonHole

\* There is an id for one more key: fewer than MaxKeys ids are in use.
LEMMA NewIdTyped ==
    ASSUME NEW keys \in KeyLists, Len(keys) < MaxKeys
    PROVE  NewId(keys) \in Ids
<1> DEFINE n == Len(keys)
           free == {i \in 1..MaxKeys : RandomId(i) \notin IdsOf(keys)}
<1>1. n \in 0..MaxKeys /\ DOMAIN keys = 1..n /\ n \in Nat /\ MaxKeys \in Nat
  BY KeyListIs, BoundAssumption
<1>2. free # {}
  <2> SUFFICES ASSUME free = {} PROVE FALSE
    OBVIOUS
  <2> DEFINE at == [i \in 1..MaxKeys |-> CHOOSE j \in 1..n : keys[j].id = RandomId(i)]
  <2>1. \A i \in 1..MaxKeys : at[i] \in 1..n /\ keys[at[i]].id = RandomId(i)
    BY <1>1 DEF IdsOf
  <2>2. at \in [1..MaxKeys -> 1..n]
    BY <2>1
  <2> HIDE DEF at
  <2>4. \E x, y \in 1..MaxKeys : x # y /\ at[x] = at[y]
    <3> HIDE DEF n
    <3>1. n < MaxKeys
      BY DEF n
    <3> QED BY <1>1, <2>2, <3>1, Pigeons
  <2>5. \A x, y \in 1..MaxKeys : at[x] = at[y] => x = y
    BY <2>1 DEF RandomId
  <2> QED BY <2>4, <2>5
<1>3. PICK i \in free : \A j \in free : i <= j
  <2>1. free \subseteq Nat
    OBVIOUS
  <2> HIDE DEF free
  <2> QED BY <1>2, <2>1, LeastExists
<1>4. \A j \in 1..(i - 1) : RandomId(j) \in IdsOf(keys)
  BY <1>1, <1>3
<1>5. \E k \in 1..MaxKeys : /\ RandomId(k) \notin IdsOf(keys)
                            /\ \A j \in 1..(k - 1) : RandomId(j) \in IdsOf(keys)
  BY <1>3, <1>4
<1>6. \E k \in 1..MaxKeys : NewId(keys) = RandomId(k)
  BY <1>5 DEF NewId
<1> QED BY <1>6, BoundAssumption DEF Ids

LEMMA WithRefTyped ==
    ASSUME NEW keys \in KeyLists, NEW r \in Refs, r \in RefsOf(keys) \/ Len(keys) < MaxKeys
    PROVE  /\ WithRef(keys, r) \in KeyLists
           /\ RefsOf(WithRef(keys, r)) = RefsOf(keys) \cup {r}
           /\ Len(WithRef(keys, r)) = IF r \in RefsOf(keys) THEN Len(keys) ELSE Len(keys) + 1
<1>1. keys \in Seq(Key) /\ Len(keys) \in 0..MaxKeys /\ DOMAIN keys = 1..Len(keys)
  BY KeyListIs
<1>2. CASE r \in RefsOf(keys)
  BY <1>1, <1>2 DEF WithRef
<1>3. CASE r \notin RefsOf(keys)
  <2> DEFINE key == SubKey(NewId(keys), Empty, r)
             new == Append(keys, key)
  <2>1. key \in Key /\ key.ref = r
    BY <1>3, NewIdTyped DEF SubKey, Key
  <2>2. WithRef(keys, r) = new
    BY <1>3 DEF WithRef
  <2> HIDE DEF key
  <2>3. /\ new \in Seq(Key) /\ Len(new) = Len(keys) + 1
        /\ \A i \in 1..Len(keys) : new[i] = keys[i]
        /\ new[Len(keys) + 1] = key
    BY <1>1, <2>1, AppendProperties
  <2>4. DOMAIN new = 1..(Len(keys) + 1)
    BY <2>3, LenProperties
  <2> HIDE DEF new
  <2>5. new \in KeyLists
    BY <1>1, <1>3, <2>3, BoundAssumption DEF KeyLists
  <2>6. RefsOf(new) = RefsOf(keys) \cup {r}
    <3>1. r # NoRef
      BY RefAssumption
    <3>2. \A i \in DOMAIN keys : i \in DOMAIN new /\ new[i].ref = keys[i].ref
      BY <1>1, <2>3, <2>4
    <3>3. Len(keys) + 1 \in DOMAIN new /\ new[Len(keys) + 1].ref = r
      BY <1>1, <2>1, <2>3, <2>4
    <3>4. \A i \in DOMAIN new : i \in DOMAIN keys \/ i = Len(keys) + 1
      BY <1>1, <2>4
    <3> QED BY <3>1, <3>2, <3>3, <3>4 DEF RefsOf
  <2> QED BY <1>3, <2>2, <2>3, <2>5, <2>6
<1> QED BY <1>2, <1>3

LEMMA WithRefsTyped ==
    ASSUME NEW keys \in KeyLists, NEW r \in Refs, NEW q \in Refs,
           Len(keys) + Cardinality({r, q} \ RefsOf(keys)) <= MaxKeys
    PROVE  WithRef(keys, r) \in KeyLists /\ WithRef(WithRef(keys, r), q) \in KeyLists
<1> DEFINE R == RefsOf(keys)
<1>0. Len(keys) \in 0..MaxKeys /\ MaxKeys \in Nat
  BY KeyListIs, BoundAssumption
<1>1. r \in R \/ Len(keys) < MaxKeys
  <2> SUFFICES ASSUME r \notin R PROVE Len(keys) < MaxKeys
    OBVIOUS
  <2>1. IsFiniteSet({r, q} \ R) /\ {r, q} \ R # {}
    <3>1. IsFiniteSet({r} \cup {q})
      BY FS_Singleton, FS_AddElement
    <3>2. {r, q} = {r} \cup {q}
      OBVIOUS
    <3> QED BY <3>1, <3>2, FS_Difference
  <2> DEFINE D == {r, q} \ R
  <2>2. IsFiniteSet(D) /\ D # {}
    BY <2>1
  <2> HIDE DEF D
  <2>3. Cardinality(D) \in Nat /\ Cardinality(D) # 0
    BY <2>2, FS_EmptySet, FS_CardinalityType
  <2>4. Len(keys) + Cardinality(D) <= MaxKeys
    BY DEF D
  <2> QED BY <1>0, <2>3, <2>4
<1> DEFINE new == WithRef(keys, r)
<1>2. /\ new \in KeyLists /\ RefsOf(new) = R \cup {r}
      /\ Len(new) = IF r \in R THEN Len(keys) ELSE Len(keys) + 1
  BY <1>1, WithRefTyped
<1>3. q \in RefsOf(new) \/ Len(new) < MaxKeys
  <2> SUFFICES ASSUME q # r, q \notin R PROVE Len(new) < MaxKeys
    BY <1>2
  <2>1. Cardinality({q}) = 1 /\ Cardinality({q} \cup {r}) = 2
    <3>1. PICK Q, m : Q = {q} /\ m = Cardinality(Q)
      OBVIOUS
    <3>2. m = 1 /\ IsFiniteSet(Q) /\ r \notin Q
      BY <3>1, FS_Singleton
    <3>3. Cardinality(Q \cup {r}) = m + 1
      BY <3>1, <3>2, FS_AddElement
    <3>4. m + 1 = 2
      BY <3>2
    <3> QED BY <3>1, <3>2, <3>3, <3>4, Zenon
  <2>2. CASE r \in R
    <3>1. {r, q} \ R = {q}
      BY <2>2
    <3>2. Len(keys) + 1 <= MaxKeys
      BY <2>1, <3>1
    <3> QED BY <1>0, <1>2, <2>2, <3>2
  <2>3. CASE r \notin R
    <3>1. {r, q} \ R = {q} \cup {r}
      BY <2>3
    <3>2. Len(keys) + 2 <= MaxKeys
      BY <2>1, <3>1
    <3> QED BY <1>0, <1>2, <2>3, <3>2
  <2> QED BY <2>2, <2>3
<1> HIDE DEF new
<1> QED BY <1>2, <1>3, WithRefTyped DEF new

LEMMA ListingOrderTyped ==
    ASSUME NEW calls, \A n \in DOMAIN calls : calls[n] \in Seq(Call)
    PROVE  InListingOrder(calls) \in Seq(Call)
<1>1. <<>> \in Seq(Call)
  BY EmptySeq
<1>2. \A s, t \in Seq(Call) : s \o t \in Seq(Call)
  BY ConcatProperties
<1> QED BY <1>1, <1>2, InListingOrderStays

LEMMA OnNameTyped ==
    ASSUME TypeInv, NEW w \in Workers, NEW n \in NamesOf[w], OnName(w, n)
    PROVE  TypeInv'
<1>0. n \in Names /\ NamesOf[w] \subseteq Names
  BY WorkerAssumption
<1>1. ASSUME n \in DOMAIN Listing
      PROVE  /\ Listing[n].status \in {"draft", "active"} /\ Listing[n].keys \in KeyLists
             /\ Listing[n].keys \in Seq(Key) /\ Len(Listing[n].keys) <= MaxKeys
             /\ Len(Listing[n].keys) \in Nat
  BY <1>1, ListingType, KeyListIs, BoundAssumption DEF IsBook, Record
<1>2. Sendable \subseteq KeyLists
  BY ClientAssumption, BoundAssumption DEF Sendable, KeyLists
<1>own. own' \subseteq Names
  BY OwnTyped
<1>3. CASE Create(w, n)
  <2>1. PICK refs \in UNION {[1..k -> Refs] : k \in 0..MaxKeys} :
           Continue(w, Resolving("create", n, NewKeys(refs), <<>>))
    BY <1>3 DEF Create
  <2>2. PICK k \in 0..MaxKeys : refs \in [1..k -> Refs]
    BY <2>1
  <2>3. NewKeys(refs) \in Seq(Key) /\ Len(NewKeys(refs)) = k /\ k \in Nat
    BY <2>2, NewKeysTyped, BoundAssumption DEF KeyLists
  <2>4. <<>> \in Seq(Key) /\ Len(NewKeys(refs)) + Len(<<>>) <= MaxKeys
    BY <2>2, <2>3, BoundAssumption
  <2>5. JobType(Resolving("create", n, NewKeys(refs), <<>>))
    BY <1>0, <2>3, <2>4, ResolvingTyped
  <2> QED BY <1>3, <2>1, <2>5, <1>own, RequestTyped DEF Create
<1>4. CASE CreateLegacy(w, n)
  <2>1. PICK keys \in Sendable : Continue(w, Running("create", Publish(n, keys)))
    BY <1>4 DEF CreateLegacy
  <2>2. Publish(n, keys) \in Seq(Call)
    BY <1>0, <1>2, PublishTypes
  <2> QED BY <1>4, <2>1, <2>2, <1>own, RunTyped DEF CreateLegacy
<1>5. CASE Regenerate(w, n)
  <2>1. n \in DOMAIN Listing /\ Continue(w, Resolving("regenerate", n, Listing[n].keys, <<>>))
    BY <1>5 DEF Regenerate
  <2>2. <<>> \in Seq(Key) /\ Len(Listing[n].keys) + Len(<<>>) <= MaxKeys /\ Listing[n].keys \in Seq(Key)
    BY <1>1, <2>1
  <2>3. JobType(Resolving("regenerate", n, Listing[n].keys, <<>>))
    BY <1>0, <2>2, ResolvingTyped
  <2> QED BY <1>5, <2>1, <2>3, <1>own, RequestTyped DEF Regenerate
<1>6. CASE \E new \in NamesOf[w] : RenameSubscription(w, n, new)
  <2>1. PICK new \in NamesOf[w] : RenameSubscription(w, n, new)
    BY <1>6
  <2> DEFINE record == <<ForgetMeta(n), UpsertMeta(new, Listing[n].status, Listing[n].keys)>>
             publish == IF n \in DOMAIN files THEN <<RenameFile(n, new), Mark>> ELSE <<>>
  <2>2. n \in DOMAIN Listing /\ Continue(w, Running("rename", publish \o record))
        /\ UNCHANGED <<store, needed, stale>>
    BY <2>1 DEF RenameSubscription
  <2>3. record \in Seq(Call)
    <3>1. ForgetMeta(n) \in Call /\ UpsertMeta(new, Listing[n].status, Listing[n].keys) \in Call
      BY <1>0, <1>1, <2>2, CallTypes
    <3> QED BY <3>1, ShortSeqs
  <2>4. publish \in Seq(Call)
    <3>1. RenameFile(n, new) \in Call /\ Mark \in Call
      BY <1>0, EmptyKeyList, CallTypes
    <3> QED BY <3>1, ShortSeqs, EmptySeq
  <2> HIDE DEF record, publish
  <2>5. publish \o record \in Seq(Call)
    BY <2>3, <2>4, ConcatProperties
  <2> QED BY <2>2, <2>5, <1>own, RunTyped
<1>7. CASE AddRefs(w, n)
  <2>1. n \in DOMAIN Listing /\ UNCHANGED <<store, needed, stale>>
    BY <1>7 DEF AddRefs
  <2> DEFINE sub == Listing[n]
  <2>2. PICK r \in Refs, q \in Refs :
           /\ Len(sub.keys) + Cardinality({r, q} \ RefsOf(sub.keys)) <= MaxKeys
           /\ Continue(w, Running("addRefs",
                  <<UpsertMeta(n, sub.status, WithRef(WithRef(sub.keys, r), q))>>))
    BY <1>7 DEF AddRefs
  <2>3. sub.status \in {"draft", "active"} /\ sub.keys \in KeyLists
    BY <1>1, <2>1
  <2> HIDE DEF sub
  <2>4. WithRef(WithRef(sub.keys, r), q) \in KeyLists
    BY <2>2, <2>3, WithRefsTyped
  <2>5. UpsertMeta(n, sub.status, WithRef(WithRef(sub.keys, r), q)) \in Call
    BY <1>0, <2>3, <2>4, CallTypes
  <2>6. <<UpsertMeta(n, sub.status, WithRef(WithRef(sub.keys, r), q))>> \in Seq(Call)
    BY <2>5, ShortSeqs
  <2> QED BY <2>1, <2>2, <2>6, <1>own, RunTyped
<1>8. CASE RemoveKey(w, n)
  <2>1. n \in DOMAIN Listing /\ UNCHANGED <<store, needed, stale>>
    BY <1>8 DEF RemoveKey
  <2> DEFINE keys == Listing[n].keys
  <2>2. PICK id : Continue(w, Running("removeKey",
                      Publish(n, SelectAt(keys, {i \in DOMAIN keys : keys[i].id # id}))))
    BY <1>8 DEF RemoveKey
  <2>3. keys \in KeyLists
    BY <1>1, <2>1
  <2> HIDE DEF keys
  <2> DEFINE at == {i \in DOMAIN keys : keys[i].id # id}
  <2>4. at \in SUBSET (DOMAIN keys)
    OBVIOUS
  <2>5. Continue(w, Running("removeKey", Publish(n, SelectAt(keys, at))))
    BY <2>2
  <2> HIDE DEF at
  <2>6. SelectAt(keys, at) \in KeyLists
    BY <2>3, <2>4, SelectedTyped
  <2>7. Publish(n, SelectAt(keys, at)) \in Seq(Call)
    BY <1>0, <2>6, PublishTypes
  <2> QED BY <2>1, <2>5, <2>7, <1>own, RunTyped
<1>9. CASE ReplaceKeys(w, n)
  <2>1. PICK keys \in {<<>>} \cup Sendable :
           Continue(w, Running("replaceKeys", Publish(n, keys)))
    BY <1>9 DEF ReplaceKeys
  <2>2. keys \in KeyLists
    BY <1>2, <2>1, EmptyKeyList
  <2> QED BY <1>0, <1>9, <2>1, <2>2, PublishTypes, <1>own, RunTyped DEF ReplaceKeys
<1>10. CASE Delete(w, n)
  <2>1. Continue(w, Running("delete", <<RemoveFile(n), Mark, ForgetMeta(n)>>))
    BY <1>10 DEF Delete
  <2>2. RemoveFile(n) \in Call /\ Mark \in Call /\ ForgetMeta(n) \in Call
    BY <1>0, EmptyKeyList, CallTypes
  <2>3. <<RemoveFile(n), Mark, ForgetMeta(n)>> \in Seq(Call)
    BY <2>2, ShortSeqs
  <2> QED BY <1>10, <2>1, <2>3, <1>own, RunTyped DEF Delete
<1> QED BY <1>3, <1>4, <1>5, <1>6, <1>7, <1>8, <1>9, <1>10 DEF OnName

LEMMA SumsBounded ==
    \A a, b, m \in Nat : a + b <= m => b <= m /\ (a - 1) + b <= m /\ (a - 1) + (b + 1) <= m
OBVIOUS

LEMMA WaitingTyped ==
    ASSUME TypeInv, NEW w \in Workers, ResolveKey(w) \/ Resolved(w)
    PROVE  TypeInv'
<1> DEFINE j == job[w]
<1>own. own' \subseteq Names
  <2>1. PICK r : TRUE
    OBVIOUS
  <2> QED BY <2>1, OwnTyped DEF Proceed
<1>1. /\ j.op \in {"create", "regenerate"} /\ j.name \in Names
      /\ j.pending \in Seq(Key) /\ j.done \in Seq(Key)
      /\ Len(j.pending) + Len(j.done) <= MaxKeys
  BY DEF TypeInv, JobType, ResolveKey, Resolved
<1>2. UNCHANGED <<store, needed, stale>>
  BY DEF ResolveKey, Resolved
<1>3. PICK a, b : a = Len(j.pending) /\ b = Len(j.done) /\ a \in Nat /\ b \in Nat /\ MaxKeys \in Nat
  BY <1>1, LenProperties, BoundAssumption
<1>4. CASE ResolveKey(w)
  <2> DEFINE key == Head(j.pending)
  <2>1. PICK done \in {j.done, Append(j.done, Relink(key))} :
           j.pending # <<>> /\ Continue(w, Resolving(j.op, j.name, Tail(j.pending), done))
    BY <1>4 DEF ResolveKey
  <2>2. key \in Key /\ Tail(j.pending) \in Seq(Key) /\ Len(Tail(j.pending)) = Len(j.pending) - 1
    BY <1>1, <2>1, HeadTailProperties
  <2> HIDE DEF j, key
  <2>3. done \in Seq(Key) /\ (Len(done) = b \/ Len(done) = b + 1)
    <3>1. Relink(key) \in Key
      BY <2>2, RelinkTyped
    <3>2. Append(j.done, Relink(key)) \in Seq(Key) /\ Len(Append(j.done, Relink(key))) = Len(j.done) + 1
      BY <1>1, <3>1, AppendProperties
    <3> QED BY <1>1, <1>3, <2>1, <3>2
  <2>4. Len(Tail(j.pending)) + Len(done) <= MaxKeys
    <3>1. Len(Tail(j.pending)) = a - 1 /\ a + b <= MaxKeys
      BY <1>1, <1>3, <2>2
    <3>2. (a - 1) + b <= MaxKeys /\ (a - 1) + (b + 1) <= MaxKeys
      BY <1>3, <3>1, SumsBounded
    <3> QED BY <2>3, <3>1, <3>2
  <2>5. JobType(Resolving(j.op, j.name, Tail(j.pending), done))
    BY <1>1, <2>2, <2>3, <2>4, ResolvingTyped
  <2> QED BY <1>2, <2>1, <2>5, <1>own, RequestTyped
<1>5. CASE Resolved(w)
  <2> DEFINE t == IF j.op = "create" /\ j.done = <<>> THEN <<UpsertMeta(j.name, "draft", <<>>)>>
                                                      ELSE Publish(j.name, j.done)
  <2>1. Continue(w, Running(j.op, t))
    BY <1>5 DEF Resolved
  <2> HIDE DEF j
  <2>2. j.done \in KeyLists
    <3>1. a + b <= MaxKeys
      BY <1>1, <1>3
    <3>2. b <= MaxKeys
      BY <1>3, <3>1, SumsBounded
    <3> QED BY <1>1, <1>3, <3>2 DEF KeyLists
  <2>3. UpsertMeta(j.name, "draft", <<>>) \in Call
    BY <1>1, EmptyKeyList, CallTypes
  <2>4. t \in Seq(Call)
    BY <1>1, <2>2, <2>3, PublishTypes, ShortSeqs
  <2> HIDE DEF t
  <2> QED BY <1>2, <2>1, <2>4, <1>own, RunTyped
<1> QED BY <1>4, <1>5

LEMMA AllNamesTyped ==
    ASSUME TypeInv, NEW w \in Workers, NEW r,
           StartRegenerateAll(w) \/ PanelsAnswered(w) \/ DeleteSource(w, r) \/ SyncRun(w)
    PROVE  TypeInv'
<1>0. UNCHANGED <<store, needed, stale>>
  BY DEF StartRegenerateAll, PanelsAnswered, DeleteSource, SyncRun
<1>own. own' \subseteq Names
  BY OwnTyped DEF Proceed
<1>1. CASE StartRegenerateAll(w)
  <2>1. JobType(Collecting(Listing, Live))
    BY ListingType DEF JobType, Collecting, Live
  <2> QED BY <1>0, <1>1, <2>1, <1>own, RequestTyped DEF StartRegenerateAll
<1>2. CASE PanelsAnswered(w)
  <2> DEFINE subs == job[w].subs
             known == job[w].live
             rebuilt == {n \in DOMAIN subs : HasPanelKey(subs[n].keys, known)}
             calls(answered) == [n \in rebuilt |-> Publish(n, Refreshed(subs[n].keys, known, answered))]
  <2>1. PICK answered : Continue(w, Running("regenerateAll", InListingOrder(calls(answered))))
    BY <1>2 DEF PanelsAnswered
  <2>2. IsBook(subs)
    BY <1>2 DEF PanelsAnswered, TypeInv, JobType
  <2> HIDE DEF subs
  <2>3. \A n \in DOMAIN calls(answered) : calls(answered)[n] \in Seq(Call)
    <3> SUFFICES ASSUME NEW n \in rebuilt
                 PROVE  Publish(n, Refreshed(subs[n].keys, known, answered)) \in Seq(Call)
      OBVIOUS
    <3>1. n \in Names /\ subs[n].keys \in KeyLists
      BY <2>2 DEF IsBook, Record
    <3>2. Refreshed(subs[n].keys, known, answered) \in KeyLists
      BY <3>1, RefreshedTyped
    <3> QED BY <3>1, <3>2, PublishTypes
  <2> HIDE DEF calls
  <2>4. InListingOrder(calls(answered)) \in Seq(Call)
    BY <2>3, ListingOrderTyped
  <2> QED BY <1>0, <2>1, <2>4, <1>own, RunTyped
<1>3. CASE DeleteSource(w, r)
  <2> DEFINE rest(n) == Without(Listing[n].keys, r)
             affected == {n \in DOMAIN Listing : r \in RefsOf(Listing[n].keys)}
             clean == [n \in affected |->
                         <<PutFile(n, rest(n)), UpsertMeta(n, StatusFor(rest(n)), rest(n))>>]
             flag == IF affected = {} THEN <<>> ELSE <<Mark>>
             t == InListingOrder(clean) \o flag \o <<DropSource(r)>>
  <2>1. Continue(w, Running("deleteSource", t))
    BY <1>3, Zenon DEF DeleteSource
  <2>2. \A n \in DOMAIN clean : clean[n] \in Seq(Call)
    <3> SUFFICES ASSUME NEW n \in affected PROVE clean[n] \in Seq(Call)
      OBVIOUS
    <3>1. clean[n] = <<PutFile(n, rest(n)), UpsertMeta(n, StatusFor(rest(n)), rest(n))>>
      OBVIOUS
    <3>2. n \in Names /\ Listing[n].keys \in KeyLists
      BY ListingType DEF IsBook, Record
    <3>3. rest(n) \in KeyLists
      <4>1. {i \in DOMAIN Listing[n].keys : Listing[n].keys[i].ref # r} \in SUBSET (DOMAIN Listing[n].keys)
        OBVIOUS
      <4> QED BY <3>2, <4>1, SelectedTyped DEF Without
    <3> HIDE DEF rest, clean, affected
    <3>4. PutFile(n, rest(n)) \in Call /\ UpsertMeta(n, StatusFor(rest(n)), rest(n)) \in Call
      BY <3>2, <3>3, CallTypes
    <3>5. <<PutFile(n, rest(n)), UpsertMeta(n, StatusFor(rest(n)), rest(n))>> \in Seq(Call)
      BY <3>4, ShortSeqs
    <3> QED BY <3>1, <3>5
  <2> HIDE DEF clean
  <2>3. InListingOrder(clean) \in Seq(Call)
    BY <2>2, ListingOrderTyped
  <2>4. Mark \in Call /\ DropSource(r) \in Call
    <3>1. r \in Refs
      BY <1>3 DEF DeleteSource, Live
    <3> QED BY <3>1 DEF Call, DropSource
  <2>5. flag \in Seq(Call) /\ <<DropSource(r)>> \in Seq(Call)
    BY <2>4, ShortSeqs, EmptySeq
  <2> HIDE DEF flag
  <2>6. t \in Seq(Call)
    BY <2>3, <2>5, ConcatProperties
  <2> HIDE DEF t
  <2> QED BY <1>0, <2>1, <2>6, <1>own, RunTyped
<1>4. CASE SyncRun(w)
  <2>1. Script \in Call /\ Clear \in Call
    BY DEF Call
  <2>2. <<Script, Clear>> \in Seq(Call)
    BY <2>1, ShortSeqs
  <2> QED BY <1>0, <1>4, <2>2, <1>own, RunTyped DEF SyncRun
<1> QED BY <1>1, <1>2, <1>3, <1>4

LEMMA CallIs ==
    ASSUME NEW c \in Call
    PROVE  /\ c.call = "WriteSubscriptionFile" => c.name \in Names /\ c.keys \in KeyLists /\ c.keys # <<>>
           /\ c.call = "RenameSubscriptionFile" => c.name \in Names /\ c.new \in Names
           /\ c.call = "UpsertSubMeta" => c.name \in Names /\ c.rec \in Record
           /\ c.call = "DeleteKeySource" => c.ref \in Refs
BY DEF Call, Mark, Script, Clear

LEMMA FilesTyped ==
    ASSUME TypeInv, NEW c \in Call, ~ Fails(c), files' = FilesAfter(c, files)
    PROVE  /\ DOMAIN files' \subseteq Names
           /\ \A n \in DOMAIN files' : files'[n] \in Lines /\ Len(files'[n]) \in 1..MaxKeys
<1>1. /\ DOMAIN files \subseteq Names
      /\ \A n \in DOMAIN files : files[n] \in Lines /\ Len(files[n]) \in 1..MaxKeys
  BY DEF TypeInv
<1>2. CASE c.call = "WriteSubscriptionFile"
  <2>1. files' = [m \in DOMAIN files \cup {c.name} |-> IF m = c.name THEN FileLines(c.keys) ELSE files[m]]
    BY <1>2 DEF FilesAfter, Put
  <2>2. c.name \in Names /\ FileLines(c.keys) \in Lines /\ Len(FileLines(c.keys)) \in 1..MaxKeys
    BY <1>2, CallIs, FileLinesType
  <2> QED BY <1>1, <2>1, <2>2
<1>3. CASE c.call = "RemoveSubscriptionFile"
  <2>1. files' = [m \in DOMAIN files \ {c.name} |-> files[m]]
    BY <1>3 DEF FilesAfter, Drop
  <2> QED BY <1>1, <2>1
<1>4. CASE c.call = "RenameSubscriptionFile"
  <2>1. c.name \in DOMAIN files /\ c.new \in Names
    BY <1>4, CallIs DEF Fails
  <2>2. files' = [m \in (DOMAIN files \ {c.name}) \cup {c.new} |->
                     IF m = c.new THEN files[c.name] ELSE [k \in DOMAIN files \ {c.name} |-> files[k]][m]]
    BY <1>4 DEF FilesAfter, Move, Put, Drop
  <2> QED BY <1>1, <2>1, <2>2
<1>5. CASE c.call \notin FileCalls
  BY <1>1, <1>5 DEF FilesAfter, FileCalls
<1> QED BY <1>2, <1>3, <1>4, <1>5 DEF FileCalls

LEMMA MetasTyped ==
    ASSUME TypeInv, NEW c \in Call, metas' = MetasAfter(c, metas)
    PROVE  IsBook(metas')
<1>1. CASE c.call = "UpsertSubMeta"
  <2>1. metas' = [m \in DOMAIN metas \cup {c.name} |-> IF m = c.name THEN c.rec ELSE metas[m]]
    BY <1>1 DEF MetasAfter, Put
  <2> QED BY <1>1, <2>1, CallIs DEF TypeInv, IsBook
<1>2. CASE c.call = "DeleteSubMeta"
  <2>1. metas' = [m \in DOMAIN metas \ {c.name} |-> metas[m]]
    BY <1>2 DEF MetasAfter, Drop
  <2> QED BY <2>1 DEF TypeInv, IsBook
<1>3. CASE c.call \notin {"UpsertSubMeta", "DeleteSubMeta"}
  BY <1>3 DEF MetasAfter, TypeInv
<1> QED BY <1>1, <1>2, <1>3

LEMMA CallTyped ==
    ASSUME TypeInv, NEW w \in Workers,
           CallFiles(w) \/ CallMetas(w) \/ CallMark(w) \/ CallScript(w)
    PROVE  TypeInv'
<1> DEFINE c == NextCall(w)
           t == job[w].todo
           u == Tail(job[w].todo)
<1>1. job[w].phase = "run" /\ Advance(w)
  BY DEF CallFiles, CallMetas, CallMark, CallScript, IsNext
<1>2. t \in Seq(Call) /\ t # <<>>
  BY <1>1 DEF TypeInv, JobType
<1>3. c \in Call /\ u \in Seq(Call)
  BY <1>2, HeadTailProperties DEF NextCall
<1>4. /\ job' \in [Workers -> Range(job')]
      /\ \A v \in Workers \ {w} : job'[v] = job[v]
      /\ u = <<>> => job'[w] = Idle
      /\ u # <<>> => job'[w].phase = "run" /\ job'[w].todo = u
  BY <1>1, AdvanceIs DEF TypeInv
<1>5. JobType(job'[w])
  <2> HIDE DEF u
  <2>1. CASE u = <<>>
    <3>1. JobType(Idle)
      BY DEF JobType, Idle
    <3> QED BY <1>4, <2>1, <3>1
  <2>2. CASE u # <<>>
    BY <1>3, <1>4, <2>2 DEF JobType
  <2> QED BY <2>1, <2>2
<1>6. \A v \in Workers : JobType(job'[v])
  BY <1>4, <1>5 DEF TypeInv
<1> HIDE DEF c
<1>7. /\ DOMAIN files' \subseteq Names
      /\ \A n \in DOMAIN files' : files'[n] \in Lines /\ Len(files'[n]) \in 1..MaxKeys
  <2>1. (~ Fails(c) /\ files' = FilesAfter(c, files)) \/ files' = files
    BY DEF CallFiles, CallMetas, CallMark, CallScript, store, c
  <2> QED BY <1>3, <2>1, FilesTyped DEF TypeInv
<1>8. IsBook(metas')
  <2>1. metas' = MetasAfter(c, metas) \/ metas' = metas
    BY DEF CallFiles, CallMetas, CallMark, CallScript, store, c
  <2> QED BY <1>3, <2>1, MetasTyped DEF TypeInv
<1>9. sources' \in [Refs -> {"unborn", "live", "gone"}]
  <2>1. sources' = SourcesAfter(c, sources) \/ sources' = sources
    BY DEF CallFiles, CallMetas, CallMark, CallScript, store, c
  <2> QED BY <1>3, <2>1, CallIs DEF TypeInv, SourcesAfter
<1>10. needed' \in BOOLEAN /\ stale' \in BOOLEAN
  <2>1. CASE CallFiles(w)
    BY <2>1 DEF CallFiles, TypeInv
  <2>2. CASE CallMetas(w)
    BY <2>2 DEF CallMetas, TypeInv
  <2>3. CASE CallMark(w)
    BY <2>3 DEF CallMark, TypeInv
  <2>4. CASE CallScript(w)
    BY <2>4 DEF CallScript, TypeInv
  <2> QED BY <2>1, <2>2, <2>3, <2>4
<1>11. own' \subseteq Names
  BY DEF CallFiles, CallMetas, CallMark, CallScript, TypeInv
<1> QED BY <1>4, <1>6, <1>7, <1>8, <1>9, <1>10, <1>11 DEF TypeInv

LEMMA TypeStep ==
    ASSUME TypeInv, [Next]_vars
    PROVE  TypeInv'
<1>1. ASSUME NEW w \in Workers, NEW n \in NamesOf[w], OnName(w, n)
      PROVE  TypeInv'
  BY <1>1, OnNameTyped
<1>2. ASSUME NEW w \in Workers, StartRegenerateAll(w) \/ SyncRun(w) \/ PanelsAnswered(w)
      PROVE  TypeInv'
  <2>1. PICK r : TRUE
    OBVIOUS
  <2> QED BY <1>2, <2>1, AllNamesTyped
<1>3. ASSUME NEW w \in Workers, NEW r \in Refs, DeleteSource(w, r)
      PROVE  TypeInv'
  BY <1>3, AllNamesTyped
<1>4. ASSUME NEW w \in Workers, NEW r \in Refs, CreateSource(w, r)
      PROVE  TypeInv'
  BY <1>4 DEF CreateSource, TypeInv
<1>5. ASSUME NEW w \in Workers, Proceed(w)
      PROVE  TypeInv'
  <2>1. CASE ResolveKey(w) \/ Resolved(w)
    BY <2>1, WaitingTyped
  <2>2. CASE CallFiles(w) \/ CallMetas(w) \/ CallMark(w) \/ CallScript(w)
    BY <2>2, CallTyped
  <2>3. CASE CallFails(w)
    <3>1. JobType(Idle)
      BY DEF JobType, Idle
    <3>2. own' \subseteq Names
      BY <2>3 DEF CallFails, TypeInv
    <3> QED BY <2>3, <3>1, <3>2, RequestTyped DEF CallFails
  <2> QED BY <1>2, <1>5, <2>1, <2>2, <2>3 DEF Proceed
<1>6. CASE Restart
  <2>1. JobType(Idle) /\ job' \in [Workers -> Range(job')] /\ \A w \in Workers : job'[w] = Idle
    BY <1>6 DEF Restart, JobType, Idle, Range
  <2> QED BY <1>6, <2>1 DEF Restart, TypeInv, store
<1>7. CASE UNCHANGED vars
  BY <1>7 DEF vars, TypeInv
<1> QED BY <1>1, <1>2, <1>3, <1>4, <1>5, <1>6, <1>7 DEF Next

\* What every request holds in memory, and what it still has to call, is of the
\* types of the two stores; every request at once, restarts included.
THEOREM TypesInvariant == Spec => []TypeInv
<1>1. Init => TypeInv
  <2> SUFFICES ASSUME Init PROVE TypeInv
    OBVIOUS
  <2>1. PICK D \in SUBSET {NameOrder[1]} : files \in [D -> {<<l>> : l \in LegacyLinks}]
    BY DEF Init
  <2>2. NameOrder[1] \in Names
    BY NameAssumption, ElementOfSeq, LenProperties
  <2>3. \A l \in LegacyLinks : <<l>> \in Lines /\ Len(<<l>>) \in 1..MaxKeys
    <3>1. \A x \in Refs \cup LegacyLinks \cup {Empty} :
             <<x>> \in Seq(Refs \cup LegacyLinks \cup {Empty}) /\ Len(<<x>>) = 1
      OBVIOUS
    <3> QED BY <3>1, BoundAssumption DEF Lines
  <2>4. /\ DOMAIN files \subseteq Names
        /\ \A n \in DOMAIN files : files[n] \in Lines /\ Len(files[n]) \in 1..MaxKeys
    BY <2>1, <2>2, <2>3
  <2>5. DOMAIN metas = {} /\ job = [w \in Workers |-> Idle] /\ sources = [r \in Refs |-> "unborn"]
        /\ needed /\ stale /\ own = {}
    BY DEF Init
  <2>6. job \in [Workers -> Range(job)] /\ \A w \in Workers : JobType(job[w])
    BY <2>5 DEF Range, JobType, Idle
  <2> QED BY <2>4, <2>5, <2>6 DEF TypeInv, IsBook, Init
<1>2. TypeInv /\ [Next]_vars => TypeInv'
  BY TypeStep
<1> QED BY <1>1, <1>2, PTL DEF Spec

\* TypeOK, every handler with every other, for any bound on the keys of a
\* subscription: AddRefs never runs out of ids, and no file is without a line.
THEOREM SubscriptionTypes == Spec => []TypeOK
<1>1. TypeInv => TypeOK
  <2> SUFFICES ASSUME TypeInv PROVE TypeOK
    OBVIOUS
  <2>1. ASSUME NEW n \in DOMAIN files
        PROVE  Len(files[n]) \in 1..MaxKeys /\ Range(files[n]) \subseteq Refs \cup LegacyLinks \cup {Empty}
    <3>1. files[n] \in Seq(Refs \cup LegacyLinks \cup {Empty}) /\ Len(files[n]) \in 1..MaxKeys
      BY DEF TypeInv, Lines
    <3> QED BY <3>1, RangeOfSeq
  <2>2. ASSUME NEW n \in DOMAIN metas
        PROVE  metas[n].status \in {"draft", "active"} /\ KeyList(metas[n].keys)
    <3>1. metas[n].status \in {"draft", "active"} /\ metas[n].keys \in KeyLists
      BY DEF TypeInv, IsBook, Record
    <3>2. /\ Len(metas[n].keys) \in 0..MaxKeys
          /\ \A i \in DOMAIN metas[n].keys : metas[n].keys[i] \in Key
      BY <3>1, KeyListIs
    <3> QED BY <3>1, <3>2, BoundAssumption DEF KeyList
  <2> QED BY <2>1, <2>2 DEF TypeInv, TypeOK, IsBook, JobType
<1> QED BY <1>1, TypesInvariant, PTL

-----------------------------------------------------------------------------
(* The requests, of their types. *)

LEMMA ListingIsTaken == \A n : n \in DOMAIN Listing <=> Taken(n)
BY DEF Listing, ListSubscriptions, Taken

LEMMA TypedOfOne ==
    ASSUME OneAtATime, TypeInv, NEW w \in Workers
    PROVE  /\ job \in [Workers -> Range(job)] /\ \A v \in Workers : v = w
           /\ JobType(job[w])
BY DEF OneAtATime, TypeInv

\* The next call, and what remains after it.
LEMMA NextOfTyped ==
    ASSUME TypeInv, NEW w \in Workers, job[w].phase = "run"
    PROVE  LET t == job[w].todo
               u == Tail(job[w].todo)
           IN  /\ t \in Seq(Call) /\ CallList(t)
               /\ NextCall(w) = t[1] /\ 1 \in DOMAIN t /\ NextCall(w) \in Call
               /\ \A i \in DOMAIN u : i + 1 \in DOMAIN t /\ u[i] = t[i + 1]
               /\ Len(u) = Len(t) - 1 /\ Len(t) \in Nat
<1> DEFINE t == job[w].todo
           u == Tail(job[w].todo)
<1>1. t \in Seq(Call) /\ t # <<>>
  BY DEF TypeInv, JobType
<1>2. CallList(t)
  BY <1>1, IsCallList
<1>3. /\ Len(t) \in Nat \ {0} /\ DOMAIN t = 1..Len(t) /\ Head(t) = t[1]
      /\ Len(u) = Len(t) - 1 /\ DOMAIN u = 1..(Len(t) - 1)
      /\ \A i \in DOMAIN u : u[i] = t[i + 1]
  BY <1>2, CallListFacts
<1>4. \A i \in DOMAIN u : i + 1 \in DOMAIN t
  BY <1>3
<1>5. 1 \in DOMAIN t /\ t[1] \in Call
  BY <1>1, <1>3, ElementOfSeq
<1> QED BY <1>1, <1>2, <1>3, <1>4, <1>5 DEF NextCall

-----------------------------------------------------------------------------
(* RegenerateRepairs: what a regenerate stores is paired with lines of its   *)
(* own.                                                                      *)

\* The keys of a listing, in two parts.
LEMMA PairParts ==
    ASSUME NEW keys \in KeyLists, NEW lines \in Lines
    PROVE  LET pair == PairWithLines(keys, lines) IN
           /\ Len(pair) \in Nat /\ DOMAIN pair = 1..Len(pair)
           /\ \E m : PairedUpTo(keys, lines, m)
           /\ \A k \in DOMAIN pair :
                \/ \E i \in DOMAIN lines : lines[i] # Empty /\ pair[k] = PairedKey(keys, lines, i)
                \/ \E j \in DOMAIN keys : j > Len(lines) /\ pair[k] = keys[j]
<1>1. PICK L : lines \in Seq(L)
  BY DEF Lines
<1>2. PICK X : keys \in Seq(X)
  BY DEF KeyLists
<1>3. PICK pair : pair = PairWithLines(keys, lines)
  OBVIOUS
<1>4. PICK S : pair \in Seq(S)
  BY <1>1, <1>2, <1>3, PairIs
<1>5. Len(pair) \in Nat /\ DOMAIN pair = 1..Len(pair)
  BY <1>4, LenProperties
<1>6. PICK m : PairedUpTo(keys, lines, m)
  BY <1>1, <1>2, PairIs
<1>7. \A k \in DOMAIN pair :
         \/ \E i \in DOMAIN lines : lines[i] # Empty /\ pair[k] = PairedKey(keys, lines, i)
         \/ \E j \in DOMAIN keys : j > Len(lines) /\ pair[k] = keys[j]
  BY <1>3, <1>5, <1>6 DEF PairedUpTo
<1> QED BY <1>3, <1>5, <1>6, <1>7

\* Keys with links of their own, written and read again, have them still.
LEMMA OwnPaired ==
    ASSUME NEW keys \in KeyLists, keys # <<>>, OwnLinks(keys)
    PROVE  LET pair == PairWithLines(keys, FileLines(keys)) IN
           \A k \in DOMAIN pair : pair[k].ref # NoRef => pair[k].link = LinkFor(pair[k].ref)
<1> DEFINE lines == FileLines(keys)
           pair == PairWithLines(keys, lines)
<1>1. /\ keys \in Seq(Key) /\ DOMAIN keys = 1..Len(keys) /\ Len(keys) \in Nat
      /\ \A i \in DOMAIN keys : keys[i] \in Key
  BY KeyListIs
<1>2. lines \in Seq(Refs \cup LegacyLinks \cup {Empty}) /\ DOMAIN lines = 1..Len(lines)
  <2>1. lines \in Seq(Refs \cup LegacyLinks \cup {Empty})
    BY FileLinesType DEF Lines
  <2> QED BY <2>1, LenProperties
<1>3. \A i \in DOMAIN lines : lines[i] # Empty => i \in DOMAIN keys /\ lines[i] = keys[i].link
  <2>1. CASE lines = <<Empty>>
    BY <2>1
  <2>2. ASSUME NEW last \in DOMAIN keys, lines = [i \in 1..last |-> keys[i].link]
        PROVE  \A i \in DOMAIN lines : i \in DOMAIN keys /\ lines[i] = keys[i].link
    BY <1>1, <2>2
  <2> QED BY <1>1, <2>1, <2>2, FileLinesIs
<1>4. \A i \in DOMAIN keys : /\ PairedKey(keys, lines, i).ref = keys[i].ref
                             /\ PairedKey(keys, lines, i).link = lines[i]
  BY <1>1 DEF PairedKey, Key
<1>5. /\ DOMAIN pair = 1..Len(pair)
      /\ \A k \in DOMAIN pair :
            \/ \E i \in DOMAIN lines : lines[i] # Empty /\ pair[k] = PairedKey(keys, lines, i)
            \/ \E j \in DOMAIN keys : pair[k] = keys[j]
  BY FileLinesType, PairParts
<1> HIDE DEF lines, pair
<1>7. ASSUME NEW k \in DOMAIN pair, pair[k].ref # NoRef
      PROVE  pair[k].link = LinkFor(pair[k].ref)
  <2>1. ASSUME NEW i \in DOMAIN lines, lines[i] # Empty, pair[k] = PairedKey(keys, lines, i)
        PROVE  pair[k].link = LinkFor(pair[k].ref)
    BY <1>3, <1>4, <1>7, <2>1 DEF OwnLinks
  <2> QED BY <1>5, <1>7, <2>1 DEF OwnLinks
<1> QED BY <1>7 DEF lines, pair

LEMMA RepairsIs ==
    ASSUME NEW n, NEW keys, OwnLinks(keys), NEW fs, NEW d, d = UpsertMeta(n, StatusFor(keys), keys),
           NEW t, \/ t = Publish(n, keys)
                  \/ t = <<Mark, d>> /\ FileHolds(fs, n, keys)
                  \/ t = <<d>> /\ FileHolds(fs, n, keys)
    PROVE  Repairs(t, fs)
<1>1. d.name = n /\ d.rec.keys = keys
  BY DEF UpsertMeta
<1>2. t[Len(t)] = d
  BY DEF Publish
<1> QED BY <1>1, <1>2 DEF Repairs

LEMMA RequestRepairs ==
    ASSUME OneAtATime, TypeInv, NEW w \in Workers, NEW j, Continue(w, j),
           j.phase = "resolve" => OwnLinks(j.done),
           j.phase = "run" /\ j.op = "regenerate" => Repairs(j.todo, files')
    PROVE  RegenerateInv'
<1>1. job'[w] = j /\ \A v \in Workers : v = w
  BY TypedOfOne, JobChanges
<1>2. \A v \in Workers : job'[v] = j
  BY <1>1
<1> QED BY <1>2 DEF RegenerateInv, OwnLinks, Repairs, FileHolds

LEMMA RunRepairs ==
    ASSUME OneAtATime, TypeInv, NEW w \in Workers, NEW op, NEW t, Continue(w, Running(op, t)),
           op = "regenerate" => Repairs(t, files')
    PROVE  RegenerateInv'
<1>1. PICK j : j = Running(op, t)
  OBVIOUS
<1>2. t = <<>> => j.phase = "idle"
  BY <1>1, RunningIs DEF Idle
<1>3. t # <<>> => j.phase = "run" /\ j.todo = t /\ j.op = op
  BY <1>1, RunningIs
<1>4. j.phase \in {"idle", "run"} /\ (j.phase = "run" => j.todo = t /\ j.op = op)
  BY <1>2, <1>3
<1> QED BY <1>1, <1>4, RequestRepairs

LEMMA OnNameRepairs ==
    ASSUME OneAtATime, TypeInv, NEW w \in Workers, NEW n \in NamesOf[w], OnName(w, n)
    PROVE  RegenerateInv'
<1>1. ASSUME NEW op, NEW pending, Continue(w, Resolving(op, n, pending, <<>>))
      PROVE  RegenerateInv'
  <2>1. PICK j : j = Resolving(op, n, pending, <<>>) /\ Continue(w, j)
    BY <1>1
  <2>2. j.phase = "resolve" /\ OwnLinks(j.done)
    BY <2>1 DEF Resolving, OwnLinks
  <2> QED BY <2>1, <2>2, RequestRepairs
<1>2. CASE Create(w, n)
  <2>1. PICK pending : Continue(w, Resolving("create", n, pending, <<>>))
    BY <1>2 DEF Create
  <2> QED BY <1>1, <2>1
<1>3. CASE Regenerate(w, n)
  BY <1>1, <1>3 DEF Regenerate
<1>4. CASE CreateLegacy(w, n)
  <2>1. PICK t : Continue(w, Running("create", t))
    BY <1>4 DEF CreateLegacy
  <2> QED BY <2>1, RunRepairs
<1>5. CASE \E new \in NamesOf[w] : RenameSubscription(w, n, new)
  <2>1. PICK t : Continue(w, Running("rename", t))
    BY <1>5 DEF RenameSubscription
  <2> QED BY <2>1, RunRepairs
<1>6. CASE AddRefs(w, n)
  <2>1. PICK t : Continue(w, Running("addRefs", t))
    BY <1>6 DEF AddRefs
  <2> QED BY <2>1, RunRepairs
<1>7. CASE RemoveKey(w, n)
  <2>1. PICK t : Continue(w, Running("removeKey", t))
    BY <1>7 DEF RemoveKey
  <2> QED BY <2>1, RunRepairs
<1>8. CASE ReplaceKeys(w, n)
  <2>1. PICK t : Continue(w, Running("replaceKeys", t))
    BY <1>8 DEF ReplaceKeys
  <2> QED BY <2>1, RunRepairs
<1>9. CASE Delete(w, n)
  <2>1. PICK t : Continue(w, Running("delete", t))
    BY <1>9 DEF Delete
  <2> QED BY <2>1, RunRepairs
<1> QED BY <1>2, <1>3, <1>4, <1>5, <1>6, <1>7, <1>8, <1>9 DEF OnName

LEMMA WaitingRepairs ==
    ASSUME OneAtATime, TypeInv, RegenerateInv, NEW w \in Workers, ResolveKey(w) \/ Resolved(w)
    PROVE  RegenerateInv'
<1>1. /\ job[w].phase = "resolve" /\ OwnLinks(job[w].done)
      /\ job[w].pending \in Seq(Key) /\ job[w].done \in Seq(Key)
  BY DEF ResolveKey, Resolved, RegenerateInv, TypeInv, JobType
<1>2. CASE ResolveKey(w)
  <2> DEFINE key == Head(job[w].pending)
  <2>1. key \in Key
    BY <1>1, <1>2, HeadTailProperties DEF ResolveKey
  <2>2. PICK j : /\ Continue(w, j) /\ j.phase = "resolve"
                 /\ j.done = Append(job[w].done, Relink(key)) \/ j.done = job[w].done
    BY <1>2 DEF ResolveKey, Resolving
  <2>3. Relink(key).ref # NoRef => Relink(key).link = LinkFor(Relink(key).ref)
    BY <2>1 DEF Relink, Key
  <2>4. \A i \in DOMAIN Append(job[w].done, Relink(key)) :
           Append(job[w].done, Relink(key))[i] = IF i = Len(job[w].done) + 1 THEN Relink(key) ELSE job[w].done[i]
    BY <1>1, <2>1, RelinkTyped, AppendProperties
  <2>5. DOMAIN Append(job[w].done, Relink(key)) = DOMAIN job[w].done \cup {Len(job[w].done) + 1}
    <3>1. Append(job[w].done, Relink(key)) \in Seq(Key) /\ Len(Append(job[w].done, Relink(key))) = Len(job[w].done) + 1
      BY <1>1, <2>1, RelinkTyped, AppendProperties
    <3> QED BY <1>1, <3>1, LenProperties
  <2>6. OwnLinks(Append(job[w].done, Relink(key)))
    <3>1. PICK x : x = Append(job[w].done, Relink(key))
      OBVIOUS
    <3>2. \A i \in DOMAIN x : x[i].ref # NoRef => x[i].link = LinkFor(x[i].ref)
      BY <1>1, <2>3, <2>4, <2>5, <3>1 DEF OwnLinks
    <3> QED BY <3>1, <3>2 DEF OwnLinks
  <2> QED BY <1>1, <2>2, <2>6, RequestRepairs
<1>3. CASE Resolved(w)
  <2> DEFINE n == job[w].name
             op == job[w].op
             keys == job[w].done
             t == IF op = "create" /\ keys = <<>> THEN <<UpsertMeta(n, "draft", <<>>)>>
                                                  ELSE Publish(n, keys)
  <2>1. Continue(w, Running(op, t))
    BY <1>3 DEF Resolved
  <2>2. op = "regenerate" => t = Publish(n, keys)
    OBVIOUS
  <2>3. OwnLinks(keys)
    BY <1>1
  <2> HIDE DEF n, op, keys, t
  <2>4. op = "regenerate" => Repairs(t, files')
    BY <2>2, <2>3, RepairsIs
  <2> QED BY <2>1, <2>4, RunRepairs
<1> QED BY <1>2, <1>3

LEMMA CallRepairs ==
    ASSUME OneAtATime, TypeInv, RegenerateInv, NEW w \in Workers,
           CallFiles(w) \/ CallMetas(w) \/ CallMark(w) \/ CallScript(w)
    PROVE  RegenerateInv'
<1>1. job[w].phase = "run" /\ Advance(w)
  BY DEF CallFiles, CallMetas, CallMark, CallScript, IsNext
<1>2. SUFFICES ASSUME job[w].op = "regenerate", Tail(job[w].todo) # <<>>
               PROVE  Repairs(Tail(job[w].todo), files')
  <2>1. PICK op, u : op = job[w].op /\ u = Tail(job[w].todo) /\ Continue(w, Running(op, u))
    BY <1>1 DEF Advance
  <2>2. CASE u = <<>>
    <3>1. PICK j : j = Running(op, u) /\ j.phase = "idle"
      BY <2>2, RunningIs DEF Idle
    <3> QED BY <2>1, <3>1, RequestRepairs
  <2>3. CASE u # <<>>
    <3>1. op = "regenerate" => Repairs(u, files')
      BY <1>2, <2>1, <2>3
    <3> QED BY <2>1, <3>1, RunRepairs
  <2> QED BY <2>2, <2>3
<1>3. PICK n, keys, d : /\ d = UpsertMeta(n, StatusFor(keys), keys) /\ OwnLinks(keys)
                        /\ \/ job[w].todo = Publish(n, keys)
                           \/ job[w].todo \in {<<Mark, d>>, <<d>>} /\ FileHolds(files, n, keys)
  BY <1>1, <1>2 DEF RegenerateInv, Repairs
<1>4. CASE job[w].todo = Publish(n, keys)
  <2>1. NextCall(w) = PutFile(n, keys) /\ Tail(job[w].todo) = <<Mark, d>>
    BY <1>3, <1>4 DEF NextCall, Publish
  <2>2. PICK c : c = NextCall(w)
    OBVIOUS
  <2>3. IF keys = <<>> THEN c = RemoveFile(n) ELSE c = WriteFile(n, keys)
    BY <2>1, <2>2 DEF PutFile
  <2>4. c.call \in {"WriteSubscriptionFile", "RemoveSubscriptionFile"}
    BY <2>3 DEF RemoveFile, WriteFile
  <2>5. files' = FilesAfter(c, files)
    BY <2>2, <2>4 DEF CallFiles, CallMetas, CallMark, CallScript, IsNext, MetaCalls
  <2>6. FileHolds(files', n, keys)
    BY <2>3, <2>5 DEF FilesAfter, FileHolds, RemoveFile, WriteFile, Put, Drop
  <2> QED BY <1>3, <2>1, <2>6, RepairsIs
<1>5. CASE job[w].todo = <<Mark, d>> /\ FileHolds(files, n, keys)
  <2>1. NextCall(w) = Mark /\ Tail(job[w].todo) = <<d>>
    BY <1>5 DEF NextCall
  <2>2. files' = files
    BY <2>1 DEF CallFiles, CallMetas, CallMark, CallScript, IsNext, FileCalls, Mark, store
  <2> QED BY <1>3, <1>5, <2>1, <2>2, RepairsIs
<1>6. CASE job[w].todo = <<d>>
  <2>1. Tail(job[w].todo) = <<>>
    BY <1>6
  <2> QED BY <1>2, <2>1
<1> QED BY <1>3, <1>4, <1>5, <1>6

LEMMA RegenerateStep ==
    ASSUME OneAtATime, TypeInv, RegenerateInv, [Next]_vars
    PROVE  RegenerateInv'
<1>1. ASSUME NEW w \in Workers, NEW n \in NamesOf[w], OnName(w, n)
      PROVE  RegenerateInv'
  BY <1>1, OnNameRepairs
<1>2. ASSUME NEW w \in Workers,
             \/ StartRegenerateAll(w) \/ SyncRun(w) \/ PanelsAnswered(w) \/ CallFails(w)
             \/ \E r \in Refs : DeleteSource(w, r)
      PROVE  RegenerateInv'
  <2>1. CASE StartRegenerateAll(w) \/ CallFails(w)
    <3>1. PICK j : Continue(w, j) /\ j.phase \in {"collect", "idle"}
      BY <2>1 DEF StartRegenerateAll, Collecting, CallFails, Idle
    <3> QED BY <3>1, RequestRepairs
  <2>2. CASE SyncRun(w) \/ PanelsAnswered(w) \/ \E r \in Refs : DeleteSource(w, r)
    <3>1. CASE SyncRun(w)
      <4>1. PICK t : Continue(w, Running("sync", t))
        BY <3>1 DEF SyncRun
      <4> QED BY <4>1, RunRepairs
    <3>2. CASE PanelsAnswered(w)
      <4>1. PICK t : Continue(w, Running("regenerateAll", t))
        BY <3>2 DEF PanelsAnswered
      <4> QED BY <4>1, RunRepairs
    <3>3. ASSUME NEW r \in Refs, DeleteSource(w, r)
          PROVE  RegenerateInv'
      <4>1. PICK t : Continue(w, Running("deleteSource", t))
        BY <3>3 DEF DeleteSource
      <4> QED BY <4>1, RunRepairs
    <3> QED BY <2>2, <3>1, <3>2, <3>3
  <2> QED BY <1>2, <2>1, <2>2
<1>3. CASE UNCHANGED <<files, job>>
  BY <1>3 DEF RegenerateInv, Repairs, FileHolds, OwnLinks
<1>4. CASE Restart
  BY <1>4 DEF Restart, RegenerateInv, Idle
<1> QED BY <1>1, <1>2, <1>3, <1>4, WaitingRepairs, CallRepairs DEF Next, Proceed, CreateSource, vars

\* The strengthening of RegenerateRepairs: the calls a regenerate has still to
\* make store keys whose links are their own, over a file that holds them.
THEOREM RegenerateInvariant ==
    ASSUME OneAtATime
    PROVE  Spec => []RegenerateInv
<1>1. Init => RegenerateInv
  BY DEF Init, RegenerateInv, Idle
<1>2. TypeInv /\ RegenerateInv /\ [Next]_vars => RegenerateInv'
  BY RegenerateStep
<1> QED BY <1>1, <1>2, TypesInvariant, PTL DEF Spec

\* RegenerateRepairs, Update with regenerate: the request that completes
\* leaves its subscription with a status that tells whether the file is there,
\* and every key with the link of its own KeySource, whatever it found.
THEOREM RegenerationRepairs ==
    ASSUME OneAtATime
    PROVE  Spec => RegenerateRepairs
<1>1. TypeInv /\ RegenerateInv /\ [Next]_vars =>
        [\A w \in Workers, n \in Names :
            CompletesRegenerate(w, n) => StatusAgrees(n)' /\ PairingAgrees(n)']_vars
  <2> SUFFICES ASSUME TypeInv, RegenerateInv, [Next]_vars,
                      NEW w \in Workers, NEW n \in Names, CompletesRegenerate(w, n)
               PROVE  StatusAgrees(n)' /\ PairingAgrees(n)'
    OBVIOUS
  <2> DEFINE c == NextCall(w)
             keys == c.rec.keys
  <2>1. /\ job[w].phase = "run" /\ job[w].op = "regenerate"
        /\ c.call = "UpsertSubMeta" /\ c.name = n /\ metas' = MetasAfter(c, metas)
    BY DEF CompletesRegenerate
  <2>2. PICK m, ks, d : /\ d = UpsertMeta(m, StatusFor(ks), ks) /\ OwnLinks(ks)
                        /\ \/ job[w].todo = Publish(m, ks)
                           \/ job[w].todo \in {<<Mark, d>>, <<d>>} /\ FileHolds(files, m, ks)
    BY <2>1 DEF RegenerateInv, Repairs
  <2>3. c = d /\ FileHolds(files, m, ks)
    <3>1. PutFile(m, ks).call # "UpsertSubMeta" /\ Mark.call # "UpsertSubMeta"
      BY DEF PutFile, RemoveFile, WriteFile, Mark
    <3>2. c = Head(job[w].todo)
      BY DEF NextCall
    <3>3. job[w].todo = Publish(m, ks) => c = PutFile(m, ks)
      BY <3>2 DEF Publish
    <3>4. job[w].todo = <<Mark, d>> => c = Mark
      BY <3>2
    <3>5. job[w].todo = <<d>> => c = d
      BY <3>2
    <3> QED BY <2>1, <2>2, <3>1, <3>3, <3>4, <3>5
  <2>4. m = n /\ c.rec = [status |-> StatusFor(ks), keys |-> ks]
    BY <2>1, <2>2, <2>3 DEF UpsertMeta
  <2>5. c \in Call /\ ks \in KeyLists
    <3>1. c \in Call
      BY <2>1, NextOfTyped
    <3> QED BY <2>1, <2>4, <3>1, CallIs DEF Record
  <2>6. files' = files
    <3>1. \A v \in Workers : v = w
      BY DEF OneAtATime
    <3>2. ~ CallFiles(w)
      BY <2>1 DEF CallFiles, IsNext, FileCalls
    <3>3. \A v \in Workers : Proceed(v) => CallFiles(v) \/ files' = files
      BY DEF Proceed, ResolveKey, Resolved, PanelsAnswered, CallMetas, CallMark, CallScript, CallFails, store
    <3>4. \A v \in Workers : \A x \in NamesOf[v] : OnName(v, x) => files' = files
      BY DEF OnName, Create, CreateLegacy, Regenerate, RenameSubscription, AddRefs, RemoveKey,
             ReplaceKeys, Delete, store
    <3>5. ASSUME NEW v \in Workers, StartRegenerateAll(v) \/ SyncRun(v) \/ \E r \in Refs : DeleteSource(v, r)
          PROVE  files' = files
      BY <3>5 DEF StartRegenerateAll, SyncRun, DeleteSource, store
    <3> QED BY <3>1, <3>2, <3>3, <3>4, <3>5 DEF Next, Restart, CreateSource, vars, store
  <2>7. metas' = [x \in DOMAIN metas \cup {n} |-> IF x = n THEN c.rec ELSE metas[x]]
    BY <2>1 DEF MetasAfter, Put
  <2>8. n \in DOMAIN metas' /\ metas'[n].status = StatusFor(ks) /\ metas'[n].keys = ks
    BY <2>4, <2>7
  <2>9. IF ks = <<>> THEN n \notin DOMAIN files' ELSE n \in DOMAIN files' /\ files'[n] = FileLines(ks)
    BY <2>3, <2>4, <2>6 DEF FileHolds
  <2>10. StatusAgrees(n)'
    BY <2>8, <2>9 DEF StatusAgrees, StatusFor
  <2>11. Listing'[n].keys = IF ks = <<>> THEN ks ELSE PairWithLines(ks, FileLines(ks))
    BY <2>8, <2>9 DEF Listing, ListSubscriptions
  <2>12. \A k \in DOMAIN Listing'[n].keys :
            Listing'[n].keys[k].ref # NoRef => Listing'[n].keys[k].link = LinkFor(Listing'[n].keys[k].ref)
    <3>1. CASE ks = <<>>
      BY <2>11, <3>1
    <3>2. CASE ks # <<>>
      <4>1. PICK x : x = PairWithLines(ks, FileLines(ks))
        OBVIOUS
      <4>2. \A k \in DOMAIN x : x[k].ref # NoRef => x[k].link = LinkFor(x[k].ref)
        BY <2>2, <2>5, <3>2, <4>1, OwnPaired
      <4> QED BY <2>11, <3>2, <4>1, <4>2
    <3> QED BY <3>1, <3>2
  <2>13. PairingAgrees(n)'
    BY <2>12 DEF PairingAgrees
  <2> QED BY <2>10, <2>13
<1> QED BY <1>1, TypesInvariant, RegenerateInvariant, PTL DEF Spec, RegenerateRepairs

=============================================================================
