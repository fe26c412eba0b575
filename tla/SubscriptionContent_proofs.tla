--------------------- MODULE SubscriptionContent_proofs ---------------------
(***************************************************************************)
(* What the two stores of Subscriptions say of each other: the lines of a  *)
(* file are the links of the keys in the record, and no key refers to a    *)
(* KeySource that is gone.  Lists that a client sends are arbitrary here,  *)
(* so that nothing is claimed of a name in "own": one whose keys came from *)
(* a client, until every key of it was resolved again.                     *)
(*                                                                         *)
(* The proof of ContentInv follows the calls that a request has still to   *)
(* make.  Yields(t, n, lines, keys) says what a list t of calls leaves of  *)
(* the name n.  Each handler makes a list that yields lines and keys that  *)
(* fit each other and the KeySources; lists are put together name by name; *)
(* and a call that is made leaves what the remaining ones yield as it was. *)
(***************************************************************************)
EXTENDS SubscriptionKeys_proofs

-----------------------------------------------------------------------------
(* What a listing says of keys and lines that match.                         *)

LEMMA LinesIs ==
    ASSUME NEW lines \in Lines
    PROVE  /\ Len(lines) \in Nat /\ DOMAIN lines = 1..Len(lines)
           /\ \A i \in DOMAIN lines : lines[i] \in Refs \cup LegacyLinks \cup {Empty}
<1>1. PICK L : L = Refs \cup LegacyLinks \cup {Empty} /\ lines \in Seq(L)
  BY DEF Lines
<1>2. Len(lines) \in Nat /\ DOMAIN lines = 1..Len(lines) /\ \A i \in DOMAIN lines : lines[i] \in L
  BY <1>1, LenProperties, ElementOfSeq
<1> QED BY <1>1, <1>2

LEMMA EmptyLines == <<>> \in Lines /\ DOMAIN <<>> = {}
BY EmptySeq DEF Lines

\* The keys of a file that is filled: line i gives its link to key i.
LEMMA PairFilled ==
    ASSUME NEW keys \in KeyLists, NEW lines \in Lines, \A i \in DOMAIN lines : lines[i] # Empty
    PROVE  LET pair == PairWithLines(keys, lines) IN
           /\ DOMAIN lines \subseteq DOMAIN pair
           /\ \A k \in DOMAIN pair : IF k \in DOMAIN lines THEN pair[k] = PairedKey(keys, lines, k)
                                     ELSE k \in DOMAIN keys /\ pair[k] = keys[k]
           /\ DOMAIN keys \subseteq DOMAIN pair
<1> DEFINE n == Len(lines)
           c == Len(keys)
           S == Key \cup {PairedKey(keys, lines, i) : i \in DOMAIN lines}
           paired == [i \in DOMAIN lines |-> PairedKey(keys, lines, i)]
           rest == SubSeq(keys, n + 1, c)
           pair == PairWithLines(keys, lines)
<1>1. /\ n \in Nat /\ DOMAIN lines = 1..n
      /\ c \in Nat /\ DOMAIN keys = 1..c /\ \A i \in DOMAIN keys : keys[i] \in Key
  BY LinesIs, KeyListIs
<1>2. pair = SelectAt(paired, {i \in DOMAIN lines : lines[i] # Empty}) \o rest
  BY DEF PairWithLines, PairedKey
<1>3. {i \in DOMAIN lines : lines[i] # Empty} = DOMAIN paired
  OBVIOUS
<1>4. paired \in Seq(S) /\ Len(paired) = n
  <2>1. paired \in [1..n -> S]
    BY <1>1
  <2> HIDE DEF paired, S
  <2> QED BY <1>1, <2>1, FunctionIsSeq
<1>5. pair = paired \o rest
  <2> HIDE DEF paired, S
  <2> QED BY <1>2, <1>3, <1>4, SelectAll
<1>6. /\ rest \in Seq(S) /\ Len(rest) = (IF n + 1 <= c THEN c - n ELSE 0)
      /\ \A k \in 1..(c - n) : rest[k] = keys[n + k]
  <2>1. \A j \in (n + 1)..c : keys[j] \in S
    BY <1>1
  <2> HIDE DEF S
  <2>2. n + 1 \in Int /\ c \in Int
    BY <1>1
  <2>3. /\ rest \in Seq(S)
        /\ Len(rest) = IF n + 1 <= c THEN c - (n + 1) + 1 ELSE 0
        /\ \A k \in 1..(c - (n + 1) + 1) : rest[k] = keys[n + 1 + k - 1]
    BY <2>1, <2>2, SubSeqProperties
  <2>4. Len(rest) = (IF n + 1 <= c THEN c - n ELSE 0)
    BY <1>1, <2>3
  <2>5. ASSUME NEW k \in 1..(c - n) PROVE rest[k] = keys[n + k]
    <3> HIDE DEF n, c, rest
    <3>1. k \in 1..(c - (n + 1) + 1) /\ n + 1 + k - 1 = n + k
      BY <1>1
    <3> QED BY <2>3, <3>1
  <2> QED BY <2>3, <2>4, <2>5
<1>7. \A k \in DOMAIN lines : paired[k] = PairedKey(keys, lines, k)
  OBVIOUS
<1> HIDE DEF paired, rest, S, n, c, pair
<1>8. /\ pair \in Seq(S) /\ Len(pair) = n + Len(rest)
      /\ \A k \in 1..(n + Len(rest)) : pair[k] = IF k <= n THEN paired[k] ELSE rest[k - n]
  BY <1>4, <1>5, <1>6, ConcatProperties
<1>9. DOMAIN pair = 1..(n + Len(rest))
  BY <1>8, LenProperties
<1>10. DOMAIN lines \subseteq DOMAIN pair /\ DOMAIN keys \subseteq DOMAIN pair
  <2>1. n \in Nat /\ c \in Nat /\ DOMAIN lines = 1..n /\ DOMAIN keys = 1..c
    BY <1>1
  <2>2. n + Len(rest) >= n /\ n + Len(rest) >= c
    BY <1>6, <2>1
  <2> QED BY <1>6, <1>9, <2>1, <2>2
<1>11. ASSUME NEW k \in DOMAIN pair
       PROVE  IF k \in DOMAIN lines THEN pair[k] = PairedKey(keys, lines, k)
              ELSE k \in DOMAIN keys /\ pair[k] = keys[k]
  <2>1. CASE k <= n
    <3>1. k \in DOMAIN lines
      BY <1>1, <1>6, <1>9, <2>1
    <3> QED BY <1>7, <1>8, <1>9, <2>1, <3>1
  <2>2. CASE ~ (k <= n)
    <3>1. k \in 1..(n + Len(rest)) /\ n \in Nat /\ c \in Nat
      BY <1>1, <1>9
    <3>2. k \notin DOMAIN lines /\ k - n \in 1..(c - n) /\ k \in DOMAIN keys /\ n + (k - n) = k
      BY <1>1, <1>6, <2>2, <3>1
    <3>3. pair[k] = rest[k - n]
      BY <1>8, <2>2, <3>1
    <3>4. rest[k - n] = keys[n + (k - n)]
      BY <1>6, <3>2
    <3> QED BY <3>2, <3>3, <3>4
  <2> QED BY <2>1, <2>2
<1> QED BY <1>10, <1>11 DEF pair

\* Without a file the keys are shown as they are stored.
LEMMA PairNothing ==
    ASSUME NEW keys \in KeyLists
    PROVE  PairWithLines(keys, <<>>) = keys
<1> DEFINE pair == PairWithLines(keys, <<>>)
<1>1. /\ DOMAIN pair = 1..Len(pair) /\ Len(pair) \in Nat
      /\ \A k \in DOMAIN pair : k \in DOMAIN keys /\ pair[k] = keys[k]
      /\ DOMAIN keys \subseteq DOMAIN pair
  BY EmptyLines, PairFilled, PairParts
<1>2. PICK S : pair \in Seq(S)
  <2>1. <<>> \in Seq(Key) /\ keys \in Seq(Key)
    BY EmptySeq, KeyListIs
  <2> QED BY <2>1, PairIs
<1>3. pair = [k \in DOMAIN pair |-> pair[k]]
  <2> HIDE DEF pair
  <2> QED BY <1>2, LenProperties
<1>4. keys = [k \in DOMAIN keys |-> keys[k]]
  BY KeyListIs, LenProperties
<1> QED BY <1>1, <1>3, <1>4

\* No key of a listing has a reference that the stored keys have not.
LEMMA RefsPaired ==
    ASSUME NEW keys \in KeyLists, NEW lines \in Lines
    PROVE  RefsOf(PairWithLines(keys, lines)) \subseteq RefsOf(keys)
<1>1. PICK pair : pair = PairWithLines(keys, lines)
  OBVIOUS
<1>2. \A k \in DOMAIN pair :
         \/ \E i \in DOMAIN lines : pair[k] = PairedKey(keys, lines, i)
         \/ \E j \in DOMAIN keys : pair[k] = keys[j]
  BY <1>1, PairParts
<1>3. \A i : PairedKey(keys, lines, i).ref = IF i \in DOMAIN keys THEN keys[i].ref ELSE NoRef
  BY KeyListIs DEF PairedKey, SubKey, Key
<1>4. RefsOf(pair) \subseteq RefsOf(keys)
  <2> SUFFICES ASSUME NEW k \in DOMAIN pair, pair[k].ref # NoRef
               PROVE  \E j \in DOMAIN keys : keys[j].ref = pair[k].ref
    BY DEF RefsOf
  <2> QED BY <1>2, <1>3
<1> QED BY <1>1, <1>4

LEMMA PairedIs ==
    ASSUME NEW keys \in KeyLists, NEW lines, NEW i
    PROVE  /\ PairedKey(keys, lines, i).link = lines[i]
           /\ PairedKey(keys, lines, i).ref = IF i \in DOMAIN keys THEN keys[i].ref ELSE NoRef
BY KeyListIs DEF PairedKey, SubKey, Key

\* The listing of matching keys: a link is the reference's own, and the keys
\* that were never generated come last.
LEMMA ListingInOrder ==
    ASSUME NEW keys \in KeyLists, NEW lines \in Lines, Matches(keys, lines)
    PROVE  InOrder(PairWithLines(keys, lines))
<1>1. PICK pair : pair = PairWithLines(keys, lines)
  OBVIOUS
<1>2. PICK m : PairedUpTo(keys, lines, m)
  BY PairParts
<1>3. /\ Len(pair) \in Nat /\ DOMAIN pair = 1..Len(pair) /\ m \in 0..Len(pair)
      /\ \A k \in 1..Len(pair) :
           IF k <= m THEN \E i \in DOMAIN lines : lines[i] # Empty /\ pair[k] = PairedKey(keys, lines, i)
                     ELSE \E j \in DOMAIN keys : j > Len(lines) /\ pair[k] = keys[j]
  BY <1>1, <1>2, PairParts DEF PairedUpTo
<1>4. ASSUME NEW k \in DOMAIN pair, k <= m
      PROVE  /\ pair[k].link # Empty
             /\ pair[k].ref # NoRef => pair[k].link = LinkFor(pair[k].ref)
  <2>1. PICK i \in DOMAIN lines : lines[i] # Empty /\ pair[k] = PairedKey(keys, lines, i)
    BY <1>3, <1>4
  <2>2. pair[k].link = lines[i] /\ pair[k].ref = IF i \in DOMAIN keys THEN keys[i].ref ELSE NoRef
    BY <2>1, PairedIs
  <2> QED BY <2>1, <2>2 DEF Matches, HasLine
<1>5. ASSUME NEW k \in DOMAIN pair, ~ (k <= m)
      PROVE  pair[k].link = Empty /\ pair[k].ref # NoRef
  <2>1. PICK j \in DOMAIN keys : j > Len(lines) /\ pair[k] = keys[j]
    BY <1>3, <1>5
  <2>2. ~ HasLine(lines, j)
    <3>1. DOMAIN lines = 1..Len(lines) /\ Len(lines) \in Nat /\ j \in Nat
      BY LinesIs, KeyListIs
    <3> QED BY <2>1, <3>1 DEF HasLine
  <2> QED BY <2>1, <2>2 DEF Matches, IsGenerated
<1>6. ASSUME NEW i \in DOMAIN pair, NEW j \in DOMAIN pair, i < j, pair[j].link # Empty
      PROVE  pair[i].link # Empty
  <2>1. j <= m
    BY <1>5, <1>6
  <2>2. i <= m
    BY <1>3, <1>6, <2>1
  <2> QED BY <1>4, <2>2
<1>7. InOrder(pair)
  BY <1>4, <1>5, <1>6 DEF InOrder, IsGenerated
<1> QED BY <1>1, <1>7

\* The keys of a listing match the lines they were paired with, and every line
\* that is filled has a key.
Covers(keys, lines) == \A i \in DOMAIN lines : lines[i] # Empty => i \in DOMAIN keys

LEMMA ListingMatches ==
    ASSUME NEW keys \in KeyLists, NEW lines \in Lines, Matches(keys, lines)
    PROVE  LET pair == PairWithLines(keys, lines) IN Matches(pair, lines) /\ Covers(pair, lines)
<1>1. PICK pair : pair = PairWithLines(keys, lines)
  OBVIOUS
<1>2. CASE lines = <<Empty>>
  <2>1. DOMAIN lines = {1} /\ lines[1] = Empty /\ Len(lines) = 1
    BY <1>2
  <2>2. ASSUME NEW k \in DOMAIN pair
        PROVE  pair[k].ref # NoRef /\ ~ IsGenerated(pair[k])
    <3>1. PICK j \in DOMAIN keys : j > Len(lines) /\ pair[k] = keys[j]
      BY <1>1, <2>1, PairParts
    <3>2. ~ HasLine(lines, j)
      BY <2>1, <3>1 DEF HasLine
    <3> QED BY <3>1, <3>2 DEF Matches
  <2>3. \A i : ~ HasLine(lines, i)
    BY <2>1 DEF HasLine
  <2>4. Matches(pair, lines) /\ Covers(pair, lines)
    BY <1>2, <2>1, <2>2, <2>3 DEF Matches, Covers
  <2> QED BY <1>1, <2>4
<1>3. CASE \A i \in DOMAIN lines : lines[i] # Empty
  <2>1. /\ DOMAIN lines \subseteq DOMAIN pair
        /\ \A k \in DOMAIN pair : IF k \in DOMAIN lines THEN pair[k] = PairedKey(keys, lines, k)
                                  ELSE k \in DOMAIN keys /\ pair[k] = keys[k]
    BY <1>1, <1>3, PairFilled
  <2>2. \A i : HasLine(lines, i) <=> i \in DOMAIN lines
    BY <1>3 DEF HasLine
  <2>3. ASSUME NEW k \in DOMAIN pair
        PROVE  IF HasLine(lines, k) THEN pair[k].ref # NoRef => lines[k] = LinkFor(pair[k].ref)
                                    ELSE pair[k].ref # NoRef /\ ~ IsGenerated(pair[k])
    <3>1. CASE HasLine(lines, k)
      <4>1. pair[k].ref = IF k \in DOMAIN keys THEN keys[k].ref ELSE NoRef
        BY <2>1, <2>2, <3>1, PairedIs
      <4> QED BY <3>1, <4>1 DEF Matches
    <3>2. CASE ~ HasLine(lines, k)
      BY <2>1, <2>2, <3>2 DEF Matches
    <3> QED BY <3>1, <3>2
  <2>4. Matches(pair, lines) /\ Covers(pair, lines)
    BY <1>3, <2>1, <2>3 DEF Matches, Covers
  <2> QED BY <1>1, <2>4
<1> QED BY <1>2, <1>3 DEF Matches

\* Keys that match and refer to what lives fit.
LEMMA FitsIf ==
    ASSUME NEW keys \in KeyLists, NEW lines \in Lines, Matches(keys, lines),
           NEW live, RefsOf(keys) \subseteq live
    PROVE  Fits(keys, lines, live)
BY RefsPaired DEF Fits

\* A key that was added after the last one matches.
LEMMA WithRefMatches ==
    ASSUME NEW keys \in KeyLists, NEW lines \in Lines, Matches(keys, lines), Covers(keys, lines),
           NEW r \in Refs, NEW new, new = WithRef(keys, r)
    PROVE  /\ Matches(new, lines) /\ Covers(new, lines)
           /\ RefsOf(new) \subseteq RefsOf(keys) \cup {r}
<1>1. CASE r \in RefsOf(keys)
  BY <1>1 DEF WithRef
<1>2. CASE r \notin RefsOf(keys)
  <2> DEFINE key == SubKey(NewId(keys), Empty, r)
             c == Len(keys)
  <2>1. new = Append(keys, key) /\ key.ref = r /\ ~ IsGenerated(key)
    BY <1>2 DEF WithRef, SubKey, IsGenerated
  <2> HIDE DEF key
  <2>2. PICK S : keys \in Seq(S) /\ key \in S
    <3>1. keys \in Seq(Key \cup {key})
      BY KeyListIs, SeqMonotonic
    <3> QED BY <3>1
  <2>3. /\ c \in Nat /\ DOMAIN keys = 1..c
        /\ new \in Seq(S) /\ Len(new) = c + 1 /\ new[c + 1] = key
        /\ \A i \in 1..c : new[i] = keys[i]
    BY <2>1, <2>2, AppendProperties, LenProperties
  <2> HIDE DEF c
  <2>4. DOMAIN new = DOMAIN keys \cup {c + 1} /\ \A i \in DOMAIN keys : new[i] = keys[i]
    BY <2>3, LenProperties
  <2>5. ~ HasLine(lines, c + 1)
    <3>1. c + 1 \notin DOMAIN keys
      BY <2>3
    <3> QED BY <3>1 DEF HasLine, Covers
  <2>6. r # NoRef
    BY RefAssumption
  <2>7. new[c + 1] = key /\ \A i \in DOMAIN new : i = c + 1 \/ (i \in DOMAIN keys /\ new[i] = keys[i])
    BY <2>3, <2>4
  <2>8. Matches(new, lines)
    <3>1. ASSUME NEW i \in DOMAIN new
          PROVE  IF HasLine(lines, i) THEN new[i].ref # NoRef => lines[i] = LinkFor(new[i].ref)
                                      ELSE new[i].ref # NoRef /\ ~ IsGenerated(new[i])
      BY <2>1, <2>5, <2>6, <2>7 DEF Matches
    <3> QED BY <3>1 DEF Matches
  <2>9. Covers(new, lines)
    BY <2>4 DEF Covers
  <2>10. RefsOf(new) \subseteq RefsOf(keys) \cup {r}
    BY <2>1, <2>7 DEF RefsOf
  <2> QED BY <2>8, <2>9, <2>10
<1> QED BY <1>1, <1>2

\* What is published of keys in order.
Published(keys) == IF keys = <<>> THEN <<>> ELSE FileLines(keys)

LEMMA PublishedFits ==
    ASSUME NEW keys \in KeyLists, InOrder(keys), NEW live, RefsOf(keys) \subseteq live
    PROVE  Published(keys) \in Lines /\ Fits(keys, Published(keys), live)
<1>1. /\ DOMAIN keys = 1..Len(keys) /\ Len(keys) \in Nat
      /\ \A i \in DOMAIN keys : /\ keys[i].ref = NoRef => IsGenerated(keys[i])
                                /\ keys[i].ref # NoRef /\ IsGenerated(keys[i]) => keys[i].link = LinkFor(keys[i].ref)
      /\ \A i, j \in DOMAIN keys : i < j /\ IsGenerated(keys[j]) => IsGenerated(keys[i])
  BY KeyListIs DEF InOrder
<1>2. CASE keys = <<>>
  <2>1. Matches(<<>>, <<>>) /\ RefsOf(<<>>) = {}
    BY EmptyLines DEF Matches, RefsOf
  <2> QED BY <1>2, <2>1, EmptyLines, FitsIf DEF Published
<1>3. CASE keys # <<>>
  <2>1. PICK lines : lines = FileLines(keys)
    OBVIOUS
  <2>2. lines \in Lines /\ Published(keys) = lines
    BY <1>3, <2>1, FileLinesType DEF Published
  <2>3. CASE \A i \in DOMAIN keys : ~ IsGenerated(keys[i])
    <3>1. lines = <<Empty>>
      BY <2>1, <2>3, FileLinesIs, KeyListIs
    <3>2. \A i : ~ HasLine(lines, i)
      <4>1. DOMAIN lines = {1} /\ lines[1] = Empty
        BY <3>1
      <4> QED BY <4>1 DEF HasLine
    <3>3. Matches(keys, lines)
      BY <1>1, <2>3, <3>1, <3>2 DEF Matches
    <3> QED BY <2>2, <3>3, FitsIf
  <2>4. CASE \E i \in DOMAIN keys : IsGenerated(keys[i])
    <3>1. PICK last \in DOMAIN keys :
             /\ IsGenerated(keys[last])
             /\ \A i \in DOMAIN keys : IsGenerated(keys[i]) => i <= last
             /\ lines = [i \in 1..last |-> keys[i].link]
      BY <2>1, <2>4, FileLinesIs, KeyListIs
    <3>2. DOMAIN lines = 1..last /\ last \in Nat
      BY <1>1, <3>1
    <3>3. ASSUME NEW i \in DOMAIN keys
          PROVE  IF i <= last THEN i \in DOMAIN lines /\ lines[i] = keys[i].link /\ IsGenerated(keys[i])
                 ELSE i \notin DOMAIN lines /\ ~ IsGenerated(keys[i])
      <4>1. i \in Nat /\ i >= 1
        BY <1>1
      <4>2. CASE i <= last
        <5>1. i \in DOMAIN lines /\ lines[i] = keys[i].link
          BY <3>1, <3>2, <4>1, <4>2
        <5>2. i = last \/ i < last
          BY <3>2, <4>1, <4>2
        <5> QED BY <1>1, <3>1, <4>2, <5>1, <5>2
      <4>3. CASE ~ (i <= last)
        BY <3>1, <3>2, <4>1, <4>3
      <4> QED BY <4>2, <4>3
    <3>4. \A i \in DOMAIN lines : i \in DOMAIN keys /\ i <= last
      BY <1>1, <3>1, <3>2
    <3>5. \A i \in DOMAIN lines : lines[i] # Empty
      BY <3>3, <3>4 DEF IsGenerated
    <3>6. \A i \in DOMAIN keys : IF HasLine(lines, i) THEN keys[i].ref # NoRef => lines[i] = LinkFor(keys[i].ref)
                                 ELSE keys[i].ref # NoRef /\ ~ IsGenerated(keys[i])
      BY <1>1, <3>3, <3>5 DEF HasLine
    <3>7. Matches(keys, lines)
      BY <3>5, <3>6 DEF Matches
    <3> QED BY <2>2, <3>7, FitsIf
  <2> QED BY <2>3, <2>4
<1> QED BY <1>2, <1>3

LEMMA SelectedFrom ==
    ASSUME NEW keys \in KeyLists, NEW at \in SUBSET (DOMAIN keys), NEW x, x = SelectAt(keys, at)
    PROVE  \A k \in DOMAIN x : \E i \in at : x[k] = keys[i]
<1>1. keys \in Seq(Key) /\ DOMAIN x = 1..Cardinality(at)
  BY KeyListIs DEF SelectAt
<1>2. PICK h : PlacesOf(h, keys, at)
  BY <1>1, SelectAtIs
<1> QED BY <1>1, <1>2 DEF PlacesOf

\* A selection of keys in order is in order.
LEMMA SelectedInOrder ==
    ASSUME NEW keys \in KeyLists, InOrder(keys), NEW at \in SUBSET (DOMAIN keys)
    PROVE  /\ InOrder(SelectAt(keys, at)) /\ SelectAt(keys, at) \in KeyLists
           /\ \A k \in DOMAIN SelectAt(keys, at) : \E i \in at : SelectAt(keys, at)[k] = keys[i]
           /\ RefsOf(SelectAt(keys, at)) \subseteq {keys[i].ref : i \in at} \ {NoRef}
<1>1. PICK x, c : x = SelectAt(keys, at) /\ c = Cardinality(at)
  OBVIOUS
<1>2. PICK h : /\ h \in [1..c -> at] /\ DOMAIN x = 1..c
               /\ \A k \in 1..c : x[k] = keys[h[k]]
               /\ \A j, k \in 1..c : j < k => h[j] < h[k]
  <2>1. keys \in Seq(Key)
    BY KeyListIs
  <2>2. DOMAIN x = 1..c
    BY <1>1 DEF SelectAt
  <2>3. PICK h : PlacesOf(h, keys, at)
    BY <2>1, SelectAtIs
  <2> QED BY <1>1, <2>2, <2>3 DEF PlacesOf
<1>3. \A k \in DOMAIN x : h[k] \in at /\ h[k] \in DOMAIN keys /\ x[k] = keys[h[k]]
  BY <1>2
<1>4. InOrder(x)
  BY <1>2, <1>3 DEF InOrder
<1>5. RefsOf(x) \subseteq {keys[i].ref : i \in at} \ {NoRef}
  BY <1>3 DEF RefsOf
<1> QED BY <1>1, <1>3, <1>4, <1>5, SelectedTyped

\* Keys that were all resolved are in order.
LEMMA ResolvedInOrder ==
    ASSUME NEW keys, OwnLinks(keys), AllGenerated(keys)
    PROVE  InOrder(keys)
BY DEF InOrder, OwnLinks, AllGenerated

LEMMA RelinkOwns ==
    ASSUME NEW key \in Key
    PROVE  LET new == Relink(key) IN
           /\ new.ref = key.ref
           /\ (key.ref = NoRef => IsGenerated(key)) => IsGenerated(new)
           /\ new.ref # NoRef => new.link = LinkFor(new.ref)
<1>1. CASE key.ref = NoRef
  BY <1>1 DEF Relink
<1>2. CASE key.ref # NoRef
  <2>1. key.ref \in Refs /\ key.ref # Empty
    BY <1>2, LinkAssumption DEF Key
  <2>2. Relink(key).link = key.ref /\ Relink(key).ref = key.ref
    BY <1>2 DEF Relink, LinkFor, Key
  <2> QED BY <2>1, <2>2 DEF IsGenerated, LinkFor
<1> QED BY <1>1, <1>2

\* What RegenerateAll makes of keys: all are generated if the ones without
\* reference were.
LEMMA RefreshedOwns ==
    ASSUME NEW keys \in KeyLists, NEW known \in SUBSET Live, NEW answered \in SUBSET Live,
           NEW new, new = Refreshed(keys, known, answered)
    PROVE  /\ OwnLinks(new) /\ RefsOf(new) \subseteq Live
           /\ InOrder(keys) => AllGenerated(new)
<1> DEFINE at == {i \in DOMAIN keys : keys[i].ref \in {NoRef} \cup (known \ PanelRefs) \cup answered}
<1>1. PICK kept : kept = SelectAt(keys, at)
  OBVIOUS
<1>2. at \in SUBSET (DOMAIN keys) /\ \A i \in at : keys[i].ref \in {NoRef} \cup Live
  OBVIOUS
<1>3. new = [i \in DOMAIN kept |-> Relink(kept[i])]
  BY <1>1 DEF Refreshed
<1> HIDE DEF at
<1>4. kept \in KeyLists /\ \A k \in DOMAIN kept : \E i \in at : kept[k] = keys[i]
  BY <1>1, <1>2, SelectedTyped, SelectedFrom
<1>5. ASSUME NEW k \in DOMAIN new
      PROVE  /\ new[k].ref \in {NoRef} \cup Live
             /\ new[k].ref # NoRef => new[k].link = LinkFor(new[k].ref)
             /\ InOrder(keys) => IsGenerated(new[k])
  <2>1. k \in DOMAIN kept /\ new[k] = Relink(kept[k])
    BY <1>3
  <2>2. kept[k] \in Key
    BY <1>4, <2>1, KeyListIs
  <2>3. kept[k].ref \in {NoRef} \cup Live
    BY <1>2, <1>4, <2>1
  <2>4. InOrder(keys) => (kept[k].ref = NoRef => IsGenerated(kept[k]))
    BY <1>2, <1>4, <2>1 DEF InOrder
  <2> QED BY <2>1, <2>2, <2>3, <2>4, RelinkOwns
<1> QED BY <1>5 DEF OwnLinks, RefsOf, AllGenerated

-----------------------------------------------------------------------------
(* LinksMatchRefs and NoDanglingRefs, requests apart.  What a list of calls  *)
(* leaves of one name: the call that touches its file gives the lines, the   *)
(* one that touches its record the keys.                                     *)

Yields(t, n, lines, keys) ==
    /\ \A i \in DOMAIN t : TouchesFile(t[i], n) => LinesIn(FilesAfter(t[i], files), n) = lines
    /\ (\A i \in DOMAIN t : ~ TouchesFile(t[i], n)) => LinesIn(files, n) = lines
    /\ \A i \in DOMAIN t : TouchesMeta(t[i], n) => KeysIn(MetasAfter(t[i], metas), n) = keys
    /\ (\A i \in DOMAIN t : ~ TouchesMeta(t[i], n)) => KeysIn(metas, n) = keys

FitsAfter(t, n) == Fits(KeysAfter(t, n), LinesAfter(t, n), LiveAfter(t))
StoreFits(n) == Fits(KeysIn(metas, n), LinesIn(files, n), Live)

\* The sources that t removes.
DropsOnly(t, refs) == \A i \in DOMAIN t : t[i].call = "DeleteKeySource" => t[i].ref \in refs

LEMMA YieldsAfter ==
    ASSUME NEW t, NEW n, NEW lines, NEW keys, Yields(t, n, lines, keys)
    PROVE  LinesAfter(t, n) = lines /\ KeysAfter(t, n) = keys
<1>1. LinesAfter(t, n) = lines
  <2>1. CASE FileSteps(t, n) = {}
    BY <2>1 DEF LinesAfter, Yields, FileSteps
  <2>2. CASE FileSteps(t, n) # {}
    <3>1. PICK i \in FileSteps(t, n) : i = CHOOSE x \in FileSteps(t, n) : TRUE
      BY <2>2
    <3> QED BY <2>2, <3>1 DEF LinesAfter, Yields, FileSteps
  <2> QED BY <2>1, <2>2
<1>2. KeysAfter(t, n) = keys
  <2>1. CASE MetaSteps(t, n) = {}
    BY <2>1 DEF KeysAfter, Yields, MetaSteps
  <2>2. CASE MetaSteps(t, n) # {}
    <3>1. PICK i \in MetaSteps(t, n) : i = CHOOSE x \in MetaSteps(t, n) : TRUE
      BY <2>2
    <3> QED BY <2>2, <3>1 DEF KeysAfter, Yields, MetaSteps
  <2> QED BY <2>1, <2>2
<1> QED BY <1>1, <1>2

\* With at most one call for each, what it leaves is what the list leaves.
LEMMA AfterYields ==
    ASSUME NEW t, NEW n, Settles(t, n)
    PROVE  Yields(t, n, LinesAfter(t, n), KeysAfter(t, n))
<1>1. (\A i, j \in FileSteps(t, n) : i = j) /\ \A i, j \in MetaSteps(t, n) : i = j
  BY DEF Settles
<1>2. ASSUME NEW i \in FileSteps(t, n)
      PROVE  LinesAfter(t, n) = LinesIn(FilesAfter(t[i], files), n)
  <2>1. (CHOOSE x \in FileSteps(t, n) : TRUE) = i
    BY <1>1
  <2> QED BY <2>1 DEF LinesAfter
<1>3. ASSUME NEW i \in MetaSteps(t, n)
      PROVE  KeysAfter(t, n) = KeysIn(MetasAfter(t[i], metas), n)
  <2>1. (CHOOSE x \in MetaSteps(t, n) : TRUE) = i
    BY <1>1
  <2> QED BY <2>1 DEF KeysAfter
<1>4. FileSteps(t, n) = {} => LinesAfter(t, n) = LinesIn(files, n)
  BY DEF LinesAfter
<1>5. MetaSteps(t, n) = {} => KeysAfter(t, n) = KeysIn(metas, n)
  BY DEF KeysAfter
<1> QED BY <1>2, <1>3, <1>4, <1>5 DEF Yields, FileSteps, MetaSteps

LEMMA MoreLive ==
    ASSUME NEW keys, NEW lines, NEW live, NEW more, Fits(keys, lines, live), live \subseteq more
    PROVE  Fits(keys, lines, more)
BY DEF Fits

LEMMA DropsLive ==
    ASSUME NEW t, NEW refs, DropsOnly(t, refs)
    PROVE  Live \ refs \subseteq LiveAfter(t)
BY DEF DropsOnly, LiveAfter

LEMMA YieldsFits ==
    ASSUME NEW t, NEW n, NEW lines, NEW keys, Yields(t, n, lines, keys), NEW refs, DropsOnly(t, refs),
           Fits(keys, lines, Live \ refs)
    PROVE  FitsAfter(t, n)
BY YieldsAfter, DropsLive, MoreLive DEF FitsAfter

LEMMA AvoidingYields ==
    ASSUME NEW t, NEW n, Avoids(t, n)
    PROVE  Yields(t, n, LinesIn(files, n), KeysIn(metas, n))
BY DEF Avoids, Yields

LEMMA NothingYields ==
    ASSUME NEW n
    PROVE  /\ Avoids(<<>>, n) /\ DropsOnly(<<>>, {})
           /\ FitsAfter(<<>>, n) <=> StoreFits(n)
<1>1. DOMAIN <<>> = {} /\ Avoids(<<>>, n) /\ DropsOnly(<<>>, {})
  BY EmptyLines DEF Avoids, DropsOnly
<1>2. LinesAfter(<<>>, n) = LinesIn(files, n) /\ KeysAfter(<<>>, n) = KeysIn(metas, n)
  BY <1>1, AvoidingYields, YieldsAfter
<1>3. LiveAfter(<<>>) = Live
  BY <1>1 DEF LiveAfter
<1> QED BY <1>1, <1>2, <1>3 DEF FitsAfter, StoreFits

\* v has the elements of s and of t.
Mixes(v, s, t) ==
    /\ \A i \in DOMAIN s : \E j \in DOMAIN v : v[j] = s[i]
    /\ \A i \in DOMAIN t : \E j \in DOMAIN v : v[j] = t[i]
    /\ \A j \in DOMAIN v : (\E i \in DOMAIN s : v[j] = s[i]) \/ \E i \in DOMAIN t : v[j] = t[i]

LEMMA ConcatMixes ==
    ASSUME NEW C, NEW s \in Seq(C), NEW t \in Seq(C)
    PROVE  Mixes(s \o t, s, t)
<1>1. /\ \A i \in DOMAIN s : i \in DOMAIN (s \o t) /\ (s \o t)[i] = s[i]
      /\ \A j \in DOMAIN t : Len(s) + j \in DOMAIN (s \o t) /\ (s \o t)[Len(s) + j] = t[j]
      /\ \A i \in DOMAIN (s \o t) : i \in DOMAIN s \/ \E j \in DOMAIN t : i = Len(s) + j
  BY ConcatFacts
<1>2. PICK v, k : v = s \o t /\ k = Len(s)
  OBVIOUS
<1>3. /\ \A i \in DOMAIN s : i \in DOMAIN v /\ v[i] = s[i]
      /\ \A j \in DOMAIN t : k + j \in DOMAIN v /\ v[k + j] = t[j]
      /\ \A i \in DOMAIN v : i \in DOMAIN s \/ \E j \in DOMAIN t : i = k + j
  BY <1>1, <1>2
<1>4. Mixes(v, s, t)
  BY <1>3 DEF Mixes
<1> QED BY <1>2, <1>4

\* Calls that avoid n, before or after, do not matter.
LEMMA YieldsAround ==
    ASSUME NEW C, NEW s \in Seq(C), NEW t \in Seq(C), NEW n, Avoids(s, n),
           NEW lines, NEW keys, Yields(t, n, lines, keys)
    PROVE  Yields(s \o t, n, lines, keys) /\ Yields(t \o s, n, lines, keys)
<1> SUFFICES ASSUME NEW v, v = s \o t \/ v = t \o s
             PROVE  Yields(v, n, lines, keys)
  OBVIOUS
<1>1. /\ \A i \in DOMAIN t : \E j \in DOMAIN v : v[j] = t[i]
      /\ \A j \in DOMAIN v : \/ \E i \in DOMAIN s : v[j] = s[i]
                             \/ \E i \in DOMAIN t : v[j] = t[i]
  <2>1. CASE v = s \o t
    <3>1. Mixes(v, s, t)
      BY <2>1, ConcatMixes
    <3> QED BY <3>1 DEF Mixes
  <2>2. CASE v = t \o s
    <3>1. Mixes(v, t, s)
      BY <2>2, ConcatMixes
    <3> QED BY <3>1 DEF Mixes
  <2> QED BY <2>1, <2>2
<1>2. \A j \in DOMAIN v : TouchesFile(v[j], n) \/ TouchesMeta(v[j], n) => \E i \in DOMAIN t : v[j] = t[i]
  BY <1>1 DEF Avoids
<1> QED BY <1>1, <1>2 DEF Yields

LEMMA DropsAround ==
    ASSUME NEW C, NEW s \in Seq(C), NEW t \in Seq(C), NEW refs, DropsOnly(s, refs), DropsOnly(t, refs)
    PROVE  DropsOnly(s \o t, refs)
<1>1. PICK v : v = s \o t
  OBVIOUS
<1>2. Mixes(v, s, t)
  BY <1>1, ConcatMixes
<1>3. DropsOnly(v, refs)
  BY <1>2 DEF DropsOnly, Mixes
<1> QED BY <1>1, <1>3

\* What each call leaves of the name it is about.
LEMMA CallLeaves ==
    ASSUME NEW n, NEW keys, NEW st, NEW fs, NEW ms
    PROVE  /\ LinesIn(FilesAfter(PutFile(n, keys), fs), n) = Published(keys)
           /\ LinesIn(FilesAfter(RemoveFile(n), fs), n) = <<>>
           /\ KeysIn(MetasAfter(UpsertMeta(n, st, keys), ms), n) = keys
           /\ KeysIn(MetasAfter(ForgetMeta(n), ms), n) = <<>>
<1>1. LinesIn(FilesAfter(RemoveFile(n), fs), n) = <<>>
  BY DEF LinesIn, FilesAfter, RemoveFile, Drop
<1>2. LinesIn(FilesAfter(WriteFile(n, keys), fs), n) = FileLines(keys)
  BY DEF LinesIn, FilesAfter, WriteFile, Put
<1>3. KeysIn(MetasAfter(UpsertMeta(n, st, keys), ms), n) = keys
  BY DEF KeysIn, MetasAfter, UpsertMeta, Put
<1>4. KeysIn(MetasAfter(ForgetMeta(n), ms), n) = <<>>
  BY DEF KeysIn, MetasAfter, ForgetMeta, Drop
<1> QED BY <1>1, <1>2, <1>3, <1>4 DEF PutFile, Published

\* A file call and a record call about n, with or without the flag between.
LEMMA PairYields ==
    ASSUME NEW n, NEW c, NEW d, NEW t, t \in {<<c, Mark, d>>, <<c, d>>},
           c.call \in FileCalls, d.call \in {"UpsertSubMeta", "DeleteSubMeta"},
           TouchesFile(c, n) /\ ~ TouchesMeta(c, n), TouchesMeta(d, n) /\ ~ TouchesFile(d, n),
           NEW lines, LinesIn(FilesAfter(c, files), n) = lines,
           NEW keys, KeysIn(MetasAfter(d, metas), n) = keys
    PROVE  Yields(t, n, lines, keys) /\ DropsOnly(t, {})
<1>1. /\ \A i \in DOMAIN t : t[i] \in {c, Mark, d}
      /\ \E i \in DOMAIN t : t[i] = c
      /\ \E i \in DOMAIN t : t[i] = d
  <2>1. CASE t = <<c, Mark, d>>
    <3>1. DOMAIN t = 1..3 /\ t[1] = c /\ t[2] = Mark /\ t[3] = d
      BY <2>1
    <3> QED BY <3>1
  <2>2. CASE t = <<c, d>>
    <3>1. DOMAIN t = 1..2 /\ t[1] = c /\ t[2] = d
      BY <2>2
    <3> QED BY <3>1
  <2> QED BY <2>1, <2>2
<1>2. ~ TouchesFile(Mark, n) /\ ~ TouchesMeta(Mark, n) /\ Mark.call = "Mark"
  BY DEF TouchesFile, TouchesMeta, Mark
<1>3. Yields(t, n, lines, keys)
  BY <1>1, <1>2 DEF Yields
<1>4. DropsOnly(t, {})
  BY <1>1, <1>2 DEF DropsOnly, FileCalls
<1> QED BY <1>3, <1>4

LEMMA PublishYields ==
    ASSUME NEW n, NEW keys, NEW t,
           t \in {Publish(n, keys), <<PutFile(n, keys), UpsertMeta(n, StatusFor(keys), keys)>>}
    PROVE  Yields(t, n, Published(keys), keys) /\ DropsOnly(t, {})
<1> DEFINE c == PutFile(n, keys)
           d == UpsertMeta(n, StatusFor(keys), keys)
<1>1. c.call \in FileCalls /\ d.call = "UpsertSubMeta"
  BY DEF PutFile, RemoveFile, WriteFile, UpsertMeta, FileCalls
<1>2. TouchesFile(c, n) /\ ~ TouchesMeta(c, n) /\ TouchesMeta(d, n) /\ ~ TouchesFile(d, n)
  <2>1. \A x : (TouchesFile(c, x) <=> x = n) /\ ~ TouchesMeta(c, x)
    BY Touching
  <2>2. TouchesMeta(d, n) /\ ~ TouchesFile(d, n)
    BY DEF TouchesMeta, TouchesFile, UpsertMeta
  <2> QED BY <2>1, <2>2
<1>3. LinesIn(FilesAfter(c, files), n) = Published(keys) /\ KeysIn(MetasAfter(d, metas), n) = keys
  BY CallLeaves
<1>4. t \in {<<c, Mark, d>>, <<c, d>>}
  BY DEF Publish
<1> HIDE DEF c, d
<1> QED BY <1>1, <1>2, <1>3, <1>4, PairYields

-----------------------------------------------------------------------------
(* What is stored, and what a listing shows of it. *)

LEMMA StoredTyped ==
    ASSUME TypeInv, NEW n
    PROVE  /\ KeysIn(metas, n) \in KeyLists /\ LinesIn(files, n) \in Lines
           /\ n \in DOMAIN Listing => Listing[n].keys = PairWithLines(KeysIn(metas, n), LinesIn(files, n))
           /\ n \notin DOMAIN Listing => KeysIn(metas, n) = <<>> /\ LinesIn(files, n) = <<>>
<1>1. KeysIn(metas, n) \in KeyLists
  <2>1. CASE n \in DOMAIN metas
    BY <2>1 DEF TypeInv, IsBook, Record, KeysIn
  <2>2. CASE n \notin DOMAIN metas
    BY <2>2, EmptyKeyList DEF KeysIn
  <2> QED BY <2>1, <2>2
<1>2. LinesIn(files, n) \in Lines
  <2>1. CASE n \in DOMAIN files
    BY <2>1 DEF TypeInv, LinesIn
  <2>2. CASE n \notin DOMAIN files
    BY <2>2, EmptyLines DEF LinesIn
  <2> QED BY <2>1, <2>2
<1>3. n \in DOMAIN Listing <=> n \in DOMAIN files \/ n \in DOMAIN metas
  BY DEF Listing, ListSubscriptions
<1>4. ASSUME n \in DOMAIN Listing
      PROVE  Listing[n].keys = PairWithLines(KeysIn(metas, n), LinesIn(files, n))
  <2>1. Listing[n].keys = IF n \notin DOMAIN files THEN metas[n].keys
                          ELSE PairWithLines(IF n \in DOMAIN metas THEN metas[n].keys ELSE <<>>, files[n])
    BY <1>4 DEF Listing, ListSubscriptions
  <2>2. CASE n \in DOMAIN files
    BY <2>1, <2>2 DEF KeysIn, LinesIn
  <2>3. CASE n \notin DOMAIN files
    <3>1. LinesIn(files, n) = <<>> /\ KeysIn(metas, n) = metas[n].keys
      BY <1>3, <1>4, <2>3 DEF KeysIn, LinesIn
    <3> QED BY <1>1, <2>1, <2>3, <3>1, PairNothing
  <2> QED BY <2>2, <2>3
<1>5. n \notin DOMAIN Listing => KeysIn(metas, n) = <<>> /\ LinesIn(files, n) = <<>>
  BY <1>3 DEF KeysIn, LinesIn
<1> QED BY <1>1, <1>2, <1>4, <1>5

\* The listing of a subscription that fits: its keys are in order, match the
\* file and refer to sources that live.
LEMMA ListingFits ==
    ASSUME TypeInv, NEW n \in DOMAIN Listing, StoreFits(n)
    PROVE  LET keys == Listing[n].keys IN
           /\ keys \in KeyLists /\ InOrder(keys)
           /\ Matches(keys, LinesIn(files, n)) /\ Covers(keys, LinesIn(files, n))
           /\ RefsOf(keys) \subseteq Live
<1>1. PICK keys, lines : keys = KeysIn(metas, n) /\ lines = LinesIn(files, n)
  OBVIOUS
<1>2. keys \in KeyLists /\ lines \in Lines /\ Listing[n].keys = PairWithLines(keys, lines)
  BY <1>1, StoredTyped
<1>3. Matches(keys, lines) /\ RefsOf(PairWithLines(keys, lines)) \subseteq Live
  BY <1>1 DEF StoreFits, Fits
<1>4. Listing[n].keys \in KeyLists
  BY ListingType DEF IsBook, Record
<1> QED BY <1>1, <1>2, <1>3, <1>4, ListingInOrder, ListingMatches

-----------------------------------------------------------------------------
(* What one step leaves alone. *)

Kept(n) == Same(n) /\ (n \in DOMAIN files => files'[n] = files[n])

LEMMA KeptIs ==
    ASSUME NEW n, Kept(n)
    PROVE  LinesIn(files', n) = LinesIn(files, n) /\ KeysIn(metas', n) = KeysIn(metas, n)
BY DEF Kept, Same, LinesIn, KeysIn

LEMMA KeptNameFits ==
    ASSUME NEW n, Kept(n), n \in own => n \in own', NameFits(n), Live \subseteq Live'
    PROVE  NameFits(n)'
<1> SUFFICES ASSUME n \notin own'
             PROVE  Fits(KeysIn(metas, n), LinesIn(files, n), Live)'
  BY DEF NameFits
<1>1. Fits(KeysIn(metas', n), LinesIn(files', n), Live)
  BY KeptIs DEF NameFits
<1>2. PICK k, l, more : k = KeysIn(metas', n) /\ l = LinesIn(files', n) /\ more = Live'
  OBVIOUS
<1>3. Fits(k, l, more)
  BY <1>1, <1>2, MoreLive
<1> QED BY <1>2, <1>3 DEF Fits, Matches, HasLine

\* Calls that only move files of names that were left alone yield what they
\* did.
LEMMA KeptYields ==
    ASSUME NEW t, NEW n, Kept(n),
           \A i \in DOMAIN t : t[i].call = "RenameSubscriptionFile" =>
              t[i].name \in DOMAIN files /\ (n \in {t[i].name, t[i].new} => Kept(t[i].name)),
           NEW lines, NEW keys, Yields(t, n, lines, keys)
    PROVE  Yields(t, n, lines, keys)'
<1>1. LinesIn(files', n) = LinesIn(files, n) /\ KeysIn(metas', n) = KeysIn(metas, n)
  BY KeptIs
<1>2. ASSUME NEW i \in DOMAIN t, TouchesFile(t[i], n)
      PROVE  LinesIn(FilesAfter(t[i], files'), n) = LinesIn(FilesAfter(t[i], files), n)
  <2>1. PICK c : c = t[i]
    OBVIOUS
  <2>2. CASE c.call = "WriteSubscriptionFile"
    BY <1>2, <2>1, <2>2 DEF TouchesFile, FilesAfter, Put, LinesIn
  <2>3. CASE c.call = "RemoveSubscriptionFile"
    BY <1>2, <2>1, <2>3 DEF TouchesFile, FilesAfter, Drop, LinesIn
  <2>4. CASE c.call = "RenameSubscriptionFile"
    <3>1. n \in {c.name, c.new} /\ c.name \in DOMAIN files /\ Kept(c.name)
      BY <1>2, <2>1, <2>4 DEF TouchesFile
    <3>2. files'[c.name] = files[c.name]
      BY <3>1 DEF Kept
    <3>3. \A fs : FilesAfter(c, fs) = Move(fs, c.name, c.new)
      BY <2>4 DEF FilesAfter
    <3>4. \A fs : LinesIn(Move(fs, c.name, c.new), n) = IF n = c.new THEN fs[c.name] ELSE <<>>
      BY <3>1 DEF Move, Put, Drop, LinesIn
    <3> QED BY <2>1, <3>2, <3>3, <3>4
  <2> QED BY <1>2, <2>1, <2>2, <2>3, <2>4 DEF TouchesFile
<1>3. ASSUME NEW i \in DOMAIN t, TouchesMeta(t[i], n)
      PROVE  KeysIn(MetasAfter(t[i], metas'), n) = KeysIn(MetasAfter(t[i], metas), n)
  BY <1>3 DEF TouchesMeta, MetasAfter, Put, Drop, KeysIn
<1> QED BY <1>1, <1>2, <1>3 DEF Yields, TouchesFile, TouchesMeta

\* After a step: what YieldsAfter says, of the stores as the step leaves them.
LEMMA YieldsNext ==
    ASSUME NEW t, NEW n, NEW lines, NEW keys, Yields(t, n, lines, keys)',
           Fits(keys, lines, LiveAfter(t)')
    PROVE  FitsAfter(t, n)'
<1>1. FileSteps(t, n)' = FileSteps(t, n) /\ MetaSteps(t, n)' = MetaSteps(t, n)
  BY DEF FileSteps, MetaSteps, TouchesFile, TouchesMeta
<1>2. /\ \A i \in FileSteps(t, n) : LinesIn(FilesAfter(t[i], files'), n) = lines
      /\ FileSteps(t, n) = {} => LinesIn(files', n) = lines
      /\ \A i \in MetaSteps(t, n) : KeysIn(MetasAfter(t[i], metas'), n) = keys
      /\ MetaSteps(t, n) = {} => KeysIn(metas', n) = keys
  BY DEF Yields, FileSteps, MetaSteps, TouchesFile, TouchesMeta
<1>3. LinesAfter(t, n)' = lines
  <2>1. LinesAfter(t, n)' = LinesIn(IF FileSteps(t, n) = {} THEN files'
                                    ELSE FilesAfter(t[CHOOSE i \in FileSteps(t, n) : TRUE], files'), n)
    BY <1>1 DEF LinesAfter
  <2>2. CASE FileSteps(t, n) = {}
    BY <1>2, <2>1, <2>2
  <2>3. CASE FileSteps(t, n) # {}
    <3>1. PICK i \in FileSteps(t, n) : i = CHOOSE x \in FileSteps(t, n) : TRUE
      BY <2>3
    <3> QED BY <1>2, <2>1, <2>3, <3>1
  <2> QED BY <2>2, <2>3
<1>4. KeysAfter(t, n)' = keys
  <2>1. KeysAfter(t, n)' = KeysIn(IF MetaSteps(t, n) = {} THEN metas'
                                  ELSE MetasAfter(t[CHOOSE i \in MetaSteps(t, n) : TRUE], metas'), n)
    BY <1>1 DEF KeysAfter
  <2>2. CASE MetaSteps(t, n) = {}
    BY <1>2, <2>1, <2>2
  <2>3. CASE MetaSteps(t, n) # {}
    <3>1. PICK i \in MetaSteps(t, n) : i = CHOOSE x \in MetaSteps(t, n) : TRUE
      BY <2>3
    <3> QED BY <1>2, <2>1, <2>3, <3>1
  <2> QED BY <2>2, <2>3
<1>5. FitsAfter(t, n)' = Fits(KeysAfter(t, n)', LinesAfter(t, n)', LiveAfter(t)')
  BY DEF FitsAfter, Fits, Matches, HasLine, PairWithLines, RefsOf
<1> QED BY <1>3, <1>4, <1>5

LEMMA TodoIs ==
    ASSUME NEW w \in Workers
    PROVE  /\ job[w].phase = "run" => Todo(w) = job[w].todo
           /\ job[w].phase # "run" => Todo(w) = <<>>
BY DEF Todo

\* A request whose names are left alone, and no source that lived, fits.
LEMMA FrameFits ==
    ASSUME StatusInv, TypeInv, NEW v \in Workers, job'[v] = job[v], JobFits(v),
           \A n \in NamesOf[v] : Kept(n) /\ (n \in own => n \in own'), Live \subseteq Live'
    PROVE  JobFits(v)'
<1>1. PICK t : t = Todo(v)
  OBVIOUS
<1>2. Todo(v)' = t
  BY <1>1 DEF Todo
<1>3. \A n \in NamesOf[v] \ own : FitsAfter(t, n)
  BY <1>1 DEF JobFits, FitsAfter
<1>4. \A i \in DOMAIN t : t[i].call = "DeleteKeySource" => "deleteSource" \in Ops
  BY <1>1 DEF JobFits
<1>5. LiveAfter(t) \subseteq LiveAfter(t)'
  BY DEF LiveAfter
<1>6. ASSUME NEW n \in NamesOf[v] \ own'
      PROVE  FitsAfter(t, n)'
  <2>0. n \in Names /\ n \in NamesOf[v] \ own
    BY WorkerAssumption
  <2>1. Yields(t, n, LinesAfter(t, n), KeysAfter(t, n))
    <3>1. CASE job[v].phase = "run"
      <4>1. Settles(t, n)
        BY <1>1, <3>1, TodoIs DEF StatusInv, JobSettles
      <4> QED BY <4>1, AfterYields
    <3>2. CASE job[v].phase # "run"
      <4>1. Avoids(t, n)
        BY <1>1, <3>2, TodoIs, NothingYields
      <4>2. Yields(t, n, LinesIn(files, n), KeysIn(metas, n))
        BY <4>1, AvoidingYields
      <4> QED BY <4>2, YieldsAfter
    <3> QED BY <3>1, <3>2
  <2>2. PICK l, k : l = LinesAfter(t, n) /\ k = KeysAfter(t, n)
    OBVIOUS
  <2>3. ASSUME NEW i \in DOMAIN t, t[i].call = "RenameSubscriptionFile"
        PROVE  t[i].name \in DOMAIN files /\ Kept(t[i].name)
    <3>1. CASE job[v].phase = "run"
      <4>1. KeepsTo(t, NamesOf[v])
        BY <1>1, <3>1, TodoIs DEF StatusInv, JobSettles
      <4>2. t[i].name \in DOMAIN files /\ t[i].name \in Names
        BY <2>3, <4>1 DEF KeepsTo
      <4>3. TouchesFile(t[i], t[i].name)
        BY <2>3 DEF TouchesFile
      <4> QED BY <4>1, <4>2, <4>3 DEF KeepsTo
    <3>2. CASE job[v].phase # "run"
      BY <1>1, <2>3, <3>2, TodoIs, EmptyLines
    <3> QED BY <3>1, <3>2
  <2>4. Yields(t, n, l, k)'
    BY <2>1, <2>2, <2>3, KeptYields
  <2>5. Fits(k, l, LiveAfter(t)')
    <3>1. PICK x, y : x = LiveAfter(t) /\ y = LiveAfter(t)'
      OBVIOUS
    <3>2. Fits(k, l, x) /\ x \subseteq y
      BY <1>3, <1>5, <2>0, <2>2, <3>1 DEF FitsAfter
    <3> QED BY <3>1, <3>2, MoreLive
  <2> QED BY <2>4, <2>5, YieldsNext
<1>7. \A n \in NamesOf[v] \ own' : Fits(KeysAfter(Todo(v), n), LinesAfter(Todo(v), n), LiveAfter(Todo(v)))'
  <2> SUFFICES ASSUME NEW n \in NamesOf[v] \ own'
               PROVE  Fits(KeysAfter(Todo(v), n), LinesAfter(Todo(v), n), LiveAfter(Todo(v)))'
    OBVIOUS
  <2>1. FitsAfter(t, n)'
    BY <1>6
  <2> QED BY <1>2, <2>1 DEF FitsAfter
<1>8. PICK j : j = job[v]
  OBVIOUS
<1>9. ASSUME j.phase = "resolve" PROVE ResolveFits(j)'
  <2>1. j.name \in NamesOf[v] /\ ResolveFits(j)
    BY <1>8, <1>9 DEF JobFits, StatusInv, JobSettles
  <2> QED BY <2>1 DEF ResolveFits, OwnLinks, RefsOf, AllGenerated, IsGenerated, LinkFor
<1>10. ASSUME j.phase = "collect" PROVE CollectFits(j)'
  <2>1. NamesOf[v] = Names /\ DOMAIN j.subs \subseteq Names /\ CollectFits(j)
    BY <1>8, <1>10 DEF JobFits, StatusInv, JobSettles, TypeInv, JobType, IsBook
  <2> QED BY <2>1 DEF CollectFits, InOrder, IsGenerated, LinkFor
<1> QED BY <1>2, <1>4, <1>7, <1>8, <1>9, <1>10 DEF JobFits

LEMMA NamesOfSome == Names # {}
<1>1. 1 \in DOMAIN NameOrder
  BY NameAssumption, LenProperties
<1> QED BY <1>1 DEF Names, Range

\* The others, and the names nobody serves: a source goes only when a request
\* that may touch every subscription is alone.
LEMMA OthersFit ==
    ASSUME Apart, StatusInv, TypeInv, ContentInv, NEW w \in Workers,
           \A v \in Workers \ {w} : job'[v] = job[v],
           \A n \in Names \ NamesOf[w] : Kept(n), own \subseteq own' \cup NamesOf[w],
           Live \subseteq Live' \/ "deleteSource" \in Ops, JobFits(w)'
    PROVE  ContentInv'
<1>1. CASE "deleteSource" \in Ops
  <2>1. \A v \in Workers : NamesOf[v] = Names
    BY <1>1 DEF Apart
  <2>2. \A v \in Workers : v = w
    BY <2>1, NamesOfSome DEF Apart
  <2> QED BY <2>1, <2>2 DEF ContentInv
<1>2. CASE Live \subseteq Live'
  <2>1. ASSUME NEW v \in Workers, v # w
        PROVE  JobFits(v)'
    <3>1. \A n \in NamesOf[v] : Kept(n) /\ (n \in own => n \in own')
      BY <2>1, WorkerAssumption DEF Apart
    <3>2. JobFits(v)
      BY DEF ContentInv
    <3> QED BY <1>2, <2>1, <3>1, <3>2, FrameFits
  <2>2. ASSUME NEW n \in Names, \A v \in Workers : n \notin NamesOf[v]
        PROVE  NameFits(n)'
    BY <1>2, <2>2, KeptNameFits DEF ContentInv
  <2> QED BY <2>1, <2>2 DEF ContentInv
<1> QED BY <1>1, <1>2

\* The calls that a request has to make when it is in the state j.
CallsOf(j) == IF j.phase = "run" THEN j.todo ELSE <<>>

\* A request of which no call has been made yet starts or goes on waiting.
LEMMA RequestFits ==
    ASSUME Apart, StatusInv, TypeInv, ContentInv, NEW w \in Workers, NEW j, Continue(w, j),
           UNCHANGED store, own \subseteq own' \cup NamesOf[w],
           \A n \in NamesOf[w] \ own' : FitsAfter(CallsOf(j), n),
           \A i \in DOMAIN CallsOf(j) : CallsOf(j)[i].call = "DeleteKeySource" => "deleteSource" \in Ops,
           j.phase \in {"resolve", "collect"} => UNCHANGED own,
           j.phase = "resolve" => ResolveFits(j), j.phase = "collect" => CollectFits(j)
    PROVE  ContentInv'
<1>1. job'[w] = j /\ \A v \in Workers \ {w} : job'[v] = job[v]
  BY JobChanges DEF StatusInv
<1>2. files' = files /\ metas' = metas /\ sources' = sources
  BY DEF store
<1>3. \A n : Kept(n)
  BY <1>2 DEF Kept, Same
<1>4. Live' = Live
  BY <1>2 DEF Live
<1>5. PICK t : t = CallsOf(j)
  OBVIOUS
<1>6. Todo(w)' = t
  BY <1>1, <1>5 DEF Todo, CallsOf
<1>7. ASSUME NEW n \in NamesOf[w] \ own'
      PROVE  Fits(KeysAfter(t, n), LinesAfter(t, n), LiveAfter(t))'
  <2>1. FitsAfter(t, n)
    BY <1>5
  <2>2. KeysAfter(t, n)' = KeysAfter(t, n)
    BY <1>2 DEF KeysAfter, MetaSteps
  <2>3. LinesAfter(t, n)' = LinesAfter(t, n)
    BY <1>2 DEF LinesAfter, FileSteps
  <2>4. LiveAfter(t)' = LiveAfter(t)
    BY <1>4 DEF LiveAfter
  <2> QED BY <2>1, <2>2, <2>3, <2>4 DEF FitsAfter
<1>8. \A n \in NamesOf[w] \ own' : Fits(KeysAfter(Todo(w), n), LinesAfter(Todo(w), n), LiveAfter(Todo(w)))'
  <2> SUFFICES ASSUME NEW n \in NamesOf[w] \ own'
               PROVE  Fits(KeysAfter(Todo(w), n), LinesAfter(Todo(w), n), LiveAfter(Todo(w)))'
    OBVIOUS
  <2> QED BY <1>6, <1>7
<1>9. ASSUME j.phase = "resolve" PROVE ResolveFits(j)'
  BY <1>4, <1>9 DEF ResolveFits, OwnLinks, RefsOf, AllGenerated, IsGenerated, LinkFor
<1>10. ASSUME j.phase = "collect" PROVE CollectFits(j)'
  BY <1>4, <1>10 DEF CollectFits, InOrder, IsGenerated, LinkFor
<1>11. JobFits(w)'
  BY <1>1, <1>5, <1>6, <1>8, <1>9, <1>10 DEF JobFits
<1> QED BY <1>1, <1>3, <1>4, <1>11, OthersFit

LEMMA WaitingFits ==
    ASSUME ContentInv, NEW w \in Workers, job[w].phase # "run"
    PROVE  \A n \in NamesOf[w] : n \in Names /\ NameFits(n)
<1> SUFFICES ASSUME NEW n \in NamesOf[w] PROVE n \in Names /\ NameFits(n)
  OBVIOUS
<1>1. Todo(w) = <<>> /\ JobFits(w)
  BY TodoIs DEF ContentInv
<1>2. n \notin own => FitsAfter(<<>>, n)
  BY <1>1 DEF JobFits, FitsAfter
<1> QED BY <1>2, NothingYields, WorkerAssumption DEF NameFits, StoreFits

\* The same, for a request that goes on waiting.
LEMMA WaitFits ==
    ASSUME Apart, StatusInv, TypeInv, ContentInv, NEW w \in Workers, job[w].phase # "run", NEW j,
           Continue(w, j), UNCHANGED <<store, own>>, j.phase # "run",
           j.phase = "resolve" => ResolveFits(j), j.phase = "collect" => CollectFits(j)
    PROVE  ContentInv'
<1>1. CallsOf(j) = <<>>
  BY DEF CallsOf
<1>2. \A n \in NamesOf[w] \ own' : FitsAfter(CallsOf(j), n)
  BY <1>1, WaitingFits, NothingYields DEF NameFits, StoreFits
<1>3. \A i \in DOMAIN CallsOf(j) : CallsOf(j)[i].call = "DeleteKeySource" => "deleteSource" \in Ops
  BY <1>1, EmptyLines
<1> QED BY <1>2, <1>3, RequestFits

\* The same, for a request that starts to run.
LEMMA RunFits ==
    ASSUME Apart, StatusInv, TypeInv, ContentInv, NEW w \in Workers, job[w].phase # "run", NEW op, NEW t,
           Continue(w, Running(op, t)), UNCHANGED store, own \subseteq own' \cup NamesOf[w],
           \A i \in DOMAIN t : t[i].call = "DeleteKeySource" => "deleteSource" \in Ops,
           \A n \in NamesOf[w] \ own' : n \in Names /\ NameFits(n) => FitsAfter(t, n)
    PROVE  ContentInv'
<1>1. PICK j : j = Running(op, t)
  OBVIOUS
<1>2. CallsOf(j) = t /\ j.phase \in {"idle", "run"}
  BY <1>1, RunningIs DEF CallsOf, Idle
<1>3. \A n \in NamesOf[w] \ own' : FitsAfter(CallsOf(j), n)
  BY <1>2, WaitingFits
<1>4. Continue(w, j)
  BY <1>1
<1> QED BY <1>2, <1>3, <1>4, RequestFits

\* The same, for calls about one name of the request.
LEMMA OneNameFits ==
    ASSUME Apart, StatusInv, TypeInv, ContentInv, NEW w \in Workers, job[w].phase # "run", NEW op, NEW t,
           NEW n \in NamesOf[w], Continue(w, Running(op, t)), UNCHANGED store, own \subseteq own' \cup {n},
           DropsOnly(t, {}), \A m : m # n => Avoids(t, m), n \notin own' /\ NameFits(n) => FitsAfter(t, n)
    PROVE  ContentInv'
<1>1. \A i \in DOMAIN t : t[i].call # "DeleteKeySource"
  BY DEF DropsOnly
<1>2. ASSUME NEW m \in NamesOf[w] \ own', NameFits(m), m # n
      PROVE  FitsAfter(t, m)
  <2>1. Yields(t, m, LinesIn(files, m), KeysIn(metas, m))
    BY <1>2, AvoidingYields
  <2>2. Live \ {} = Live
    OBVIOUS
  <2> QED BY <1>2, <2>1, <2>2, YieldsFits DEF NameFits
<1>3. \A m \in NamesOf[w] \ own' : m \in Names /\ NameFits(m) => FitsAfter(t, m)
  BY <1>2
<1> QED BY <1>1, <1>3, RunFits

\* Publication of keys in order, with sources that live.
LEMMA PublicationFits ==
    ASSUME Apart, StatusInv, TypeInv, ContentInv, NEW w \in Workers, job[w].phase # "run", NEW op,
           NEW n \in NamesOf[w], NEW keys, Continue(w, Running(op, Publish(n, keys))),
           UNCHANGED store, own \subseteq own' \cup {n}, keys \in KeyLists,
           n \notin own' => InOrder(keys) /\ RefsOf(keys) \subseteq Live
    PROVE  ContentInv'
<1>1. PICK t : t = Publish(n, keys)
  OBVIOUS
<1>2. Yields(t, n, Published(keys), keys) /\ DropsOnly(t, {})
  BY <1>1, PublishYields
<1>3. (n \notin own' => Fits(keys, Published(keys), Live)) /\ Live \ {} = Live
  BY PublishedFits
<1>4. n \notin own' => FitsAfter(t, n)
  BY <1>2, <1>3, YieldsFits
<1>5. \A m : m # n => Avoids(t, m)
  BY <1>1, PublishSettles
<1>6. Continue(w, Running(op, t))
  BY <1>1
<1> QED BY <1>2, <1>4, <1>5, <1>6, OneNameFits

-----------------------------------------------------------------------------
(* The handlers of SubscriptionService. *)

LEMMA EmptyInOrder == InOrder(<<>>) /\ RefsOf(<<>>) = {} /\ OwnLinks(<<>>) /\ AllGenerated(<<>>)
BY EmptyLines DEF InOrder, RefsOf, OwnLinks, AllGenerated

\* Renaming takes everything from the old name to the new one: with a file,
Moves(t, n, new, c, d, e) ==
    /\ n # new
    /\ \/ t = <<c, Mark, d, e>> /\ n \in DOMAIN files
       \/ t = <<d, e>> /\ n \notin DOMAIN files /\ new \notin DOMAIN files
    /\ c.call = "RenameSubscriptionFile" /\ c.name = n /\ c.new = new
    /\ d.call = "DeleteSubMeta" /\ d.name = n /\ e.call = "UpsertSubMeta" /\ e.name = new

LEMMA MoveYields ==
    ASSUME NEW t, NEW n, NEW new, NEW c, NEW d, NEW e, Moves(t, n, new, c, d, e)
    PROVE  /\ Yields(t, n, <<>>, <<>>) /\ Yields(t, new, LinesIn(files, n), e.rec.keys)
           /\ \A m : m \notin {n, new} => Avoids(t, m)
           /\ DropsOnly(t, {})
<1>0. /\ n # new
      /\ \/ t = <<c, Mark, d, e>> /\ n \in DOMAIN files
         \/ t = <<d, e>> /\ n \notin DOMAIN files /\ new \notin DOMAIN files
      /\ c.call = "RenameSubscriptionFile" /\ c.name = n /\ c.new = new
      /\ d.call = "DeleteSubMeta" /\ d.name = n /\ e.call = "UpsertSubMeta" /\ e.name = new
  BY DEF Moves
<1> USE <1>0
<1>1. /\ \A i \in DOMAIN t : t[i] \in {c, Mark, d, e} /\ (t[i] = c => t # <<d, e>>)
      /\ t # <<d, e>> => \E i \in DOMAIN t : t[i] = c
      /\ \E i \in DOMAIN t : t[i] = d
      /\ \E i \in DOMAIN t : t[i] = e
  <2>1. CASE t = <<c, Mark, d, e>>
    <3>1. DOMAIN t = 1..4 /\ t[1] = c /\ t[2] = Mark /\ t[3] = d /\ t[4] = e
      BY <2>1
    <3>2. Len(t) = 4 /\ Len(<<d, e>>) = 2
      BY <2>1
    <3>3. t # <<d, e>>
      BY <3>2
    <3> QED BY <3>1, <3>3
  <2>2. CASE t = <<d, e>>
    <3>1. DOMAIN t = 1..2 /\ t[1] = d /\ t[2] = e
      BY <2>2
    <3>2. c # d /\ c # e
      OBVIOUS
    <3> QED BY <2>2, <3>1, <3>2
  <2> QED BY <2>1, <2>2
<1>2. \A x : /\ (TouchesFile(c, x) <=> x \in {n, new}) /\ ~ TouchesMeta(c, x)
             /\ (TouchesMeta(d, x) <=> x = n) /\ ~ TouchesFile(d, x)
             /\ (TouchesMeta(e, x) <=> x = new) /\ ~ TouchesFile(e, x)
             /\ ~ TouchesFile(Mark, x) /\ ~ TouchesMeta(Mark, x)
  BY DEF TouchesFile, TouchesMeta, Mark
<1>3. /\ LinesIn(FilesAfter(c, files), n) = <<>>
      /\ LinesIn(FilesAfter(c, files), new) = files[n]
  BY DEF FilesAfter, Move, Put, Drop, LinesIn
<1>4. KeysIn(MetasAfter(d, metas), n) = <<>> /\ KeysIn(MetasAfter(e, metas), new) = e.rec.keys
  BY DEF MetasAfter, Put, Drop, KeysIn
<1>5. /\ t # <<d, e>> => LinesIn(files, n) = files[n]
      /\ t = <<d, e>> => LinesIn(files, n) = <<>> /\ LinesIn(files, new) = <<>>
  BY DEF LinesIn
<1>6. PICK withFile \in BOOLEAN : withFile <=> t # <<d, e>>
  OBVIOUS
<1>7. PICK old : old = LinesIn(files, n)
  OBVIOUS
<1>8. /\ \A i \in DOMAIN t : t[i] \in {c, Mark, d, e} /\ (t[i] = c => withFile)
      /\ withFile => \E i \in DOMAIN t : t[i] = c
      /\ withFile => old = files[n]
      /\ ~ withFile => old = <<>> /\ LinesIn(files, new) = <<>>
      /\ LinesIn(files, n) = old
      /\ \E i \in DOMAIN t : t[i] = d
      /\ \E i \in DOMAIN t : t[i] = e
  BY <1>1, <1>5, <1>6, <1>7
<1> QED
  <2>1. Yields(t, n, <<>>, <<>>)
    BY <1>2, <1>3, <1>4, <1>8, Zenon DEF Yields
  <2>2. Yields(t, new, old, e.rec.keys)
    BY <1>2, <1>3, <1>4, <1>8, Zenon DEF Yields
  <2>3. \A m : m \notin {n, new} => Avoids(t, m)
    BY <1>2, <1>8, Zenon DEF Avoids
  <2>4. DropsOnly(t, {})
    <3>1. Mark.call = "Mark"
      BY DEF Mark
    <3> QED BY <1>1, <3>1 DEF DropsOnly
  <2> QED BY <1>7, <2>1, <2>2, <2>3, <2>4

Renames(t, n, new, st, keys) ==
    t = (IF n \in DOMAIN files THEN <<RenameFile(n, new), Mark>> ELSE <<>>)
          \o <<ForgetMeta(n), UpsertMeta(new, st, keys)>>

LEMMA RenameYields ==
    ASSUME NEW n, NEW new, n \in DOMAIN Listing, ~ Taken(new), NEW st, NEW keys, NEW t,
           Renames(t, n, new, st, keys)
    PROVE  /\ Yields(t, n, <<>>, <<>>) /\ Yields(t, new, LinesIn(files, n), keys)
           /\ \A m : m \notin {n, new} => Avoids(t, m)
           /\ DropsOnly(t, {})
<1>1. n # new /\ new \notin DOMAIN files /\ new \notin DOMAIN metas
  BY ListingIsTaken DEF Taken
<1>2. PICK c, d, e : c = RenameFile(n, new) /\ d = ForgetMeta(n) /\ e = UpsertMeta(new, st, keys)
  OBVIOUS
<1>3. /\ c.call = "RenameSubscriptionFile" /\ c.name = n /\ c.new = new
      /\ d.call = "DeleteSubMeta" /\ d.name = n
      /\ e.call = "UpsertSubMeta" /\ e.name = new /\ e.rec.keys = keys
  BY <1>2 DEF RenameFile, ForgetMeta, UpsertMeta
<1>4. /\ n \in DOMAIN files => t = <<c, Mark, d, e>>
      /\ n \notin DOMAIN files => t = <<d, e>>
  <2>1. CASE n \in DOMAIN files
    BY <1>2, <2>1, TwoAndTwo DEF Renames
  <2>2. CASE n \notin DOMAIN files
    <3>1. <<d, e>> \in Seq({d, e})
      OBVIOUS
    <3>2. <<>> \o <<d, e>> = <<d, e>>
      BY <3>1, ConcatEmptySeq
    <3> QED BY <1>2, <2>2, <3>2 DEF Renames
  <2> QED BY <2>1, <2>2
<1>5. \/ t = <<c, Mark, d, e>> /\ n \in DOMAIN files
      \/ t = <<d, e>> /\ n \notin DOMAIN files /\ new \notin DOMAIN files
  BY <1>1, <1>4
<1>6. /\ Yields(t, n, <<>>, <<>>) /\ Yields(t, new, LinesIn(files, n), e.rec.keys)
      /\ \A m : m \notin {n, new} => Avoids(t, m)
      /\ DropsOnly(t, {})
  <2>1. Moves(t, n, new, c, d, e)
    BY <1>1, <1>3, <1>5 DEF Moves
  <2> QED BY <2>1, MoveYields
<1> QED BY <1>3, <1>6, Zenon

\* A record alone is stored.
LEMMA RecordYields ==
    ASSUME NEW n, NEW st, NEW keys, NEW t, t = <<UpsertMeta(n, st, keys)>>
    PROVE  /\ Yields(t, n, LinesIn(files, n), keys) /\ DropsOnly(t, {})
           /\ \A m : m # n => Avoids(t, m)
<1>1. PICK e : e = UpsertMeta(n, st, keys)
  OBVIOUS
<1>2. e.call = "UpsertSubMeta" /\ e.name = n /\ KeysIn(MetasAfter(e, metas), n) = keys
  BY <1>1, CallLeaves DEF UpsertMeta
<1>3. DOMAIN t = {1} /\ t[1] = e
  BY <1>1
<1> QED BY <1>2, <1>3 DEF Yields, DropsOnly, Avoids, TouchesFile, TouchesMeta

\* Deletion leaves nothing.
LEMMA DeletionYields ==
    ASSUME NEW n, NEW t, t = <<RemoveFile(n), Mark, ForgetMeta(n)>>
    PROVE  Yields(t, n, <<>>, <<>>) /\ DropsOnly(t, {})
<1>1. PICK c, d : c = RemoveFile(n) /\ d = ForgetMeta(n)
  OBVIOUS
<1>2. /\ c.call \in FileCalls /\ d.call = "DeleteSubMeta"
      /\ TouchesFile(c, n) /\ ~ TouchesMeta(c, n) /\ TouchesMeta(d, n) /\ ~ TouchesFile(d, n)
  BY <1>1 DEF RemoveFile, ForgetMeta, FileCalls, TouchesFile, TouchesMeta
<1>3. LinesIn(FilesAfter(c, files), n) = <<>> /\ KeysIn(MetasAfter(d, metas), n) = <<>>
  BY <1>1, CallLeaves
<1>4. t \in {<<c, Mark, d>>, <<c, d>>}
  BY <1>1
<1> QED BY <1>2, <1>3, <1>4, PairYields

\* What is listed of a name of the request that is about to start.
LEMMA OwnListingFits ==
    ASSUME TypeInv, ContentInv, NEW w \in Workers, job[w].phase # "run", NEW n \in NamesOf[w],
           n \in DOMAIN Listing \ own
    PROVE  LET keys == Listing[n].keys IN
           /\ keys \in KeyLists /\ InOrder(keys)
           /\ Matches(keys, LinesIn(files, n)) /\ Covers(keys, LinesIn(files, n))
           /\ RefsOf(keys) \subseteq Live
BY WaitingFits, ListingFits DEF NameFits, StoreFits

\* The name of an added source follows the keys that the file has lines of.
LEMMA WithRefsFit ==
    ASSUME NEW keys \in KeyLists, NEW lines \in Lines, Matches(keys, lines), Covers(keys, lines),
           NEW live, RefsOf(keys) \subseteq live, NEW r \in Refs, NEW q \in Refs,
           {r, q} \subseteq live \cup RefsOf(keys),
           Len(keys) + Cardinality({r, q} \ RefsOf(keys)) <= MaxKeys
    PROVE  Fits(WithRef(WithRef(keys, r), q), lines, live)
<1>1. PICK mid : mid = WithRef(keys, r)
  OBVIOUS
<1>2. PICK new : new = WithRef(mid, q)
  OBVIOUS
<1>3. mid \in KeyLists /\ new \in KeyLists
  BY <1>1, <1>2, WithRefsTyped
<1>4. Matches(mid, lines) /\ Covers(mid, lines) /\ RefsOf(mid) \subseteq live
  BY <1>1, WithRefMatches
<1>5. Matches(new, lines) /\ RefsOf(new) \subseteq live
  BY <1>2, <1>3, <1>4, WithRefMatches
<1>6. Fits(new, lines, live)
  BY <1>3, <1>5, FitsIf
<1> QED BY <1>1, <1>2, <1>6

LEMMA SentTyped == Sendable \subseteq KeyLists
BY ClientAssumption, BoundAssumption DEF Sendable, KeyLists

LEMMA OnNameFits ==
    ASSUME Apart, StatusInv, TypeInv, ContentInv, NEW w \in Workers, NEW n \in NamesOf[w], OnName(w, n)
    PROVE  ContentInv'
<1>1. n \in Names /\ NamesOf[w] \subseteq Names /\ Live \ {} = Live
  BY WorkerAssumption
<1>2. CASE Create(w, n)
  <2>1. PICK refs \in UNION {[1..k -> Refs] : k \in 0..MaxKeys} :
           Continue(w, Resolving("create", n, NewKeys(refs), <<>>))
    BY <1>2 DEF Create
  <2>2. PICK k \in 0..MaxKeys : refs \in [1..k -> Refs]
    BY <2>1
  <2>3. \A i \in DOMAIN NewKeys(refs) : NewKeys(refs)[i].ref # NoRef
    BY <2>2, RefAssumption DEF NewKeys, SubKey
  <2>4. PICK j : j = Resolving("create", n, NewKeys(refs), <<>>)
    OBVIOUS
  <2>5. j.phase = "resolve" /\ j.pending = NewKeys(refs) /\ j.done = <<>>
    BY <2>4 DEF Resolving
  <2>6. job[w].phase # "run" /\ UNCHANGED <<store, own>> /\ Continue(w, j)
    BY <1>2, <2>1, <2>4, BeginIsNoRun DEF Create
  <2>7. ResolveFits(j)
    BY <2>3, <2>5, EmptyInOrder DEF ResolveFits
  <2> QED BY <2>5, <2>6, <2>7, WaitFits
<1>3. CASE CreateLegacy(w, n)
  <2>1. PICK keys \in Sendable : Continue(w, Running("create", Publish(n, keys)))
    BY <1>3 DEF CreateLegacy
  <2>2. job[w].phase # "run" /\ UNCHANGED store /\ own' = own \cup {n}
    BY <1>3, BeginIsNoRun DEF CreateLegacy
  <2>3. keys \in KeyLists
    BY SentTyped, EmptyKeyList
  <2> QED BY <2>1, <2>2, <2>3, PublicationFits
<1>4. CASE Regenerate(w, n)
  <2>1. PICK j : j = Resolving("regenerate", n, Listing[n].keys, <<>>)
    OBVIOUS
  <2>2. j.phase = "resolve" /\ j.pending = Listing[n].keys /\ j.done = <<>>
    BY <2>1 DEF Resolving
  <2>3. job[w].phase # "run" /\ UNCHANGED <<store, own>> /\ Continue(w, j) /\ n \in DOMAIN Listing
    BY <1>4, <2>1, BeginIsNoRun DEF Regenerate
  <2>4. j.name = n
    BY <2>1 DEF Resolving
  <2>5. n \notin own => \A i \in DOMAIN j.pending : j.pending[i].ref = NoRef => IsGenerated(j.pending[i])
    BY <2>2, <2>3, OwnListingFits DEF InOrder
  <2>6. ResolveFits(j)
    BY <2>2, <2>4, <2>5, EmptyInOrder DEF ResolveFits
  <2> QED BY <2>2, <2>3, <2>6, WaitFits
<1>5. CASE \E new \in NamesOf[w] : RenameSubscription(w, n, new)
  <2>1. PICK new \in NamesOf[w] : RenameSubscription(w, n, new)
    BY <1>5
  <2>2. PICK st, keys, lines :
           st = Listing[n].status /\ keys = Listing[n].keys /\ lines = LinesIn(files, n)
    OBVIOUS
  <2>3. PICK t : Renames(t, n, new, st, keys)
    BY DEF Renames
  <2>4. /\ Continue(w, Running("rename", t)) /\ UNCHANGED store
        /\ n \in DOMAIN Listing /\ ~ Taken(new) /\ job[w].phase # "run"
        /\ own' = IF n \in own THEN own \cup {new} ELSE own \ {new}
    BY <2>1, <2>2, <2>3, BeginIsNoRun DEF RenameSubscription, Renames
  <2>5. /\ Yields(t, n, <<>>, <<>>) /\ Yields(t, new, lines, keys)
        /\ \A m : m \notin {n, new} => Avoids(t, m)
        /\ DropsOnly(t, {})
    BY <2>2, <2>3, <2>4, RenameYields
  <2>6. (n \notin own => Fits(keys, lines, Live)) /\ Fits(<<>>, <<>>, Live)
    <3>1. n \notin own => keys \in KeyLists /\ Matches(keys, lines) /\ RefsOf(keys) \subseteq Live
      BY <2>2, <2>4, OwnListingFits
    <3>2. lines \in Lines
      BY <2>2, StoredTyped
    <3>3. Fits(<<>>, <<>>, Live)
      BY EmptyInOrder, EmptyKeyList, PublishedFits DEF Published
    <3> QED BY <3>1, <3>2, <3>3, FitsIf
  <2>7. FitsAfter(t, n) /\ (n \notin own => FitsAfter(t, new))
    BY <1>1, <2>5, <2>6, YieldsFits
  <2>8. ASSUME NEW m \in NamesOf[w] \ own', NameFits(m)
        PROVE  FitsAfter(t, m)
    <3>1. CASE m \in {n, new}
      BY <2>4, <2>7, <3>1
    <3>2. CASE m \notin {n, new}
      <4>1. Yields(t, m, LinesIn(files, m), KeysIn(metas, m)) /\ m \notin own
        BY <2>4, <2>5, <3>2, AvoidingYields
      <4> QED BY <1>1, <2>5, <2>8, <4>1, YieldsFits DEF NameFits
    <3> QED BY <3>1, <3>2
  <2>9. \A i \in DOMAIN t : t[i].call # "DeleteKeySource"
    BY <2>5 DEF DropsOnly
  <2>10. own \subseteq own' \cup NamesOf[w]
    BY <2>4
  <2> QED BY <2>4, <2>8, <2>9, <2>10, RunFits
<1>6. CASE AddRefs(w, n)
  <2>1. n \in DOMAIN Listing /\ job[w].phase # "run" /\ UNCHANGED store /\ own' = own
    BY <1>6, BeginIsNoRun DEF AddRefs
  <2>2. PICK sub : sub = Listing[n]
    OBVIOUS
  <2>3. PICK r \in Refs, q \in Refs :
           /\ {r, q} \subseteq Live \cup RefsOf(sub.keys)
           /\ Len(sub.keys) + Cardinality({r, q} \ RefsOf(sub.keys)) <= MaxKeys
           /\ Continue(w, Running("addRefs",
                  <<UpsertMeta(n, sub.status, WithRef(WithRef(sub.keys, r), q))>>))
    BY <1>6, <2>2 DEF AddRefs
  <2>4. PICK keys : keys = WithRef(WithRef(sub.keys, r), q)
    OBVIOUS
  <2>5. PICK t : t = <<UpsertMeta(n, sub.status, keys)>>
    OBVIOUS
  <2>6. Yields(t, n, LinesIn(files, n), keys) /\ DropsOnly(t, {}) /\ \A m : m # n => Avoids(t, m)
    BY <2>5, RecordYields
  <2>7. PICK lines, old : lines = LinesIn(files, n) /\ old = sub.keys
    OBVIOUS
  <2>8. ASSUME n \notin own PROVE Fits(keys, lines, Live)
    <3>1. /\ old \in KeyLists /\ Matches(old, lines) /\ Covers(old, lines) /\ RefsOf(old) \subseteq Live
      BY <2>1, <2>2, <2>7, <2>8, OwnListingFits
    <3>2. lines \in Lines
      BY <2>7, StoredTyped
    <3> QED BY <2>3, <2>4, <2>7, <3>1, <3>2, WithRefsFit
  <2>9. n \notin own => FitsAfter(t, n)
    BY <1>1, <2>6, <2>7, <2>8, YieldsFits
  <2>10. Continue(w, Running("addRefs", t))
    BY <2>3, <2>4, <2>5
  <2> QED BY <2>1, <2>6, <2>9, <2>10, OneNameFits
<1>7. CASE RemoveKey(w, n)
  <2>1. n \in DOMAIN Listing /\ job[w].phase # "run" /\ UNCHANGED store /\ own' = own
    BY <1>7, BeginIsNoRun DEF RemoveKey
  <2>2. PICK keys : keys = Listing[n].keys
    OBVIOUS
  <2>3. PICK id : Continue(w, Running("removeKey",
                      Publish(n, SelectAt(keys, {i \in DOMAIN keys : keys[i].id # id}))))
    BY <1>7, <2>2 DEF RemoveKey
  <2>4. PICK at : at = {i \in DOMAIN keys : keys[i].id # id}
    OBVIOUS
  <2>5. PICK new : new = SelectAt(keys, at)
    OBVIOUS
  <2>6. keys \in KeyLists /\ (n \notin own => InOrder(keys) /\ RefsOf(keys) \subseteq Live)
    BY <2>1, <2>2, OwnListingFits, ListingType DEF IsBook, Record
  <2>7. at \in SUBSET (DOMAIN keys)
    BY <2>4
  <2>8. /\ new \in KeyLists
        /\ n \notin own => InOrder(new) /\ RefsOf(new) \subseteq {keys[i].ref : i \in at} \ {NoRef}
    BY <2>5, <2>6, <2>7, SelectedInOrder, SelectedTyped
  <2>9. n \notin own => RefsOf(new) \subseteq Live
    <3>1. {keys[i].ref : i \in at} \subseteq {keys[i].ref : i \in DOMAIN keys}
      BY <2>7
    <3> QED BY <2>6, <2>8, <3>1 DEF RefsOf
  <2>10. Continue(w, Running("removeKey", Publish(n, new)))
    BY <2>3, <2>4, <2>5
  <2> QED BY <2>1, <2>8, <2>9, <2>10, PublicationFits
<1>8. CASE ReplaceKeys(w, n)
  <2>1. job[w].phase # "run" /\ UNCHANGED store /\ own' = own \cup {n}
    BY <1>8, BeginIsNoRun DEF ReplaceKeys
  <2>2. PICK keys \in {<<>>} \cup Sendable : Continue(w, Running("replaceKeys", Publish(n, keys)))
    BY <1>8 DEF ReplaceKeys
  <2>3. keys \in KeyLists
    BY SentTyped, EmptyKeyList
  <2> QED BY <2>1, <2>2, <2>3, PublicationFits
<1>9. CASE Delete(w, n)
  <2>1. PICK t : t = <<RemoveFile(n), Mark, ForgetMeta(n)>>
    OBVIOUS
  <2>2. job[w].phase # "run" /\ UNCHANGED <<store, own>> /\ Continue(w, Running("delete", t))
    BY <1>9, <2>1, BeginIsNoRun DEF Delete
  <2>3. Yields(t, n, <<>>, <<>>) /\ DropsOnly(t, {})
    BY <2>1, DeletionYields
  <2>4. \A m : m # n => Avoids(t, m)
    BY <2>1, DeletionSettles
  <2>5. Fits(<<>>, <<>>, Live)
    BY EmptyInOrder, EmptyKeyList, PublishedFits DEF Published
  <2>6. FitsAfter(t, n)
    BY <1>1, <2>3, <2>5, YieldsFits
  <2> QED BY <2>2, <2>3, <2>4, <2>6, OneNameFits
<1> QED BY <1>2, <1>3, <1>4, <1>5, <1>6, <1>7, <1>8, <1>9 DEF OnName

LEMMA WaitingStepFits ==
    ASSUME Apart, StatusInv, TypeInv, ContentInv, NEW w \in Workers, ResolveKey(w) \/ Resolved(w)
    PROVE  ContentInv'
<1> DEFINE n == job[w].name
           done == job[w].done
           pending == job[w].pending
<1>1. job[w].phase = "resolve" /\ UNCHANGED store /\ Live \ {} = Live
  BY DEF ResolveKey, Resolved
<1>2. /\ job[w].op \in {"create", "regenerate"} /\ n \in NamesOf[w]
      /\ job[w].op = "create" => ~ Taken(n)
  BY <1>1 DEF StatusInv, JobSettles
<1>3. /\ pending \in Seq(Key) /\ done \in Seq(Key) /\ Len(pending) + Len(done) <= MaxKeys
  BY <1>1 DEF TypeInv, JobType
<1>4. /\ OwnLinks(done) /\ RefsOf(done) \subseteq Live
      /\ n \notin own => /\ \A i \in DOMAIN pending : pending[i].ref = NoRef => IsGenerated(pending[i])
                         /\ AllGenerated(done)
  BY <1>1 DEF ContentInv, JobFits, ResolveFits
<1>5. CASE ResolveKey(w)
  <2> DEFINE key == Head(pending)
             rest == Tail(pending)
  <2>1. PICK next : /\ Continue(w, Resolving(job[w].op, n, rest, next))
                    /\ \/ key.ref \in Live \cup {NoRef} /\ next = Append(done, Relink(key))
                       \/ next = done
    BY <1>5 DEF ResolveKey
  <2>2. pending # <<>>
    BY <1>5 DEF ResolveKey
  <2>3. /\ key = pending[1] /\ 1 \in DOMAIN pending /\ key \in Key
        /\ \A i \in DOMAIN rest : i + 1 \in DOMAIN pending /\ rest[i] = pending[i + 1]
    <3>1. PICK s : s = pending
      OBVIOUS
    <3>2. s \in Seq(Key) /\ s # <<>>
      BY <1>3, <2>2, <3>1
    <3>3. /\ Head(s) = s[1] /\ 1 \in DOMAIN s /\ s[1] \in Key
          /\ \A i \in DOMAIN Tail(s) : i + 1 \in DOMAIN s /\ Tail(s)[i] = s[i + 1]
      <4>1. CallList(s)
        BY <3>2, IsCallList
      <4>2. 1 \in DOMAIN s
        BY <4>1, CallListFacts
      <4>3. \A i \in DOMAIN Tail(s) : i + 1 \in DOMAIN s
        BY <4>1, CallListFacts
      <4> QED BY <3>2, <4>1, <4>2, <4>3, CallListFacts, ElementOfSeq, LenProperties
    <3> QED BY <3>1, <3>3
  <2>4. n \notin own => \A i \in DOMAIN rest : rest[i].ref = NoRef => IsGenerated(rest[i])
    BY <1>4, <2>3
  <2>5. /\ OwnLinks(next) /\ RefsOf(next) \subseteq Live
        /\ n \notin own => AllGenerated(next)
    <3>1. CASE next = done
      BY <1>4, <3>1
    <3>2. CASE key.ref \in Live \cup {NoRef} /\ next = Append(done, Relink(key))
      <4>1. PICK new : new = Relink(key)
        OBVIOUS
      <4>2. /\ new.ref = key.ref /\ (n \notin own => IsGenerated(new)) /\ new \in Key
            /\ new.ref # NoRef => new.link = LinkFor(new.ref)
        BY <1>4, <2>3, <4>1, RelinkOwns, RelinkTyped
      <4>3. PICK old : old = done
        OBVIOUS
      <4>4. old \in Seq(Key) /\ next = Append(old, new)
        BY <1>3, <3>2, <4>1, <4>3
      <4>5. \A i \in DOMAIN next : next[i] = new \/ (i \in DOMAIN old /\ next[i] = old[i])
        <5>1. /\ Len(next) = Len(old) + 1 /\ next[Len(old) + 1] = new /\ next \in Seq(Key)
              /\ \A i \in 1..Len(old) : next[i] = old[i]
          BY <4>2, <4>4, AppendProperties
        <5>2. DOMAIN next = 1..(Len(old) + 1) /\ Len(old) \in Nat /\ DOMAIN old = 1..Len(old)
          BY <4>4, <5>1, LenProperties
        <5> QED BY <5>1, <5>2
      <4>6. /\ OwnLinks(old) /\ RefsOf(old) \subseteq Live
            /\ n \notin own => AllGenerated(old)
        BY <1>4, <4>3
      <4> QED BY <3>2, <4>2, <4>5, <4>6 DEF OwnLinks, RefsOf, AllGenerated
    <3> QED BY <2>1, <3>1, <3>2
  <2>6. PICK j : j = Resolving(job[w].op, n, rest, next)
    OBVIOUS
  <2>7. /\ j.phase = "resolve" /\ j.name = n /\ j.pending = rest /\ j.done = next
        /\ Continue(w, j) /\ UNCHANGED own
    BY <1>5, <2>1, <2>6 DEF Resolving, ResolveKey
  <2>8. ResolveFits(j)
    BY <2>4, <2>5, <2>7 DEF ResolveFits
  <2> QED BY <1>1, <2>7, <2>8, WaitFits
<1>6. CASE Resolved(w)
  <2>1. PICK keys, m : keys = done /\ m = n
    OBVIOUS
  <2>2. keys \in KeyLists
    <3>1. Len(keys) \in Nat /\ Len(pending) \in Nat /\ MaxKeys \in Nat
      BY <1>3, <2>1, BoundAssumption, LenProperties
    <3>2. Len(pending) + Len(keys) <= MaxKeys /\ keys \in Seq(Key)
      BY <1>3, <2>1
    <3>3. Len(keys) <= MaxKeys
      BY <3>1, <3>2
    <3> QED BY <3>2, <3>3 DEF KeyLists
  <2>5. own' = IF AllGenerated(keys) THEN own \ {m} ELSE own
    BY <1>6, <2>1 DEF Resolved
  <2>3. CASE job[w].op = "create" /\ keys = <<>>
    <3>1. PICK t : t = <<UpsertMeta(m, "draft", <<>>)>>
      OBVIOUS
    <3>2. Continue(w, Running(job[w].op, t))
      BY <1>6, <2>1, <2>3, <3>1 DEF Resolved
    <3>3. LinesIn(files, m) = <<>>
      BY <1>2, <2>1, <2>3 DEF Taken, LinesIn
    <3>4. Yields(t, m, <<>>, <<>>) /\ DropsOnly(t, {}) /\ \A x : x # m => Avoids(t, x)
      BY <3>1, <3>3, RecordYields
    <3>5. Fits(<<>>, <<>>, Live)
      BY EmptyInOrder, EmptyKeyList, PublishedFits DEF Published
    <3>6. FitsAfter(t, m)
      BY <1>1, <3>4, <3>5, YieldsFits
    <3> QED BY <1>1, <1>2, <2>1, <2>5, <3>2, <3>4, <3>6, OneNameFits
  <2>4. CASE ~ (job[w].op = "create" /\ keys = <<>>)
    <3>1. Continue(w, Running(job[w].op, Publish(m, keys)))
      BY <1>6, <2>1, <2>4 DEF Resolved
    <3>2. m \notin own' => AllGenerated(keys)
      BY <1>4, <2>1, <2>5
    <3>3. m \notin own' => InOrder(keys) /\ RefsOf(keys) \subseteq Live
      BY <1>4, <2>1, <3>2, ResolvedInOrder
    <3> QED BY <1>1, <1>2, <2>1, <2>2, <2>5, <3>1, <3>3, PublicationFits
  <2> QED BY <2>3, <2>4
<1> QED BY <1>5, <1>6

-----------------------------------------------------------------------------
(* The handlers that go through all subscriptions. *)

\* The calls for each name touch that name alone, and remove no source.
OwnOnly(calls) ==
    \A m \in DOMAIN calls :
        calls[m] \in Seq(Call) /\ DropsOnly(calls[m], {}) /\ \A x : x # m => Avoids(calls[m], x)

YieldsIn(calls, n, lines, keys) == Yields(IF n \in DOMAIN calls THEN calls[n] ELSE <<>>, n, lines, keys)

LEMMA ListOfCalls ==
    ASSUME NEW calls, OwnOnly(calls)
    PROVE  InListingOrder(calls) \in Seq(Call) /\ DropsOnly(InListingOrder(calls), {})
<1> DEFINE G == {s \in Seq(Call) : DropsOnly(s, {})}
<1>1. <<>> \in G /\ \A m \in DOMAIN calls : calls[m] \in G
  BY EmptySeq, NothingYields DEF OwnOnly
<1>2. ASSUME NEW r \in G, NEW s \in G PROVE r \o s \in G
  BY DropsAround, ConcatFacts
<1> HIDE DEF G
<1>3. InListingOrder(calls) \in G
  BY <1>1, <1>2, InListingOrderStays
<1> QED BY <1>3 DEF G

\* One name after the other: for each, only its own part counts.
LEMMA ListYields ==
    ASSUME NEW calls, OwnOnly(calls), NEW n \in Names, NEW lines, NEW keys,
           YieldsIn(calls, n, lines, keys)
    PROVE  Yields(InListingOrder(calls), n, lines, keys)
<1> DEFINE seqs == [i \in DOMAIN NameOrder |->
                      IF NameOrder[i] \in DOMAIN calls THEN calls[NameOrder[i]] ELSE <<>>]
           U == {s \in Seq(Call) : Avoids(s, n)}
           R == {s \in Seq(Call) : Yields(s, n, lines, keys)}
<1>1. DOMAIN NameOrder = 1..Len(NameOrder) /\ Len(NameOrder) \in Nat
  BY NameAssumption, LenProperties
<1>2. <<>> \in Seq(Call) /\ Avoids(<<>>, n)
  BY EmptySeq, NothingYields
<1>3. \A m \in DOMAIN calls : calls[m] \in Seq(Call) /\ (m # n => Avoids(calls[m], n))
  BY DEF OwnOnly
<1>4. seqs \in Seq(Seq(Call)) /\ DOMAIN seqs = DOMAIN NameOrder
  <2>1. seqs \in [1..Len(NameOrder) -> Seq(Call)]
    BY <1>1, <1>2, <1>3
  <2> HIDE DEF seqs
  <2> QED BY <1>1, <2>1, IsASeq
<1>5. PICK k \in DOMAIN NameOrder : NameOrder[k] = n
  BY DEF Names, Range
<1>6. seqs[k] \in R
  BY <1>2, <1>3, <1>5 DEF YieldsIn
<1>7. ASSUME NEW i \in DOMAIN seqs, i # k PROVE seqs[i] \in U
  <2>1. i \in DOMAIN NameOrder /\ NameOrder[i] # n
    BY <1>4, <1>5, <1>7, NameAssumption
  <2> QED BY <1>2, <1>3, <2>1
<1>8. ASSUME NEW r \in U, NEW s \in U PROVE r \o s \in U
  BY AvoidingAround, ConcatFacts
<1>9. ASSUME NEW r \in U, NEW s \in R PROVE r \o s \in R /\ s \o r \in R
  BY YieldsAround, ConcatFacts
<1>10. k \in DOMAIN seqs /\ InListingOrder(calls) = FlattenSeq(seqs)
  BY <1>4, <1>5 DEF InListingOrder
<1> HIDE DEF seqs, U, R
<1>11. InListingOrder(calls) \in R
  BY <1>4, <1>6, <1>7, <1>8, <1>9, <1>10, FlattenOne
<1> QED BY <1>11 DEF R

\* The cascade yields what its list yields, and removes one source.
Cascade(t, s, r) == \E flag \in {<<>>, <<Mark>>} : t = s \o flag \o <<DropSource(r)>>

LEMMA CascadeYields ==
    ASSUME NEW s \in Seq(Call), DropsOnly(s, {}), NEW r \in Refs, NEW t, Cascade(t, s, r)
    PROVE  /\ DropsOnly(t, {r})
           /\ \A n, lines, keys : Yields(s, n, lines, keys) => Yields(t, n, lines, keys)
<1>0. PICK flag \in {<<>>, <<Mark>>} : t = s \o flag \o <<DropSource(r)>>
  BY DEF Cascade
<1>1. PICK d, last : d = DropSource(r) /\ last = <<d>>
  OBVIOUS
<1>2. /\ Mark.call = "Mark" /\ d.call = "DeleteKeySource" /\ d.ref = r
      /\ \A n : ~ TouchesFile(Mark, n) /\ ~ TouchesMeta(Mark, n)
      /\ \A n : ~ TouchesFile(d, n) /\ ~ TouchesMeta(d, n)
  BY <1>1 DEF Mark, DropSource, TouchesFile, TouchesMeta
<1>3. Mark \in Call /\ d \in Call
  BY <1>1 DEF Call, DropSource
<1>4. flag \in Seq(Call) /\ last \in Seq(Call)
  BY <1>1, <1>3, EmptySeq, ShortSeqs
<1>5. (\A i \in DOMAIN flag : flag[i] = Mark) /\ DOMAIN last = {1} /\ last[1] = d
  <2>1. DOMAIN <<>> = {} /\ \A i \in DOMAIN <<Mark>> : <<Mark>>[i] = Mark
    BY EmptyLines
  <2> QED BY <1>1, <2>1
<1>6. /\ DropsOnly(s, {r}) /\ DropsOnly(flag, {r}) /\ DropsOnly(last, {r})
      /\ \A n : Avoids(flag, n) /\ Avoids(last, n)
  BY <1>2, <1>5 DEF DropsOnly, Avoids
<1>7. PICK u : u = s \o flag
  OBVIOUS
<1>8. u \in Seq(Call) /\ DropsOnly(u, {r})
  BY <1>4, <1>6, <1>7, DropsAround, ConcatFacts
<1>9. t = u \o last
  BY <1>0, <1>1, <1>7
<1>10. DropsOnly(t, {r})
  <2>1. DropsOnly(u \o last, {r})
    BY <1>4, <1>6, <1>8, DropsAround
  <2> QED BY <1>9, <2>1
<1>11. ASSUME NEW n, NEW lines, NEW keys, Yields(s, n, lines, keys)
       PROVE  Yields(t, n, lines, keys)
  <2>1. Yields(u, n, lines, keys)
    BY <1>4, <1>6, <1>7, <1>11, YieldsAround
  <2> QED BY <1>4, <1>6, <1>8, <1>9, <2>1, YieldsAround
<1> QED BY <1>10, <1>11

\* A subscription without the source that goes.
LEMMA WithoutFits ==
    ASSUME NEW keys \in KeyLists, InOrder(keys), NEW live, RefsOf(keys) \subseteq live, NEW r,
           NEW new, new = Without(keys, r)
    PROVE  new \in KeyLists /\ InOrder(new) /\ RefsOf(new) \subseteq live \ {r}
<1>1. PICK at : at = {i \in DOMAIN keys : keys[i].ref # r}
  OBVIOUS
<1>2. at \in SUBSET (DOMAIN keys) /\ new = SelectAt(keys, at)
  BY <1>1 DEF Without
<1>3. new \in KeyLists /\ InOrder(new) /\ RefsOf(new) \subseteq {keys[i].ref : i \in at} \ {NoRef}
  BY <1>2, SelectedInOrder
<1>4. {keys[i].ref : i \in at} \ {NoRef} \subseteq live \ {r}
  BY <1>1 DEF RefsOf
<1> QED BY <1>3, <1>4

LEMMA WithoutTyped ==
    ASSUME NEW keys \in KeyLists, NEW r
    PROVE  Without(keys, r) \in KeyLists
<1>1. {i \in DOMAIN keys : keys[i].ref # r} \in SUBSET (DOMAIN keys)
  OBVIOUS
<1> QED BY <1>1, SelectedTyped DEF Without

\* The calls that rewrite one subscription touch that name alone.
LEMMA RewriteIsOwn ==
    ASSUME NEW n \in Names, NEW keys \in KeyLists, NEW t,
           t \in {Publish(n, keys), <<PutFile(n, keys), UpsertMeta(n, StatusFor(keys), keys)>>}
    PROVE  /\ t \in Seq(Call) /\ DropsOnly(t, {}) /\ \A x : x # n => Avoids(t, x)
           /\ Yields(t, n, Published(keys), keys)
<1>1. Yields(t, n, Published(keys), keys) /\ DropsOnly(t, {})
  BY PublishYields
<1>2. CASE t = Publish(n, keys)
  BY <1>1, <1>2, PublishTypes, PublishSettles
<1>3. CASE t = <<PutFile(n, keys), UpsertMeta(n, StatusFor(keys), keys)>>
  <2>1. PutFile(n, keys) \in Call /\ UpsertMeta(n, StatusFor(keys), keys) \in Call
    BY CallTypes
  <2>2. t \in Seq(Call)
    BY <1>3, <2>1, ShortSeqs
  <2> QED BY <1>1, <1>3, <2>2, RewriteSettles
<1> QED BY <1>2, <1>3

\* What a name that is not rewritten has does not refer to the source that
\* goes, if its listing does not.
LEMMA UntouchedFits ==
    ASSUME TypeInv, NEW n, StoreFits(n), NEW r, n \in DOMAIN Listing => r \notin RefsOf(Listing[n].keys)
    PROVE  Fits(KeysIn(metas, n), LinesIn(files, n), Live \ {r})
<1>1. PICK keys, lines : keys = KeysIn(metas, n) /\ lines = LinesIn(files, n)
  OBVIOUS
<1>2. Matches(keys, lines) /\ RefsOf(PairWithLines(keys, lines)) \subseteq Live
  BY <1>1 DEF StoreFits, Fits
<1>3. r \notin RefsOf(PairWithLines(keys, lines))
  <2>1. CASE n \in DOMAIN Listing
    BY <1>1, <2>1, StoredTyped
  <2>2. CASE n \notin DOMAIN Listing
    <3>1. keys = <<>> /\ lines = <<>>
      BY <1>1, <2>2, StoredTyped
    <3>2. PairWithLines(keys, lines) = <<>>
      BY <3>1, PairNothing, EmptyKeyList
    <3> QED BY <3>2, EmptyInOrder
  <2> QED BY <2>1, <2>2
<1>4. Fits(keys, lines, Live \ {r})
  BY <1>2, <1>3 DEF Fits
<1> QED BY <1>1, <1>4

LEMMA AllNamesFit ==
    ASSUME Apart, StatusInv, TypeInv, ContentInv, NEW w \in Workers, NEW r,
           StartRegenerateAll(w) \/ PanelsAnswered(w) \/ DeleteSource(w, r) \/ SyncRun(w)
    PROVE  ContentInv'
<1>0. Live \ {} = Live
  OBVIOUS
<1>1. CASE StartRegenerateAll(w)
  <2>1. PICK j : j = Collecting(Listing, Live)
    OBVIOUS
  <2>2. j.phase = "collect" /\ j.subs = Listing /\ j.live = Live
    BY <2>1 DEF Collecting
  <2>3. /\ Continue(w, j) /\ UNCHANGED <<store, own>>
        /\ job[w].phase # "run" /\ "regenerateAll" \in Ops
    BY <1>1, <2>1, BeginIsNoRun DEF StartRegenerateAll, Begin
  <2>4. NamesOf[w] = Names
    BY <2>3 DEF Apart
  <2>5. ASSUME NEW n \in DOMAIN j.subs \ own PROVE InOrder(j.subs[n].keys)
    <3>1. n \in DOMAIN Listing /\ n \in Names
      BY <2>2, ListingType DEF IsBook
    <3> QED BY <2>2, <2>3, <2>4, <3>1, OwnListingFits
  <2>6. CollectFits(j)
    BY <2>2, <2>5 DEF CollectFits
  <2> QED BY <2>2, <2>3, <2>6, WaitFits
<1>2. CASE PanelsAnswered(w)
  <2> DEFINE subs == job[w].subs
             known == job[w].live
  <2>2. job[w].phase = "collect" /\ UNCHANGED store
    BY <1>2 DEF PanelsAnswered
  <2>3. /\ IsBook(subs) /\ known \in SUBSET Live /\ NamesOf[w] = Names
        /\ \A n \in DOMAIN subs \ own : InOrder(subs[n].keys)
    BY <2>2 DEF TypeInv, JobType, ContentInv, JobFits, CollectFits, StatusInv, JobSettles
  <2>4. PICK answered \in SUBSET Live, rebuilt \in SUBSET (DOMAIN subs) :
           /\ Continue(w, Running("regenerateAll", InListingOrder(
                  [n \in rebuilt |-> Publish(n, Refreshed(subs[n].keys, known, answered))])))
           /\ own' = own \ {n \in rebuilt : AllGenerated(Refreshed(subs[n].keys, known, answered))}
    <3> DEFINE wanted == (UNION {RefsOf(subs[n].keys) : n \in DOMAIN subs}) \cap known \cap PanelRefs
               back == {n \in DOMAIN subs : HasPanelKey(subs[n].keys, known)}
    <3>1. PICK answered \in SUBSET wanted :
             /\ Continue(w, Running("regenerateAll", InListingOrder(
                    [n \in back |-> Publish(n, Refreshed(subs[n].keys, known, answered))])))
             /\ own' = own \ {n \in back : AllGenerated(Refreshed(subs[n].keys, known, answered))}
      BY <1>2, Zenon DEF PanelsAnswered
    <3>2. answered \in SUBSET Live /\ back \in SUBSET (DOMAIN subs)
      BY <2>3
    <3> HIDE DEF wanted, back, subs, known
    <3> QED BY <3>1, <3>2
  <2> HIDE DEF subs, known
  <2>5. PICK calls : calls = [n \in rebuilt |-> Publish(n, Refreshed(subs[n].keys, known, answered))]
    OBVIOUS
  <2>6. PICK t : t = InListingOrder(calls)
    OBVIOUS
  <2>7. ASSUME NEW n \in rebuilt
        PROVE  /\ calls[n] \in Seq(Call) /\ DropsOnly(calls[n], {}) /\ \A x : x # n => Avoids(calls[n], x)
               /\ n \notin own' => \E lines, keys : Yields(calls[n], n, lines, keys) /\ Fits(keys, lines, Live)
    <3>1. PICK keys : keys = Refreshed(subs[n].keys, known, answered)
      OBVIOUS
    <3>2. n \in Names /\ subs[n].keys \in KeyLists
      BY <2>3 DEF IsBook, Record
    <3>3. keys \in KeyLists /\ OwnLinks(keys) /\ RefsOf(keys) \subseteq Live
      BY <2>3, <3>1, <3>2, RefreshedTyped, RefreshedOwns
    <3>4. ASSUME n \notin own' PROVE InOrder(keys)
      <4>1. n \notin own => AllGenerated(keys)
        BY <2>3, <3>1, <3>2, RefreshedOwns
      <4>2. n \in own => AllGenerated(keys)
        BY <2>4, <3>1, <3>4
      <4> QED BY <3>3, <4>1, <4>2, ResolvedInOrder
    <3>5. calls[n] = Publish(n, keys)
      BY <2>5, <3>1
    <3>6. /\ calls[n] \in Seq(Call) /\ DropsOnly(calls[n], {}) /\ \A x : x # n => Avoids(calls[n], x)
          /\ Yields(calls[n], n, Published(keys), keys)
      BY <3>2, <3>3, <3>5, RewriteIsOwn
    <3> QED BY <3>3, <3>4, <3>6, PublishedFits
  <2>8. OwnOnly(calls) /\ DOMAIN calls = rebuilt
    BY <2>5, <2>7 DEF OwnOnly
  <2>9. DropsOnly(t, {})
    BY <2>6, <2>8, ListOfCalls
  <2>10. ASSUME NEW n \in Names \ own', NameFits(n)
         PROVE  FitsAfter(t, n)
    <3>1. PICK lines, keys : YieldsIn(calls, n, lines, keys) /\ Fits(keys, lines, Live)
      <4>1. CASE n \in rebuilt
        BY <2>7, <2>8, <4>1 DEF YieldsIn
      <4>2. CASE n \notin rebuilt
        <5>1. n \notin own
          BY <2>4, <4>2
        <5> QED BY <2>8, <2>10, <4>2, <5>1, NothingYields, AvoidingYields DEF YieldsIn, NameFits
      <4> QED BY <4>1, <4>2
    <3>2. Yields(t, n, lines, keys)
      BY <2>6, <2>8, <3>1, ListYields
    <3> QED BY <1>0, <2>9, <3>1, <3>2, YieldsFits
  <2>11. \A i \in DOMAIN t : t[i].call # "DeleteKeySource"
    BY <2>9 DEF DropsOnly
  <2>12. Continue(w, Running("regenerateAll", t))
    BY <2>4, <2>5, <2>6
  <2>13. own \subseteq own' \cup NamesOf[w]
    BY <2>3, <2>4 DEF IsBook
  <2> QED BY <2>2, <2>10, <2>11, <2>12, <2>13, RunFits
<1>3. CASE DeleteSource(w, r)
  <2> DEFINE affected == {n \in DOMAIN Listing : r \in RefsOf(Listing[n].keys)}
             clean == [n \in affected |->
                         <<PutFile(n, Without(Listing[n].keys, r)),
                           UpsertMeta(n, StatusFor(Without(Listing[n].keys, r)), Without(Listing[n].keys, r))>>]
  <2>1. Begin(w, "deleteSource") /\ UNCHANGED <<store, own>> /\ r \in Refs
    BY <1>3 DEF DeleteSource, Live
  <2>2. PICK flag \in {<<>>, <<Mark>>} :
           Continue(w, Running("deleteSource", InListingOrder(clean) \o flag \o <<DropSource(r)>>))
    BY <1>3, Zenon DEF DeleteSource
  <2>3. NamesOf[w] = Names /\ "deleteSource" \in Ops /\ job[w].phase # "run"
    BY <2>1, BeginIsNoRun DEF Apart, Begin
  <2>4. PICK calls : calls = clean
    OBVIOUS
  <2>5. ASSUME NEW n \in affected
        PROVE  /\ calls[n] \in Seq(Call) /\ DropsOnly(calls[n], {}) /\ \A x : x # n => Avoids(calls[n], x)
               /\ n \notin own => \E lines, keys : Yields(calls[n], n, lines, keys) /\ Fits(keys, lines, Live \ {r})
    <3>1. n \in DOMAIN Listing /\ n \in Names
      BY ListingType DEF IsBook
    <3>2. PICK old, new : old = Listing[n].keys /\ new = Without(old, r)
      OBVIOUS
    <3>3. old \in KeyLists /\ (n \notin own => InOrder(old) /\ RefsOf(old) \subseteq Live)
      BY <2>3, <3>1, <3>2, OwnListingFits, ListingType DEF IsBook, Record
    <3>4. new \in KeyLists /\ (n \notin own => InOrder(new) /\ RefsOf(new) \subseteq Live \ {r})
      BY <3>2, <3>3, WithoutFits, WithoutTyped
    <3>5. PICK c : c = calls[n] /\ c = <<PutFile(n, new), UpsertMeta(n, StatusFor(new), new)>>
      BY <2>4, <3>2
    <3>7. c \in {Publish(n, new), <<PutFile(n, new), UpsertMeta(n, StatusFor(new), new)>>}
      BY <3>5
    <3>8. /\ c \in Seq(Call) /\ DropsOnly(c, {}) /\ \A x : x # n => Avoids(c, x)
          /\ Yields(c, n, Published(new), new)
      BY <3>1, <3>4, <3>7, RewriteIsOwn
    <3>6. /\ calls[n] \in Seq(Call) /\ DropsOnly(calls[n], {}) /\ \A x : x # n => Avoids(calls[n], x)
          /\ Yields(calls[n], n, Published(new), new)
      BY <3>5, <3>8
    <3> QED BY <3>4, <3>6, PublishedFits
  <2>6. OwnOnly(calls) /\ DOMAIN calls = affected
    BY <2>4, <2>5 DEF OwnOnly
  <2>7. PICK s, t : s = InListingOrder(calls) /\ t = s \o flag \o <<DropSource(r)>>
    OBVIOUS
  <2>8. Continue(w, Running("deleteSource", t))
    BY <2>2, <2>4, <2>7
  <2> HIDE DEF clean
  <2>9. s \in Seq(Call) /\ DropsOnly(s, {})
    BY <2>6, <2>7, ListOfCalls
  <2>10. /\ DropsOnly(t, {r})
         /\ \A n, lines, keys : Yields(s, n, lines, keys) => Yields(t, n, lines, keys)
    <3>1. Cascade(t, s, r)
      BY <2>2, <2>7 DEF Cascade
    <3> QED BY <2>1, <2>9, <3>1, CascadeYields
  <2>11. ASSUME NEW n \in Names \ own, NameFits(n)
         PROVE  FitsAfter(t, n)
    <3>1. PICK lines, keys : YieldsIn(calls, n, lines, keys) /\ Fits(keys, lines, Live \ {r})
      <4>1. CASE n \in affected
        BY <2>5, <2>6, <4>1 DEF YieldsIn
      <4>2. CASE n \notin affected
        <5>1. Fits(KeysIn(metas, n), LinesIn(files, n), Live \ {r})
          BY <2>11, <4>2, UntouchedFits DEF NameFits, StoreFits
        <5>2. YieldsIn(calls, n, LinesIn(files, n), KeysIn(metas, n))
          BY <2>6, <4>2, NothingYields, AvoidingYields DEF YieldsIn
        <5> QED BY <5>1, <5>2
      <4> QED BY <4>1, <4>2
    <3>2. Yields(s, n, lines, keys)
      BY <2>6, <2>7, <3>1, ListYields
    <3> QED BY <2>10, <3>1, <3>2, YieldsFits
  <2> QED BY <2>1, <2>3, <2>8, <2>11, RunFits
<1>4. CASE SyncRun(w)
  <2>1. PICK t : t = <<Script, Clear>>
    OBVIOUS
  <2>2. Continue(w, Running("sync", t)) /\ UNCHANGED <<store, own>> /\ job[w].phase # "run"
    BY <1>4, <2>1, BeginIsNoRun DEF SyncRun
  <2>3. \A i \in DOMAIN t : t[i].call \in {"Sync", "Clear"}
    BY <2>1 DEF Script, Clear
  <2>4. DropsOnly(t, {}) /\ \A n : Avoids(t, n)
    BY <2>3 DEF DropsOnly, Avoids, TouchesFile, TouchesMeta
  <2>5. ASSUME NEW n \in Names \ own, NameFits(n)
        PROVE  FitsAfter(t, n)
    <3>1. Yields(t, n, LinesIn(files, n), KeysIn(metas, n))
      BY <2>4, AvoidingYields
    <3> QED BY <1>0, <2>4, <2>5, <3>1, YieldsFits DEF NameFits
  <2>6. \A i \in DOMAIN t : t[i].call # "DeleteKeySource"
    BY <2>3
  <2> QED BY <2>2, <2>5, <2>6, RunFits
<1> QED BY <1>1, <1>2, <1>3, <1>4

-----------------------------------------------------------------------------
(* The calls of a request, one step each.                                    *)

\* What a call does to the stores, whichever of its four steps makes it.
Ran(c) == /\ files' = FilesAfter(c, files)
          /\ metas' = MetasAfter(c, metas)
          /\ sources' = SourcesAfter(c, sources)

LEMMA UntouchedRan ==
    ASSUME NEW c, Ran(c), NEW n
    PROVE  /\ ~ TouchesFile(c, n) => LinesIn(files', n) = LinesIn(files, n)
           /\ ~ TouchesMeta(c, n) => KeysIn(metas', n) = KeysIn(metas, n)
           /\ ~ TouchesFile(c, n) /\ ~ TouchesMeta(c, n) => Kept(n)
<1>1. ASSUME ~ TouchesFile(c, n)
      PROVE  (n \in DOMAIN files' <=> n \in DOMAIN files) /\ (n \in DOMAIN files => files'[n] = files[n])
  <2>1. CASE c.call = "WriteSubscriptionFile"
    <3>1. files' = Put(files, c.name, FileLines(c.keys)) /\ n # c.name
      BY <1>1, <2>1 DEF Ran, FilesAfter, TouchesFile
    <3> QED BY <3>1 DEF Put
  <2>2. CASE c.call = "RemoveSubscriptionFile"
    <3>1. files' = Drop(files, c.name) /\ n # c.name
      BY <1>1, <2>2 DEF Ran, FilesAfter, TouchesFile
    <3> QED BY <3>1 DEF Drop
  <2>3. CASE c.call = "RenameSubscriptionFile"
    <3>1. files' = Move(files, c.name, c.new) /\ n # c.name /\ n # c.new
      BY <1>1, <2>3 DEF Ran, FilesAfter, TouchesFile
    <3> QED BY <3>1 DEF Move, Put, Drop
  <2>4. CASE c.call \notin FileCalls
    BY <2>4 DEF Ran, FilesAfter, FileCalls
  <2> QED BY <2>1, <2>2, <2>3, <2>4 DEF FileCalls
<1>2. ASSUME ~ TouchesMeta(c, n)
      PROVE  (n \in DOMAIN metas' <=> n \in DOMAIN metas) /\ (n \in DOMAIN metas => metas'[n] = metas[n])
  <2>1. CASE c.call = "UpsertSubMeta"
    <3>1. metas' = Put(metas, c.name, c.rec) /\ n # c.name
      BY <1>2, <2>1 DEF Ran, MetasAfter, TouchesMeta
    <3> QED BY <3>1 DEF Put
  <2>2. CASE c.call = "DeleteSubMeta"
    <3>1. metas' = Drop(metas, c.name) /\ n # c.name
      BY <1>2, <2>2 DEF Ran, MetasAfter, TouchesMeta
    <3> QED BY <3>1 DEF Drop
  <2>3. CASE c.call \notin {"UpsertSubMeta", "DeleteSubMeta"}
    BY <2>3 DEF Ran, MetasAfter
  <2> QED BY <2>1, <2>2, <2>3
<1> QED BY <1>1, <1>2 DEF Kept, Same, LinesIn, KeysIn

\* A call that is not a rename leaves the same lines and keys over any stores.
LEMMA OverAnyStore ==
    ASSUME NEW c, c.call # "RenameSubscriptionFile", NEW n
    PROVE  /\ TouchesFile(c, n) => LinesIn(FilesAfter(c, files'), n) = LinesIn(FilesAfter(c, files), n)
           /\ TouchesMeta(c, n) => KeysIn(MetasAfter(c, metas'), n) = KeysIn(MetasAfter(c, metas), n)
<1>1. ASSUME TouchesFile(c, n)
      PROVE  LinesIn(FilesAfter(c, files'), n) = LinesIn(FilesAfter(c, files), n)
  <2>1. CASE c.call = "WriteSubscriptionFile"
    BY <1>1, <2>1 DEF TouchesFile, FilesAfter, Put, LinesIn
  <2>2. CASE c.call = "RemoveSubscriptionFile"
    BY <1>1, <2>2 DEF TouchesFile, FilesAfter, Drop, LinesIn
  <2> QED BY <1>1, <2>1, <2>2 DEF TouchesFile
<1>2. ASSUME TouchesMeta(c, n)
      PROVE  KeysIn(MetasAfter(c, metas'), n) = KeysIn(MetasAfter(c, metas), n)
  BY <1>2 DEF TouchesMeta, MetasAfter, Put, Drop, KeysIn
<1> QED BY <1>1, <1>2

\* The first call done, the rest yields what all the calls did.
LEMMA TailYields ==
    ASSUME NEW t, CallList(t), Ran(t[1]), NEW u, u = Tail(t),
           \A i \in DOMAIN t : t[i].call = "RenameSubscriptionFile" => i = 1,
           NEW n, NEW lines, NEW keys, Yields(t, n, lines, keys)
    PROVE  Yields(u, n, lines, keys)'
<1>1. /\ Len(t) \in Nat \ {0} /\ DOMAIN t = 1..Len(t)
      /\ DOMAIN u = 1..(Len(t) - 1) /\ \A i \in DOMAIN u : u[i] = t[i + 1]
  BY CallListFacts
<1>2. \A i \in DOMAIN u : i + 1 \in DOMAIN t /\ i + 1 # 1 /\ u[i] = t[i + 1]
  BY <1>1
<1>3. 1 \in DOMAIN t
  BY <1>1
<1>4. ASSUME NEW i \in DOMAIN t PROVE i = 1 \/ \E j \in DOMAIN u : u[j] = t[i]
  <2>1. i # 1 => i - 1 \in DOMAIN u /\ (i - 1) + 1 = i
    BY <1>1
  <2> QED BY <1>1, <2>1
<1>5. \A i \in DOMAIN u : u[i].call # "RenameSubscriptionFile"
  BY <1>2
<1>6. PICK c : c = t[1]
  OBVIOUS
<1>7. Ran(c)
  BY <1>6
<1>8. ASSUME NEW i \in DOMAIN u, TouchesFile(u[i], n)
      PROVE  LinesIn(FilesAfter(u[i], files'), n) = lines
  <2>1. LinesIn(FilesAfter(u[i], files), n) = lines
    BY <1>2, <1>8 DEF Yields
  <2> QED BY <1>5, <1>8, <2>1, OverAnyStore
<1>9. ASSUME NEW i \in DOMAIN u, TouchesMeta(u[i], n)
      PROVE  KeysIn(MetasAfter(u[i], metas'), n) = keys
  <2>1. KeysIn(MetasAfter(u[i], metas), n) = keys
    BY <1>2, <1>9 DEF Yields
  <2> QED BY <1>5, <1>9, <2>1, OverAnyStore
<1>10. ASSUME \A i \in DOMAIN u : ~ TouchesFile(u[i], n)
       PROVE  LinesIn(files', n) = lines
  <2>1. CASE TouchesFile(c, n)
    <3>1. LinesIn(FilesAfter(c, files), n) = lines
      BY <1>3, <1>6, <2>1 DEF Yields
    <3> QED BY <1>7, <3>1 DEF Ran
  <2>2. CASE ~ TouchesFile(c, n)
    <3>1. \A i \in DOMAIN t : ~ TouchesFile(t[i], n)
      BY <1>4, <1>6, <1>10, <2>2
    <3>2. LinesIn(files, n) = lines
      BY <3>1 DEF Yields
    <3> QED BY <1>7, <2>2, <3>2, UntouchedRan
  <2> QED BY <2>1, <2>2
<1>11. ASSUME \A i \in DOMAIN u : ~ TouchesMeta(u[i], n)
       PROVE  KeysIn(metas', n) = keys
  <2>1. CASE TouchesMeta(c, n)
    <3>1. KeysIn(MetasAfter(c, metas), n) = keys
      BY <1>3, <1>6, <2>1 DEF Yields
    <3> QED BY <1>7, <3>1 DEF Ran
  <2>2. CASE ~ TouchesMeta(c, n)
    <3>1. \A i \in DOMAIN t : ~ TouchesMeta(t[i], n)
      BY <1>4, <1>6, <1>11, <2>2
    <3>2. KeysIn(metas, n) = keys
      BY <3>1 DEF Yields
    <3> QED BY <1>7, <2>2, <3>2, UntouchedRan
  <2> QED BY <2>1, <2>2
<1> QED BY <1>8, <1>9, <1>10, <1>11 DEF Yields, TouchesFile, TouchesMeta

LEMMA TailLive ==
    ASSUME TypeInv, NEW t, CallList(t), Ran(t[1]), NEW u, u = Tail(t)
    PROVE  LiveAfter(t) \subseteq LiveAfter(u)'
<1>1. 1 \in DOMAIN t /\ \A i \in DOMAIN u : i + 1 \in DOMAIN t /\ u[i] = t[i + 1]
  <2>1. /\ Len(t) \in Nat \ {0} /\ DOMAIN t = 1..Len(t)
        /\ DOMAIN u = 1..(Len(t) - 1) /\ \A i \in DOMAIN u : u[i] = t[i + 1]
    BY CallListFacts
  <2> QED BY <2>1
<1>2. PICK c : c = t[1]
  OBVIOUS
<1>3. SUFFICES ASSUME NEW r \in LiveAfter(t) PROVE r \in LiveAfter(u)'
  OBVIOUS
<1>4. r \in Live /\ \A i \in DOMAIN t : t[i].call = "DeleteKeySource" => t[i].ref # r
  BY DEF LiveAfter
<1>5. r \in Live'
  <2>1. c.call = "DeleteKeySource" => c.ref # r
    BY <1>1, <1>2, <1>4
  <2>2. sources \in [Refs -> {"unborn", "live", "gone"}] /\ r \in Refs /\ sources[r] = "live"
    BY <1>4 DEF TypeInv, Live
  <2>3. sources' = SourcesAfter(c, sources)
    BY <1>2 DEF Ran
  <2>4. sources'[r] = "live"
    BY <2>1, <2>2, <2>3 DEF SourcesAfter
  <2> QED BY <2>2, <2>4 DEF Live
<1>6. \A i \in DOMAIN u : u[i].call = "DeleteKeySource" => u[i].ref # r
  BY <1>1, <1>4
<1> QED BY <1>5, <1>6 DEF LiveAfter

\* A call of a request: what its calls leave in the end stays the same.
LEMMA CallFits ==
    ASSUME Apart, StatusInv, TypeInv, ContentInv, NEW w \in Workers,
           CallFiles(w) \/ CallMetas(w) \/ CallMark(w) \/ CallScript(w)
    PROVE  ContentInv'
<1>1. PICK t, u, c : t = job[w].todo /\ u = Tail(t) /\ c = NextCall(w)
  OBVIOUS
<1>2. job[w].phase = "run" /\ Advance(w)
  BY DEF CallFiles, CallMetas, CallMark, CallScript, IsNext
<1>3. CallList(t) /\ KeepsTo(t, NamesOf[w]) /\ \A n \in NamesOf[w] : Settles(t, n)
  BY <1>1, <1>2 DEF StatusInv, JobSettles
<1>4. /\ 1 \in DOMAIN t /\ c = t[1]
      /\ \A i \in DOMAIN u : i + 1 \in DOMAIN t /\ u[i] = t[i + 1]
  <2>1. /\ Len(t) \in Nat \ {0} /\ DOMAIN t = 1..Len(t) /\ Head(t) = t[1]
        /\ DOMAIN u = 1..(Len(t) - 1) /\ \A i \in DOMAIN u : u[i] = t[i + 1]
    BY <1>1, <1>3, CallListFacts
  <2> QED BY <1>1, <2>1 DEF NextCall
<1>5. /\ \A v \in Workers \ {w} : job'[v] = job[v]
      /\ u = <<>> => job'[w] = Idle
      /\ u # <<>> => job'[w].phase = "run" /\ job'[w].todo = u
  BY <1>1, <1>2, AdvanceIs DEF StatusInv
<1>6. Todo(w)' = u /\ job'[w].phase \notin {"resolve", "collect"}
  <2>1. CASE u = <<>>
    <3>1. job'[w].phase = "idle"
      BY <1>5, <2>1 DEF Idle
    <3> QED BY <2>1, <3>1 DEF Todo
  <2>2. CASE u # <<>>
    BY <1>5, <2>2 DEF Todo
  <2> QED BY <2>1, <2>2
<1>7. Ran(c) /\ (c.call # "DeleteKeySource" => sources' = sources)
  <2>1. CASE CallFiles(w)
    <3>1. c.call \in FileCalls /\ files' = FilesAfter(c, files) /\ UNCHANGED <<metas, sources>>
      BY <1>1, <2>1 DEF CallFiles, IsNext
    <3> QED BY <3>1 DEF FileCalls, Ran, MetasAfter, SourcesAfter
  <2>2. CASE CallMetas(w)
    <3>1. /\ c.call \in MetaCalls /\ files' = files /\ metas' = MetasAfter(c, metas)
          /\ sources' = SourcesAfter(c, sources)
      BY <1>1, <2>2 DEF CallMetas, IsNext
    <3> QED BY <3>1 DEF MetaCalls, Ran, FilesAfter, SourcesAfter
  <2>3. CASE CallMark(w) \/ CallScript(w)
    <3>1. c.call \in {"Mark", "Clear", "Sync"} /\ UNCHANGED <<files, metas, sources>>
      BY <1>1, <2>3 DEF CallMark, CallScript, IsNext, store
    <3> QED BY <3>1 DEF Ran, FilesAfter, MetasAfter, SourcesAfter
  <2> QED BY <2>1, <2>2, <2>3
<1>8. \A n \in Names \ NamesOf[w] : Kept(n)
  <2> SUFFICES ASSUME NEW n \in Names \ NamesOf[w] PROVE Kept(n)
    OBVIOUS
  <2>1. ~ TouchesFile(c, n) /\ ~ TouchesMeta(c, n)
    BY <1>3, <1>4 DEF KeepsTo
  <2> QED BY <1>7, <2>1, UntouchedRan
<1>9. Todo(w) = t /\ JobFits(w)
  BY <1>1, <1>2, TodoIs DEF ContentInv
<1>17. own' = own
  BY DEF CallFiles, CallMetas, CallMark, CallScript
<1>10. \A n \in NamesOf[w] \ own : FitsAfter(t, n)
  BY <1>9 DEF JobFits, FitsAfter
<1>11. \A i \in DOMAIN t : t[i].call = "DeleteKeySource" => "deleteSource" \in Ops
  BY <1>9 DEF JobFits
<1>12. Live \subseteq Live' \/ "deleteSource" \in Ops
  <2>1. CASE c.call = "DeleteKeySource"
    BY <1>4, <1>11, <2>1
  <2>2. CASE c.call # "DeleteKeySource"
    BY <1>7, <2>2 DEF Live
  <2> QED BY <2>1, <2>2
<1>13. ASSUME NEW n \in NamesOf[w] \ own
       PROVE  FitsAfter(u, n)'
  <2>1. PICK keys, lines : keys = KeysAfter(t, n) /\ lines = LinesAfter(t, n)
    OBVIOUS
  <2>2. Yields(t, n, lines, keys)
    BY <1>3, <2>1, AfterYields
  <2>3. \A i \in DOMAIN t : t[i].call = "RenameSubscriptionFile" => i = 1
    BY <1>3 DEF KeepsTo
  <2>4. Ran(t[1])
    BY <1>4, <1>7
  <2>5. Yields(u, n, lines, keys)'
    BY <1>1, <1>3, <2>2, <2>3, <2>4, TailYields
  <2>6. Fits(keys, lines, LiveAfter(t))
    BY <1>10, <2>1 DEF FitsAfter
  <2>7. LiveAfter(t) \subseteq LiveAfter(u)'
    BY <1>1, <1>3, <2>4, TailLive
  <2>8. Fits(keys, lines, LiveAfter(u)')
    BY <2>6, <2>7 DEF Fits
  <2> QED BY <2>5, <2>8, YieldsNext
<1>14. \A n \in NamesOf[w] \ own : Fits(KeysAfter(Todo(w), n), LinesAfter(Todo(w), n), LiveAfter(Todo(w)))'
  <2> SUFFICES ASSUME NEW n \in NamesOf[w] \ own
               PROVE  Fits(KeysAfter(Todo(w), n), LinesAfter(Todo(w), n), LiveAfter(Todo(w)))'
    OBVIOUS
  <2>1. FitsAfter(u, n)'
    BY <1>13
  <2> QED BY <1>6, <2>1 DEF FitsAfter
<1>15. \A i \in DOMAIN u : u[i].call = "DeleteKeySource" => "deleteSource" \in Ops
  BY <1>4, <1>11
<1>16. JobFits(w)'
  BY <1>6, <1>14, <1>15, <1>17 DEF JobFits
<1> QED BY <1>5, <1>8, <1>12, <1>16, <1>17, OthersFit

\* Only the script can fail, and a request that runs it touches no store.
LEMMA FailureFits ==
    ASSUME Apart, StatusInv, TypeInv, ContentInv, NEW w \in Workers, CallFails(w)
    PROVE  ContentInv'
<1>1. PICK t : t = job[w].todo
  OBVIOUS
<1>2. job[w].phase = "run" /\ Continue(w, Idle) /\ UNCHANGED <<store, own>>
      /\ (Fails(NextCall(w)) \/ NextCall(w) = Script)
  BY DEF CallFails
<1>3. CallList(t) /\ KeepsTo(t, NamesOf[w])
  BY <1>1, <1>2 DEF StatusInv, JobSettles
<1>4. 1 \in DOMAIN t /\ NextCall(w) = t[1]
  BY <1>1, <1>3, CallListFacts DEF NextCall
<1>5. t[1].call = "Sync"
  BY <1>2, <1>3, <1>4 DEF KeepsTo, Fails, Script
<1>6. \A i \in DOMAIN t : t[i].call \in {"Sync", "Clear"}
  BY <1>3, <1>4, <1>5 DEF KeepsTo
<1>7. LiveAfter(t) = Live
  BY <1>6 DEF LiveAfter
<1>8. Todo(w) = t /\ JobFits(w)
  BY <1>1, <1>2, TodoIs DEF ContentInv
<1>9. PICK j : j = Idle
  OBVIOUS
<1>10. j.phase = "idle" /\ CallsOf(j) = <<>> /\ Continue(w, j)
  BY <1>2, <1>9 DEF Idle, CallsOf
<1>11. ASSUME NEW n \in NamesOf[w] \ own PROVE FitsAfter(<<>>, n)
  <2>1. FileSteps(t, n) = {} /\ MetaSteps(t, n) = {}
    BY <1>6 DEF FileSteps, MetaSteps, TouchesFile, TouchesMeta
  <2>2. KeysAfter(t, n) = KeysIn(metas, n) /\ LinesAfter(t, n) = LinesIn(files, n)
    BY <2>1 DEF KeysAfter, LinesAfter
  <2>3. Fits(KeysAfter(t, n), LinesAfter(t, n), LiveAfter(t))
    BY <1>8 DEF JobFits
  <2>4. StoreFits(n)
    BY <1>7, <2>2, <2>3 DEF StoreFits
  <2> QED BY <2>4, NothingYields
<1>12. \A n \in NamesOf[w] \ own : FitsAfter(CallsOf(j), n)
  BY <1>10, <1>11
<1>13. \A i \in DOMAIN CallsOf(j) : CallsOf(j)[i].call = "DeleteKeySource" => "deleteSource" \in Ops
  BY <1>10, EmptyLines
<1> QED BY <1>2, <1>10, <1>12, <1>13, RequestFits

-----------------------------------------------------------------------------
(* The theorems. *)

LEMMA ContentStep ==
    ASSUME Apart, ~ Crashes, StatusInv, TypeInv, ContentInv, [Next]_vars
    PROVE  ContentInv'
<1>1. CASE UNCHANGED <<files, metas, own, job>> /\ Live \subseteq Live'
  <2>1. \A n : Kept(n)
    BY <1>1 DEF Kept, Same
  <2>2. ASSUME NEW v \in Workers PROVE JobFits(v)'
    <3>1. job'[v] = job[v] /\ JobFits(v)
      BY <1>1 DEF ContentInv
    <3> QED BY <1>1, <2>1, <3>1, FrameFits
  <2>3. ASSUME NEW n \in Names, \A v \in Workers : n \notin NamesOf[v]
        PROVE  NameFits(n)'
    BY <1>1, <2>1, <2>3, KeptNameFits DEF ContentInv
  <2> QED BY <2>2, <2>3 DEF ContentInv
<1>2. ASSUME NEW w \in Workers, NEW n \in NamesOf[w], OnName(w, n)
      PROVE  ContentInv'
  BY <1>2, OnNameFits
<1>3. ASSUME NEW w \in Workers, StartRegenerateAll(w) \/ SyncRun(w)
      PROVE  ContentInv'
  <2>1. PICK r : TRUE
    OBVIOUS
  <2> QED BY <1>3, <2>1, AllNamesFit
<1>4. ASSUME NEW w \in Workers, NEW r \in Refs, DeleteSource(w, r)
      PROVE  ContentInv'
  BY <1>4, AllNamesFit
<1>5. ASSUME NEW w \in Workers, NEW r \in Refs, CreateSource(w, r)
      PROVE  ContentInv'
  <2>1. UNCHANGED <<files, metas, own, job>> /\ sources' = [sources EXCEPT ![r] = "live"]
    BY <1>5 DEF CreateSource
  <2>2. Live \subseteq Live'
    BY <2>1 DEF Live, TypeInv
  <2> QED BY <1>1, <2>1, <2>2
<1>6. ASSUME NEW w \in Workers, Proceed(w)
      PROVE  ContentInv'
  <2>1. CASE ResolveKey(w) \/ Resolved(w)
    BY <2>1, WaitingStepFits
  <2>2. CASE PanelsAnswered(w)
    <3>1. PICK r : TRUE
      OBVIOUS
    <3> QED BY <2>2, <3>1, AllNamesFit
  <2>3. CASE CallFiles(w) \/ CallMetas(w) \/ CallMark(w) \/ CallScript(w)
    BY <2>3, CallFits
  <2>4. CASE CallFails(w)
    BY <2>4, FailureFits
  <2> QED BY <1>6, <2>1, <2>2, <2>3, <2>4 DEF Proceed
<1>7. CASE Restart
  BY <1>7 DEF Restart
<1>8. CASE UNCHANGED vars
  <2>1. UNCHANGED <<files, metas, sources, own, job>>
    BY <1>8 DEF vars
  <2> QED BY <1>1, <2>1 DEF Live
<1> QED BY <1>2, <1>3, <1>4, <1>5, <1>6, <1>7, <1>8 DEF Next

LEMMA ContentInit ==
    ASSUME Init
    PROVE  ContentInv
<1>1. PICK D \in SUBSET {NameOrder[1]} : files \in [D -> {<<l>> : l \in LegacyLinks}]
  BY DEF Init
<1>2. DOMAIN metas = {} /\ job = [w \in Workers |-> Idle]
  BY DEF Init
<1>3. ASSUME NEW n PROVE StoreFits(n)
  <2>1. PICK lines : lines = LinesIn(files, n)
    OBVIOUS
  <2>2. lines = <<>> \/ \E l \in LegacyLinks : lines = <<l>>
    BY <1>1, <2>1 DEF LinesIn
  <2>3. lines \in Lines /\ \A i \in DOMAIN lines : lines[i] # Empty
    <3>1. CASE lines = <<>>
      BY <3>1, EmptyLines
    <3>2. ASSUME NEW l \in LegacyLinks, lines = <<l>>
          PROVE  lines \in Lines /\ \A i \in DOMAIN lines : lines[i] # Empty
      BY <3>2, LinkAssumption DEF Lines
    <3> QED BY <2>2, <3>1, <3>2
  <2>4. Matches(<<>>, lines)
    BY <2>3, EmptyLines DEF Matches
  <2>5. RefsOf(PairWithLines(<<>>, lines)) = {}
    BY <2>3, EmptyKeyList, RefsPaired, EmptyInOrder
  <2>6. KeysIn(metas, n) = <<>>
    BY <1>2 DEF KeysIn
  <2> QED BY <2>1, <2>4, <2>5, <2>6 DEF StoreFits, Fits
<1>4. ASSUME NEW w \in Workers PROVE JobFits(w)
  <2>1. job[w].phase = "idle" /\ Todo(w) = <<>>
    BY <1>2 DEF Idle, Todo
  <2>2. \A n : FitsAfter(<<>>, n)
    BY <1>3, NothingYields
  <2> QED BY <2>1, <2>2, EmptyLines DEF JobFits, FitsAfter
<1> QED BY <1>3, <1>4 DEF ContentInv, NameFits, StoreFits

\* The strengthening of LinksMatchRefs and NoDanglingRefs: at every moment of
\* every request, the keys, the lines and the KeySources that will be stored
\* when the calls it has still to make are made fit each other, and the keys
\* it holds in memory until then are those of a listing that did, or fit
\* whatever a client sent before.
THEOREM ContentInvariant ==
    ASSUME Apart, ~ Crashes
    PROVE  Spec => []ContentInv
<1>1. Init => ContentInv
  BY ContentInit
<1>2. StatusInv /\ TypeInv /\ ContentInv /\ [Next]_vars => ContentInv'
  BY ContentStep
<1> QED BY <1>1, <1>2, TypesInvariant, StatusInvariant, PTL DEF Spec

LEMMA SettledFits ==
    ASSUME ContentInv, NEW n \in Names, Settled(n)
    PROVE  NameFits(n)
<1>1. CASE \A w \in Workers : n \notin NamesOf[w]
  BY <1>1 DEF ContentInv
<1>2. CASE \E w \in Workers : n \in NamesOf[w]
  <2>1. PICK w \in Workers : n \in NamesOf[w]
    BY <1>2
  <2>2. job[w].phase # "run"
    BY <2>1 DEF Settled, Idle
  <2> QED BY <2>1, <2>2, WaitingFits
<1> QED BY <1>1, <1>2

\* LinksMatchRefs, every handler that writes a file or a record, in requests
\* about different names: once they are served, line i of a file is the link
\* of the KeySource that key i refers to, whatever was added, removed, replaced,
\* renamed, regenerated or deleted before, in any order, and whatever lists of
\* keys clients sent; a list that a client sent itself is not claimed to agree
\* until a regenerate, of it or of all, has resolved every key of it.
THEOREM LinksFollowRefs ==
    ASSUME Apart, ~ Crashes
    PROVE  Spec => []LinksMatchRefs
<1>1. TypeInv /\ ContentInv => LinksMatchRefs
  <2> SUFFICES ASSUME TypeInv, ContentInv, NEW n \in Names \ own, Settled(n) PROVE PairingAgrees(n)
    BY DEF LinksMatchRefs
  <2> SUFFICES ASSUME n \in DOMAIN Listing PROVE PairingAgrees(n)
    BY DEF PairingAgrees
  <2>1. InOrder(Listing[n].keys)
    BY SettledFits, ListingFits DEF NameFits, StoreFits
  <2> QED BY <2>1 DEF InOrder, PairingAgrees
<1> QED BY <1>1, TypesInvariant, ContentInvariant, PTL

\* NoDanglingRefs, the cascade of KeySourceService.Delete (README.md:231): once
\* the requests about a subscription are served, no key that the panel lists for
\* it refers to a KeySource that was deleted or never was, unless a client put
\* that reference there and nothing has regenerated the subscription since.
THEOREM RefsStayLive ==
    ASSUME Apart, ~ Crashes
    PROVE  Spec => []NoDanglingRefs
<1>1. TypeInv /\ ContentInv => NoDanglingRefs
  <2> SUFFICES ASSUME TypeInv, ContentInv, NEW n \in DOMAIN Listing \ own, Settled(n)
               PROVE  RefsOf(Listing[n].keys) \subseteq Live
    BY DEF NoDanglingRefs
  <2>1. n \in Names
    BY ListingType DEF IsBook
  <2> QED BY <2>1, SettledFits, ListingFits DEF NameFits, StoreFits
<1> QED BY <1>1, TypesInvariant, ContentInvariant, PTL

=============================================================================
