------------------------ MODULE Subscriptions_proofs ------------------------
(***************************************************************************)
(* Proofs about Subscriptions, for any number of names, KeySources, keys   *)
(* and requests:                                                           *)
(*   - status and file of a subscription agree, when requests at the same  *)
(*     time leave each other's subscriptions alone and none is cut off;    *)
(*   - the flag of the sync banner covers every change of a file, with one *)
(*     request at a time that may be cut off between any two calls.        *)
(* The keys and links are opaque here: neither depends on them.            *)
(***************************************************************************)
EXTENDS Subscriptions, SequenceTheorems, WellFoundedInduction, TLAPS

-----------------------------------------------------------------------------
(* Sequences, and the concatenation of a sequence of them.  The proofs by  *)
(* induction take the least index at which the claim fails.                *)

LEMMA LeastExists ==
    ASSUME NEW T, T \subseteq Nat, T # {}
    PROVE  \E i \in T : \A j \in T : i <= j
<1>1. PICK i \in T : \A j \in T : <<j, i>> \notin OpToRel(<, Nat)
  BY WFMin, NatLessThanWellFounded, Zenon
<1>2. \A j \in T : ~(j < i)
  BY <1>1, Zenon DEF OpToRel
<1> QED BY <1>2

LEMMA CallListFacts ==
    ASSUME NEW t, CallList(t)
    PROVE  /\ Len(t) \in Nat \ {0} /\ DOMAIN t = 1..Len(t) /\ Head(t) = t[1]
           /\ Len(Tail(t)) = Len(t) - 1 /\ DOMAIN Tail(t) = 1..(Len(t) - 1)
           /\ \A i \in DOMAIN Tail(t) : Tail(t)[i] = t[i + 1]
           /\ Tail(t) # <<>> => CallList(Tail(t))
<1> DEFINE S == Range(t)
<1>1. t \in Seq(S) /\ t # <<>>
  BY DEF CallList
<1> HIDE DEF S
<1>2. /\ Head(t) \in S /\ Tail(t) \in Seq(S)
      /\ Len(t) \in Nat \ {0} /\ DOMAIN t = 1..Len(t) /\ Head(t) = t[1]
      /\ Len(Tail(t)) = Len(t) - 1 /\ DOMAIN Tail(t) = 1..(Len(t) - 1)
      /\ \A i \in 1..(Len(t) - 1) : Tail(t)[i] = t[i + 1]
  BY <1>1, HeadTailProperties, EmptySeq, LenProperties
<1>3. Tail(t) \in Seq(Range(Tail(t)))
  BY <1>2, SeqOfRange
<1> QED BY <1>2, <1>3 DEF CallList

LEMMA IsCallList ==
    ASSUME NEW S, NEW t \in Seq(S), t # <<>>
    PROVE  CallList(t)
BY SeqOfRange DEF CallList

\* f concatenates the first k of seqs.
FlatUpTo(f, seqs, k) ==
    f = [i \in 1..k |-> IF i = 1 THEN seqs[i] ELSE f[i - 1] \o seqs[i]]

LEMMA FlatUpToExists ==
    ASSUME NEW S, NEW seqs \in Seq(S)
    PROVE  \E f : FlatUpTo(f, seqs, Len(seqs))
<1> DEFINE n == Len(seqs)
           bad == {k \in 0..n : ~ \E f : FlatUpTo(f, seqs, k)}
<1>1. n \in Nat
  BY LenProperties
<1> HIDE DEF n
<1>2. bad = {}
  <2> SUFFICES ASSUME bad # {} PROVE FALSE
    OBVIOUS
  <2>1. PICK k \in bad : \A j \in bad : k <= j
    <3>1. bad \subseteq Nat
      BY <1>1
    <3> HIDE DEF bad
    <3> QED BY <3>1, LeastExists
  <2>2. k # 0
    <3>1. \E f : f = [i \in 1..0 |-> IF i = 1 THEN seqs[i] ELSE f[i - 1] \o seqs[i]]
      <4>1. [i \in 1..0 |-> 0] = [i \in 1..0 |-> IF i = 1 THEN seqs[i]
                                   ELSE [j \in 1..0 |-> 0][i - 1] \o seqs[i]]
        OBVIOUS
      <4> QED BY <4>1
    <3> QED BY <2>1, <3>1 DEF FlatUpTo
  <2>3. k \in 1..n /\ k - 1 \in 0..n /\ k - 1 \notin bad
    BY <1>1, <2>1, <2>2
  <2>4. PICK f : FlatUpTo(f, seqs, k - 1)
    BY <2>3
  <2> DEFINE last == IF k = 1 THEN seqs[k] ELSE f[k - 1] \o seqs[k]
             g == [i \in 1..k |-> IF i = k THEN last ELSE f[i]]
  <2>5. g = [i \in 1..k |-> IF i = 1 THEN seqs[i] ELSE g[i - 1] \o seqs[i]]
    <3>1. f = [i \in 1..(k - 1) |-> IF i = 1 THEN seqs[i] ELSE f[i - 1] \o seqs[i]]
      BY <2>4 DEF FlatUpTo
    <3>2. ASSUME NEW i \in 1..k
          PROVE  g[i] = IF i = 1 THEN seqs[i] ELSE g[i - 1] \o seqs[i]
      <4>1. CASE i = k
        BY <1>1, <2>3, <4>1
      <4>2. CASE i # k
        <5>1. i \in 1..(k - 1) /\ (i # 1 => i - 1 \in 1..k /\ i - 1 # k)
          BY <1>1, <2>3, <4>2
        <5>2. g[i] = f[i] /\ (i # 1 => g[i - 1] = f[i - 1])
          BY <4>2, <5>1
        <5>3. f[i] = IF i = 1 THEN seqs[i] ELSE f[i - 1] \o seqs[i]
          BY <3>1, <5>1
        <5> QED BY <5>2, <5>3
      <4> QED BY <4>1, <4>2
    <3>3. g = [i \in 1..k |-> g[i]]
      OBVIOUS
    <3> HIDE DEF g
    <3> QED BY <3>2, <3>3
  <2>6. FlatUpTo(g, seqs, k)
    BY <2>5 DEF FlatUpTo
  <2> QED BY <2>1, <2>6
<1>3. n \in 0..n /\ n \notin bad
  <2>1. n \in 0..n
    BY <1>1
  <2>2. n \notin bad
    BY <1>2
  <2> QED BY <2>1, <2>2
<1> QED BY <1>3 DEF n

LEMMA FlattenSeqIs ==
    ASSUME NEW S, NEW seqs \in Seq(S), Len(seqs) > 0
    PROVE  \E f : /\ FlattenSeq(seqs) = f[Len(seqs)]
                  /\ f[1] = seqs[1]
                  /\ \A i \in 2..Len(seqs) : f[i] = f[i - 1] \o seqs[i]
<1> DEFINE f == CHOOSE f : FlatUpTo(f, seqs, Len(seqs))
<1>1. FlatUpTo(f, seqs, Len(seqs))
  BY FlatUpToExists, Zenon
<1>2. FlattenSeq(seqs) = f[Len(seqs)]
  BY LenProperties DEF FlattenSeq, FlatUpTo
<1>3. f = [i \in 1..Len(seqs) |-> IF i = 1 THEN seqs[i] ELSE f[i - 1] \o seqs[i]]
  BY <1>1 DEF FlatUpTo
<1> HIDE DEF f
<1>4. f[1] = seqs[1] /\ \A i \in 2..Len(seqs) : f[i] = f[i - 1] \o seqs[i]
  <2>1. PICK n \in Nat \ {0} : n = Len(seqs)
    BY LenProperties
  <2>2. \A i \in 1..n : f[i] = IF i = 1 THEN seqs[i] ELSE f[i - 1] \o seqs[i]
    BY <1>3, <2>1
  <2>3. f[1] = seqs[1]
    BY <2>2
  <2>4. ASSUME NEW i \in 2..n PROVE f[i] = f[i - 1] \o seqs[i]
    <3>1. i \in 1..n /\ i # 1
      BY <2>1
    <3> QED BY <2>2, <3>1
  <2> QED BY <2>1, <2>3, <2>4
<1> QED BY <1>2, <1>4

\* What holds of the parts and is kept by concatenation holds of the whole.
LEMMA FlattenStays ==
    ASSUME NEW G, NEW seqs \in Seq(G), Len(seqs) > 0, \A s, t \in G : s \o t \in G
    PROVE  FlattenSeq(seqs) \in G
<1> DEFINE n == Len(seqs)
<1>1. n \in Nat \ {0} /\ \A i \in 1..n : seqs[i] \in G
  BY LenProperties, ElementOfSeq
<1>2. PICK f : /\ FlattenSeq(seqs) = f[n] /\ f[1] = seqs[1]
               /\ \A i \in 2..n : f[i] = f[i - 1] \o seqs[i]
  BY FlattenSeqIs
<1> HIDE DEF n
<1> DEFINE bad == {i \in 1..n : f[i] \notin G}
<1>3. bad = {}
  <2> SUFFICES ASSUME bad # {} PROVE FALSE
    OBVIOUS
  <2>1. PICK k \in bad : \A j \in bad : k <= j
    <3>1. bad \subseteq Nat
      BY <1>1
    <3> HIDE DEF bad
    <3> QED BY <3>1, LeastExists
  <2>2. k # 1
    BY <1>1, <1>2, <2>1
  <2>3. k \in 2..n /\ k - 1 \in 1..n /\ k - 1 \notin bad
    BY <1>1, <2>1, <2>2
  <2>4. f[k] = f[k - 1] \o seqs[k] /\ f[k - 1] \in G /\ seqs[k] \in G
    BY <1>1, <1>2, <2>3
  <2> QED BY <2>1, <2>4
<1> QED BY <1>1, <1>2, <1>3

\* One part is in R and the others in U: then the whole is in R, if it does
\* not matter what of U comes before and after.
LEMMA FlattenOne ==
    ASSUME NEW S, NEW seqs \in Seq(S), NEW U, NEW R, NEW k \in DOMAIN seqs,
           seqs[k] \in R, \A i \in DOMAIN seqs : i # k => seqs[i] \in U,
           \A s, t \in U : s \o t \in U,
           \A s \in U, t \in R : s \o t \in R /\ t \o s \in R
    PROVE  FlattenSeq(seqs) \in R
<1> DEFINE n == Len(seqs)
<1>1. n \in Nat \ {0} /\ DOMAIN seqs = 1..n
  BY LenProperties
<1>2. PICK f : /\ FlattenSeq(seqs) = f[n] /\ f[1] = seqs[1]
               /\ \A i \in 2..n : f[i] = f[i - 1] \o seqs[i]
  <2>1. Len(seqs) > 0
    BY <1>1
  <2> QED BY <2>1, FlattenSeqIs
<1> HIDE DEF n
<1> DEFINE bad == {i \in 1..n : ~ IF i < k THEN f[i] \in U ELSE f[i] \in R}
<1>3. bad = {}
  <2> SUFFICES ASSUME bad # {} PROVE FALSE
    OBVIOUS
  <2>1. PICK j \in bad : \A i \in bad : j <= i
    <3>1. bad \subseteq Nat
      BY <1>1
    <3> HIDE DEF bad
    <3> QED BY <3>1, LeastExists
  <2>2. j # 1
    BY <1>1, <1>2, <2>1
  <2>3. j \in 2..n /\ j - 1 \in 1..n /\ j - 1 \notin bad
    BY <1>1, <2>1, <2>2
  <2>4. f[j] = f[j - 1] \o seqs[j] /\ IF j - 1 < k THEN f[j - 1] \in U ELSE f[j - 1] \in R
    BY <1>1, <1>2, <2>3
  <2>5. j \in DOMAIN seqs /\ (j - 1 < k <=> (j < k \/ j = k))
    BY <1>1, <2>3
  <2>6. CASE j < k
    <3>1. f[j - 1] \in U /\ seqs[j] \in U
      BY <1>1, <2>4, <2>5, <2>6
    <3>2. f[j] \in U
      BY <2>4, <3>1
    <3> QED BY <2>1, <2>6, <3>2
  <2>7. CASE j = k
    <3>1. f[j - 1] \in U /\ seqs[j] \in R
      BY <1>1, <2>4, <2>5, <2>7
    <3>2. f[j] \in R /\ ~(j < k)
      BY <1>1, <2>4, <2>7, <3>1
    <3> QED BY <2>1, <3>2
  <2>8. CASE ~(j < k) /\ j # k
    <3>1. f[j - 1] \in R /\ seqs[j] \in U
      BY <1>1, <2>4, <2>5, <2>8
    <3>2. f[j] \in R
      BY <2>4, <3>1
    <3> QED BY <2>1, <2>8, <3>2
  <2> QED BY <2>6, <2>7, <2>8
<1> QED BY <1>1, <1>2, <1>3

LEMMA ConcatFacts ==
    ASSUME NEW C, NEW s \in Seq(C), NEW t \in Seq(C)
    PROVE  /\ s \o t \in Seq(C) /\ Len(s) \in Nat /\ Len(t) \in Nat
           /\ DOMAIN s = 1..Len(s) /\ DOMAIN t = 1..Len(t)
           /\ DOMAIN (s \o t) = 1..(Len(s) + Len(t))
           /\ \A i \in DOMAIN s : i \in DOMAIN (s \o t) /\ (s \o t)[i] = s[i]
           /\ \A j \in DOMAIN t : /\ Len(s) + j \in DOMAIN (s \o t)
                                  /\ (s \o t)[Len(s) + j] = t[j]
           /\ \A i \in DOMAIN (s \o t) : \/ i \in DOMAIN s
                                         \/ \E j \in DOMAIN t : i = Len(s) + j
<1>1. PICK m \in Nat, n \in Nat : m = Len(s) /\ n = Len(t) /\ DOMAIN s = 1..m /\ DOMAIN t = 1..n
  BY LenProperties
<1>2. /\ s \o t \in Seq(C) /\ Len(s \o t) = m + n
      /\ \A i \in 1..(m + n) : (s \o t)[i] = IF i <= m THEN s[i] ELSE t[i - m]
  BY <1>1, ConcatProperties
<1>3. DOMAIN (s \o t) = 1..(m + n)
  BY <1>2, LenProperties
<1>4. \A i \in 1..m : i \in 1..(m + n) /\ i <= m
  OBVIOUS
<1>5. \A j \in 1..n : m + j \in 1..(m + n) /\ ~(m + j <= m) /\ (m + j) - m = j
  OBVIOUS
<1>6. \A i \in 1..(m + n) : i \notin 1..m => i - m \in 1..n /\ i = m + (i - m)
  OBVIOUS
<1>7. \A i \in DOMAIN s : i \in DOMAIN (s \o t) /\ (s \o t)[i] = s[i]
  BY <1>1, <1>2, <1>3, <1>4
<1>8. \A j \in DOMAIN t : m + j \in DOMAIN (s \o t) /\ (s \o t)[m + j] = t[j]
  BY <1>1, <1>2, <1>3, <1>5
<1>9. \A i \in DOMAIN (s \o t) : i \in DOMAIN s \/ \E j \in DOMAIN t : i = m + j
  BY <1>1, <1>3, <1>6
<1> QED BY <1>1, <1>2, <1>3, <1>7, <1>8, <1>9

\* What every name's calls are in, and concatenation keeps.
LEMMA InListingOrderStays ==
    ASSUME NEW calls, NEW G, <<>> \in G, \A n \in DOMAIN calls : calls[n] \in G,
           \A s, t \in G : s \o t \in G
    PROVE  InListingOrder(calls) \in G
<1> DEFINE seqs == [i \in DOMAIN NameOrder |->
                      IF NameOrder[i] \in DOMAIN calls THEN calls[NameOrder[i]] ELSE <<>>]
<1>1. DOMAIN NameOrder = 1..Len(NameOrder) /\ Len(NameOrder) \in Nat /\ Len(NameOrder) > 0
  BY NameAssumption, LenProperties
<1>2. seqs \in Seq(G) /\ Len(seqs) = Len(NameOrder)
  <2>1. seqs \in [1..Len(NameOrder) -> G]
    BY <1>1
  <2> HIDE DEF seqs
  <2>2. seqs \in Seq(G)
    BY <1>1, <2>1, IsASeq
  <2>3. Len(seqs) \in Nat /\ DOMAIN seqs = 1..Len(seqs)
    BY <2>2, LenProperties
  <2> QED BY <1>1, <2>1, <2>2, <2>3
<1>3. InListingOrder(calls) = FlattenSeq(seqs)
  BY DEF InListingOrder
<1> HIDE DEF seqs
<1> QED BY <1>1, <1>2, <1>3, FlattenStays

\* A set of calls that all the lists are over.
CallsIn(calls) == UNION {Range(calls[n]) : n \in DOMAIN calls}

LEMMA ListsOverCalls ==
    ASSUME NEW calls, \A n \in DOMAIN calls : CallList(calls[n])
    PROVE  \A n \in DOMAIN calls : calls[n] \in Seq(CallsIn(calls))
<1> SUFFICES ASSUME NEW n \in DOMAIN calls PROVE calls[n] \in Seq(CallsIn(calls))
  OBVIOUS
<1>1. calls[n] \in Seq(Range(calls[n])) /\ Range(calls[n]) \subseteq CallsIn(calls)
  BY DEF CallList, CallsIn
<1> QED BY <1>1, SeqMonotonic

-----------------------------------------------------------------------------
(* Jobs. *)

LEMMA JobChanges ==
    ASSUME job \in [Workers -> Range(job)], NEW w \in Workers, NEW j, Continue(w, j)
    PROVE  /\ job' \in [Workers -> Range(job')] /\ job'[w] = j
           /\ \A v \in Workers \ {w} : job'[v] = job[v]
<1>1. DOMAIN job' = Workers /\ job' = [v \in Workers |-> job'[v]] /\ job'[w] = j
      /\ \A v \in Workers \ {w} : job'[v] = job[v]
  BY DEF Continue
<1> QED BY <1>1 DEF Range

LEMMA RunningIs ==
    ASSUME NEW op, NEW t
    PROVE  /\ t = <<>> => Running(op, t) = Idle
           /\ t # <<>> => /\ Running(op, t).phase = "run" /\ Running(op, t).todo = t
                          /\ Running(op, t).op = op
BY DEF Running

-----------------------------------------------------------------------------
(* FlagCoversChange, one request at a time. *)

\* A list of calls for which no flag is down and no sync is part of.
Raises(t) ==
    /\ CallList(t) /\ Announced(t)
    /\ \A i \in DOMAIN t : /\ t[i].call = "Mark" => t[i] = Mark
                           /\ t[i].call \notin {"Sync", "Clear"}
                           /\ t[i].call = "RenameSubscriptionFile" => i = 1

LEMMA FlagOfOne ==
    ASSUME OneAtATime, FlagInv, NEW w \in Workers
    PROVE  /\ job \in [Workers -> Range(job)] /\ \A v \in Workers : v = w
           /\ job[w].phase \in {"idle", "resolve", "collect", "run"} /\ JobAnnounces(w)
           /\ stale /\ ~needed => job[w].phase = "run" /\ Mark \in Range(job[w].todo)
BY DEF OneAtATime, FlagInv, FlagCoversChange

\* A request of which no file call has been made yet starts or waits.
LEMMA RequestKeepsFlag ==
    ASSUME OneAtATime, FlagInv, NEW w \in Workers, job[w].phase # "run", NEW j,
           Continue(w, j), UNCHANGED <<needed, stale>>,
           \/ j.phase \in {"idle", "resolve", "collect"}
           \/ j.phase = "run" /\ (Raises(j.todo) \/ j.todo = <<Script, Clear>>)
    PROVE  FlagInv'
<1>1. stale => needed
  BY FlagOfOne
<1>2. /\ job' \in [Workers -> Range(job')] /\ job'[w] = j /\ \A v \in Workers : v = w
  BY FlagOfOne, JobChanges
<1>3. JobAnnounces(w)'
  <2>1. CASE j.phase # "run"
    BY <1>2, <2>1 DEF JobAnnounces
  <2>2. CASE j.phase = "run" /\ Raises(j.todo)
    BY <1>1, <1>2, <2>2 DEF JobAnnounces, Raises
  <2>3. CASE j.phase = "run" /\ j.todo = <<Script, Clear>>
    <3>1. CallList(<<Script, Clear>>)
      <4>1. <<Script, Clear>> \in Seq({Script, Clear}) /\ <<Script, Clear>> # <<>>
        OBVIOUS
      <4> QED BY <4>1, IsCallList
    <3>2. \A i \in DOMAIN <<Script, Clear>> :
             <<Script, Clear>>[i].call \in {"Sync", "Clear"}
      BY DEF Script, Clear
    <3>3. Announced(<<Script, Clear>>)
      BY <3>2 DEF Announced, FileCalls
    <3> QED BY <1>2, <2>3, <3>1, <3>2, <3>3 DEF JobAnnounces
  <2> QED BY <2>1, <2>2, <2>3
<1> QED BY <1>1, <1>2, <1>3 DEF FlagInv, FlagCoversChange

\* The calls of a request about one name.
LEMMA OneNameRaises ==
    ASSUME NEW c, NEW d, c.call \in FileCalls, c.call # "RenameSubscriptionFile",
           d.call \in MetaCalls
    PROVE  Raises(<<c, Mark, d>>) /\ Raises(<<d>>)
<1>1. CallList(<<c, Mark, d>>) /\ CallList(<<d>>)
  <2>1. <<c, Mark, d>> \in Seq({c, Mark, d}) /\ <<c, Mark, d>> # <<>>
    OBVIOUS
  <2>2. <<d>> \in Seq({d}) /\ <<d>> # <<>>
    OBVIOUS
  <2> QED BY <2>1, <2>2, IsCallList
<1>2. \A i \in DOMAIN <<c, Mark, d>> :
         \/ i = 1 /\ <<c, Mark, d>>[i] = c
         \/ i = 2 /\ <<c, Mark, d>>[i] = Mark
         \/ i = 3 /\ <<c, Mark, d>>[i] = d
  OBVIOUS
<1>3. 2 \in DOMAIN <<c, Mark, d>> /\ <<c, Mark, d>>[2] = Mark
  OBVIOUS
<1>4. Announced(<<c, Mark, d>>)
  BY <1>2, <1>3 DEF Announced, FileCalls, MetaCalls, Mark
<1>5. Raises(<<c, Mark, d>>)
  BY <1>1, <1>2, <1>4 DEF Raises, FileCalls, MetaCalls, Mark
<1>6. \A i \in DOMAIN <<d>> : <<d>>[i] = d
  OBVIOUS
<1>7. Raises(<<d>>)
  BY <1>1, <1>6 DEF Raises, Announced, FileCalls, MetaCalls
<1> QED BY <1>5, <1>7

LEMMA PublishRaises ==
    ASSUME NEW n, NEW keys
    PROVE  Raises(Publish(n, keys))
<1> DEFINE c == PutFile(n, keys)
           d == UpsertMeta(n, StatusFor(keys), keys)
<1>1. c.call \in FileCalls /\ c.call # "RenameSubscriptionFile"
  BY DEF PutFile, WriteFile, RemoveFile, FileCalls
<1>2. d.call \in MetaCalls
  BY DEF UpsertMeta, MetaCalls
<1>3. Publish(n, keys) = <<c, Mark, d>>
  BY DEF Publish
<1>4. Raises(<<c, Mark, d>>)
  <2> HIDE DEF c, d
  <2> QED BY <1>1, <1>2, OneNameRaises
<1> QED BY <1>3, <1>4, Zenon

\* Lists in a row: a renaming may only come first.
LEMMA ConcatRaises ==
    ASSUME NEW C, NEW s \in Seq(C), NEW t \in Seq(C), s = <<>> \/ Raises(s), Raises(t),
           \A i \in DOMAIN t : t[i].call # "RenameSubscriptionFile"
    PROVE  Raises(s \o t)
<1> DEFINE u == s \o t
<1>1. /\ u \in Seq(C) /\ Len(s) \in Nat /\ Len(t) \in Nat
      /\ DOMAIN s = 1..Len(s) /\ DOMAIN t = 1..Len(t) /\ DOMAIN u = 1..(Len(s) + Len(t))
      /\ \A i \in DOMAIN s : i \in DOMAIN u /\ u[i] = s[i]
      /\ \A j \in DOMAIN t : Len(s) + j \in DOMAIN u /\ u[Len(s) + j] = t[j]
      /\ \A i \in DOMAIN u : i \in DOMAIN s \/ \E j \in DOMAIN t : i = Len(s) + j
  BY ConcatFacts
<1> HIDE DEF u
<1>2. CallList(u)
  <2>1. Len(t) # 0
    BY CallListFacts DEF Raises
  <2>2. DOMAIN u # {}
    BY <1>1, <2>1
  <2>3. u # <<>>
    BY <2>2
  <2> QED BY <1>1, <2>3, IsCallList
<1>3. DOMAIN s # {} => Raises(s)
  OBVIOUS
<1>4. ASSUME NEW i \in DOMAIN u
      PROVE  /\ u[i].call = "Mark" => u[i] = Mark
             /\ u[i].call \notin {"Sync", "Clear"}
             /\ u[i].call = "RenameSubscriptionFile" => i = 1
  <2>1. CASE i \in DOMAIN s
    BY <1>1, <1>3, <2>1 DEF Raises
  <2>2. CASE \E j \in DOMAIN t : i = Len(s) + j
    BY <1>1, <2>2 DEF Raises
  <2> QED BY <1>1, <2>1, <2>2
<1>5. ASSUME NEW i \in DOMAIN u, u[i].call \in FileCalls
      PROVE  \E j \in DOMAIN u : i < j /\ u[j] = Mark
  <2>1. CASE i \in DOMAIN s
    <3>1. PICK j \in DOMAIN s : i < j /\ s[j] = Mark
      BY <1>1, <1>3, <1>5, <2>1 DEF Raises, Announced
    <3> QED BY <1>1, <3>1
  <2>2. CASE \E k \in DOMAIN t : i = Len(s) + k
    <3>1. PICK k \in DOMAIN t : i = Len(s) + k
      BY <2>2
    <3>2. PICK j \in DOMAIN t : k < j /\ t[j] = Mark
      BY <1>1, <1>5, <3>1 DEF Raises, Announced
    <3>3. Len(s) + j \in DOMAIN u /\ u[Len(s) + j] = Mark /\ i < Len(s) + j
      BY <1>1, <3>1, <3>2
    <3> QED BY <3>3
  <2> QED BY <1>1, <2>1, <2>2
<1> QED BY <1>2, <1>4, <1>5 DEF Raises, Announced, u

LEMMA RecordRaises ==
    ASSUME NEW c, NEW d, c.call \in MetaCalls, d.call \in MetaCalls
    PROVE  Raises(<<c, d>>) /\ \A i \in DOMAIN <<c, d>> : <<c, d>>[i].call # "RenameSubscriptionFile"
<1>1. CallList(<<c, d>>)
  <2>1. <<c, d>> \in Seq({c, d}) /\ <<c, d>> # <<>>
    OBVIOUS
  <2> QED BY <2>1, IsCallList
<1>2. \A i \in DOMAIN <<c, d>> : <<c, d>>[i] \in {c, d}
  OBVIOUS
<1> QED BY <1>1, <1>2 DEF Raises, Announced, FileCalls, MetaCalls

LEMMA RecordAloneRaises ==
    ASSUME NEW n, NEW st, NEW keys
    PROVE  Raises(<<UpsertMeta(n, st, keys)>>)
<1>1. UpsertMeta(n, st, keys).call \in MetaCalls
  BY DEF UpsertMeta, MetaCalls
<1>2. RemoveFile(n).call \in FileCalls /\ RemoveFile(n).call # "RenameSubscriptionFile"
  BY DEF RemoveFile, FileCalls
<1> QED BY <1>1, <1>2, OneNameRaises

LEMMA DeletionRaises ==
    ASSUME NEW n
    PROVE  Raises(<<RemoveFile(n), Mark, ForgetMeta(n)>>)
<1>1. ForgetMeta(n).call \in MetaCalls
  BY DEF ForgetMeta, MetaCalls
<1>2. RemoveFile(n).call \in FileCalls /\ RemoveFile(n).call # "RenameSubscriptionFile"
  BY DEF RemoveFile, FileCalls
<1> QED BY <1>1, <1>2, OneNameRaises

LEMMA MarkAfter ==
    ASSUME NEW c, c.call = "RenameSubscriptionFile"
    PROVE  Raises(<<c, Mark>>)
<1>1. CallList(<<c, Mark>>)
  <2>1. <<c, Mark>> \in Seq({c, Mark}) /\ <<c, Mark>> # <<>>
    OBVIOUS
  <2> QED BY <2>1, IsCallList
<1>2. \A i \in DOMAIN <<c, Mark>> : \/ i = 1 /\ <<c, Mark>>[i] = c
                                    \/ i = 2 /\ <<c, Mark>>[i] = Mark
  OBVIOUS
<1>3. 2 \in DOMAIN <<c, Mark>> /\ <<c, Mark>>[2] = Mark
  OBVIOUS
<1> QED BY <1>1, <1>2, <1>3 DEF Raises, Announced, FileCalls, Mark

LEMMA RenameRaises ==
    ASSUME NEW n, NEW new, NEW st, NEW keys, NEW p,
           p = <<>> \/ p = <<RenameFile(n, new), Mark>>
    PROVE  Raises(p \o <<ForgetMeta(n), UpsertMeta(new, st, keys)>>)
<1> DEFINE c == RenameFile(n, new)
           d == ForgetMeta(n)
           e == UpsertMeta(new, st, keys)
<1>1. c.call = "RenameSubscriptionFile" /\ d.call \in MetaCalls /\ e.call \in MetaCalls
  BY DEF RenameFile, ForgetMeta, UpsertMeta, MetaCalls
<1> HIDE DEF c, d, e
<1>2. p \in Seq({c, Mark, d, e}) /\ <<d, e>> \in Seq({c, Mark, d, e})
  <2>1. <<>> \in Seq({c, Mark, d, e}) /\ <<c, Mark>> \in Seq({c, Mark, d, e})
    OBVIOUS
  <2>3. <<d, e>> \in Seq({c, Mark, d, e})
    OBVIOUS
  <2>2. p = <<>> \/ p = <<c, Mark>>
    BY Zenon DEF c
  <2> QED BY <2>1, <2>2, <2>3
<1>3. p = <<>> \/ Raises(p)
  BY <1>1, MarkAfter DEF c
<1> QED BY <1>1, <1>2, <1>3, RecordRaises, ConcatRaises DEF d, e

LEMMA RunKeepsFlag ==
    ASSUME OneAtATime, FlagInv, NEW w \in Workers, job[w].phase # "run", NEW op, NEW t,
           Continue(w, Running(op, t)), UNCHANGED <<needed, stale>>,
           t = <<>> \/ Raises(t) \/ t = <<Script, Clear>>
    PROVE  FlagInv'
<1>1. CASE t = <<>>
  <2>1. Running(op, t).phase \in {"idle", "resolve", "collect"}
    BY <1>1, RunningIs DEF Idle
  <2> QED BY <2>1, RequestKeepsFlag
<1>2. CASE t # <<>>
  <2>1. Running(op, t).phase = "run" /\ Running(op, t).todo = t
    BY <1>2, RunningIs
  <2> QED BY <1>2, <2>1, RequestKeepsFlag
<1> QED BY <1>1, <1>2

LEMMA BeginIsNoRun ==
    ASSUME NEW w \in Workers, NEW op, Begin(w, op)
    PROVE  job[w].phase # "run"
BY DEF Begin, Idle

LEMMA OnNameKeepsFlag ==
    ASSUME OneAtATime, FlagInv, NEW w \in Workers, NEW n \in NamesOf[w], OnName(w, n)
    PROVE  FlagInv'
<1>1. CASE Create(w, n)
  <2>1. PICK refs : Continue(w, Resolving("create", n, NewKeys(refs), <<>>))
    BY <1>1 DEF Create
  <2>2. Resolving("create", n, NewKeys(refs), <<>>).phase = "resolve"
    BY DEF Resolving
  <2> QED BY <1>1, <2>1, <2>2, BeginIsNoRun, RequestKeepsFlag DEF Create
<1>2. CASE CreateLegacy(w, n)
  <2>1. PICK keys : Continue(w, Running("create", Publish(n, keys)))
    BY <1>2 DEF CreateLegacy
  <2> QED BY <1>2, <2>1, BeginIsNoRun, PublishRaises, RunKeepsFlag DEF CreateLegacy
<1>3. CASE Regenerate(w, n)
  <2>1. Resolving("regenerate", n, Listing[n].keys, <<>>).phase = "resolve"
    BY DEF Resolving
  <2> QED BY <1>3, <2>1, BeginIsNoRun, RequestKeepsFlag DEF Regenerate
<1>4. CASE \E new \in NamesOf[w] : RenameSubscription(w, n, new)
  <2>1. PICK new \in NamesOf[w] : RenameSubscription(w, n, new)
    BY <1>4
  <2> DEFINE p == IF n \in DOMAIN files THEN <<RenameFile(n, new), Mark>> ELSE <<>>
             t == p \o <<ForgetMeta(n), UpsertMeta(new, Listing[n].status, Listing[n].keys)>>
  <2>2. Begin(w, "rename") /\ Continue(w, Running("rename", t)) /\ UNCHANGED <<needed, stale>>
    BY <2>1 DEF RenameSubscription
  <2>3. Raises(t)
    BY RenameRaises
  <2> HIDE DEF t
  <2> QED BY <2>2, <2>3, BeginIsNoRun, RunKeepsFlag
<1>5. CASE AddRefs(w, n)
  <2>1. PICK st, keys : Continue(w, Running("addRefs", <<UpsertMeta(n, st, keys)>>))
    BY <1>5 DEF AddRefs
  <2> QED BY <1>5, <2>1, RecordAloneRaises, BeginIsNoRun, RunKeepsFlag DEF AddRefs
<1>6. CASE RemoveKey(w, n)
  <2>1. PICK keys : Continue(w, Running("removeKey", Publish(n, keys)))
    BY <1>6 DEF RemoveKey
  <2> QED BY <1>6, <2>1, BeginIsNoRun, PublishRaises, RunKeepsFlag DEF RemoveKey
<1>7. CASE ReplaceKeys(w, n)
  <2>1. PICK keys : Continue(w, Running("replaceKeys", Publish(n, keys)))
    BY <1>7 DEF ReplaceKeys
  <2> QED BY <1>7, <2>1, BeginIsNoRun, PublishRaises, RunKeepsFlag DEF ReplaceKeys
<1>8. CASE Delete(w, n)
  <2>1. Continue(w, Running("delete", <<RemoveFile(n), Mark, ForgetMeta(n)>>))
    BY <1>8 DEF Delete
  <2> QED BY <1>8, <2>1, DeletionRaises, BeginIsNoRun, RunKeepsFlag DEF Delete
<1> QED BY <1>1, <1>2, <1>3, <1>4, <1>5, <1>6, <1>7, <1>8 DEF OnName

LEMMA WaitingKeepsFlag ==
    ASSUME OneAtATime, FlagInv, NEW w \in Workers, ResolveKey(w) \/ Resolved(w)
    PROVE  FlagInv'
<1>1. CASE ResolveKey(w)
  <2>1. PICK j : Continue(w, j) /\ j.phase = "resolve"
    BY <1>1 DEF ResolveKey, Resolving
  <2> QED BY <1>1, <2>1, RequestKeepsFlag DEF ResolveKey
<1>2. CASE Resolved(w)
  <2>1. PICK t : Continue(w, Running(job[w].op, t)) /\ Raises(t)
    BY <1>2, PublishRaises, RecordAloneRaises DEF Resolved
  <2> QED BY <1>2, <2>1, RunKeepsFlag DEF Resolved
<1> QED BY <1>1, <1>2

NoRename(t) == \A i \in DOMAIN t : t[i].call # "RenameSubscriptionFile"

LEMMA PublishNoRename ==
    ASSUME NEW n, NEW keys
    PROVE  NoRename(Publish(n, keys))
<1> DEFINE c == PutFile(n, keys)
           d == UpsertMeta(n, StatusFor(keys), keys)
<1>1. c.call # "RenameSubscriptionFile" /\ d.call # "RenameSubscriptionFile"
      /\ Mark.call # "RenameSubscriptionFile"
  BY DEF PutFile, WriteFile, RemoveFile, UpsertMeta, Mark
<1>2. Publish(n, keys) = <<c, Mark, d>>
  BY DEF Publish
<1> HIDE DEF c, d
<1>3. \A i \in DOMAIN <<c, Mark, d>> : <<c, Mark, d>>[i] \in {c, Mark, d}
  OBVIOUS
<1> QED BY <1>1, <1>2, <1>3 DEF NoRename

\* One publication after the other, for as many names as there are.
LEMMA PublicationsRaise ==
    ASSUME NEW calls, \A n \in DOMAIN calls : Raises(calls[n]) /\ NoRename(calls[n])
    PROVE  InListingOrder(calls) = <<>> \/ Raises(InListingOrder(calls))
<1> DEFINE C == CallsIn(calls)
           G == {t \in Seq(C) : t = <<>> \/ (Raises(t) /\ NoRename(t))}
<1>1. \A n \in DOMAIN calls : calls[n] \in Seq(C)
  BY ListsOverCalls DEF Raises
<1> HIDE DEF C
<1>2. ASSUME NEW s \in G, NEW t \in G PROVE s \o t \in G
  <2>1. s \o t \in Seq(C)
    BY ConcatFacts
  <2>2. CASE t = <<>>
    BY <2>2, ConcatEmptySeq
  <2>3. CASE t # <<>>
    <3>1. Raises(s \o t)
      BY <2>3, ConcatRaises DEF NoRename
    <3>2. (s = <<>> \/ NoRename(s)) /\ NoRename(t)
      BY <2>3
    <3>3. NoRename(s)
      BY <3>2 DEF NoRename
    <3>4. NoRename(s \o t)
      <4> SUFFICES ASSUME NEW i \in DOMAIN (s \o t)
                   PROVE (s \o t)[i].call # "RenameSubscriptionFile"
        BY DEF NoRename
      <4>1. /\ \A k \in DOMAIN s : (s \o t)[k] = s[k]
            /\ \A j \in DOMAIN t : (s \o t)[Len(s) + j] = t[j]
            /\ i \in DOMAIN s \/ \E j \in DOMAIN t : i = Len(s) + j
        BY ConcatFacts
      <4> QED BY <3>2, <3>3, <4>1 DEF NoRename
    <3> QED BY <2>1, <3>1, <3>4
  <2> QED BY <2>2, <2>3
<1>3. <<>> \in G /\ \A n \in DOMAIN calls : calls[n] \in G
  BY <1>1, EmptySeq
<1> HIDE DEF G
<1>4. InListingOrder(calls) \in G
  BY <1>2, <1>3, InListingOrderStays
<1> QED BY <1>4 DEF G

Quiet(t) == \A i \in DOMAIN t :
    t[i].call \in {"WriteSubscriptionFile", "RemoveSubscriptionFile", "UpsertSubMeta"}

LEMMA RewriteIsQuiet ==
    ASSUME NEW n, NEW keys, NEW st
    PROVE  /\ CallList(<<PutFile(n, keys), UpsertMeta(n, st, keys)>>)
           /\ Quiet(<<PutFile(n, keys), UpsertMeta(n, st, keys)>>)
<1> DEFINE c == PutFile(n, keys)
           d == UpsertMeta(n, st, keys)
<1>1. c.call \in {"WriteSubscriptionFile", "RemoveSubscriptionFile"} /\ d.call = "UpsertSubMeta"
  BY DEF PutFile, WriteFile, RemoveFile, UpsertMeta
<1> HIDE DEF c, d
<1>2. CallList(<<c, d>>)
  <2>1. <<c, d>> \in Seq({c, d}) /\ <<c, d>> # <<>>
    OBVIOUS
  <2> QED BY <2>1, IsCallList
<1>3. \A i \in DOMAIN <<c, d>> : <<c, d>>[i] \in {c, d}
  OBVIOUS
<1>4. Quiet(<<c, d>>)
  BY <1>1, <1>3 DEF Quiet
<1> QED BY <1>2, <1>4 DEF c, d

\* The rewritten subscriptions of a deleted source, before the flag is raised.
LEMMA RewritesAreQuiet ==
    ASSUME NEW calls, \A n \in DOMAIN calls : CallList(calls[n]) /\ Quiet(calls[n])
    PROVE  /\ InListingOrder(calls) \in Seq(CallsIn(calls)) /\ Quiet(InListingOrder(calls))
           /\ DOMAIN calls = {} => InListingOrder(calls) = <<>>
<1> DEFINE C == CallsIn(calls)
           G == {t \in Seq(C) : Quiet(t)}
<1>1. \A n \in DOMAIN calls : calls[n] \in Seq(C)
  BY ListsOverCalls
<1> HIDE DEF C
<1>2. ASSUME NEW s \in G, NEW t \in G PROVE s \o t \in G
  <2>1. /\ s \o t \in Seq(C)
        /\ \A k \in DOMAIN s : (s \o t)[k] = s[k]
        /\ \A j \in DOMAIN t : (s \o t)[Len(s) + j] = t[j]
        /\ \A i \in DOMAIN (s \o t) : i \in DOMAIN s \/ \E j \in DOMAIN t : i = Len(s) + j
    BY ConcatFacts
  <2>2. Quiet(s) /\ Quiet(t)
    OBVIOUS
  <2>3. Quiet(s \o t)
    <3> SUFFICES ASSUME NEW i \in DOMAIN (s \o t)
                 PROVE (s \o t)[i].call \in
                         {"WriteSubscriptionFile", "RemoveSubscriptionFile", "UpsertSubMeta"}
      BY DEF Quiet
    <3> QED BY <2>1, <2>2 DEF Quiet
  <2> QED BY <2>1, <2>3
<1>3. <<>> \in G /\ \A n \in DOMAIN calls : calls[n] \in G
  BY <1>1, EmptySeq DEF Quiet
<1> HIDE DEF G
<1>4. InListingOrder(calls) \in G
  BY <1>2, <1>3, InListingOrderStays
<1>5. ASSUME DOMAIN calls = {} PROVE InListingOrder(calls) \in {<<>>}
  <2>1. <<>> \o <<>> = <<>>
    BY EmptySeq, ConcatEmptySeq
  <2> QED BY <1>5, <2>1, InListingOrderStays
<1> QED BY <1>4, <1>5 DEF G, C

LEMMA CascadeRaises ==
    ASSUME NEW C, NEW s \in Seq(C), Quiet(s), NEW r, NEW flag,
           flag = <<Mark>> \/ (flag = <<>> /\ s = <<>>)
    PROVE  Raises(s \o flag \o <<DropSource(r)>>)
<1> DEFINE d == DropSource(r)
           B == C \cup {Mark, d}
           u == s \o <<Mark>>
<1>1. d.call \in MetaCalls
  BY DEF DropSource, MetaCalls
<1> HIDE DEF d
<1>2. s \in Seq(B) /\ <<Mark>> \in Seq(B) /\ <<d>> \in Seq(B) /\ <<>> \in Seq(B)
  BY SeqMonotonic
<1>3. Raises(<<d>>) /\ \A i \in DOMAIN <<d>> : <<d>>[i].call # "RenameSubscriptionFile"
  <2>1. RemoveFile(r).call \in FileCalls /\ RemoveFile(r).call # "RenameSubscriptionFile"
    BY DEF RemoveFile, FileCalls
  <2>2. Raises(<<d>>)
    BY <1>1, <2>1, OneNameRaises
  <2>3. \A i \in DOMAIN <<d>> : <<d>>[i] = d
    OBVIOUS
  <2> QED BY <1>1, <2>2, <2>3 DEF MetaCalls
<1> HIDE DEF B
<1>4. CASE flag = <<>> /\ s = <<>>
  <2>1. s \o flag = <<>>
    BY <1>2, <1>4, ConcatEmptySeq
  <2>2. Raises(<<>> \o <<d>>)
    BY <1>2, <1>3, ConcatRaises
  <2> QED BY <2>1, <2>2 DEF d
<1>5. CASE flag = <<Mark>>
  <2>1. /\ u \in Seq(B) /\ Len(s) \in Nat
        /\ DOMAIN s = 1..Len(s) /\ DOMAIN u = 1..(Len(s) + 1)
        /\ \A i \in DOMAIN s : u[i] = s[i]
        /\ u[Len(s) + 1] = Mark
    <3>1. Len(<<Mark>>) = 1 /\ 1 \in DOMAIN <<Mark>> /\ <<Mark>>[1] = Mark
      OBVIOUS
    <3> QED BY <1>2, <3>1, ConcatFacts
  <2> HIDE DEF u
  <2>2. Len(s) + 1 \in DOMAIN u /\ \A i \in DOMAIN u : i # Len(s) + 1 => i \in DOMAIN s
    BY <2>1
  <2>3. CallList(u)
    <3>1. u # <<>>
      BY <2>2
    <3> QED BY <2>1, <3>1, IsCallList
  <2>4. Announced(u)
    <3> SUFFICES ASSUME NEW i \in DOMAIN u, u[i].call \in FileCalls
                 PROVE  \E j \in DOMAIN u : i < j /\ u[j] = Mark
      BY DEF Announced
    <3>1. i # Len(s) + 1
      BY <2>1 DEF Mark, FileCalls
    <3>2. i < Len(s) + 1
      BY <2>1, <2>2, <3>1
    <3> QED BY <2>1, <2>2, <3>2
  <2>5. ASSUME NEW i \in DOMAIN u
        PROVE  /\ u[i].call = "Mark" => u[i] = Mark
               /\ u[i].call \notin {"Sync", "Clear"}
               /\ u[i].call = "RenameSubscriptionFile" => i = 1
    <3>1. CASE i = Len(s) + 1
      BY <2>1, <3>1 DEF Mark
    <3>2. CASE i \in DOMAIN s
      BY <2>1, <3>2 DEF Quiet
    <3> QED BY <2>2, <3>1, <3>2
  <2>6. Raises(u)
    BY <2>3, <2>4, <2>5 DEF Raises
  <2> QED BY <1>2, <1>3, <1>5, <2>1, <2>6, ConcatRaises DEF u, d
<1> QED BY <1>4, <1>5

LEMMA AllNamesKeepFlag ==
    ASSUME OneAtATime, FlagInv, NEW w \in Workers, NEW r,
           StartRegenerateAll(w) \/ PanelsAnswered(w) \/ DeleteSource(w, r) \/ SyncRun(w)
    PROVE  FlagInv'
<1>1. CASE StartRegenerateAll(w)
  <2>1. Collecting(Listing, Live).phase = "collect"
    BY DEF Collecting
  <2> QED BY <1>1, <2>1, BeginIsNoRun, RequestKeepsFlag DEF StartRegenerateAll
<1>2. CASE PanelsAnswered(w)
  <2>1. PICK answered, rebuilt, known :
           Continue(w, Running("regenerateAll", InListingOrder(
               [n \in rebuilt |-> Publish(n, Refreshed(job[w].subs[n].keys, known, answered))])))
    BY <1>2 DEF PanelsAnswered
  <2> DEFINE calls == [n \in rebuilt |-> Publish(n, Refreshed(job[w].subs[n].keys, known, answered))]
             t == InListingOrder(calls)
  <2>2. \A n \in DOMAIN calls : Raises(calls[n]) /\ NoRename(calls[n])
    BY PublishRaises, PublishNoRename
  <2>3. Continue(w, Running("regenerateAll", t)) /\ job[w].phase # "run" /\ UNCHANGED <<needed, stale>>
    BY <1>2, <2>1 DEF PanelsAnswered
  <2> HIDE DEF calls
  <2>4. t = <<>> \/ Raises(t)
    BY <2>2, PublicationsRaise
  <2> HIDE DEF t
  <2> QED BY <2>3, <2>4, RunKeepsFlag
<1>3. CASE DeleteSource(w, r)
  <2> DEFINE rest(n) == Without(Listing[n].keys, r)
             affected == {n \in DOMAIN Listing : r \in RefsOf(Listing[n].keys)}
             clean == [n \in affected |->
                         <<PutFile(n, rest(n)), UpsertMeta(n, StatusFor(rest(n)), rest(n))>>]
             flag == IF affected = {} THEN <<>> ELSE <<Mark>>
             t == InListingOrder(clean) \o flag \o <<DropSource(r)>>
  <2>1. Begin(w, "deleteSource") /\ Continue(w, Running("deleteSource", t)) /\ UNCHANGED <<needed, stale>>
    BY <1>3, Zenon DEF DeleteSource
  <2>2. DOMAIN clean = affected
    OBVIOUS
  <2>3. \A n \in DOMAIN clean : CallList(clean[n]) /\ Quiet(clean[n])
    <3> SUFFICES ASSUME NEW n \in affected PROVE CallList(clean[n]) /\ Quiet(clean[n])
      BY <2>2
    <3>1. clean[n] = <<PutFile(n, rest(n)), UpsertMeta(n, StatusFor(rest(n)), rest(n))>>
      OBVIOUS
    <3> HIDE DEF clean, rest
    <3> QED BY <3>1, RewriteIsQuiet
  <2> HIDE DEF clean
  <2>4. /\ InListingOrder(clean) \in Seq(CallsIn(clean)) /\ Quiet(InListingOrder(clean))
        /\ affected = {} => InListingOrder(clean) = <<>>
    BY <2>2, <2>3, RewritesAreQuiet
  <2>5. flag = <<Mark>> \/ (flag = <<>> /\ affected = {})
    OBVIOUS
  <2> HIDE DEF affected, flag
  <2>6. Raises(t)
    BY <2>4, <2>5, CascadeRaises
  <2> HIDE DEF t
  <2> QED BY <2>1, <2>6, BeginIsNoRun, RunKeepsFlag
<1>4. CASE SyncRun(w)
  BY <1>4, BeginIsNoRun, RunKeepsFlag DEF SyncRun
<1> QED BY <1>1, <1>2, <1>3, <1>4

LEMMA TailOfTwo ==
    ASSUME NEW c, NEW d
    PROVE  Tail(<<c, d>>) = <<d>>
<1> DEFINE t == <<c, d>>
<1>1. t \in Seq({c, d}) /\ t # <<>> /\ Len(t) = 2 /\ t[2] = d
  OBVIOUS
<1> HIDE DEF t
<1>2. /\ Tail(t) \in Seq({c, d}) /\ Len(Tail(t)) = 1
      /\ \A i \in 1..1 : Tail(t)[i] = t[i + 1]
  BY <1>1, HeadTailProperties
<1>3. Tail(t)[1] = d
  BY <1>1, <1>2
<1>4. <<d>> \in Seq({c, d}) /\ Len(<<d>>) = 1 /\ <<d>>[1] = d
  OBVIOUS
<1> QED BY <1>2, <1>3, <1>4, SeqEqual DEF t

\* What is left of a todo list after a call other than the script.
LEMMA TailAnnounces ==
    ASSUME NEW w \in Workers, JobAnnounces(w), job[w].phase = "run",
           NextCall(w).call # "Sync", NEW u, u = Tail(job[w].todo)
    PROVE  /\ u # <<>> => CallList(u)
           /\ Announced(u)
           /\ \A i \in DOMAIN u : /\ u[i].call = "Mark" => u[i] = Mark
                                  /\ u[i].call \notin {"Sync", "Clear", "RenameSubscriptionFile"}
<1> DEFINE t == job[w].todo
<1>1. /\ CallList(t) /\ Announced(t)
      /\ \A i \in DOMAIN t :
             /\ t[i].call = "Mark" => t[i] = Mark
             /\ t[i].call \in {"Sync", "Clear"} => t = <<Script, Clear>> \/ t = <<Clear>>
             /\ t[i].call = "RenameSubscriptionFile" => i = 1
  BY DEF JobAnnounces
<1>2. /\ Len(t) \in Nat \ {0} /\ DOMAIN t = 1..Len(t) /\ NextCall(w) = t[1]
      /\ DOMAIN u = 1..(Len(t) - 1) /\ \A i \in DOMAIN u : u[i] = t[i + 1]
      /\ u # <<>> => CallList(u)
  BY <1>1, CallListFacts DEF NextCall
<1>3. \A i \in DOMAIN u : i + 1 \in DOMAIN t /\ i + 1 # 1
  BY <1>2
<1>4. t # <<Script, Clear>> /\ (t = <<Clear>> => DOMAIN u = {})
  <2>1. <<Script, Clear>>[1].call = "Sync" /\ Len(<<Clear>>) = 1
    BY DEF Script
  <2> QED BY <1>2, <2>1
<1> HIDE DEF t
<1>5. Announced(u)
  <2> SUFFICES ASSUME NEW i \in DOMAIN u, u[i].call \in FileCalls
               PROVE  \E j \in DOMAIN u : i < j /\ u[j] = Mark
    BY DEF Announced
  <2>1. PICK j \in DOMAIN t : i + 1 < j /\ t[j] = Mark
    BY <1>1, <1>2, <1>3 DEF Announced
  <2>2. j - 1 \in DOMAIN u /\ i < j - 1 /\ (j - 1) + 1 = j
    BY <1>2, <2>1
  <2> QED BY <1>2, <2>1, <2>2
<1> QED BY <1>1, <1>2, <1>3, <1>4, <1>5

LEMMA AdvanceIs ==
    ASSUME job \in [Workers -> Range(job)], NEW w \in Workers, Advance(w)
    PROVE  LET u == Tail(job[w].todo) IN
           /\ job' \in [Workers -> Range(job')]
           /\ \A v \in Workers \ {w} : job'[v] = job[v]
           /\ u = <<>> => job'[w] = Idle
           /\ u # <<>> => job'[w].phase = "run" /\ job'[w].todo = u /\ job'[w].op = job[w].op
<1> DEFINE u == Tail(job[w].todo)
<1>1. /\ job' \in [Workers -> Range(job')] /\ job'[w] = Running(job[w].op, u)
      /\ \A v \in Workers \ {w} : job'[v] = job[v]
  BY JobChanges DEF Advance
<1> HIDE DEF u
<1>2. /\ u = <<>> => job'[w] = Idle
      /\ u # <<>> => job'[w].phase = "run" /\ job'[w].todo = u /\ job'[w].op = job[w].op
  BY <1>1, RunningIs
<1> QED BY <1>1, <1>2 DEF u

LEMMA CallKeepsFlag ==
    ASSUME OneAtATime, FlagInv, NEW w \in Workers,
           CallFiles(w) \/ CallMetas(w) \/ CallMark(w) \/ CallScript(w)
    PROVE  FlagInv'
<1> DEFINE t == job[w].todo
           u == Tail(job[w].todo)
<1>1. job[w].phase = "run" /\ Advance(w) /\ NextCall(w).call \in FileCalls \cup MetaCalls \cup {"Mark", "Clear", "Sync"}
  BY DEF CallFiles, CallMetas, CallMark, CallScript, IsNext
<1>2. /\ \A v \in Workers : v = w
      /\ JobAnnounces(w) /\ (stale /\ ~needed => Mark \in Range(t))
      /\ CallList(t) /\ Announced(t)
      /\ \A i \in DOMAIN t :
             /\ t[i].call = "Mark" => t[i] = Mark
             /\ t[i].call \in {"Sync", "Clear"} => t = <<Script, Clear>> \/ (t = <<Clear>> /\ ~ stale)
  BY <1>1, FlagOfOne DEF JobAnnounces
<1>3. /\ Len(t) \in Nat \ {0} /\ DOMAIN t = 1..Len(t) /\ NextCall(w) = t[1]
      /\ DOMAIN u = 1..(Len(t) - 1) /\ \A i \in DOMAIN u : u[i] = t[i + 1]
  BY <1>2, CallListFacts DEF NextCall
<1>4. /\ job' \in [Workers -> Range(job')]
      /\ u = <<>> => job'[w] = Idle
      /\ u # <<>> => job'[w].phase = "run" /\ job'[w].todo = u
  BY <1>1, FlagOfOne, AdvanceIs
<1>5. ASSUME NEW j \in DOMAIN t, t[j] = Mark, j # 1
      PROVE  job'[w].phase = "run" /\ Mark \in Range(job'[w].todo)
  <2>1. j - 1 \in DOMAIN u /\ u[j - 1] = Mark
    BY <1>3, <1>5
  <2>2. u # <<>>
    BY <2>1
  <2> QED BY <1>4, <2>1, <2>2 DEF Range
<1> HIDE DEF t, u
<1>6. CASE CallScript(w)
  <2>1. NextCall(w).call = "Sync" /\ ~ stale'
    BY <1>6 DEF CallScript, IsNext
  <2>2. t = <<Script, Clear>>
    <3>1. <<Clear>>[1].call = "Clear"
      BY DEF Clear
    <3>2. 1 \in DOMAIN t
      BY <1>3
    <3> QED BY <1>2, <1>3, <2>1, <3>1, <3>2
  <2>3. u = <<Clear>>
    <3>1. Tail(<<Script, Clear>>) = <<Clear>>
      BY TailOfTwo
    <3> QED BY <2>2, <3>1 DEF u, t
  <2>4. JobAnnounces(w)'
    <3>1. <<Clear>> # <<>> /\ CallList(<<Clear>>)
      <4>1. <<Clear>> \in Seq({Clear}) /\ <<Clear>> # <<>>
        OBVIOUS
      <4> QED BY <4>1, IsCallList
    <3>2. \A i \in DOMAIN <<Clear>> : <<Clear>>[i].call = "Clear"
      BY DEF Clear
    <3>3. job'[w].todo = <<Clear>> /\ ~ stale'
      BY <1>4, <2>1, <2>3, <3>1
    <3> QED BY <3>1, <3>2, <3>3 DEF JobAnnounces, Announced, FileCalls
  <2> QED BY <1>2, <1>4, <2>1, <2>3, <2>4 DEF FlagInv, FlagCoversChange, Idle
<1>7. CASE NextCall(w).call # "Sync"
  <2>1. /\ u # <<>> => CallList(u)
        /\ Announced(u)
        /\ \A i \in DOMAIN u : /\ u[i].call = "Mark" => u[i] = Mark
                               /\ u[i].call \notin {"Sync", "Clear", "RenameSubscriptionFile"}
    BY <1>1, <1>2, <1>7, TailAnnounces DEF u
  <2>2. JobAnnounces(w)' /\ job'[w].phase \in {"idle", "run"}
    BY <1>4, <2>1 DEF JobAnnounces, Idle
  <2>3. stale' /\ ~needed' => job'[w].phase = "run" /\ Mark \in Range(job'[w].todo)
    <3>1. CASE CallFiles(w)
      <4>1. 1 \in DOMAIN t /\ t[1].call \in FileCalls
        BY <1>3, <3>1 DEF CallFiles, IsNext
      <4>2. PICK j \in DOMAIN t : 1 < j /\ t[j] = Mark
        BY <1>2, <4>1 DEF Announced
      <4> QED BY <1>3, <1>5, <4>2
    <3>2. CASE CallMetas(w)
      <4>1. UNCHANGED <<stale, needed>> /\ t[1].call \in MetaCalls
        BY <1>3, <3>2 DEF CallMetas, IsNext
      <4>2. t[1] # Mark
        BY <4>1 DEF Mark, MetaCalls
      <4>3. Mark \in Range(t) => \E j \in DOMAIN t : t[j] = Mark
        BY DEF Range
      <4> QED BY <1>2, <1>5, <4>1, <4>2, <4>3
    <3>3. CASE CallMark(w)
      <4>1. t[1].call \in {"Mark", "Clear"} /\ needed' = (t[1] = Mark) /\ stale' = stale /\ 1 \in DOMAIN t
        BY <1>3, <3>3 DEF CallMark, IsNext
      <4>2. t[1].call = "Clear" => ~ stale
        <5>1. <<Script, Clear>>[1].call = "Sync"
          BY DEF Script
        <5> QED BY <1>2, <4>1, <5>1
      <4> QED BY <1>2, <4>1, <4>2
    <3> QED BY <1>7, <3>1, <3>2, <3>3 DEF CallScript, IsNext
  <2> QED BY <1>2, <1>4, <2>2, <2>3 DEF FlagInv, FlagCoversChange
<1>8. CallScript(w) \/ NextCall(w).call # "Sync"
  BY DEF CallFiles, CallMetas, CallMark, IsNext, FileCalls, MetaCalls
<1> QED BY <1>6, <1>7, <1>8

\* A call that fails ends the request: the file it was about is unchanged, or
\* the script has not copied it and the flag is still up.
LEMMA FailureKeepsFlag ==
    ASSUME OneAtATime, FlagInv, NEW w \in Workers, CallFails(w)
    PROVE  FlagInv'
<1> DEFINE t == job[w].todo
<1>1. job[w].phase = "run" /\ Continue(w, Idle) /\ UNCHANGED <<needed, stale>>
      /\ (Fails(NextCall(w)) \/ NextCall(w) = Script)
  BY DEF CallFails
<1>2. job' \in [Workers -> Range(job')] /\ job'[w] = Idle
  BY <1>1, FlagOfOne, JobChanges
<1>3. /\ \A v \in Workers : v = w
      /\ JobAnnounces(w) /\ (stale /\ ~needed => Mark \in Range(t)) /\ CallList(t)
  BY <1>1, FlagOfOne DEF JobAnnounces
<1>4. 1 \in DOMAIN t /\ NextCall(w) = t[1]
  BY <1>3, CallListFacts DEF NextCall
<1>5. stale => needed
  <2>1. CASE Fails(NextCall(w))
    BY <1>1, <1>3, <1>4, <2>1 DEF JobAnnounces, Fails
  <2>2. CASE NextCall(w) = Script
    <3>1. t = <<Script, Clear>>
      <4>1. <<Clear>>[1].call = "Clear" /\ Script.call = "Sync"
        BY DEF Clear, Script
      <4> QED BY <1>1, <1>3, <1>4, <2>2, <4>1 DEF JobAnnounces
    <3>2. Range(<<Script, Clear>>) = {Script, Clear}
      BY DEF Range
    <3>3. Mark \notin {Script, Clear}
      <4>1. Mark.call = "Mark" /\ Script.call = "Sync" /\ Clear.call = "Clear"
        BY DEF Mark, Script, Clear
      <4> QED BY <4>1
    <3> QED BY <1>3, <3>1, <3>2, <3>3
  <2> QED BY <1>1, <2>1, <2>2
<1> QED BY <1>1, <1>2, <1>3, <1>5 DEF FlagInv, FlagCoversChange, JobAnnounces, Idle

LEMMA FlagStep ==
    ASSUME OneAtATime, FlagInv, [Next]_vars
    PROVE  FlagInv'
<1>1. CASE UNCHANGED vars
  BY <1>1 DEF FlagInv, FlagCoversChange, JobAnnounces, vars
<1>2. ASSUME NEW w \in Workers, NEW n \in NamesOf[w], OnName(w, n)
      PROVE  FlagInv'
  BY <1>2, OnNameKeepsFlag
<1>3. ASSUME NEW w \in Workers, StartRegenerateAll(w) \/ SyncRun(w)
      PROVE  FlagInv'
  <2>1. PICK r : TRUE
    OBVIOUS
  <2> QED BY <1>3, <2>1, AllNamesKeepFlag
<1>4. ASSUME NEW w \in Workers, NEW r \in Refs, DeleteSource(w, r)
      PROVE  FlagInv'
  BY <1>4, AllNamesKeepFlag
<1>5. ASSUME NEW w \in Workers, NEW r \in Refs, CreateSource(w, r)
      PROVE  FlagInv'
  BY <1>5 DEF FlagInv, FlagCoversChange, JobAnnounces, CreateSource
<1>6. ASSUME NEW w \in Workers, Proceed(w)
      PROVE  FlagInv'
  <2>1. CASE ResolveKey(w) \/ Resolved(w)
    BY <2>1, WaitingKeepsFlag
  <2>2. CASE PanelsAnswered(w)
    <3>1. PICK r : TRUE
      OBVIOUS
    <3> QED BY <2>2, <3>1, AllNamesKeepFlag
  <2>3. CASE CallFiles(w) \/ CallMetas(w) \/ CallMark(w) \/ CallScript(w)
    BY <2>3, CallKeepsFlag
  <2>4. CASE CallFails(w)
    BY <2>4, FailureKeepsFlag
  <2> QED BY <1>6, <2>1, <2>2, <2>3, <2>4 DEF Proceed
<1>7. CASE Restart
  <2>1. needed' /\ job' = [w \in Workers |-> Idle]
    BY <1>7 DEF Restart
  <2>2. job' \in [Workers -> Range(job')]
    BY <2>1 DEF Range
  <2> QED BY <2>1, <2>2 DEF FlagInv, FlagCoversChange, JobAnnounces, Idle
<1> QED BY <1>1, <1>2, <1>3, <1>4, <1>5, <1>6, <1>7 DEF Next

\* The strengthening of FlagCoversChange, of every step and every restart.
THEOREM FlagInvariant ==
    ASSUME OneAtATime
    PROVE  Spec => []FlagInv
<1>1. Init => FlagInv
  <2> SUFFICES ASSUME Init PROVE FlagInv
    OBVIOUS
  <2>1. needed /\ job = [w \in Workers |-> Idle]
    BY DEF Init
  <2>2. job \in [Workers -> Range(job)]
    BY <2>1 DEF Range
  <2> QED BY <2>1, <2>2 DEF FlagInv, FlagCoversChange, JobAnnounces, Idle
<1>2. FlagInv /\ [Next]_vars => FlagInv'
  BY FlagStep
<1> QED BY <1>1, <1>2, PTL DEF Spec

\* FlagCoversChange, the sync banner (SyncState): with one request at a time,
\* when the flag is down, the aggregator holds what the files say, or the
\* request that changed a file is about to raise it - across restarts, scripts
\* that fail and calls that end a request with an error.
THEOREM BannerTellsTheTruth ==
    ASSUME OneAtATime
    PROVE  Spec => []FlagCoversChange
<1>1. FlagInv => FlagCoversChange
  BY DEF FlagInv
<1> QED BY <1>1, FlagInvariant, PTL

-----------------------------------------------------------------------------
(* StatusMatchesFile, requests apart.  What a list of calls does to one    *)
(* name: the call that touches the file and the one that stores the        *)
(* status are enough to tell whether the two agree afterwards.             *)

Avoids(t, n) == \A i \in DOMAIN t : ~ TouchesFile(t[i], n) /\ ~ TouchesMeta(t[i], n)

LEMMA AvoidingSettles ==
    ASSUME NEW t, NEW n, Avoids(t, n), StatusAgrees(n)
    PROVE  Settles(t, n)
<1>1. FileSteps(t, n) = {} /\ MetaSteps(t, n) = {}
  BY DEF Avoids, FileSteps, MetaSteps
<1> QED BY <1>1 DEF Settles

\* One record is stored, for the file as it is.
LEMMA RecordSettles ==
    ASSUME NEW t, NEW n, NEW j \in DOMAIN t,
           \A i \in DOMAIN t : ~ TouchesFile(t[i], n),
           \A i \in DOMAIN t : TouchesMeta(t[i], n) <=> i = j,
           t[j].call = "UpsertSubMeta" => (t[j].rec.status = "active" <=> n \in DOMAIN files)
    PROVE  Settles(t, n)
<1>1. FileSteps(t, n) = {} /\ MetaSteps(t, n) = {j}
  BY DEF FileSteps, MetaSteps
<1> QED BY <1>1 DEF Settles

\* The file is changed, then its record stored.
LEMMA PairSettles ==
    ASSUME NEW t, NEW n, NEW k \in DOMAIN t, NEW j \in DOMAIN t, k < j,
           \A i \in DOMAIN t : TouchesFile(t[i], n) <=> i = k,
           \A i \in DOMAIN t : TouchesMeta(t[i], n) <=> i = j,
           t[j].call = "UpsertSubMeta" => (t[j].rec.status = "active" <=> Creates(t[k], n))
    PROVE  Settles(t, n)
<1>1. FileSteps(t, n) = {k} /\ MetaSteps(t, n) = {j}
  BY DEF FileSteps, MetaSteps
<1> QED BY <1>1 DEF Settles

\* Calls that avoid n, before or after, do not matter.
LEMMA AvoidingAround ==
    ASSUME NEW C, NEW s \in Seq(C), NEW t \in Seq(C), NEW n, Avoids(s, n)
    PROVE  /\ Avoids(t, n) => Avoids(s \o t, n)
           /\ Settles(t, n) => Settles(s \o t, n) /\ Settles(t \o s, n)
<1> DEFINE u == s \o t
           v == t \o s
<1>1. /\ Len(s) \in Nat /\ Len(t) \in Nat
      /\ DOMAIN s = 1..Len(s) /\ DOMAIN t = 1..Len(t)
      /\ \A i \in DOMAIN s : i \in DOMAIN u /\ u[i] = s[i]
      /\ \A j \in DOMAIN t : Len(s) + j \in DOMAIN u /\ u[Len(s) + j] = t[j]
      /\ \A i \in DOMAIN u : i \in DOMAIN s \/ \E j \in DOMAIN t : i = Len(s) + j
  BY ConcatFacts
<1>2. /\ \A i \in DOMAIN t : i \in DOMAIN v /\ v[i] = t[i]
      /\ \A j \in DOMAIN s : Len(t) + j \in DOMAIN v /\ v[Len(t) + j] = s[j]
      /\ \A i \in DOMAIN v : i \in DOMAIN t \/ \E j \in DOMAIN s : i = Len(t) + j
  BY ConcatFacts
<1> HIDE DEF u, v
<1>3. Avoids(t, n) => Avoids(u, n)
  BY <1>1 DEF Avoids
<1>4. ASSUME Settles(t, n) PROVE Settles(v, n)
  <2>1. FileSteps(v, n) = FileSteps(t, n) /\ MetaSteps(v, n) = MetaSteps(t, n)
    <3>1. ASSUME NEW i \in DOMAIN v, TouchesFile(v[i], n) \/ TouchesMeta(v[i], n)
          PROVE  i \in DOMAIN t
      BY <1>2, <3>1 DEF Avoids
    <3> QED BY <1>2, <3>1 DEF FileSteps, MetaSteps
  <2>2. \A i \in MetaSteps(t, n) \cup FileSteps(t, n) : v[i] = t[i]
    BY <1>2 DEF FileSteps, MetaSteps
  <2> QED BY <1>4, <2>1, <2>2 DEF Settles
<1>5. ASSUME Settles(t, n) PROVE Settles(u, n)
  <2> DEFINE k == Len(s)
             F == FileSteps(t, n)
             M == MetaSteps(t, n)
  <2>1. /\ \A i \in F : k + i \in FileSteps(u, n)
        /\ \A i \in FileSteps(u, n) : \E j \in F : i = k + j
        /\ \A i \in M : k + i \in MetaSteps(u, n)
        /\ \A i \in MetaSteps(u, n) : \E j \in M : i = k + j
    <3>1. ASSUME NEW i \in DOMAIN u, TouchesFile(u[i], n) \/ TouchesMeta(u[i], n)
          PROVE  \E j \in DOMAIN t : i = k + j /\ u[i] = t[j]
      BY <1>1, <3>1 DEF Avoids
    <3>2. \A i \in DOMAIN t : k + i \in DOMAIN u /\ u[k + i] = t[i]
      BY <1>1
    <3> QED BY <3>1, <3>2 DEF FileSteps, MetaSteps
  <2>2. \A i \in F \cup M : i \in Nat /\ u[k + i] = t[i]
    BY <1>1 DEF FileSteps, MetaSteps
  <2>3. k \in Nat
    BY <1>1
  <2>4. /\ \A i, j \in F : i = j
        /\ \A i, j \in M : i = j
        /\ \A i \in F : \E j \in M : i < j
        /\ M = {} => StatusAgrees(n)
        /\ \A i \in M : t[i].call = "UpsertSubMeta" =>
             (t[i].rec.status = "active" <=>
                 IF F = {} THEN n \in DOMAIN files ELSE \A j \in F : Creates(t[j], n))
    BY <1>5 DEF Settles
  <2> HIDE DEF k, F, M
  <2> DEFINE FU == FileSteps(u, n)
             MU == MetaSteps(u, n)
  <2> HIDE DEF FU, MU
  <2>5. /\ \A i \in F : k + i \in FU
        /\ \A i \in FU : \E j \in F : i = k + j
        /\ \A i \in M : k + i \in MU
        /\ \A i \in MU : \E j \in M : i = k + j
    BY <2>1 DEF FU, MU
  <2>6. /\ \A i, j \in FU : i = j
        /\ \A i, j \in MU : i = j
        /\ \A i \in FU : \E j \in MU : i < j
        /\ MU = {} => StatusAgrees(n)
    <3>1. \A i, j \in FU : i = j
      BY <2>4, <2>5
    <3>2. \A i, j \in MU : i = j
      BY <2>4, <2>5
    <3>3. ASSUME NEW i \in FU PROVE \E j \in MU : i < j
      <4>1. PICK x \in F : i = k + x
        BY <2>5
      <4>2. PICK y \in M : x < y
        BY <2>4
      <4>3. k + y \in MU /\ k + x < k + y
        BY <2>2, <2>3, <2>5, <4>2
      <4> QED BY <4>1, <4>3
    <3>4. MU = {} => M = {}
      BY <2>5
    <3> QED BY <2>4, <3>1, <3>2, <3>3, <3>4
  <2>7. ASSUME NEW i \in MU, u[i].call = "UpsertSubMeta"
        PROVE  u[i].rec.status = "active" <=>
                 IF FU = {} THEN n \in DOMAIN files ELSE \A j \in FU : Creates(u[j], n)
    <3>1. PICK y \in M : i = k + y
      BY <2>5
    <3>2. u[i] = t[y]
      BY <2>2, <3>1
    <3>3. FU = {} <=> F = {}
      BY <2>5
    <3>4. (\A j \in FU : Creates(u[j], n)) <=> \A j \in F : Creates(t[j], n)
      BY <2>2, <2>5
    <3>5. t[y].rec.status = "active" <=>
                 IF F = {} THEN n \in DOMAIN files ELSE \A j \in F : Creates(t[j], n)
      BY <2>4, <2>7, <3>2
    <3> QED BY <3>2, <3>3, <3>4, <3>5
  <2> QED BY <2>6, <2>7 DEF Settles, FU, MU
<1> QED BY <1>3, <1>4, <1>5 DEF u, v

\* What each call touches.
LEMMA Touching ==
    ASSUME NEW m, NEW new, NEW n, NEW keys, NEW st, NEW r
    PROVE  /\ TouchesFile(PutFile(m, keys), n) <=> n = m
           /\ ~ TouchesMeta(PutFile(m, keys), n)
           /\ Creates(PutFile(m, keys), n) <=> keys # <<>>
           /\ TouchesFile(RemoveFile(m), n) <=> n = m
           /\ ~ TouchesMeta(RemoveFile(m), n)
           /\ TouchesFile(RenameFile(m, new), n) <=> n \in {m, new}
           /\ ~ TouchesMeta(RenameFile(m, new), n)
           /\ Creates(RenameFile(m, new), n) <=> n = new
           /\ ~ TouchesFile(UpsertMeta(m, st, keys), n)
           /\ TouchesMeta(UpsertMeta(m, st, keys), n) <=> n = m
           /\ ~ TouchesFile(ForgetMeta(m), n)
           /\ TouchesMeta(ForgetMeta(m), n) <=> n = m
           /\ \A c \in {Mark, Script, Clear, DropSource(r)} :
                ~ TouchesFile(c, n) /\ ~ TouchesMeta(c, n)
<1>1. PutFile(m, keys) = IF keys = <<>> THEN RemoveFile(m) ELSE WriteFile(m, keys)
  BY DEF PutFile
<1>2. /\ WriteFile(m, keys).call = "WriteSubscriptionFile" /\ WriteFile(m, keys).name = m
      /\ RemoveFile(m).call = "RemoveSubscriptionFile" /\ RemoveFile(m).name = m
  BY DEF WriteFile, RemoveFile
<1>3. /\ RenameFile(m, new).call = "RenameSubscriptionFile"
      /\ RenameFile(m, new).name = m /\ RenameFile(m, new).new = new
  BY DEF RenameFile
<1>4. /\ UpsertMeta(m, st, keys).call = "UpsertSubMeta" /\ UpsertMeta(m, st, keys).name = m
      /\ ForgetMeta(m).call = "DeleteSubMeta" /\ ForgetMeta(m).name = m
  BY DEF UpsertMeta, ForgetMeta
<1>5. /\ Mark.call = "Mark" /\ Script.call = "Sync" /\ Clear.call = "Clear"
      /\ DropSource(r).call = "DeleteKeySource"
  BY DEF Mark, Script, Clear, DropSource
<1>6. /\ TouchesFile(PutFile(m, keys), n) <=> n = m
      /\ ~ TouchesMeta(PutFile(m, keys), n)
      /\ Creates(PutFile(m, keys), n) <=> keys # <<>>
      /\ TouchesFile(RemoveFile(m), n) <=> n = m
      /\ ~ TouchesMeta(RemoveFile(m), n)
  BY <1>1, <1>2 DEF TouchesFile, TouchesMeta, Creates
<1>7. /\ TouchesFile(RenameFile(m, new), n) <=> n \in {m, new}
      /\ ~ TouchesMeta(RenameFile(m, new), n)
      /\ Creates(RenameFile(m, new), n) <=> n = new
  BY <1>3 DEF TouchesFile, TouchesMeta, Creates
<1>8. /\ ~ TouchesFile(UpsertMeta(m, st, keys), n)
      /\ TouchesMeta(UpsertMeta(m, st, keys), n) <=> n = m
      /\ ~ TouchesFile(ForgetMeta(m), n)
      /\ TouchesMeta(ForgetMeta(m), n) <=> n = m
  BY <1>4 DEF TouchesFile, TouchesMeta
<1>9. \A c \in {Mark, Script, Clear, DropSource(r)} : ~ TouchesFile(c, n) /\ ~ TouchesMeta(c, n)
  BY <1>5 DEF TouchesFile, TouchesMeta
<1> QED BY <1>6, <1>7, <1>8, <1>9

\* Lists without a renaming and a script.
Plain(t) == \A i \in DOMAIN t : t[i].call \notin {"RenameSubscriptionFile", "Sync"}

LEMMA PlainKeepsTo ==
    ASSUME NEW t, NEW names, Plain(t), \A n \in Names \ names : Avoids(t, n)
    PROVE  KeepsTo(t, names)
BY DEF Plain, Avoids, KeepsTo

\* The calls about m, three in a row: the file, the flag, the record.
LEMMA ThreeCalls ==
    ASSUME NEW c, NEW d, NEW m,
           c.call \in FileCalls, c.call # "RenameSubscriptionFile", d.call \in MetaCalls,
           \A n : (TouchesFile(c, n) <=> n = m) /\ ~ TouchesMeta(c, n),
           \A n : (TouchesMeta(d, n) <=> n = m) /\ ~ TouchesFile(d, n),
           d.call = "UpsertSubMeta" => (d.rec.status = "active" <=> Creates(c, m))
    PROVE  LET t == <<c, Mark, d>> IN
           /\ CallList(t) /\ Plain(t)
           /\ \A n : n # m => Avoids(t, n)
           /\ \A n \in Names : StatusAgrees(n) => Settles(t, n)
<1> DEFINE t == <<c, Mark, d>>
<1>1. CallList(t)
  <2>1. t \in Seq({c, Mark, d}) /\ t # <<>>
    OBVIOUS
  <2> QED BY <2>1, IsCallList
<1>2. /\ DOMAIN t = 1..3 /\ t[1] = c /\ t[2] = Mark /\ t[3] = d
  OBVIOUS
<1> HIDE DEF t
<1>3. \A i \in DOMAIN t : i = 1 \/ i = 2 \/ i = 3
  BY <1>2
<1>4. Plain(t)
  BY <1>2, <1>3 DEF Plain, FileCalls, MetaCalls, Mark
<1>5. \A n : ~ TouchesFile(Mark, n) /\ ~ TouchesMeta(Mark, n)
  BY DEF TouchesFile, TouchesMeta, Mark
<1>6. ASSUME NEW n, n # m PROVE Avoids(t, n)
  BY <1>2, <1>3, <1>5, <1>6 DEF Avoids
<1>7. ASSUME NEW n \in Names, StatusAgrees(n) PROVE Settles(t, n)
  <2>1. CASE n = m
    <3>1. \A i \in DOMAIN t : TouchesFile(t[i], n) <=> i = 1
      BY <1>2, <1>3, <1>5, <2>1
    <3>2. \A i \in DOMAIN t : TouchesMeta(t[i], n) <=> i = 3
      BY <1>2, <1>3, <1>5, <2>1
    <3>3. 1 \in DOMAIN t /\ 3 \in DOMAIN t /\ 1 < 3
      BY <1>2
    <3> QED BY <1>2, <2>1, <3>1, <3>2, <3>3, PairSettles
  <2>2. CASE n # m
    BY <1>6, <1>7, <2>2, AvoidingSettles
  <2> QED BY <2>1, <2>2
<1> QED BY <1>1, <1>4, <1>6, <1>7 DEF t

LEMMA PublishSettles ==
    ASSUME NEW m, NEW keys
    PROVE  /\ CallList(Publish(m, keys)) /\ Plain(Publish(m, keys))
           /\ \A n : n # m => Avoids(Publish(m, keys), n)
           /\ \A n \in Names : StatusAgrees(n) => Settles(Publish(m, keys), n)
<1> DEFINE c == PutFile(m, keys)
           d == UpsertMeta(m, StatusFor(keys), keys)
<1>1. c.call \in FileCalls /\ c.call # "RenameSubscriptionFile"
  BY DEF PutFile, WriteFile, RemoveFile, FileCalls
<1>2. d.call \in MetaCalls /\ (d.rec.status = "active" <=> keys # <<>>)
  BY DEF UpsertMeta, MetaCalls, StatusFor
<1>3. \A n : (TouchesFile(c, n) <=> n = m) /\ ~ TouchesMeta(c, n)
  BY Touching
<1>4. \A n : (TouchesMeta(d, n) <=> n = m) /\ ~ TouchesFile(d, n)
  BY Touching
<1>5. Creates(c, m) <=> keys # <<>>
  BY Touching
<1>6. Publish(m, keys) = <<c, Mark, d>>
  BY DEF Publish
<1> HIDE DEF c, d
<1>7. LET t == <<c, Mark, d>> IN
      /\ CallList(t) /\ Plain(t)
      /\ \A n : n # m => Avoids(t, n)
      /\ \A n \in Names : StatusAgrees(n) => Settles(t, n)
  BY <1>1, <1>2, <1>3, <1>4, <1>5, ThreeCalls
<1> QED BY <1>6, <1>7

LEMMA DeletionSettles ==
    ASSUME NEW m, NEW t, t = <<RemoveFile(m), Mark, ForgetMeta(m)>>
    PROVE  /\ CallList(t) /\ Plain(t)
           /\ \A n : n # m => Avoids(t, n)
           /\ \A n \in Names : StatusAgrees(n) => Settles(t, n)
<1> DEFINE c == RemoveFile(m)
           d == ForgetMeta(m)
<1>1. c.call \in FileCalls /\ c.call # "RenameSubscriptionFile"
  BY DEF RemoveFile, FileCalls
<1>2. d.call \in MetaCalls /\ d.call # "UpsertSubMeta"
  BY DEF ForgetMeta, MetaCalls
<1>3. \A n : (TouchesFile(c, n) <=> n = m) /\ ~ TouchesMeta(c, n)
  BY Touching
<1>4. \A n : (TouchesMeta(d, n) <=> n = m) /\ ~ TouchesFile(d, n)
  BY Touching
<1> HIDE DEF c, d
<1>5. t = <<c, Mark, d>>
  BY DEF c, d
<1>6. LET s == <<c, Mark, d>> IN
      /\ CallList(s) /\ Plain(s)
      /\ \A n : n # m => Avoids(s, n)
      /\ \A n \in Names : StatusAgrees(n) => Settles(s, n)
  BY <1>1, <1>2, <1>3, <1>4, ThreeCalls
<1> QED BY <1>5, <1>6

LEMMA ListingStatus ==
    ASSUME NEW n \in DOMAIN Listing
    PROVE  /\ Taken(n)
           /\ StatusAgrees(n) => (Listing[n].status = "active" <=> n \in DOMAIN files)
BY DEF Listing, ListSubscriptions, Taken, StatusAgrees

LEMMA RecordAloneSettles ==
    ASSUME NEW m, NEW st, NEW keys, NEW t, t = <<UpsertMeta(m, st, keys)>>,
           st = "active" <=> m \in DOMAIN files
    PROVE  /\ CallList(t) /\ Plain(t)
           /\ \A n : n # m => Avoids(t, n)
           /\ \A n \in Names : StatusAgrees(n) => Settles(t, n)
<1> DEFINE d == UpsertMeta(m, st, keys)
<1>1. d.call = "UpsertSubMeta" /\ d.rec.status = st
  BY DEF UpsertMeta
<1>2. \A n : (TouchesMeta(d, n) <=> n = m) /\ ~ TouchesFile(d, n)
  BY Touching
<1>3. t = <<d>>
  OBVIOUS
<1> HIDE DEF d
<1>4. DOMAIN t = 1..1 /\ t[1] = d /\ t \in Seq({d}) /\ t # <<>>
  BY <1>3
<1>5. \A i \in DOMAIN t : i = 1
  BY <1>4
<1>6. CallList(t) /\ Plain(t)
  BY <1>1, <1>4, <1>5, IsCallList DEF Plain
<1>7. ASSUME NEW n, n # m PROVE Avoids(t, n)
  BY <1>2, <1>4, <1>5, <1>7 DEF Avoids
<1>8. ASSUME NEW n \in Names, StatusAgrees(n) PROVE Settles(t, n)
  <2>1. CASE n = m
    <3>1. 1 \in DOMAIN t
      BY <1>4
    <3> QED BY <1>1, <1>2, <1>4, <1>5, <2>1, <3>1, RecordSettles
  <2>2. CASE n # m
    BY <1>7, <1>8, <2>2, AvoidingSettles
  <2> QED BY <2>1, <2>2
<1> QED BY <1>6, <1>7, <1>8

LEMMA TwoAndTwo ==
    ASSUME NEW a, NEW b, NEW c, NEW d
    PROVE  <<a, b>> \o <<c, d>> = <<a, b, c, d>>
<1> DEFINE C == {a, b, c, d}
           r == <<a, b>>
           s == <<c, d>>
           t == <<a, b, c, d>>
<1>1. r \in Seq(C) /\ Len(r) = 2 /\ r[1] = a /\ r[2] = b
  OBVIOUS
<1>2. s \in Seq(C) /\ Len(s) = 2 /\ s[1] = c /\ s[2] = d
  OBVIOUS
<1>3. t \in Seq(C) /\ Len(t) = 4 /\ t[1] = a /\ t[2] = b /\ t[3] = c /\ t[4] = d
  OBVIOUS
<1> HIDE DEF C, r, s, t
<1>4. /\ r \o s \in Seq(C) /\ Len(r \o s) = Len(r) + Len(s)
      /\ \A i \in 1..(Len(r) + Len(s)) : (r \o s)[i] = IF i <= Len(r) THEN r[i] ELSE s[i - Len(r)]
  BY <1>1, <1>2, ConcatProperties
<1> DEFINE u == r \o s
<1>5. u \in Seq(C) /\ Len(u) = 4 /\ \A i \in 1..4 : u[i] = IF i <= 2 THEN r[i] ELSE s[i - 2]
  BY <1>1, <1>2, <1>4
<1> HIDE DEF u
<1>6. u[1] = r[1] /\ u[2] = r[2] /\ u[3] = s[3 - 2] /\ u[4] = s[4 - 2]
  BY <1>5
<1>7. \A i \in 1..4 : u[i] = t[i]
  <2>1. \A i \in 1..4 : i = 1 \/ i = 2 \/ i = 3 \/ i = 4
    OBVIOUS
  <2> QED BY <1>1, <1>2, <1>3, <1>6, <2>1
<1>8. u = t
  <2>1. Len(u) = Len(t) /\ \A i \in 1..Len(u) : u[i] = t[i]
    BY <1>3, <1>5, <1>7
  <2> QED BY <1>3, <1>5, <2>1, SeqEqual
<1> QED BY <1>8 DEF u, r, s, t

\* The file moves, the flag is raised, the record moves.
LEMMA MoveSettles ==
    ASSUME NEW n \in Names, NEW new \in Names, n # new, n \in DOMAIN files, NEW t,
           NEW names, n \in names, new \in names, NEW c, NEW d, NEW e, t = <<c, Mark, d, e>>,
           c.call = "RenameSubscriptionFile", c.name = n, c.new = new,
           d.call = "DeleteSubMeta", e.call = "UpsertSubMeta", e.rec.status = "active",
           \A x : /\ (TouchesFile(c, x) <=> x \in {n, new}) /\ ~ TouchesMeta(c, x)
                  /\ (Creates(c, x) <=> x = new)
                  /\ ~ TouchesFile(Mark, x) /\ ~ TouchesMeta(Mark, x)
                  /\ (TouchesMeta(d, x) <=> x = n) /\ ~ TouchesFile(d, x)
                  /\ (TouchesMeta(e, x) <=> x = new) /\ ~ TouchesFile(e, x)
    PROVE  /\ CallList(t) /\ KeepsTo(t, names)
           /\ \A x \in Names : StatusAgrees(x) => Settles(t, x)
<1>1. /\ t \in Seq({c, Mark, d, e}) /\ DOMAIN t = 1..4 /\ t # <<>>
      /\ t[1] = c /\ t[2] = Mark /\ t[3] = d /\ t[4] = e
  OBVIOUS
<1>2. \A i \in DOMAIN t : i = 1 \/ i = 2 \/ i = 3 \/ i = 4
  BY <1>1
<1>3. CallList(t)
  BY <1>1, IsCallList
<1>4. KeepsTo(t, names)
  <2>1. ASSUME NEW i \in DOMAIN t, NEW x \in Names, TouchesFile(t[i], x) \/ TouchesMeta(t[i], x)
        PROVE  x \in names
    <3>1. t[i] \in {c, Mark, d, e}
      BY <1>1, <1>2
    <3>2. x \in {n, new}
      BY <2>1, <3>1
    <3> QED BY <3>2
  <2>2. ASSUME NEW i \in DOMAIN t, t[i].call = "RenameSubscriptionFile"
        PROVE  /\ i = 1 /\ t[i].name # t[i].new /\ t[i].name \in DOMAIN files
               /\ {t[i].name, t[i].new} \subseteq Names
    <3>1. i = 1
      BY <1>1, <1>2, <2>2 DEF Mark
    <3> QED BY <1>1, <3>1
  <2>3. \A i \in DOMAIN t : t[i].call # "Sync"
    BY <1>1, <1>2 DEF Mark
  <2> QED BY <2>1, <2>2, <2>3 DEF KeepsTo
<1>5. ASSUME NEW x \in Names, StatusAgrees(x)
      PROVE  Settles(t, x)
  <2>1. CASE x = n
    <3>1. FileSteps(t, x) = {1}
      BY <1>1, <1>2, <2>1 DEF FileSteps
    <3>2. MetaSteps(t, x) = {3}
      BY <1>1, <1>2, <2>1 DEF MetaSteps
    <3> QED BY <1>1, <3>1, <3>2 DEF Settles
  <2>2. CASE x = new
    <3>1. FileSteps(t, x) = {1}
      BY <1>1, <1>2, <2>2 DEF FileSteps
    <3>2. MetaSteps(t, x) = {4}
      BY <1>1, <1>2, <2>2 DEF MetaSteps
    <3>3. Creates(t[1], x) /\ t[4].rec.status = "active"
      BY <1>1, <2>2
    <3> QED BY <1>1, <3>1, <3>2, <3>3 DEF Settles
  <2>3. CASE x \notin {n, new}
    <3>1. Avoids(t, x)
      BY <1>1, <1>2, <2>3 DEF Avoids
    <3> QED BY <1>5, <3>1, AvoidingSettles
  <2> QED BY <2>1, <2>2, <2>3
<1> QED BY <1>3, <1>4, <1>5

\* There is no file: only the record moves.
LEMMA MoveRecordSettles ==
    ASSUME NEW n \in Names, NEW new \in Names, n # new, new \notin DOMAIN files, NEW t,
           NEW names, n \in names, new \in names, NEW d, NEW e, t = <<d, e>>,
           d.call = "DeleteSubMeta", e.call = "UpsertSubMeta", e.rec.status # "active",
           \A x : /\ (TouchesMeta(d, x) <=> x = n) /\ ~ TouchesFile(d, x)
                  /\ (TouchesMeta(e, x) <=> x = new) /\ ~ TouchesFile(e, x)
    PROVE  /\ CallList(t) /\ KeepsTo(t, names)
           /\ \A x \in Names : StatusAgrees(x) => Settles(t, x)
<1>1. t \in Seq({d, e}) /\ DOMAIN t = 1..2 /\ t # <<>> /\ t[1] = d /\ t[2] = e
  OBVIOUS
<1>2. \A i \in DOMAIN t : i = 1 \/ i = 2
  BY <1>1
<1>3. CallList(t)
  BY <1>1, IsCallList
<1>4. KeepsTo(t, names)
  <2>1. Plain(t)
    BY <1>1, <1>2 DEF Plain
  <2>2. \A x \in Names \ names : Avoids(t, x)
    BY <1>1, <1>2 DEF Avoids
  <2> QED BY <2>1, <2>2, PlainKeepsTo
<1>5. ASSUME NEW x \in Names, StatusAgrees(x)
      PROVE  Settles(t, x)
  <2>1. FileSteps(t, x) = {}
    BY <1>1, <1>2 DEF FileSteps
  <2>2. CASE x = n
    <3>1. MetaSteps(t, x) = {1}
      BY <1>1, <1>2, <2>2 DEF MetaSteps
    <3> QED BY <1>1, <2>1, <3>1 DEF Settles
  <2>3. CASE x = new
    <3>1. MetaSteps(t, x) = {2}
      BY <1>1, <1>2, <2>3 DEF MetaSteps
    <3> QED BY <1>1, <2>1, <2>3, <3>1 DEF Settles
  <2>4. CASE x \notin {n, new}
    <3>1. Avoids(t, x)
      BY <1>1, <1>2, <2>4 DEF Avoids
    <3> QED BY <1>5, <3>1, AvoidingSettles
  <2> QED BY <2>2, <2>3, <2>4
<1> QED BY <1>3, <1>4, <1>5

LEMMA RenameSettles ==
    ASSUME NEW n \in Names, NEW new \in Names, n \in DOMAIN Listing, ~ Taken(new), StatusAgrees(n),
           NEW keys, NEW names, {n, new} \subseteq names
    PROVE  LET p == IF n \in DOMAIN files THEN <<RenameFile(n, new), Mark>> ELSE <<>>
               t == p \o <<ForgetMeta(n), UpsertMeta(new, Listing[n].status, keys)>>
           IN /\ CallList(t) /\ KeepsTo(t, names)
              /\ \A x \in Names : StatusAgrees(x) => Settles(t, x)
<1> DEFINE c == RenameFile(n, new)
           d == ForgetMeta(n)
           e == UpsertMeta(new, Listing[n].status, keys)
           p == IF n \in DOMAIN files THEN <<c, Mark>> ELSE <<>>
           t == p \o <<d, e>>
<1>1. n # new /\ new \notin DOMAIN files /\ (Listing[n].status = "active" <=> n \in DOMAIN files)
  BY ListingStatus DEF Taken
<1>2. /\ c.call = "RenameSubscriptionFile" /\ c.name = n /\ c.new = new
      /\ d.call = "DeleteSubMeta"
      /\ e.call = "UpsertSubMeta" /\ (e.rec.status = "active" <=> n \in DOMAIN files)
  BY <1>1 DEF RenameFile, ForgetMeta, UpsertMeta
<1>3. ASSUME NEW x
      PROVE  /\ (TouchesFile(c, x) <=> x \in {n, new}) /\ ~ TouchesMeta(c, x)
             /\ (Creates(c, x) <=> x = new)
             /\ ~ TouchesFile(Mark, x) /\ ~ TouchesMeta(Mark, x)
             /\ (TouchesMeta(d, x) <=> x = n) /\ ~ TouchesFile(d, x)
             /\ (TouchesMeta(e, x) <=> x = new) /\ ~ TouchesFile(e, x)
  <2>1. /\ (TouchesFile(c, x) <=> x \in {n, new}) /\ ~ TouchesMeta(c, x)
        /\ (Creates(c, x) <=> x = new)
    BY Touching
  <2>2. ~ TouchesFile(Mark, x) /\ ~ TouchesMeta(Mark, x)
    BY Touching
  <2>3. (TouchesMeta(d, x) <=> x = n) /\ ~ TouchesFile(d, x)
    BY Touching
  <2>4. \A st : (TouchesMeta(UpsertMeta(new, st, keys), x) <=> x = new)
                /\ ~ TouchesFile(UpsertMeta(new, st, keys), x)
    BY Touching
  <2> QED BY <2>1, <2>2, <2>3, <2>4
<1> HIDE DEF c, d, e
<1>4. CallList(t) /\ KeepsTo(t, names) /\ \A x \in Names : StatusAgrees(x) => Settles(t, x)
  <2>1. CASE n \in DOMAIN files
    <3>1. t = <<c, Mark, d, e>>
      BY <2>1, TwoAndTwo
    <3> HIDE DEF t
    <3> QED BY <1>1, <1>2, <1>3, <2>1, <3>1, MoveSettles
  <2>2. CASE n \notin DOMAIN files
    <3>1. <<>> \o <<d, e>> = <<d, e>>
      <4>1. <<d, e>> \in Seq({d, e})
        OBVIOUS
      <4> QED BY <4>1, ConcatEmptySeq
    <3>2. t = <<d, e>>
      BY <2>2, <3>1
    <3> HIDE DEF t
    <3> QED BY <1>1, <1>2, <1>3, <2>2, <3>2, MoveRecordSettles
  <2> QED BY <2>1, <2>2
<1> QED BY <1>4, Zenon DEF c, d, e

\* One name after the other: for each, only its own part counts.
LEMMA ListsSettle ==
    ASSUME NEW calls,
           \A n \in DOMAIN calls :
             /\ CallList(calls[n]) /\ Plain(calls[n])
             /\ \A m : m # n => Avoids(calls[n], m)
             /\ n \in Names /\ StatusAgrees(n) => Settles(calls[n], n)
    PROVE  LET t == InListingOrder(calls) IN
           /\ t \in Seq(CallsIn(calls)) /\ Plain(t)
           /\ \A n \in Names : StatusAgrees(n) => Settles(t, n)
<1> DEFINE C == CallsIn(calls)
           t == InListingOrder(calls)
           G == {s \in Seq(C) : Plain(s)}
<1>1. \A n \in DOMAIN calls : calls[n] \in Seq(C)
  BY ListsOverCalls
<1>2. <<>> \in Seq(C) /\ Plain(<<>>) /\ \A n : Avoids(<<>>, n)
  BY EmptySeq DEF Plain, Avoids
<1> HIDE DEF C
<1>3. t \in G
  <2>1. ASSUME NEW r \in G, NEW s \in G PROVE r \o s \in G
    <3>1. /\ r \o s \in Seq(C)
          /\ \A k \in DOMAIN r : (r \o s)[k] = r[k]
          /\ \A j \in DOMAIN s : (r \o s)[Len(r) + j] = s[j]
          /\ \A i \in DOMAIN (r \o s) : i \in DOMAIN r \/ \E j \in DOMAIN s : i = Len(r) + j
      BY ConcatFacts
    <3>2. Plain(r) /\ Plain(s)
      OBVIOUS
    <3>3. Plain(r \o s)
      <4> SUFFICES ASSUME NEW i \in DOMAIN (r \o s)
                   PROVE (r \o s)[i].call \notin {"RenameSubscriptionFile", "Sync"}
        BY DEF Plain
      <4> QED BY <3>1, <3>2 DEF Plain
    <3> QED BY <3>1, <3>3
  <2>2. <<>> \in G /\ \A n \in DOMAIN calls : calls[n] \in G
    BY <1>1, <1>2
  <2> HIDE DEF G
  <2> QED BY <2>1, <2>2, InListingOrderStays
<1>4. ASSUME NEW n \in Names, StatusAgrees(n)
      PROVE  Settles(t, n)
  <2> DEFINE seqs == [i \in DOMAIN NameOrder |->
                        IF NameOrder[i] \in DOMAIN calls THEN calls[NameOrder[i]] ELSE <<>>]
             U == {s \in Seq(C) : Avoids(s, n)}
             R == {s \in Seq(C) : Settles(s, n)}
  <2>1. DOMAIN NameOrder = 1..Len(NameOrder) /\ Len(NameOrder) \in Nat
    BY NameAssumption, LenProperties
  <2>2. seqs \in Seq(Seq(C)) /\ DOMAIN seqs = DOMAIN NameOrder
    <3>1. seqs \in [1..Len(NameOrder) -> Seq(C)]
      BY <1>1, <1>2, <2>1
    <3> HIDE DEF seqs
    <3> QED BY <2>1, <3>1, IsASeq
  <2>3. PICK k \in DOMAIN NameOrder : NameOrder[k] = n
    BY DEF Names, Range
  <2>4. seqs[k] \in R
    <3>1. CASE n \in DOMAIN calls
      BY <1>1, <1>4, <2>3, <3>1
    <3>2. CASE n \notin DOMAIN calls
      <4>1. Settles(<<>>, n)
        BY <1>2, <1>4, AvoidingSettles
      <4> QED BY <1>2, <2>3, <3>2, <4>1
    <3> QED BY <3>1, <3>2
  <2>5. ASSUME NEW i \in DOMAIN seqs, i # k PROVE seqs[i] \in U
    <3>1. i \in DOMAIN NameOrder /\ NameOrder[i] # n
      BY <2>2, <2>3, <2>5, NameAssumption
    <3> QED BY <1>1, <1>2, <3>1
  <2>6. ASSUME NEW r \in U, NEW s \in U PROVE r \o s \in U
    BY AvoidingAround, ConcatFacts
  <2>7. ASSUME NEW r \in U, NEW s \in R PROVE r \o s \in R /\ s \o r \in R
    BY AvoidingAround, ConcatFacts
  <2>8. k \in DOMAIN seqs /\ t = FlattenSeq(seqs)
    BY <2>2, <2>3 DEF InListingOrder
  <2> HIDE DEF seqs, U, R
  <2>9. t \in R
    BY <2>2, <2>4, <2>5, <2>6, <2>7, <2>8, FlattenOne
  <2> QED BY <2>9 DEF R
<1> QED BY <1>3, <1>4 DEF G, C

-----------------------------------------------------------------------------
(* What one step leaves alone. *)

Same(n) == /\ n \in DOMAIN files' <=> n \in DOMAIN files
           /\ n \in DOMAIN metas' <=> n \in DOMAIN metas
           /\ n \in DOMAIN metas => metas'[n] = metas[n]

LEMMA SameAgrees ==
    ASSUME NEW n, Same(n)
    PROVE  /\ StatusAgrees(n) <=> StatusAgrees(n)'
           /\ Taken(n) <=> Taken(n)'
BY DEF Same, StatusAgrees, Taken

LEMMA SameSettles ==
    ASSUME NEW n, Same(n), NEW t, Settles(t, n)
    PROVE  Settles(t, n)'
<1>1. StatusAgrees(n) <=> StatusAgrees(n)'
  BY SameAgrees
<1>2. FileSteps(t, n)' = FileSteps(t, n) /\ MetaSteps(t, n)' = MetaSteps(t, n)
  BY DEF FileSteps, MetaSteps
<1>3. n \in DOMAIN files' <=> n \in DOMAIN files
  BY DEF Same
<1> QED BY <1>1, <1>2, <1>3 DEF Settles

\* A request whose names are left alone is as far as it was.
LEMMA FrameSettles ==
    ASSUME NEW v \in Workers, job'[v] = job[v], JobSettles(v), \A n \in NamesOf[v] : Same(n)
    PROVE  JobSettles(v)'
<1>1. NamesOf[v] \subseteq Names
  BY WorkerAssumption
<1>2. CASE job[v].phase = "run"
  <2> DEFINE t == job[v].todo
  <2>1. /\ CallList(t) /\ KeepsTo(t, NamesOf[v]) /\ \A n \in NamesOf[v] : Settles(t, n)
    BY <1>2 DEF JobSettles
  <2>2. \A n \in NamesOf[v] : Settles(t, n)'
    <3> SUFFICES ASSUME NEW n \in NamesOf[v] PROVE Settles(t, n)'
      OBVIOUS
    <3>1. PICK s : s = t
      OBVIOUS
    <3>2. Settles(s, n)'
      BY <2>1, <3>1, SameSettles
    <3>3. t' = s
      BY <3>1
    <3> QED BY <3>2, <3>3
  <2>3. KeepsTo(t, NamesOf[v])'
    <3>1. ASSUME NEW i \in DOMAIN t, t[i].call = "RenameSubscriptionFile"
          PROVE  t[i].name \in DOMAIN files'
      <4>1. t[i].name \in DOMAIN files /\ t[i].name \in Names
        BY <2>1, <3>1 DEF KeepsTo
      <4>2. TouchesFile(t[i], t[i].name)
        BY <3>1 DEF TouchesFile
      <4>3. t[i].name \in NamesOf[v]
        BY <2>1, <4>1, <4>2 DEF KeepsTo
      <4> QED BY <4>1, <4>3 DEF Same
    <3>2. t' = t
      OBVIOUS
    <3> HIDE DEF t
    <3> QED BY <2>1, <3>1, <3>2 DEF KeepsTo, TouchesFile, TouchesMeta
  <2> QED BY <1>2, <2>1, <2>2, <2>3 DEF JobSettles, CallList
<1>3. CASE job[v].phase # "run"
  <2>1. \A n \in NamesOf[v] : (StatusAgrees(n) <=> StatusAgrees(n)') /\ (Taken(n) <=> Taken(n)')
    BY SameAgrees
  <2> QED BY <1>3, <2>1 DEF JobSettles
<1> QED BY <1>2, <1>3

LEMMA OthersSettle ==
    ASSUME Apart, StatusInv, NEW w \in Workers, job' \in [Workers -> Range(job')],
           \A v \in Workers \ {w} : job'[v] = job[v],
           \A n \in Names \ NamesOf[w] : Same(n),
           job'[w].phase \in {"idle", "resolve", "collect", "run"}, JobSettles(w)'
    PROVE  StatusInv'
<1>1. ASSUME NEW v \in Workers, v # w
      PROVE  job'[v].phase \in {"idle", "resolve", "collect", "run"} /\ JobSettles(v)'
  <2>1. NamesOf[v] \cap NamesOf[w] = {} /\ NamesOf[v] \subseteq Names
    BY <1>1, WorkerAssumption DEF Apart
  <2>2. \A n \in NamesOf[v] : Same(n)
    BY <2>1
  <2>3. JobSettles(v) /\ job[v].phase \in {"idle", "resolve", "collect", "run"}
    BY DEF StatusInv
  <2> QED BY <1>1, <2>2, <2>3, FrameSettles
<1>2. ASSUME NEW n \in Names, \A v \in Workers : n \notin NamesOf[v]
      PROVE  StatusAgrees(n)'
  <2>1. Same(n) /\ StatusAgrees(n)
    BY <1>2 DEF StatusInv
  <2> QED BY <2>1, SameAgrees
<1>3. \A v \in Workers : job'[v].phase \in {"idle", "resolve", "collect", "run"} /\ JobSettles(v)'
  BY <1>1
<1> QED BY <1>2, <1>3 DEF StatusInv

\* A request of which no call has been made yet starts or goes on waiting.
LEMMA RequestSettles ==
    ASSUME Apart, StatusInv, NEW w \in Workers, NEW j, Continue(w, j), UNCHANGED store,
           j.phase \in {"idle", "resolve", "collect", "run"},
           j.phase = "run" => /\ CallList(j.todo) /\ KeepsTo(j.todo, NamesOf[w])
                              /\ \A n \in NamesOf[w] : Settles(j.todo, n),
           j.phase # "run" =>
              /\ \A n \in NamesOf[w] : StatusAgrees(n)
              /\ j.phase = "resolve" =>
                   /\ j.op \in {"create", "regenerate"} /\ j.name \in NamesOf[w]
                   /\ j.op = "create" => ~ Taken(j.name)
              /\ j.phase = "collect" => NamesOf[w] = Names
    PROVE  StatusInv'
<1>1. /\ job' \in [Workers -> Range(job')] /\ job'[w] = j
      /\ \A v \in Workers \ {w} : job'[v] = job[v]
  BY JobChanges DEF StatusInv
<1>2. files' = files /\ metas' = metas
  BY DEF store
<1>3. \A n : Same(n)
  BY <1>2 DEF Same
<1>4. JobSettles(w)'
  <2>1. CASE j.phase = "run"
    <3> DEFINE t == j.todo
    <3>1. CallList(t) /\ KeepsTo(t, NamesOf[w]) /\ \A n \in NamesOf[w] : Settles(t, n)
      BY <2>1
    <3>2. KeepsTo(t, NamesOf[w])'
      BY <1>2, <3>1 DEF KeepsTo, TouchesFile, TouchesMeta
    <3>3. \A n \in NamesOf[w] : Settles(t, n)'
      BY <1>3, <3>1, SameSettles
    <3>4. job'[w].phase = "run" /\ job'[w].todo = t
      BY <1>1, <2>1
    <3> HIDE DEF t
    <3> QED BY <3>1, <3>2, <3>3, <3>4 DEF JobSettles, CallList
  <2>2. CASE j.phase # "run"
    <3>1. \A n : (StatusAgrees(n) <=> StatusAgrees(n)') /\ (Taken(n) <=> Taken(n)')
      BY <1>3, SameAgrees
    <3> QED BY <1>1, <2>2, <3>1 DEF JobSettles
  <2> QED BY <2>1, <2>2
<1> QED BY <1>1, <1>3, <1>4, OthersSettle

LEMMA WaitingAgrees ==
    ASSUME StatusInv, NEW w \in Workers, job[w].phase # "run"
    PROVE  \A n \in NamesOf[w] : n \in Names /\ StatusAgrees(n)
BY WorkerAssumption DEF StatusInv, JobSettles

\* The same, for a request that starts to run.
LEMMA RunSettles ==
    ASSUME Apart, StatusInv, NEW w \in Workers, job[w].phase # "run", NEW op, NEW t,
           Continue(w, Running(op, t)), UNCHANGED store,
           t = <<>> \/ (CallList(t) /\ KeepsTo(t, NamesOf[w])),
           \A n \in Names : StatusAgrees(n) => Settles(t, n)
    PROVE  StatusInv'
<1>1. \A n \in NamesOf[w] : StatusAgrees(n) /\ Settles(t, n)
  BY WaitingAgrees
<1>2. CASE t = <<>>
  <2>1. Running(op, t).phase = "idle"
    BY <1>2, RunningIs DEF Idle
  <2> DEFINE j == Running(op, t)
  <2> HIDE DEF j
  <2>2. Continue(w, j) /\ j.phase = "idle"
    BY <2>1 DEF j
  <2> QED BY <1>1, <2>2, RequestSettles
<1>3. CASE t # <<>>
  <2> DEFINE j == Running(op, t)
  <2>1. j.phase = "run" /\ j.todo = t
    BY <1>3, RunningIs
  <2> HIDE DEF j
  <2>2. Continue(w, j)
    BY DEF j
  <2> QED BY <1>1, <1>3, <2>1, <2>2, RequestSettles
<1> QED BY <1>2, <1>3

\* The same, for calls about one name of the request.
LEMMA OneNameSettles ==
    ASSUME Apart, StatusInv, NEW w \in Workers, job[w].phase # "run", NEW op, NEW t,
           NEW n \in NamesOf[w], Continue(w, Running(op, t)), UNCHANGED store,
           CallList(t), Plain(t), \A m : m # n => Avoids(t, m),
           \A m \in Names : StatusAgrees(m) => Settles(t, m)
    PROVE  StatusInv'
<1>1. KeepsTo(t, NamesOf[w])
  BY PlainKeepsTo
<1> QED BY <1>1, RunSettles

LEMMA OnNameSettles ==
    ASSUME Apart, StatusInv, NEW w \in Workers, NEW n \in NamesOf[w], OnName(w, n)
    PROVE  StatusInv'
<1>1. n \in Names /\ NamesOf[w] \subseteq Names
  BY WorkerAssumption
<1>2. CASE Create(w, n)
  <2>1. PICK refs : Continue(w, Resolving("create", n, NewKeys(refs), <<>>))
    BY <1>2 DEF Create
  <2> DEFINE j == Resolving("create", n, NewKeys(refs), <<>>)
  <2>2. j.phase = "resolve" /\ j.op = "create" /\ j.name = n
    BY DEF Resolving
  <2>3. job[w].phase # "run" /\ ~ Taken(n) /\ UNCHANGED store
    BY <1>2, BeginIsNoRun DEF Create
  <2> HIDE DEF j
  <2>4. Continue(w, j)
    BY <2>1 DEF j
  <2> QED BY <2>2, <2>3, <2>4, WaitingAgrees, RequestSettles
<1>3. CASE CreateLegacy(w, n)
  <2>1. PICK keys : Continue(w, Running("create", Publish(n, keys)))
    BY <1>3 DEF CreateLegacy
  <2>2. job[w].phase # "run" /\ UNCHANGED store
    BY <1>3, BeginIsNoRun DEF CreateLegacy
  <2> QED BY <2>1, <2>2, PublishSettles, OneNameSettles
<1>4. CASE Regenerate(w, n)
  <2> DEFINE j == Resolving("regenerate", n, Listing[n].keys, <<>>)
  <2>1. j.phase = "resolve" /\ j.op = "regenerate" /\ j.name = n
    BY DEF Resolving
  <2>2. job[w].phase # "run" /\ UNCHANGED store /\ Continue(w, j)
    BY <1>4, BeginIsNoRun DEF Regenerate
  <2> HIDE DEF j
  <2> QED BY <2>1, <2>2, WaitingAgrees, RequestSettles
<1>5. CASE \E new \in NamesOf[w] : RenameSubscription(w, n, new)
  <2>1. PICK new \in NamesOf[w] : RenameSubscription(w, n, new)
    BY <1>5
  <2> DEFINE p == IF n \in DOMAIN files THEN <<RenameFile(n, new), Mark>> ELSE <<>>
             t == p \o <<ForgetMeta(n), UpsertMeta(new, Listing[n].status, Listing[n].keys)>>
  <2>2. /\ Continue(w, Running("rename", t)) /\ UNCHANGED store
        /\ n \in DOMAIN Listing /\ ~ Taken(new) /\ job[w].phase # "run"
    BY <2>1, BeginIsNoRun DEF RenameSubscription
  <2>3. StatusAgrees(n)
    BY <2>2, WaitingAgrees
  <2>4. /\ CallList(t) /\ KeepsTo(t, NamesOf[w])
        /\ \A x \in Names : StatusAgrees(x) => Settles(t, x)
    <3>1. new \in Names /\ {n, new} \subseteq NamesOf[w]
      BY <1>1
    <3> QED BY <1>1, <2>2, <2>3, <3>1, RenameSettles
  <2> HIDE DEF t
  <2> QED BY <2>2, <2>4, RunSettles
<1>6. CASE AddRefs(w, n)
  <2>1. PICK keys : Continue(w, Running("addRefs", <<UpsertMeta(n, Listing[n].status, keys)>>))
    BY <1>6 DEF AddRefs
  <2>2. job[w].phase # "run" /\ UNCHANGED store /\ n \in DOMAIN Listing
    BY <1>6, BeginIsNoRun DEF AddRefs
  <2> DEFINE t == <<UpsertMeta(n, Listing[n].status, keys)>>
  <2>3. Listing[n].status = "active" <=> n \in DOMAIN files
    BY <2>2, WaitingAgrees, ListingStatus
  <2>4. /\ CallList(t) /\ Plain(t)
        /\ \A m : m # n => Avoids(t, m)
        /\ \A m \in Names : StatusAgrees(m) => Settles(t, m)
    BY <2>3, RecordAloneSettles
  <2>5. Continue(w, Running("addRefs", t))
    BY <2>1
  <2> HIDE DEF t
  <2> QED BY <2>2, <2>4, <2>5, OneNameSettles
<1>7. CASE RemoveKey(w, n)
  <2>1. PICK keys : Continue(w, Running("removeKey", Publish(n, keys)))
    BY <1>7 DEF RemoveKey
  <2>2. job[w].phase # "run" /\ UNCHANGED store
    BY <1>7, BeginIsNoRun DEF RemoveKey
  <2> QED BY <2>1, <2>2, PublishSettles, OneNameSettles
<1>8. CASE ReplaceKeys(w, n)
  <2>1. PICK keys : Continue(w, Running("replaceKeys", Publish(n, keys)))
    BY <1>8 DEF ReplaceKeys
  <2>2. job[w].phase # "run" /\ UNCHANGED store
    BY <1>8, BeginIsNoRun DEF ReplaceKeys
  <2> QED BY <2>1, <2>2, PublishSettles, OneNameSettles
<1>9. CASE Delete(w, n)
  <2> DEFINE t == <<RemoveFile(n), Mark, ForgetMeta(n)>>
  <2>1. Continue(w, Running("delete", t)) /\ job[w].phase # "run" /\ UNCHANGED store
    BY <1>9, BeginIsNoRun DEF Delete
  <2>2. /\ CallList(t) /\ Plain(t)
        /\ \A m : m # n => Avoids(t, m)
        /\ \A m \in Names : StatusAgrees(m) => Settles(t, m)
    BY DeletionSettles
  <2> HIDE DEF t
  <2> QED BY <2>1, <2>2, OneNameSettles
<1> QED BY <1>2, <1>3, <1>4, <1>5, <1>6, <1>7, <1>8, <1>9 DEF OnName

LEMMA WaitingSettles ==
    ASSUME Apart, StatusInv, NEW w \in Workers, ResolveKey(w) \/ Resolved(w)
    PROVE  StatusInv'
<1>1. job[w].phase = "resolve" /\ UNCHANGED store
  BY DEF ResolveKey, Resolved
<1>2. /\ job[w].op \in {"create", "regenerate"} /\ job[w].name \in NamesOf[w]
      /\ job[w].op = "create" => ~ Taken(job[w].name)
  BY <1>1 DEF StatusInv, JobSettles
<1>3. CASE ResolveKey(w)
  <2>1. PICK pending, done : Continue(w, Resolving(job[w].op, job[w].name, pending, done))
    BY <1>3 DEF ResolveKey
  <2> DEFINE j == Resolving(job[w].op, job[w].name, pending, done)
  <2>2. j.phase = "resolve" /\ j.op = job[w].op /\ j.name = job[w].name
    BY DEF Resolving
  <2> HIDE DEF j
  <2>3. Continue(w, j)
    BY <2>1 DEF j
  <2> QED BY <1>1, <1>2, <2>2, <2>3, WaitingAgrees, RequestSettles
<1>4. CASE Resolved(w)
  <2> DEFINE n == job[w].name
             done == job[w].done
             draft == <<UpsertMeta(n, "draft", <<>>)>>
  <2>1. CASE job[w].op = "create" /\ done = <<>>
    <3>1. Continue(w, Running(job[w].op, draft))
      BY <1>4, <2>1 DEF Resolved
    <3>2. n \notin DOMAIN files
      BY <1>2, <2>1 DEF Taken
    <3>3. /\ CallList(draft) /\ Plain(draft)
          /\ \A m : m # n => Avoids(draft, m)
          /\ \A m \in Names : StatusAgrees(m) => Settles(draft, m)
      BY <3>2, RecordAloneSettles
    <3> HIDE DEF draft
    <3> QED BY <1>1, <1>2, <3>1, <3>3, OneNameSettles
  <2>2. CASE ~(job[w].op = "create" /\ done = <<>>)
    <3>1. Continue(w, Running(job[w].op, Publish(n, done)))
      BY <1>4, <2>2 DEF Resolved
    <3> QED BY <1>1, <1>2, <3>1, PublishSettles, OneNameSettles
  <2> QED BY <2>1, <2>2
<1> QED BY <1>3, <1>4

\* One subscription rewritten for a deleted source.
LEMMA RewriteSettles ==
    ASSUME NEW m, NEW keys, NEW t, t = <<PutFile(m, keys), UpsertMeta(m, StatusFor(keys), keys)>>
    PROVE  /\ CallList(t) /\ Plain(t)
           /\ \A n : n # m => Avoids(t, n)
           /\ Settles(t, m)
<1> DEFINE c == PutFile(m, keys)
           d == UpsertMeta(m, StatusFor(keys), keys)
<1>1. c.call \in FileCalls /\ c.call # "RenameSubscriptionFile"
  BY DEF PutFile, WriteFile, RemoveFile, FileCalls
<1>2. d.call \in MetaCalls /\ (d.rec.status = "active" <=> keys # <<>>)
  BY DEF UpsertMeta, MetaCalls, StatusFor
<1>3. \A n : (TouchesFile(c, n) <=> n = m) /\ ~ TouchesMeta(c, n)
  BY Touching
<1>4. \A n : (TouchesMeta(d, n) <=> n = m) /\ ~ TouchesFile(d, n)
  BY Touching
<1>5. Creates(c, m) <=> keys # <<>>
  BY Touching
<1>6. t = <<c, d>>
  OBVIOUS
<1> HIDE DEF c, d
<1>7. t \in Seq({c, d}) /\ t # <<>> /\ DOMAIN t = 1..2 /\ t[1] = c /\ t[2] = d
  BY <1>6
<1>8. \A i \in DOMAIN t : i = 1 \/ i = 2
  BY <1>7
<1>9. CallList(t) /\ Plain(t)
  BY <1>1, <1>2, <1>7, <1>8, IsCallList DEF Plain, FileCalls, MetaCalls
<1>10. ASSUME NEW n, n # m PROVE Avoids(t, n)
  BY <1>3, <1>4, <1>7, <1>8, <1>10 DEF Avoids
<1>11. Settles(t, m)
  <2>1. FileSteps(t, m) = {1} /\ MetaSteps(t, m) = {2}
    BY <1>3, <1>4, <1>7, <1>8 DEF FileSteps, MetaSteps
  <2>2. t[2].rec.status = "active" <=> Creates(t[1], m)
    BY <1>2, <1>5, <1>7
  <2> QED BY <2>1, <2>2 DEF Settles
<1> QED BY <1>9, <1>10, <1>11

\* The cascade: the rewrites, then the flag, then the source goes.
LEMMA CascadeSettles ==
    ASSUME NEW C, NEW s \in Seq(C), Plain(s), \A n \in Names : StatusAgrees(n) => Settles(s, n),
           NEW r, NEW flag, flag \in {<<>>, <<Mark>>}
    PROVE  LET t == s \o flag \o <<DropSource(r)>> IN
           /\ CallList(t) /\ Plain(t)
           /\ \A n \in Names : StatusAgrees(n) => Settles(t, n)
<1> DEFINE d == DropSource(r)
           B == C \cup {Mark, d}
           u == s \o flag
           last == <<d>>
           t == u \o last
<1>1. /\ Mark.call = "Mark" /\ d.call = "DeleteKeySource"
      /\ \A n : ~ TouchesFile(Mark, n) /\ ~ TouchesMeta(Mark, n)
      /\ \A n : ~ TouchesFile(d, n) /\ ~ TouchesMeta(d, n)
  BY Touching DEF Mark, DropSource
<1> HIDE DEF d
<1>2. s \in Seq(B) /\ flag \in Seq(B) /\ last \in Seq(B)
  <2>1. <<>> \in Seq(B) /\ <<Mark>> \in Seq(B) /\ <<d>> \in Seq(B)
    OBVIOUS
  <2>2. s \in Seq(B)
    BY SeqMonotonic
  <2> QED BY <2>1, <2>2
<1>3. /\ \A i \in DOMAIN flag : flag[i] = Mark
      /\ DOMAIN last = {1} /\ last[1] = d
  <2>1. DOMAIN <<>> = {} /\ \A i \in DOMAIN <<Mark>> : <<Mark>>[i] = Mark
    OBVIOUS
  <2>2. DOMAIN last = {1} /\ last[1] = d
    OBVIOUS
  <2> QED BY <2>1, <2>2
<1>4. Plain(flag) /\ Plain(last) /\ \A n : Avoids(flag, n) /\ Avoids(last, n)
  BY <1>1, <1>3 DEF Plain, Avoids
<1> HIDE DEF B, last
<1>5. ASSUME NEW x \in Seq(B), NEW y \in Seq(B), Plain(x), Plain(y)
      PROVE  Plain(x \o y)
  <2>1. /\ \A k \in DOMAIN x : (x \o y)[k] = x[k]
        /\ \A j \in DOMAIN y : (x \o y)[Len(x) + j] = y[j]
        /\ \A i \in DOMAIN (x \o y) : i \in DOMAIN x \/ \E j \in DOMAIN y : i = Len(x) + j
    BY ConcatFacts
  <2> SUFFICES ASSUME NEW i \in DOMAIN (x \o y)
               PROVE (x \o y)[i].call \notin {"RenameSubscriptionFile", "Sync"}
    BY DEF Plain
  <2> QED BY <1>5, <2>1 DEF Plain
<1>6. u \in Seq(B) /\ Plain(u)
  BY <1>2, <1>4, <1>5, ConcatFacts
<1>7. ASSUME NEW n \in Names, StatusAgrees(n) PROVE Settles(u, n)
  BY <1>2, <1>4, <1>7, AvoidingAround
<1> HIDE DEF u
<1>8. t \in Seq(B) /\ Plain(t)
  BY <1>2, <1>4, <1>5, <1>6, ConcatFacts
<1>9. ASSUME NEW n \in Names, StatusAgrees(n) PROVE Settles(t, n)
  BY <1>2, <1>4, <1>6, <1>7, <1>9, AvoidingAround
<1>10. t # <<>>
  <2>1. Len(u) + 1 \in DOMAIN t
    BY <1>2, <1>3, <1>6, ConcatFacts
  <2> HIDE DEF t
  <2> QED BY <2>1
<1> HIDE DEF t
<1>11. CallList(t)
  BY <1>8, <1>10, IsCallList
<1> QED BY <1>8, <1>9, <1>11 DEF t, u, last, d

LEMMA AllNamesSettle ==
    ASSUME Apart, StatusInv, NEW w \in Workers, NEW r,
           StartRegenerateAll(w) \/ PanelsAnswered(w) \/ DeleteSource(w, r) \/ SyncRun(w)
    PROVE  StatusInv'
<1>1. CASE StartRegenerateAll(w)
  <2> DEFINE j == Collecting(Listing, Live)
  <2>1. j.phase = "collect"
    BY DEF Collecting
  <2>2. Continue(w, j) /\ UNCHANGED store /\ job[w].phase # "run" /\ "regenerateAll" \in Ops
    BY <1>1, BeginIsNoRun DEF StartRegenerateAll, Begin
  <2>3. NamesOf[w] = Names
    BY <2>2 DEF Apart
  <2> HIDE DEF j
  <2> QED BY <2>1, <2>2, <2>3, WaitingAgrees, RequestSettles
<1>2. CASE PanelsAnswered(w)
  <2>1. PICK answered, rebuilt, known :
           Continue(w, Running("regenerateAll", InListingOrder(
               [n \in rebuilt |-> Publish(n, Refreshed(job[w].subs[n].keys, known, answered))])))
    BY <1>2 DEF PanelsAnswered
  <2> DEFINE calls == [n \in rebuilt |-> Publish(n, Refreshed(job[w].subs[n].keys, known, answered))]
             t == InListingOrder(calls)
  <2>2. \A n \in DOMAIN calls :
           /\ CallList(calls[n]) /\ Plain(calls[n])
           /\ \A m : m # n => Avoids(calls[n], m)
           /\ n \in Names /\ StatusAgrees(n) => Settles(calls[n], n)
    BY PublishSettles
  <2>3. Continue(w, Running("regenerateAll", t)) /\ job[w].phase = "collect" /\ UNCHANGED store
    BY <1>2, <2>1 DEF PanelsAnswered
  <2>4. NamesOf[w] = Names
    BY <2>3 DEF StatusInv, JobSettles
  <2> HIDE DEF calls
  <2>5. /\ t \in Seq(CallsIn(calls)) /\ Plain(t)
        /\ \A n \in Names : StatusAgrees(n) => Settles(t, n)
    BY <2>2, ListsSettle
  <2> HIDE DEF t
  <2>6. t = <<>> \/ CallList(t)
    BY <2>5, IsCallList
  <2>7. KeepsTo(t, NamesOf[w])
    BY <2>4, <2>5, PlainKeepsTo
  <2> QED BY <2>3, <2>5, <2>6, <2>7, RunSettles
<1>3. CASE DeleteSource(w, r)
  <2> DEFINE rest(n) == Without(Listing[n].keys, r)
             affected == {n \in DOMAIN Listing : r \in RefsOf(Listing[n].keys)}
             clean == [n \in affected |->
                         <<PutFile(n, rest(n)), UpsertMeta(n, StatusFor(rest(n)), rest(n))>>]
             flag == IF affected = {} THEN <<>> ELSE <<Mark>>
             t == InListingOrder(clean) \o flag \o <<DropSource(r)>>
  <2>1. Begin(w, "deleteSource") /\ Continue(w, Running("deleteSource", t)) /\ UNCHANGED store
    BY <1>3, Zenon DEF DeleteSource
  <2>2. \A n \in DOMAIN clean :
           /\ CallList(clean[n]) /\ Plain(clean[n])
           /\ \A m : m # n => Avoids(clean[n], m)
           /\ n \in Names /\ StatusAgrees(n) => Settles(clean[n], n)
    <3> SUFFICES ASSUME NEW n \in affected
                 PROVE  /\ CallList(clean[n]) /\ Plain(clean[n])
                        /\ \A m : m # n => Avoids(clean[n], m)
                        /\ Settles(clean[n], n)
      OBVIOUS
    <3>1. clean[n] = <<PutFile(n, rest(n)), UpsertMeta(n, StatusFor(rest(n)), rest(n))>>
      OBVIOUS
    <3> HIDE DEF clean, rest
    <3> QED BY <3>1, RewriteSettles
  <2> HIDE DEF clean
  <2>3. flag \in {<<>>, <<Mark>>}
    OBVIOUS
  <2> HIDE DEF flag
  <2>4. /\ InListingOrder(clean) \in Seq(CallsIn(clean)) /\ Plain(InListingOrder(clean))
        /\ \A n \in Names : StatusAgrees(n) => Settles(InListingOrder(clean), n)
    BY <2>2, ListsSettle
  <2>5. CallList(t) /\ Plain(t) /\ \A n \in Names : StatusAgrees(n) => Settles(t, n)
    BY <2>3, <2>4, CascadeSettles
  <2> HIDE DEF t
  <2>6. NamesOf[w] = Names
    BY <2>1 DEF Apart, Begin
  <2>7. KeepsTo(t, NamesOf[w])
    BY <2>5, <2>6, PlainKeepsTo
  <2> QED BY <2>1, <2>5, <2>7, BeginIsNoRun, RunSettles
<1>4. CASE SyncRun(w)
  <2> DEFINE t == <<Script, Clear>>
  <2>1. t \in Seq({Script, Clear}) /\ t # <<>> /\ \A i \in DOMAIN t : t[i] \in {Script, Clear}
    OBVIOUS
  <2>2. Continue(w, Running("sync", t)) /\ UNCHANGED store /\ job[w].phase # "run"
    BY <1>4, BeginIsNoRun DEF SyncRun
  <2> HIDE DEF t
  <2>3. \A n : Avoids(t, n)
    BY <2>1, Touching DEF Avoids
  <2>4. \A n \in Names : StatusAgrees(n) => Settles(t, n)
    BY <2>3, AvoidingSettles
  <2>5. KeepsTo(t, NamesOf[w])
    <3>1. \A i \in DOMAIN t : t[i].call \in {"Sync", "Clear"}
      BY <2>1 DEF Script, Clear
    <3> QED BY <2>3, <3>1 DEF KeepsTo, Avoids
  <2> QED BY <2>1, <2>2, <2>4, <2>5, IsCallList, RunSettles
<1> QED BY <1>1, <1>2, <1>3, <1>4

-----------------------------------------------------------------------------
(* One call. *)

\* What executing the call c does to the two stores of n.
Executes(c, n) ==
    /\ ~ TouchesMeta(c, n) =>
         /\ n \in DOMAIN metas' <=> n \in DOMAIN metas
         /\ n \in DOMAIN metas => metas'[n] = metas[n]
    /\ ~ TouchesFile(c, n) => (n \in DOMAIN files' <=> n \in DOMAIN files)
    /\ TouchesFile(c, n) => (n \in DOMAIN files' <=> Creates(c, n))
    /\ TouchesMeta(c, n) =>
         /\ c.call = "DeleteSubMeta" => n \notin DOMAIN metas'
         /\ c.call = "UpsertSubMeta" => n \in DOMAIN metas' /\ metas'[n] = c.rec

LEMMA FileCallExecutes ==
    ASSUME NEW c, c.call \in FileCalls, files' = FilesAfter(c, files), metas' = metas,
           c.call = "RenameSubscriptionFile" => c.name # c.new /\ c.name \in DOMAIN files, NEW n
    PROVE  Executes(c, n)
<1>1. ~ TouchesMeta(c, n)
  BY DEF TouchesMeta, FileCalls
<1>2. CASE c.call = "WriteSubscriptionFile"
  <2>1. DOMAIN files' = DOMAIN files \cup {c.name}
    BY <1>2 DEF FilesAfter, Put
  <2> QED BY <1>1, <1>2, <2>1 DEF Executes, TouchesFile, Creates
<1>3. CASE c.call = "RemoveSubscriptionFile"
  <2>1. DOMAIN files' = DOMAIN files \ {c.name}
    BY <1>3 DEF FilesAfter, Drop
  <2> QED BY <1>1, <1>3, <2>1 DEF Executes, TouchesFile, Creates
<1>4. CASE c.call = "RenameSubscriptionFile"
  <2>1. DOMAIN files' = (DOMAIN files \ {c.name}) \cup {c.new}
    BY <1>4 DEF FilesAfter, Move, Put, Drop
  <2> QED BY <1>1, <1>4, <2>1 DEF Executes, TouchesFile, Creates
<1> QED BY <1>2, <1>3, <1>4 DEF FileCalls

LEMMA MetaCallExecutes ==
    ASSUME NEW c, c.call \in MetaCalls, files' = files, metas' = MetasAfter(c, metas), NEW n
    PROVE  Executes(c, n)
<1>1. ~ TouchesFile(c, n)
  BY DEF TouchesFile, MetaCalls
<1>2. CASE c.call = "UpsertSubMeta"
  <2>1. metas' = [m \in DOMAIN metas \cup {c.name} |-> IF m = c.name THEN c.rec ELSE metas[m]]
    BY <1>2 DEF MetasAfter, Put
  <2> QED BY <1>1, <1>2, <2>1 DEF Executes, TouchesMeta
<1>3. CASE c.call = "DeleteSubMeta"
  <2>1. metas' = [m \in DOMAIN metas \ {c.name} |-> metas[m]]
    BY <1>3 DEF MetasAfter, Drop
  <2> QED BY <1>1, <1>3, <2>1 DEF Executes, TouchesMeta
<1>4. CASE c.call = "DeleteKeySource"
  <2>1. metas' = metas
    BY <1>4 DEF MetasAfter
  <2> QED BY <1>1, <1>4, <2>1 DEF Executes, TouchesMeta
<1> QED BY <1>2, <1>3, <1>4 DEF MetaCalls

LEMMA OtherCallExecutes ==
    ASSUME NEW c, c.call \in {"Mark", "Clear", "Sync"}, UNCHANGED <<files, metas>>, NEW n
    PROVE  Executes(c, n)
BY DEF Executes, TouchesFile, TouchesMeta

\* The first call done, the rest settles n.
LEMMA TailSettles ==
    ASSUME NEW t, CallList(t), NEW n, Settles(t, n), NEW c, c = t[1], Executes(c, n),
           NEW u, u = Tail(t)
    PROVE  /\ Settles(u, n)'
           /\ u = <<>> => StatusAgrees(n)'
<1>1. /\ Len(t) \in Nat \ {0} /\ DOMAIN t = 1..Len(t) /\ 1 \in DOMAIN t
      /\ DOMAIN u = 1..(Len(t) - 1) /\ \A i \in DOMAIN u : u[i] = t[i + 1]
  BY CallListFacts
<1> DEFINE F == FileSteps(t, n)
           M == MetaSteps(t, n)
           FU == FileSteps(u, n)
           MU == MetaSteps(u, n)
<1>2. /\ \A i \in FU : i \in Nat \ {0} /\ i + 1 \in F /\ u[i] = t[i + 1]
      /\ \A i \in F : i \in Nat /\ (i # 1 => i - 1 \in FU)
      /\ \A i \in MU : i \in Nat \ {0} /\ i + 1 \in M /\ u[i] = t[i + 1]
      /\ \A i \in M : i \in Nat /\ (i # 1 => i - 1 \in MU)
  <2>1. ASSUME NEW i \in DOMAIN u
        PROVE  i \in Nat \ {0} /\ i + 1 \in DOMAIN t /\ u[i] = t[i + 1]
    BY <1>1
  <2>2. ASSUME NEW i \in DOMAIN t
        PROVE  i \in Nat /\ (i # 1 => i - 1 \in DOMAIN u /\ u[i - 1] = t[i])
    <3>1. i # 1 => i - 1 \in DOMAIN u /\ (i - 1) + 1 = i
      BY <1>1
    <3> QED BY <1>1, <3>1
  <2> QED BY <2>1, <2>2 DEF FileSteps, MetaSteps
<1>3. (1 \in F <=> TouchesFile(c, n)) /\ (1 \in M <=> TouchesMeta(c, n))
  BY <1>1 DEF FileSteps, MetaSteps
<1>4. /\ \A i, j \in F : i = j
      /\ \A i, j \in M : i = j
      /\ \A i \in F : \E j \in M : i < j
      /\ M = {} => StatusAgrees(n)
      /\ \A i \in M : t[i].call = "UpsertSubMeta" =>
           (t[i].rec.status = "active" <=>
               IF F = {} THEN n \in DOMAIN files ELSE \A j \in F : Creates(t[j], n))
  BY DEF Settles
<1>5. \A i \in M : t[i].call \in {"UpsertSubMeta", "DeleteSubMeta"}
  BY DEF MetaSteps, TouchesMeta
<1>6. FU' = FU /\ MU' = MU
  BY DEF FileSteps, MetaSteps
<1>7. \A i \in M : i >= 1
  BY <1>1 DEF MetaSteps
<1>8. u = <<>> => MU = {}
  <2>1. DOMAIN <<>> = {}
    OBVIOUS
  <2> QED BY <2>1 DEF MetaSteps
<1> HIDE DEF F, M, FU, MU
<1>9. /\ \A i, j \in FU : i = j
      /\ \A i, j \in MU : i = j
  <2>1. \A i, j \in FU : i + 1 = j + 1
    BY <1>2, <1>4
  <2>2. \A i, j \in MU : i + 1 = j + 1
    BY <1>2, <1>4
  <2> QED BY <1>2, <2>1, <2>2
<1>10. ASSUME NEW i \in FU PROVE \E j \in MU : i < j
  <2>1. PICK j \in M : i + 1 < j
    BY <1>2, <1>4
  <2>2. j - 1 \in MU /\ i < j - 1
    BY <1>2, <2>1
  <2> QED BY <2>2
<1>11. CASE ~ TouchesFile(c, n) /\ ~ TouchesMeta(c, n)
  <2>1. Same(n)
    BY <1>11 DEF Same, Executes
  <2>2. (M = {} <=> MU = {}) /\ (F = {} <=> FU = {})
    BY <1>2, <1>3, <1>11
  <2>3. MU = {} => StatusAgrees(n)'
    BY <1>4, <2>1, <2>2, SameAgrees
  <2>4. ASSUME NEW i \in MU, u[i].call = "UpsertSubMeta"
        PROVE  u[i].rec.status = "active" <=>
                 IF FU = {} THEN n \in DOMAIN files' ELSE \A j \in FU : Creates(u[j], n)
    <3>1. i + 1 \in M /\ u[i] = t[i + 1]
      BY <1>2
    <3>2. (\A j \in FU : Creates(u[j], n)) <=> \A j \in F : Creates(t[j], n)
      <4>1. \A j \in FU : j + 1 \in F /\ u[j] = t[j + 1]
        BY <1>2
      <4>2. ASSUME NEW j \in F
            PROVE  j - 1 \in FU /\ u[j - 1] = t[j]
        <5>1. j # 1 /\ j \in Nat
          BY <1>2, <1>3, <1>11
        <5>2. j - 1 \in FU /\ (j - 1) + 1 = j
          BY <1>2, <5>1
        <5> QED BY <1>2, <5>2
      <4> QED BY <4>1, <4>2
    <3>3. t[i + 1].rec.status = "active" <=>
               IF F = {} THEN n \in DOMAIN files ELSE \A j \in F : Creates(t[j], n)
      BY <1>4, <2>4, <3>1
    <3>4. n \in DOMAIN files' <=> n \in DOMAIN files
      BY <2>1 DEF Same
    <3> QED BY <2>2, <3>1, <3>2, <3>3, <3>4
  <2> QED BY <1>6, <1>8, <1>9, <1>10, <2>3, <2>4 DEF Settles, FU, MU
<1>12. CASE TouchesFile(c, n)
  <2>1. 1 \in F /\ FU = {}
    <3>1. 1 \in F
      BY <1>3, <1>12
    <3>2. ASSUME NEW i \in FU PROVE FALSE
      BY <1>2, <1>4, <3>1
    <3> QED BY <3>1, <3>2
  <2>2. MU # {}
    <3>1. PICK j \in M : 1 < j
      BY <1>4, <2>1
    <3> QED BY <1>2, <3>1
  <2>3. n \in DOMAIN files' <=> Creates(c, n)
    BY <1>12 DEF Executes
  <2>4. ASSUME NEW i \in MU, u[i].call = "UpsertSubMeta"
        PROVE  u[i].rec.status = "active" <=> n \in DOMAIN files'
    <3>1. i + 1 \in M /\ u[i] = t[i + 1]
      BY <1>2
    <3>2. F # {} /\ \A j \in F : t[j] = c
      BY <1>4, <2>1
    <3>3. u[i].rec.status = "active" <=> \A j \in F : Creates(t[j], n)
      BY <1>4, <2>4, <3>1, <3>2
    <3> QED BY <2>3, <3>2, <3>3
  <2> QED BY <1>6, <1>8, <1>9, <2>1, <2>2, <2>4 DEF Settles, FU, MU
<1>13. CASE TouchesMeta(c, n) /\ ~ TouchesFile(c, n)
  <2>1. 1 \in M /\ MU = {}
    <3>1. 1 \in M
      BY <1>3, <1>13
    <3>2. ASSUME NEW i \in MU PROVE FALSE
      BY <1>2, <1>4, <3>1
    <3> QED BY <3>1, <3>2
  <2>2. F = {} /\ FU = {}
    <3>1. ASSUME NEW i \in F PROVE FALSE
      BY <1>2, <1>4, <2>1, <3>1, <1>3, <1>13
    <3> QED BY <1>2, <3>1
  <2>3. StatusAgrees(n)'
    <3>1. CASE c.call = "DeleteSubMeta"
      BY <1>13, <3>1 DEF Executes, StatusAgrees
    <3>2. CASE c.call = "UpsertSubMeta"
      <4>1. metas'[n] = c.rec /\ (n \in DOMAIN files' <=> n \in DOMAIN files)
        BY <1>13, <3>2 DEF Executes
      <4>2. c.rec.status = "active" <=> n \in DOMAIN files
        BY <1>4, <2>1, <2>2, <3>2
      <4> QED BY <4>1, <4>2 DEF StatusAgrees
    <3> QED BY <1>5, <2>1, <3>1, <3>2
  <2> QED BY <1>6, <1>9, <2>1, <2>2, <2>3 DEF Settles, FU, MU
<1> QED BY <1>11, <1>12, <1>13

LEMMA CallSettles ==
    ASSUME Apart, StatusInv, NEW w \in Workers,
           CallFiles(w) \/ CallMetas(w) \/ CallMark(w) \/ CallScript(w)
    PROVE  StatusInv'
<1> DEFINE t == job[w].todo
           u == Tail(job[w].todo)
           c == NextCall(w)
<1>1. job[w].phase = "run" /\ Advance(w)
  BY DEF CallFiles, CallMetas, CallMark, CallScript, IsNext
<1>2. CallList(t) /\ KeepsTo(t, NamesOf[w]) /\ \A n \in NamesOf[w] : Settles(t, n)
  BY <1>1 DEF StatusInv, JobSettles
<1>3. /\ Len(t) \in Nat \ {0} /\ DOMAIN t = 1..Len(t) /\ 1 \in DOMAIN t /\ c = t[1]
      /\ DOMAIN u = 1..(Len(t) - 1) /\ \A i \in DOMAIN u : u[i] = t[i + 1]
      /\ u # <<>> => CallList(u)
  BY <1>2, CallListFacts DEF NextCall
<1>4. /\ job' \in [Workers -> Range(job')]
      /\ \A v \in Workers \ {w} : job'[v] = job[v]
      /\ u = <<>> => job'[w] = Idle
      /\ u # <<>> => job'[w].phase = "run" /\ job'[w].todo = u
  BY <1>1, AdvanceIs DEF StatusInv
<1>5. \A n : Executes(c, n)
  <2>1. CASE CallFiles(w)
    <3>1. c.call \in FileCalls /\ files' = FilesAfter(c, files) /\ metas' = metas
      BY <2>1 DEF CallFiles, IsNext
    <3>2. c.call = "RenameSubscriptionFile" => c.name # c.new /\ c.name \in DOMAIN files
      BY <1>2, <1>3 DEF KeepsTo
    <3> HIDE DEF c
    <3> QED BY <3>1, <3>2, FileCallExecutes
  <2>2. CASE CallMetas(w)
    <3>1. c.call \in MetaCalls /\ files' = files /\ metas' = MetasAfter(c, metas)
      BY <2>2 DEF CallMetas, IsNext
    <3> HIDE DEF c
    <3> QED BY <3>1, MetaCallExecutes
  <2>3. CASE CallMark(w) \/ CallScript(w)
    <3>1. c.call \in {"Mark", "Clear", "Sync"} /\ UNCHANGED <<files, metas>>
      BY <2>3 DEF CallMark, CallScript, IsNext, store
    <3> HIDE DEF c
    <3> QED BY <3>1, OtherCallExecutes
  <2> QED BY <2>1, <2>2, <2>3
<1>6. \A n \in Names \ NamesOf[w] : Same(n)
  <2> SUFFICES ASSUME NEW n \in Names \ NamesOf[w] PROVE Same(n)
    OBVIOUS
  <2>1. ~ TouchesFile(c, n) /\ ~ TouchesMeta(c, n)
    BY <1>2, <1>3 DEF KeepsTo
  <2> QED BY <1>5, <2>1 DEF Executes, Same
<1>7. ASSUME NEW n \in NamesOf[w], u = <<>>
      PROVE  StatusAgrees(n)'
  <2>1. PICK x, y, z : x = t /\ y = u /\ z = c
    OBVIOUS
  <2>2. CallList(x) /\ Settles(x, n) /\ z = x[1] /\ Executes(z, n) /\ y = Tail(x)
    BY <1>2, <1>3, <1>5, <2>1
  <2>3. y = <<>> => StatusAgrees(n)'
    BY <2>2, TailSettles
  <2> QED BY <1>7, <2>1, <2>3
<1>8. JobSettles(w)'
  <2>1. CASE u = <<>>
    <3>1. \A n \in NamesOf[w] : StatusAgrees(n)'
      BY <1>7, <2>1
    <3> QED BY <1>4, <2>1, <3>1 DEF JobSettles, Idle
  <2>2. CASE u # <<>>
    <3>1. PICK y : y = u
      OBVIOUS
    <3>2. ASSUME NEW n \in NamesOf[w] PROVE Settles(y, n)'
      <4>1. PICK x, z : x = t /\ z = c
        OBVIOUS
      <4>2. CallList(x) /\ Settles(x, n) /\ z = x[1] /\ Executes(z, n) /\ y = Tail(x)
        BY <1>2, <1>3, <1>5, <3>1, <4>1
      <4> QED BY <4>2, TailSettles
    <3>3. KeepsTo(y, NamesOf[w])'
      <4>1. \A i \in DOMAIN y : i + 1 \in DOMAIN t /\ i + 1 # 1 /\ y[i] = t[i + 1]
        BY <1>3, <3>1
      <4>2. \A i \in DOMAIN y, n \in Names :
              TouchesFile(y[i], n) \/ TouchesMeta(y[i], n) => n \in NamesOf[w]
        BY <1>2, <4>1 DEF KeepsTo
      <4>3. \A i \in DOMAIN y : y[i].call # "RenameSubscriptionFile"
        BY <1>2, <4>1 DEF KeepsTo
      <4>4. \A i \in DOMAIN y : y[i].call = "Sync" =>
              \A j \in DOMAIN y : y[j].call \in {"Sync", "Clear"}
        BY <1>2, <4>1 DEF KeepsTo
      <4> QED BY <4>2, <4>3, <4>4 DEF KeepsTo, TouchesFile, TouchesMeta
    <3>4. job'[w].phase = "run" /\ job'[w].todo = y /\ CallList(y)
      BY <1>3, <1>4, <2>2, <3>1
    <3> QED BY <3>2, <3>3, <3>4 DEF JobSettles, CallList
  <2> QED BY <2>1, <2>2
<1>9. job'[w].phase \in {"idle", "resolve", "collect", "run"}
  BY <1>4 DEF Idle
<1> QED BY <1>4, <1>6, <1>8, <1>9, OthersSettle

\* Only the script can fail, and a request that runs it does nothing else.
LEMMA FailureSettles ==
    ASSUME Apart, StatusInv, NEW w \in Workers, CallFails(w)
    PROVE  StatusInv'
<1> DEFINE t == job[w].todo
<1>1. job[w].phase = "run" /\ Continue(w, Idle) /\ UNCHANGED store
      /\ (Fails(NextCall(w)) \/ NextCall(w) = Script)
  BY DEF CallFails
<1>2. CallList(t) /\ KeepsTo(t, NamesOf[w]) /\ \A n \in NamesOf[w] : Settles(t, n)
  BY <1>1 DEF StatusInv, JobSettles
<1>3. 1 \in DOMAIN t /\ NextCall(w) = t[1]
  BY <1>2, CallListFacts DEF NextCall
<1>4. t[1].call = "Sync"
  BY <1>1, <1>2, <1>3 DEF KeepsTo, Fails, Script
<1>5. \A i \in DOMAIN t : t[i].call \in {"Sync", "Clear"}
  BY <1>2, <1>3, <1>4 DEF KeepsTo
<1>6. \A n \in NamesOf[w] : StatusAgrees(n)
  <2> SUFFICES ASSUME NEW n \in NamesOf[w] PROVE StatusAgrees(n)
    OBVIOUS
  <2>1. MetaSteps(t, n) = {}
    BY <1>5 DEF MetaSteps, TouchesMeta
  <2> QED BY <1>2, <2>1 DEF Settles
<1>7. PICK j : j = Idle
  OBVIOUS
<1>8. Continue(w, j) /\ j.phase = "idle"
  BY <1>1, <1>7 DEF Idle
<1> QED BY <1>1, <1>6, <1>8, RequestSettles

LEMMA StatusStep ==
    ASSUME Apart, ~ Crashes, StatusInv, [Next]_vars
    PROVE  StatusInv'
<1>1. CASE UNCHANGED <<files, metas, job>>
  <2>1. \A n : Same(n)
    BY <1>1 DEF Same
  <2>2. \A v \in Workers : job'[v] = job[v] /\ JobSettles(v)'
    BY <1>1, <2>1, FrameSettles DEF StatusInv
  <2>3. \A n : StatusAgrees(n) <=> StatusAgrees(n)'
    BY <2>1, SameAgrees
  <2> QED BY <1>1, <2>2, <2>3 DEF StatusInv
<1>2. ASSUME NEW w \in Workers, NEW n \in NamesOf[w], OnName(w, n)
      PROVE  StatusInv'
  BY <1>2, OnNameSettles
<1>3. ASSUME NEW w \in Workers, StartRegenerateAll(w) \/ SyncRun(w)
      PROVE  StatusInv'
  <2>1. PICK r : TRUE
    OBVIOUS
  <2> QED BY <1>3, <2>1, AllNamesSettle
<1>4. ASSUME NEW w \in Workers, NEW r \in Refs, DeleteSource(w, r)
      PROVE  StatusInv'
  BY <1>4, AllNamesSettle
<1>5. ASSUME NEW w \in Workers, NEW r \in Refs, CreateSource(w, r)
      PROVE  StatusInv'
  BY <1>1, <1>5 DEF CreateSource
<1>6. ASSUME NEW w \in Workers, Proceed(w)
      PROVE  StatusInv'
  <2>1. CASE ResolveKey(w) \/ Resolved(w)
    BY <2>1, WaitingSettles
  <2>2. CASE PanelsAnswered(w)
    <3>1. PICK r : TRUE
      OBVIOUS
    <3> QED BY <2>2, <3>1, AllNamesSettle
  <2>3. CASE CallFiles(w) \/ CallMetas(w) \/ CallMark(w) \/ CallScript(w)
    BY <2>3, CallSettles
  <2>4. CASE CallFails(w)
    BY <2>4, FailureSettles
  <2> QED BY <1>6, <2>1, <2>2, <2>3, <2>4 DEF Proceed
<1>7. CASE Restart
  BY <1>7 DEF Restart
<1>8. CASE UNCHANGED vars
  BY <1>1, <1>8 DEF vars
<1> QED BY <1>2, <1>3, <1>4, <1>5, <1>6, <1>7, <1>8 DEF Next

\* The strengthening of StatusMatchesFile, of every step of requests that are
\* about different names and are not cut off.
THEOREM StatusInvariant ==
    ASSUME Apart, ~ Crashes
    PROVE  Spec => []StatusInv
<1>1. Init => StatusInv
  <2> SUFFICES ASSUME Init PROVE StatusInv
    OBVIOUS
  <2>1. DOMAIN metas = {} /\ job = [w \in Workers |-> Idle]
    BY DEF Init
  <2>2. \A n : StatusAgrees(n)
    BY <2>1 DEF StatusAgrees
  <2>3. job \in [Workers -> Range(job)]
    BY <2>1 DEF Range
  <2> QED BY <2>1, <2>2, <2>3 DEF StatusInv, JobSettles, Idle
<1>2. StatusInv /\ [Next]_vars => StatusInv'
  BY StatusStep
<1> QED BY <1>1, <1>2, PTL DEF Spec

\* StatusMatchesFile, every handler of SubscriptionService and the cascade of
\* KeySourceService.Delete: once the requests about a subscription are served,
\* its stored status says "active" exactly when its file is there.
THEOREM StatusFollowsFile ==
    ASSUME Apart, ~ Crashes
    PROVE  Spec => []StatusMatchesFile
<1>1. StatusInv => StatusMatchesFile
  <2> SUFFICES ASSUME StatusInv, NEW n \in Names, Settled(n) PROVE StatusAgrees(n)
    BY DEF StatusMatchesFile
  <2>1. CASE \A w \in Workers : n \notin NamesOf[w]
    BY <2>1 DEF StatusInv
  <2>2. CASE \E w \in Workers : n \in NamesOf[w]
    <3>1. PICK w \in Workers : n \in NamesOf[w]
      BY <2>2
    <3>2. job[w].phase # "run"
      BY <3>1 DEF Settled, Idle
    <3> QED BY <3>1, <3>2, WaitingAgrees
  <2> QED BY <2>1, <2>2
<1> QED BY <1>1, StatusInvariant, PTL

=============================================================================
