------------------------ MODULE SmallStores_proofs ------------------------
(***************************************************************************)
(* Proofs about the small stores: panels.json (Panels), tokens.json        *)
(* (Tokens), the table of test runs (RunsCursor) and those of the traffic  *)
(* (TrafficCounters).                                                      *)
(*                                                                         *)
(* Panel ids are unique and lead to the panel that was meant, for any      *)
(* names and any number of panels.  The accepted tokens are those of the   *)
(* file, for any number of tokens and of requests that cross.  The cursor  *)
(* over the test runs passes none that is not stored, and none is stored   *)
(* twice, for any number of runs and any periods.  The statistics never    *)
(* show traffic that there was not, for any number of inbounds and         *)
(* intervals, every range and every length of the buckets.                 *)
(***************************************************************************)
EXTENDS Panels, Tokens, RunsCursor, TrafficCounters,
        FiniteSetTheorems, SequenceTheorems, WellFoundedInduction, TLAPS

-----------------------------------------------------------------------------
(* panels.json *)

Sequence(base) == Len(base) \in Nat /\ base = [i \in 1..Len(base) |-> base[i]]

(* UniqueId finds an unused id: n panels cannot use n + 1 candidates.        *)

LEMMA CandidatesDiffer ==
    ASSUME NEW base, Sequence(base), NEW i \in Nat, NEW j \in Nat,
           Candidate(base, i) = Candidate(base, j)
    PROVE  i = j
<1> DEFINE S == {base[k] : k \in 1..Len(base)} \cup Nat
<1>1. base \in Seq(S)
  <2>1. base \in [1..Len(base) -> S]
    BY DEF Sequence
  <2> QED BY <2>1, SeqDef DEF Sequence
<1>2. \A k \in Nat : /\ Len(Append(base, k)) = Len(base) + 1
                     /\ Append(base, k)[Len(base) + 1] = k
  <2> TAKE k \in Nat
  <2>1. k \in S
    OBVIOUS
  <2> HIDE DEF S
  <2> QED BY <1>1, <2>1, AppendProperties
<1> HIDE DEF S
<1>3. Len(base) \in Nat
  BY DEF Sequence
<1>4. CASE i = 0 /\ j = 0
  BY <1>4
<1>5. CASE i = 0 /\ j # 0
  <2>1. base = Append(base, j)
    BY <1>5 DEF Candidate
  <2> QED BY <2>1, <1>2, <1>3
<1>6. CASE i # 0 /\ j = 0
  <2>1. base = Append(base, i)
    BY <1>6 DEF Candidate
  <2> QED BY <2>1, <1>2, <1>3
<1>7. CASE i # 0 /\ j # 0
  <2>1. Append(base, i) = Append(base, j)
    BY <1>7 DEF Candidate
  <2> QED BY <2>1, <1>2
<1> QED BY <1>4, <1>5, <1>6, <1>7

\* A set of naturals that is not empty has a least element.
LEMMA LeastExists ==
    ASSUME NEW T, T \subseteq Nat, T # {}
    PROVE  \E i \in T : \A j \in T : i <= j
<1>1. PICK i \in T : \A j \in T : <<j, i>> \notin OpToRel(<, Nat)
  BY WFMin, NatLessThanWellFounded, Zenon
<1>2. \A j \in T : ~(j < i)
  BY <1>1, Zenon DEF OpToRel
<1> QED BY <1>2

LEMMA FreeCandidate ==
    ASSUME NEW base, Sequence(base), NEW P, panels \in Seq(P)
    PROVE  \E i \in 0..Len(panels) : Candidate(base, i) \notin Used
<1> DEFINE n == Len(panels)
<1>1. n \in Nat /\ DOMAIN panels = 1..n
  BY LenProperties
<1> SUFFICES ASSUME \A i \in 0..n : Candidate(base, i) \in Used PROVE FALSE
  OBVIOUS
<1> DEFINE user == [i \in 0..n |-> CHOOSE k \in 1..n : At(k).id = Candidate(base, i)]
<1>2. \A i \in 0..n : user[i] \in 1..n /\ At(user[i]).id = Candidate(base, i)
  <2> TAKE i \in 0..n
  <2>1. \E k \in 1..n : At(k).id = Candidate(base, i)
    BY <1>1 DEF Used
  <2> QED BY <2>1
<1>3. /\ IsFiniteSet(0..n) /\ Cardinality(0..n) = n + 1
      /\ IsFiniteSet(1..n) /\ Cardinality(1..n) = n
  <2> HIDE DEF n
  <2>1. 0 \in Int /\ 1 \in Int /\ n \in Int
    BY <1>1
  <2>2. /\ IsFiniteSet(0..n) /\ Cardinality(0..n) = IF 0 > n THEN 0 ELSE n - 0 + 1
        /\ IsFiniteSet(1..n) /\ Cardinality(1..n) = IF 1 > n THEN 0 ELSE n - 1 + 1
    BY <2>1, FS_Interval
  <2> QED BY <1>1, <2>2
<1>4. user \in [0..n -> 1..n]
  BY <1>2
<1> HIDE DEF user
<1>5. \E i, j \in 0..n : i # j /\ user[i] = user[j]
  <2>1. Cardinality(1..n) < Cardinality(0..n)
    BY <1>1, <1>3
  <2> HIDE DEF n
  <2> QED BY <1>3, <1>4, <2>1, FS_PigeonHole
<1>6. \A i, j \in 0..n : user[i] = user[j] => i = j
  <2> SUFFICES ASSUME NEW i \in 0..n, NEW j \in 0..n, user[i] = user[j] PROVE i = j
    OBVIOUS
  <2>1. Candidate(base, i) = Candidate(base, j)
    BY <1>2
  <2> QED BY <2>1, <1>1, CandidatesDiffer
<1> QED BY <1>5, <1>6

\* The id of a new panel is not in use.
LEMMA UniqueIdIsUnused ==
    ASSUME NEW base, Sequence(base), NEW P, panels \in Seq(P)
    PROVE  UniqueId(base) \notin Used
<1> DEFINE free == {i \in 0..Len(panels) : Candidate(base, i) \notin Used}
           best == CHOOSE i \in free : \A j \in free : i <= j
<1>1. free \subseteq Nat /\ free # {}
  BY FreeCandidate
<1>2. \E i \in free : \A j \in free : i <= j
  BY <1>1, LeastExists
<1>3. best \in free
  BY <1>2
<1>4. UniqueId(base) = Candidate(base, best)
  BY DEF UniqueId
<1> QED BY <1>3, <1>4

-----------------------------------------------------------------------------
LEMMA PanelsInitHolds == PanelsInit => PanelsInv
<1> SUFFICES ASSUME PanelsInit PROVE PanelsInv
  OBVIOUS
<1>1. panels = <<>> /\ DOMAIN panels = {} /\ panels \in Seq(Panel)
  BY EmptySeq DEF PanelsInit
<1> QED BY <1>1 DEF PanelsInit, PanelsInv, NumbersAreUnique, PanelIdsAreUnique, SourcesReachTheirPanel

LEMMA AddPanelPreserves ==
    ASSUME PanelsInv, NEW name \in Names, AddPanel(name)
    PROVE  PanelsInv'
<1> DEFINE id == UniqueId(BaseOf[name])
           new == [id |-> id, name |-> name, made |-> made]
           n == Len(panels)
<1>1. /\ Readable /\ panels \in Seq(Panel) /\ made \in Nat
      /\ refs \subseteq [id : ids, made : 0..(made - 1)]
  BY DEF AddPanel, PanelsInv
<1>2. /\ panels' = Append(panels, new) \/ panels' = Truncated
      /\ made' = made + 1 /\ ids' = ids \cup {id} /\ refs' = refs
      /\ reused' = IF id \in ids THEN reused \cup {id} ELSE reused
  BY DEF AddPanel, SavePanels
<1>3. n \in Nat /\ DOMAIN panels = 1..n /\ \A i \in 1..n : At(i) \in Panel
  BY <1>1, LenProperties DEF At
<1>4. id \notin Used
  BY <1>1, PanelsAssumption, UniqueIdIsUnused DEF Sequence, Names
<1>5. \A i \in 1..n : At(i).id # id
  BY <1>3, <1>4 DEF Used
<1>6. \A i \in 1..n : At(i).made # made
  BY <1>1, <1>3 DEF Panel
<1>7. Panel \subseteq Panel' /\ new \in Panel'
  BY <1>1, <1>2 DEF Panel
<1>8. refs' \subseteq [id : ids', made : 0..(made' - 1)] /\ made' \in Nat
  BY <1>1, <1>2
<1> HIDE DEF id
<1>9. CASE ~Readable'
  BY <1>8, <1>9 DEF PanelsInv, NumbersAreUnique, PanelIdsAreUnique, SourcesReachTheirPanel
<1>10. CASE Readable'
  <2>1. panels' = Append(panels, new)
    BY <1>2, <1>10 DEF Readable
  <2>2. /\ panels' \in Seq(Panel') /\ Len(panels') = n + 1
        /\ \A i \in 1..n : panels'[i] = panels[i]
        /\ panels'[n + 1] = new
    <3>1. panels \in Seq(Panel')
      BY <1>1, <1>7, SeqMonotonic
    <3> HIDE DEF new
    <3> QED BY <2>1, <3>1, <1>7, AppendProperties
  <2>3. DOMAIN panels' = 1..(n + 1)
    BY <2>2, LenProperties
  <2>4. \A i \in 1..(n + 1) : At(i)' = IF i = n + 1 THEN new ELSE At(i)
    BY <1>3, <2>2 DEF At
  <2>5. NumbersAreUnique'
    BY <1>1, <1>3, <1>6, <2>3, <2>4 DEF NumbersAreUnique, PanelsInv
  <2>6. PanelIdsAreUnique'
    BY <1>1, <1>3, <1>5, <2>3, <2>4 DEF PanelIdsAreUnique, PanelsInv
  <2>7. SourcesReachTheirPanel'
    <3> SUFFICES ASSUME NEW ref \in refs, NEW i \in 1..(n + 1)
                 PROVE  /\ (At(i).made)' = ref.made => (At(i).id)' = ref.id
                        /\ (At(i).id)' = ref.id => (At(i).made)' = ref.made \/ ref.id \in reused'
      BY <1>2, <2>3 DEF SourcesReachTheirPanel
    <3>1. ref.id \in ids /\ ref.made # made
      BY <1>1
    <3>2. CASE i = n + 1
      BY <1>2, <1>3, <2>4, <3>1, <3>2
    <3>3. CASE i # n + 1
      BY <1>1, <1>2, <1>3, <2>4, <3>3 DEF PanelsInv, SourcesReachTheirPanel
    <3> QED BY <3>2, <3>3
  <2> QED BY <1>8, <2>2, <2>5, <2>6, <2>7 DEF PanelsInv
<1> QED BY <1>9, <1>10

\* UpdatePanelName and DeletePanel: each panel that is written was there, under
\* another place or name, and none of them twice.
LEMMA RewritePreserves ==
    ASSUME PanelsInv, Readable, UNCHANGED <<refs, made, reused, ids>>,
           NEW new, NEW from,
           panels' = new \/ panels' = Truncated,
           new \in Seq(Panel),
           from \in [DOMAIN new -> DOMAIN panels],
           \A i, j \in DOMAIN new : from[i] = from[j] => i = j,
           \A i \in DOMAIN new : new[i].id = panels[from[i]].id /\ new[i].made = panels[from[i]].made
    PROVE  PanelsInv'
<1>1. CASE ~Readable'
  BY <1>1 DEF PanelsInv, NumbersAreUnique, PanelIdsAreUnique, SourcesReachTheirPanel
<1>2. CASE Readable'
  <2>1. panels' = new
    BY <1>2 DEF Readable
  <2>2. panels' \in Seq(Panel')
    BY <2>1 DEF Panel
  <2>3. \A i \in DOMAIN panels' : /\ from[i] \in DOMAIN panels
                                  /\ (At(i).id)' = At(from[i]).id
                                  /\ (At(i).made)' = At(from[i]).made
    BY <2>1 DEF At
  <2>4. NumbersAreUnique'
    BY <2>1, <2>3 DEF NumbersAreUnique, PanelsInv
  <2>5. PanelIdsAreUnique'
    BY <2>1, <2>3 DEF PanelIdsAreUnique, PanelsInv
  <2>6. SourcesReachTheirPanel'
    BY <2>3 DEF SourcesReachTheirPanel, PanelsInv
  <2> QED BY <2>2, <2>4, <2>5, <2>6 DEF PanelsInv
<1> QED BY <1>1, <1>2

LEMMA UpdatePanelNamePreserves ==
    ASSUME PanelsInv, NEW i, NEW name \in Names, UpdatePanelName(i, name)
    PROVE  PanelsInv'
<1> DEFINE new == [panels EXCEPT ![i] = Renamed(@, name)]
           from == [j \in DOMAIN new |-> j]
<1>1. panels \in Seq(Panel) /\ i \in DOMAIN panels /\ i \in 1..Len(panels)
  BY LenProperties DEF UpdatePanelName, PanelsInv
<1>2. panels[i] \in Panel
  BY <1>1, ElementOfSeq
<1>3. /\ Renamed(panels[i], name) \in Panel
      /\ Renamed(panels[i], name).id = panels[i].id /\ Renamed(panels[i], name).made = panels[i].made
  BY <1>2 DEF Renamed, Panel
<1>4. new \in Seq(Panel)
  BY <1>1, <1>3, ExceptSeq
<1>5. \A j \in DOMAIN new : new[j].id = panels[j].id /\ new[j].made = panels[j].made
  BY <1>1, <1>3
<1>6. panels' = new \/ panels' = Truncated
  BY DEF UpdatePanelName, SavePanels
<1>7. DOMAIN new = DOMAIN panels
  BY <1>1
<1>8. /\ from \in [DOMAIN new -> DOMAIN panels] /\ \A j, k \in DOMAIN new : from[j] = from[k] => j = k
      /\ \A j \in DOMAIN new : /\ new[j].id = panels[from[j]].id
                              /\ new[j].made = panels[from[j]].made
  BY <1>5, <1>7
<1>9. Readable /\ UNCHANGED <<refs, made, reused, ids>>
  BY DEF UpdatePanelName
<1> HIDE DEF new, from
<1> QED BY <1>4, <1>6, <1>8, <1>9, RewritePreserves

LEMMA DeletePanelPreserves ==
    ASSUME PanelsInv, NEW i, DeletePanel(i)
    PROVE  PanelsInv'
<1> DEFINE n == Len(panels)
           new == [j \in 1..(n - 1) |-> IF j < i THEN panels[j] ELSE panels[j + 1]]
           from == [j \in 1..(n - 1) |-> IF j < i THEN j ELSE j + 1]
<1>1. /\ panels \in Seq(Panel) /\ i \in 1..n /\ n \in Nat /\ DOMAIN panels = 1..n
      /\ \A j \in 1..n : panels[j] \in Panel
  BY LenProperties DEF DeletePanel, PanelsInv
<1>2. new \in Seq(Panel)
  <2>1. n - 1 \in Nat /\ new \in [1..(n - 1) -> Panel]
    BY <1>1
  <2> HIDE DEF new
  <2> QED BY <2>1, SeqDef
<1>3. from \in [DOMAIN new -> DOMAIN panels]
  BY <1>1
<1>4. \A j, k \in DOMAIN new : from[j] = from[k] => j = k
  BY <1>1
<1>5. \A j \in DOMAIN new : new[j] = panels[from[j]]
  BY <1>1
<1>6. (panels' = new \/ panels' = Truncated) /\ Readable /\ UNCHANGED <<refs, made, reused, ids>>
  BY DEF DeletePanel, SavePanels
<1> HIDE DEF new, from
<1>7. \A j \in DOMAIN new : new[j].id = panels[from[j]].id /\ new[j].made = panels[from[j]].made
  BY <1>5
<1> QED BY <1>2, <1>3, <1>4, <1>6, <1>7, RewritePreserves

LEMMA CreateRefPreserves == PanelsInv /\ CreateRef => PanelsInv'
<1> SUFFICES ASSUME PanelsInv, CreateRef PROVE PanelsInv'
  OBVIOUS
<1>1. PICK i \in DOMAIN panels : refs' = refs \cup {[id |-> At(i).id, made |-> At(i).made]}
  BY DEF CreateRef
<1>2. /\ UNCHANGED <<panels, made, reused, ids>> /\ Readable
      /\ panels \in Seq(Panel) /\ DOMAIN panels = 1..Len(panels)
  BY LenProperties DEF CreateRef, PanelsInv
<1>3. At(i) \in Panel
  BY <1>1, <1>2, ElementOfSeq DEF At
<1>4. refs' \subseteq [id : ids', made : 0..(made' - 1)]
  BY <1>1, <1>2, <1>3 DEF Panel, PanelsInv
<1>5. SourcesReachTheirPanel'
  BY <1>1, <1>2 DEF SourcesReachTheirPanel, PanelsInv, NumbersAreUnique, PanelIdsAreUnique, Readable, At
<1> QED BY <1>2, <1>4, <1>5 DEF PanelsInv, NumbersAreUnique, PanelIdsAreUnique, Readable, At, Panel

\* The inductive invariant: panels differ in their numbers and ids, and
\* sources reach the panel they were made for.
THEOREM PanelsInvariant == PanelsSpec => []PanelsInv
<1>1. PanelsInit => PanelsInv
  BY PanelsInitHolds
<1>2. PanelsInv /\ [PanelsNext]_panelsVars => PanelsInv'
  <2> SUFFICES ASSUME PanelsInv, [PanelsNext]_panelsVars PROVE PanelsInv'
    OBVIOUS
  <2>1. ASSUME NEW name \in Names, AddPanel(name) PROVE PanelsInv'
    BY <2>1, AddPanelPreserves
  <2>2. ASSUME NEW i, DeletePanel(i) PROVE PanelsInv'
    BY <2>2, DeletePanelPreserves
  <2>3. ASSUME NEW i, NEW name \in Names, UpdatePanelName(i, name) PROVE PanelsInv'
    BY <2>3, UpdatePanelNamePreserves
  <2>4. CASE Reopen \/ UNCHANGED panelsVars
    <3>1. UNCHANGED panelsVars
      BY <2>4 DEF Reopen, Load, panelsVars
    <3> QED BY <3>1 DEF panelsVars, PanelsInv, NumbersAreUnique, PanelIdsAreUnique,
                        SourcesReachTheirPanel, Readable, At, Panel
  <2>5. CASE CreateRef
    BY <2>5, CreateRefPreserves
  <2> QED BY <2>1, <2>2, <2>3, <2>4, <2>5 DEF PanelsNext
<1> QED BY <1>1, <1>2, PTL DEF PanelsSpec

\* AddPanel never gives an id that is in use, whatever the names look like:
\* panels.json holds no id twice.
THEOREM PanelIdsUnique == PanelsSpec => []PanelIdsAreUnique
<1>1. PanelsInv => PanelIdsAreUnique
  BY DEF PanelsInv
<1> QED BY <1>1, PanelsInvariant, PTL

\* A KeySource leads to the panel it was made for (UpdatePanelName leaves ids
\* alone) and to another one only by an id that was given again.
THEOREM SourcesReach == PanelsSpec => []SourcesReachTheirPanel
<1>1. PanelsInv => SourcesReachTheirPanel
  BY DEF PanelsInv
<1> QED BY <1>1, PanelsInvariant, PTL

\* No request and no start of the process writes over a file that was cut off.
THEOREM UnreadableFileStays == PanelsSpec => UnreadableStays
<1>1. [PanelsNext]_panelsVars => [~Readable => UNCHANGED panels]_panelsVars
  BY DEF PanelsNext, AddPanel, DeletePanel, UpdatePanelName, Reopen, Load, CreateRef, panelsVars
<1> QED BY <1>1, PTL DEF PanelsSpec, UnreadableStays

-----------------------------------------------------------------------------
(* tokens.json *)

\* What AcceptedTokensAreListed says of one token, without strings.
LEMMA AcceptedIsIssued ==
    ASSUME enabled, NEW h
    PROVE  (Authenticate(h) = "issued") <=> h \in issued
BY DEF Authenticate

LEMMA TokensInitHolds == TokensInit => TokensInv
BY DEF TokensInit, TokensInv, Request, RequestsMatchFile, AcceptedTokensAreListed

\* A start: the set in memory is the file.
LEMMA BootPreserves == TokensInv /\ Boot => TokensInv'
<1> SUFFICES ASSUME TokensInv, Boot PROVE TokensInv'
  OBVIOUS
<1>1. /\ UNCHANGED <<tokens, request, given, crossed>> /\ running' /\ ~running
      /\ enabled' => issued' = InFile
  BY DEF Boot, LoadIssued
<1>2. \A r \in Requests : request[r] = Waiting
  BY <1>1 DEF TokensInv, RequestsMatchFile
<1>3. RequestsMatchFile'
  BY <1>1, <1>2 DEF RequestsMatchFile, Waiting
<1>4. AcceptedTokensAreListed'
  <2> SUFFICES ASSUME enabled', NEW h \in given' PROVE (Authenticate(h) = "issued")' <=> (h \in InFile)'
    BY DEF AcceptedTokensAreListed
  <2>1. issued' = InFile'
    BY <1>1 DEF InFile
  <2> QED BY <2>1 DEF Authenticate
<1> QED BY <1>1, <1>3, <1>4 DEF TokensInv, Request, Waiting

\* A stop, be it between two steps or in the middle of a write.
LEMMA DiePreserves ==
    ASSUME TokensInv, Die, UNCHANGED tokens \/ tokens' = Unreadable
    PROVE  TokensInv'
<1>1. /\ ~running' /\ given' = given
      /\ \A r \in Requests : request'[r] = Waiting
      /\ request' \in [Requests -> Request']
      /\ tokens' \in (SUBSET given') \cup {Unreadable}
  BY DEF Die, Request, TokensInv, Waiting
<1>2. Waiting' = Waiting
  BY DEF Waiting
<1> QED BY <1>1, <1>2 DEF TokensInv, RequestsMatchFile, AcceptedTokensAreListed

LEMMA AddTokenPreserves ==
    ASSUME TokensInv, NEW r \in Requests, AddToken(r)
    PROVE  TokensInv'
<1> USE TokensAssumption
<1>1. PICK h \in Hashes \ given :
        /\ tokens' = tokens \cup {h} /\ given' = given \cup {h}
        /\ request' = [request EXCEPT ![r] = [step |-> "created", hash |-> h]]
  BY DEF AddToken
<1>2. /\ running /\ tokens # Unreadable /\ request[r] = Waiting
      /\ UNCHANGED <<issued, enabled, running, crossed>>
  BY DEF AddToken
<1>3. tokens' \in SUBSET given' /\ tokens' # Unreadable /\ given' \subseteq Hashes /\ tokens \subseteq given
  BY <1>1, <1>2 DEF TokensInv
<1>4. request' \in [Requests -> Request']
  BY <1>1 DEF TokensInv, Request, Waiting
<1>5. \A q \in Requests \ {r} : request'[q] = request[q]
  BY <1>1 DEF TokensInv
<1>6. request'[r] = [step |-> "created", hash |-> h]
  BY <1>1 DEF TokensInv
<1>7. RequestsMatchFile'
  <2> SUFFICES ASSUME NEW q \in Requests, request'[q] # Waiting
               PROVE  /\ running' /\ tokens' # Unreadable
                      /\ request'[q].step = "created" => request'[q].hash \in tokens' \cup crossed'
                      /\ request'[q].step = "deleted" => request'[q].hash \notin tokens'
    BY DEF RequestsMatchFile, Waiting
  <2>1. CASE q = r
    BY <2>1, <1>1, <1>2, <1>3, <1>6
  <2>2. CASE q # r
    <3>1. request'[q] = request[q] /\ request[q] # Waiting
      BY <2>2, <1>5
    <3>2. request[q].hash \in given
      BY <3>1 DEF TokensInv, Request
    <3> QED BY <3>1, <3>2, <1>1, <1>2, <1>3 DEF TokensInv, RequestsMatchFile
  <2> QED BY <2>1, <2>2
<1>8. AcceptedTokensAreListed'
  <2> SUFFICES ASSUME running', enabled', NEW k \in given'
               PROVE  InProgress(k)' \/ k \in crossed' \/ ((k \in issued') <=> k \in InFile')
    BY <1>2, AcceptedIsIssued DEF AcceptedTokensAreListed, Authenticate
  <2>1. CASE k = h
    BY <2>1, <1>6 DEF InProgress
  <2>2. CASE k # h
    <3>1. k \in given
      BY <2>2, <1>1
    <3>2. InProgress(k) \/ k \in crossed \/ ((k \in issued) <=> k \in InFile)
      BY <3>1, <1>2, AcceptedIsIssued DEF TokensInv, AcceptedTokensAreListed
    <3>3. InProgress(k) => InProgress(k)'
      <4> SUFFICES ASSUME NEW q \in Requests, request[q].hash = k PROVE InProgress(k)'
        BY DEF InProgress
      <4>1. q # r
        BY <1>2, <3>1 DEF TokensInv, Waiting
      <4> QED BY <4>1, <1>5 DEF InProgress
    <3>4. k \in InFile' <=> k \in InFile
      BY <2>2, <1>1, <1>2, <1>3 DEF InFile
    <3> QED BY <3>2, <3>3, <3>4, <1>2
  <2> QED BY <2>1, <2>2
<1> QED BY <1>3, <1>4, <1>7, <1>8 DEF TokensInv

\* The second step of Create and of Delete: one request ends, and the set in
\* memory agrees with the file on its token, or the token was crossed.
LEMMA EndPreserves ==
    ASSUME TokensInv, NEW r \in Requests, request[r] # Waiting,
           request' = [request EXCEPT ![r] = Waiting],
           UNCHANGED <<tokens, enabled, running, given, crossed>>,
           \A k : k # request[r].hash => (k \in issued' <=> k \in issued),
           \/ request[r].hash \in crossed
           \/ request[r].hash \in issued' <=> request[r].hash \in tokens
    PROVE  TokensInv'
<1>1. /\ request' \in [Requests -> Request']
      /\ \A q \in Requests : request'[q] = request[q] \/ request'[q] = Waiting
      /\ \A q \in Requests \ {r} : request'[q] = request[q]
  BY DEF TokensInv, Request, Waiting
<1>2. RequestsMatchFile'
  BY <1>1 DEF TokensInv, RequestsMatchFile, Waiting
<1>3. tokens # Unreadable
  BY DEF TokensInv, RequestsMatchFile
<1>4. AcceptedTokensAreListed'
  <2> SUFFICES ASSUME running, enabled, NEW k \in given
               PROVE  InProgress(k)' \/ k \in crossed \/ ((k \in issued') <=> k \in InFile)
    BY DEF AcceptedTokensAreListed, Authenticate, InFile
  <2>1. CASE k = request[r].hash
    BY <2>1, <1>3 DEF InFile
  <2>2. CASE k # request[r].hash
    <3>1. InProgress(k) \/ k \in crossed \/ ((k \in issued) <=> k \in InFile)
      BY AcceptedIsIssued DEF TokensInv, AcceptedTokensAreListed
    <3>2. InProgress(k) => InProgress(k)'
      BY <2>2, <1>1 DEF InProgress
    <3> QED BY <3>1, <3>2, <2>2
  <2> QED BY <2>1, <2>2
<1> QED BY <1>1, <1>2, <1>4 DEF TokensInv

LEMMA AddIssuedPreserves ==
    ASSUME TokensInv, NEW r \in Requests, AddIssued(r)
    PROVE  TokensInv'
<1>1. request[r] # Waiting /\ request[r].step = "created"
  BY DEF AddIssued, Waiting
<1>2. request[r].hash \in tokens \cup crossed
  BY <1>1 DEF TokensInv, RequestsMatchFile
<1>3. /\ issued' = issued \cup {request[r].hash}
      /\ request' = [request EXCEPT ![r] = Waiting]
      /\ UNCHANGED <<tokens, enabled, running, given, crossed>>
  BY DEF AddIssued, Remember
<1> QED BY <1>1, <1>2, <1>3, EndPreserves

LEMMA RemoveIssuedPreserves ==
    ASSUME TokensInv, NEW r \in Requests, RemoveIssued(r)
    PROVE  TokensInv'
<1>1. request[r] # Waiting /\ request[r].step = "deleted"
  BY DEF RemoveIssued, Waiting
<1>2. request[r].hash \notin tokens
  BY <1>1 DEF TokensInv, RequestsMatchFile
<1>3. /\ issued' = issued \ {request[r].hash}
      /\ request' = [request EXCEPT ![r] = Waiting]
      /\ UNCHANGED <<tokens, enabled, running, given, crossed>>
  BY DEF RemoveIssued, Forget
<1> QED BY <1>1, <1>2, <1>3, EndPreserves

LEMMA DeleteTokenPreserves ==
    ASSUME TokensInv, NEW r \in Requests, DeleteToken(r)
    PROVE  TokensInv'
<1> USE TokensAssumption
<1>1. PICK h \in tokens :
        /\ tokens' = tokens \ {h}
        /\ request' = [request EXCEPT ![r] = [step |-> "deleted", hash |-> h]]
        /\ crossed' = IF BetweenSteps(h) THEN crossed \cup {h} ELSE crossed
  BY DEF DeleteToken
<1>2. /\ running /\ tokens # Unreadable /\ request[r] = Waiting
      /\ UNCHANGED <<issued, enabled, running, given>>
  BY DEF DeleteToken
<1>3. tokens' \in SUBSET given /\ tokens' # Unreadable /\ h \in given /\ given \subseteq Hashes
  BY <1>1, <1>2 DEF TokensInv
<1>4. request' \in [Requests -> Request']
  BY <1>1, <1>2, <1>3 DEF TokensInv, Request, Waiting
<1>5. /\ \A q \in Requests \ {r} : request'[q] = request[q]
      /\ request'[r] = [step |-> "deleted", hash |-> h]
  BY <1>1 DEF TokensInv
<1>6. RequestsMatchFile'
  <2> SUFFICES ASSUME NEW q \in Requests, request'[q] # Waiting
               PROVE  /\ running' /\ tokens' # Unreadable
                      /\ request'[q].step = "created" => request'[q].hash \in tokens' \cup crossed'
                      /\ request'[q].step = "deleted" => request'[q].hash \notin tokens'
    BY DEF RequestsMatchFile, Waiting
  <2>1. CASE q = r
    BY <2>1, <1>1, <1>2, <1>3, <1>5
  <2>2. CASE q # r
    <3>1. request'[q] = request[q] /\ request[q] # Waiting
      BY <2>2, <1>5
    <3>2. /\ request[q].step = "created" => request[q].hash \in tokens \cup crossed
          /\ request[q].step = "deleted" => request[q].hash \notin tokens
      BY <3>1 DEF TokensInv, RequestsMatchFile
    <3>3. request[q] \in [step : {"created", "deleted"}, hash : given]
      BY <3>1 DEF TokensInv, Request
    <3>4. request[q].step = "created" /\ request[q].hash = h => BetweenSteps(h)
      BY <3>3 DEF BetweenSteps
    <3> QED BY <3>1, <3>2, <3>4, <1>1, <1>2, <1>3
  <2> QED BY <2>1, <2>2
<1>7. AcceptedTokensAreListed'
  <2> SUFFICES ASSUME running, enabled, NEW k \in given
               PROVE  InProgress(k)' \/ k \in crossed' \/ ((k \in issued) <=> k \in InFile')
    BY <1>2 DEF AcceptedTokensAreListed, Authenticate
  <2>1. CASE k = h
    BY <2>1, <1>5 DEF InProgress
  <2>2. CASE k # h
    <3>1. InProgress(k) \/ k \in crossed \/ ((k \in issued) <=> k \in InFile)
      BY AcceptedIsIssued DEF TokensInv, AcceptedTokensAreListed
    <3>2. InProgress(k) => InProgress(k)'
      <4> SUFFICES ASSUME NEW q \in Requests, request[q].hash = k PROVE InProgress(k)'
        BY DEF InProgress
      <4>1. q # r
        BY <1>2, <1>3 DEF Waiting
      <4> QED BY <4>1, <1>5 DEF InProgress
    <3>3. k \in InFile' <=> k \in InFile
      BY <2>2, <1>1, <1>2, <1>3 DEF InFile
    <3> QED BY <3>1, <3>2, <3>3, <1>1
  <2> QED BY <2>1, <2>2
<1> QED BY <1>2, <1>3, <1>4, <1>6, <1>7 DEF TokensInv

\* The inductive invariant of the tokens: types, what requests between their
\* steps know of the file, and the agreement of memory and file.
THEOREM TokensInvariant == TokensSpec => []TokensInv
<1>1. TokensInit => TokensInv
  BY TokensInitHolds
<1>2. TokensInv /\ [TokensNext]_tokensVars => TokensInv'
  <2> SUFFICES ASSUME TokensInv, [TokensNext]_tokensVars PROVE TokensInv'
    OBVIOUS
  <2>1. CASE Boot
    BY <2>1, BootPreserves
  <2>2. CASE Crash
    BY <2>2, DiePreserves DEF Crash
  <2>3. CASE CrashInWrite
    BY <2>3, DiePreserves DEF CrashInWrite
  <2>4. ASSUME NEW r \in Requests, AddToken(r) PROVE TokensInv'
    BY <2>4, AddTokenPreserves
  <2>5. ASSUME NEW r \in Requests, AddIssued(r) PROVE TokensInv'
    BY <2>5, AddIssuedPreserves
  <2>6. ASSUME NEW r \in Requests, DeleteToken(r) PROVE TokensInv'
    BY <2>6, DeleteTokenPreserves
  <2>7. ASSUME NEW r \in Requests, RemoveIssued(r) PROVE TokensInv'
    BY <2>7, RemoveIssuedPreserves
  <2>8. CASE UNCHANGED tokensVars
    BY <2>8 DEF tokensVars, TokensInv, Request, Waiting, RequestsMatchFile,
                AcceptedTokensAreListed, Authenticate, InProgress, InFile
  <2> QED BY <2>1, <2>2, <2>3, <2>4, <2>5, <2>6, <2>7, <2>8 DEF TokensNext
<1> QED BY <1>1, <1>2, PTL DEF TokensSpec

\* With authentication on, the tokens that are accepted are those of the file
\* (TokenService.Create and Delete around TokenAuth), for any number of tokens,
\* of requests and of stops, in the middle of a write or elsewhere.
THEOREM RevokedAndIssued == TokensSpec => []AcceptedTokensAreListed
<1>1. TokensInv => AcceptedTokensAreListed
  BY DEF TokensInv
<1> QED BY <1>1, TokensInvariant, PTL

-----------------------------------------------------------------------------
(* The test runs.                                                          *)

LEMMA BoundsAreNat == OldestRun \in Nat /\ OldestRun > Backfill /\ Period \in Nat /\ Period > 1
BY RunsAssumption DEF OldestRun

\* Ages grow within their bound, and a run older than another time stays so.
LEMMA AgedIsAge ==
    ASSUME NEW age \in RunAge \cup {None}
    PROVE  /\ Aged(age) \in RunAge \cup {None}
           /\ Aged(age) = None <=> age = None
BY BoundsAreNat, RunsAssumption DEF Aged, RunAge

LEMMA AgedKeepsOrder ==
    ASSUME NEW age \in RunAge, NEW limit \in RunAge, Aged(age) > Aged(limit)
    PROVE  age > limit
BY BoundsAreNat DEF Aged, RunAge

\* nextRunsTick is ahead of the clock, and by no more than a period.
LEMMA TickIsAhead ==
    ASSUME NEW h \in 0..(Period - 1)
    PROVE  NextRunsTick(h) - h \in 1..Period
<1>1. h \div Period = 0
  BY BoundsAreNat
<1>2. (h \div Period) * Period + 1 = 1
  BY <1>1, BoundsAreNat
<1> QED BY <1>2, BoundsAreNat DEF NextRunsTick

LEMMA RunsInitHolds == RunsInit => RunsInv
<1> SUFFICES ASSUME RunsInit PROVE RunsInv
  OBVIOUS
<1>1. RunsTypeOK
  BY BoundsAreNat, RunsAssumption DEF RunsInit, RunsTypeOK, Filed, Collecting
<1>2. CursorPassesStoredRuns /\ RunsStoredOnce /\ FetchCovers
  BY DEF RunsInit, CursorPassesStoredRuns, RunsStoredOnce, FetchCovers
<1> QED BY <1>1, <1>2 DEF RunsInv

\* A time that is compared with is not None while it is needed.
LEMMA CursorIsAge ==
    ASSUME RunsTypeOK
    PROVE  /\ loop # "off" => lastRuns \in RunAge
           /\ Collecting => now \in RunAge
           /\ \A r \in Filed : r \in Runs /\ filed[r] \in RunAge
BY DEF RunsTypeOK, Filed

LEMMA FileRunPreserves == RunsInv /\ FileRun => RunsInv'
<1> SUFFICES ASSUME RunsInv, FileRun PROVE RunsInv'
  OBVIOUS
<1>1. PICK r \in Runs \ Filed : filed' = [filed EXCEPT ![r] = 0]
  BY DEF FileRun
<1>2. UNCHANGED <<rows, runsLocal, hour, runsHistory>>
  BY DEF FileRun
<1>3. 0 \in RunAge /\ 0 # None
  BY BoundsAreNat, RunsAssumption DEF RunAge
<1>4. /\ Filed' = Filed \cup {r} /\ filed'[r] = 0
      /\ \A q \in Filed : filed'[q] = filed[q]
  BY <1>1, <1>3 DEF Filed, RunsInv, RunsTypeOK
<1>5. RunsTypeOK'
  BY <1>1, <1>2, <1>3, <1>4 DEF RunsInv, RunsTypeOK, runsLocal, runsHistory, Collecting, RunAge
<1>6. loop # "off" => ~(0 > lastRuns)
  BY CursorIsAge, BoundsAreNat DEF RunsInv, RunAge
<1>7. Collecting => ~(0 > now)
  BY CursorIsAge, BoundsAreNat DEF RunsInv, RunAge
<1>8. CursorPassesStoredRuns' /\ FetchCovers'
  BY <1>2, <1>4, <1>6, <1>7 DEF RunsInv, CursorPassesStoredRuns, FetchCovers, runsLocal, runsHistory, Collecting
<1> QED BY <1>2, <1>5, <1>8 DEF RunsInv, RunsStoredOnce

LEMMA RunsTimePreserves == RunsInv /\ RunsTime => RunsInv'
<1> SUFFICES ASSUME RunsInv, RunsTime PROVE RunsInv'
  OBVIOUS
<1>1. /\ filed' = [r \in Runs |-> Aged(filed[r])]
      /\ lastRuns' = Aged(lastRuns) /\ now' = Aged(now)
      /\ UNCHANGED <<rows, loop, fetched, dropped, late, runFaults>>
  BY DEF RunsTime, runsHistory
<1>2. \A r \in Runs : filed'[r] \in RunAge \cup {None} /\ (filed'[r] = None <=> filed[r] = None)
  BY <1>1, AgedIsAge DEF RunsInv, RunsTypeOK
<1>3. Filed' = Filed
  BY <1>2 DEF Filed
<1>4. hour' \in 0..(Period - 1)
  BY BoundsAreNat DEF RunsTime, RunsInv, RunsTypeOK
<1>5. due' \in 0..Period
  BY BoundsAreNat DEF RunsTime, RunsInv, RunsTypeOK
<1>6. /\ lastRuns' \in RunAge \cup {None} /\ now' \in RunAge \cup {None}
      /\ lastRuns' = None <=> lastRuns = None
      /\ now' = None <=> now = None
  BY <1>1, AgedIsAge DEF RunsInv, RunsTypeOK
<1>7. RunsTypeOK'
  <2>1. filed' \in [Runs -> RunAge \cup {None}]
    BY <1>1, <1>2
  <2> QED BY <2>1, <1>1, <1>3, <1>4, <1>5, <1>6 DEF RunsInv, RunsTypeOK, Collecting, RunAge
<1>8. CursorPassesStoredRuns'
  <2> SUFFICES ASSUME loop # "off", NEW r \in Filed, filed'[r] > lastRuns'
               PROVE  rows[r] # 0 \/ r \in dropped \cup late
    BY <1>1, <1>3 DEF CursorPassesStoredRuns
  <2>1. filed[r] > lastRuns
    BY <1>1, CursorIsAge, AgedKeepsOrder DEF RunsInv
  <2> QED BY <2>1 DEF RunsInv, CursorPassesStoredRuns
<1>9. FetchCovers'
  <2> SUFFICES ASSUME loop = "insert", NEW r \in Filed, filed'[r] > now'
               PROVE  r \in fetched \/ rows[r] # 0 \/ r \in dropped \cup late
    BY <1>1, <1>3 DEF FetchCovers
  <2>1. filed[r] > now
    BY <1>1, CursorIsAge, AgedKeepsOrder DEF RunsInv, Collecting
  <2> QED BY <2>1 DEF RunsInv, FetchCovers
<1> QED BY <1>1, <1>7, <1>8, <1>9 DEF RunsInv, RunsStoredOnce

\* A start counts what is older than the backfill as late.
LEMMA StartRunsPreserves == RunsInv /\ StartRuns => RunsInv'
<1> SUFFICES ASSUME RunsInv, StartRuns PROVE RunsInv'
  OBVIOUS
<1>1. /\ loop' = "list" /\ lastRuns' = Backfill /\ now' = 0
      /\ dropped' = {} /\ late' = late \cup {r \in Filed : filed[r] > Backfill}
      /\ UNCHANGED <<filed, rows, hour, due, fetched, runFaults>>
  BY DEF StartRuns
<1>2. Filed' = Filed /\ {Backfill, 0} \subseteq RunAge \ {None}
  BY <1>1, BoundsAreNat, RunsAssumption DEF Filed, RunAge
<1>3. RunsTypeOK'
  BY <1>1, <1>2 DEF RunsInv, RunsTypeOK, Collecting, RunAge
<1>4. CursorPassesStoredRuns' /\ FetchCovers'
  BY <1>1, <1>2 DEF CursorPassesStoredRuns, FetchCovers
<1> QED BY <1>1, <1>3, <1>4 DEF RunsInv, RunsStoredOnce

LEMMA StopRunsPreserves == RunsInv /\ StopRuns => RunsInv'
<1> SUFFICES ASSUME RunsInv, StopRuns PROVE RunsInv'
  OBVIOUS
<1>1. Filed' = Filed
  BY DEF StopRuns, Filed
<1>2. RunsTypeOK'
  BY <1>1, BoundsAreNat DEF StopRuns, runsHistory, RunsInv, RunsTypeOK, Collecting, RunAge
<1> QED BY <1>2 DEF StopRuns, runsHistory, RunsInv, RunsStoredOnce, CursorPassesStoredRuns, FetchCovers

LEMMA TimerFiresPreserves == RunsInv /\ TimerFires => RunsInv'
<1> SUFFICES ASSUME RunsInv, TimerFires PROVE RunsInv'
  OBVIOUS
<1>1. /\ loop = "timer" /\ loop' = "list" /\ now' = 0
      /\ UNCHANGED <<filed, rows, lastRuns, hour, due, fetched, dropped, late, runFaults>>
  BY DEF TimerFires, runsHistory
<1>2. Filed' = Filed /\ 0 \in RunAge \ {None}
  BY <1>1, BoundsAreNat, RunsAssumption DEF Filed, RunAge
<1>3. RunsTypeOK'
  BY <1>1, <1>2 DEF RunsInv, RunsTypeOK, Collecting, RunAge
<1> QED BY <1>1, <1>2, <1>3 DEF RunsInv, RunsStoredOnce, CursorPassesStoredRuns, FetchCovers

\* The answer holds every run between the cursor and the collection.
LEMMA DaemonAnswersPreserves == RunsInv /\ DaemonAnswers => RunsInv'
<1> SUFFICES ASSUME RunsInv, DaemonAnswers PROVE RunsInv'
  OBVIOUS
<1>1. /\ loop = "list" /\ loop' = "insert"
      /\ fetched' = {r \in Filed : filed[r] <= lastRuns /\ filed[r] > now}
      /\ UNCHANGED <<filed, rows, lastRuns, now, hour, due, dropped, late, runFaults>>
  BY DEF DaemonAnswers, ListRuns, runsHistory
<1>2. Filed' = Filed
  BY <1>1 DEF Filed
<1>3. RunsTypeOK'
  BY <1>1, <1>2 DEF RunsInv, RunsTypeOK, Collecting, RunAge
<1>4. FetchCovers'
  <2> SUFFICES ASSUME NEW r \in Filed, filed[r] > now
               PROVE  r \in fetched' \/ rows[r] # 0 \/ r \in dropped \cup late
    BY <1>1, <1>2 DEF FetchCovers
  <2>1. filed[r] \in Int /\ lastRuns \in Int
    BY <1>1, CursorIsAge DEF RunsInv, RunAge
  <2>2. CASE filed[r] <= lastRuns
    BY <1>1, <2>2
  <2>3. CASE filed[r] > lastRuns
    BY <1>1, <2>3 DEF RunsInv, CursorPassesStoredRuns
  <2> QED BY <2>1, <2>2, <2>3
<1> QED BY <1>1, <1>2, <1>3, <1>4 DEF RunsInv, RunsStoredOnce, CursorPassesStoredRuns

LEMMA SleepTypes ==
    ASSUME RunsTypeOK, Sleep
    PROVE  due' \in 0..Period /\ loop' = "timer" /\ now' = None /\ fetched' = {}
BY TickIsAhead, BoundsAreNat DEF RunsTypeOK, Sleep

LEMMA DaemonDownPreserves == RunsInv /\ DaemonDown => RunsInv'
<1> SUFFICES ASSUME RunsInv, DaemonDown PROVE RunsInv'
  OBVIOUS
<1>1. /\ loop = "list" /\ loop' = "timer" /\ now' = None /\ fetched' = {} /\ due' \in 0..Period
      /\ UNCHANGED <<filed, rows, lastRuns, hour, dropped, late, runFaults>>
  BY SleepTypes DEF DaemonDown, runsHistory, RunsInv
<1>2. Filed' = Filed
  BY <1>1 DEF Filed
<1>3. RunsTypeOK'
  BY <1>1, <1>2 DEF RunsInv, RunsTypeOK, Collecting, RunAge
<1> QED BY <1>1, <1>2, <1>3 DEF RunsInv, RunsStoredOnce, CursorPassesStoredRuns, FetchCovers

\* InsertTestRun finds the run or adds its only row.
LEMMA InsertRunPreserves == RunsInv /\ InsertRun => RunsInv'
<1> SUFFICES ASSUME RunsInv, InsertRun PROVE RunsInv'
  OBVIOUS
<1>1. PICK r \in fetched :
        /\ fetched' = fetched \ {r}
        /\ \/ rows' = InsertTestRun(r) /\ UNCHANGED <<dropped, runFaults>>
           \/ /\ runFaults < MaxFaults /\ runFaults' = runFaults + 1
              /\ dropped' = dropped \cup {r} /\ UNCHANGED rows
  BY DEF InsertRun
<1>2. loop = "insert" /\ UNCHANGED <<filed, lastRuns, loop, now, hour, due, late>>
  BY DEF InsertRun
<1>3. Filed' = Filed /\ r \in Filed /\ r \in Runs
  BY <1>2 DEF Filed, RunsInv, RunsTypeOK
<1>4. /\ rows' \in [Runs -> 0..2]
      /\ \A q \in Runs : rows'[q] <= 1 /\ (rows[q] # 0 => rows'[q] # 0)
      /\ rows'[r] # 0 \/ r \in dropped'
      /\ dropped \subseteq dropped' /\ dropped' \subseteq dropped \cup {r}
      /\ runFaults' \in 0..MaxFaults
  BY <1>1, <1>3, RunsAssumption DEF InsertTestRun, RunsInv, RunsTypeOK, RunsStoredOnce
<1>5. RunsTypeOK'
  BY <1>1, <1>2, <1>3, <1>4 DEF RunsInv, RunsTypeOK, Collecting, RunAge
<1>6. CursorPassesStoredRuns'
  BY <1>2, <1>3, <1>4, CursorIsAge DEF RunsInv, CursorPassesStoredRuns
<1>7. FetchCovers'
  BY <1>1, <1>2, <1>3, <1>4, CursorIsAge DEF RunsInv, FetchCovers
<1> QED BY <1>4, <1>5, <1>6, <1>7 DEF RunsInv, RunsStoredOnce

\* The cursor moves to the beginning of the collection once all is stored.
LEMMA RunsStoredPreserves == RunsInv /\ RunsStored => RunsInv'
<1> SUFFICES ASSUME RunsInv, RunsStored PROVE RunsInv'
  OBVIOUS
<1>1. /\ loop = "insert" /\ fetched = {} /\ loop' = "timer" /\ now' = None /\ fetched' = {}
      /\ due' \in 0..Period /\ lastRuns' = now
      /\ UNCHANGED <<filed, rows, hour, dropped, late, runFaults>>
  BY SleepTypes DEF RunsStored, NewCursor, runsHistory, RunsInv
<1>2. Filed' = Filed
  BY <1>1 DEF Filed
<1>3. RunsTypeOK'
  BY <1>1, <1>2 DEF RunsInv, RunsTypeOK, Collecting, RunAge
<1>4. CursorPassesStoredRuns'
  BY <1>1, <1>2 DEF RunsInv, CursorPassesStoredRuns, FetchCovers
<1> QED BY <1>1, <1>3, <1>4 DEF RunsInv, RunsStoredOnce, FetchCovers

\* The inductive invariant of the runs: types, what is stored, and what the
\* answer that is being stored holds.
THEOREM RunsInvariant == RunsSpec => []RunsInv
<1>1. RunsInit => RunsInv
  BY RunsInitHolds
<1>2. RunsInv /\ [RunsNext]_runsVars => RunsInv'
  <2> SUFFICES ASSUME RunsInv, [RunsNext]_runsVars PROVE RunsInv'
    OBVIOUS
  <2>1. CASE UNCHANGED runsVars
    BY <2>1 DEF runsVars, runsLocal, runsHistory, RunsInv, RunsTypeOK, Collecting, Filed, RunAge,
                CursorPassesStoredRuns, RunsStoredOnce, FetchCovers
  <2> QED BY <2>1, FileRunPreserves, RunsTimePreserves, StartRunsPreserves, StopRunsPreserves,
             TimerFiresPreserves, DaemonAnswersPreserves, DaemonDownPreserves,
             InsertRunPreserves, RunsStoredPreserves DEF RunsNext, CollectRuns
<1> QED BY <1>1, <1>2, PTL DEF RunsSpec

\* The state of the loop fits together; nextRunsTick (collector.go) sets the
\* timer ahead of the clock, by a period at most.
THEOREM RunsTypes == RunsSpec => []RunsTypeOK
<1>1. RunsInv => RunsTypeOK
  BY DEF RunsInv
<1> QED BY <1>1, RunsInvariant, PTL

\* collectRuns never moves its cursor past a run that is not stored, but for
\* one whose insert failed or that was too old at a start.
THEOREM NoRunIsPassed == RunsSpec => []CursorPassesStoredRuns
<1>1. RunsInv => CursorPassesStoredRuns
  BY DEF RunsInv
<1> QED BY <1>1, RunsInvariant, PTL

\* Fetching again what is there, after a restart or an overlap, adds no row.
THEOREM NoRunIsDoubled == RunsSpec => []RunsStoredOnce
<1>1. RunsInv => RunsStoredOnce
  BY DEF RunsInv
<1> QED BY <1>1, RunsInvariant, PTL

-----------------------------------------------------------------------------
(* The traffic tables.                                                     *)

\* A client's row is never negative: a counter below its baseline gives none.
LEMMA ClientDeltaIsNat ==
    ASSUME TrafficInv, cycle # Absent, cycle.next \in Inbounds
    PROVE  ClientDelta(cycle.next) \in Nat
<1>1. cycle.used[cycle.next] \in Nat \cup {Absent}
  BY DEF TrafficInv, CycleType
<1>2. baselines # Absent => baselines[cycle.next] \in Nat \cup {Absent}
  BY DEF TrafficInv, TrafficTypeOK
<1> QED BY <1>1, <1>2, TrafficAssumption DEF ClientDelta, Delta

LEMMA PanelCountsPreserves == TrafficInv /\ PanelCounts => TrafficInv'
<1> SUFFICES ASSUME TrafficInv, PanelCounts PROVE TrafficInv'
  OBVIOUS
<1>1. UNCHANGED <<tables, slot, ticked, baselines, cycle, up, torn>>
  BY DEF PanelCounts
<1>2. total' \in [Inbounds -> Nat]
  BY DEF PanelCounts, TrafficInv, TrafficTypeOK
<1>3. used' \in [Inbounds -> Nat \cup {Absent}]
  <2>1. PICK i \in Inbounds :
          \/ used[i] # Absent /\ used' = [used EXCEPT ![i] = @ + 1]
          \/ used' = used
          \/ \E c \in {0, Absent} : used' = [used EXCEPT ![i] = c]
    BY DEF PanelCounts
  <2>2. used \in [Inbounds -> Nat \cup {Absent}] /\ (used[i] # Absent => used[i] + 1 \in Nat)
    BY DEF TrafficInv, TrafficTypeOK
  <2> QED BY <2>1, <2>2
<1> QED BY <1>1, <1>2, <1>3 DEF TrafficInv, TrafficTypeOK, CycleType, tables

LEMMA BeginWritePreserves == TrafficInv /\ BeginWrite => TrafficInv'
<1> SUFFICES ASSUME TrafficInv, BeginWrite PROVE TrafficInv'
  OBVIOUS
<1>1. UNCHANGED <<total, used, inboundRows, clientRows, slot, baselines, up, torn>> /\ ticked' = Absent /\ ticked \in Slots
  BY DEF BeginWrite, panelCounters, tables, TrafficInv, TrafficTypeOK
<1>2. cycle' \in CycleType /\ ~ cycle'.client
  BY TrafficAssumption DEF BeginWrite, CycleType, TrafficInv, TrafficTypeOK, Inbounds
<1> QED BY <1>1, <1>2 DEF TrafficInv, TrafficTypeOK

LEMMA InsertInboundPreserves == TrafficInv /\ InsertInboundTraffic => TrafficInv'
<1> SUFFICES ASSUME TrafficInv, InsertInboundTraffic PROVE TrafficInv'
  OBVIOUS
<1>1. cycle \in CycleType /\ cycle.next \in Inbounds /\ cycle' = [cycle EXCEPT !.client = TRUE]
  BY DEF InsertInboundTraffic, TrafficInv
<1>2. inboundRows' \in [Inbounds -> [Slots -> Nat \cup {Absent}]]
  BY <1>1 DEF InsertInboundTraffic, CycleType, TrafficInv, TrafficTypeOK
<1>3. cycle' \in CycleType
  BY <1>1 DEF CycleType
<1> QED BY <1>2, <1>3 DEF InsertInboundTraffic, TrafficInv, TrafficTypeOK, panelCounters

LEMMA InsertClientPreserves == TrafficInv /\ InsertClientTraffic => TrafficInv'
<1> SUFFICES ASSUME TrafficInv, InsertClientTraffic PROVE TrafficInv'
  OBVIOUS
<1> DEFINE i == cycle.next
           d == ClientDelta(i)
<1>1. cycle \in CycleType /\ i \in Inbounds /\ d \in Nat
  BY ClientDeltaIsNat DEF InsertClientTraffic, TrafficInv, CycleType
<1>2. clientRows' = IF d = 0 THEN clientRows ELSE [clientRows EXCEPT ![i][cycle.ts] = d]
  BY DEF InsertClientTraffic
<1>3. cycle' = [cycle EXCEPT !.next = i + 1, !.client = FALSE,
                             !.stored = IF d = 0 THEN @ ELSE @ \cup {i}]
  BY DEF InsertClientTraffic
<1>4. clientRows' \in [Inbounds -> [Slots -> Nat \cup {Absent}]]
  BY <1>1, <1>2 DEF CycleType, TrafficInv, TrafficTypeOK
<1>5. cycle' \in CycleType
  <2>1. PICK kept \in SUBSET Inbounds :
          cycle' = [cycle EXCEPT !.next = i + 1, !.client = FALSE, !.stored = kept]
    <3>1. cycle.stored \cup {i} \in SUBSET Inbounds /\ cycle.stored \in SUBSET Inbounds
      BY <1>1 DEF CycleType
    <3> QED BY <1>3, <3>1
  <2>2. i + 1 \in Nat
    BY <1>1, TrafficAssumption DEF Inbounds
  <2>3. cycle' = [ts |-> cycle.ts, total |-> cycle.total, used |-> cycle.used,
                  next |-> i + 1, client |-> FALSE, stored |-> kept]
    BY <1>1, <2>1 DEF CycleType
  <2> QED BY <1>1, <2>2, <2>3 DEF CycleType
<1> QED BY <1>4, <1>5 DEF InsertClientTraffic, TrafficInv, TrafficTypeOK, panelCounters

\* The inductive invariant of the traffic: types, and that of the cycle in
\* memory, whose client's turn comes for an inbound of the list alone.
THEOREM TrafficInvariant == TrafficSpec => []TrafficInv
<1>1. TrafficInit => TrafficInv
  <2> SUFFICES ASSUME TrafficInit PROVE TrafficInv
    OBVIOUS
  <2>1. total \in [Inbounds -> Nat] /\ used \in [Inbounds -> Nat \cup {Absent}]
    BY DEF TrafficInit
  <2>2. /\ inboundRows \in [Inbounds -> [Slots -> Nat \cup {Absent}]]
        /\ clientRows \in [Inbounds -> [Slots -> Nat \cup {Absent}]]
    <3>1. [t \in Slots |-> Absent] \in [Slots -> Nat \cup {Absent}]
      OBVIOUS
    <3> QED BY <3>1 DEF TrafficInit
  <2>3. 0 \in Slots
    BY TrafficAssumption DEF Slots
  <2> QED BY <2>1, <2>2, <2>3 DEF TrafficInit, TrafficInv, TrafficTypeOK
<1>2. TrafficInv /\ [TrafficNext]_trafficVars => TrafficInv'
  <2> SUFFICES ASSUME TrafficInv, [TrafficNext]_trafficVars PROVE TrafficInv'
    OBVIOUS
  <2>1. CASE NextSlot
    BY <2>1, TrafficAssumption DEF NextSlot, TrafficInv, TrafficTypeOK, CycleType, Slots, panelCounters, tables
  <2>2. CASE StartTraffic \/ NoList \/ UNCHANGED trafficVars
    BY <2>2 DEF StartTraffic, NoList, trafficVars, TrafficInv, TrafficTypeOK, CycleType, panelCounters, tables
  <2>3. torn' \in SUBSET Inbounds /\ cycle' = Absent
        /\ UNCHANGED <<total, used, inboundRows, clientRows, slot>>
        /\ ticked' \in Slots \cup {Absent} /\ up' \in BOOLEAN /\ baselines' \in {baselines, Absent}
        => TrafficInv'
    BY DEF TrafficInv, TrafficTypeOK
  <2>4. Cut => torn' \in SUBSET Inbounds
    BY DEF Cut, TrafficInv, TrafficTypeOK, CycleType
  <2>5. CASE StopTraffic
    BY <2>3, <2>4, <2>5 DEF StopTraffic, panelCounters, tables
  <2>6. CASE InsertTrafficFails
    BY <2>3, <2>4, <2>6 DEF InsertTrafficFails, panelCounters, tables, TrafficInv, TrafficTypeOK
  <2>7. CASE TrafficWritten
    BY <2>7 DEF TrafficWritten, NewBaselines, TrafficInv, TrafficTypeOK, CycleType, panelCounters, tables
  <2> QED BY <2>1, <2>2, <2>5, <2>6, <2>7, PanelCountsPreserves, BeginWritePreserves,
             InsertInboundPreserves, InsertClientPreserves DEF TrafficNext
<1> QED BY <1>1, <1>2, PTL DEF TrafficSpec

\* Counters and rows are natural numbers whatever starts again or is cut off,
\* and only inbounds of the panel's list are stored.
THEOREM TrafficTypes == TrafficSpec => []TrafficTypeOK
<1>1. TrafficInv => TrafficTypeOK
  BY DEF TrafficInv
<1> QED BY <1>1, TrafficInvariant, PTL

-----------------------------------------------------------------------------
(* Sums over finite sets.  MapThenSumSet takes the elements in an order that *)
(* CHOOSE decides; the sum does not depend on it.                            *)

\* What holds of a part of S if it holds of every smaller one holds of all.
LEMMA PartsOf ==
    ASSUME NEW S, IsFiniteSet(S), NEW G,
           ASSUME NEW T \in SUBSET S, \A R \in SUBSET S : Cardinality(R) < Cardinality(T) => R \in G
           PROVE  T \in G
    PROVE  \A T \in SUBSET S : T \in G
<1> DEFINE bad == {k \in Nat : \E T \in SUBSET S : T \notin G /\ Cardinality(T) = k}
<1>1. \A T \in SUBSET S : Cardinality(T) \in Nat
  BY FS_Subset, FS_CardinalityType
<1>2. bad = {}
  <2> SUFFICES ASSUME bad # {} PROVE FALSE
    OBVIOUS
  <2>1. PICK k \in bad : \A j \in bad : k <= j
    BY LeastExists
  <2>2. PICK T \in SUBSET S : T \notin G /\ Cardinality(T) = k
    BY <2>1
  <2>3. ASSUME NEW R \in SUBSET S, Cardinality(R) < Cardinality(T)
        PROVE  R \in G
    <3>1. Cardinality(R) \notin bad
      BY <1>1, <2>1, <2>2, <2>3
    <3> QED BY <1>1, <3>1
  <2> QED BY <2>2, <2>3
<1> QED BY <1>1, <1>2

LEMMA SmallerPart ==
    ASSUME NEW S, IsFiniteSet(S), NEW x \in S
    PROVE  IsFiniteSet(S \ {x}) /\ Cardinality(S \ {x}) < Cardinality(S) /\ S \ {x} \in SUBSET S
<1>1. IsFiniteSet(S \ {x}) /\ Cardinality(S \ {x}) = Cardinality(S) - 1
  BY FS_RemoveElement
<1>2. Cardinality(S) \in Nat
  BY FS_CardinalityType
<1> QED BY <1>1, <1>2

\* The sum of the values that the function v has on S.
SumOn(v, S) == MapThenSumSet(LAMBDA t : v[t], S)

First(s) == CHOOSE x \in s : TRUE

\* g gives every part of S its sum.
Adds(g, v, S) ==
    g = [s \in SUBSET S |-> IF s = {} THEN 0 ELSE v[First(s)] + g[s \ {First(s)}]]

LEMMA SumOnIs ==
    ASSUME NEW v, NEW S
    PROVE  SumOn(v, S) = (CHOOSE g : Adds(g, v, S))[S]
BY DEF SumOn, MapThenSumSet, MapThenFoldSet, Adds, First

LEMMA FirstIs ==
    ASSUME NEW S, S # {}
    PROVE  First(S) \in S
BY DEF First

\* The same for the parts with no more than k elements.
AddsUpTo(g, v, S, k) ==
    g = [s \in {s \in SUBSET S : Cardinality(s) <= k} |->
           IF s = {} THEN 0 ELSE v[First(s)] + g[s \ {First(s)}]]

LEMMA AddsUpToExists ==
    ASSUME NEW v, NEW S, IsFiniteSet(S)
    PROVE  \A k \in Nat : \E g : AddsUpTo(g, v, S, k)
<1> DEFINE bad == {k \in Nat : ~ \E g : AddsUpTo(g, v, S, k)}
<1>0. \A s \in SUBSET S : IsFiniteSet(s) /\ Cardinality(s) \in Nat
  BY FS_Subset, FS_CardinalityType
<1>1. bad = {}
  <2> SUFFICES ASSUME bad # {} PROVE FALSE
    OBVIOUS
  <2>1. PICK k \in bad : \A j \in bad : k <= j
    BY LeastExists
  <2>2. k # 0
    <3>1. \A s \in SUBSET S : Cardinality(s) <= 0 <=> s = {}
      BY <1>0, FS_EmptySet
    <3> DEFINE g == [s \in {s \in SUBSET S : Cardinality(s) <= 0} |-> 0]
    <3>2. g = [s \in {s \in SUBSET S : Cardinality(s) <= 0} |->
                 IF s = {} THEN 0 ELSE v[First(s)] + g[s \ {First(s)}]]
      BY <3>1
    <3>3. AddsUpTo(g, v, S, 0)
      BY <3>2 DEF AddsUpTo
    <3> QED BY <2>1, <3>3
  <2>3. k - 1 \in Nat /\ k - 1 \notin bad
    BY <2>1, <2>2
  <2>4. PICK f : AddsUpTo(f, v, S, k - 1)
    BY <2>3
  <2> DEFINE small == {s \in SUBSET S : Cardinality(s) <= k - 1}
             parts == {s \in SUBSET S : Cardinality(s) <= k}
             sum(h, s) == IF s = {} THEN 0 ELSE v[First(s)] + h[s \ {First(s)}]
             g == [s \in parts |-> sum(f, s)]
  <2>5. ASSUME NEW s \in parts, s # {}
        PROVE  s \ {First(s)} \in small /\ s \ {First(s)} \in parts
    <3>1. First(s) \in s /\ IsFiniteSet(s) /\ s \in SUBSET S
      BY <1>0, <2>5, FirstIs
    <3>2. s \ {First(s)} \in SUBSET S /\ Cardinality(s \ {First(s)}) < Cardinality(s)
      BY <3>1, SmallerPart
    <3> QED BY <1>0, <2>3, <2>5, <3>2
  <2>6. f = [s \in small |-> sum(f, s)]
    BY <2>4 DEF AddsUpTo
  <2>7. \A s \in small : f[s] = sum(f, s) /\ s \in parts
    <3>1. \A s \in small : f[s] = sum(f, s)
      BY <2>6
    <3>2. \A s \in small : s \in parts
      BY <1>0, <2>3
    <3> QED BY <3>1, <3>2
  <2> HIDE DEF small
  <2>8. \A s \in small : g[s] = f[s]
    BY <2>7
  <2>9. ASSUME NEW s \in parts PROVE g[s] = sum(g, s)
    <3>1. CASE s = {}
      BY <3>1
    <3>2. CASE s # {}
      <4>1. g[s \ {First(s)}] = f[s \ {First(s)}]
        BY <2>5, <2>8, <3>2
      <4> QED BY <3>2, <4>1
    <3> QED BY <3>1, <3>2
  <2>10. g = [s \in parts |-> g[s]]
    OBVIOUS
  <2> HIDE DEF g
  <2>11. g = [s \in parts |-> sum(g, s)]
    BY <2>9, <2>10
  <2>12. AddsUpTo(g, v, S, k)
    BY <2>11 DEF AddsUpTo
  <2> QED BY <2>1, <2>12
<1> QED BY <1>1

LEMMA AddsExists ==
    ASSUME NEW v, NEW S, IsFiniteSet(S)
    PROVE  Adds(CHOOSE g : Adds(g, v, S), v, S)
<1>1. Cardinality(S) \in Nat
  BY FS_CardinalityType
<1>2. PICK g : AddsUpTo(g, v, S, Cardinality(S))
  BY <1>1, AddsUpToExists
<1>3. {s \in SUBSET S : Cardinality(s) <= Cardinality(S)} = SUBSET S
  BY FS_Subset
<1>4. Adds(g, v, S)
  BY <1>2, <1>3 DEF AddsUpTo, Adds
<1> QED BY <1>4

LEMMA AddsAgree ==
    ASSUME NEW S, IsFiniteSet(S), NEW T \in SUBSET S, NEW v, NEW g, Adds(g, v, S), NEW h, Adds(h, v, T)
    PROVE  \A s \in SUBSET T : g[s] = h[s]
<1> DEFINE G == {s \in SUBSET T : g[s] = h[s]}
<1>1. IsFiniteSet(T)
  BY FS_Subset
<1>2. ASSUME NEW s \in SUBSET T, \A r \in SUBSET T : Cardinality(r) < Cardinality(s) => r \in G
      PROVE  s \in G
  <2>1. s \in SUBSET S /\ IsFiniteSet(s)
    BY <1>1, FS_Subset
  <2>2. g[s] = (IF s = {} THEN 0 ELSE v[First(s)] + g[s \ {First(s)}])
    BY <2>1 DEF Adds
  <2>3. h[s] = (IF s = {} THEN 0 ELSE v[First(s)] + h[s \ {First(s)}])
    BY DEF Adds
  <2>4. s # {} => s \ {First(s)} \in G
    <3> SUFFICES ASSUME s # {} PROVE s \ {First(s)} \in G
      OBVIOUS
    <3>1. First(s) \in s
      BY FirstIs
    <3>2. s \ {First(s)} \in SUBSET T /\ Cardinality(s \ {First(s)}) < Cardinality(s)
      BY <2>1, <3>1, SmallerPart
    <3> QED BY <1>2, <3>2
  <2> QED BY <2>2, <2>3, <2>4
<1>3. \A s \in SUBSET T : s \in G
  <2> HIDE DEF G
  <2> QED BY <1>1, <1>2, PartsOf
<1> QED BY <1>3

LEMMA SumUnfolds ==
    ASSUME NEW v, NEW S, IsFiniteSet(S)
    PROVE  /\ S = {} => SumOn(v, S) = 0
           /\ S # {} => First(S) \in S /\ SumOn(v, S) = v[First(S)] + SumOn(v, S \ {First(S)})
<1>1. PICK g : g = CHOOSE h : Adds(h, v, S)
  OBVIOUS
<1>2. Adds(g, v, S) /\ SumOn(v, S) = g[S]
  BY <1>1, AddsExists, SumOnIs
<1>3. g[S] = (IF S = {} THEN 0 ELSE v[First(S)] + g[S \ {First(S)}])
  BY <1>2 DEF Adds
<1>4. CASE S # {}
  <2>1. PICK T : T = S \ {First(S)}
    OBVIOUS
  <2>2. First(S) \in S /\ T \in SUBSET S /\ IsFiniteSet(T)
    BY <1>4, <2>1, FirstIs, FS_Subset
  <2>3. PICK h : h = CHOOSE f : Adds(f, v, T)
    OBVIOUS
  <2>4. Adds(h, v, T) /\ SumOn(v, T) = h[T]
    BY <2>2, <2>3, AddsExists, SumOnIs
  <2>5. g[T] = h[T]
    BY <1>2, <2>2, <2>4, AddsAgree
  <2> QED BY <1>2, <1>3, <1>4, <2>1, <2>2, <2>4, <2>5
<1> QED BY <1>2, <1>3, <1>4

NatsOn(v, S) == \A t \in S : v[t] \in Nat

LEMMA SumType ==
    ASSUME NEW v, NEW S, IsFiniteSet(S), NatsOn(v, S)
    PROVE  \A T \in SUBSET S : IsFiniteSet(T) /\ SumOn(v, T) \in Nat
<1> DEFINE G == {T \in SUBSET S : SumOn(v, T) \in Nat}
<1>1. ASSUME NEW T \in SUBSET S, \A R \in SUBSET S : Cardinality(R) < Cardinality(T) => R \in G
      PROVE  T \in G
  <2>1. IsFiniteSet(T)
    BY FS_Subset
  <2>2. CASE T = {}
    <3>1. SumOn(v, T) = 0
      BY <2>1, <2>2, SumUnfolds
    <3> QED BY <3>1
  <2>3. CASE T # {}
    <3>1. First(T) \in T /\ SumOn(v, T) = v[First(T)] + SumOn(v, T \ {First(T)})
      BY <2>1, <2>3, SumUnfolds
    <3>2. T \ {First(T)} \in SUBSET S /\ Cardinality(T \ {First(T)}) < Cardinality(T)
      BY <2>1, <3>1, SmallerPart
    <3>3. T \ {First(T)} \in G
      BY <1>1, <3>2
    <3> QED BY <3>1, <3>3 DEF NatsOn
  <2> QED BY <2>2, <2>3
<1>2. \A T \in SUBSET S : T \in G
  <2> HIDE DEF G
  <2> QED BY <1>1, PartsOf
<1> QED BY <1>2, FS_Subset

\* Any element can be taken first.
LEMMA SumTakes ==
    ASSUME NEW v, NEW S, IsFiniteSet(S), NatsOn(v, S), NEW e \in S
    PROVE  SumOn(v, S) = v[e] + SumOn(v, S \ {e})
<1> DEFINE G == {T \in SUBSET S : \A x \in T : SumOn(v, T) = v[x] + SumOn(v, T \ {x})}
<1>1. ASSUME NEW T \in SUBSET S, \A R \in SUBSET S : Cardinality(R) < Cardinality(T) => R \in G
      PROVE  T \in G
  <2> SUFFICES ASSUME NEW x \in T PROVE SumOn(v, T) = v[x] + SumOn(v, T \ {x})
    OBVIOUS
  <2>1. IsFiniteSet(T)
    BY FS_Subset
  <2>2. PICK f : f = First(T)
    OBVIOUS
  <2>3. f \in T /\ SumOn(v, T) = v[f] + SumOn(v, T \ {f})
    BY <2>1, <2>2, SumUnfolds
  <2>4. CASE f # x
    <3>1. /\ T \ {f} \in SUBSET S /\ Cardinality(T \ {f}) < Cardinality(T)
          /\ T \ {x} \in SUBSET S /\ Cardinality(T \ {x}) < Cardinality(T)
      BY <2>1, <2>3, SmallerPart
    <3>2. T \ {f} \in G /\ T \ {x} \in G
      BY <1>1, <3>1
    <3>3. SumOn(v, T \ {f}) = v[x] + SumOn(v, (T \ {f}) \ {x})
      BY <2>4, <3>2
    <3>4. SumOn(v, T \ {x}) = v[f] + SumOn(v, (T \ {x}) \ {f})
      BY <2>3, <2>4, <3>2
    <3>5. (T \ {f}) \ {x} = (T \ {x}) \ {f}
      OBVIOUS
    <3>6. v[f] \in Nat /\ v[x] \in Nat
      BY <2>3 DEF NatsOn
    <3>7. (T \ {f}) \ {x} \in SUBSET S
      OBVIOUS
    <3>8. SumOn(v, (T \ {f}) \ {x}) \in Nat
      BY <3>7, SumType
    <3>9. PICK rest \in Nat : rest = SumOn(v, (T \ {f}) \ {x})
      BY <3>8
    <3>10. SumOn(v, T \ {f}) = v[x] + rest
      BY <3>3, <3>9
    <3>11. SumOn(v, T \ {x}) = v[f] + rest
      BY <3>4, <3>5, <3>9
    <3>12. SumOn(v, T) = v[f] + (v[x] + rest)
      BY <2>3, <3>10
    <3>13. v[f] + (v[x] + rest) = v[x] + (v[f] + rest)
      BY <3>6, <3>9
    <3> QED BY <3>11, <3>12, <3>13
  <2> QED BY <2>3, <2>4
<1>2. \A T \in SUBSET S : T \in G
  <2> HIDE DEF G
  <2> QED BY <1>1, PartsOf
<1>3. S \in SUBSET S
  OBVIOUS
<1> QED BY <1>2, <1>3

\* A sum over a part, of smaller values, is not greater.
LEMMA SumIsMonotonic ==
    ASSUME NEW v, NEW u, NEW S, IsFiniteSet(S), NatsOn(u, S), NEW R \in SUBSET S, NatsOn(v, R),
           \A t \in R : v[t] <= u[t]
    PROVE  SumOn(v, R) <= SumOn(u, S)
<1> DEFINE G == {T \in SUBSET S : SumOn(v, T \cap R) <= SumOn(u, T)}
<1>1. ASSUME NEW T \in SUBSET S, \A Q \in SUBSET S : Cardinality(Q) < Cardinality(T) => Q \in G
      PROVE  T \in G
  <2>1. IsFiniteSet(T) /\ IsFiniteSet(T \cap R) /\ T \cap R \in SUBSET R /\ IsFiniteSet(R)
    <3>1. T \cap R \in SUBSET S
      OBVIOUS
    <3> QED BY <3>1, FS_Subset
  <2>2. CASE T = {}
    <3>1. T \cap R = {}
      BY <2>2
    <3>2. SumOn(u, {}) = 0 /\ SumOn(v, {}) = 0
      BY <2>1, <2>2, <3>1, SumUnfolds
    <3> QED BY <2>2, <3>1, <3>2
  <2>3. CASE T # {}
    <3>1. PICK x : x \in T
      BY <2>3
    <3>2. NatsOn(u, T) /\ NatsOn(v, T \cap R)
      BY DEF NatsOn
    <3>3. SumOn(u, T) = u[x] + SumOn(u, T \ {x}) /\ u[x] \in Nat
      BY <2>1, <3>1, <3>2, SumTakes DEF NatsOn
    <3>4. T \ {x} \in SUBSET S /\ Cardinality(T \ {x}) < Cardinality(T)
      BY <2>1, <3>1, SmallerPart
    <3>5. SumOn(v, (T \ {x}) \cap R) <= SumOn(u, T \ {x})
      BY <1>1, <3>4
    <3>6. (T \ {x}) \cap R = (T \cap R) \ {x} /\ (T \ {x}) \cap R \in SUBSET R
      OBVIOUS
    <3>7. SumOn(u, T \ {x}) \in Nat
      BY <3>4, SumType
    <3>8. SumOn(v, (T \ {x}) \cap R) \in Nat
      BY <2>1, <3>6, SumType
    <3>9. CASE x \in R
      <4>1. SumOn(v, T \cap R) = v[x] + SumOn(v, (T \cap R) \ {x}) /\ v[x] \in Nat /\ v[x] <= u[x]
        BY <2>1, <3>1, <3>2, <3>9, SumTakes DEF NatsOn
      <4> QED BY <3>3, <3>5, <3>6, <3>7, <3>8, <4>1
    <3>10. CASE x \notin R
      <4>1. T \cap R = (T \ {x}) \cap R
        BY <3>10
      <4>2. SumOn(v, T \cap R) <= SumOn(u, T \ {x})
        BY <3>5, <4>1
      <4>3. SumOn(v, T \cap R) \in Nat
        BY <3>8, <4>1
      <4>4. SumOn(v, T \cap R) <= SumOn(u, T)
        BY <3>3, <3>7, <4>2, <4>3
      <4> QED BY <4>4
    <3> QED BY <3>9, <3>10
  <2> QED BY <2>2, <2>3
<1>2. \A T \in SUBSET S : T \in G
  <2> HIDE DEF G
  <2> QED BY <1>1, PartsOf
<1>3. S \in SUBSET S /\ S \cap R = R
  OBVIOUS
<1>4. SumOn(v, S \cap R) <= SumOn(u, S)
  BY <1>2, <1>3
<1> QED BY <1>3, <1>4

LEMMA SumAgrees ==
    ASSUME NEW v, NEW u, NEW S, IsFiniteSet(S), NatsOn(v, S), \A t \in S : v[t] = u[t]
    PROVE  SumOn(v, S) = SumOn(u, S) /\ NatsOn(u, S)
<1>1. NatsOn(u, S) /\ (\A t \in S : v[t] <= u[t]) /\ (\A t \in S : u[t] <= v[t]) /\ S \in SUBSET S
  BY DEF NatsOn
<1>2. SumOn(v, S) <= SumOn(u, S) /\ SumOn(u, S) <= SumOn(v, S)
  BY <1>1, SumIsMonotonic
<1>3. SumOn(v, S) \in Nat /\ SumOn(u, S) \in Nat
  BY <1>1, SumType
<1> QED BY <1>1, <1>2, <1>3

(* Sums of groups: of the values of T, those whose group is the same.        *)

Groups(b, T) == {b[t] : t \in T}
Group(b, T, k) == {t \in T : b[t] = k}
GroupSums(v, b, T) == [k \in Groups(b, T) |-> SumOn(v, Group(b, T, k))]

LEMMA GroupType ==
    ASSUME NEW v, NEW b, NEW S, IsFiniteSet(S), NatsOn(v, S), NEW T \in SUBSET S
    PROVE  /\ IsFiniteSet(T) /\ IsFiniteSet(Groups(b, T)) /\ NatsOn(GroupSums(v, b, T), Groups(b, T))
           /\ \A k : SumOn(v, Group(b, T, k)) \in Nat
<1>1. IsFiniteSet(T)
  BY FS_Subset
<1>2. IsFiniteSet(Groups(b, T))
  <2> DEFINE f == [t \in T |-> b[t]]
  <2>1. f \in Surjection(T, Groups(b, T))
    BY DEF Surjection, Groups
  <2> QED BY <1>1, <2>1, FS_Surjection
<1>3. \A k : Group(b, T, k) \in SUBSET S
  BY DEF Group
<1>4. \A k : SumOn(v, Group(b, T, k)) \in Nat
  BY <1>3, SumType
<1> QED BY <1>1, <1>2, <1>4 DEF NatsOn, GroupSums

LEMMA SumOfGroups ==
    ASSUME NEW v, NEW b, NEW S, IsFiniteSet(S), NatsOn(v, S)
    PROVE  SumOn(GroupSums(v, b, S), Groups(b, S)) = SumOn(v, S)
<1> DEFINE G == {T \in SUBSET S : SumOn(GroupSums(v, b, T), Groups(b, T)) = SumOn(v, T)}
<1>1. ASSUME NEW T \in SUBSET S, \A Q \in SUBSET S : Cardinality(Q) < Cardinality(T) => Q \in G
      PROVE  T \in G
  <2>1. /\ IsFiniteSet(T) /\ IsFiniteSet(Groups(b, T)) /\ NatsOn(GroupSums(v, b, T), Groups(b, T))
        /\ \A k : SumOn(v, Group(b, T, k)) \in Nat
    BY GroupType
  <2>2. CASE T = {}
    <3>1. Groups(b, T) = {}
      BY <2>2 DEF Groups
    <3>2. SumOn(v, T) = 0 /\ SumOn(GroupSums(v, b, T), Groups(b, T)) = 0
      BY <2>1, <2>2, <3>1, SumUnfolds
    <3> QED BY <3>2
  <2>3. CASE T # {}
    <3>1. PICK x : x \in T
      BY <2>3
    <3>2. PICK k, R, m : k = b[x] /\ R = T \ {x} /\ m = Groups(b, T) \ {b[x]}
      OBVIOUS
    <3>3. R \in SUBSET S /\ Cardinality(R) < Cardinality(T) /\ R \in SUBSET T
      BY <2>1, <3>1, <3>2, SmallerPart
    <3>4. SumOn(GroupSums(v, b, R), Groups(b, R)) = SumOn(v, R)
      BY <1>1, <3>3
    <3>5. /\ IsFiniteSet(R) /\ IsFiniteSet(Groups(b, R)) /\ NatsOn(GroupSums(v, b, R), Groups(b, R))
          /\ \A j : SumOn(v, Group(b, R, j)) \in Nat
      BY <3>3, GroupType
    <3>6. /\ Group(b, T, k) = Group(b, R, k) \cup {x} /\ x \notin Group(b, R, k)
          /\ \A j : j # k => Group(b, T, j) = Group(b, R, j)
          /\ Groups(b, T) = Groups(b, R) \cup {k}
          /\ k \notin Groups(b, R) => Group(b, R, k) = {}
      BY <3>1, <3>2 DEF Group, Groups
    <3>7. v[x] \in Nat /\ NatsOn(v, T)
      BY <3>1 DEF NatsOn
    <3>8. SumOn(v, T) = v[x] + SumOn(v, R)
      BY <2>1, <3>1, <3>2, <3>7, SumTakes
    <3>9. SumOn(v, Group(b, T, k)) = v[x] + SumOn(v, Group(b, R, k))
      <4>1. Group(b, T, k) \in SUBSET T /\ x \in Group(b, T, k) /\ Group(b, T, k) \ {x} = Group(b, R, k)
        BY <3>6 DEF Group
      <4>2. IsFiniteSet(Group(b, T, k)) /\ NatsOn(v, Group(b, T, k))
        BY <2>1, <3>7, <4>1, FS_Subset DEF NatsOn
      <4> QED BY <4>1, <4>2, SumTakes
    <3>10. GroupSums(v, b, T)[k] = v[x] + SumOn(v, Group(b, R, k)) /\ k \in Groups(b, T)
      BY <3>6, <3>9 DEF GroupSums
    <3>11. SumOn(GroupSums(v, b, T), Groups(b, T)) = GroupSums(v, b, T)[k] + SumOn(GroupSums(v, b, T), m)
      BY <2>1, <3>2, <3>10, SumTakes
    <3>12. m \in SUBSET Groups(b, T) /\ m \in SUBSET Groups(b, R) /\ k \notin m
      BY <3>2, <3>6
    <3>13. IsFiniteSet(m) /\ NatsOn(GroupSums(v, b, R), m)
      BY <3>5, <3>12, FS_Subset DEF NatsOn
    <3>14. \A j \in m : GroupSums(v, b, R)[j] = GroupSums(v, b, T)[j]
      BY <3>6, <3>12 DEF GroupSums
    <3>15. SumOn(GroupSums(v, b, T), m) = SumOn(GroupSums(v, b, R), m)
      BY <3>13, <3>14, SumAgrees
    <3>16. PICK rest \in Nat : rest = SumOn(GroupSums(v, b, R), m)
      <4>1. m \in SUBSET m
        OBVIOUS
      <4> QED BY <3>13, <4>1, SumType
    <3>17. SumOn(v, R) = SumOn(v, Group(b, R, k)) + rest
      <4>1. CASE k \in Groups(b, R)
        <5>1. m = Groups(b, R) \ {k} /\ GroupSums(v, b, R)[k] = SumOn(v, Group(b, R, k))
          BY <3>2, <3>6, <4>1 DEF GroupSums
        <5>2. SumOn(GroupSums(v, b, R), Groups(b, R)) = GroupSums(v, b, R)[k] + SumOn(GroupSums(v, b, R), m)
          BY <3>5, <4>1, <5>1, SumTakes
        <5> QED BY <3>4, <3>16, <5>1, <5>2
      <4>2. CASE k \notin Groups(b, R)
        <5>1. m = Groups(b, R) /\ Group(b, R, k) = {}
          BY <3>2, <3>6, <4>2
        <5>2. SumOn(v, {}) = 0
          BY SumUnfolds, FS_EmptySet
        <5> QED BY <3>4, <3>16, <5>1, <5>2
      <4> QED BY <4>1, <4>2
    <3>18. PICK part \in Nat : part = SumOn(v, Group(b, R, k))
      BY <3>5
    <3>19. SumOn(v, T) = v[x] + (part + rest)
      BY <3>8, <3>17, <3>18
    <3>20. SumOn(GroupSums(v, b, T), Groups(b, T)) = (v[x] + part) + rest
      BY <3>10, <3>11, <3>15, <3>16, <3>18
    <3>21. v[x] + (part + rest) = (v[x] + part) + rest
      BY <3>7
    <3> QED BY <3>19, <3>20, <3>21
  <2> QED BY <2>2, <2>3
<1>2. \A T \in SUBSET S : T \in G
  <2> HIDE DEF G
  <2> QED BY <1>1, PartsOf
<1>3. S \in SUBSET S
  OBVIOUS
<1> QED BY <1>2, <1>3

\* The buckets of a reader lose and add nothing.
LEMMA BucketsKeepTheSum ==
    ASSUME NEW values, IsFiniteSet(DOMAIN values), NatsOn(values, DOMAIN values), NEW bucket
    PROVE  SumOf(Points(values, bucket)) = SumOn(values, DOMAIN values)
<1> DEFINE D == DOMAIN values
           b == [t \in D |-> BucketOf(t, bucket)]
<1>1. {BucketOf(t, bucket) : t \in D} = Groups(b, D)
  BY DEF Groups
<1>2. \A k : {t \in D : BucketOf(t, bucket) = k} = Group(b, D, k)
  BY DEF Group
<1> HIDE DEF b
<1>3. Points(values, bucket) = GroupSums(values, b, D)
  BY <1>1, <1>2 DEF Points, GroupSums, SumOn
<1>4. SumOf(Points(values, bucket)) = SumOn(GroupSums(values, b, D), Groups(b, D))
  BY <1>3 DEF SumOf, SumOn, GroupSums
<1> QED BY <1>4, SumOfGroups

-----------------------------------------------------------------------------
(* What the readers show of an inbound.                                      *)

LEMMA SlotsAreFinite ==
    ASSUME NEW T, T \subseteq Slots
    PROVE  IsFiniteSet(T)
<1>1. IsFiniteSet(0..MaxSlot)
  BY FS_Interval, TrafficAssumption
<1> QED BY <1>1, FS_Subset DEF Slots

LEMMA FirstAndLast ==
    ASSUME NEW T, T \subseteq Slots, T # {}
    PROVE  /\ Min(T) \in T /\ \A t \in T : Min(T) <= t
           /\ Max(T) \in T /\ \A t \in T : t <= Max(T)
<1>1. MaxSlot \in Nat /\ \A t \in T : t \in Nat /\ t <= MaxSlot
  BY TrafficAssumption DEF Slots
<1>2. \E s \in T : \A t \in T : s <= t
  BY <1>1, LeastExists
<1>3. \E s \in T : \A t \in T : t <= s
  <2> DEFINE left == {MaxSlot - t : t \in T}
  <2>1. left # {} /\ left \subseteq Nat
    BY <1>1
  <2>2. PICK k \in left : \A j \in left : k <= j
    BY <2>1, LeastExists
  <2>3. PICK s \in T : k = MaxSlot - s
    BY <2>2
  <2>4. ASSUME NEW t \in T PROVE t <= s
    <3>1. MaxSlot - t \in left
      OBVIOUS
    <3>2. MaxSlot - s <= MaxSlot - t
      BY <2>2, <2>3, <3>1
    <3> QED BY <1>1, <3>2
  <2> QED BY <2>4
<1>4. Min(T) \in T /\ \A t \in T : Min(T) <= t
  BY <1>2 DEF Min
<1>5. Max(T) \in T /\ \A t \in T : Max(T) >= t
  BY <1>1, <1>3 DEF Max
<1> QED BY <1>1, <1>4, <1>5

\* The rows of a range that make a point, and the points.
Moving(i, from) == {t \in RowsOf(inboundRows, i, from) :
                      t # Min(RowsOf(inboundRows, i, from)) /\ InboundDelta(i, t, from) # 0}
MovingDeltas(i, from) == [t \in Moving(i, from) |-> InboundDelta(i, t, from)]

LEMMA RowsRead ==
    ASSUME NEW table \in [Inbounds -> [Slots -> Nat \cup {Absent}]], NEW i \in Inbounds, NEW from \in Slots
    PROVE  /\ RowsOf(table, i, from) \subseteq RowsOf(table, i, 0)
           /\ RowsOf(table, i, from) \subseteq Slots
           /\ IsFiniteSet(RowsOf(table, i, from))
           /\ \A t \in RowsOf(table, i, from) : table[i][t] \in Nat
<1>1. \A t \in Slots : table[i][t] \in Nat \cup {Absent}
  OBVIOUS
<1>2. RowsOf(table, i, from) \subseteq Slots /\ from..MaxSlot \subseteq 0..MaxSlot
  BY TrafficAssumption DEF RowsOf, Slots
<1>3. \A t \in RowsOf(table, i, from) : table[i][t] # Absent
  BY DEF RowsOf
<1>4. RowsOf(table, i, from) \subseteq RowsOf(table, i, 0)
  BY <1>2 DEF RowsOf
<1> QED BY <1>1, <1>2, <1>3, <1>4, SlotsAreFinite

LEMMA InboundRows ==
    ASSUME TrafficInv, NEW i \in Inbounds, NEW from \in Slots
    PROVE  /\ RowsOf(inboundRows, i, from) \subseteq RowsOf(inboundRows, i, 0)
           /\ RowsOf(inboundRows, i, from) \subseteq Slots
           /\ IsFiniteSet(RowsOf(inboundRows, i, from))
           /\ \A t \in RowsOf(inboundRows, i, from) : inboundRows[i][t] \in Nat
BY RowsRead DEF TrafficInv, TrafficTypeOK

LEMMA BaseIsBefore ==
    ASSUME TrafficInv, NEW i \in Inbounds, NEW from \in Slots, NEW t \in RowsOf(inboundRows, i, from),
           t # Min(RowsOf(inboundRows, i, from))
    PROVE  /\ Base(i, t, from) \in RowsOf(inboundRows, i, from) /\ Base(i, t, from) < t
           /\ \A s \in RowsOf(inboundRows, i, from) : s < t => s <= Base(i, t, from)
<1> DEFINE read == RowsOf(inboundRows, i, from)
           before == {b \in read : b < t}
<1>1. read \subseteq Slots /\ read # {}
  BY InboundRows
<1>2. Min(read) \in read /\ Min(read) <= t
  BY <1>1, FirstAndLast
<1>3. Min(read) \in before
  BY <1>1, <1>2 DEF Slots
<1>4. before \subseteq Slots /\ before # {}
  BY <1>1, <1>3
<1>5. Max(before) \in before /\ \A s \in before : s <= Max(before)
  <2> HIDE DEF before
  <2> QED BY <1>4, FirstAndLast
<1>6. Base(i, t, from) = Max(before)
  BY DEF Base
<1> QED BY <1>5, <1>6

LEMMA InboundDeltaIs ==
    ASSUME TrafficInv, NEW i \in Inbounds, NEW from \in Slots, NEW t \in RowsOf(inboundRows, i, from),
           t # Min(RowsOf(inboundRows, i, from))
    PROVE  \E b \in RowsOf(inboundRows, i, from) :
             /\ b < t /\ (\A s \in RowsOf(inboundRows, i, from) : s < t => s <= b)
             /\ inboundRows[i][b] \in Nat /\ inboundRows[i][t] \in Nat
             /\ InboundDelta(i, t, from) = IF inboundRows[i][t] < inboundRows[i][b] THEN 0
                                           ELSE inboundRows[i][t] - inboundRows[i][b]
             /\ InboundDelta(i, t, from) \in Nat
<1>1. PICK b : b = Base(i, t, from)
  OBVIOUS
<1>2. /\ b \in RowsOf(inboundRows, i, from) /\ b < t
      /\ \A s \in RowsOf(inboundRows, i, from) : s < t => s <= b
  BY <1>1, BaseIsBefore
<1>3. inboundRows[i][b] \in Nat /\ inboundRows[i][t] \in Nat
  BY <1>2, InboundRows
<1>4. InboundDelta(i, t, from) = IF inboundRows[i][t] < inboundRows[i][b] THEN 0
                                 ELSE inboundRows[i][t] - inboundRows[i][b]
  BY <1>1 DEF InboundDelta, Delta
<1>5. InboundDelta(i, t, from) \in Nat
  BY <1>3, <1>4
<1> QED BY <1>2, <1>3, <1>4, <1>5

\* What is shown up to the row at k.
ShownUpTo(i, from, k) == SumOn(MovingDeltas(i, from), {t \in Moving(i, from) : t <= k})

LEMMA ShownUpToNext ==
    ASSUME TrafficInv, NEW i \in Inbounds, NEW from \in Slots, NEW k \in RowsOf(inboundRows, i, from)
    PROVE  /\ ShownUpTo(i, from, k) \in Nat
           /\ k = Min(RowsOf(inboundRows, i, from)) => ShownUpTo(i, from, k) = 0
           /\ k # Min(RowsOf(inboundRows, i, from)) =>
                \E b \in RowsOf(inboundRows, i, from), d \in Nat :
                   /\ b < k /\ inboundRows[i][b] \in Nat /\ inboundRows[i][k] \in Nat
                   /\ d = IF inboundRows[i][k] < inboundRows[i][b] THEN 0
                          ELSE inboundRows[i][k] - inboundRows[i][b]
                   /\ ShownUpTo(i, from, k) = d + ShownUpTo(i, from, b)
                   /\ ShownUpTo(i, from, b) \in Nat
<1> DEFINE read == RowsOf(inboundRows, i, from)
           f == MovingDeltas(i, from)
           upTo(j) == {t \in Moving(i, from) : t <= j}
<1>1. read \subseteq Slots /\ read # {} /\ Moving(i, from) \subseteq read /\ read \subseteq Nat
  BY InboundRows DEF Moving, Slots
<1>2. NatsOn(f, Moving(i, from)) /\ IsFiniteSet(Moving(i, from))
  <2>1. \A t \in Moving(i, from) : InboundDelta(i, t, from) \in Nat
    BY InboundDeltaIs DEF Moving
  <2> QED BY <1>1, <2>1, SlotsAreFinite DEF NatsOn, MovingDeltas
<1>3. \A j : upTo(j) \in SUBSET Moving(i, from)
  OBVIOUS
<1>4. \A j : IsFiniteSet(upTo(j)) /\ NatsOn(f, upTo(j)) /\ SumOn(f, upTo(j)) \in Nat
  <2> HIDE DEF f
  <2>1. \A j : IsFiniteSet(upTo(j)) /\ SumOn(f, upTo(j)) \in Nat
    <3> HIDE DEF upTo
    <3> QED BY <1>2, <1>3, SumType
  <2> QED BY <1>2, <2>1 DEF NatsOn
<1>5. \A j : ShownUpTo(i, from, j) = SumOn(f, upTo(j))
  BY DEF ShownUpTo
<1>6. ASSUME k = Min(read) PROVE ShownUpTo(i, from, k) = 0
  <2>1. \A t \in read : k <= t
    BY <1>1, <1>6, FirstAndLast
  <2>2. upTo(k) = {}
    BY <1>1, <1>6, <2>1 DEF Moving
  <2>3. SumOn(f, {}) = 0
    BY SumUnfolds, FS_EmptySet
  <2> QED BY <1>5, <2>2, <2>3
<1>7. ASSUME k # Min(read)
      PROVE  \E b \in read, d \in Nat :
                   /\ b < k /\ inboundRows[i][b] \in Nat /\ inboundRows[i][k] \in Nat
                   /\ d = IF inboundRows[i][k] < inboundRows[i][b] THEN 0
                          ELSE inboundRows[i][k] - inboundRows[i][b]
                   /\ ShownUpTo(i, from, k) = d + ShownUpTo(i, from, b)
                   /\ ShownUpTo(i, from, b) \in Nat
  <2>1. PICK b \in read :
             /\ b < k /\ (\A s \in read : s < k => s <= b)
             /\ inboundRows[i][b] \in Nat /\ inboundRows[i][k] \in Nat
             /\ InboundDelta(i, k, from) = IF inboundRows[i][k] < inboundRows[i][b] THEN 0
                                           ELSE inboundRows[i][k] - inboundRows[i][b]
             /\ InboundDelta(i, k, from) \in Nat
    BY <1>7, InboundDeltaIs
  <2>2. PICK d \in Nat : d = InboundDelta(i, k, from)
    BY <2>1
  <2>3. upTo(k) \ {k} = upTo(b)
    BY <1>1, <2>1
  <2>4. SumOn(f, upTo(k)) = d + SumOn(f, upTo(b))
    <3>1. CASE k \in upTo(k)
      <4>1. f[k] = d
        BY <2>2, <3>1 DEF MovingDeltas
      <4>2. SumOn(f, upTo(k)) = f[k] + SumOn(f, upTo(k) \ {k})
        <5> HIDE DEF f, upTo
        <5> QED BY <1>4, <3>1, SumTakes
      <4> QED BY <2>3, <4>1, <4>2
    <3>2. CASE k \notin upTo(k)
      <4>1. d = 0
        BY <1>1, <1>7, <2>2, <3>2 DEF Moving
      <4>2. upTo(k) = upTo(b)
        BY <2>3, <3>2
      <4>3. PICK n \in Nat : n = SumOn(f, upTo(b))
        BY <1>4
      <4>4. SumOn(f, upTo(k)) = n
        BY <4>2, <4>3
      <4> HIDE DEF f, upTo
      <4> QED BY <4>1, <4>3, <4>4
    <3> QED BY <3>1, <3>2
  <2>5. ShownUpTo(i, from, k) = d + ShownUpTo(i, from, b) /\ ShownUpTo(i, from, b) \in Nat
    BY <1>4, <1>5, <2>4
  <2> QED BY <2>1, <2>2, <2>5
<1>8. ShownUpTo(i, from, k) \in Nat
  BY <1>4, <1>5
<1> QED BY <1>6, <1>7, <1>8

\* Up to a row, no more is shown than there was between the first and it.
LEMMA ShownUpToIsDated ==
    ASSUME TrafficInv, NEW i \in Inbounds, NEW from \in Slots, NEW at \in [Slots -> Nat], RowsDated(i, at)
    PROVE  \A k \in RowsOf(inboundRows, i, from) :
             /\ ShownUpTo(i, from, k) <= at[k] - at[Min(RowsOf(inboundRows, i, from))]
             /\ resets = 0 => ShownUpTo(i, from, k) =
                  inboundRows[i][k] - inboundRows[i][Min(RowsOf(inboundRows, i, from))]
<1> DEFINE read == RowsOf(inboundRows, i, from)
           low == Min(read)
           bad == {k \in read : ~ /\ ShownUpTo(i, from, k) <= at[k] - at[low]
                                  /\ resets = 0 => ShownUpTo(i, from, k) = inboundRows[i][k] - inboundRows[i][low]}
<1>1. /\ read \subseteq Slots /\ read \subseteq Nat /\ read \subseteq RowsOf(inboundRows, i, 0)
      /\ \A t \in read : inboundRows[i][t] \in Nat /\ at[t] \in Nat
  BY InboundRows DEF Slots
<1>2. SUFFICES ASSUME bad # {} PROVE FALSE
  OBVIOUS
<1>3. PICK k \in bad : \A j \in bad : k <= j
  <2>1. bad \subseteq Nat /\ bad # {}
    BY <1>1, <1>2
  <2> HIDE DEF bad
  <2> QED BY <2>1, LeastExists
<1>4. low \in read
  BY <1>1, <1>2, FirstAndLast
<1>5. CASE k = low
  <2>1. ShownUpTo(i, from, k) = 0
    BY <1>5, ShownUpToNext
  <2>2. at[k] \in Nat /\ inboundRows[i][k] \in Nat
    BY <1>1
  <2>3. k \notin bad
    BY <1>5, <2>1, <2>2
  <2> QED BY <2>3
<1>6. CASE k # low
  <2>1. PICK b \in read, d \in Nat :
           /\ b < k /\ inboundRows[i][b] \in Nat /\ inboundRows[i][k] \in Nat
           /\ d = IF inboundRows[i][k] < inboundRows[i][b] THEN 0
                  ELSE inboundRows[i][k] - inboundRows[i][b]
           /\ ShownUpTo(i, from, k) = d + ShownUpTo(i, from, b)
           /\ ShownUpTo(i, from, b) \in Nat
    BY <1>6, ShownUpToNext
  <2>2. /\ ShownUpTo(i, from, b) <= at[b] - at[low]
        /\ resets = 0 => ShownUpTo(i, from, b) = inboundRows[i][b] - inboundRows[i][low]
    BY <1>1, <1>3, <2>1
  <2>3. Follows(inboundRows[i][b], at[b], inboundRows[i][k], at[k])
    BY <1>1, <2>1 DEF RowsDated
  <2>4. /\ at[b] <= at[k] /\ inboundRows[i][k] - inboundRows[i][b] <= at[k] - at[b]
        /\ resets = 0 => inboundRows[i][k] - inboundRows[i][b] = at[k] - at[b]
    BY <2>1, <2>3, TrafficAssumption DEF Follows
  <2>5. at[k] \in Nat /\ at[b] \in Nat /\ at[low] \in Nat /\ inboundRows[i][low] \in Nat
    BY <1>1, <1>4
  <2>6. PICK n \in Nat : n = ShownUpTo(i, from, b)
    BY <2>1
  <2> HIDE DEF read, low
  <2>7. d <= at[k] - at[b] /\ (resets = 0 => d = inboundRows[i][k] - inboundRows[i][b])
    BY <2>1, <2>4, <2>5
  <2>8. /\ d + n <= at[k] - at[low]
        /\ resets = 0 => d + n = inboundRows[i][k] - inboundRows[i][low]
    BY <2>1, <2>2, <2>5, <2>6, <2>7
  <2>9. k \notin bad
    BY <2>1, <2>6, <2>8
  <2> QED BY <2>9
<1> QED BY <1>5, <1>6

\* What is shown is what is shown up to the last row.
LEMMA ShownIs ==
    ASSUME TrafficInv, NEW i \in Inbounds, NEW from \in Slots, NEW bucket
    PROVE  /\ RowsOf(inboundRows, i, from) = {} => SumOf(AggregateInboundTraffic(i, from, bucket)) = 0
           /\ RowsOf(inboundRows, i, from) # {} =>
                SumOf(AggregateInboundTraffic(i, from, bucket)) =
                  ShownUpTo(i, from, Max(RowsOf(inboundRows, i, from)))
<1> DEFINE read == RowsOf(inboundRows, i, from)
<1>1. read \subseteq Slots /\ Moving(i, from) \subseteq read
  BY InboundRows DEF Moving
<1>2. AggregateInboundTraffic(i, from, bucket) = Points(MovingDeltas(i, from), bucket)
  BY DEF AggregateInboundTraffic, MovingDeltas, Moving
<1>3. DOMAIN MovingDeltas(i, from) = Moving(i, from) /\ IsFiniteSet(Moving(i, from))
  BY <1>1, SlotsAreFinite DEF MovingDeltas
<1>4. NatsOn(MovingDeltas(i, from), Moving(i, from))
  <2>1. \A t \in Moving(i, from) : InboundDelta(i, t, from) \in Nat
    BY InboundDeltaIs DEF Moving
  <2> QED BY <2>1 DEF NatsOn, MovingDeltas
<1>5. SumOf(AggregateInboundTraffic(i, from, bucket)) = SumOn(MovingDeltas(i, from), Moving(i, from))
  BY <1>2, <1>3, <1>4, BucketsKeepTheSum
<1>6. CASE read = {}
  <2>1. Moving(i, from) = {}
    BY <1>1, <1>6
  <2>2. SumOn(MovingDeltas(i, from), {}) = 0
    BY SumUnfolds, FS_EmptySet
  <2> QED BY <1>5, <1>6, <2>1, <2>2
<1>7. CASE read # {}
  <2>1. \A t \in read : t <= Max(read)
    BY <1>1, <1>7, FirstAndLast
  <2>2. {t \in Moving(i, from) : t <= Max(read)} = Moving(i, from)
    BY <1>1, <2>1
  <2> QED BY <1>5, <1>7, <2>2 DEF ShownUpTo
<1> QED BY <1>6, <1>7

LEMMA DatedInboundsAreReal == TrafficInv /\ TrafficDated => InboundTrafficIsReal
<1> SUFFICES ASSUME TrafficInv, TrafficDated, NEW i \in Inbounds, NEW from \in Slots, NEW bucket \in Buckets
    PROVE  /\ SumOf(AggregateInboundTraffic(i, from, bucket)) <= moved.total[i]
           /\ RowsOf(inboundRows, i, from) # {} /\ resets = 0 =>
                SumOf(AggregateInboundTraffic(i, from, bucket)) =
                  inboundRows[i][Max(RowsOf(inboundRows, i, from))] - inboundRows[i][Min(RowsOf(inboundRows, i, from))]
  BY DEF InboundTrafficIsReal
<1> DEFINE read == RowsOf(inboundRows, i, from)
<1>1. PICK at \in [Slots -> 0..moved.total[i]] : RowsDated(i, at)
  BY DEF TrafficDated, InboundDatedBy
<1>2. moved.total[i] \in Nat /\ at \in [Slots -> Nat] /\ \A t \in Slots : at[t] <= moved.total[i]
  BY <1>1 DEF TrafficDated
<1>3. CASE read = {}
  BY <1>2, <1>3, ShownIs
<1>4. CASE read # {}
  <2>1. Min(read) \in read /\ Max(read) \in read /\ Min(read) \in Slots /\ Max(read) \in Slots
    BY <1>4, InboundRows, FirstAndLast
  <2>2. /\ ShownUpTo(i, from, Max(read)) <= at[Max(read)] - at[Min(read)]
        /\ resets = 0 => ShownUpTo(i, from, Max(read)) = inboundRows[i][Max(read)] - inboundRows[i][Min(read)]
    BY <1>1, <1>2, <2>1, ShownUpToIsDated
  <2>3. ShownUpTo(i, from, Max(read)) \in Nat
    BY <2>1, ShownUpToNext
  <2>4. SumOf(AggregateInboundTraffic(i, from, bucket)) = ShownUpTo(i, from, Max(read))
    BY <1>4, ShownIs
  <2>5. at[Max(read)] \in Nat /\ at[Min(read)] \in Nat /\ at[Max(read)] <= moved.total[i]
    BY <1>2, <2>1
  <2>6. ShownUpTo(i, from, Max(read)) <= moved.total[i]
    BY <1>2, <2>2, <2>3, <2>5
  <2> QED BY <2>2, <2>4, <2>6
<1> QED BY <1>3, <1>4

(* What the readers show of a client.                                        *)

LEMMA DatedClientsAreReal == TrafficInv /\ TrafficDated => ClientTrafficIsReal
<1> SUFFICES ASSUME TrafficInv, TrafficDated, NEW i \in Inbounds, NEW from \in Slots, NEW bucket \in Buckets,
                    i \notin torn
    PROVE  SumOf(AggregateClientTraffic(i, from, bucket)) <= moved.used[i]
  BY DEF ClientTrafficIsReal
<1> DEFINE read == RowsOf(clientRows, i, from)
           all == RowsOf(clientRows, i, 0)
           f == [t \in read |-> clientRows[i][t]]
<1>1. 0 \in Slots /\ clientRows \in [Inbounds -> [Slots -> Nat \cup {Absent}]]
  BY TrafficAssumption DEF Slots, TrafficInv, TrafficTypeOK
<1>2. read \subseteq all /\ IsFiniteSet(read) /\ IsFiniteSet(all) /\ \A t \in all : clientRows[i][t] \in Nat
  BY <1>1, RowsRead
<1>3. /\ NatsOn(ClientDeltas(i), all) /\ NatsOn(f, read) /\ \A t \in read : f[t] <= ClientDeltas(i)[t]
      /\ DOMAIN f = read /\ DOMAIN ClientDeltas(i) = all
  BY <1>2 DEF NatsOn, ClientDeltas
<1>4. AggregateClientTraffic(i, from, bucket) = Points(f, bucket)
  BY DEF AggregateClientTraffic
<1>5. SumOf(ClientDeltas(i)) = SumOn(ClientDeltas(i), all)
  BY <1>3 DEF SumOf, SumOn
<1> HIDE DEF f
<1>6. SumOf(Points(f, bucket)) = SumOn(f, read)
  BY <1>2, <1>3, BucketsKeepTheSum
<1>7. SumOn(f, read) <= SumOn(ClientDeltas(i), all)
  <2> HIDE DEF read, all
  <2> QED BY <1>2, <1>3, SumIsMonotonic
<1>8. PICK base \in 0..moved.used[i], seen \in 0..moved.used[i] : ClientDatedBy(i, base, seen)
  BY DEF TrafficDated
<1>9. moved.used[i] \in Nat
  BY DEF TrafficDated
<1>10. PICK shown \in Nat, sum \in Nat : shown = SumOn(f, read) /\ sum = SumOn(ClientDeltas(i), all)
  <2>1. read \in SUBSET read /\ all \in SUBSET all
    OBVIOUS
  <2> HIDE DEF read, all
  <2>2. SumOn(f, read) \in Nat /\ SumOn(ClientDeltas(i), all) \in Nat
    BY <1>2, <1>3, <2>1, SumType
  <2> QED BY <2>2
<1>11. sum <= base \/ sum <= seen
  BY <1>5, <1>8, <1>10 DEF ClientDatedBy
<1>12. shown <= moved.used[i]
  BY <1>7, <1>8, <1>9, <1>10, <1>11
<1> QED BY <1>4, <1>6, <1>10, <1>12

-----------------------------------------------------------------------------
(* Every step keeps the readings' places.                                    *)

\* A counter and its traffic, before and after a step of the panel.
CounterMoves(d, n, e, k) ==
    \/ resets' = resets /\ d # Absent /\ e = d + 1 /\ k = n + 1
    \/ resets' = resets + 1 /\ e \in {0, Absent, d} /\ k = n
    \/ resets' = resets /\ e = d /\ k = n

\* Follows in the next state, of values that are given.
FollowsNext(c, m, d, n) ==
    /\ m <= n
    /\ c # Absent /\ d # Absent => d - c <= n - m /\ (resets' = 0 => d - c = n - m)

LEMMA CounterMovesOn ==
    ASSUME resets \in Nat, NEW c \in Nat \cup {Absent}, NEW d \in Nat \cup {Absent}, NEW m \in Nat, NEW n \in Nat,
           NEW e, NEW k, Follows(c, m, d, n), CounterMoves(d, n, e, k)
    PROVE  FollowsNext(c, m, e, k)
<1>1. Absent \notin Int
  BY TrafficAssumption
<1>2. CASE resets' = resets /\ d # Absent /\ e = d + 1 /\ k = n + 1
  BY <1>1, <1>2 DEF Follows, FollowsNext
<1>3. CASE resets' = resets + 1 /\ e \in {0, Absent, d} /\ k = n
  BY <1>1, <1>3 DEF Follows, FollowsNext
<1>4. CASE resets' = resets /\ e = d /\ k = n
  BY <1>1, <1>4 DEF Follows, FollowsNext
<1> QED BY <1>2, <1>3, <1>4 DEF CounterMoves

LEMMA FollowsStill ==
    ASSUME resets \in Nat, resets' = resets \/ resets' = resets + 1,
           NEW c, NEW m, NEW d, NEW n, Follows(c, m, d, n)
    PROVE  FollowsNext(c, m, d, n)
BY DEF Follows, FollowsNext

LEMMA DatedTypes ==
    ASSUME TrafficInv, TrafficDated, NEW i \in Inbounds
    PROVE  /\ moved.total[i] \in Nat /\ moved.used[i] \in Nat /\ resets \in Nat
           /\ total[i] \in Nat /\ used[i] \in Nat \cup {Absent}
           /\ \A t \in RowsOf(inboundRows, i, 0) : t \in Slots /\ inboundRows[i][t] \in Nat
           /\ baselines # Absent => baselines[i] \in Nat \cup {Absent}
           /\ cycle # Absent => /\ cycle.total[i] \in Nat /\ cycle.used[i] \in Nat \cup {Absent}
                                /\ cycle.ts \in Slots
<1>1. 0 \in Slots
  BY TrafficAssumption DEF Slots
<1>2. \A t \in RowsOf(inboundRows, i, 0) : t \in Slots /\ inboundRows[i][t] \in Nat
  BY <1>1, InboundRows
<1>3. cycle # Absent => /\ cycle.total[i] \in Nat /\ cycle.used[i] \in Nat \cup {Absent}
                        /\ cycle.ts \in Slots
  BY DEF TrafficInv, CycleType
<1> QED BY <1>2, <1>3 DEF TrafficInv, TrafficTypeOK, TrafficDated

LEMMA PanelCountsMoves ==
    ASSUME TrafficInv, TrafficDated, PanelCounts
    PROVE  /\ resets' \in Nat /\ moved'.total \in [Inbounds -> Nat] /\ moved'.used \in [Inbounds -> Nat]
           /\ resets' = resets \/ resets' = resets + 1
           /\ \A j \in Inbounds : /\ moved.total[j] <= moved'.total[j] /\ moved.used[j] <= moved'.used[j]
                                  /\ CounterMoves(total[j], moved.total[j], total'[j], moved'.total[j])
                                  /\ CounterMoves(used[j], moved.used[j], used'[j], moved'.used[j])
<1>1. /\ total \in [Inbounds -> Nat] /\ used \in [Inbounds -> Nat \cup {Absent}] /\ resets \in Nat
      /\ moved.total \in [Inbounds -> Nat] /\ moved.used \in [Inbounds -> Nat]
  BY DEF TrafficInv, TrafficTypeOK, TrafficDated
<1>2. PICK i \in Inbounds :
         \/ /\ used[i] # Absent
            /\ used' = [used EXCEPT ![i] = @ + 1] /\ total' = [total EXCEPT ![i] = @ + 1]
            /\ moved' = [total |-> [moved.total EXCEPT ![i] = @ + 1],
                         used |-> [moved.used EXCEPT ![i] = @ + 1]]
            /\ resets' = resets
         \/ /\ resets' = resets + 1
            /\ \/ total' = [total EXCEPT ![i] = 0] /\ used' = used
               \/ /\ \E c \in {0, Absent} : used' = [used EXCEPT ![i] = c]
                  /\ total' = total
            /\ moved' = moved
  BY DEF PanelCounts
<1>3. CASE /\ used[i] # Absent
           /\ used' = [used EXCEPT ![i] = @ + 1] /\ total' = [total EXCEPT ![i] = @ + 1]
           /\ moved' = [total |-> [moved.total EXCEPT ![i] = @ + 1],
                        used |-> [moved.used EXCEPT ![i] = @ + 1]]
           /\ resets' = resets
  <2>1. moved'.total = [moved.total EXCEPT ![i] = @ + 1] /\ moved'.used = [moved.used EXCEPT ![i] = @ + 1]
    BY <1>3
  <2>2. Absent \notin Nat
    BY TrafficAssumption
  <2>3. moved'.total \in [Inbounds -> Nat] /\ moved'.used \in [Inbounds -> Nat] /\ resets' \in Nat
    BY <1>1, <1>3, <2>1
  <2>4. ASSUME NEW j \in Inbounds
        PROVE  /\ moved.total[j] <= moved'.total[j] /\ moved.used[j] <= moved'.used[j]
               /\ CounterMoves(total[j], moved.total[j], total'[j], moved'.total[j])
               /\ CounterMoves(used[j], moved.used[j], used'[j], moved'.used[j])
    <3>1. CASE j = i
      BY <1>1, <1>3, <2>1, <2>2, <3>1 DEF CounterMoves
    <3>2. CASE j # i
      BY <1>1, <1>3, <2>1, <3>2 DEF CounterMoves
    <3> QED BY <3>1, <3>2
  <2> QED BY <1>3, <2>3, <2>4
<1>4. CASE /\ resets' = resets + 1
           /\ \/ total' = [total EXCEPT ![i] = 0] /\ used' = used
              \/ /\ \E c \in {0, Absent} : used' = [used EXCEPT ![i] = c]
                 /\ total' = total
           /\ moved' = moved
  <2>1. ASSUME NEW j \in Inbounds
        PROVE  /\ moved.total[j] <= moved'.total[j] /\ moved.used[j] <= moved'.used[j]
               /\ CounterMoves(total[j], moved.total[j], total'[j], moved'.total[j])
               /\ CounterMoves(used[j], moved.used[j], used'[j], moved'.used[j])
    <3>1. total'[j] \in {0, Absent, total[j]} /\ used'[j] \in {0, Absent, used[j]}
      BY <1>1, <1>4
    <3> QED BY <1>1, <1>4, <3>1 DEF CounterMoves
  <2> QED BY <1>1, <1>4, <2>1
<1> QED BY <1>2, <1>3, <1>4

LEMMA PanelCountsKeepsDates == TrafficInv /\ TrafficDated /\ PanelCounts => TrafficDated'
<1> SUFFICES ASSUME TrafficInv, TrafficDated, PanelCounts PROVE TrafficDated'
  OBVIOUS
<1>1. /\ resets' \in Nat /\ moved'.total \in [Inbounds -> Nat] /\ moved'.used \in [Inbounds -> Nat]
      /\ resets \in Nat /\ (resets' = resets \/ resets' = resets + 1)
  BY PanelCountsMoves, DatedTypes DEF TrafficDated
<1>2. UNCHANGED <<inboundRows, clientRows, slot, baselines, cycle, torn>>
  BY DEF PanelCounts, tables
<1>3. ASSUME NEW i \in Inbounds
      PROVE  \E at \in [Slots -> 0..moved'.total[i]], seen \in 0..moved'.total[i] :
                InboundDatedBy(i, at, seen)'
  <2>1. PICK at \in [Slots -> 0..moved.total[i]], seen \in 0..moved.total[i] : InboundDatedBy(i, at, seen)
    BY DEF TrafficDated
  <2>2. /\ moved.total[i] \in Nat /\ moved'.total[i] \in Nat /\ moved.total[i] <= moved'.total[i]
        /\ CounterMoves(total[i], moved.total[i], total'[i], moved'.total[i])
        /\ total[i] \in Nat
        /\ \A t \in RowsOf(inboundRows, i, 0) : t \in Slots /\ inboundRows[i][t] \in Nat
        /\ cycle # Absent => cycle.total[i] \in Nat
    BY <1>1, DatedTypes, PanelCountsMoves
  <2>3. at \in [Slots -> 0..moved'.total[i]] /\ seen \in 0..moved'.total[i] /\ seen \in Nat
        /\ \A t \in Slots : at[t] \in Nat
    BY <2>2
  <2>4. RowsOf(inboundRows, i, 0)' = RowsOf(inboundRows, i, 0)
    BY <1>2 DEF RowsOf
  <2>5. RowsDated(i, at)'
    <3>1. \A s, t \in RowsOf(inboundRows, i, 0) :
             s < t => FollowsNext(inboundRows[i][s], at[s], inboundRows[i][t], at[t])
      BY <1>1, <2>1, FollowsStill DEF InboundDatedBy, RowsDated
    <3> QED BY <1>2, <2>4, <3>1 DEF RowsDated, Follows, FollowsNext
  <2>6. ASSUME NEW t \in RowsOf(inboundRows, i, 0)
        PROVE  FollowsNext(inboundRows[i][t], at[t], total'[i], moved'.total[i])
    <3>1. Follows(inboundRows[i][t], at[t], total[i], moved.total[i])
      BY <2>1 DEF InboundDatedBy
    <3> QED BY <1>1, <2>2, <2>3, <3>1, CounterMovesOn
  <2>7. ASSUME cycle # Absent
        PROVE  FollowsNext(cycle.total[i], seen, total'[i], moved'.total[i])
    <3>1. Follows(cycle.total[i], seen, total[i], moved.total[i])
      BY <2>1, <2>7 DEF InboundDatedBy
    <3> QED BY <1>1, <2>2, <2>3, <2>7, <3>1, CounterMovesOn
  <2>8. ASSUME cycle # Absent, NEW t \in RowsOf(inboundRows, i, 0)
        PROVE  FollowsNext(inboundRows[i][t], at[t], cycle.total[i], seen)
    BY <1>1, <2>1, <2>8, FollowsStill DEF InboundDatedBy
  <2>9. InboundDatedBy(i, at, seen)'
    BY <1>2, <2>1, <2>4, <2>5, <2>6, <2>7, <2>8 DEF InboundDatedBy, Follows, FollowsNext
  <2> QED BY <2>3, <2>9
<1>4. ASSUME NEW i \in Inbounds, i \notin torn'
      PROVE  \E base, seen \in 0..moved'.used[i] : ClientDatedBy(i, base, seen)'
  <2>1. PICK base \in 0..moved.used[i], seen \in 0..moved.used[i] : ClientDatedBy(i, base, seen)
    BY <1>2, <1>4 DEF TrafficDated
  <2>2. /\ moved.used[i] \in Nat /\ moved'.used[i] \in Nat /\ moved.used[i] <= moved'.used[i]
        /\ CounterMoves(used[i], moved.used[i], used'[i], moved'.used[i])
        /\ used[i] \in Nat \cup {Absent}
        /\ baselines # Absent => baselines[i] \in Nat \cup {Absent}
        /\ cycle # Absent => cycle.used[i] \in Nat \cup {Absent}
    BY <1>1, DatedTypes, PanelCountsMoves
  <2>3. base \in 0..moved'.used[i] /\ seen \in 0..moved'.used[i] /\ seen \in Nat /\ base \in Nat
    BY <2>2
  <2>4. SumOf(ClientDeltas(i))' = SumOf(ClientDeltas(i))
    BY <1>2 DEF ClientDeltas, RowsOf
  <2>5. ASSUME baselines # Absent
        PROVE  FollowsNext(baselines[i], base, used'[i], moved'.used[i])
    <3>1. Follows(baselines[i], base, used[i], moved.used[i])
      BY <2>1, <2>5 DEF ClientDatedBy
    <3> QED BY <1>1, <2>2, <2>3, <2>5, <3>1, CounterMovesOn
  <2>6. ASSUME cycle # Absent
        PROVE  FollowsNext(cycle.used[i], seen, used'[i], moved'.used[i])
    <3>1. Follows(cycle.used[i], seen, used[i], moved.used[i])
      BY <2>1, <2>6 DEF ClientDatedBy
    <3> QED BY <1>1, <2>2, <2>3, <2>6, <3>1, CounterMovesOn
  <2>7. ASSUME cycle # Absent, baselines # Absent
        PROVE  FollowsNext(baselines[i], base, cycle.used[i], seen)
    BY <1>1, <2>1, <2>7, FollowsStill DEF ClientDatedBy
  <2>8. ClientDatedBy(i, base, seen)'
    BY <1>2, <2>1, <2>4, <2>5, <2>6, <2>7 DEF ClientDatedBy, Follows, FollowsNext
  <2> QED BY <2>3, <2>8
<1>5. cycle' # Absent => \A i \in cycle'.stored : i < cycle'.next
  BY <1>2 DEF TrafficDated
<1> QED BY <1>1, <1>3, <1>4, <1>5 DEF TrafficDated

LEMMA ClientSumType ==
    ASSUME TrafficInv, NEW i \in Inbounds
    PROVE  /\ SumOf(ClientDeltas(i)) = SumOn(ClientDeltas(i), RowsOf(clientRows, i, 0))
           /\ IsFiniteSet(RowsOf(clientRows, i, 0)) /\ NatsOn(ClientDeltas(i), RowsOf(clientRows, i, 0))
           /\ SumOf(ClientDeltas(i)) \in Nat
<1>1. 0 \in Slots /\ clientRows \in [Inbounds -> [Slots -> Nat \cup {Absent}]]
  BY TrafficAssumption DEF Slots, TrafficInv, TrafficTypeOK
<1>2. IsFiniteSet(RowsOf(clientRows, i, 0)) /\ NatsOn(ClientDeltas(i), RowsOf(clientRows, i, 0))
  BY <1>1, RowsRead DEF NatsOn, ClientDeltas
<1>3. DOMAIN ClientDeltas(i) = RowsOf(clientRows, i, 0)
  BY DEF ClientDeltas
<1>4. SumOf(ClientDeltas(i)) = SumOn(ClientDeltas(i), RowsOf(clientRows, i, 0))
  BY <1>3 DEF SumOf, SumOn
<1>5. RowsOf(clientRows, i, 0) \in SUBSET RowsOf(clientRows, i, 0)
  OBVIOUS
<1>6. SumOn(ClientDeltas(i), RowsOf(clientRows, i, 0)) \in Nat
  BY <1>2, <1>5, SumType
<1> QED BY <1>2, <1>4, <1>6

\* An inbound whose rows, counter and cycle stay keeps its places, also when
\* the cycle goes.
LEMMA InboundKeepsDates ==
    ASSUME TrafficInv, TrafficDated, NEW i \in Inbounds,
           UNCHANGED <<panelCounters, inboundRows>>, slot' \in Nat, slot <= slot',
           \/ cycle' = Absent
           \/ cycle # Absent /\ cycle'.ts = cycle.ts /\ cycle'.total = cycle.total
    PROVE  \E at \in [Slots -> 0..moved'.total[i]], seen \in 0..moved'.total[i] : InboundDatedBy(i, at, seen)'
<1>1. PICK at \in [Slots -> 0..moved.total[i]], seen \in 0..moved.total[i] : InboundDatedBy(i, at, seen)
  BY DEF TrafficDated
<1>2. total' = total /\ moved' = moved /\ resets' = resets /\ inboundRows' = inboundRows
  BY DEF panelCounters
<1>3. RowsOf(inboundRows, i, 0)' = RowsOf(inboundRows, i, 0) /\ RowsDated(i, at)'
  BY <1>1, <1>2 DEF RowsOf, RowsDated, Follows, InboundDatedBy
<1>4. slot \in Nat /\ \A t \in RowsOf(inboundRows, i, 0) : t \in Nat
  BY DatedTypes DEF TrafficInv, TrafficTypeOK, Slots
<1>5. \A t \in RowsOf(inboundRows, i, 0) :
          t <= slot' /\ Follows(inboundRows[i][t], at[t], total[i], moved.total[i])
  BY <1>1, <1>4 DEF InboundDatedBy
<1>6. cycle # Absent => cycle.ts \in Nat /\ cycle.ts <= slot'
  BY <1>1, <1>4, DatedTypes DEF InboundDatedBy, Slots
<1>7. InboundDatedBy(i, at, seen)'
  BY <1>1, <1>2, <1>3, <1>5, <1>6 DEF InboundDatedBy, Follows
<1> QED BY <1>1, <1>2, <1>7

\* So does a client whose rows and baseline stay.
LEMMA ClientKeepsDates ==
    ASSUME TrafficInv, TrafficDated, NEW i \in Inbounds, i \notin torn,
           UNCHANGED <<panelCounters, clientRows>>, baselines' \in {baselines, Absent},
           \/ cycle' = Absent /\ (cycle = Absent \/ i \notin cycle.stored)
           \/ /\ cycle # Absent /\ cycle' # Absent /\ cycle'.used = cycle.used
              /\ i \in cycle'.stored <=> i \in cycle.stored
    PROVE  \E base, seen \in 0..moved'.used[i] : ClientDatedBy(i, base, seen)'
<1>1. PICK base \in 0..moved.used[i], seen \in 0..moved.used[i] : ClientDatedBy(i, base, seen)
  BY DEF TrafficDated
<1>2. used' = used /\ moved' = moved /\ resets' = resets /\ clientRows' = clientRows
  BY DEF panelCounters
<1>3. SumOf(ClientDeltas(i))' = SumOf(ClientDeltas(i))
  BY <1>2 DEF ClientDeltas, RowsOf
<1>4. baselines' # Absent => baselines # Absent /\ baselines' = baselines
  OBVIOUS
<1>5. baselines' # Absent => Follows(baselines[i], base, used[i], moved.used[i])'
  BY <1>1, <1>2, <1>4 DEF ClientDatedBy, Follows
<1>6. ClientDatedBy(i, base, seen)'
  <2>1. CASE cycle' = Absent /\ (cycle = Absent \/ i \notin cycle.stored)
    BY <1>1, <1>3, <1>5, <2>1 DEF ClientDatedBy
  <2>2. CASE /\ cycle # Absent /\ cycle' # Absent /\ cycle'.used = cycle.used
             /\ i \in cycle'.stored <=> i \in cycle.stored
    <3>1. /\ base <= seen /\ Follows(cycle.used[i], seen, used[i], moved.used[i])'
          /\ baselines' # Absent => Follows(baselines[i], base, cycle.used[i], seen)'
      BY <1>1, <1>2, <1>4, <2>2 DEF ClientDatedBy, Follows
    <3>2. SumOf(ClientDeltas(i)) <= IF i \in cycle.stored THEN seen ELSE base
      BY <1>1, <2>2 DEF ClientDatedBy
    <3>3. CASE i \in cycle.stored
      BY <1>3, <1>5, <2>2, <3>1, <3>2, <3>3 DEF ClientDatedBy
    <3>4. CASE i \notin cycle.stored
      BY <1>3, <1>5, <2>2, <3>1, <3>2, <3>4 DEF ClientDatedBy
    <3> QED BY <3>3, <3>4
  <2> QED BY <2>1, <2>2
<1> QED BY <1>1, <1>2, <1>6

\* A cycle begins: it sees the counters as they are.
LEMMA BeginWriteKeepsDates == TrafficInv /\ SlotsInOrder /\ TrafficDated /\ BeginWrite => TrafficDated'
<1> SUFFICES ASSUME TrafficInv, SlotsInOrder, TrafficDated, BeginWrite PROVE TrafficDated'
  OBVIOUS
<1>1. /\ UNCHANGED <<total, used, moved, resets, inboundRows, clientRows, slot, baselines, torn>>
      /\ cycle = Absent
      /\ cycle' = [ts |-> ticked, total |-> total, used |-> used, next |-> 1, client |-> FALSE, stored |-> {}]
  BY DEF BeginWrite, panelCounters, tables
<1>2. cycle'.ts = ticked /\ cycle'.total = total /\ cycle'.used = used /\ cycle'.stored = {}
  BY <1>1
<1>3. /\ slot \in Nat /\ ticked \in Nat /\ ticked <= slot
      /\ \A i \in Inbounds : \A t \in RowsOf(inboundRows, i, 0) : t <= ticked
  BY DEF BeginWrite, SlotsInOrder, TrafficInv, TrafficTypeOK, Slots
<1>4. ASSUME NEW i \in Inbounds
      PROVE  \E at \in [Slots -> 0..moved'.total[i]], seen \in 0..moved'.total[i] : InboundDatedBy(i, at, seen)'
  <2>1. PICK at \in [Slots -> 0..moved.total[i]], seen \in 0..moved.total[i] : InboundDatedBy(i, at, seen)
    BY DEF TrafficDated
  <2>2. moved.total[i] \in Nat /\ total[i] \in Nat
    BY DatedTypes
  <2>3. Follows(total[i], moved.total[i], total[i], moved.total[i])
    BY <2>2 DEF Follows
  <2>4. RowsOf(inboundRows, i, 0)' = RowsOf(inboundRows, i, 0) /\ RowsDated(i, at)'
    BY <1>1, <2>1 DEF RowsOf, RowsDated, Follows, InboundDatedBy
  <2>5. InboundDatedBy(i, at, moved.total[i])'
    BY <1>1, <1>2, <1>3, <2>1, <2>3, <2>4 DEF InboundDatedBy, Follows
  <2>6. moved.total[i] \in 0..moved.total[i]
    BY <2>2
  <2> QED BY <1>1, <2>5, <2>6
<1>5. ASSUME NEW i \in Inbounds, i \notin torn'
      PROVE  \E base, seen \in 0..moved'.used[i] : ClientDatedBy(i, base, seen)'
  <2>1. PICK base \in 0..moved.used[i] : \E seen \in 0..moved.used[i] : ClientDatedBy(i, base, seen)
    BY <1>1, <1>5 DEF TrafficDated
  <2>2. moved.used[i] \in Nat /\ used[i] \in Nat \cup {Absent}
    BY DatedTypes
  <2>3. Follows(used[i], moved.used[i], used[i], moved.used[i])
    BY <2>2, TrafficAssumption DEF Follows
  <2>4. SumOf(ClientDeltas(i))' = SumOf(ClientDeltas(i))
    BY <1>1 DEF ClientDeltas, RowsOf
  <2>5. moved.used[i] \in 0..moved.used[i] /\ base <= moved.used[i]
    BY <2>2
  <2>6. ClientDatedBy(i, base, moved.used[i])'
    BY <1>1, <1>2, <2>1, <2>3, <2>4, <2>5 DEF ClientDatedBy, Follows
  <2> QED BY <1>1, <2>5, <2>6
<1> QED BY <1>1, <1>2, <1>4, <1>5 DEF TrafficDated

\* The baselines move on to what the cycle has seen.
LEMMA TrafficWrittenKeepsDates == TrafficInv /\ TrafficDated /\ TrafficWritten => TrafficDated'
<1> SUFFICES ASSUME TrafficInv, TrafficDated, TrafficWritten PROVE TrafficDated'
  OBVIOUS
<1>1. /\ UNCHANGED <<total, used, moved, resets, inboundRows, clientRows, slot, torn>>
      /\ UNCHANGED panelCounters
      /\ cycle # Absent /\ cycle' = Absent /\ baselines' = cycle.used /\ slot \in Nat
  BY DEF TrafficWritten, NewBaselines, panelCounters, tables, TrafficInv, TrafficTypeOK, Slots
<1>2. ASSUME NEW i \in Inbounds
      PROVE  \E at \in [Slots -> 0..moved'.total[i]], seen \in 0..moved'.total[i] : InboundDatedBy(i, at, seen)'
  <2>1. slot' \in Nat /\ slot <= slot'
    BY <1>1
  <2> QED BY <1>1, <2>1, InboundKeepsDates
<1>3. ASSUME NEW i \in Inbounds, i \notin torn'
      PROVE  \E base, seen \in 0..moved'.used[i] : ClientDatedBy(i, base, seen)'
  <2>1. PICK base \in 0..moved.used[i], seen \in 0..moved.used[i] : ClientDatedBy(i, base, seen)
    BY <1>1, <1>3 DEF TrafficDated
  <2>2. SumOf(ClientDeltas(i))' = SumOf(ClientDeltas(i))
    BY <1>1 DEF ClientDeltas, RowsOf
  <2>3. SumOf(ClientDeltas(i)) <= seen
    <3>1. PICK sum \in Int : sum = SumOf(ClientDeltas(i))
      BY ClientSumType
    <3>2. moved.used[i] \in Nat /\ base <= seen
      BY <1>1, <2>1, DatedTypes DEF ClientDatedBy
    <3>3. sum <= seen \/ sum <= base
      BY <2>1, <3>1 DEF ClientDatedBy
    <3> QED BY <3>1, <3>2, <3>3
  <2>4. ClientDatedBy(i, seen, seen)'
    BY <1>1, <2>1, <2>2, <2>3 DEF ClientDatedBy, Follows
  <2> QED BY <1>1, <2>1, <2>4
<1> QED BY <1>1, <1>2, <1>3 DEF TrafficDated

\* The steps that store nothing and see nothing: the cycle stays or goes.
LEMMA QuietKeepsDates ==
    ASSUME TrafficInv, TrafficDated, slot' \in Nat, slot <= slot',
           UNCHANGED <<panelCounters, tables>>, baselines' \in {baselines, Absent},
           \/ cycle' = cycle /\ torn' = torn
           \/ cycle' = Absent /\ Cut
    PROVE  TrafficDated'
<1>1. UNCHANGED <<inboundRows, clientRows>> /\ UNCHANGED panelCounters /\ UNCHANGED <<moved, resets>>
  BY DEF tables, panelCounters
<1>2. ASSUME NEW i \in Inbounds
      PROVE  \E at \in [Slots -> 0..moved'.total[i]], seen \in 0..moved'.total[i] : InboundDatedBy(i, at, seen)'
  <2>1. cycle' = Absent \/ (cycle # Absent /\ cycle'.ts = cycle.ts /\ cycle'.total = cycle.total)
    OBVIOUS
  <2> QED BY <1>1, <2>1, InboundKeepsDates
<1>3. ASSUME NEW i \in Inbounds, i \notin torn'
      PROVE  \E base, seen \in 0..moved'.used[i] : ClientDatedBy(i, base, seen)'
  <2>1. i \notin torn /\ (cycle' = cycle \/ cycle = Absent \/ i \notin cycle.stored)
    BY <1>3 DEF Cut
  <2>2. \/ cycle' = Absent /\ (cycle = Absent \/ i \notin cycle.stored)
        \/ /\ cycle # Absent /\ cycle' # Absent /\ cycle'.used = cycle.used
           /\ i \in cycle'.stored <=> i \in cycle.stored
    BY <2>1
  <2> QED BY <1>1, <2>1, <2>2, ClientKeepsDates
<1> QED BY <1>1, <1>2, <1>3 DEF TrafficDated

\* The new row's place is what the cycle has seen, after those of all others.
LEMMA InsertInboundKeepsDates == TrafficInv /\ TrafficDated /\ InsertInboundTraffic => TrafficDated'
<1> SUFFICES ASSUME TrafficInv, TrafficDated, InsertInboundTraffic PROVE TrafficDated'
  OBVIOUS
<1>1. PICK i \in Inbounds : i = cycle.next
  BY DEF InsertInboundTraffic
<1>2. PICK ts \in Slots, counter \in Nat : cycle # Absent /\ ts = cycle.ts /\ counter = cycle.total[i]
  BY DatedTypes DEF InsertInboundTraffic
<1>3. /\ UNCHANGED panelCounters /\ UNCHANGED <<total, moved, resets, clientRows, slot, baselines, torn>>
      /\ inboundRows' = [inboundRows EXCEPT ![i][ts] = counter]
  BY <1>1, <1>2 DEF InsertInboundTraffic, panelCounters
<1>4. cycle \in CycleType /\ inboundRows \in [Inbounds -> [Slots -> Nat \cup {Absent}]] /\ slot \in Nat
  BY <1>2 DEF TrafficInv, TrafficTypeOK, Slots
<1>5. /\ cycle' \in CycleType /\ cycle'.ts = ts /\ cycle'.total = cycle.total /\ cycle'.used = cycle.used
      /\ cycle'.stored = cycle.stored /\ cycle'.next = cycle.next
  <2>1. cycle' = [cycle EXCEPT !.client = TRUE]
    BY DEF InsertInboundTraffic
  <2> QED BY <1>2, <1>4, <2>1 DEF CycleType
<1>6. cycle' # Absent
  BY <1>5, AbsentIsNoCycle
<1>7. ASSUME NEW j \in Inbounds
      PROVE  \E at \in [Slots -> 0..moved'.total[j]], seen \in 0..moved'.total[j] : InboundDatedBy(j, at, seen)'
  <2>1. PICK at \in [Slots -> 0..moved.total[j]], seen \in 0..moved.total[j] : InboundDatedBy(j, at, seen)
    BY DEF TrafficDated
  <2>2. CASE j # i
    <3>1. inboundRows'[j] = inboundRows[j]
      BY <1>3, <1>4, <2>2
    <3>2. RowsOf(inboundRows, j, 0)' = RowsOf(inboundRows, j, 0)
      BY <3>1 DEF RowsOf
    <3>3. RowsDated(j, at)'
      BY <1>3, <2>1, <3>1, <3>2 DEF RowsDated, Follows, InboundDatedBy
    <3>4. InboundDatedBy(j, at, seen)'
      BY <1>2, <1>3, <1>5, <2>1, <3>1, <3>2, <3>3 DEF InboundDatedBy, Follows
    <3> QED BY <1>3, <2>1, <3>4
  <2>3. CASE j = i
    <3> DEFINE to == [at EXCEPT ![ts] = seen]
    <3>1. moved.total[i] \in Nat /\ seen \in Nat /\ ts \in 0..MaxSlot /\ Absent \notin Nat
      BY <1>2, <2>1, <2>3, DatedTypes, TrafficAssumption DEF Slots
    <3>2. to \in [Slots -> 0..moved.total[j]] /\ to[ts] = seen /\ \A t \in Slots : t # ts => to[t] = at[t]
      BY <2>1
    <3> HIDE DEF to
    <3>3. inboundRows'[i][ts] = counter /\ \A t \in Slots : t # ts => inboundRows'[i][t] = inboundRows[i][t]
      BY <1>3, <1>4
    <3>4. RowsOf(inboundRows, i, 0)' = RowsOf(inboundRows, i, 0) \cup {ts}
      BY <3>1, <3>3 DEF RowsOf, Slots
    <3>5. \A t \in RowsOf(inboundRows, i, 0) : t \in Slots /\ t \in Nat
      BY DatedTypes DEF Slots
    <3>6. /\ ts <= slot /\ Follows(counter, seen, total[i], moved.total[i])
          /\ \A t \in RowsOf(inboundRows, i, 0) : t <= ts /\ Follows(inboundRows[i][t], at[t], counter, seen)
      BY <1>2, <2>1, <2>3 DEF InboundDatedBy
    <3>7. Follows(counter, seen, counter, seen)
      BY <1>2, <3>1 DEF Follows
    <3>8. ASSUME NEW s \in RowsOf(inboundRows, i, 0)', NEW t \in RowsOf(inboundRows, i, 0)', s < t
          PROVE  Follows(inboundRows'[i][s], to[s], inboundRows'[i][t], to[t])
      <4>1. s # ts /\ s \in RowsOf(inboundRows, i, 0)
        BY <1>2, <3>4, <3>5, <3>6, <3>8 DEF Slots
      <4>2. CASE t = ts
        BY <3>2, <3>3, <3>5, <3>6, <4>1, <4>2
      <4>3. CASE t # ts
        <5>1. t \in RowsOf(inboundRows, i, 0)
          BY <3>4, <4>3
        <5>2. Follows(inboundRows[i][s], at[s], inboundRows[i][t], at[t])
          BY <2>1, <2>3, <3>8, <4>1, <5>1 DEF InboundDatedBy, RowsDated
        <5> QED BY <3>2, <3>3, <3>5, <4>1, <4>3, <5>1, <5>2
      <4> QED BY <4>2, <4>3
    <3>9. RowsDated(i, to)'
      BY <1>3, <3>8 DEF RowsDated, Follows
    <3>10. ASSUME NEW t \in RowsOf(inboundRows, i, 0)'
           PROVE  /\ t <= slot /\ Follows(inboundRows'[i][t], to[t], total[i], moved.total[i])
                  /\ t <= ts /\ Follows(inboundRows'[i][t], to[t], counter, seen)
      <4>1. CASE t = ts
        BY <3>1, <3>2, <3>3, <3>6, <3>7, <4>1
      <4>2. CASE t # ts
        <5>1. t \in RowsOf(inboundRows, i, 0)
          BY <3>4, <4>2
        <5>2. t <= slot /\ Follows(inboundRows[i][t], at[t], total[i], moved.total[i])
          BY <2>1, <2>3, <5>1 DEF InboundDatedBy
        <5> QED BY <3>2, <3>3, <3>5, <3>6, <4>2, <5>1, <5>2
      <4> QED BY <4>1, <4>2
    <3>11. InboundDatedBy(i, to, seen)'
      BY <1>2, <1>3, <1>5, <3>6, <3>9, <3>10 DEF InboundDatedBy, Follows
    <3> QED BY <1>3, <2>1, <2>3, <3>2, <3>11
  <2> QED BY <2>2, <2>3
<1>8. ASSUME NEW j \in Inbounds, j \notin torn'
      PROVE  \E base, seen \in 0..moved'.used[j] : ClientDatedBy(j, base, seen)'
  <2>1. /\ cycle # Absent /\ cycle' # Absent /\ cycle'.used = cycle.used
        /\ j \in cycle'.stored <=> j \in cycle.stored
    BY <1>2, <1>5, <1>6
  <2> QED BY <1>3, <1>8, <2>1, ClientKeepsDates
<1>9. cycle' # Absent => \A j \in cycle'.stored : j < cycle'.next
  BY <1>2, <1>5 DEF TrafficDated
<1> QED BY <1>3, <1>7, <1>8, <1>9 DEF TrafficDated

\* A row that is stored adds no more than its value: the one it replaces goes.
LEMMA ClientSumGrows ==
    ASSUME TrafficInv, NEW i \in Inbounds, NEW ts \in Slots, NEW d \in Nat,
           clientRows' = [clientRows EXCEPT ![i][ts] = d]
    PROVE  SumOf(ClientDeltas(i))' \in Nat /\ SumOf(ClientDeltas(i))' <= d + SumOf(ClientDeltas(i))
<1>1. PICK f, g : f = ClientDeltas(i) /\ g = ClientDeltas(i)'
  OBVIOUS
<1>2. PICK R : R = RowsOf(clientRows, i, 0)
  OBVIOUS
<1>3. SumOf(f) = SumOn(f, R) /\ IsFiniteSet(R) /\ NatsOn(f, R) /\ R \subseteq Slots
  <2>1. 0 \in Slots
    BY TrafficAssumption DEF Slots
  <2> QED BY <1>1, <1>2, <2>1, ClientSumType, RowsRead DEF TrafficInv, TrafficTypeOK
<1>4. clientRows'[i][ts] = d /\ \A t \in Slots : t # ts => clientRows'[i][t] = clientRows[i][t]
  BY DEF TrafficInv, TrafficTypeOK
<1>5. RowsOf(clientRows, i, 0)' = R \cup {ts}
  BY <1>2, <1>4, TrafficAssumption DEF RowsOf, Slots
<1>6. DOMAIN g = R \cup {ts} /\ g[ts] = d /\ \A t \in R : t # ts => g[t] = f[t]
  <2>1. g = [t \in R \cup {ts} |-> clientRows'[i][t]]
    BY <1>1, <1>5 DEF ClientDeltas
  <2>2. f = [t \in R |-> clientRows[i][t]]
    BY <1>1, <1>2 DEF ClientDeltas
  <2> QED BY <1>3, <1>4, <2>1, <2>2
<1>7. PICK Q : Q = R \cup {ts}
  OBVIOUS
<1>8. IsFiniteSet(Q) /\ NatsOn(g, Q) /\ ts \in Q
  <2>1. Q \subseteq Slots
    BY <1>3, <1>7
  <2> QED BY <1>3, <1>6, <1>7, <2>1, SlotsAreFinite DEF NatsOn
<1>9. SumOf(g) = SumOn(g, Q)
  BY <1>6, <1>7 DEF SumOf, SumOn
<1>10. SumOn(g, Q) = d + SumOn(g, Q \ {ts})
  BY <1>6, <1>8, SumTakes
<1>11. SumOn(g, Q \ {ts}) <= SumOn(f, R)
  <2>1. Q \ {ts} \in SUBSET R /\ NatsOn(g, Q \ {ts}) /\ \A t \in Q \ {ts} : g[t] <= f[t]
    BY <1>3, <1>6, <1>7 DEF NatsOn
  <2> QED BY <1>3, <2>1, SumIsMonotonic
<1>12. PICK m \in Nat, n \in Nat : m = SumOn(g, Q \ {ts}) /\ n = SumOn(f, R)
  <2>1. Q \ {ts} \in SUBSET Q /\ R \in SUBSET R
    OBVIOUS
  <2>2. SumOn(g, Q \ {ts}) \in Nat /\ SumOn(f, R) \in Nat
    BY <1>3, <1>8, <2>1, SumType
  <2> QED BY <2>2
<1>13. d + m <= d + n /\ d + m \in Nat
  BY <1>11, <1>12
<1>14. SumOf(ClientDeltas(i))' = SumOf(g)
  BY <1>1
<1> QED BY <1>1, <1>3, <1>9, <1>10, <1>12, <1>13, <1>14

\* What is stored for a client is no more than there was since its baseline.
LEMMA InsertClientKeepsDates == TrafficInv /\ TrafficDated /\ InsertClientTraffic => TrafficDated'
<1> SUFFICES ASSUME TrafficInv, TrafficDated, InsertClientTraffic PROVE TrafficDated'
  OBVIOUS
<1>1. PICK i \in Inbounds, d \in Nat : cycle # Absent /\ i = cycle.next /\ d = ClientDelta(i)
  BY ClientDeltaIsNat DEF InsertClientTraffic, TrafficInv
<1>2. PICK ts \in Slots : ts = cycle.ts
  BY <1>1, DatedTypes
<1>3. /\ UNCHANGED panelCounters
      /\ UNCHANGED <<total, used, moved, resets, inboundRows, slot, baselines, torn>>
      /\ clientRows' = IF d = 0 THEN clientRows ELSE [clientRows EXCEPT ![i][ts] = d]
  BY <1>1, <1>2 DEF InsertClientTraffic, panelCounters
<1>4. cycle \in CycleType /\ slot \in Nat
  BY <1>1 DEF TrafficInv, TrafficTypeOK, Slots
<1>5. /\ cycle' \in CycleType /\ cycle'.ts = ts /\ cycle'.total = cycle.total /\ cycle'.used = cycle.used
      /\ cycle'.stored = (IF d = 0 THEN cycle.stored ELSE cycle.stored \cup {i})
      /\ cycle'.next = i + 1
  <2>1. cycle' = [cycle EXCEPT !.next = i + 1, !.client = FALSE,
                               !.stored = IF d = 0 THEN @ ELSE @ \cup {i}]
    BY <1>1 DEF InsertClientTraffic
  <2>2. i + 1 \in Nat
    BY <1>1, <1>4 DEF CycleType
  <2> QED BY <1>2, <1>4, <2>1, <2>2 DEF CycleType
<1>6. cycle' # Absent
  BY <1>5, AbsentIsNoCycle
<1>7. i \in Nat /\ \A j \in cycle.stored : j \in Nat /\ j < i
  <2>1. i \in Nat /\ \A j \in cycle.stored : j \in Inbounds /\ j < i
    BY <1>1, <1>4 DEF TrafficDated, CycleType
  <2> QED BY <2>1, TrafficAssumption DEF Inbounds
<1>8. \A j \in cycle'.stored : j < cycle'.next
  BY <1>5, <1>7
<1>9. ASSUME NEW j \in Inbounds
      PROVE  \E at \in [Slots -> 0..moved'.total[j]], seen \in 0..moved'.total[j] : InboundDatedBy(j, at, seen)'
  <2>1. slot' \in Nat /\ slot <= slot' /\ cycle'.ts = cycle.ts
    BY <1>2, <1>3, <1>4, <1>5
  <2> QED BY <1>1, <1>3, <1>5, <2>1, InboundKeepsDates
<1>10. ASSUME NEW j \in Inbounds, j \notin torn'
       PROVE  \E base, seen \in 0..moved'.used[j] : ClientDatedBy(j, base, seen)'
  <2>1. CASE d = 0
    BY <1>1, <1>3, <1>5, <1>6, <1>10, <2>1, ClientKeepsDates
  <2>2. CASE d # 0
    <3>1. PICK base \in 0..moved.used[j], seen \in 0..moved.used[j] : ClientDatedBy(j, base, seen)
      BY <1>3, <1>10 DEF TrafficDated
    <3>2. moved.used[j] \in Nat /\ base \in Nat /\ seen \in Nat
      BY <3>1, DatedTypes
    <3>3. /\ baselines' # Absent => Follows(baselines[j], base, used[j], moved.used[j])'
          /\ base <= seen /\ Follows(cycle.used[j], seen, used[j], moved.used[j])'
          /\ baselines' # Absent => Follows(baselines[j], base, cycle.used[j], seen)'
      BY <1>1, <1>3, <1>5, <3>1 DEF ClientDatedBy, Follows
    <3>4. SumOf(ClientDeltas(j))' <= IF j \in cycle'.stored THEN seen ELSE base
      <4>1. CASE j = i
        <5>1. SumOf(ClientDeltas(i)) <= base
          BY <1>7, <3>1, <4>1 DEF ClientDatedBy
        <5>2. SumOf(ClientDeltas(i))' <= d + SumOf(ClientDeltas(i))
          BY <1>3, <2>2, ClientSumGrows
        <5>3. /\ baselines # Absent /\ cycle.used[i] # Absent /\ baselines[i] # Absent
              /\ d = Delta(baselines[i], cycle.used[i])
          BY <1>1, <2>2 DEF ClientDelta
        <5>4. cycle.used[i] \in Nat /\ baselines[i] \in Nat
          BY <1>1, <5>3, DatedTypes
        <5>5. d = cycle.used[i] - baselines[i]
          BY <2>2, <5>3, <5>4 DEF Delta
        <5>6. cycle.used[i] - baselines[i] <= seen - base
          BY <1>1, <3>1, <4>1, <5>3 DEF ClientDatedBy, Follows
        <5>7. PICK sum \in Nat : sum = SumOf(ClientDeltas(i))
          BY ClientSumType
        <5>8. d + sum <= seen
          BY <3>2, <5>1, <5>4, <5>5, <5>6, <5>7
        <5>9. i \in cycle'.stored
          BY <1>5, <2>2
        <5>10. PICK next \in Nat : next = SumOf(ClientDeltas(i))'
          BY <1>3, <2>2, ClientSumGrows
        <5>11. next <= seen
          BY <3>2, <5>2, <5>7, <5>8, <5>10
        <5> QED BY <4>1, <5>9, <5>10, <5>11
      <4>2. CASE j # i
        <5>1. clientRows'[j] = clientRows[j]
          BY <1>3, <2>2, <4>2 DEF TrafficInv, TrafficTypeOK
        <5>2. SumOf(ClientDeltas(j))' = SumOf(ClientDeltas(j))
          BY <5>1 DEF ClientDeltas, RowsOf
        <5>3. SumOf(ClientDeltas(j)) <= IF j \in cycle.stored THEN seen ELSE base
          BY <1>1, <3>1 DEF ClientDatedBy
        <5>4. j \in cycle'.stored <=> j \in cycle.stored
          BY <1>5, <4>2
        <5>5. CASE j \in cycle.stored
          BY <5>2, <5>3, <5>4, <5>5
        <5>6. CASE j \notin cycle.stored
          BY <5>2, <5>3, <5>4, <5>6
        <5> QED BY <5>5, <5>6
      <4> QED BY <4>1, <4>2
    <3>5. ClientDatedBy(j, base, seen)'
      <4>1. /\ cycle'.used = cycle.used /\ used' = used /\ moved' = moved /\ baselines' = baselines
        BY <1>3, <1>5
      <4>2. CASE j \in cycle'.stored
        BY <1>6, <3>3, <3>4, <4>1, <4>2 DEF ClientDatedBy
      <4>3. CASE j \notin cycle'.stored
        BY <1>6, <3>3, <3>4, <4>1, <4>3 DEF ClientDatedBy
      <4> QED BY <4>2, <4>3
    <3> QED BY <1>3, <3>1, <3>5
  <2> QED BY <2>1, <2>2
<1> QED BY <1>3, <1>8, <1>9, <1>10 DEF TrafficDated

LEMMA TrafficInitDated == TrafficInit => TrafficDated
<1> SUFFICES ASSUME TrafficInit PROVE TrafficDated
  OBVIOUS
<1>1. /\ total = [i \in Inbounds |-> 0] /\ used = [i \in Inbounds |-> 0]
      /\ moved.total = total /\ moved.used = used
      /\ resets = 0 /\ cycle = Absent /\ baselines = Absent
  BY DEF TrafficInit
<1>2. ASSUME NEW i \in Inbounds
      PROVE  RowsOf(inboundRows, i, 0) = {} /\ RowsOf(clientRows, i, 0) = {}
  <2>1. \A t \in 0..MaxSlot : inboundRows[i][t] = Absent /\ clientRows[i][t] = Absent
    BY DEF TrafficInit, Slots
  <2> QED BY <2>1 DEF RowsOf
<1>3. ASSUME NEW i \in Inbounds
      PROVE  \E at \in [Slots -> 0..moved.total[i]], seen \in 0..moved.total[i] : InboundDatedBy(i, at, seen)
  <2> DEFINE at == [t \in Slots |-> 0]
  <2>1. moved.total[i] = 0 /\ 0 \in 0..0 /\ at \in [Slots -> 0..0]
    BY <1>1
  <2> HIDE DEF at
  <2>2. InboundDatedBy(i, at, 0)
    BY <1>1, <1>2 DEF InboundDatedBy, RowsDated
  <2> QED BY <2>1, <2>2
<1>4. ASSUME NEW i \in Inbounds
      PROVE  \E base, seen \in 0..moved.used[i] : ClientDatedBy(i, base, seen)
  <2>1. moved.used[i] = 0 /\ 0 \in 0..0
    BY <1>1
  <2>2. SumOf(ClientDeltas(i)) = 0
    <3>1. DOMAIN ClientDeltas(i) = {}
      BY <1>2 DEF ClientDeltas
    <3>2. SumOf(ClientDeltas(i)) = SumOn(ClientDeltas(i), {})
      BY <3>1 DEF SumOf, SumOn
    <3> QED BY <3>2, SumUnfolds, FS_EmptySet
  <2>3. ClientDatedBy(i, 0, 0)
    BY <1>1, <2>2 DEF ClientDatedBy
  <2> QED BY <2>1, <2>3
<1> QED BY <1>1, <1>3, <1>4 DEF TrafficDated

\* Neither a tick that waited nor a cycle that was late dates a row before one
\* that is there.
THEOREM SlotsAreInOrder == TrafficSpec => []SlotsInOrder
<1>1. TrafficInit => SlotsInOrder
  <2> SUFFICES ASSUME TrafficInit PROVE SlotsInOrder
    OBVIOUS
  <2>1. \A i \in Inbounds : RowsOf(inboundRows, i, 0) = {}
    BY DEF TrafficInit, RowsOf, Slots
  <2> QED BY <2>1 DEF TrafficInit, SlotsInOrder
<1>2. TrafficInv /\ SlotsInOrder /\ [TrafficNext]_trafficVars => SlotsInOrder'
  <2> SUFFICES ASSUME TrafficInv, SlotsInOrder, [TrafficNext]_trafficVars PROVE SlotsInOrder'
    OBVIOUS
  <2>1. /\ slot \in Nat /\ (ticked # Absent => ticked \in Nat) /\ Absent \notin Int
        /\ cycle # Absent => cycle.ts \in Slots /\ cycle.ts \in Nat
        /\ \A i \in Inbounds : \A t \in RowsOf(inboundRows, i, 0) : t \in Nat
    BY TrafficAssumption DEF TrafficInv, TrafficTypeOK, CycleType, Slots, RowsOf
  <2>2. CASE NextSlot
    <3>1. /\ slot' = slot + 1 /\ UNCHANGED <<inboundRows, cycle>>
          /\ ticked' = ticked \/ ticked' = slot + 1
          /\ ticked' = ticked \/ ticked = Absent
      BY <2>2 DEF NextSlot, tables
    <3>2. \A i \in Inbounds : RowsOf(inboundRows, i, 0)' = RowsOf(inboundRows, i, 0)
      BY <3>1 DEF RowsOf
    <3>3. ASSUME NEW i \in Inbounds, NEW t \in RowsOf(inboundRows, i, 0)
          PROVE  t <= slot + 1 /\ (ticked' # Absent => t <= ticked')
      <4>1. t \in Nat /\ t <= slot /\ (ticked # Absent => t <= ticked)
        BY <2>1 DEF SlotsInOrder
      <4> QED BY <2>1, <3>1, <4>1
    <3>4. cycle # Absent => cycle.ts <= slot + 1 /\ (ticked' # Absent => cycle.ts <= ticked')
      <4>1. cycle # Absent => cycle.ts \in Nat /\ cycle.ts <= slot /\ (ticked # Absent => cycle.ts <= ticked)
        BY <2>1 DEF SlotsInOrder
      <4> QED BY <2>1, <3>1, <4>1
    <3>5. ticked' # Absent => ticked' <= slot + 1
      BY <2>1, <3>1 DEF SlotsInOrder
    <3> QED BY <3>1, <3>2, <3>3, <3>4, <3>5 DEF SlotsInOrder
  <2>3. CASE StartTraffic
    BY <2>1, <2>3 DEF StartTraffic, SlotsInOrder, RowsOf, tables
  <2>4. CASE BeginWrite
    <3>1. UNCHANGED <<slot, inboundRows>> /\ ticked # Absent /\ ticked' = Absent /\ cycle'.ts = ticked
      BY <2>4 DEF BeginWrite, tables
    <3> QED BY <2>1, <3>1 DEF SlotsInOrder, RowsOf
  <2>5. CASE InsertInboundTraffic
    <3>1. /\ cycle # Absent /\ UNCHANGED <<slot, ticked>> /\ cycle'.ts = cycle.ts
          /\ inboundRows' = [inboundRows EXCEPT ![cycle.next][cycle.ts] = cycle.total[cycle.next]]
      BY <2>5 DEF InsertInboundTraffic, TrafficInv, CycleType
    <3>2. ASSUME NEW i \in Inbounds, NEW t \in RowsOf(inboundRows, i, 0)'
          PROVE  t \in RowsOf(inboundRows, i, 0) \/ t = cycle.ts
      BY <3>1 DEF RowsOf, TrafficInv, TrafficTypeOK, Slots
    <3> QED BY <2>1, <3>1, <3>2 DEF SlotsInOrder
  <2>6. CASE InsertClientTraffic
    <3>1. UNCHANGED <<slot, ticked, inboundRows>> /\ (cycle # Absent => cycle'.ts = cycle.ts) /\ cycle # Absent
      BY <2>6 DEF InsertClientTraffic, TrafficInv, CycleType
    <3> QED BY <3>1 DEF SlotsInOrder, RowsOf
  <2>7. CASE PanelCounts \/ NoList \/ StopTraffic \/ InsertTrafficFails \/ TrafficWritten \/ UNCHANGED trafficVars
    <3>1. UNCHANGED <<slot, inboundRows>> /\ cycle' \in {cycle, Absent} /\ ticked' \in {ticked, Absent}
      BY <2>7 DEF PanelCounts, NoList, StopTraffic, InsertTrafficFails, TrafficWritten, trafficVars, tables
    <3> QED BY <3>1 DEF SlotsInOrder, RowsOf
  <2> QED BY <2>2, <2>3, <2>4, <2>5, <2>6, <2>7 DEF TrafficNext
<1> QED BY <1>1, <1>2, TrafficInvariant, PTL DEF TrafficSpec

\* The inductive invariant of the traffic: every reading of a counter has its
\* place in the traffic there was, and a client's rows add up to no more than
\* there was at its baseline, unless a failed cycle had stored one of them.
THEOREM DatedInvariant == TrafficSpec => []TrafficDated
<1>1. TrafficInit => TrafficDated
  BY TrafficInitDated
<1>2. TrafficInv /\ SlotsInOrder /\ TrafficDated /\ [TrafficNext]_trafficVars => TrafficDated'
  <2> SUFFICES ASSUME TrafficInv, SlotsInOrder, TrafficDated, [TrafficNext]_trafficVars PROVE TrafficDated'
    OBVIOUS
  <2>1. slot \in Nat /\ slot + 1 \in Nat
    BY DEF TrafficInv, TrafficTypeOK, Slots
  <2>2. CASE NextSlot
    <3>1. /\ slot' \in Nat /\ slot <= slot' /\ UNCHANGED <<panelCounters, tables>>
          /\ baselines' = baselines /\ cycle' = cycle /\ torn' = torn
      BY <2>1, <2>2 DEF NextSlot
    <3> QED BY <3>1, QuietKeepsDates
  <2>3. CASE StartTraffic \/ NoList \/ UNCHANGED trafficVars
    <3>1. /\ slot' \in Nat /\ slot <= slot' /\ UNCHANGED <<panelCounters, tables>>
          /\ baselines' = baselines /\ cycle' = cycle /\ torn' = torn
      BY <2>1, <2>3 DEF StartTraffic, NoList, trafficVars
    <3> QED BY <3>1, QuietKeepsDates
  <2>4. CASE StopTraffic \/ InsertTrafficFails
    <3>1. /\ slot' \in Nat /\ slot <= slot' /\ UNCHANGED <<panelCounters, tables>>
          /\ baselines' \in {baselines, Absent} /\ cycle' = Absent /\ Cut
      BY <2>1, <2>4 DEF StopTraffic, InsertTrafficFails
    <3> QED BY <3>1, QuietKeepsDates
  <2> QED BY <2>2, <2>3, <2>4, PanelCountsKeepsDates, BeginWriteKeepsDates, InsertInboundKeepsDates,
             InsertClientKeepsDates, TrafficWrittenKeepsDates DEF TrafficNext
<1> QED BY <1>1, <1>2, TrafficInvariant, SlotsAreInOrder, PTL DEF TrafficSpec

\* The statistics of an inbound show no more traffic than there was, and all
\* of it between two rows if no counter started again, whatever the range and
\* the buckets they are read with, and whatever stopped or failed between.
THEOREM InboundTraffic == TrafficSpec => []InboundTrafficIsReal
BY TrafficInvariant, DatedInvariant, DatedInboundsAreReal, PTL

\* The statistics of a client show no more traffic than it had, unless a cycle
\* failed after it had stored the client's row.
THEOREM ClientTraffic == TrafficSpec => []ClientTrafficIsReal
BY TrafficInvariant, DatedInvariant, DatedClientsAreReal, PTL

=============================================================================
