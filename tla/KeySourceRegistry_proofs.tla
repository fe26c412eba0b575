---------------------- MODULE KeySourceRegistry_proofs ----------------------
(***************************************************************************)
(* RegistryInv is an inductive invariant of KeySourceRegistry for any sets *)
(* of ids, identities, links and workers; the properties the runs check    *)
(* follow from it.                                                         *)
(***************************************************************************)
EXTENDS KeySourceRegistry, TLAPS

\* A well-typed record keeps its type when a handler changes one field.
LEMMA RecordUpdates ==
    ASSUME NEW rec \in KeySource
    PROVE  /\ \A link \in Link : [rec EXCEPT !.cached = link] \in KeySource
           /\ \A r \in TestResult : [rec EXCEPT !.lastTest = r] \in KeySource
           /\ rec = [target |-> rec.target, cached |-> rec.cached, lastTest |-> rec.lastTest]
           /\ rec.target \in Targets
BY DEF KeySource

\* What the proofs need of a state: records are typed, identities match.
LEMMA SourcesFacts ==
    ASSUME RegistryInv, NEW id \in DOMAIN sources
    PROVE  /\ id \in Ids
           /\ sources[id] \in KeySource
           /\ id \in DOMAIN identity
           /\ sources[id].target = identity[id]
           /\ identity[id] \in Targets
BY DEF RegistryInv, TypeOK, IsPartial, RecordsMatchIssue, WellFormed

LEMMA CopyFacts ==
    ASSUME RegistryInv, NEW w \in Workers, NEW id \in DOMAIN job[w].copies
    PROVE  /\ id \in Ids
           /\ job[w].copies[id] \in KeySource
           /\ id \in DOMAIN identity
           /\ job[w].copies[id].target = identity[id]
           /\ job[w].copies[id].cached # None => job[w].copies[id].cached.target = identity[id]
BY DEF RegistryInv, TypeOK, IsJob, IsPartial, RecordsMatchIssue, WellFormed

\* Writing back a whole record changes neither the ids of the file nor, for a
\* record that carries the identity of its id, any identity.
LEMMA UpdatePreserves ==
    ASSUME RegistryInv, NEW id \in Ids, NEW rec \in KeySource,
           id \in DOMAIN identity, rec.target = identity[id],
           rec.cached # None => rec.cached.target = identity[id],
           sources' = UpdateKeySource(rec, id), UNCHANGED identity
    PROVE  /\ IsPartial(sources', Ids, KeySource)
           /\ WellFormed(sources)'
           /\ UniqueTargets'
           /\ DOMAIN sources' = DOMAIN sources
<1>1. DOMAIN sources' = DOMAIN sources
  BY DEF UpdateKeySource
<1>2. \A i \in DOMAIN sources' : sources'[i] = IF i = id THEN rec ELSE sources[i]
  BY DEF UpdateKeySource
<1>3. IsPartial(sources', Ids, KeySource)
  BY DEF UpdateKeySource, RegistryInv, TypeOK, IsPartial
<1>4. WellFormed(sources)'
  BY <1>1, <1>2 DEF WellFormed, RegistryInv, RecordsMatchIssue
<1>5. \A i \in DOMAIN sources : sources'[i].target = sources[i].target
  BY <1>1, <1>2, SourcesFacts
<1>6. UniqueTargets'
  BY <1>1, <1>5 DEF UniqueTargets, RegistryInv
<1> QED BY <1>1, <1>3, <1>4, <1>6

\* A handler that ends, or that waits with copies of its own, leaves the other
\* handlers' copies alone.
LEMMA JobPreserves ==
    ASSUME RegistryInv, NEW w \in Workers, NEW phase \in Phase, NEW copies,
           IsPartial(copies, Ids, KeySource), WellFormed(copies),
           job' = [job EXCEPT ![w] = [phase |-> phase, copies |-> copies]],
           UNCHANGED identity
    PROVE  /\ DOMAIN job' = Workers
           /\ job' = [v \in Workers |-> job'[v]]
           /\ \A v \in Workers : IsJob(job'[v])
           /\ \A v \in Workers : WellFormed(job[v].copies)'
<1>1. /\ DOMAIN job' = Workers
      /\ job' = [v \in Workers |-> job'[v]]
      /\ \A v \in Workers : job'[v] = IF v = w THEN [phase |-> phase, copies |-> copies] ELSE job[v]
  BY DEF RegistryInv, TypeOK
<1>2. IsJob([phase |-> phase, copies |-> copies])
  BY DEF IsJob
<1>3. \A v \in Workers : IsJob(job'[v])
  BY <1>1, <1>2 DEF RegistryInv, TypeOK
<1>4. \A v \in Workers : WellFormed(job[v].copies)'
  BY <1>1 DEF WellFormed, RegistryInv, RecordsMatchIssue
<1> QED BY <1>1, <1>3, <1>4

LEMMA NoCopiesFacts == IsPartial(NoCopies, Ids, KeySource) /\ WellFormed(NoCopies)
BY DEF NoCopies, IsPartial, WellFormed

LEMMA FinishPreserves ==
    ASSUME RegistryInv, NEW w \in Workers, Finish(w), UNCHANGED identity
    PROVE  /\ DOMAIN job' = Workers
           /\ job' = [v \in Workers |-> job'[v]]
           /\ \A v \in Workers : IsJob(job'[v])
           /\ \A v \in Workers : WellFormed(job[v].copies)'
<1>1. "idle" \in Phase BY DEF Phase
<1> QED BY <1>1, NoCopiesFacts, JobPreserves, Zenon DEF Finish, IdleJob

-----------------------------------------------------------------------------
(* One lemma per group of actions: the group preserves RegistryInv. *)

LEMMA InitEstablishes == Init => RegistryInv
<1> SUFFICES ASSUME Init PROVE RegistryInv
  OBVIOUS
<1>1. IsJob(IdleJob)
  BY NoCopiesFacts DEF IsJob, IdleJob, Phase
<1>2. TypeOK
  BY <1>1 DEF Init, TypeOK, NoCopies, IsPartial
<1>3. RecordsMatchIssue
  BY DEF Init, RecordsMatchIssue, WellFormed, IdleJob, NoCopies
<1>4. UniqueTargets
  BY DEF Init, UniqueTargets, NoCopies
<1> QED BY <1>2, <1>3, <1>4 DEF RegistryInv

LEMMA CreatePreserves ==
    ASSUME RegistryInv, NEW t \in Targets, Create(t)
    PROVE  RegistryInv'
<1> DEFINE new == [target |-> t, cached |-> None, lastTest |-> None]
<1>1. PICK id \in FreshIds :
        /\ sources' = [i \in DOMAIN sources \cup {id} |-> IF i = id THEN new ELSE sources[i]]
        /\ identity' = [i \in DOMAIN identity \cup {id} |-> IF i = id THEN t ELSE identity[i]]
  BY DEF Create
<1>2. new \in KeySource /\ id \in Ids /\ id \notin DOMAIN identity /\ UNCHANGED job
  BY DEF KeySource, FreshIds, Create
<1>3. IsPartial(sources', Ids, KeySource) /\ IsPartial(identity', Ids, Targets)
  BY <1>1, <1>2 DEF RegistryInv, TypeOK, IsPartial
<1>4. TypeOK'
  BY <1>2, <1>3 DEF RegistryInv, TypeOK
\* The new id is unknown to the file and to every handler, so their records
\* still match.
<1>5. \A i \in DOMAIN identity : i \in DOMAIN identity' /\ identity'[i] = identity[i]
  BY <1>1, <1>2
<1>6. WellFormed(sources)'
  BY <1>1, <1>2, <1>5 DEF WellFormed, RegistryInv, RecordsMatchIssue
<1>7. \A w \in Workers : WellFormed(job[w].copies)'
  BY <1>2, <1>5 DEF WellFormed, RegistryInv, RecordsMatchIssue
<1>8. UniqueTargets'
  BY <1>1, <1>2 DEF UniqueTargets, RegistryInv, Create, IsDuplicate
<1> QED BY <1>4, <1>6, <1>7, <1>8 DEF RegistryInv, RecordsMatchIssue

\* Handlers that only read: the copy they take carries what the file holds.
LEMMA StartPreserves ==
    ASSUME RegistryInv, NEW w \in Workers, NEW id \in Ids, NEW phase \in Phase,
           Start(w, phase, id)
    PROVE  RegistryInv'
<1>1. id \in DOMAIN sources /\ sources' = sources /\ identity' = identity
  BY DEF Start
<1>2. IsPartial(Only(id, sources[id]), Ids, KeySource) /\ WellFormed(Only(id, sources[id]))
  BY <1>1, SourcesFacts DEF IsPartial, Only, WellFormed, RegistryInv, RecordsMatchIssue
<1>3. job' = [job EXCEPT ![w] = [phase |-> phase, copies |-> Only(id, sources[id])]]
  BY DEF Start
<1>4. /\ DOMAIN job' = Workers
      /\ job' = [v \in Workers |-> job'[v]]
      /\ \A v \in Workers : IsJob(job'[v])
      /\ \A v \in Workers : WellFormed(job[v].copies)'
  BY <1>1, <1>2, <1>3, JobPreserves
<1> QED
  BY <1>1, <1>4 DEF RegistryInv, TypeOK, RecordsMatchIssue, WellFormed, UniqueTargets

LEMMA SaveFetchedPreserves ==
    ASSUME RegistryInv, NEW w \in Workers, NEW id \in Ids, SaveFetched(w, id)
    PROVE  RegistryInv'
<1> DEFINE copy == job[w].copies[id]
<1>1. PICK g \in Gens :
        sources' = UpdateKeySource([copy EXCEPT !.cached = [target |-> copy.target, gen |-> g]], id)
  BY DEF SaveFetched
<1> DEFINE link == [target |-> copy.target, gen |-> g]
           rec == [copy EXCEPT !.cached = link]
<1>2. id \in DOMAIN job[w].copies /\ Finish(w) /\ identity' = identity
  BY DEF SaveFetched
<1>3. copy \in KeySource /\ id \in DOMAIN identity /\ copy.target = identity[id]
  BY <1>2, CopyFacts
<1>4. link \in Link /\ link.target = identity[id]
  BY <1>3, RecordUpdates DEF Link
<1>5. rec \in KeySource /\ rec.target = identity[id] /\ rec.cached.target = identity[id]
  BY <1>3, <1>4, RecordUpdates DEF KeySource
<1>6. IsPartial(sources', Ids, KeySource) /\ WellFormed(sources)' /\ UniqueTargets'
  BY <1>1, <1>2, <1>3, <1>5, UpdatePreserves
<1> QED
  BY <1>2, <1>6, FinishPreserves DEF RegistryInv, TypeOK, RecordsMatchIssue

LEMMA SaveTestedPreserves ==
    ASSUME RegistryInv, NEW w \in Workers, NEW id \in Ids, SaveTested(w, id)
    PROVE  RegistryInv'
<1> DEFINE copy == job[w].copies[id]
<1>1. PICK r \in TestResult : sources' = UpdateKeySource([copy EXCEPT !.lastTest = r], id)
  BY DEF SaveTested, TestResult
<1> DEFINE rec == [copy EXCEPT !.lastTest = r]
<1>2. id \in DOMAIN job[w].copies /\ Finish(w) /\ identity' = identity
  BY DEF SaveTested
<1>3. /\ copy \in KeySource /\ id \in DOMAIN identity /\ copy.target = identity[id]
      /\ copy.cached # None => copy.cached.target = identity[id]
  BY <1>2, CopyFacts
<1>4. rec \in KeySource /\ rec.target = identity[id] /\ rec.cached = copy.cached
  BY <1>3, RecordUpdates DEF KeySource
<1>5. IsPartial(sources', Ids, KeySource) /\ WellFormed(sources)' /\ UniqueTargets'
  BY <1>1, <1>2, <1>3, <1>4, UpdatePreserves
<1> QED
  BY <1>2, <1>5, FinishPreserves DEF RegistryInv, TypeOK, RecordsMatchIssue

LEMMA TestGotLinkPreserves ==
    ASSUME RegistryInv, NEW w \in Workers, NEW id \in Ids, TestGotLink(w, id)
    PROVE  RegistryInv'
<1> DEFINE copy == job[w].copies[id]
           rec(g) == [copy EXCEPT !.cached = [target |-> copy.target, gen |-> g]]
<1>1. PICK g \in Gens :
        job' = [job EXCEPT ![w] = [phase |-> "probe", copies |-> Only(id, rec(g))]]
  BY DEF TestGotLink
<1>2. id \in DOMAIN job[w].copies /\ sources' = sources /\ identity' = identity
  BY DEF TestGotLink
<1>3. copy \in KeySource /\ id \in DOMAIN identity /\ copy.target = identity[id]
  BY <1>2, CopyFacts
<1>4. rec(g) \in KeySource /\ rec(g).target = identity[id] /\ rec(g).cached.target = identity[id]
  BY <1>3 DEF KeySource, Link
<1>5. IsPartial(Only(id, rec(g)), Ids, KeySource) /\ WellFormed(Only(id, rec(g)))
  BY <1>3, <1>4 DEF IsPartial, Only, WellFormed
<1>6. "probe" \in Phase
  BY DEF Phase
<1>7. /\ DOMAIN job' = Workers
      /\ job' = [v \in Workers |-> job'[v]]
      /\ \A v \in Workers : IsJob(job'[v])
      /\ \A v \in Workers : WellFormed(job[v].copies)'
  BY <1>1, <1>2, <1>5, <1>6, JobPreserves
<1> QED
  BY <1>2, <1>7 DEF RegistryInv, TypeOK, RecordsMatchIssue, WellFormed, UniqueTargets

LEMMA GiveUpPreserves ==
    ASSUME RegistryInv, NEW w \in Workers, GiveUp(w)
    PROVE  RegistryInv'
<1>1. Finish(w) /\ sources' = sources /\ identity' = identity
  BY DEF GiveUp
<1> QED
  BY <1>1, FinishPreserves DEF RegistryInv, TypeOK, RecordsMatchIssue, WellFormed, UniqueTargets

LEMMA BatchPreserves ==
    ASSUME RegistryInv, NEW w \in Workers, StartBatch(w) \/ SaveBatch(w)
    PROVE  RegistryInv'
<1>1. CASE StartBatch(w)
  <2>1. PICK S \in SUBSET DOMAIN sources :
          job' = [job EXCEPT ![w] = [phase |-> "batch", copies |-> [id \in S |-> sources[id]]]]
    BY <1>1 DEF StartBatch
  <2>2. sources' = sources /\ identity' = identity /\ "batch" \in Phase
    BY <1>1 DEF StartBatch, Phase
  <2>3. IsPartial([id \in S |-> sources[id]], Ids, KeySource)
    BY DEF RegistryInv, TypeOK, IsPartial
  <2>4. WellFormed([id \in S |-> sources[id]])
    BY DEF RegistryInv, RecordsMatchIssue, WellFormed
  <2>5. /\ DOMAIN job' = Workers
        /\ job' = [v \in Workers |-> job'[v]]
        /\ \A v \in Workers : IsJob(job'[v])
        /\ \A v \in Workers : WellFormed(job[v].copies)'
    BY <2>1, <2>2, <2>3, <2>4, JobPreserves
  <2> QED
    BY <2>2, <2>5 DEF RegistryInv, TypeOK, RecordsMatchIssue, WellFormed, UniqueTargets
<1>2. CASE SaveBatch(w)
  <2>1. PICK R \in SUBSET DOMAIN job[w].copies : \E gen \in [R -> Gens] :
          sources' = UpdateKeySourceCaches(
                       [id \in R |-> [target |-> job[w].copies[id].target, gen |-> gen[id]]])
    BY <1>2 DEF SaveBatch
  <2>0. PICK gen \in [R -> Gens] :
          sources' = UpdateKeySourceCaches(
                       [id \in R |-> [target |-> job[w].copies[id].target, gen |-> gen[id]]])
    BY <2>1
  <2> DEFINE link(id) == [target |-> job[w].copies[id].target, gen |-> gen[id]]
  <2>2. Finish(w) /\ identity' = identity
    BY <1>2 DEF SaveBatch
  <2>3. \A id \in R : link(id) \in Link /\ link(id).target = identity[id]
    BY CopyFacts, SourcesFacts DEF Link, KeySource
  <2>4. DOMAIN sources' = DOMAIN sources
    BY <2>0 DEF UpdateKeySourceCaches
  <2>5. \A i \in DOMAIN sources :
          sources'[i] = IF i \in R THEN [sources[i] EXCEPT !.cached = link(i)] ELSE sources[i]
    BY <2>0 DEF UpdateKeySourceCaches
  <2>6. \A i \in DOMAIN sources :
          /\ sources'[i] \in KeySource
          /\ sources'[i].target = sources[i].target
          /\ sources'[i].cached # None => sources'[i].cached.target = identity[i]
    <3> SUFFICES ASSUME NEW i \in DOMAIN sources
                 PROVE  /\ sources'[i] \in KeySource
                        /\ sources'[i].target = sources[i].target
                        /\ sources'[i].cached # None => sources'[i].cached.target = identity[i]
      OBVIOUS
    <3>1. sources[i] \in KeySource /\ sources[i].target = identity[i]
      BY SourcesFacts
    <3>2. sources[i].cached # None => sources[i].cached.target = identity[i]
      BY DEF RegistryInv, RecordsMatchIssue, WellFormed
    <3>3. CASE i \in R
      <4>1. sources'[i] = [sources[i] EXCEPT !.cached = link(i)]
        BY <3>3, <2>5
      <4>2. link(i) \in Link /\ link(i).target = identity[i]
        BY <3>3, <2>3
      <4> HIDE DEF link
      <4> QED BY <4>1, <4>2, <3>1 DEF KeySource
    <3>4. CASE i \notin R
      BY <3>1, <3>2, <3>4, <2>5
    <3> QED BY <3>3, <3>4
  <2>7. IsPartial(sources', Ids, KeySource)
    <3>1. sources' = [i \in DOMAIN sources |-> sources'[i]]
      BY <2>1 DEF UpdateKeySourceCaches
    <3> QED BY <2>4, <2>6, <3>1 DEF RegistryInv, TypeOK, IsPartial
  <2>8. WellFormed(sources)' /\ UniqueTargets'
    BY <2>2, <2>4, <2>6, SourcesFacts DEF RegistryInv, WellFormed, UniqueTargets
  <2> QED
    BY <2>2, <2>7, <2>8, FinishPreserves DEF RegistryInv, TypeOK, RecordsMatchIssue
<1> QED BY <1>1, <1>2

LEMMA FinishDeletePreserves ==
    ASSUME RegistryInv, NEW w \in Workers, NEW id \in Ids, FinishDelete(w, id)
    PROVE  RegistryInv'
<1>1. sources' = [i \in DOMAIN sources \ {id} |-> sources[i]] /\ Finish(w) /\ identity' = identity
  BY DEF FinishDelete, DeleteKeySource
<1>2. IsPartial(sources', Ids, KeySource)
  BY <1>1 DEF RegistryInv, TypeOK, IsPartial
<1>3. WellFormed(sources)' /\ UniqueTargets'
  BY <1>1 DEF RegistryInv, RecordsMatchIssue, WellFormed, UniqueTargets
<1> QED
  BY <1>1, <1>2, <1>3, FinishPreserves DEF RegistryInv, TypeOK, RecordsMatchIssue

LEMMA RestartPreserves == RegistryInv /\ Restart => RegistryInv'
<1> SUFFICES ASSUME RegistryInv, Restart PROVE RegistryInv'
  OBVIOUS
<1>1. sources' = sources /\ identity' = identity /\ job' = [w \in Workers |-> IdleJob]
  BY DEF Restart
<1>2. IsJob(IdleJob) /\ WellFormed(IdleJob.copies)
  BY NoCopiesFacts DEF IsJob, IdleJob, Phase
<1> QED
  BY <1>1, <1>2 DEF RegistryInv, TypeOK, RecordsMatchIssue, WellFormed, UniqueTargets

LEMMA NextPreserves == RegistryInv /\ [Next]_vars => RegistryInv'
<1> SUFFICES ASSUME RegistryInv, [Next]_vars PROVE RegistryInv'
  OBVIOUS
<1>1. ASSUME NEW t \in Targets, Create(t) PROVE RegistryInv'
  BY <1>1, CreatePreserves
<1>2. ASSUME NEW w \in Workers, NEW id \in Ids, OnSource(w, id) PROVE RegistryInv'
  <2>1. ASSUME NEW phase \in Phase, Start(w, phase, id) PROVE RegistryInv'
    BY <2>1, StartPreserves
  <2>2. {"fetch", "test", "probe", "cascade"} \subseteq Phase
    BY DEF Phase
  <2>3. CASE StartFetch(w, id)
    BY <2>1, <2>2, <2>3 DEF StartFetch
  <2>4. CASE StartTest(w, id)
    BY <2>1, <2>2, <2>4 DEF StartTest
  <2>5. CASE StartDelete(w, id)
    BY <2>1, <2>2, <2>5 DEF StartDelete
  <2> QED
    BY <1>2, <2>3, <2>4, <2>5, SaveFetchedPreserves, SaveTestedPreserves,
       TestGotLinkPreserves, FinishDeletePreserves DEF OnSource
<1>3. ASSUME NEW w \in Workers, GiveUp(w) \/ StartBatch(w) \/ SaveBatch(w)
      PROVE  RegistryInv'
  BY <1>3, GiveUpPreserves, BatchPreserves
<1>4. CASE Restart
  BY <1>4, RestartPreserves
<1>5. CASE UNCHANGED vars
  BY <1>5 DEF vars, RegistryInv, TypeOK, IsPartial, RecordsMatchIssue, WellFormed, UniqueTargets
<1> QED
  BY <1>1, <1>2, <1>3, <1>4, <1>5 DEF Next

-----------------------------------------------------------------------------
(* The theorems. *)

\* The inductive invariant holds in every reachable state.
THEOREM RegistryInvariant == Spec => []RegistryInv
BY InitEstablishes, NextPreserves, PTL DEF Spec

\* Every state of key-sources.json and of the handlers is well typed.
THEOREM TypeCorrect == Spec => []TypeOK
<1>1. RegistryInv => TypeOK
  BY DEF RegistryInv
<1> QED BY <1>1, RegistryInvariant, PTL

\* Every record, in the file and in the memory of a handler that waits for a
\* panel, carries the identity its id was issued for, and a cached link of it.
THEOREM RecordsMatch == Spec => []RecordsMatchIssue
<1>1. RegistryInv => RecordsMatchIssue
  BY DEF RegistryInv
<1> QED BY <1>1, RegistryInvariant, PTL

\* No interleaving of creations, deletions and late whole-record writes leaves
\* two records of the same panel client or the same manual link.
THEOREM DedupHolds == Spec => []UniqueTargets
<1>1. RegistryInv => UniqueTargets
  BY DEF RegistryInv
<1> QED BY <1>1, RegistryInvariant, PTL

\* A cached link always belongs to the client and inbound of its record.
THEOREM CachedLinksAreOwn == Spec => []CachedLinkIsOwn
<1>1. RegistryInv => CachedLinkIsOwn
  BY SourcesFacts DEF CachedLinkIsOwn, RegistryInv, RecordsMatchIssue, WellFormed
<1> QED BY <1>1, RegistryInvariant, PTL

\* What a step does to the ids: history only grows, and only an id without
\* history can enter the file.
LEMMA StepOnIds ==
    ASSUME [Next]_vars
    PROVE  /\ \A id \in DOMAIN identity : id \in DOMAIN identity' /\ identity'[id] = identity[id]
           /\ \A id \in DOMAIN sources' \ DOMAIN sources : id \notin DOMAIN identity
<1> DEFINE Goal == /\ \A id \in DOMAIN identity : id \in DOMAIN identity' /\ identity'[id] = identity[id]
                   /\ \A id \in DOMAIN sources' \ DOMAIN sources : id \notin DOMAIN identity
<1>1. ASSUME NEW t \in Targets, Create(t) PROVE Goal
  BY <1>1 DEF Create, FreshIds
<1>2. ASSUME NEW w \in Workers, NEW id \in Ids, OnSource(w, id) PROVE Goal
  BY <1>2 DEF OnSource, StartFetch, StartTest, StartDelete, Start, SaveFetched,
              SaveTested, TestGotLink, FinishDelete, UpdateKeySource, DeleteKeySource
<1>3. ASSUME NEW w \in Workers, GiveUp(w) \/ StartBatch(w) \/ SaveBatch(w) PROVE Goal
  BY <1>3 DEF GiveUp, StartBatch, SaveBatch, UpdateKeySourceCaches
<1>4. CASE Restart \/ UNCHANGED vars
  BY <1>4 DEF Restart, vars
<1> QED BY <1>1, <1>2, <1>3, <1>4 DEF Next

\* Ids are stable references: a step never gives an id another identity and
\* never brings a deleted id back.
THEOREM IdsAreStable == Spec => IdNeverRebound
<1> DEFINE Stable ==
      /\ \A id \in DOMAIN sources \cap DOMAIN sources' : sources'[id].target = sources[id].target
      /\ \A id \in DOMAIN sources' \ DOMAIN sources : id \notin DOMAIN identity
<1>1. ASSUME RegistryInv, RegistryInv', [Next]_vars PROVE Stable
  <2>1. \A id \in DOMAIN sources \cap DOMAIN sources' : sources'[id].target = sources[id].target
    BY <1>1, StepOnIds DEF RegistryInv, RecordsMatchIssue, WellFormed
  <2> QED BY <1>1, <2>1, StepOnIds
<1>2. RegistryInv /\ RegistryInv' /\ [Next]_vars => [Stable]_vars
  BY <1>1
<1> QED BY <1>2, RegistryInvariant, PTL DEF Spec, IdNeverRebound

=============================================================================
