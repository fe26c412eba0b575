------------------------- MODULE KeySourceRegistry -------------------------
(***************************************************************************)
(* key-sources.json and every handler that reads or writes it.             *)
(*                                                                         *)
(* Storage makes each of its methods atomic under one RWMutex, but the     *)
(* services hold no lock between two calls: a handler reads a record, asks *)
(* the panel or the test daemon over the network, and then writes the      *)
(* WHOLE record back with UpdateKeySource.  One action here is one storage *)
(* call together with the local computation before or after it; between    *)
(* two actions of one handler any other handler may run, and the process   *)
(* may restart.                                                            *)
(***************************************************************************)
EXTENDS Naturals

CONSTANTS Ids,          \* what "ks-" + randID() can return
          Targets,      \* identities: a (panel, email, inbound) triple or a vless link
          PanelTargets, \* the identities of type "panel"; the others are "manual"
          Gens,         \* successive links one panel hands out for one client
          Workers,      \* goroutines serving requests at the same time
          None          \* an absent CachedKey or LastTest

ASSUME TargetAssumption == PanelTargets \subseteq Targets
ASSUME NoneAssumption == /\ None \notin [target : Targets, gen : Gens]
                         /\ None \notin {"ok", "fail"}

VARIABLES sources,  \* key-sources.json: id -> record, for the ids it holds
          identity, \* history: id -> what it was issued for, for every id ever written
          job       \* worker -> the request it serves

vars == <<sources, identity, job>>

-----------------------------------------------------------------------------
(* Types. *)

Link == [target : Targets, gen : Gens]
TestResult == {"ok", "fail"}

\* model.KeySource, without the fields that are only displayed.
KeySource == [target : Targets, cached : Link \cup {None}, lastTest : TestResult \cup {None}]

\* f maps some of the elements of S into T.
IsPartial(f, S, T) == DOMAIN f \subseteq S /\ f \in [DOMAIN f -> T]

\* "fetch": waits for the panel (GetKey, resolveKeySources, regenerateKeys);
\* "test": waits for the panel on behalf of Test; "probe": waits for the test
\* daemon; "batch": RegenerateAll waits for the panels; "cascade": Delete is
\* rewriting subscriptions.
Phase == {"idle", "fetch", "test", "probe", "batch", "cascade"}

\* j.copies: the records this handler read and still holds in memory.
IsJob(j) == /\ j = [phase |-> j.phase, copies |-> j.copies]
            /\ j.phase \in Phase
            /\ IsPartial(j.copies, Ids, KeySource)

NoCopies == [id \in {} |-> None]
IdleJob == [phase |-> "idle", copies |-> NoCopies]

TypeOK == /\ IsPartial(sources, Ids, KeySource)
          /\ IsPartial(identity, Ids, Targets)
          /\ DOMAIN job = Workers
          /\ job = [w \in Workers |-> job[w]]
          /\ \A w \in Workers : IsJob(job[w])

-----------------------------------------------------------------------------
(* The storage methods, as functions of the file's content. *)

Only(id, rec) == [i \in {id} |-> rec]

\* AddKeySource refuses a second record of the same type and identity.
\* Mutant: only the panel branch of the comparison is there.
IsDuplicatePanelOnly(t) == t \in PanelTargets /\ \E id \in DOMAIN sources : sources[id].target = t

IsDuplicate(t) == \E id \in DOMAIN sources : sources[id].target = t

FreshIds == Ids \ DOMAIN identity

\* UpdateKeySource: replace the record by id; ErrKeySourceNotFound (nothing
\* written) when the id is gone.
\* Mutant: a missing record is appended.
UpsertKeySource(rec, id) ==
    [i \in DOMAIN sources \cup {id} |-> IF i = id THEN rec ELSE sources[i]]

UpdateKeySource(rec, id) ==
    [i \in DOMAIN sources |-> IF i = id THEN rec ELSE sources[i]]

\* UpdateKeySourceCaches: only CachedKey, unknown ids are ignored.
\* Mutant: &c is the address of one variable for the whole loop.
CachesAliased(links) ==
    [i \in DOMAIN sources |->
        IF i \in DOMAIN links
        THEN [sources[i] EXCEPT !.cached = links[CHOOSE j \in DOMAIN links : TRUE]]
        ELSE sources[i]]

UpdateKeySourceCaches(links) ==
    [i \in DOMAIN sources |->
        IF i \in DOMAIN links THEN [sources[i] EXCEPT !.cached = links[i]] ELSE sources[i]]

\* Mutant: the record is blanked, not taken out.
BlankKeySource(id) == [i \in DOMAIN sources |-> IF i = id THEN None ELSE sources[i]]

DeleteKeySource(id) == [i \in DOMAIN sources \ {id} |-> sources[i]]

-----------------------------------------------------------------------------
(* KeySourceService.Create: one storage call, dedup and append together.   *)
(* A duplicate is answered with the existing record and changes nothing.   *)

Create(t) ==
    /\ ~ IsDuplicate(t)
    /\ \E id \in FreshIds :
         LET new == [target |-> t, cached |-> None, lastTest |-> None] IN
         /\ sources' = [i \in DOMAIN sources \cup {id} |-> IF i = id THEN new ELSE sources[i]]
         /\ identity' = [i \in DOMAIN identity \cup {id} |-> IF i = id THEN t ELSE identity[i]]
    /\ UNCHANGED job

(* Every other handler starts by reading a record (GetKeySource). *)
Start(w, phase, id) ==
    /\ job[w].phase = "idle"
    /\ id \in DOMAIN sources
    /\ job' = [job EXCEPT ![w] = [phase |-> phase, copies |-> Only(id, sources[id])]]
    /\ UNCHANGED <<sources, identity>>

Finish(w) == job' = [job EXCEPT ![w] = IdleJob]

\* A manual source answers GetKey from the record and never comes this far.
StartFetch(w, id) == Start(w, "fetch", id) /\ sources[id].target \in PanelTargets

\* Test asks the panel for a panel source and goes straight to the daemon,
\* with the stored link, for a manual one.
StartTest(w, id) ==
    Start(w, IF sources[id].target \in PanelTargets THEN "test" ELSE "probe", id)

(* The panel answers GetKey / resolveKeySources / regenerateKeys: the whole *)
(* record read before the request goes back with a new CachedKey.           *)
SaveFetched(w, id) ==
    /\ job[w].phase = "fetch" /\ id \in DOMAIN job[w].copies
    /\ \E g \in Gens :
         LET copy == job[w].copies[id] IN
         sources' = UpdateKeySource([copy EXCEPT !.cached = [target |-> copy.target, gen |-> g]], id)
    /\ Finish(w)
    /\ UNCHANGED identity

\* The panel is deleted or does not answer (fetch), or its record is gone
\* (test): the handler returns an error and writes nothing.
GiveUp(w) ==
    /\ job[w].phase \in {"fetch", "test"}
    /\ Finish(w)
    /\ UNCHANGED <<sources, identity>>

\* The panel answers Test: the link is kept in the local copy only.
TestGotLink(w, id) ==
    /\ job[w].phase = "test" /\ id \in DOMAIN job[w].copies
    /\ \E g \in Gens :
         LET copy == job[w].copies[id]
             link == [target |-> copy.target, gen |-> g] IN
         job' = [job EXCEPT ![w] = [phase |-> "probe",
                                    copies |-> Only(id, [copy EXCEPT !.cached = link])]]
    /\ UNCHANGED <<sources, identity>>

\* The panel refuses Test, or the daemon answers (or does not): lastTest is
\* set in the copy and the whole copy is written.
SaveTested(w, id) ==
    /\ job[w].phase \in {"test", "probe"} /\ id \in DOMAIN job[w].copies
    /\ \E r \in IF job[w].phase = "test" THEN {"fail"} ELSE TestResult :
         sources' = UpdateKeySource([job[w].copies[id] EXCEPT !.lastTest = r], id)
    /\ Finish(w)
    /\ UNCHANGED identity

(* RegenerateAll reads every record once and asks all the panels; the panel *)
(* sources it managed to resolve are cached in one storage call.            *)
StartBatch(w) ==
    /\ job[w].phase = "idle"
    /\ \E S \in SUBSET {id \in DOMAIN sources : sources[id].target \in PanelTargets} :
         /\ S # {}
         /\ job' = [job EXCEPT ![w] = [phase |-> "batch", copies |-> [id \in S |-> sources[id]]]]
    /\ UNCHANGED <<sources, identity>>

SaveBatch(w) ==
    /\ job[w].phase = "batch"
    /\ \E R \in SUBSET DOMAIN job[w].copies : \E gen \in [R -> Gens] :
         sources' = UpdateKeySourceCaches(
                      [id \in R |-> [target |-> job[w].copies[id].target, gen |-> gen[id]]])
    /\ Finish(w)
    /\ UNCHANGED identity

(* KeySourceService.Delete reads the record, rewrites the subscriptions     *)
(* (module Subscriptions) and removes the record; ErrKeySourceNotFound when *)
(* another Delete was faster.                                               *)
StartDelete(w, id) == Start(w, "cascade", id)

FinishDelete(w, id) ==
    /\ job[w].phase = "cascade" /\ id \in DOMAIN job[w].copies
    /\ sources' = DeleteKeySource(id)
    /\ Finish(w)
    /\ UNCHANGED identity

(* The process restarts: requests are forgotten, the file stays. *)
Restart ==
    /\ \E w \in Workers : job[w].phase # "idle"
    /\ job' = [w \in Workers |-> IdleJob]
    /\ UNCHANGED <<sources, identity>>

-----------------------------------------------------------------------------
Init == /\ sources = NoCopies
        /\ identity = NoCopies
        /\ job = [w \in Workers |-> IdleJob]

OnSource(w, id) == \/ StartFetch(w, id)
                   \/ SaveFetched(w, id)
                   \/ StartTest(w, id)
                   \/ TestGotLink(w, id)
                   \/ SaveTested(w, id)
                   \/ StartDelete(w, id)
                   \/ FinishDelete(w, id)

Next == \/ \E t \in Targets : Create(t)
        \/ \E w \in Workers, id \in Ids : OnSource(w, id)
        \/ \E w \in Workers : GiveUp(w) \/ StartBatch(w) \/ SaveBatch(w)
        \/ Restart

Spec == Init /\ [][Next]_vars

-----------------------------------------------------------------------------
(* Properties. *)

\* One record per identity (README "dedup", storage.go AddKeySource), although
\* handlers write back records they read long before: whatever the
\* interleaving of Create, Delete and late writes, no two records of
\* key-sources.json name the same panel client or the same manual link.
UniqueTargets ==
    \A i, j \in DOMAIN sources : sources[i].target = sources[j].target => i = j

\* The cached link shown for a source was fetched for that very client and
\* inbound, never for another source of the same batch.
CachedLinkIsOwn ==
    \A id \in DOMAIN sources :
        sources[id].cached # None => sources[id].cached.target = sources[id].target

\* A subscription refers to its sources by id: an id never comes to mean
\* another client, and an id that was deleted never comes back, not even when
\* a handler that read the record before the deletion finishes after it.
IdNeverRebound ==
    [][/\ \A id \in DOMAIN sources \cap DOMAIN sources' :
            sources'[id].target = sources[id].target
       /\ \A id \in DOMAIN sources' \ DOMAIN sources : id \notin DOMAIN identity]_vars

-----------------------------------------------------------------------------
(* The strengthening that makes the properties inductive: every record, in  *)
(* the file or in the memory of a handler, carries the identity its id was  *)
(* issued for, and a cached link of that identity.                          *)

WellFormed(recs) ==
    \A id \in DOMAIN recs :
        /\ id \in DOMAIN identity
        /\ recs[id].target = identity[id]
        /\ recs[id].cached # None => recs[id].cached.target = identity[id]

RecordsMatchIssue == /\ WellFormed(sources)
                     /\ \A w \in Workers : WellFormed(job[w].copies)

RegistryInv == TypeOK /\ RecordsMatchIssue /\ UniqueTargets

=============================================================================
