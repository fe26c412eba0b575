--------------------------- MODULE Subscriptions ---------------------------
(***************************************************************************)
(* SubscriptionService, the cascade of KeySourceService.Delete and         *)
(* SyncService over the storage.                                           *)
(*                                                                         *)
(* Every request runs in a goroutine of its own.  A handler first reads    *)
(* what it needs, may wait for panels, and then makes a fixed series of    *)
(* storage calls, each atomic under the storage's mutex and none of them   *)
(* undone if the process stops.  So a request is a job with a "todo" list  *)
(* of calls: the action of a handler computes the list the way the code    *)
(* does, and one step executes one call.  Between two steps any other      *)
(* request may run.  Reads of several files that are separated by no       *)
(* network wait are one action: they only decide an early return.          *)
(***************************************************************************)
EXTENDS SubStore, FiniteSets, SequencesExt

CONSTANTS NameOrder,   \* subscription names, in the order ListSubscriptions sorts them
          Refs,        \* ids of KeySources
          PanelRefs,   \* those of type "panel"; the others are "manual"
          LegacyLinks, \* links a client sends or a file holds without a KeySource
          ClientLists, \* lists of keys a client sends: nothing in them is checked
          Workers,     \* requests served at the same time
          NamesOf,     \* worker -> the names its requests are about
          Ops,         \* the handlers this instance serves
          MaxKeys,     \* bound: keys of one subscription
          Crashes      \* bound: may the process restart in this instance?

Names == Range(NameOrder)

\* The listing is sorted and has each name once.
ASSUME NameAssumption ==
    /\ NameOrder \in Seq(Names) /\ Len(NameOrder) > 0
    /\ \A i, j \in DOMAIN NameOrder : NameOrder[i] = NameOrder[j] => i = j

ASSUME BoundAssumption == MaxKeys \in Nat \ {0}
ASSUME RefAssumption == PanelRefs \subseteq Refs /\ NoRef \notin Refs
ASSUME LinkAssumption == Empty \notin Refs \cup LegacyLinks

\* A key has any id, any reference and any link, or none; a link is one line.
Ids == {RandomId(i) : i \in 0..MaxKeys} \cup {LineId(i) : i \in 1..MaxKeys}
Key == [id : Ids, link : Refs \cup LegacyLinks \cup {Empty}, ref : Refs \cup {NoRef}]
KeyLists == {keys \in Seq(Key) : Len(keys) <= MaxKeys}

ASSUME ClientAssumption ==
    \A keys \in ClientLists : keys \in Seq(Key) /\ Len(keys) \in 1..MaxKeys

ASSUME WorkerAssumption == NamesOf \in [Workers -> SUBSET Names]

VARIABLES files,   \* name -> the lines of configs-<name>.txt
          metas,   \* name -> its record in subscriptions.json
          sources, \* KeySource id -> "unborn", "live" (in key-sources.json) or "gone"
          needed,  \* SyncState.needed: "the aggregator needs a sync"
          stale,   \* history: a file changed since the script last copied the files
          own,     \* history: names with keys a client made up, not regenerated since
          job      \* worker -> the request it serves

store == <<files, metas, sources>>
vars == <<files, metas, sources, needed, stale, own, job>>

-----------------------------------------------------------------------------
(* Links, listings, jobs. *)

\* The link a KeySource resolves to: of the panel's client, or pasted by hand.
\* It stands for the source itself, so a line tells which source it came from.
LinkFor(ref) == ref

Live == {r \in Refs : sources[r] = "live"}
Listing == ListSubscriptions(files, metas)

Idle == [phase |-> "idle"]

\* Waiting for panels: one key after the other (Create, regenerate), or all at
\* once for the listing and the sources read at the start (RegenerateAll).
Resolving(op, n, pending, done) ==
    [phase |-> "resolve", op |-> op, name |-> n, pending |-> pending, done |-> done]
Collecting(subs, known) ==
    [phase |-> "collect", op |-> "regenerateAll", subs |-> subs, live |-> known]
Running(op, todo) == IF todo = <<>> THEN Idle ELSE [phase |-> "run", op |-> op, todo |-> todo]

Begin(w, op) == job[w] = Idle /\ op \in Ops
Continue(w, j) == job' = [job EXCEPT ![w] = j]

-----------------------------------------------------------------------------
(* Storage calls, and what each does to the two files. *)

WriteFile(n, keys)  == [call |-> "WriteSubscriptionFile", name |-> n, keys |-> keys]
RemoveFile(n)       == [call |-> "RemoveSubscriptionFile", name |-> n]
RenameFile(n, new)  == [call |-> "RenameSubscriptionFile", name |-> n, new |-> new]
UpsertMeta(n, st, keys) ==
    [call |-> "UpsertSubMeta", name |-> n, rec |-> [status |-> st, keys |-> keys]]
ForgetMeta(n)       == [call |-> "DeleteSubMeta", name |-> n]
DropSource(ref) == [call |-> "DeleteKeySource", ref |-> ref]
Mark   == [call |-> "Mark"]
Script == [call |-> "Sync"]
Clear  == [call |-> "Clear"]

FilesAfter(c, fs) ==
    CASE c.call = "WriteSubscriptionFile"  -> Put(fs, c.name, FileLines(c.keys))
      [] c.call = "RemoveSubscriptionFile" -> Drop(fs, c.name)
      [] c.call = "RenameSubscriptionFile" -> Move(fs, c.name, c.new)
      [] OTHER -> fs

MetasAfter(c, ms) ==
    CASE c.call = "UpsertSubMeta" -> Put(ms, c.name, c.rec)
      [] c.call = "DeleteSubMeta" -> Drop(ms, c.name)
      [] OTHER -> ms

SourcesAfter(c, ss) ==
    IF c.call = "DeleteKeySource" THEN [ss EXCEPT ![c.ref] = "gone"] ELSE ss

\* Regenerate, removeKeyId, legacy replacement and RegenerateAll all end like
\* this: a subscription with keys is published, one without becomes a draft.
StatusFor(keys) == IF keys = <<>> THEN "draft" ELSE "active"

\* Mutant: the file of a subscription that lost its keys is written, empty.
PutFileAlways(n, keys) == WriteFile(n, keys)

PutFile(n, keys) == IF keys = <<>> THEN RemoveFile(n) ELSE WriteFile(n, keys)

Publish(n, keys) == <<PutFile(n, keys), Mark, UpsertMeta(n, StatusFor(keys), keys)>>

\* A key resolved again keeps its id and reference; one without a reference
\* keeps its link.
\* Mutant: only the links that are missing are filled in.
RelinkMissing(key) ==
    IF key.ref = NoRef \/ IsGenerated(key) THEN key ELSE [key EXCEPT !.link = LinkFor(key.ref)]

Relink(key) == IF key.ref = NoRef THEN key ELSE [key EXCEPT !.link = LinkFor(key.ref)]

\* Mutant: the loop stops at the first reference.
WithoutFirst(keys, r) ==
    LET at == {i \in DOMAIN keys : keys[i].ref = r} IN
    IF at = {} THEN keys ELSE RemoveAt(keys, CHOOSE i \in at : \A j \in at : i <= j)

Without(keys, r) == SelectAt(keys, {i \in DOMAIN keys : keys[i].ref # r})

-----------------------------------------------------------------------------
(* Handlers: SubscriptionService. *)

Taken(n) == n \in DOMAIN files \/ n \in DOMAIN metas

NewKeys(refs) == [i \in DOMAIN refs |-> SubKey(RandomId(i), Empty, refs[i])]

\* Create from KeySources: the name is checked, then every source resolved.
Create(w, n) ==
    /\ Begin(w, "create") /\ ~ Taken(n)
    /\ \E refs \in UNION {[1..k -> Refs] : k \in 0..MaxKeys} :
         Continue(w, Resolving("create", n, NewKeys(refs), <<>>))
    /\ UNCHANGED <<store, needed, stale, own>>

\* What a client can send by now: it cannot guess an id that is yet to be made,
\* and one that will never be is like one whose source is gone.
Sendable == {keys \in ClientLists : \A r \in RefsOf(keys) : sources[r] # "unborn"}

\* Create from a client's own keys, stored as they were sent.
CreateLegacy(w, n) ==
    /\ Begin(w, "create") /\ ~ Taken(n)
    /\ \E keys \in Sendable : Continue(w, Running("create", Publish(n, keys)))
    /\ own' = own \cup {n}
    /\ UNCHANGED <<store, needed, stale>>

\* Update with regenerate: the keys of the listing are resolved again.
Regenerate(w, n) ==
    /\ Begin(w, "regenerate") /\ n \in DOMAIN Listing
    /\ Continue(w, Resolving("regenerate", n, Listing[n].keys, <<>>))
    /\ UNCHANGED <<store, needed, stale, own>>

(* resolveKeySources and regenerateKeys, one key: a key without reference   *)
(* stays, a missing source is skipped, a manual one gives its stored link,  *)
(* and a panel gives the client's link or fails (deleted, unreachable,      *)
(* client or inbound not found), which drops the key.                       *)
ResolveKey(w) ==
    /\ job[w].phase = "resolve" /\ job[w].pending # <<>>
    /\ LET j    == job[w]
           key  == Head(j.pending)
           next(done) == Continue(w, Resolving(j.op, j.name, Tail(j.pending), done))
       IN \/ key.ref \in Live \cup {NoRef} /\ next(Append(j.done, Relink(key)))
          \/ key.ref \in PanelRefs \cup (Refs \ Live) /\ next(j.done)
    /\ UNCHANGED <<store, needed, stale, own>>

AllGenerated(keys) == \A i \in DOMAIN keys : IsGenerated(keys[i])

\* All keys are resolved: Create writes no file and raises no flag for a draft.
\* A key without reference that has no link still has none.
Resolved(w) ==
    /\ job[w].phase = "resolve" /\ job[w].pending = <<>>
    /\ LET j == job[w] IN
       Continue(w, Running(j.op, IF j.op = "create" /\ j.done = <<>>
                                 THEN <<UpsertMeta(j.name, "draft", <<>>)>>
                                 ELSE Publish(j.name, j.done)))
    /\ own' = IF AllGenerated(job[w].done) THEN own \ {job[w].name} ELSE own
    /\ UNCHANGED <<store, needed, stale>>

\* Update with a new name.  Without a file there is nothing to publish.
RenameSubscription(w, n, new) ==
    /\ Begin(w, "rename") /\ n \in DOMAIN Listing /\ ~ Taken(new)
    /\ LET sub == Listing[n]
           record == <<ForgetMeta(n), UpsertMeta(new, sub.status, sub.keys)>>
           publish == IF n \in DOMAIN files THEN <<RenameFile(n, new), Mark>> ELSE <<>>
       IN Continue(w, Running("rename", publish \o record))
    /\ own' = IF n \in own THEN own \cup {new} ELSE own \ {new}
    /\ UNCHANGED <<store, needed, stale>>

\* Update with addKeySourceIds: references already present are skipped, an
\* unknown one is an error for the whole request; no file is written.
\* Mutant: the id is the position, which another key may already have.
NewIdByPosition(keys) == RandomId(Len(keys) + 1)

NewId(keys) ==
    RandomId(CHOOSE i \in 1..MaxKeys : /\ RandomId(i) \notin IdsOf(keys)
                                       /\ \A j \in 1..(i - 1) : RandomId(j) \in IdsOf(keys))

\* Mutant: the new key comes first, where the file has the line of another.
WithRefFirst(keys, r) ==
    IF r \in RefsOf(keys) THEN keys ELSE <<SubKey(NewId(keys), Empty, r)>> \o keys

WithRef(keys, r) == IF r \in RefsOf(keys) THEN keys ELSE Append(keys, SubKey(NewId(keys), Empty, r))

AddRefs(w, n) ==
    /\ Begin(w, "addRefs") /\ n \in DOMAIN Listing
    /\ LET sub == Listing[n] IN
       \E r, q \in Refs : \* the list of ids; of one id if they are the same
         /\ {r, q} \subseteq Live \cup RefsOf(sub.keys)
         /\ Len(sub.keys) + Cardinality({r, q} \ RefsOf(sub.keys)) <= MaxKeys
         /\ Continue(w, Running("addRefs",
                <<UpsertMeta(n, sub.status, WithRef(WithRef(sub.keys, r), q))>>))
    /\ UNCHANGED <<store, needed, stale, own>>

\* Update with removeKeyId: the id is not checked, one that is already gone
\* rewrites the file all the same.
RemoveKey(w, n) ==
    /\ Begin(w, "removeKey") /\ n \in DOMAIN Listing
    /\ LET keys == Listing[n].keys IN
       \E id \in IdsOf(keys) \cup {RandomId(0)} :
         Continue(w, Running("removeKey",
             Publish(n, SelectAt(keys, {i \in DOMAIN keys : keys[i].id # id}))))
    /\ UNCHANGED <<store, needed, stale, own>>

\* Update with keys: the client's own list replaces everything.
ReplaceKeys(w, n) ==
    /\ Begin(w, "replaceKeys") /\ n \in DOMAIN Listing
    /\ \E keys \in {<<>>} \cup Sendable :
         Continue(w, Running("replaceKeys", Publish(n, keys)))
    /\ own' = own \cup {n}
    /\ UNCHANGED <<store, needed, stale>>

Delete(w, n) ==
    /\ Begin(w, "delete") /\ Taken(n)
    /\ Continue(w, Running("delete", <<RemoveFile(n), Mark, ForgetMeta(n)>>))
    /\ UNCHANGED <<store, needed, stale, own>>

-----------------------------------------------------------------------------
(* RegenerateAll lists the subscriptions and the sources, then asks every   *)
(* panel; what it writes for each subscription is computed from these two   *)
(* readings, however old they are when the panels have answered.            *)
StartRegenerateAll(w) ==
    /\ Begin(w, "regenerateAll")
    /\ Continue(w, Collecting(Listing, Live))
    /\ UNCHANGED <<store, needed, stale, own>>

HasPanelKey(keys, known) == RefsOf(keys) \cap known \cap PanelRefs # {}

Refreshed(keys, known, answered) ==
    LET stays == {i \in DOMAIN keys : keys[i].ref \in {NoRef} \cup (known \ PanelRefs) \cup answered}
        kept == SelectAt(keys, stays)
    IN [i \in DOMAIN kept |-> Relink(kept[i])]

\* The calls made for each name, one name after the other as they are listed.
InListingOrder(calls) ==
    FlattenSeq([i \in DOMAIN NameOrder |->
        IF NameOrder[i] \in DOMAIN calls THEN calls[NameOrder[i]] ELSE <<>>])

PanelsAnswered(w) ==
    /\ job[w].phase = "collect"
    /\ LET subs == job[w].subs
           known == job[w].live
           wanted == (UNION {RefsOf(subs[n].keys) : n \in DOMAIN subs}) \cap known \cap PanelRefs
           rebuilt == {n \in DOMAIN subs : HasPanelKey(subs[n].keys, known)}
       IN \E answered \in SUBSET wanted :
            LET fresh(n) == Refreshed(subs[n].keys, known, answered) IN
            /\ Continue(w, Running("regenerateAll",
                   InListingOrder([n \in rebuilt |-> Publish(n, fresh(n))])))
            /\ own' = own \ {n \in rebuilt : AllGenerated(fresh(n))}
    /\ UNCHANGED <<store, needed, stale>>

-----------------------------------------------------------------------------
(* KeySourceService: Create is one storage call; Delete rewrites every   *)
(* subscription that refers to the source, raises the flag once at the end, *)
(* and only then removes the source.                                        *)
CreateSource(w, r) ==
    /\ Begin(w, "createSource") /\ sources[r] = "unborn"
    /\ sources' = [sources EXCEPT ![r] = "live"]
    /\ UNCHANGED <<files, metas, needed, stale, own, job>>

DeleteSource(w, r) ==
    /\ Begin(w, "deleteSource") /\ r \in Live
    /\ LET rest(n) == Without(Listing[n].keys, r)
           affected == {n \in DOMAIN Listing : r \in RefsOf(Listing[n].keys)}
           clean == [n \in affected |->
                       <<PutFile(n, rest(n)), UpsertMeta(n, StatusFor(rest(n)), rest(n))>>]
           flag == IF affected = {} THEN <<>> ELSE <<Mark>>
       IN Continue(w, Running("deleteSource", InListingOrder(clean) \o flag \o <<DropSource(r)>>))
    /\ UNCHANGED <<store, needed, stale, own>>

\* SyncService.Run: the script, then the flag.
SyncRun(w) ==
    /\ Begin(w, "sync")
    /\ Continue(w, Running("sync", <<Script, Clear>>))
    /\ UNCHANGED <<store, needed, stale, own>>

-----------------------------------------------------------------------------
(* One call of a job. *)

NextCall(w) == Head(job[w].todo)
IsNext(w, calls) == job[w].phase = "run" /\ NextCall(w).call \in calls
Advance(w) == Continue(w, Running(job[w].op, Tail(job[w].todo)))

FileCalls == {"WriteSubscriptionFile", "RemoveSubscriptionFile", "RenameSubscriptionFile"}
MetaCalls == {"UpsertSubMeta", "DeleteSubMeta", "DeleteKeySource"}

\* os.Rename fails when the file of the old name is gone.
Fails(c) == c.call = "RenameSubscriptionFile" /\ c.name \notin DOMAIN files

CallFiles(w) ==
    /\ IsNext(w, FileCalls) /\ ~ Fails(NextCall(w))
    /\ files' = FilesAfter(NextCall(w), files)
    /\ stale' = (stale \/ files' # files)
    /\ Advance(w)
    /\ UNCHANGED <<metas, sources, needed, own>>

CallMetas(w) ==
    /\ IsNext(w, MetaCalls)
    /\ metas' = MetasAfter(NextCall(w), metas)
    /\ sources' = SourcesAfter(NextCall(w), sources)
    /\ Advance(w)
    /\ UNCHANGED <<files, needed, stale, own>>

CallMark(w) ==
    /\ IsNext(w, {"Mark", "Clear"})
    /\ needed' = (NextCall(w) = Mark)
    /\ Advance(w)
    /\ UNCHANGED <<store, stale, own>>

\* scriptSyncer.Sync copies the files to the aggregator.
CallScript(w) ==
    /\ IsNext(w, {"Sync"})
    /\ stale' = FALSE
    /\ Advance(w)
    /\ UNCHANGED <<store, needed, own>>

\* A failed call ends the request with an error; so does a script that fails
\* or runs into the 90 s limit.
CallFails(w) ==
    /\ job[w].phase = "run"
    /\ Fails(NextCall(w)) \/ NextCall(w) = Script
    /\ Continue(w, Idle)
    /\ UNCHANGED <<store, needed, stale, own>>

(* The process restarts: requests are lost, the flag is up (NewSyncState). *)
\* Mutant: the flag starts down, the zero value of a Bool.
RestartFlagDown ==
    /\ Crashes
    /\ job' = [w \in Workers |-> Idle]
    /\ needed' = FALSE
    /\ UNCHANGED <<store, stale, own>>

Restart ==
    /\ Crashes
    /\ job' = [w \in Workers |-> Idle]
    /\ needed' = TRUE
    /\ UNCHANGED <<store, stale, own>>

-----------------------------------------------------------------------------
\* A legacy installation may hold files that no metadata describes.
Init ==
    /\ \E D \in SUBSET {NameOrder[1]} : files \in [D -> {<<l>> : l \in LegacyLinks}]
    /\ metas = [n \in {} |-> Idle]
    /\ sources = [r \in Refs |-> "unborn"]
    /\ needed = TRUE /\ stale = TRUE /\ own = {}
    /\ job = [w \in Workers |-> Idle]

OnName(w, n) == \/ Create(w, n)
                \/ CreateLegacy(w, n)
                \/ Regenerate(w, n)
                \/ \E new \in NamesOf[w] : RenameSubscription(w, n, new)
                \/ AddRefs(w, n)
                \/ RemoveKey(w, n)
                \/ ReplaceKeys(w, n)
                \/ Delete(w, n)

Proceed(w) == \/ ResolveKey(w)
              \/ Resolved(w)
              \/ PanelsAnswered(w)
              \/ CallFiles(w)
              \/ CallMetas(w)
              \/ CallMark(w)
              \/ CallScript(w)
              \/ CallFails(w)

Next == \/ \E w \in Workers : \E n \in NamesOf[w] : OnName(w, n)
        \/ \E w \in Workers : StartRegenerateAll(w) \/ SyncRun(w)
        \/ \E w \in Workers, r \in Refs : CreateSource(w, r) \/ DeleteSource(w, r)
        \/ \E w \in Workers : Proceed(w)
        \/ Restart

Spec == Init /\ [][Next]_vars

-----------------------------------------------------------------------------
(* Properties. *)

KeyList(keys) == Len(keys) <= MaxKeys /\ \A i \in DOMAIN keys : keys[i] \in Key

TypeOK ==
    /\ DOMAIN files \subseteq Names
    /\ \A n \in DOMAIN files : /\ Len(files[n]) \in 1..MaxKeys
                               /\ Range(files[n]) \subseteq Refs \cup LegacyLinks \cup {Empty}
    /\ DOMAIN metas \subseteq Names
    /\ \A n \in DOMAIN metas : metas[n].status \in {"draft", "active"} /\ KeyList(metas[n].keys)
    /\ sources \in [Refs -> {"unborn", "live", "gone"}]
    /\ needed \in BOOLEAN /\ stale \in BOOLEAN /\ own \subseteq Names
    /\ \A w \in Workers : job[w].phase \in {"idle", "resolve", "collect", "run"}

\* No request about n is being served.
Settled(n) == \A w \in Workers : n \in NamesOf[w] => job[w] = Idle

\* A draft publishes nothing and an active subscription is published: the
\* stored status and the existence of the file agree, over two stores that no
\* transaction covers.
StatusAgrees(n) == n \in DOMAIN metas => (metas[n].status = "active" <=> n \in DOMAIN files)

\* Line i of the file is the link of the KeySource of key i, so the panel
\* shows, tests and publishes under a KeySource only the link of that source.
PairingAgrees(n) ==
    n \in DOMAIN Listing =>
        \A i \in DOMAIN Listing[n].keys :
            LET k == Listing[n].keys[i] IN
            k.ref # NoRef /\ IsGenerated(k) => k.link = LinkFor(k.ref)

\* Every handler keeps both in step when nothing else touches the subscription;
\* the pairing, from the moment the service itself has resolved the keys: keys
\* a client sends are stored with the references and the links it gave them.
StatusMatchesFile == \A n \in Names : Settled(n) => StatusAgrees(n)
LinksMatchRefs    == \A n \in Names \ own : Settled(n) => PairingAgrees(n)

\* A request cut off between two calls may leave file and metadata apart; a
\* later regenerate that completes repairs the subscription, whatever state it
\* found, because it resolves every key from its reference and not from the
\* line it was paired with.
CompletesRegenerate(w, n) ==
    /\ job[w].phase = "run" /\ job[w].op = "regenerate"
    /\ NextCall(w).call = "UpsertSubMeta" /\ NextCall(w).name = n
    /\ job'[w] = Idle /\ metas' = MetasAfter(NextCall(w), metas)

RegenerateRepairs ==
    [][\A w \in Workers, n \in Names :
          CompletesRegenerate(w, n) => StatusAgrees(n)' /\ PairingAgrees(n)']_vars

\* "Удалить (+ каскадная чистка из подписок)", README.md:231: when no request
\* is running, no listed key refers to a KeySource that was deleted, unless a
\* client sent that reference itself.
NoDanglingRefs ==
    \A n \in DOMAIN Listing \ own : Settled(n) => RefsOf(Listing[n].keys) \subseteq Live

\* The sync banner tells the truth: when it is off, the aggregator holds what
\* the files say, or the request that changed a file is about to raise it.
FlagCoversChange ==
    stale /\ ~ needed =>
        \E w \in Workers : job[w].phase = "run" /\ Mark \in Range(job[w].todo)

\* "subscription still exists after delete" is a failure,
\* service_subscription_test.go:117: a subscription that has keys comes into
\* the listing only through the requests that check that the name is free.
\* Two requests break this: one that listed the subscription before it was
\* deleted or renamed writes it back afterwards.  (A request that empties a
\* legacy subscription takes its file away before it stores the draft, so a
\* draft without keys may reappear.)
NoResurrection ==
    [][\A n \in DOMAIN Listing' \ DOMAIN Listing :
          \/ Listing'[n].keys = <<>>
          \/ \E w \in Workers : /\ job[w] # job'[w]
                                /\ job[w].phase = "run" /\ job[w].op \in {"create", "rename"}]_vars

\* "Meta keys beyond the file lines (e.g. KeySource added but not yet
\* generated) are kept as-is", storage.go:707: a stored key that was never
\* generated is part of the listing.
UngeneratedKeysListed ==
    \A n \in DOMAIN metas : Settled(n) =>
        \A i \in DOMAIN metas[n].keys :
            ~ IsGenerated(metas[n].keys[i]) => metas[n].keys[i].id \in IdsOf(Listing[n].keys)

-----------------------------------------------------------------------------
(* The strengthening of StatusMatchesFile: what a todo list still does for a *)
(* name brings its status and its file together.  It holds when requests     *)
(* leave each other's subscriptions alone and none is cut off.               *)

\* Requests at the same time are about different names; one that may touch
\* every subscription comes alone.
Apart ==
    /\ \A v, w \in Workers : v # w => NamesOf[v] \cap NamesOf[w] = {}
    /\ {"regenerateAll", "deleteSource"} \cap Ops # {} => \A w \in Workers : NamesOf[w] = Names

TouchesFile(c, n) ==
    \/ c.call \in {"WriteSubscriptionFile", "RemoveSubscriptionFile"} /\ c.name = n
    \/ c.call = "RenameSubscriptionFile" /\ n \in {c.name, c.new}
TouchesMeta(c, n) == c.call \in {"UpsertSubMeta", "DeleteSubMeta"} /\ c.name = n

Creates(c, n) ==
    \/ c.call = "WriteSubscriptionFile"
    \/ c.call = "RenameSubscriptionFile" /\ c.new = n

FileSteps(t, n) == {i \in DOMAIN t : TouchesFile(t[i], n)}
MetaSteps(t, n) == {i \in DOMAIN t : TouchesMeta(t[i], n)}

\* The calls of t, in a row, make the status and the file of n agree: at most
\* one touches the file, at most one the record, that one comes later, and the
\* status it stores tells whether the file is there then.
Settles(t, n) ==
    LET F == FileSteps(t, n)
        M == MetaSteps(t, n)
    IN /\ \A i, j \in F : i = j
       /\ \A i, j \in M : i = j
       /\ \A i \in F : \E j \in M : i < j
       /\ M = {} => StatusAgrees(n)
       /\ \A i \in M : t[i].call = "UpsertSubMeta" =>
            (t[i].rec.status = "active" <=>
                IF F = {} THEN n \in DOMAIN files ELSE \A j \in F : Creates(t[j], n))

CallList(t) == t \in Seq(Range(t)) /\ t # <<>>

\* What the calls of a request touch, and that its renaming cannot fail.
KeepsTo(t, names) ==
    /\ \A i \in DOMAIN t, n \in Names :
         TouchesFile(t[i], n) \/ TouchesMeta(t[i], n) => n \in names
    /\ \A i \in DOMAIN t : t[i].call = "RenameSubscriptionFile" =>
         i = 1 /\ t[i].name # t[i].new /\ t[i].name \in DOMAIN files /\ {t[i].name, t[i].new} \subseteq Names
    /\ \A i \in DOMAIN t : t[i].call = "Sync" =>
         \A j \in DOMAIN t : t[j].call \in {"Sync", "Clear"}

JobSettles(w) ==
    IF job[w].phase = "run"
    THEN /\ CallList(job[w].todo) /\ KeepsTo(job[w].todo, NamesOf[w])
         /\ \A n \in NamesOf[w] : Settles(job[w].todo, n)
    ELSE /\ \A n \in NamesOf[w] : StatusAgrees(n)
         /\ job[w].phase = "resolve" =>
              /\ job[w].op \in {"create", "regenerate"} /\ job[w].name \in NamesOf[w]
              /\ job[w].op = "create" => ~ Taken(job[w].name)
         /\ job[w].phase = "collect" => NamesOf[w] = Names

StatusInv ==
    /\ job \in [Workers -> Range(job)]
    /\ \A w \in Workers : job[w].phase \in {"idle", "resolve", "collect", "run"} /\ JobSettles(w)
    /\ \A n \in Names : (\A w \in Workers : n \notin NamesOf[w]) => StatusAgrees(n)

-----------------------------------------------------------------------------
(* The strengthening of FlagCoversChange, for one request at a time.         *)

OneAtATime == \A v, w \in Workers : v = w

\* Every change of a file is followed by the flag.
Announced(t) ==
    \A i \in DOMAIN t : t[i].call \in FileCalls => \E j \in DOMAIN t : i < j /\ t[j] = Mark

JobAnnounces(w) ==
    job[w].phase = "run" =>
        LET t == job[w].todo IN
        /\ CallList(t) /\ Announced(t)
        /\ \A i \in DOMAIN t :
             /\ t[i].call = "Mark" => t[i] = Mark
             /\ t[i].call \in {"Sync", "Clear"} => t = <<Script, Clear>> \/ (t = <<Clear>> /\ ~ stale)
             /\ t[i].call = "RenameSubscriptionFile" => i = 1 /\ (stale => needed)

FlagInv ==
    /\ job \in [Workers -> Range(job)]
    /\ \A w \in Workers : job[w].phase \in {"idle", "resolve", "collect", "run"} /\ JobAnnounces(w)
    /\ FlagCoversChange

-----------------------------------------------------------------------------
(* The strengthening of TypeOK: what requests hold in memory.                *)

Record   == [status : {"draft", "active"}, keys : KeyLists]
Lines    == Seq(Refs \cup LegacyLinks \cup {Empty})

Call == [call : {"WriteSubscriptionFile"}, name : Names, keys : KeyLists \ {<<>>}]
          \cup [call : {"RemoveSubscriptionFile", "DeleteSubMeta"}, name : Names]
          \cup [call : {"RenameSubscriptionFile"}, name : Names, new : Names]
          \cup [call : {"UpsertSubMeta"}, name : Names, rec : Record]
          \cup [call : {"DeleteKeySource"}, ref : Refs]
          \cup {Mark, Script, Clear}

IsBook(subs) == DOMAIN subs \subseteq Names /\ \A n \in DOMAIN subs : subs[n] \in Record

JobType(j) ==
    /\ j.phase \in {"idle", "resolve", "collect", "run"}
    /\ j.phase = "idle" => j = Idle
    /\ j.phase = "resolve" =>
          /\ j.op \in {"create", "regenerate"} /\ j.name \in Names
          /\ j.pending \in Seq(Key) /\ j.done \in Seq(Key)
          /\ Len(j.pending) + Len(j.done) <= MaxKeys
    /\ j.phase = "collect" => j.op = "regenerateAll" /\ IsBook(j.subs) /\ j.live \subseteq Refs
    /\ j.phase = "run" => j.todo \in Seq(Call) /\ j.todo # <<>>

TypeInv ==
    /\ DOMAIN files \subseteq Names
    /\ \A n \in DOMAIN files : files[n] \in Lines /\ Len(files[n]) \in 1..MaxKeys
    /\ IsBook(metas)
    /\ sources \in [Refs -> {"unborn", "live", "gone"}]
    /\ needed \in BOOLEAN /\ stale \in BOOLEAN /\ own \subseteq Names
    /\ job \in [Workers -> Range(job)] /\ \A w \in Workers : JobType(job[w])

-----------------------------------------------------------------------------
(* The strengthening of RegenerateRepairs, for one request at a time.        *)

OwnLinks(keys) == \A i \in DOMAIN keys : keys[i].ref # NoRef => keys[i].link = LinkFor(keys[i].ref)

FileHolds(fs, n, keys) ==
    IF keys = <<>> THEN n \notin DOMAIN fs ELSE n \in DOMAIN fs /\ fs[n] = FileLines(keys)

\* What remains of a publication over the files fs: its last call stores keys
\* with links of their own, and the file holds them by then.
Repairs(todo, fs) ==
    LET last == todo[Len(todo)]
        n    == last.name
        keys == last.rec.keys
    IN /\ last = UpsertMeta(n, StatusFor(keys), keys) /\ OwnLinks(keys)
       /\ \/ todo = Publish(n, keys)
          \/ todo \in {<<Mark, last>>, <<last>>} /\ FileHolds(fs, n, keys)

RegenerateInv ==
    \A w \in Workers :
        /\ job[w].phase = "resolve" => OwnLinks(job[w].done)
        /\ job[w].phase = "run" /\ job[w].op = "regenerate" => Repairs(job[w].todo, files)

-----------------------------------------------------------------------------
(* The strengthening of LinksMatchRefs and NoDanglingRefs, under the         *)
(* conditions of StatusInv: it holds of what the two stores will be once the *)
(* calls that are pending have run.                                          *)

LinesIn(fs, n) == IF n \in DOMAIN fs THEN fs[n] ELSE <<>>
KeysIn(ms, n)  == IF n \in DOMAIN ms THEN ms[n].keys ELSE <<>>

LinesAfter(t, n) ==
    LET F == FileSteps(t, n) IN
    LinesIn(IF F = {} THEN files ELSE FilesAfter(t[CHOOSE i \in F : TRUE], files), n)
KeysAfter(t, n) ==
    LET M == MetaSteps(t, n) IN
    KeysIn(IF M = {} THEN metas ELSE MetasAfter(t[CHOOSE i \in M : TRUE], metas), n)
LiveAfter(t) == Live \ {t[i].ref : i \in {i \in DOMAIN t : t[i].call = "DeleteKeySource"}}

HasLine(lines, i) == i \in DOMAIN lines /\ lines[i] # Empty

\* The lines are all filled, or there is the one of an empty file; key i has
\* line i, its own link if it has a reference; a key without line has a
\* reference and was never generated.
Matches(keys, lines) ==
    /\ lines = <<Empty>> \/ \A i \in DOMAIN lines : lines[i] # Empty
    /\ \A i \in DOMAIN keys :
         IF HasLine(lines, i) THEN keys[i].ref # NoRef => lines[i] = LinkFor(keys[i].ref)
                              ELSE keys[i].ref # NoRef /\ ~ IsGenerated(keys[i])

Fits(keys, lines, live) ==
    Matches(keys, lines) /\ RefsOf(PairWithLines(keys, lines)) \subseteq live

\* The keys of a listing: a link is the reference's own, a key without
\* reference has one, and those that were never generated come last.
InOrder(keys) ==
    /\ \A i \in DOMAIN keys : IF keys[i].ref = NoRef THEN IsGenerated(keys[i])
                               ELSE IsGenerated(keys[i]) => keys[i].link = LinkFor(keys[i].ref)
    /\ \A i, j \in DOMAIN keys : i < j /\ IsGenerated(keys[j]) => IsGenerated(keys[i])

NameFits(n) == n \notin own => Fits(KeysIn(metas, n), LinesIn(files, n), Live)

\* The calls that request w has still to make.
Todo(w) == IF job[w].phase = "run" THEN job[w].todo ELSE <<>>

ResolveFits(j) ==
    /\ OwnLinks(j.done) /\ RefsOf(j.done) \subseteq Live
    /\ j.name \notin own =>
         /\ \A i \in DOMAIN j.pending : j.pending[i].ref = NoRef => IsGenerated(j.pending[i])
         /\ AllGenerated(j.done)

\* Keys that a client made up are in no order.
CollectFits(j) ==
    /\ j.live \subseteq Live
    /\ \A n \in DOMAIN j.subs \ own : InOrder(j.subs[n].keys)

JobFits(w) ==
    /\ \A n \in NamesOf[w] \ own : Fits(KeysAfter(Todo(w), n), LinesAfter(Todo(w), n), LiveAfter(Todo(w)))
    /\ \A i \in DOMAIN Todo(w) : Todo(w)[i].call = "DeleteKeySource" => "deleteSource" \in Ops
    /\ job[w].phase = "resolve" => ResolveFits(job[w])
    /\ job[w].phase = "collect" => CollectFits(job[w])

ContentInv ==
    /\ \A w \in Workers : JobFits(w)
    /\ \A n \in Names : (\A w \in Workers : n \notin NamesOf[w]) => NameFits(n)

=============================================================================
