-------------------------- MODULE SubscriptionBook --------------------------
(***************************************************************************)
(* What the subscription part of the API promises to one client at a time: *)
(* a book of named subscriptions and a set of KeySources, in which every   *)
(* request takes effect at once and as a whole.  There are no files, no    *)
(* metadata and no steps here; module Subscriptions shows how the code     *)
(* spreads a request over the two stores.  A change of one subscription is *)
(* a relation between its old and its new value.                           *)
(***************************************************************************)
EXTENDS SubStore, SequencesExt

CONSTANTS Names, Refs, PanelRefs,
          KeyIds,     \* ids the service makes for the keys it adds
          ClientLists \* lists of keys a client sends, with whatever is in them

VARIABLES book, \* name -> [status, keys]
          live  \* the KeySources that exist

vars == <<book, live>>

LinkFor(ref) == ref
StatusFor(keys) == IF keys = <<>> THEN "draft" ELSE "active"

\* The keys at the positions "at", a link of its source's own for each that
\* has a source.
Relinked(keys, at) ==
    LET kept == SelectAt(keys, at) IN
    [i \in DOMAIN kept |-> IF kept[i].ref = NoRef THEN kept[i]
                           ELSE [kept[i] EXCEPT !.link = LinkFor(kept[i].ref)]]

\* Which keys of a subscription can be linked anew: not one whose source is
\* gone, and every other one, except that a panel may not give its link.
CanStay(keys, at) ==
    \A i \in DOMAIN keys :
        /\ keys[i].ref \notin live \cup {NoRef} => i \notin at
        /\ keys[i].ref \in {NoRef} \cup (live \ PanelRefs) => i \in at

\* What becomes of keys a request stores without generating them: an active
\* subscription in which no key was ever generated may lose the first one.
IsKept(new, keys) ==
    \/ new.keys = keys
    \/ /\ new.status = "active" /\ keys # <<>> /\ Generated(keys) = <<>>
       /\ new.keys = Tail(keys)

-----------------------------------------------------------------------------
(* What a request may make of one subscription.                            *)

\* A client's own keys, as they were sent.
IsReplaced(new) ==
    \E keys \in ClientLists \cup {<<>>} : IsKept(new, keys) /\ new.status = StatusFor(keys)

IsCreated(new) ==
    \/ IsReplaced(new)
    \/ /\ new.status = StatusFor(new.keys)
       /\ \A i \in DOMAIN new.keys :
            new.keys[i].ref \in live /\ new.keys[i].link = LinkFor(new.keys[i].ref)

IsRegenerated(new, old) ==
    \E at \in SUBSET DOMAIN old.keys :
        /\ CanStay(old.keys, at)
        /\ IsKept(new, Relinked(old.keys, at))
        /\ new.status = StatusFor(Relinked(old.keys, at))

\* New references go to the end, ungenerated; none is there twice.
Unlinked(refs, ids) == [i \in DOMAIN refs |-> SubKey(ids[i], Empty, refs[i])]

IsExtended(new, old) ==
    /\ new.status = old.status
    /\ \E refs \in SetToAllKPermutations(live \ RefsOf(old.keys)) :
       \E ids \in [DOMAIN refs -> KeyIds \ IdsOf(old.keys)] : IsKept(new, old.keys \o Unlinked(refs, ids))

IsReduced(new, old, Stays(_)) ==
    LET rest == SelectSeq(old.keys, Stays) IN
    IsKept(new, rest) /\ new.status = StatusFor(rest)

LostKey(new, old) ==
    \E id \in IdsOf(old.keys) \cup {RandomId(0)} :
        IsReduced(new, old, LAMBDA k : k.id # id)

-----------------------------------------------------------------------------
(* The requests, between the book "old" and the book "new".                *)

EditOne(old, new) ==
    /\ UNCHANGED live
    /\ \E n \in DOMAIN new :
         /\ new = Put(old, n, new[n])
         /\ IF n \notin DOMAIN old THEN IsCreated(new[n])
            ELSE \/ IsRegenerated(new[n], old[n])
                 \/ IsExtended(new[n], old[n])
                 \/ LostKey(new[n], old[n])
                 \/ IsReplaced(new[n])

RenameOne(old, new) ==
    /\ UNCHANGED live
    /\ \E n \in DOMAIN old, m \in DOMAIN new \ DOMAIN old :
         /\ new = Put(Drop(old, n), m, new[m])
         /\ new[m].status = old[n].status /\ IsKept(new[m], old[n].keys)

DeleteOne(old, new) ==
    /\ UNCHANGED live
    /\ \E n \in DOMAIN old : new = Drop(old, n)

\* Every subscription with a panel source gets fresh links; a source is either
\* answered by its panel or not, for all subscriptions alike.
RegenerateEverything(old, new) ==
    /\ UNCHANGED live
    /\ DOMAIN new = DOMAIN old
    /\ \A n \in DOMAIN old : new[n] = old[n] \/ IsRegenerated(new[n], old[n])
    /\ \A n, m \in DOMAIN old :
         \A r \in live \cap PanelRefs \cap RefsOf(old[n].keys) \cap RefsOf(old[m].keys) :
            r \in RefsOf(new[n].keys) <=> r \in RefsOf(new[m].keys)

CreateKeySource(old, new) ==
    /\ new = old
    /\ \E r \in Refs \ live : live' = live \cup {r}

\* The source and every key that refers to it go together.
DeleteKeySource(old, new) ==
    \E r \in live :
      /\ live' = live \ {r}
      /\ DOMAIN new = DOMAIN old
      /\ \A n \in DOMAIN old :
           IF r \notin RefsOf(old[n].keys) THEN new[n] = old[n]
           ELSE IsReduced(new[n], old[n], LAMBDA k : k.ref # r)

-----------------------------------------------------------------------------
Init == /\ live = {}
        /\ DOMAIN book \subseteq Names
        /\ \A n \in DOMAIN book : book[n].status = "active" /\ RefsOf(book[n].keys) = {}

Next == \E old \in {book}, new \in {book'} :
           \/ CreateKeySource(old, new)
           \/ DeleteKeySource(old, new)
           \/ /\ new # old
              /\ \/ EditOne(old, new)
                 \/ RenameOne(old, new)
                 \/ DeleteOne(old, new)
                 \/ RegenerateEverything(old, new)

Spec == Init /\ [][Next]_vars
=============================================================================
