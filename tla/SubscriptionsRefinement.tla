----------------------- MODULE SubscriptionsRefinement -----------------------
(***************************************************************************)
(* Served one at a time and never cut off, the handlers of Subscriptions   *)
(* implement SubscriptionBook.  A request takes effect at the step that    *)
(* fixes its list of calls: from there on the rest of the list is certain  *)
(* to run, so the book is what the listing will be once it has run.        *)
(***************************************************************************)
EXTENDS Subscriptions

\* The promise is made to clients that send keys without a link, if at all,
\* after those with one: a file cannot hold a blank line before another.
ASSUME BlanksLast ==
    \A keys \in ClientLists : \A i, j \in DOMAIN keys :
        i < j /\ IsGenerated(keys[j]) => IsGenerated(keys[i])

\* The calls that are still to run, of the only worker.
Pending == LET w == CHOOSE x \in Workers : TRUE IN
           IF job[w].phase = "run" THEN job[w].todo ELSE <<>>

\* f after the pending calls, the effect of one being Effect(call, f).
Completed(f, Effect(_, _)) ==
    LET after[i \in 0..Len(Pending)] ==
            IF i = 0 THEN f ELSE Effect(Pending[i], after[i - 1])
    IN after[Len(Pending)]

Book == INSTANCE SubscriptionBook WITH
            Names <- Names, Refs <- Refs, PanelRefs <- PanelRefs,
            KeyIds <- {RandomId(i) : i \in 1..MaxKeys}, ClientLists <- ClientLists,
            book <- ListSubscriptions(Completed(files, FilesAfter), Completed(metas, MetasAfter)),
            live <- {r \in Live : DropSource(r) \notin Range(Pending)}

\* Every request of the panel is one atomic change of the book, although the
\* code makes up to six calls for it and lists files and metadata by position.
ImplementsBook == Book!Spec

=============================================================================
