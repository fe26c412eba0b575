------------------------------ MODULE SubStore ------------------------------
(***************************************************************************)
(* The two stores a subscription lives in and how storage.go reads them as *)
(* one: the file configs-<name>.txt, a list of links that the aggregator   *)
(* publishes, and the record of the name in subscriptions.json, a list of  *)
(* keys with their KeySource references.  Nothing in a file says which key *)
(* a line belongs to: ListSubscriptions pairs the two lists by position.   *)
(***************************************************************************)
EXTENDS Naturals, Sequences, FiniteSets

CONSTANTS Empty, \* the link of a key that was never generated: ""
          NoRef  \* keySourceId = null: a legacy key with a link of its own

SubKey(id, link, ref) == [id |-> id, link |-> link, ref |-> ref]

\* Ids: "k-" + randID() for keys the services make, "k-<line>" for the keys
\* ListSubscriptions makes up from a line no metadata describes.
RandomId(n) == <<"random", n>>
LineId(i)   == <<"line", i>>

IdsOf(keys)  == {keys[i].id : i \in DOMAIN keys}
RefsOf(keys) == {keys[i].ref : i \in DOMAIN keys} \ {NoRef}
LinksOf(keys) == [i \in DOMAIN keys |-> keys[i].link]

\* The elements of s at the positions "at", in their order: what a loop over s
\* with a condition keeps.
SelectAt(s, at) ==
    [k \in 1..Cardinality(at) |-> s[CHOOSE i \in at : Cardinality({j \in at : j <= i}) = k]]

IsGenerated(key) == key.link # Empty
Generated(keys)  == SelectAt(keys, {i \in DOMAIN keys : IsGenerated(keys[i])})

-----------------------------------------------------------------------------
(* WriteSubscriptionFile joins the links, empty ones included, and ends the *)
(* last line; readers trim the newlines at the end and split again.  What   *)
(* comes back is the list without its trailing empty links, and one empty   *)
(* line when nothing is left: Split("", "\n") has one element.              *)
\* Mutant: an empty file has no line.
FileLinesNone(keys) ==
    LET filled == {i \in DOMAIN keys : IsGenerated(keys[i])}
        last == CHOOSE i \in filled : \A j \in filled : j <= i
    IN  IF filled = {} THEN <<>> ELSE SubSeq(LinksOf(keys), 1, last)

FileLines(keys) ==
    LET filled == {i \in DOMAIN keys : IsGenerated(keys[i])}
        last == CHOOSE i \in filled : \A j \in filled : j <= i
    IN  IF filled = {} THEN <<Empty>> ELSE SubSeq(LinksOf(keys), 1, last)

\* ListSubscriptions: line i gives its link to key i, an empty line drops the
\* key, a line beyond the metadata becomes a key without reference, and keys
\* beyond the file stay as they were stored.
PairWithLines(keys, lines) ==
    LET paired == [i \in DOMAIN lines |->
                     IF i \in DOMAIN keys THEN [keys[i] EXCEPT !.link = lines[i]]
                                          ELSE SubKey(LineId(i), lines[i], NoRef)]
    IN  SelectAt(paired, {i \in DOMAIN lines : lines[i] # Empty}) \o SubSeq(keys, Len(lines) + 1, Len(keys))

-----------------------------------------------------------------------------
(* The stores as partial functions of the name.                            *)

Put(f, n, v) == [m \in DOMAIN f \cup {n} |-> IF m = n THEN v ELSE f[m]]
Drop(f, n)   == [m \in DOMAIN f \ {n} |-> f[m]]

\* RenameSubscriptionFile: os.Rename replaces the file of the new name.
Move(f, from, to) == Put(Drop(f, from), to, f[from])

\* ListSubscriptions, GetSubscription: every name with a file or a record.  A
\* file without a record is a legacy subscription, active, all keys manual; a
\* record without a file is shown as stored.
ListSubscriptions(files, metas) ==
    [n \in DOMAIN files \cup DOMAIN metas |->
        [status |-> IF n \in DOMAIN metas THEN metas[n].status ELSE "active",
         keys   |-> IF n \notin DOMAIN files THEN metas[n].keys
                    ELSE PairWithLines(IF n \in DOMAIN metas THEN metas[n].keys ELSE <<>>,
                                       files[n])]]

=============================================================================
