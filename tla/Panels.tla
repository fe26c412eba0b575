------------------------------- MODULE Panels -------------------------------
(***************************************************************************)
(* panels.json: the panels, the ids AddPanel makes from their names, and   *)
(* the KeySources that refer to a panel by its id.  A file is written in   *)
(* place: the process may stop when it is truncated and not yet written.   *)
(***************************************************************************)
EXTENDS Naturals, Sequences, FiniteSets

CONSTANTS BaseOf,    \* name -> the id made from it: lower case, "-" for blanks; a sequence
          MaxPanels, \* bound: panels in the file
          MaxMade,   \* bound: panels ever made
          Truncated  \* a file that cannot be parsed

ASSUME PanelsAssumption ==
    /\ MaxPanels \in Nat /\ MaxMade \in Nat
    /\ \A name \in DOMAIN BaseOf :
         LET base == BaseOf[name]
         IN  Len(base) \in Nat /\ base = [i \in 1..Len(base) |-> base[i]]

VARIABLES panels, \* panels.json: a sequence of [id, name, made], or Truncated
          refs,   \* KeySources: [id, made]; made tells which panel was meant
          made,   \* history: panels made so far; a panel's number is its identity
          reused, \* history: ids that a deleted panel had and another one got
          ids     \* history: the ids given so far

panelsVars == <<panels, refs, made, reused, ids>>

Names == DOMAIN BaseOf
Readable == panels # Truncated
At(i) == panels[i]
Used == {At(i).id : i \in DOMAIN panels}

PanelsInit == panels = <<>> /\ refs = {} /\ made = 0 /\ reused = {} /\ ids = {}

\* savePanelsLocked, or a stop in the middle of it.
SavePanels(new) == panels' = new \/ panels' = Truncated

Candidate(base, i) == IF i = 0 THEN base ELSE Append(base, i)

\* Mutant of UniqueId: one suffix must do.
UniqueIdOnce(base) == IF base \in Used THEN Candidate(base, 1) ELSE base

\* The base, or the base with the first number that makes it unused.
UniqueId(base) ==
    LET free == {i \in 0..Len(panels) : Candidate(base, i) \notin Used}
    IN Candidate(base, CHOOSE i \in free : \A j \in free : i <= j)

AddPanel(name) ==
    LET id == UniqueId(BaseOf[name]) IN
    /\ Readable /\ Len(panels) < MaxPanels /\ made < MaxMade
    /\ SavePanels(Append(panels, [id |-> id, name |-> name, made |-> made]))
    /\ made' = made + 1 /\ ids' = ids \cup {id}
    /\ reused' = IF id \in ids THEN reused \cup {id} ELSE reused
    /\ UNCHANGED refs

\* Mutant of Renamed: the id follows the name.
RenamedWithId(panel, name) == [panel EXCEPT !.name = name, !.id = UniqueId(BaseOf[name])]

Renamed(panel, name) == [panel EXCEPT !.name = name]

UpdatePanelName(i, name) ==
    /\ Readable /\ i \in DOMAIN panels
    /\ SavePanels([panels EXCEPT ![i] = Renamed(@, name)])
    /\ UNCHANGED <<refs, made, reused, ids>>

DeletePanel(i) ==
    /\ Readable /\ i \in DOMAIN panels
    /\ SavePanels([j \in 1..(Len(panels) - 1) |-> IF j < i THEN panels[j] ELSE panels[j + 1]])
    /\ UNCHANGED <<refs, made, reused, ids>>

\* Mutant of Load: a file that cannot be parsed is taken for an empty one.
LoadAnyway == IF Readable THEN panels ELSE <<>>

\* NewStorage creates a file that does not exist and leaves any other alone.
Load == panels

Reopen == panels' = Load /\ UNCHANGED <<refs, made, reused, ids>>

\* KeySourceService.Create: a source for a panel of the list; its id is not
\* looked up, and deleting the panel leaves the source.
CreateRef ==
    /\ Readable
    /\ \E i \in DOMAIN panels : refs' = refs \cup {[id |-> At(i).id, made |-> At(i).made]}
    /\ UNCHANGED <<panels, made, reused, ids>>

PanelsNext ==
    \/ \E name \in Names : AddPanel(name)
    \/ \E i \in 1..MaxPanels : DeletePanel(i) \/ \E name \in Names : UpdatePanelName(i, name)
    \/ Reopen \/ CreateRef

PanelsSpec == PanelsInit /\ [][PanelsNext]_panelsVars

-----------------------------------------------------------------------------
(* Properties. *)

\* No two panels of the file have one id, although names repeat, are changed,
\* and may look like another name with a number.
PanelIdsAreUnique ==
    Readable => \A i, j \in DOMAIN panels : At(i).id = At(j).id => i = j

\* "only Name changes, panelId is left alone: key sources and subscriptions
\* refer to the panel by its id", service_panel.go:46: a source reaches the panel
\* it was made for as long as that panel exists, and no other panel unless a
\* deleted panel's id was given again.
SourcesReachTheirPanel ==
    Readable => \A ref \in refs : \A i \in DOMAIN panels :
        /\ At(i).made = ref.made => At(i).id = ref.id
        /\ At(i).id = ref.id => At(i).made = ref.made \/ ref.id \in reused

\* What cannot be read is not replaced: panels lost by a stop in the middle of
\* a write are not taken for panels that never were.
UnreadableStays == [][~Readable => UNCHANGED panels]_panelsVars

(* What makes them inductive: no two panels share their number, and the ids  *)
(* and numbers that occur were given.                                        *)

Panel == [id : ids, name : Names, made : 0..(made - 1)]

NumbersAreUnique == Readable => \A i, j \in DOMAIN panels : At(i).made = At(j).made => i = j

PanelsInv ==
    /\ made \in Nat /\ refs \subseteq [id : ids, made : 0..(made - 1)]
    /\ Readable => panels \in Seq(Panel)
    /\ NumbersAreUnique /\ PanelIdsAreUnique /\ SourcesReachTheirPanel
=============================================================================
