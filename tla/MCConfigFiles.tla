--------------------------- MODULE MCConfigFiles ---------------------------
(* key-sources.json, panels.json and tokens.json, each followed by itself. *)
(* Sources: three ids over two panel clients and one pasted link, so that  *)
(* an identity can be created, deleted and created again under a new id    *)
(* while two handlers still hold copies of the old record.                 *)
(* Panels: the second name is the first one with a number, "x" and "x-1";  *)
(* the third differs from the first in its case only.                      *)
EXTENDS KeySourceRegistry, Panels, Tokens, TLC

CONSTANTS k1, k2, k3, p1, p2, m1, w1, w2, h1, h2, q1, q2

VARIABLE part

MCIds == {k1, k2, k3}
MCTargets == {p1, p2, m1}
MCPanelTargets == {p1, p2}
MCGens == {1}
MCWorkers == {w1, w2}

MCBaseOf == ("x" :> <<"x">>) @@ ("x-1" :> <<"x", 1>>) @@ ("X" :> <<"x">>)
MCHashes == {h1, h2}
MCRequests == {q1, q2}

MCSymmetry == UNION {Permutations(S) : S \in {MCIds, MCWorkers, MCHashes, MCRequests}}

MCInit == /\ part \in {"sources", "panels", "tokens"}
          /\ Init /\ PanelsInit /\ TokensInit

MCNext ==
    /\ UNCHANGED part
    /\ \/ part = "sources" /\ Next /\ UNCHANGED <<panelsVars, tokensVars>>
       \/ part = "panels" /\ PanelsNext /\ UNCHANGED <<vars, tokensVars>>
       \/ part = "tokens" /\ TokensNext /\ UNCHANGED <<vars, panelsVars>>

MCSpec == MCInit /\ [][MCNext]_<<part, vars, panelsVars, tokensVars>>
=============================================================================
