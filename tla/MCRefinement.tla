---------------------------- MODULE MCRefinement ----------------------------
(* The serial instance of MCSubscriptions, with the refinement mapping.    *)
EXTENDS SubscriptionsRefinement

CONSTANTS a, b, p, m, l, w1

MCNames == <<a, b>>
MCRefs == {p, m}
MCPanelRefs == {p}
MCLegacyLinks == {l}
MCWorkers == {w1}
AllNames == [w \in Workers |-> {a, b}]
\* A key pasted by hand; a reference with the link of another; two keys of one
\* id, the second of them without a link yet.
MCClientLists == {<<SubKey(LineId(1), l, NoRef)>>,
                  <<SubKey(RandomId(1), l, m)>>,
                  <<SubKey(RandomId(1), m, p), SubKey(RandomId(1), Empty, m)>>}
AllOps == {"create", "regenerate", "rename", "addRefs", "removeKey", "replaceKeys", "delete",
            "createSource", "deleteSource", "regenerateAll"}
=============================================================================
