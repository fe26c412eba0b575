-------------------------- MODULE MCSubscriptions --------------------------
(* Two names, one panel source and one manual source, at most two keys.    *)
EXTENDS Subscriptions

CONSTANTS a, b, p, m, l, w1, w2

MCNames == <<a, b>>
MCRefs == {p, m}
MCPanelRefs == {p}
MCLegacyLinks == {l}

OneWorker == {w1}
TwoWorkers == {w1, w2}
AllNames == [w \in Workers |-> {a, b}]

\* A key without a link comes before one with the link of another source.
GapLists == {<<SubKey(RandomId(1), Empty, NoRef), SubKey(RandomId(2), m, p)>>}

CrashOps == {"create", "regenerate", "rename", "replaceKeys", "delete", "createSource", "sync"}
=============================================================================
