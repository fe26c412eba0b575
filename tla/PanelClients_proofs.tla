------------------------ MODULE PanelClients_proofs ------------------------
(***************************************************************************)
(* Proofs about PanelClients, for any number of clients, inbounds and      *)
(* requests at a time, whichever of the panel's answers are missing: the   *)
(* types, that an inbound has the flow it needs, that a key leads to the   *)
(* inbound it was asked for, and that attaching keeps the expiry.          *)
(*                                                                         *)
(* The panel's operations come first, each with what it does to the        *)
(* clients and to the flows that are missing; then the steps of requests.  *)
(***************************************************************************)
EXTENDS PanelClients, TLAPS

-----------------------------------------------------------------------------
(* Partial functions. *)

LEMMA PartialOnMakes ==
    ASSUME NEW S, NEW T, NEW f, DOMAIN f \subseteq S, f = [x \in DOMAIN f |-> f[x]],
           \A x \in DOMAIN f : f[x] \in T
    PROVE  f \in PartialOn(S, T)
<1>1. f \in [DOMAIN f -> T]
  OBVIOUS
<1> QED BY <1>1 DEF PartialOn

LEMMA PartialOnGives ==
    ASSUME NEW S, NEW T, NEW f \in PartialOn(S, T)
    PROVE  /\ DOMAIN f \subseteq S /\ f = [x \in DOMAIN f |-> f[x]]
           /\ \A x \in DOMAIN f : f[x] \in T
<1>1. PICK D \in SUBSET S : f \in [D -> T]
  BY DEF PartialOn
<1> QED BY <1>1

-----------------------------------------------------------------------------
(* The panel. *)

Clients == PartialOn(Emails, Client)

\* An attachment whose flow is missing.
Lacks(e, i) == e \in Known /\ i \in Attached(e) \cap Eligible /\ client[e].flow[i] # "vision"

LEMMA KnownClient ==
    ASSUME client \in Clients, NEW e \in Known
    PROVE  /\ e \in Emails /\ client[e] \in Client
           /\ client[e] = [enable |-> client[e].enable, expiry |-> client[e].expiry,
                           flow |-> client[e].flow]
           /\ client[e].flow \in PartialOn(Inbounds, Flows)
           /\ Attached(e) \subseteq Inbounds
           /\ \A i \in Attached(e) : client[e].flow[i] \in Flows
<1>1. e \in Emails /\ client[e] \in Client
  BY PartialOnGives DEF Clients, Known
<1>2. client[e].flow \in PartialOn(Inbounds, Flows)
  BY <1>1 DEF Client, Flows
<1>3. client[e] = [enable |-> client[e].enable, expiry |-> client[e].expiry,
                   flow |-> client[e].flow]
  BY <1>1 DEF Client
<1>4. Attached(e) \subseteq Inbounds /\ \A i \in Attached(e) : client[e].flow[i] \in Flows
  BY <1>2, PartialOnGives DEF Attached
<1> QED BY <1>1, <1>2, <1>3, <1>4

LEMMA PutKeeps ==
    ASSUME client \in Clients, NEW e \in Emails, NEW c \in Client, Put(e, c)
    PROVE  /\ client' \in Clients
           /\ Known' = Known \cup {e} /\ client'[e] = c
           /\ \A x \in Known \ {e} : client'[x] = client[x]
           /\ \A x, i : x # e => (Lacks(x, i)' <=> Lacks(x, i))
<1>1. /\ Known' = Known \cup {e} /\ client'[e] = c
      /\ \A x \in Known \ {e} : client'[x] = client[x]
      /\ client' = [x \in DOMAIN client' |-> client'[x]]
  BY DEF Put, Known
<1>2. Known \subseteq Emails /\ \A x \in Known : client[x] \in Client
  BY KnownClient
<1>3. client' \in Clients
  BY <1>1, <1>2, PartialOnMakes DEF Clients, Known
<1>4. ASSUME NEW x, NEW i, x # e PROVE Lacks(x, i)' <=> Lacks(x, i)
  BY <1>1, <1>4 DEF Lacks, Attached
<1> QED BY <1>1, <1>3, <1>4

LEMMA FlowIfIsFlow == \A has, i : FlowIf(has, i) \in Flows
BY DEF FlowIf, Flows

\* A client with other flows.
LEMMA NewFlows ==
    ASSUME NEW D \in SUBSET Inbounds, NEW f \in [D -> Flows],
           NEW enable \in BOOLEAN, NEW expiry \in Expiries
    PROVE  [enable |-> enable, expiry |-> expiry, flow |-> f] \in Client
<1>1. f \in PartialOn(Inbounds, Flows)
  BY PartialOnMakes
<1> QED BY <1>1 DEF Client, Flows, Expiries

LEMMA PanelAddsGives ==
    ASSUME client \in Clients, NEW e \in Emails, NEW i \in Inbounds, NEW d \in Expiries,
           PanelAdds(e, i, d)
    PROVE  client' \in Clients /\ \A x, k : Lacks(x, k)' => Lacks(x, k)
<1> DEFINE f == [x \in {i} |-> FlowIf(TRUE, x)]
           c == [enable |-> TRUE, expiry |-> d, flow |-> f]
<1>1. f \in [{i} -> Flows]
  BY FlowIfIsFlow
<1>2. c \in Client
  BY <1>1, NewFlows
<1>3. Put(e, c)
  BY DEF PanelAdds
<1>4. \A k \in Eligible : k \in DOMAIN f => f[k] = "vision"
  BY DEF FlowIf
<1>5. c.flow = f
  OBVIOUS
<1> HIDE DEF c, f
<1>6. \A k : ~Lacks(e, k)'
  BY <1>2, <1>3, <1>4, <1>5, PutKeeps DEF Lacks, Attached
<1> QED BY <1>2, <1>3, <1>6, PutKeeps

LEMMA PanelAttachesGives ==
    ASSUME client \in Clients, NEW e \in Emails, NEW i \in Inbounds, PanelAttaches(e, i)
    PROVE  /\ client' \in Clients
           /\ \A x, k : Lacks(x, k)' => Lacks(x, k) \/ (x = e /\ k = i)
<1> DEFINE f == [x \in Attached(e) \cup {i} |->
                    IF x \in Attached(e) THEN client[e].flow[x] ELSE FlowIf(EffectiveFlow(e), x)]
           c == [enable |-> client[e].enable, expiry |-> client[e].expiry, flow |-> f]
<1>0. e \in Known
  BY DEF PanelAttaches
<1>1. f \in [Attached(e) \cup {i} -> Flows] /\ Attached(e) \cup {i} \subseteq Inbounds
  BY <1>0, FlowIfIsFlow, KnownClient
<1>2. c \in Client
  <2>1. client[e].enable \in BOOLEAN /\ client[e].expiry \in Expiries
    BY <1>0, KnownClient DEF Client, Expiries
  <2> HIDE DEF f
  <2> QED BY <1>1, <2>1, NewFlows
<1>3. Put(e, c)
  <2>1. [client[e] EXCEPT !.flow = f] = c
    <3>1. client[e] = [enable |-> client[e].enable, expiry |-> client[e].expiry,
                       flow |-> client[e].flow]
      BY <1>0, KnownClient
    <3> HIDE DEF f
    <3> QED BY <3>1
  <2> QED BY <2>1 DEF PanelAttaches
<1>4. /\ DOMAIN f = Attached(e) \cup {i}
      /\ \A k \in Attached(e) : f[k] = client[e].flow[k]
  OBVIOUS
<1>5. c.flow = f
  OBVIOUS
<1> HIDE DEF c, f
<1>6. \A k : Lacks(e, k)' => Lacks(e, k) \/ k = i
  BY <1>0, <1>2, <1>3, <1>4, <1>5, PutKeeps DEF Lacks, Attached
<1> QED BY <1>2, <1>3, <1>6, PutKeeps

LEMMA PanelDetachesGives ==
    ASSUME client \in Clients, NEW e \in Emails, NEW i \in Inbounds, PanelDetaches(e, i)
    PROVE  /\ client' \in Clients
           /\ \A x, k : Lacks(x, k)' => Lacks(x, k) /\ ~(x = e /\ k = i)
<1> DEFINE f == [x \in Attached(e) \ {i} |-> client[e].flow[x]]
           c == [enable |-> client[e].enable, expiry |-> client[e].expiry, flow |-> f]
<1>0. e \in Known
  BY DEF PanelDetaches
<1>1. f \in [Attached(e) \ {i} -> Flows] /\ Attached(e) \ {i} \subseteq Inbounds
  BY <1>0, KnownClient
<1>2. c \in Client
  <2>1. client[e].enable \in BOOLEAN /\ client[e].expiry \in Expiries
    BY <1>0, KnownClient DEF Client, Expiries
  <2> HIDE DEF f
  <2> QED BY <1>1, <2>1, NewFlows
<1>3. Put(e, c)
  <2>1. [client[e] EXCEPT !.flow = f] = c
    <3>1. client[e] = [enable |-> client[e].enable, expiry |-> client[e].expiry,
                       flow |-> client[e].flow]
      BY <1>0, KnownClient
    <3> HIDE DEF f
    <3> QED BY <3>1
  <2> QED BY <2>1 DEF PanelDetaches
<1>4. /\ DOMAIN f = Attached(e) \ {i}
      /\ \A k \in Attached(e) \ {i} : f[k] = client[e].flow[k]
  OBVIOUS
<1>5. c.flow = f
  OBVIOUS
<1> HIDE DEF c, f
<1>6. \A k : Lacks(e, k)' => Lacks(e, k) /\ k # i
  BY <1>0, <1>2, <1>3, <1>4, <1>5, PutKeeps DEF Lacks, Attached
<1> QED BY <1>2, <1>3, <1>6, PutKeeps

LEMMA PanelUpdatesGives ==
    ASSUME client \in Clients, NEW e \in Emails, NEW targets \in SUBSET Inbounds,
           NEW d \in Expiries, PanelUpdates(e, targets, d)
    PROVE  /\ client' \in Clients /\ client'[e].expiry = d
           /\ \A x, k : Lacks(x, k)' => Lacks(x, k) /\ ~(x = e /\ k \in targets)
<1> DEFINE f == [x \in Attached(e) |->
                    IF x \in targets THEN FlowIf(TRUE, x) ELSE client[e].flow[x]]
           c == [enable |-> TRUE, expiry |-> d, flow |-> f]
<1>0. e \in Known
  BY DEF PanelUpdates
<1>1. f \in [Attached(e) -> Flows] /\ Attached(e) \subseteq Inbounds
  BY <1>0, FlowIfIsFlow, KnownClient
<1>2. c \in Client
  <2> HIDE DEF f
  <2> QED BY <1>1, NewFlows
<1>3. Put(e, c)
  BY DEF PanelUpdates
<1>4. /\ DOMAIN f = Attached(e)
      /\ \A k \in Attached(e) \cap targets \cap Eligible : f[k] = "vision"
      /\ \A k \in Attached(e) \ targets : f[k] = client[e].flow[k]
  BY DEF FlowIf
<1>5. c.flow = f /\ c.expiry = d
  OBVIOUS
<1> HIDE DEF c, f
<1>6. \A k : Lacks(e, k)' => Lacks(e, k) /\ k \notin targets
  BY <1>0, <1>2, <1>3, <1>4, <1>5, PutKeeps DEF Lacks, Attached
<1> QED BY <1>2, <1>3, <1>5, <1>6, PutKeeps

-----------------------------------------------------------------------------
(* Requests. *)

JobsFit == job \in [Admins -> Job] /\ \A a \in Admins : JobFits(job[a])

\* A request in its next phase, or over, while no inbound moves.
LEMMA JobContinues ==
    ASSUME JobsFit, NEW a \in Admins, NEW j \in Job, JobFits(j),
           job' = [job EXCEPT ![a] = j], UNCHANGED <<port, moves>>
    PROVE  /\ JobsFit' /\ job'[a] = j
           /\ \A b \in Admins \ {a} : job'[b] = job[b]
<1>1. job' \in [Admins -> Job] /\ job'[a] = j /\ \A b \in Admins \ {a} : job'[b] = job[b]
  BY DEF JobsFit
<1>2. ASSUME NEW b \in Admins PROVE JobFits(job[b])'
  <2>1. JobFits(job'[b])
    BY <1>1 DEF JobsFit
  <2> QED BY <2>1 DEF JobFits, TellsInbound
<1> QED BY <1>1, <1>2 DEF JobsFit

LEMMA IdleFits == Idle \in Job /\ JobFits(Idle)
<1>1. 0 \in 0..MaxMoves
  BY PanelAssumption
<1> QED BY <1>1 DEF Idle, Job, Phases, JobFits

\* What the type of a request says of its fields.
LEMMA JobFields ==
    ASSUME JobsFit, NEW a \in Admins
    PROVE  /\ job[a] \in Job /\ JobFits(job[a])
           /\ job[a].phase # "idle" => job[a].email \in Emails
           /\ job[a].phase \notin {"idle", "update"} => job[a].inbound \in Inbounds
           /\ job[a].phase \in {"create", "update", "setFlow"} => job[a].expiry \in Expiries
BY DEF JobsFit, JobFits

Attaching == {"clientsList", "fallbackList", "setFlow"}

OnlyOf(a) == \A b \in Admins \ {a} : job'[b] = job[b]

LEMMA FlowsByLacks ==
    FlowWhereNeeded <=> \A x, k : Lacks(x, k) => BeingAttached(x, k) \/ <<x, k>> \in owed
BY DEF FlowWhereNeeded, Lacks

LEMMA FlowsByLacksThen ==
    FlowWhereNeeded' <=> \A x, k : Lacks(x, k)' => BeingAttached(x, k)' \/ <<x, k>> \in owed'
BY DEF FlowWhereNeeded, Lacks

\* A request that attaches nothing loses no flow.
LEMMA FlowsStay ==
    ASSUME FlowWhereNeeded, NEW a \in Admins, OnlyOf(a), job[a].phase \notin Attaching,
           \A x, k : Lacks(x, k)' => /\ Lacks(x, k)
                                     /\ <<x, k>> \in owed => <<x, k>> \in owed'
    PROVE  FlowWhereNeeded'
<1>1. \A x, k : BeingAttached(x, k) => BeingAttached(x, k)'
  BY DEF BeingAttached, OnlyOf, Attaching
<1> QED BY <1>1, FlowsByLacks, FlowsByLacksThen

\* An attachment may lack its own flow while it is under way, or owed.
LEMMA FlowsStayButOne ==
    ASSUME FlowWhereNeeded, NEW a \in Admins, OnlyOf(a), owed \subseteq owed',
           NEW e, NEW i, job[a].phase \in Attaching => e = job[a].email /\ i = job[a].inbound,
           \A x, k : Lacks(x, k)' => Lacks(x, k) \/ (x = e /\ k = i),
           Lacks(e, i)' => BeingAttached(e, i)' \/ <<e, i>> \in owed'
    PROVE  FlowWhereNeeded'
<1>1. ASSUME NEW x, NEW k, ~(x = e /\ k = i), BeingAttached(x, k)
      PROVE  BeingAttached(x, k)'
  BY <1>1 DEF BeingAttached, OnlyOf, Attaching
<1> QED BY <1>1, FlowsByLacks, FlowsByLacksThen

LEMMA LacksStay == ASSUME UNCHANGED client PROVE \A x, k : Lacks(x, k)' <=> Lacks(x, k)
BY DEF Lacks, Known, Attached

LEMMA OweGives ==
    ASSUME NEW j, Owe(j), UNCHANGED client
    PROVE  /\ owed \subseteq owed' /\ owed' \subseteq owed \cup {<<j.email, j.inbound>>}
           /\ Lacks(j.email, j.inbound)' => <<j.email, j.inbound>> \in owed'
BY DEF Owe, Lacks, Known, Attached

\* The invariant after a step of a request, from its parts.
LEMMA RequestPreserves ==
    ASSUME PanelClientsInv, UNCHANGED <<port, moves>>, client' \in Clients,
           owed' \subseteq Emails \X Inbounds, JobsFit', FlowWhereNeeded'
    PROVE  PanelClientsInv'
BY DEF PanelClientsInv, PortsAreDistinct, JobsFit, Clients

LEMMA InvGives ==
    ASSUME PanelClientsInv
    PROVE  /\ client \in Clients /\ JobsFit /\ FlowWhereNeeded
           /\ port \in [Inbounds -> Ports] /\ PortsAreDistinct /\ moves \in 0..MaxMoves
           /\ owed \subseteq Emails \X Inbounds
BY DEF PanelClientsInv, Clients, JobsFit

LEMMA AnsweredEnds ==
    ASSUME JobsFit, NEW a \in Admins, Answered(a), UNCHANGED <<port, moves>>
    PROVE  JobsFit' /\ OnlyOf(a) /\ job'[a] = Idle
BY JobContinues, IdleFits DEF Answered, OnlyOf

-----------------------------------------------------------------------------
(* One lemma for each step of a request. *)

LEMMA CreatePreserves ==
    ASSUME PanelClientsInv, NEW a \in Admins, CreateClient(a)
    PROVE  PanelClientsInv'
<1>1. /\ job[a].phase = "create" /\ UNCHANGED <<port, moves, owed>> /\ Answered(a)
      /\ PanelAdds(job[a].email, job[a].inbound, job[a].expiry) \/ UNCHANGED client
  BY DEF CreateClient
<1>2. JobsFit' /\ OnlyOf(a)
  BY <1>1, InvGives, AnsweredEnds
<1>3. client' \in Clients /\ \A x, k : Lacks(x, k)' => Lacks(x, k)
  BY <1>1, InvGives, JobFields, PanelAddsGives, LacksStay
<1>4. FlowWhereNeeded'
  BY <1>1, <1>2, <1>3, InvGives, FlowsStay DEF Attaching
<1> QED BY <1>1, <1>2, <1>3, <1>4, InvGives, RequestPreserves

LEMMA UpdatePreserves ==
    ASSUME PanelClientsInv, NEW a \in Admins, UpdateClient(a)
    PROVE  PanelClientsInv'
<1>1. /\ job[a].phase = "update" /\ UNCHANGED <<port, moves, owed>> /\ Answered(a)
      /\ PanelUpdates(job[a].email, Inbounds, job[a].expiry) \/ UNCHANGED client
  BY DEF UpdateClient
<1>2. JobsFit' /\ OnlyOf(a)
  BY <1>1, InvGives, AnsweredEnds
<1>3. client' \in Clients /\ \A x, k : Lacks(x, k)' => Lacks(x, k)
  BY <1>1, InvGives, JobFields, PanelUpdatesGives, LacksStay
<1>4. FlowWhereNeeded'
  BY <1>1, <1>2, <1>3, InvGives, FlowsStay DEF Attaching
<1> QED BY <1>1, <1>2, <1>3, <1>4, InvGives, RequestPreserves

LEMMA DetachPreserves ==
    ASSUME PanelClientsInv, NEW a \in Admins, DetachClient(a)
    PROVE  PanelClientsInv'
<1> DEFINE e == job[a].email
           i == job[a].inbound
<1>1. /\ job[a].phase = "detach" /\ UNCHANGED <<port, moves>> /\ Answered(a)
      /\ \/ PanelDetaches(e, i) /\ owed' = owed \ {<<e, i>>}
         \/ UNCHANGED <<client, owed>>
  BY DEF DetachClient
<1>2. JobsFit' /\ OnlyOf(a)
  BY <1>1, InvGives, AnsweredEnds
<1>3. /\ client' \in Clients
      /\ \A x, k : Lacks(x, k)' => Lacks(x, k) /\ (<<x, k>> \in owed => <<x, k>> \in owed')
  <2>1. e \in Emails /\ i \in Inbounds
    BY <1>1, InvGives, JobFields
  <2>2. CASE PanelDetaches(e, i) /\ owed' = owed \ {<<e, i>>}
    BY <2>1, <2>2, InvGives, PanelDetachesGives
  <2>3. CASE UNCHANGED <<client, owed>>
    BY <2>3, InvGives, LacksStay
  <2> QED BY <1>1, <2>2, <2>3
<1>4. FlowWhereNeeded'
  BY <1>1, <1>2, <1>3, InvGives, FlowsStay DEF Attaching
<1> QED BY <1>1, <1>2, <1>3, <1>4, InvGives, RequestPreserves

LEMMA AttachPreserves ==
    ASSUME PanelClientsInv, NEW a \in Admins, AttachClient(a)
    PROVE  PanelClientsInv'
<1>0. PICK e, i : e = job[a].email /\ i = job[a].inbound
  OBVIOUS
<1> DEFINE next == [job[a] EXCEPT !.phase = "clientsList"]
<1>1. job[a].phase = "attach" /\ UNCHANGED <<port, moves>>
  BY DEF AttachClient
<1>2. e \in Emails /\ i \in Inbounds /\ job[a] \in Job
  BY <1>0, <1>1, InvGives, JobFields
<1>3. CASE PanelAttaches(e, i) /\ Continue(a, next) /\ UNCHANGED owed
  <2>1. next \in Job /\ next.phase = "clientsList" /\ next.email = e /\ next.inbound = i
    BY <1>0, <1>2 DEF Job, Phases
  <2> HIDE DEF next
  <2>2. JobFits(next)
    BY <1>2, <2>1 DEF JobFits
  <2>3. JobsFit' /\ OnlyOf(a) /\ job'[a] = next
    BY <1>1, <1>3, <2>1, <2>2, InvGives, JobContinues DEF Continue, OnlyOf
  <2>4. client' \in Clients /\ \A x, k : Lacks(x, k)' => Lacks(x, k) \/ (x = e /\ k = i)
    BY <1>2, <1>3, InvGives, PanelAttachesGives
  <2>5. BeingAttached(e, i)'
    BY <2>1, <2>3 DEF BeingAttached
  <2>6. FlowWhereNeeded'
    <3>1. Lacks(e, i)' => BeingAttached(e, i)' \/ <<e, i>> \in owed'
      BY <2>5
    <3>2. owed \subseteq owed' /\ FlowWhereNeeded
      BY <1>3, InvGives
    <3> QED BY <1>0, <2>3, <2>4, <3>1, <3>2, FlowsStayButOne
  <2> QED BY <1>1, <1>3, <2>3, <2>4, <2>6, InvGives, RequestPreserves
<1>4. CASE PanelAttaches(e, i) /\ Answered(a) /\ owed' = owed \cup {<<e, i>>}
  <2>1. JobsFit' /\ OnlyOf(a)
    BY <1>1, <1>4, InvGives, AnsweredEnds
  <2>2. client' \in Clients /\ \A x, k : Lacks(x, k)' => Lacks(x, k) \/ (x = e /\ k = i)
    BY <1>2, <1>4, InvGives, PanelAttachesGives
  <2>3. FlowWhereNeeded'
    <3>1. FlowWhereNeeded /\ owed \subseteq owed' /\ <<e, i>> \in owed'
      BY <1>4, InvGives
    <3> QED BY <1>0, <2>1, <2>2, <3>1, FlowsStayButOne
  <2> QED BY <1>1, <1>2, <1>4, <2>1, <2>2, <2>3, InvGives, RequestPreserves
<1>5. CASE Answered(a) /\ UNCHANGED <<client, owed>>
  <2>1. JobsFit' /\ OnlyOf(a)
    BY <1>1, <1>5, InvGives, AnsweredEnds
  <2>2. FlowWhereNeeded'
    BY <1>1, <1>5, <2>1, InvGives, LacksStay, FlowsStay DEF Attaching
  <2> QED BY <1>1, <1>5, <2>1, <2>2, InvGives, RequestPreserves
<1> QED BY <1>0, <1>3, <1>4, <1>5 DEF AttachClient, MayBeLost

\* An attachment that ends with an error, the clients as they are.
LEMMA OwingPreserves ==
    ASSUME PanelClientsInv, NEW a \in Admins, Answered(a), Owe(job[a]),
           job[a].phase \in Attaching, UNCHANGED panelVars
    PROVE  PanelClientsInv'
<1>1. JobsFit' /\ OnlyOf(a) /\ UNCHANGED <<client, port, moves>>
  BY InvGives, AnsweredEnds DEF panelVars
<1>2. job[a].email \in Emails /\ job[a].inbound \in Inbounds
  BY InvGives, JobFields DEF Attaching
<1>3. FlowWhereNeeded'
  BY <1>1, InvGives, OweGives, LacksStay, FlowsStayButOne
<1>4. owed' \subseteq owed \cup {<<job[a].email, job[a].inbound>>}
  BY <1>1, OweGives
<1>5. owed' \subseteq Emails \X Inbounds
  BY <1>2, <1>4, InvGives
<1> QED BY <1>1, <1>3, <1>5, InvGives, RequestPreserves

\* A step of a request that touches neither the panel nor what is owed.
LEMMA ContinuePreserves ==
    ASSUME PanelClientsInv, NEW a \in Admins, NEW next \in Job, JobFits(next),
           Continue(a, next), UNCHANGED <<panelVars, owed>>,
           job[a].phase \in Attaching => /\ next.phase \in Attaching
                                         /\ next.email = job[a].email
                                         /\ next.inbound = job[a].inbound
    PROVE  PanelClientsInv'
<1>1. JobsFit' /\ OnlyOf(a) /\ job'[a] = next /\ UNCHANGED <<client, port, moves>>
  BY InvGives, JobContinues DEF Continue, OnlyOf, panelVars
<1>2. \A x, k : BeingAttached(x, k) => BeingAttached(x, k)'
  BY <1>1 DEF BeingAttached, OnlyOf, Attaching
<1>3. FlowWhereNeeded'
  BY <1>1, <1>2, InvGives, LacksStay, FlowsByLacks, FlowsByLacksThen
<1> QED BY <1>1, <1>3, InvGives, RequestPreserves

LEMMA ListDirectPreserves ==
    ASSUME PanelClientsInv, NEW a \in Admins, ListClientsDirect(a)
    PROVE  PanelClientsInv'
<1> DEFINE j == job[a]
           found == [j EXCEPT !.phase = "setFlow", !.expiry = client[j.email].expiry,
                              !.had = client[j.email].expiry]
           fallback == [j EXCEPT !.phase = "fallbackList"]
<1>1. j.phase = "clientsList" /\ UNCHANGED panelVars
  BY DEF ListClientsDirect
<1>2. j \in Job /\ j.email \in Emails /\ j.inbound \in Inbounds
  BY <1>1, InvGives, JobFields
<1>3. CASE j.email \in Known /\ Continue(a, found) /\ UNCHANGED owed
  <2>1. client[j.email].expiry \in Expiries
    BY <1>3, InvGives, KnownClient DEF Client, Expiries
  <2>2. /\ found \in Job /\ found.phase = "setFlow" /\ found.expiry \in Expiries
        /\ found.had = found.expiry /\ found.email = j.email /\ found.inbound = j.inbound
    BY <1>2, <2>1 DEF Job, Phases
  <2> HIDE DEF found
  <2>3. JobFits(found)
    BY <1>2, <2>2 DEF JobFits
  <2> QED BY <1>1, <1>3, <2>2, <2>3, ContinuePreserves DEF Attaching
<1>4. CASE Answered(a) /\ Owe(j)
  BY <1>1, <1>4, OwingPreserves DEF Attaching
<1>5. CASE Continue(a, fallback) /\ UNCHANGED owed
  <2>1. /\ fallback \in Job /\ fallback.phase = "fallbackList"
        /\ fallback.email = j.email /\ fallback.inbound = j.inbound
    BY <1>2 DEF Job, Phases
  <2> HIDE DEF fallback
  <2>2. JobFits(fallback)
    BY <1>2, <2>1 DEF JobFits
  <2> QED BY <1>1, <1>5, <2>1, <2>2, ContinuePreserves DEF Attaching
<1>6. (j.email \in Known /\ Continue(a, found) /\ UNCHANGED owed) \/ (Answered(a) /\ Owe(j))
      \/ (Continue(a, fallback) /\ UNCHANGED owed)
  BY DEF ListClientsDirect, GetClientStats, ListedExpiry
<1> QED BY <1>3, <1>4, <1>5, <1>6

LEMMA ListFromInboundsPreserves ==
    ASSUME PanelClientsInv, NEW a \in Admins, ListClientsFromInbounds(a)
    PROVE  PanelClientsInv'
<1> DEFINE j == job[a]
           found == [j EXCEPT !.phase = "setFlow", !.expiry = 0, !.had = Nothing]
<1>1. j.phase = "fallbackList" /\ UNCHANGED panelVars
  BY DEF ListClientsFromInbounds
<1>2. j \in Job /\ j.email \in Emails /\ j.inbound \in Inbounds
  BY <1>1, InvGives, JobFields
<1>3. CASE Continue(a, found) /\ UNCHANGED owed
  <2>1. /\ found \in Job /\ found.phase = "setFlow" /\ found.expiry \in Expiries
        /\ found.had = Nothing /\ found.email = j.email /\ found.inbound = j.inbound
    BY <1>2 DEF Job, Phases, Expiries
  <2> HIDE DEF found
  <2>2. JobFits(found)
    BY <1>2, <2>1 DEF JobFits
  <2> QED BY <1>1, <1>3, <2>1, <2>2, ContinuePreserves DEF Attaching
<1>4. CASE Answered(a) /\ Owe(j)
  BY <1>1, <1>4, OwingPreserves DEF Attaching
<1>5. (Continue(a, found) /\ UNCHANGED owed) \/ (Answered(a) /\ Owe(j))
  BY DEF ListClientsFromInbounds, GetClientStats, ListedExpiry
<1> QED BY <1>3, <1>4, <1>5

LEMMA SetFlowPreserves ==
    ASSUME PanelClientsInv, NEW a \in Admins, SetClientFlow(a)
    PROVE  PanelClientsInv'
<1>0. PICK e, i, d : e = job[a].email /\ i = job[a].inbound /\ d = job[a].expiry
  OBVIOUS
<1>1. job[a].phase = "setFlow" /\ Answered(a) /\ UNCHANGED <<port, moves>>
  BY DEF SetClientFlow
<1>2. e \in Emails /\ i \in Inbounds /\ d \in Expiries
  BY <1>0, <1>1, InvGives, JobFields
<1>3. CASE PanelUpdates(e, {i}, d) /\ UNCHANGED owed
  <2>1. JobsFit' /\ OnlyOf(a)
    BY <1>1, InvGives, AnsweredEnds
  <2>2. client' \in Clients /\ \A x, k : Lacks(x, k)' => Lacks(x, k) /\ ~(x = e /\ k = i)
    <3>1. {i} \in SUBSET Inbounds
      BY <1>2
    <3>2. \A x, k : Lacks(x, k)' => Lacks(x, k) /\ ~(x = e /\ k \in {i})
      BY <1>2, <1>3, <3>1, InvGives, PanelUpdatesGives
    <3> QED BY <1>2, <1>3, <3>1, <3>2, InvGives, PanelUpdatesGives
  <2>3. FlowWhereNeeded'
    <3>1. owed \subseteq owed' /\ FlowWhereNeeded
      BY <1>3, InvGives
    <3> QED BY <1>0, <2>1, <2>2, <3>1, FlowsStayButOne
  <2> QED BY <1>1, <1>3, <2>1, <2>2, <2>3, InvGives, RequestPreserves
<1>4. CASE Owe(job[a]) /\ UNCHANGED client
  BY <1>1, <1>4, OwingPreserves DEF panelVars, Attaching
<1> QED BY <1>0, <1>3, <1>4 DEF SetClientFlow

LEMMA ListForPortPreserves ==
    ASSUME PanelClientsInv, NEW a \in Admins, ListForPort(a)
    PROVE  PanelClientsInv'
<1> DEFINE j == job[a]
           next == [j EXCEPT !.phase = "inboundsAgain", !.port = port[j.inbound]]
<1>1. j.phase = "inbounds" /\ Continue(a, next) /\ UNCHANGED <<panelVars, owed>>
  BY DEF ListForPort
<1>2. j \in Job /\ j.email \in Emails /\ j.inbound \in Inbounds /\ j.since <= moves
  BY <1>1, InvGives, JobFields DEF JobFits
<1>3. port[j.inbound] \in Ports /\ \A i \in Inbounds : port[i] = port[j.inbound] => i = j.inbound
  BY <1>2, InvGives DEF PortsAreDistinct
<1>4. /\ next \in Job /\ next.phase = "inboundsAgain" /\ next.port = port[j.inbound]
      /\ next.email = j.email /\ next.inbound = j.inbound /\ next.since = j.since
  BY <1>2, <1>3 DEF Job, Phases
<1> HIDE DEF next
<1>5. JobFits(next)
  BY <1>2, <1>3, <1>4 DEF JobFits, TellsInbound
<1> QED BY <1>1, <1>4, <1>5, ContinuePreserves DEF Attaching

LEMMA InboundsListIsListing ==
    ASSUME client \in Clients, port \in [Inbounds -> Ports]
    PROVE  InboundsList \in Listing /\ InboundsList.port = port
<1> DEFINE flows == [e \in Known |-> client[e].flow]
<1>1. \A e \in Known : e \in Emails /\ client[e].flow \in PartialOn(Inbounds, Flows)
  BY KnownClient
<1>2. flows \in PartialOn(Emails, PartialOn(Inbounds, Flows))
  <2>1. /\ DOMAIN flows \subseteq Emails /\ flows = [e \in DOMAIN flows |-> flows[e]]
        /\ \A e \in DOMAIN flows : flows[e] \in PartialOn(Inbounds, Flows)
    BY <1>1
  <2> HIDE DEF flows
  <2> QED BY <2>1, PartialOnMakes
<1>3. InboundsList = [port |-> port, flow |-> flows]
  BY DEF InboundsList
<1> HIDE DEF flows
<1> QED BY <1>2, <1>3 DEF Listing

LEMMA ListForKeysPreserves ==
    ASSUME PanelClientsInv, NEW a \in Admins, ListForKeys(a)
    PROVE  PanelClientsInv'
<1> DEFINE j == job[a]
           again == [j EXCEPT !.phase = "links", !.inbounds = InboundsList]
           once == [j EXCEPT !.phase = "links", !.port = port[j.inbound], !.inbounds = InboundsList]
<1>1. /\ j.phase \in {"inboundsAgain", "inboundsOnce"} /\ UNCHANGED <<panelVars, owed>>
      /\ \/ j.phase = "inboundsAgain" /\ Continue(a, again)
         \/ j.phase = "inboundsOnce" /\ Continue(a, once)
  BY DEF ListForKeys
<1>2. j \in Job /\ JobFits(j) /\ j.email \in Emails /\ j.inbound \in Inbounds /\ j.since <= moves
  BY <1>1, InvGives, JobFields DEF JobFits
<1>3. InboundsList \in Listing /\ InboundsList.port = port
  BY InvGives, InboundsListIsListing
<1>4. CASE j.phase = "inboundsAgain" /\ Continue(a, again)
  <2>1. /\ again \in Job /\ again.phase = "links" /\ again.port = j.port
        /\ again.inbounds = InboundsList
        /\ again.email = j.email /\ again.inbound = j.inbound /\ again.since = j.since
    BY <1>2, <1>3 DEF Job, Phases
  <2> HIDE DEF again
  <2>2. TellsInbound(port, j) /\ (moves = j.since => port[j.inbound] = j.port)
    BY <1>2, <1>4 DEF JobFits
  <2>3. JobFits(again)
    BY <1>2, <1>3, <2>1, <2>2 DEF JobFits, TellsInbound
  <2> QED BY <1>1, <1>4, <2>1, <2>3, ContinuePreserves DEF Attaching
<1>5. CASE j.phase = "inboundsOnce" /\ Continue(a, once)
  <2>1. port[j.inbound] \in Ports
        /\ \A i \in Inbounds : port[i] = port[j.inbound] => i = j.inbound
    BY <1>2, InvGives DEF PortsAreDistinct
  <2>2. /\ once \in Job /\ once.phase = "links" /\ once.port = port[j.inbound]
        /\ once.inbounds = InboundsList
        /\ once.email = j.email /\ once.inbound = j.inbound /\ once.since = j.since
    BY <1>2, <1>3, <2>1 DEF Job, Phases
  <2> HIDE DEF once
  <2>3. JobFits(once)
    BY <1>2, <1>3, <2>1, <2>2 DEF JobFits, TellsInbound
  <2> QED BY <1>1, <1>5, <2>2, <2>3, ContinuePreserves DEF Attaching
<1> QED BY <1>1, <1>4, <1>5

LEMMA UnansweredPreserves ==
    ASSUME PanelClientsInv, NEW a \in Admins, Unanswered(a)
    PROVE  PanelClientsInv'
<1>1. /\ Answered(a) /\ UNCHANGED panelVars /\ job[a].phase # "clientsList"
      /\ IF job[a].phase \in {"fallbackList", "setFlow"} THEN Owe(job[a]) ELSE UNCHANGED owed
  BY DEF Unanswered
<1>2. CASE job[a].phase \in {"fallbackList", "setFlow"}
  BY <1>1, <1>2, OwingPreserves DEF Attaching
<1>3. CASE job[a].phase \notin {"fallbackList", "setFlow"}
  BY <1>1, <1>3, IdleFits, ContinuePreserves DEF Answered, Continue, Attaching
<1> QED BY <1>2, <1>3

LEMMA LinksPreserves ==
    ASSUME PanelClientsInv, NEW a \in Admins, Links(a)
    PROVE  PanelClientsInv'
BY IdleFits, ContinuePreserves DEF Links, Answered, Continue, Attaching

\* A request begins, with the fields that its kind uses.
LEMMA BeginPreserves ==
    ASSUME PanelClientsInv, NEW a \in Admins, NEW next \in Job, Begin(a, next),
           next.phase \in {"create", "update", "attach", "detach", "inbounds", "inboundsOnce"},
           next.email \in Emails,
           next.phase # "update" => next.inbound \in Inbounds,
           next.phase \in {"create", "update"} => next.expiry \in Expiries,
           next.phase \in {"inbounds", "inboundsOnce"} => next.since = moves
    PROVE  PanelClientsInv'
<1>1. job[a].phase = "idle" /\ Continue(a, next) /\ UNCHANGED <<panelVars, owed>>
  BY DEF Begin, Idle, Continue
<1>2. JobFits(next)
  <2>1. moves <= moves
    BY InvGives, PanelAssumption
  <2> QED BY <2>1 DEF JobFits
<1> QED BY <1>1, <1>2, ContinuePreserves DEF Attaching

LEMMA RequestStartPreserves ==
    ASSUME PanelClientsInv, NEW a \in Admins, Request(a)
    PROVE  PanelClientsInv'
<1> DEFINE About(phase, e, i) == [Idle EXCEPT !.phase = phase, !.email = e, !.inbound = i]
           Create(e, i, d) == [About("create", e, i) EXCEPT !.expiry = d]
           Update(e, i, d) == [About("update", e, i) EXCEPT !.expiry = d, !.inbound = Nothing]
           Keys(phase, e, i) == [About(phase, e, i) EXCEPT !.since = moves]
<1>1. PICK e \in Emails, i \in Inbounds, d \in Dates \cup {0} :
        \/ Begin(a, Create(e, i, d)) \/ Begin(a, Update(e, i, d))
        \/ \E phase \in {"attach", "detach"} : Begin(a, About(phase, e, i))
        \/ \E phase \in {"inbounds", "inboundsOnce"} : Begin(a, Keys(phase, e, i))
  BY DEF Request
<1>2. d \in Expiries /\ moves \in 0..MaxMoves
  BY InvGives DEF Expiries
<1>3. ASSUME NEW phase \in Phases
      PROVE  /\ About(phase, e, i) \in Job
             /\ About(phase, e, i).phase = phase /\ About(phase, e, i).email = e
             /\ About(phase, e, i).inbound = i
  <2>1. Idle \in Job
    BY IdleFits
  <2> QED BY <2>1 DEF Job
<1> HIDE DEF About
<1>4. CASE Begin(a, Create(e, i, d))
  <2>1. "create" \in Phases
    BY DEF Phases
  <2>2. /\ Create(e, i, d) \in Job /\ Create(e, i, d).phase = "create"
        /\ Create(e, i, d).email = e /\ Create(e, i, d).inbound = i
        /\ Create(e, i, d).expiry = d
    BY <1>2, <1>3, <2>1 DEF Job
  <2> HIDE DEF Create
  <2> QED BY <1>2, <1>4, <2>2, BeginPreserves
<1>5. CASE Begin(a, Update(e, i, d))
  <2>1. "update" \in Phases
    BY DEF Phases
  <2>2. /\ Update(e, i, d) \in Job /\ Update(e, i, d).phase = "update"
        /\ Update(e, i, d).email = e /\ Update(e, i, d).expiry = d
    <3>1. PICK r \in Job : r = About("update", e, i) /\ r.phase = "update" /\ r.email = e
      BY <1>3, <2>1
    <3>2. Update(e, i, d) = [r EXCEPT !.expiry = d, !.inbound = Nothing]
      BY <3>1
    <3> HIDE DEF Update
    <3> QED BY <1>2, <3>1, <3>2 DEF Job
  <2> HIDE DEF Update
  <2> QED BY <1>2, <1>5, <2>2, BeginPreserves
<1>6. ASSUME NEW phase \in {"attach", "detach"}, Begin(a, About(phase, e, i))
      PROVE  PanelClientsInv'
  <2>1. phase \in Phases
    BY DEF Phases
  <2> QED BY <1>3, <1>6, <2>1, BeginPreserves
<1>7. ASSUME NEW phase \in {"inbounds", "inboundsOnce"}, Begin(a, Keys(phase, e, i))
      PROVE  PanelClientsInv'
  <2>1. phase \in Phases
    BY DEF Phases
  <2>2. /\ Keys(phase, e, i) \in Job /\ Keys(phase, e, i).phase = phase
        /\ Keys(phase, e, i).email = e /\ Keys(phase, e, i).inbound = i
        /\ Keys(phase, e, i).since = moves
    BY <1>2, <1>3, <2>1 DEF Job
  <2> HIDE DEF Keys
  <2> QED BY <1>7, <2>2, BeginPreserves
<1> HIDE DEF Create, Update, Keys
<1> QED BY <1>1, <1>4, <1>5, <1>6, <1>7

-----------------------------------------------------------------------------
(* The panel's own side. *)

LEMMA DisablesOrDates ==
    ASSUME client \in Clients, NEW e \in Known, NEW d \in Expiries,
           \/ Put(e, [client[e] EXCEPT !.enable = FALSE])
           \/ Put(e, [client[e] EXCEPT !.expiry = d])
    PROVE  client' \in Clients /\ \A x, k : Lacks(x, k)' => Lacks(x, k)
<1>1. PICK c \in {[client[e] EXCEPT !.enable = FALSE], [client[e] EXCEPT !.expiry = d]} :
        Put(e, c)
  OBVIOUS
<1>2. e \in Emails /\ client[e] \in Client
  BY KnownClient
<1>3. c \in Client /\ c.flow = client[e].flow
  BY <1>2 DEF Client, Expiries
<1>4. \A k : Lacks(e, k)' => Lacks(e, k)
  BY <1>1, <1>2, <1>3, PutKeeps DEF Lacks, Attached
<1> QED BY <1>1, <1>2, <1>3, <1>4, PutKeeps

LEMMA PanelSidePreserves ==
    ASSUME PanelClientsInv, PanelSide
    PROVE  PanelClientsInv'
<1>1. UNCHANGED job
  BY DEF PanelSide
<1>2. \A x, k : BeingAttached(x, k) => BeingAttached(x, k)'
  BY <1>1 DEF BeingAttached
<1>3. UNCHANGED <<port, moves>> => JobsFit'
  BY <1>1, InvGives DEF JobsFit, JobFits, TellsInbound
<1>4. ASSUME NEW e \in Known, NEW d \in Expiries, UNCHANGED <<port, moves, owed>>,
             \/ Put(e, [client[e] EXCEPT !.enable = FALSE])
             \/ Put(e, [client[e] EXCEPT !.expiry = d])
      PROVE  PanelClientsInv'
  <2>1. client' \in Clients /\ \A x, k : Lacks(x, k)' => Lacks(x, k)
    BY <1>4, InvGives, DisablesOrDates
  <2>2. FlowWhereNeeded'
    BY <1>2, <1>4, <2>1, InvGives, FlowsByLacks, FlowsByLacksThen
  <2> QED BY <1>3, <1>4, <2>1, <2>2, InvGives, RequestPreserves
<1>5. ASSUME NEW e \in Known, UNCHANGED <<port, moves>>,
             client' = [x \in Known \ {e} |-> client[x]], owed' = {o \in owed : o[1] # e}
      PROVE  PanelClientsInv'
  <2>1. \A x \in Known : x \in Emails /\ client[x] \in Client
    BY InvGives, KnownClient
  <2>2. client' \in Clients
    <3>1. /\ DOMAIN client' \subseteq Emails /\ client' = [x \in DOMAIN client' |-> client'[x]]
          /\ \A x \in DOMAIN client' : client'[x] \in Client
      BY <1>5, <2>1
    <3> QED BY <3>1, PartialOnMakes DEF Clients
  <2>3. \A x, k : Lacks(x, k)' => Lacks(x, k) /\ x # e
    BY <1>5 DEF Lacks, Known, Attached
  <2>4. \A x, k : x # e /\ <<x, k>> \in owed => <<x, k>> \in owed'
    BY <1>5
  <2>5. FlowWhereNeeded'
    BY <1>2, <2>3, <2>4, InvGives, FlowsByLacks, FlowsByLacksThen
  <2>6. owed' \subseteq Emails \X Inbounds
    BY <1>5, InvGives
  <2> QED BY <1>3, <1>5, <2>2, <2>5, <2>6, InvGives, RequestPreserves
<1>6. ASSUME NEW i \in Inbounds, NEW p \in Ports, moves < MaxMoves, moves' = moves + 1,
             \A j \in Inbounds : port[j] # p, port' = [port EXCEPT ![i] = p],
             UNCHANGED <<client, owed>>
      PROVE  PanelClientsInv'
  <2>1. /\ port' \in [Inbounds -> Ports] /\ PortsAreDistinct' /\ moves' \in 0..MaxMoves
    BY <1>6, InvGives, PanelAssumption DEF PortsAreDistinct
  <2>2. FlowWhereNeeded'
    BY <1>2, <1>6, InvGives, LacksStay, FlowsByLacks, FlowsByLacksThen
  <2>3. ASSUME NEW a \in Admins PROVE JobFits(job[a])'
    <3> DEFINE j == job[a]
    <3>1. JobFits(j) /\ j.since \in 0..MaxMoves /\ moves \in 0..MaxMoves
      BY InvGives, JobFields DEF Job
    <3>2. CASE j.phase \notin {"inbounds", "inboundsOnce", "inboundsAgain", "links"}
      BY <1>1, <3>1, <3>2 DEF JobFits
    <3>3. CASE j.phase \in {"inbounds", "inboundsOnce"}
      BY <1>1, <1>6, <3>1, <3>3, PanelAssumption DEF JobFits
    <3>4. CASE j.phase \in {"inboundsAgain", "links"}
      <4>1. j.since <= moves /\ j.inbound \in Inbounds /\ TellsInbound(port, j)
            /\ (moves = j.since => port[j.inbound] = j.port)
        BY <3>1, <3>4 DEF JobFits
      <4>2. moves' <= j.since + 1 => moves = j.since
        BY <1>6, <3>1, <4>1, PanelAssumption
      <4>3. moves' <= j.since + 1 => \A k \in Inbounds : port'[k] = j.port => k = j.inbound
        <5> SUFFICES ASSUME moves = j.since, NEW k \in Inbounds, port'[k] = j.port
                     PROVE  k = j.inbound
          BY <4>2
        <5>1. port[j.inbound] = j.port
          BY <4>1
        <5>2. k # i
          BY <1>6, <4>1, <5>1, InvGives
        <5> QED BY <1>6, <4>1, <5>1, <5>2, InvGives DEF PortsAreDistinct
      <4>4. j.since <= moves' /\ moves' # j.since
        BY <1>6, <3>1, <4>1, PanelAssumption
      <4>5. j.phase = "links" => TellsInbound(j.inbounds.port, j)'
        <5> SUFFICES ASSUME j.phase = "links", moves' <= j.since + 1
                     PROVE  \A k \in Inbounds : j.inbounds.port[k] = j.port => k = j.inbound
          BY <1>1 DEF TellsInbound
        <5> QED BY <3>1, <1>6, <4>2, PanelAssumption DEF JobFits, TellsInbound
      <4> HIDE DEF j
      <4>6. j' = j
        BY <1>1 DEF j
      <4>7. TellsInbound(port, j)'
        BY <4>3, <4>6 DEF TellsInbound
      <4>8. JobFits(j)'
        BY <3>1, <3>4, <4>4, <4>5, <4>6, <4>7 DEF JobFits
      <4> QED BY <4>8 DEF j
    <3> QED BY <3>2, <3>3, <3>4
  <2>4. job' \in [Admins -> Job]
    BY <1>1, InvGives DEF JobsFit
  <2> QED BY <1>6, <2>1, <2>2, <2>3, <2>4, InvGives DEF PanelClientsInv, Clients
<1>7. 0 \in Expiries
  BY DEF Expiries
<1>8. \/ \E e \in Known, d \in Expiries :
           /\ UNCHANGED <<port, moves, owed>>
           /\ \/ Put(e, [client[e] EXCEPT !.enable = FALSE])
              \/ Put(e, [client[e] EXCEPT !.expiry = d])
      \/ \E e \in Known : /\ UNCHANGED <<port, moves>>
                          /\ client' = [x \in Known \ {e} |-> client[x]]
                          /\ owed' = {o \in owed : o[1] # e}
      \/ \E i \in Inbounds, p \in Ports :
           /\ moves < MaxMoves /\ moves' = moves + 1 /\ \A j \in Inbounds : port[j] # p
           /\ port' = [port EXCEPT ![i] = p] /\ UNCHANGED <<client, owed>>
  BY <1>7 DEF PanelSide, Expiries
<1> QED BY <1>4, <1>5, <1>6, <1>8

-----------------------------------------------------------------------------
(* Theorems. *)

LEMMA NextPreserves == PanelClientsInv /\ [Next]_vars => PanelClientsInv'
<1> SUFFICES ASSUME PanelClientsInv, [Next]_vars PROVE PanelClientsInv'
  OBVIOUS
<1>1. CASE UNCHANGED vars
  <2>1. UNCHANGED <<client, port, moves, job, owed>>
    BY <1>1 DEF vars
  <2>2. JobsFit'
    BY <2>1, InvGives DEF JobsFit, JobFits, TellsInbound
  <2>3. FlowWhereNeeded'
    BY <2>1, InvGives DEF FlowWhereNeeded, Known, Attached, BeingAttached
  <2> QED BY <2>1, <2>2, <2>3, InvGives, RequestPreserves
<1>2. CASE PanelSide
  BY <1>2, PanelSidePreserves
<1>3. ASSUME NEW a \in Admins,
             \/ Request(a) \/ Unanswered(a)
             \/ CreateClient(a) \/ UpdateClient(a) \/ DetachClient(a) \/ AttachClient(a)
             \/ ListClientsDirect(a) \/ ListClientsFromInbounds(a) \/ SetClientFlow(a)
             \/ ListForPort(a) \/ ListForKeys(a) \/ Links(a)
      PROVE  PanelClientsInv'
  BY <1>3, RequestStartPreserves, UnansweredPreserves, CreatePreserves, UpdatePreserves,
     DetachPreserves, AttachPreserves, ListDirectPreserves, ListFromInboundsPreserves,
     SetFlowPreserves, ListForPortPreserves, ListForKeysPreserves, LinksPreserves
<1> QED BY <1>1, <1>2, <1>3 DEF Next

LEMMA InitHolds == Init => PanelClientsInv
<1> SUFFICES ASSUME Init PROVE PanelClientsInv
  OBVIOUS
<1>1. client \in PartialOn(Emails, Client) /\ Known = {}
  <2>1. Known = {} /\ DOMAIN client \subseteq Emails /\ client = [x \in DOMAIN client |-> client[x]]
        /\ \A x \in DOMAIN client : client[x] \in Client
    BY DEF Init, Known
  <2> QED BY <2>1, PartialOnMakes
<1>2. \A a \in Admins : job[a] = Idle
  BY DEF Init
<1>3. job \in [Admins -> Job] /\ \A a \in Admins : JobFits(job[a])
  BY <1>2, IdleFits DEF Init
<1> QED BY <1>1, <1>3, PanelAssumption
        DEF Init, PanelClientsInv, PortsAreDistinct, FlowWhereNeeded

\* The invariant holds, for any number of clients, inbounds, ports and
\* requests at a time, whichever answers are missing.
THEOREM PanelClientsInvariant == Spec => []PanelClientsInv
BY InitHolds, NextPreserves, PTL DEF Spec

\* The type invariant.
THEOREM PanelClientsTypes == Spec => []TypeOK
<1>1. PanelClientsInv => TypeOK
  <2> SUFFICES ASSUME PanelClientsInv, NEW a \in Admins
               PROVE  /\ job[a].email \in Emails \cup {Nothing}
                      /\ job[a].inbound \in Inbounds \cup {Nothing}
                      /\ {job[a].expiry, job[a].had} \subseteq Dates \cup {0, Nothing}
                      /\ job[a].port \in Ports \cup {Nothing} /\ job[a].since \in 0..MaxMoves
    BY DEF PanelClientsInv, TypeOK
  <2> QED BY InvGives, JobFields DEF Job, Expiries
<1> QED BY <1>1, PanelClientsInvariant, PTL

\* An inbound that needs a flow has it, whichever handlers, changes and lost
\* answers come between attaching the client and setting its flow, unless the
\* attachment goes on or was reported as failed.
THEOREM NeededFlowIsThere == Spec => []FlowWhereNeeded
BY PanelClientsInvariant, PTL DEF PanelClientsInv

\* The link that the panel makes for a port is for the inbound that has it.
LEMMA PanelLinkAtPort ==
    ASSUME PanelClientsInv, NEW e \in Known, NEW p \in DOMAIN GetClientLinks(e)
    PROVE  \E i \in Inbounds : port[i] = p /\ GetClientLinks(e)[p].inbound = i
<1> DEFINE mine == {i \in Inbounds : Lists(InboundsList, i, e)}
           i == CHOOSE x \in mine : port[x] = p
<1>1. p \in {port[x] : x \in mine} /\ GetClientLinks(e)[p] = LinkOf(InboundsList, i, e)
  BY DEF GetClientLinks
<1>2. i \in mine /\ port[i] = p
  BY <1>1
<1>3. LinkOf(InboundsList, i, e).inbound = i
  BY DEF LinkOf
<1> QED BY <1>1, <1>2, <1>3

\* A key leads to the inbound it was asked for, unless two inbounds or more
\* moved during the request.
THEOREM KeysLeadToTheirInbound == Spec => []KeyIsOfItsInbound
<1>1. PanelClientsInv => KeyIsOfItsInbound
  <2> SUFFICES ASSUME PanelClientsInv, NEW a \in Admins, job[a].phase = "links",
                      NEW links \in {NoLinks} \cup
                                    {GetClientLinks(e) : e \in {job[a].email} \cap Known},
                      NEW k \in KeysAt(BuildClientKeys(job[a].inbounds, links, job[a].email),
                                       job[a].port),
                      ~ moves > job[a].since + 1
               PROVE  k.link.inbound = job[a].inbound
    BY DEF KeyIsOfItsInbound
  <2> DEFINE j == job[a]
  <2>1. /\ j.since \in 0..MaxMoves /\ moves \in 0..MaxMoves /\ j.inbound \in Inbounds
        /\ TellsInbound(port, j) /\ TellsInbound(j.inbounds.port, j)
    BY InvGives, JobFields DEF JobFits, Job
  <2>2. /\ \A i \in Inbounds : port[i] = j.port => i = j.inbound
        /\ \A i \in Inbounds : j.inbounds.port[i] = j.port => i = j.inbound
    BY <2>1, PanelAssumption DEF TellsInbound
  <2>3. PICK i \in Inbounds :
          /\ k.port = j.inbounds.port[i] /\ k.port = j.port
          /\ k.link = IF k.port \in DOMAIN links THEN links[k.port]
                      ELSE LinkOf(j.inbounds, i, j.email)
    BY DEF KeysAt, BuildClientKeys
  <2>4. CASE k.port \notin DOMAIN links
    <3>1. k.link.inbound = i
      BY <2>3, <2>4 DEF LinkOf
    <3> QED BY <2>2, <2>3, <3>1
  <2>5. CASE k.port \in DOMAIN links
    <3>1. links # NoLinks
      BY <2>5 DEF NoLinks
    <3>2. links = GetClientLinks(j.email) /\ j.email \in Known
      BY <3>1
    <3>3. \E x \in Inbounds : port[x] = k.port /\ links[k.port].inbound = x
      BY <2>5, <3>2, PanelLinkAtPort
    <3> QED BY <2>2, <2>3, <2>5, <3>3
  <2> QED BY <2>4, <2>5
<1> QED BY <1>1, PanelClientsInvariant, PTL

\* Attaching a client leaves its expiry alone, unless it was changed meanwhile
\* or could not be read from the direct listing.
THEOREM AttachingKeepsExpiry == Spec => AttachKeepsExpiry
<1> DEFINE Kept(a) == /\ job[a].phase = "setFlow" /\ job[a].email \in Known
                      /\ job[a].had = client[job[a].email].expiry /\ job'[a] # job[a]
                      => client'[job[a].email].expiry = client[job[a].email].expiry
<1>1. PanelClientsInv /\ [Next]_vars => [\A a \in Admins : Kept(a)]_vars
  <2> SUFFICES ASSUME PanelClientsInv, Next, NEW a \in Admins, job[a].phase = "setFlow",
                      job[a].email \in Known,
                      job[a].had = client[job[a].email].expiry, job'[a] # job[a]
               PROVE  client'[job[a].email].expiry = client[job[a].email].expiry
    BY DEF vars
  <2>1. job[a].expiry = client[job[a].email].expiry /\ job[a].expiry \in Expiries
        /\ job[a].email \in Emails /\ job[a].inbound \in Inbounds
    <3>1. client[job[a].email].expiry \in Expiries
      BY InvGives, KnownClient DEF Client, Expiries
    <3>2. Nothing \notin Expiries
      <4>1. Nothing \notin Int /\ Expiries \subseteq Int
        BY PanelAssumption DEF Expiries
      <4> QED BY <4>1
    <3> QED BY <3>1, <3>2, InvGives, JobFields DEF JobFits
  <2>2. Unanswered(a) \/ SetClientFlow(a)
    <3>1. \A b \in Admins \ {a} : \A j : job' = [job EXCEPT ![b] = j] => job'[a] = job[a]
      BY InvGives DEF JobsFit
    <3>2. ~PanelSide
      BY DEF PanelSide
    <3>3. PICK b \in Admins :
            \/ Request(b) \/ Unanswered(b)
            \/ CreateClient(b) \/ UpdateClient(b) \/ DetachClient(b) \/ AttachClient(b)
            \/ ListClientsDirect(b) \/ ListClientsFromInbounds(b) \/ SetClientFlow(b)
            \/ ListForPort(b) \/ ListForKeys(b) \/ Links(b)
      BY <3>2 DEF Next
    <3>4. \E j : job' = [job EXCEPT ![b] = j]
      BY <3>3 DEF Request, Begin, Unanswered, CreateClient, UpdateClient, DetachClient,
                  AttachClient, ListClientsDirect, ListClientsFromInbounds, SetClientFlow,
                  ListForPort, ListForKeys, Links, Answered, Continue, GetClientStats
    <3>5. b = a
      BY <3>1, <3>4
    <3>6. ~Request(a)
      <4>1. job[a] # Idle
        BY DEF Idle
      <4> QED BY <4>1 DEF Request, Begin
    <3>7. /\ ~CreateClient(a) /\ ~UpdateClient(a) /\ ~DetachClient(a) /\ ~AttachClient(a)
          /\ ~ListClientsDirect(a) /\ ~ListClientsFromInbounds(a)
          /\ ~ListForPort(a) /\ ~ListForKeys(a) /\ ~Links(a)
      BY DEF CreateClient, UpdateClient, DetachClient, AttachClient, ListClientsDirect,
             ListClientsFromInbounds, ListForPort, ListForKeys, Links
    <3> QED BY <3>3, <3>5, <3>6, <3>7
  <2>3. CASE UNCHANGED client
    BY <2>3
  <2>4. CASE PanelUpdates(job[a].email, {job[a].inbound}, job[a].expiry)
    <3>1. PICK e \in Emails, targets \in SUBSET Inbounds, d \in Expiries :
            e = job[a].email /\ targets = {job[a].inbound} /\ d = job[a].expiry
      BY <2>1
    <3>2. client'[e].expiry = d
      BY <2>4, <3>1, InvGives, PanelUpdatesGives
    <3> QED BY <2>1, <3>1, <3>2
  <2> QED BY <2>2, <2>3, <2>4 DEF Unanswered, SetClientFlow, panelVars
<1> QED BY <1>1, PanelClientsInvariant, PTL DEF Spec, AttachKeepsExpiry
=============================================================================
