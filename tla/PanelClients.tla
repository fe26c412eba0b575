---------------------------- MODULE PanelClients ----------------------------
(***************************************************************************)
(* PanelAPI and PanelService: the clients of a 3X-UI panel as the handlers *)
(* of VlessPanel change and read them.                                     *)
(*                                                                         *)
(* The panel answers one HTTP request at a time; a handler may need up to  *)
(* four of them, and between two of them other handlers, the panel's own   *)
(* interface and the panel itself go on.  Any request may get no answer:   *)
(* then the panel has carried it out, or it has not.                       *)
(***************************************************************************)
EXTENDS Integers, FiniteSets

CONSTANTS Emails, Inbounds, Ports,
          Eligible, \* the inbounds that keep a flow (REALITY, TLS); others strip it
          Dates,    \* expiry times; 0 is "never"
          Admins,   \* requests of VlessPanel that may run at the same time
          Failing,  \* the requests that may get no answer
          MaxMoves, \* bound: inbounds that get another port
          Nothing   \* a field of a job that its request does not use

ASSUME PanelAssumption ==
    /\ Eligible \subseteq Inbounds /\ Cardinality(Ports) >= Cardinality(Inbounds)
    /\ Dates \subseteq Nat \ {0} /\ MaxMoves \in Nat
    /\ Nothing \notin Inbounds \cup Ports \cup Int

VARIABLES client, \* the panel: e-mail -> [enable, expiry, flow]; flow: attached inbound -> flow
          port,   \* the panel: inbound -> its port; no two share one
          moves,  \* ports changed so far
          job,    \* admin -> the request of VlessPanel being served
          owed    \* history: attachments reported as failed although they were made

vars == <<client, port, moves, job, owed>>
panelVars == <<client, port, moves>>

-----------------------------------------------------------------------------
(* The panel.  It is external: what it does is taken from the comments and *)
(* the error handling of panelapi.go.                                      *)

Known == DOMAIN client
Attached(e) == DOMAIN client[e].flow

FlowIf(has, i) == IF has /\ i \in Eligible THEN "vision" ELSE "none"

\* EffectiveFlow: some inbound of the client has one.
EffectiveFlow(e) == \E i \in Attached(e) : client[e].flow[i] = "vision"

Put(e, c) == client' = [x \in Known \cup {e} |-> IF x = e THEN c ELSE client[x]]

\* clients/add refuses an e-mail it knows.
PanelAdds(e, i, expiry) ==
    /\ e \notin Known
    /\ Put(e, [enable |-> TRUE, expiry |-> expiry, flow |-> [x \in {i} |-> FlowIf(TRUE, x)]])

PanelAttaches(e, i) ==
    /\ e \in Known
    /\ Put(e, [client[e] EXCEPT !.flow =
                 [x \in Attached(e) \cup {i} |->
                     IF x \in Attached(e) THEN client[e].flow[x] ELSE FlowIf(EffectiveFlow(e), x)]])

PanelDetaches(e, i) ==
    /\ e \in Known
    /\ Put(e, [client[e] EXCEPT !.flow = [x \in Attached(e) \ {i} |-> client[e].flow[x]]])

\* clients/update replaces the client wholesale: what the request leaves out
\* is gone.  It is applied to the inbounds it names.
PanelUpdates(e, targets, expiry) ==
    /\ e \in Known /\ targets \cap Attached(e) # {}
    /\ Put(e, [enable |-> TRUE, expiry |-> expiry,
               flow |-> [x \in Attached(e) |->
                            IF x \in targets THEN FlowIf(TRUE, x) ELSE client[e].flow[x]]])

\* The panel disables a client that expired or used up its traffic; its own
\* interface changes the expiry, deletes a client or moves an inbound.
PanelSide ==
    /\ UNCHANGED job
    /\ \/ /\ \E e \in Known : \/ Put(e, [client[e] EXCEPT !.enable = FALSE])
                              \/ \E d \in Dates \cup {0} : Put(e, [client[e] EXCEPT !.expiry = d])
          /\ UNCHANGED <<port, moves, owed>>
       \/ \E e \in Known :
            /\ client' = [x \in Known \ {e} |-> client[x]]
            /\ owed' = {o \in owed : o[1] # e}
            /\ UNCHANGED <<port, moves>>
       \/ \E i \in Inbounds, p \in Ports :
            /\ moves < MaxMoves /\ moves' = moves + 1
            /\ \A j \in Inbounds : port[j] # p
            /\ port' = [port EXCEPT ![i] = p]
            /\ UNCHANGED <<client, owed>>

-----------------------------------------------------------------------------
(* What the panel answers, and what panelapi.go makes of it.               *)

\* ListInbounds: every inbound with its port and the clients in its settings.
InboundsList == [port |-> port, flow |-> [e \in Known |-> client[e].flow]]

Lists(inbounds, i, e) == e \in DOMAIN inbounds.flow /\ i \in DOMAIN inbounds.flow[e]

\* A link leads to an inbound, at a port, with a flow or without.
LinkOf(inbounds, i, e) ==
    [inbound |-> i, port |-> inbounds.port[i], flow |-> inbounds.flow[e][i]]

NoLinks == [p \in {} |-> Nothing]

\* GetClientLinks: the links the panel itself makes, by port.
GetClientLinks(e) ==
    LET mine == {i \in Inbounds : Lists(InboundsList, i, e)} IN
    [p \in {port[i] : i \in mine} |->
        LinkOf(InboundsList, CHOOSE i \in mine : port[i] = p, e)]

\* buildClientKeys: one key per inbound whose settings list the client, with
\* the panel's link for the port or else one made from the settings.
BuildClientKeys(inbounds, panelLinks, e) ==
    {[port |-> inbounds.port[i],
      link |-> IF inbounds.port[i] \in DOMAIN panelLinks THEN panelLinks[inbounds.port[i]]
                                                         ELSE LinkOf(inbounds, i, e)] :
        i \in {x \in Inbounds : Lists(inbounds, x, e)}}

\* Mutant of KeysAt: any key of the client.
KeysAtAnyPort(keys, p) == {k \in keys : k.port \in Ports}

\* GetClientKeyForInbound, resolvePanelKeys: the key at the inbound's port.
KeysAt(keys, p) == {k \in keys : k.port = p}

\* Mutants of ListedExpiry: the field is lost, or passed on although it is not there.
ListedExpiryLost(e, direct) == 0
ListedExpiryMissing(e, direct) == IF direct THEN client[e].expiry ELSE Nothing

\* mapClientsToInbounds takes the expiry over; clientsFromInbounds has none.
ListedExpiry(e, direct) == IF direct THEN client[e].expiry ELSE 0

-----------------------------------------------------------------------------
(* Requests of VlessPanel.                                                 *)

Idle == [phase |-> "idle", email |-> Nothing, inbound |-> Nothing, expiry |-> Nothing,
         had |-> Nothing, port |-> Nothing, inbounds |-> Nothing, since |-> 0]

Init ==
    /\ client = [e \in {} |-> Nothing]
    /\ port \in [Inbounds -> Ports] /\ \A i, j \in Inbounds : port[i] = port[j] => i = j
    /\ moves = 0 /\ owed = {}
    /\ job = [a \in Admins |-> Idle]

Begin(a, request) ==
    /\ job[a] = Idle
    /\ job' = [job EXCEPT ![a] = request]
    /\ UNCHANGED <<panelVars, owed>>

\* PanelService.CreateClient, Attach, Detach, UpdateClient, and the readers of
\* keys: one inbound looked up twice (GetClientKeyForInbound) or all of one
\* listing (GetClientKeys, and each goroutine of GetClientKeysForEmails).
Request(a) ==
    \E e \in Emails, i \in Inbounds, d \in Dates \cup {0} :
      LET About(phase) == [Idle EXCEPT !.phase = phase, !.email = e, !.inbound = i]
          Keys(phase) == [About(phase) EXCEPT !.since = moves] \* since: for the properties
      IN
      \/ Begin(a, [About("create") EXCEPT !.expiry = d])
      \/ Begin(a, [About("update") EXCEPT !.expiry = d, !.inbound = Nothing])
      \/ \E phase \in {"attach", "detach"} : Begin(a, About(phase))
      \/ \E phase \in {"inbounds", "inboundsOnce"} : Begin(a, Keys(phase))

Answered(a) == job' = [job EXCEPT ![a] = Idle]

Continue(a, next) == job' = [job EXCEPT ![a] = next]

\* The handler of an attachment ends with an error: its flow is not set.
Owe(j) ==
    owed' = IF j.email \in Known /\ j.inbound \in Attached(j.email)
            THEN owed \cup {<<j.email, j.inbound>>} ELSE owed

\* A request without an answer ends the handler with an error, whether the
\* panel has carried it out or not.
Unanswered(a) ==
    /\ job[a].phase \in Failing /\ job[a].phase \notin {"clientsList", "links"}
    /\ Answered(a)
    /\ IF job[a].phase \in {"fallbackList", "setFlow"} THEN Owe(job[a]) ELSE UNCHANGED owed
    /\ UNCHANGED panelVars

MayBeLost(a) == job[a].phase \in Failing

CreateClient(a) ==
    LET j == job[a] IN
    /\ j.phase = "create" /\ Answered(a)
    /\ PanelAdds(j.email, j.inbound, j.expiry) \/ (j.email \in Known /\ UNCHANGED client)
    /\ UNCHANGED <<port, moves, owed>>

UpdateClient(a) ==
    LET j == job[a] IN
    /\ j.phase = "update" /\ Answered(a)
    /\ \/ PanelUpdates(j.email, Inbounds, j.expiry)
       \/ (j.email \in Known => Attached(j.email) = {}) /\ UNCHANGED client
    /\ UNCHANGED <<port, moves, owed>>

DetachClient(a) ==
    LET j == job[a] IN
    /\ j.phase = "detach" /\ Answered(a)
    /\ \/ PanelDetaches(j.email, j.inbound) /\ owed' = owed \ {<<j.email, j.inbound>>}
       \/ j.email \notin Known /\ UNCHANGED <<client, owed>>
    /\ UNCHANGED <<port, moves>>

\* Mutant of AttachClient: the flow is left to what the panel derives.
AttachClientOnly(a) ==
    LET j == job[a] IN
    /\ j.phase = "attach" /\ Answered(a)
    /\ PanelAttaches(j.email, j.inbound) \/ (j.email \notin Known /\ UNCHANGED client)
    /\ UNCHANGED <<port, moves, owed>>

\* AttachClient: once attached, the flow is pushed, which needs the expiry.
AttachClient(a) ==
    LET j == job[a] IN
    /\ j.phase = "attach"
    /\ \/ /\ PanelAttaches(j.email, j.inbound)
          /\ \/ Continue(a, [j EXCEPT !.phase = "clientsList"]) /\ UNCHANGED owed
             \/ /\ MayBeLost(a) /\ Answered(a)
                /\ owed' = owed \cup {<<j.email, j.inbound>>}
       \/ j.email \notin Known /\ Answered(a) /\ UNCHANGED <<client, owed>>
    /\ UNCHANGED <<port, moves>>

\* GetClientStats: the client in a listing, or the error that it is not there.
\* had, for the properties: the expiry when the direct listing was answered.
GetClientStats(a, listed, direct) ==
    LET j == job[a] IN
    IF listed
    THEN /\ Continue(a, [j EXCEPT !.phase = "setFlow", !.expiry = ListedExpiry(j.email, direct),
                                  !.had = IF direct THEN client[j.email].expiry ELSE Nothing])
         /\ UNCHANGED owed
    ELSE Answered(a) /\ Owe(j)

\* ListClients: the direct endpoint, and without it the inbounds.
ListClientsDirect(a) ==
    /\ job[a].phase = "clientsList"
    /\ \/ GetClientStats(a, job[a].email \in Known, TRUE)
       \/ MayBeLost(a) /\ Continue(a, [job[a] EXCEPT !.phase = "fallbackList"]) /\ UNCHANGED owed
    /\ UNCHANGED panelVars

ListClientsFromInbounds(a) ==
    /\ job[a].phase = "fallbackList"
    /\ GetClientStats(a, \E i \in Inbounds : Lists(InboundsList, i, job[a].email), FALSE)
    /\ UNCHANGED panelVars

\* SetClientFlow: an update aimed at the inbound, with the expiry that was
\* read; refused when the client is not there any more.
SetClientFlow(a) ==
    LET j == job[a] IN
    /\ j.phase = "setFlow" /\ Answered(a)
    /\ \/ PanelUpdates(j.email, {j.inbound}, j.expiry) /\ UNCHANGED owed
       \/ /\ j.email \in Known => j.inbound \notin Attached(j.email)
          /\ Owe(j) /\ UNCHANGED client
    /\ UNCHANGED <<port, moves>>

\* The first listing gives the port, the second one the keys.
ListForPort(a) ==
    /\ job[a].phase = "inbounds"
    /\ Continue(a, [job[a] EXCEPT !.phase = "inboundsAgain", !.port = port[job[a].inbound]])
    /\ UNCHANGED <<panelVars, owed>>

ListForKeys(a) ==
    LET j == job[a] IN
    /\ \/ j.phase = "inboundsAgain" /\ Continue(a, [j EXCEPT !.phase = "links", !.inbounds = InboundsList])
       \/ /\ j.phase = "inboundsOnce"
          /\ Continue(a, [j EXCEPT !.phase = "links", !.port = port[j.inbound], !.inbounds = InboundsList])
    /\ UNCHANGED <<panelVars, owed>>

\* The keys are built with the panel's links or without, and handed out.
Links(a) ==
    /\ job[a].phase = "links" /\ Answered(a)
    /\ UNCHANGED <<panelVars, owed>>

Next ==
    \/ PanelSide
    \/ \E a \in Admins :
         \/ Request(a) \/ Unanswered(a)
         \/ CreateClient(a) \/ UpdateClient(a) \/ DetachClient(a)
         \/ AttachClient(a) \/ ListClientsDirect(a) \/ ListClientsFromInbounds(a) \/ SetClientFlow(a)
         \/ ListForPort(a) \/ ListForKeys(a) \/ Links(a)

Spec == Init /\ [][Next]_vars

-----------------------------------------------------------------------------
(* Properties. *)

PartialOn(S, T) == UNION {[D -> T] : D \in SUBSET S}

Client == [enable : BOOLEAN, expiry : Dates \cup {0}, flow : PartialOn(Inbounds, {"vision", "none"})]

TypeOK ==
    /\ client \in PartialOn(Emails, Client)
    /\ port \in [Inbounds -> Ports] /\ moves \in 0..MaxMoves
    /\ owed \subseteq Emails \X Inbounds
    /\ \A a \in Admins :
         /\ job[a].email \in Emails \cup {Nothing} /\ job[a].inbound \in Inbounds \cup {Nothing}
         /\ {job[a].expiry, job[a].had} \subseteq Dates \cup {0, Nothing}
         /\ job[a].port \in Ports \cup {Nothing} /\ job[a].since \in 0..MaxMoves

\* An inbound that needs the flow has it, unless the attachment is under way or
\* was reported as failed: "the newly attached REALITY/TLS inbound gets NO flow
\* - which breaks REALITY keys", panelapi.go:612.
BeingAttached(e, i) ==
    \E a \in Admins : /\ job[a].email = e /\ job[a].inbound = i
                      /\ job[a].phase \in {"clientsList", "fallbackList", "setFlow"}

FlowWhereNeeded ==
    \A e \in Known : \A i \in Attached(e) \cap Eligible :
        client[e].flow[i] = "vision" \/ BeingAttached(e, i) \/ <<e, i>> \in owed

\* A key given for an inbound leads to that inbound, although the panel lists
\* ports, settings and links at different moments and matches them by port:
\* it takes two inbounds that move during the request, one of them to the port
\* the other has left, to confuse them.
KeyIsOfItsInbound ==
    \A a \in Admins : job[a].phase = "links" =>
        \A links \in {NoLinks} \cup {GetClientLinks(e) : e \in {job[a].email} \cap Known} :
        \A k \in KeysAt(BuildClientKeys(job[a].inbounds, links, job[a].email), job[a].port) :
            k.link.inbound = job[a].inbound \/ moves > job[a].since + 1

\* "Current expiryTime is passed through so the partial update doesn't wipe
\* it", panelapi.go:653: attaching a client leaves its expiry alone, unless others
\* changed it while the attachment was under way or the direct listing was missing.
AttachKeepsExpiry ==
    [][\A a \in Admins :
         /\ job[a].phase = "setFlow" /\ job[a].email \in Known
         /\ job[a].had = client[job[a].email].expiry /\ job'[a] # job[a]
         => client'[job[a].email].expiry = client[job[a].email].expiry]_vars

(* The strengthening of these: what a request carries in each of its phases. *)

PortsAreDistinct == \A i, j \in Inbounds : port[i] = port[j] => i = j

Expiries == Dates \cup {0}
Flows == {"vision", "none"}
Phases == {"idle", "create", "update", "attach", "detach", "clientsList", "fallbackList",
           "setFlow", "inbounds", "inboundsAgain", "inboundsOnce", "links"}

Listing == [port : [Inbounds -> Ports], flow : PartialOn(Emails, PartialOn(Inbounds, Flows))]

Job == [phase : Phases, email : Emails \cup {Nothing}, inbound : Inbounds \cup {Nothing},
        expiry : Expiries \cup {Nothing}, had : Expiries \cup {Nothing},
        port : Ports \cup {Nothing}, inbounds : Listing \cup {Nothing}, since : 0..MaxMoves]

\* A port noted during a request still tells the inbound from the others after
\* one move: the inbound itself can have left it, no other can have come to it.
TellsInbound(ports, j) ==
    moves <= j.since + 1 => \A i \in Inbounds : ports[i] = j.port => i = j.inbound

JobFits(j) ==
    /\ j.phase # "idle" => j.email \in Emails
    /\ j.phase \notin {"idle", "update"} => j.inbound \in Inbounds
    /\ j.phase \in {"create", "update", "setFlow"} => j.expiry \in Expiries
    /\ j.phase = "setFlow" => j.had \in {Nothing, j.expiry}
    /\ j.phase \in {"inbounds", "inboundsOnce", "inboundsAgain", "links"} => j.since <= moves
    /\ j.phase \in {"inboundsAgain", "links"} =>
          TellsInbound(port, j) /\ (moves = j.since => port[j.inbound] = j.port)
    /\ j.phase = "links" => j.inbounds \in Listing /\ TellsInbound(j.inbounds.port, j)

PanelClientsInv ==
    /\ client \in PartialOn(Emails, Client)
    /\ port \in [Inbounds -> Ports] /\ PortsAreDistinct /\ moves \in 0..MaxMoves
    /\ owed \subseteq Emails \X Inbounds
    /\ job \in [Admins -> Job] /\ \A a \in Admins : JobFits(job[a])
    /\ FlowWhereNeeded
=============================================================================
