------------------------------- MODULE Tokens -------------------------------
(***************************************************************************)
(* The API tokens: tokens.json, the set of issued hashes in memory that    *)
(* TokenAuth answers from, and TokenService, which changes one and then    *)
(* the other.                                                              *)
(***************************************************************************)
EXTENDS Naturals

CONSTANTS Hashes,   \* hashes of the tokens there will be, each made once
          Requests, \* requests that run at the same time
          Unreadable \* a file that cannot be parsed

ASSUME TokensAssumption ==
    Unreadable \notin Hashes /\ \A S \in SUBSET Hashes : S # Unreadable

VARIABLES tokens,  \* tokens.json: a set of hashes, or Unreadable
          issued,  \* TokenAuth.issued
          enabled, \* TokenAuth.enabled, as the process was started
          running, \* the process runs
          request, \* request -> [step, hash]
          given,   \* history: hashes made so far
          crossed  \* history: deleted while their Create was between its steps

tokensVars == <<tokens, issued, enabled, running, request, given, crossed>>

Waiting == [step |-> "none", hash |-> Unreadable]
InFile == IF tokens = Unreadable THEN {} ELSE tokens

\* Authenticate: the role for an issued token.
Authenticate(hash) ==
    IF ~enabled THEN "admin" ELSE IF hash \in issued THEN "issued" ELSE "refused"

-----------------------------------------------------------------------------
TokensInit ==
    /\ tokens = {} /\ issued = {} /\ running = FALSE /\ enabled = FALSE
    /\ request = [r \in Requests |-> Waiting] /\ given = {} /\ crossed = {}

\* main: the hashes of the file; an error leaves the set empty.
LoadIssued == InFile

Boot ==
    /\ ~running /\ running' = TRUE
    /\ enabled' \in BOOLEAN
    /\ issued' = IF enabled' THEN LoadIssued ELSE {}
    /\ UNCHANGED <<tokens, request, given, crossed>>

Die ==
    /\ running' = FALSE /\ issued' = {} /\ crossed' = {}
    /\ request' = [r \in Requests |-> Waiting]
    /\ UNCHANGED <<enabled, given>>

Crash == running /\ Die /\ UNCHANGED tokens

\* saveTokensLocked is cut off after the file was truncated.
CrashInWrite == running /\ tokens # Unreadable /\ Die /\ tokens' = Unreadable

\* AddToken, in Create.
AddToken(r) ==
    /\ running /\ request[r] = Waiting /\ tokens # Unreadable
    /\ \E h \in Hashes \ given :
         /\ tokens' = tokens \cup {h} /\ given' = given \cup {h}
         /\ request' = [request EXCEPT ![r] = [step |-> "created", hash |-> h]]
    /\ UNCHANGED <<issued, enabled, running, crossed>>

Remember(h) == issued \cup {h}

\* Create, once the token is in the file.
AddIssued(r) ==
    /\ request[r].step = "created"
    /\ issued' = Remember(request[r].hash)
    /\ request' = [request EXCEPT ![r] = Waiting]
    /\ UNCHANGED <<tokens, enabled, running, given, crossed>>

BetweenSteps(h) == \E r \in Requests : request[r] = [step |-> "created", hash |-> h]

\* DeleteToken, in Delete.
DeleteToken(r) ==
    /\ running /\ request[r] = Waiting /\ tokens # Unreadable
    /\ \E h \in tokens :
         /\ tokens' = tokens \ {h}
         /\ request' = [request EXCEPT ![r] = [step |-> "deleted", hash |-> h]]
         /\ crossed' = IF BetweenSteps(h) THEN crossed \cup {h} ELSE crossed
    /\ UNCHANGED <<issued, enabled, running, given>>

\* Mutant of Forget: the set in memory is left to the next start.
ForgetNot(h) == issued

Forget(h) == issued \ {h}

\* Delete, once the token has left the file.
RemoveIssued(r) ==
    /\ request[r].step = "deleted"
    /\ issued' = Forget(request[r].hash)
    /\ request' = [request EXCEPT ![r] = Waiting]
    /\ UNCHANGED <<tokens, enabled, running, given, crossed>>

TokensNext ==
    \/ Boot \/ Crash \/ CrashInWrite
    \/ \E r \in Requests : AddToken(r) \/ AddIssued(r) \/ DeleteToken(r) \/ RemoveIssued(r)

TokensSpec == TokensInit /\ [][TokensNext]_tokensVars

-----------------------------------------------------------------------------
(* Properties. *)

InProgress(h) == \E r \in Requests : request[r].hash = h

\* While authentication is on, exactly the tokens of the file are accepted,
\* whatever requests crossed and the process was through: a token that was
\* answered for works, one that was revoked does not.  Not covered: a token
\* whose Create or Delete is between its two steps, and one that was revoked
\* while its own Create was; that one stays in memory until the next start.
AcceptedTokensAreListed ==
    running /\ enabled => \A h \in given :
        \/ InProgress(h) \/ h \in crossed
        \/ Authenticate(h) = "issued" <=> h \in InFile

(* The strengthening that makes the property inductive: what a request between *)
(* its two steps knows of the file.                                           *)

Request == {Waiting} \cup [step : {"created", "deleted"}, hash : given]

RequestsMatchFile ==
    \A r \in Requests : request[r] # Waiting =>
        /\ running /\ tokens # Unreadable
        /\ request[r].step = "created" => request[r].hash \in tokens \cup crossed
        /\ request[r].step = "deleted" => request[r].hash \notin tokens

TokensInv ==
    /\ given \subseteq Hashes /\ tokens \in (SUBSET given) \cup {Unreadable}
    /\ request \in [Requests -> Request]
    /\ RequestsMatchFile /\ AcceptedTokensAreListed
=============================================================================
