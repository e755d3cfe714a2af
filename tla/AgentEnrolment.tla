--------------------------- MODULE AgentEnrolment ---------------------------
(***************************************************************************)
(* How an agent comes to hold a token and how it keeps one: registration   *)
(* by fingerprint, polling for the administrator's approval, the encrypted *)
(* token file, the authentication of every stream, and the second poll     *)
(* when a stream is refused as unauthenticated.  The token also carries    *)
(* the agent's display name, which path templates use and which an         *)
(* administrator may change.  The agent restarts at any point.             *)
(***************************************************************************)
EXTENDS Naturals

CONSTANT AgentName    \* the display names; Hostname is the one a new agent gets
CONSTANT Hostname

ASSUME EnrAssumption == Hostname \in AgentName /\ "none" \notin AgentName

VARIABLES
  row,          \* the agents row: its status, "none" before the first registration, and name
  agent,        \* where the agent process is
  memory,       \* the token the client sends
  file,         \* the token file
  reply,        \* a token minted and on its way to the agent
  label         \* agentCtx.AgentName, what {agent_name} stands for

enrVars == <<row, agent, memory, file, reply, label>>

\* A token ages: below a tenth of its life it still authenticates, but a starting
\* agent no longer trusts it.
EnrToken == [age: {"none", "fresh", "aging", "expired"}, name: AgentName \cup {"none"}]
NoToken == [age |-> "none", name |-> "none"]
Accepted == {"fresh", "aging"}
UsableRow == {"approved", "online", "offline"}

EnrInit ==
  /\ row = [status |-> "none", name |-> "none"] /\ agent = "down"
  /\ memory = NoToken /\ file = NoToken /\ reply = NoToken /\ label = "none"

-----------------------------------------------------------------------------
(* The agents table.                                                       *)

CreateAgent == row' = [status |-> "pending", name |-> Hostname]

Registered == row.status # "none"

UpdateAgentStatus(s) == row' = [row EXCEPT !.status = s]

UpdateAgentName(n) == row' = [row EXCEPT !.name = n]

-----------------------------------------------------------------------------
(* The control plane and its administrator.                                *)

AdminApproves ==
  /\ Registered /\ row.status # "approved" /\ UpdateAgentStatus("approved")
  /\ UNCHANGED <<agent, memory, file, reply, label>>

AdminRevokes ==
  /\ Registered /\ row.status # "revoked" /\ UpdateAgentStatus("revoked")
  /\ UNCHANGED <<agent, memory, file, reply, label>>

AdminRenames ==
  /\ Registered /\ \E n \in AgentName \ {row.name} : UpdateAgentName(n)
  /\ UNCHANGED <<agent, memory, file, reply, label>>

\* The revoke command reaches the agent: handleRevokeCommand forgets the token and
\* stops the process.
RevokeDelivered ==
  /\ row.status = "revoked" /\ agent = "connected"
  /\ agent' = "down" /\ memory' = NoToken /\ file' = NoToken /\ label' = "none"
  /\ UNCHANGED <<row, reply>>

\* PollApproval gives a token to an approved agent only, with the name of the moment.
Mints == row.status = "approved"
TokenMinted == [age |-> "fresh", name |-> row.name]

-----------------------------------------------------------------------------
(* The agent.                                                              *)

\* LoadOrCreateFingerprint, Load, IsTokenValid(0.1), Identity.
AgentStarts ==
  /\ agent = "down"
  /\ IF file.age = "fresh" THEN agent' = "run" /\ memory' = file /\ label' = file.name
                           ELSE agent' = "register" /\ UNCHANGED <<memory, label>>
  /\ UNCHANGED <<row, file, reply>>

\* A fingerprint the control plane knows keeps its row.
AgentRegisters ==
  /\ agent = "register" /\ agent' = "poll"
  /\ IF Registered THEN UNCHANGED row ELSE CreateAgent
  /\ label' = row'.name
  /\ UNCHANGED <<memory, file, reply>>

\* The poll is answered; what it mints is on its way.  An answer without a token
\* keeps a starting agent polling and a running one on the token it has.
PollAnswered ==
  /\ agent \in {"poll", "reauth"} /\ reply = NoToken
  /\ IF Mints THEN reply' = TokenMinted /\ UNCHANGED agent
              ELSE agent' = (IF agent = "poll" THEN "poll" ELSE "run") /\ UNCHANGED reply
  /\ UNCHANGED <<row, memory, file, label>>

\* The call fails, or its answer is lost with the token in it.
PollFails ==
  /\ agent \in {"poll", "reauth"}
  /\ reply' = NoToken /\ agent' = IF agent = "poll" THEN "poll" ELSE "run"
  /\ UNCHANGED <<row, memory, file, label>>

\* Save, then SetToken.  Only a starting agent takes the name over.  A failed Save
\* ends a starting agent, while a client that re-authenticated goes on with the token
\* in memory.
TokenSaved ==
  /\ reply # NoToken /\ agent \in {"poll", "reauth"}
  /\ memory' = reply /\ file' = reply /\ reply' = NoToken /\ agent' = "run"
  /\ label' = IF agent = "poll" THEN reply.name ELSE label
  /\ UNCHANGED row

TokenNotSaved ==
  /\ reply # NoToken /\ agent \in {"poll", "reauth"}
  /\ IF agent = "poll" THEN agent' = "down" /\ label' = "none" /\ UNCHANGED memory
                       ELSE agent' = "run" /\ memory' = reply /\ UNCHANGED label
  /\ reply' = NoToken /\ UNCHANGED <<row, file>>

\* The interceptor, then assertAgentUsable and MarkAgentOnlineIfUsable.
StreamAccepted ==
  /\ agent = "run" /\ memory.age \in Accepted /\ row.status \in UsableRow
  /\ agent' = "connected" /\ UpdateAgentStatus("online")
  /\ UNCHANGED <<memory, file, reply, label>>

StreamRefusedStays ==
  /\ agent = "run" /\ memory.age \notin Accepted /\ UNCHANGED enrVars

\* Unauthenticated, and nothing else, leads to one more poll.
StreamUnauthenticated ==
  /\ agent = "run" /\ memory.age \notin Accepted /\ agent' = "reauth"
  /\ UNCHANGED <<row, memory, file, reply, label>>

\* markOfflineOnDisconnect.
GoesOffline ==
  IF row.status = "online" THEN UpdateAgentStatus("offline") ELSE UNCHANGED row

StreamLost ==
  /\ agent = "connected" /\ agent' = "run" /\ GoesOffline
  /\ UNCHANGED <<memory, file, reply, label>>

AgentCrashes ==
  /\ agent # "down" /\ agent' = "down" /\ memory' = NoToken /\ reply' = NoToken
  /\ label' = "none" /\ GoesOffline
  /\ UNCHANGED file

Aged(t, a, b) == IF t.age = a THEN [t EXCEPT !.age = b] ELSE t

TokenAges ==
  /\ \E a, b \in {"fresh", "aging", "expired"} :
       /\ <<a, b>> \in {<<"fresh", "aging">>, <<"aging", "expired">>}
       /\ a \in {memory.age, file.age}
       /\ memory' = Aged(memory, a, b) /\ file' = Aged(file, a, b)
  /\ UNCHANGED <<row, agent, reply, label>>

AgentStep ==
  \/ AgentStarts \/ AgentRegisters \/ PollAnswered \/ TokenSaved
  \/ StreamAccepted \/ StreamUnauthenticated

EnrNext ==
  \/ AgentStep \/ PollFails \/ TokenNotSaved
  \/ AdminApproves \/ AdminRevokes \/ AdminRenames \/ RevokeDelivered
  \/ StreamLost \/ AgentCrashes \/ TokenAges

\* The agent's loops run; neither the network nor its disk fails for ever.
EnrFair ==
  WF_enrVars(AgentStep) /\ <>[][~PollFails /\ ~TokenNotSaved]_enrVars
EnrSpec == EnrInit /\ [][EnrNext]_enrVars
EnrFairSpec == EnrSpec /\ EnrFair

-----------------------------------------------------------------------------
(* Properties.                                                             *)

\* An agent that got past registration keeps some token to send: an answer without
\* one never replaces it, and the header is never dropped.
EnrTypeOK ==
  /\ row \in [status: UsableRow \cup {"none", "pending", "revoked"},
              name: AgentName \cup {"none"}]
  /\ memory \in EnrToken /\ file \in EnrToken /\ reply \in EnrToken
  /\ reply # NoToken => agent \in {"poll", "reauth"}
  /\ agent \in {"down", "register", "poll", "run", "reauth", "connected"}
  /\ agent \in {"run", "reauth", "connected"} => memory # NoToken /\ Registered

\* An agent that runs knows its own name, whether it registered in this process or
\* found its token on the disk: path templates with {agent_name} never lose it.
IdentityKnown == agent \in {"run", "reauth", "connected"} => label \in AgentName

\* Registering again, after a crash or with a token file that was lost, never undoes
\* a decision of the administrator, on the status or on the name.
DecisionStands ==
  [][(row.status \notin {"none", "pending"}) =>
       /\ row'.status \notin {"none", "pending"}
       /\ row'.name # row.name => agent' = agent]_enrVars

\* An approved agent obtains a token: when it polls after registering, when it was
\* revoked and approved again, and when its token expired.
ApprovedGetsToken ==
  []<>(row.status = "approved" /\ agent \notin {"down", "connected"} => memory.age \in Accepted)

\* Enrolment ends as the administrator decided, across restarts and lost files: an
\* approved agent gets a token and knows its name, and no decision is undone.
EnrolmentHolds == []EnrTypeOK /\ []IdentityKnown /\ DecisionStands /\ ApprovedGetsToken
=============================================================================
