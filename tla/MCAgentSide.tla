----------------------------- MODULE MCAgentSide ------------------------------
(* What the control plane keeps for an agent: its identity, its entry in the   *)
(* registry, its presence and its credentials.  The components share no        *)
(* variable: `part' says which one a behaviour is about, the others stay where *)
(* they start, and the fairness of each is that of its own specification.      *)
EXTENDS AgentRegistry, AgentPresence, Credentials, AgentEnrolment

VARIABLE part

AgentSideInit ==
  /\ part \in {"registry", "presence", "credentials", "enrolment"}
  /\ RegInit /\ PrsInit /\ CredInit /\ EnrInit
  /\ part # "credentials" => covered

AgentSideNext ==
  /\ UNCHANGED part
  /\ \/ part = "registry" /\ RegNext
        /\ UNCHANGED <<prsVars, credVars, enrVars>>
     \/ part = "presence" /\ PrsNext
        /\ UNCHANGED <<regVars, credVars, enrVars>>
     \/ part = "credentials" /\ CredNext
        /\ UNCHANGED <<regVars, prsVars, enrVars>>
     \/ part = "enrolment" /\ EnrNext
        /\ UNCHANGED <<regVars, prsVars, credVars>>

Registry == part = "registry"
Presence == part = "presence"
Issuing == part = "credentials"
Enrolling == part = "enrolment"

AgentSideSpec ==
  /\ AgentSideInit /\ [][AgentSideNext]_<<part, regVars, prsVars, credVars, enrVars>>
  /\ \A c \in Conn : /\ WF_regVars(Registry /\ (StartWriter(c) \/ Refuse(c)))
                     /\ WF_regVars(Registry /\ HandlerEnds(c))
                     /\ WF_regVars(Registry /\ Unregister(c))
  /\ \A k \in Revoker : /\ WF_regVars(Registry /\ SendSync(k))
                        /\ WF_regVars(Registry /\ RevokeEnds(k))
                        /\ WF_regVars(Registry /\ (WaitConfirms(k) \/ WaitTimesOut(k)))
  /\ \A s \in Stream : /\ WF_prsVars(Presence /\ Setup(s))
                       /\ WF_prsVars(Presence /\ CleanUp(s))
                       /\ WF_prsVars(Presence /\ Heartbeat(s))
                       /\ WF_prsVars(Presence /\ HeartbeatHeals(s))
  /\ SF_prsVars(Presence /\ \E s \in Stream : StreamEnds(s))
  /\ WF_prsVars(Presence /\ SweepChecks) /\ WF_prsVars(Presence /\ SweepMarks)
  /\ WF_prsVars(Presence /\ RevokeCuts) /\ WF_prsVars(Presence /\ ExpireOnline)
  /\ \A w \in Refresher : WF_credVars(Issuing /\ Writer(w))
  /\ \A t \in Task : WF_credVars(Issuing /\ Attempt(t))
  /\ WF_enrVars(Enrolling /\ AgentStep) /\ <>[][~PollFails /\ ~TokenNotSaved]_enrVars
===============================================================================
