--------------------------- MODULE AgentPresence ---------------------------
(***************************************************************************)
(* The presence of one agent: its persisted status, the online and the     *)
(* sync-degraded keys in the cache, and everybody that writes them.  A     *)
(* Connect handler per stream, of which several overlap across reconnects, *)
(* heartbeats, the deferred clean-up, the offline sweeper, and the         *)
(* administrator's approve and revoke.                                     *)
(*                                                                         *)
(* The wait inside RevokeConn is the matter of AgentRegistry.              *)
(***************************************************************************)
EXTENDS Naturals

CONSTANTS
  Stream,       \* Connect handlers that may run at the same time, numbered
  NoStream

ASSUME PresenceAssumption == Stream \subseteq Nat /\ NoStream \notin Stream

VARIABLES
  status,       \* agents.status
  onlineKey, degradedKey,   \* the agent's keys in the cache
  current,      \* the registered connection
  handler,      \* the Connect handlers
  sweeper,      \* OfflineSweeper.Sweep
  revoker       \* AgentsHandler.Revoke

prsVars == <<status, onlineKey, degradedKey, current, handler, sweeper, revoker>>
cacheVars == <<onlineKey, degradedKey>>
adminVars == <<sweeper, revoker>>

Usable == {"approved", "online", "offline"}
\* unmarked: MarkAgentOnlineIfUsable failed and the handler went on.
NoHandler == [pc |-> "free", end |-> "no", degraded |-> FALSE, unmarked |-> FALSE]

PrsInit ==
  /\ status = "approved" /\ onlineKey = FALSE /\ degradedKey = FALSE
  /\ current = NoStream /\ handler = [s \in Stream |-> NoHandler]
  /\ sweeper = "idle" /\ revoker = "idle"

At(s, pc) == handler[s].pc = pc
Step(s, pc) == handler' = [handler EXCEPT ![s].pc = pc]
\* What a handler knows is not read again once it returns.
Return(s) == handler' = [handler EXCEPT ![s] = [NoHandler EXCEPT !.pc = "returned"]]
Done(s) == handler' = [handler EXCEPT ![s] = NoHandler]
Cancelled(s) == handler[s].end = "cancel"

-----------------------------------------------------------------------------
(* The three conditional updates of agents.status.                         *)

MarkAgentOnlineIfUsable == status' = IF status \in Usable THEN "online" ELSE status

MarkAgentOnlineIfOffline == status' = IF status = "offline" THEN "online" ELSE status

MarkAgentOfflineIfOnline == status' = IF status = "online" THEN "offline" ELSE status

-----------------------------------------------------------------------------
(* Connect.  A cancelled context fails every cache and database call that  *)
(* is made with it.                                                        *)

\* assertAgentUsable.
Gate(s) ==
  /\ At(s, "free") /\ status \in Usable
  /\ \A t \in Stream : At(t, "free") => s <= t
  /\ Step(s, "register")
  /\ UNCHANGED <<status, cacheVars, current, adminVars>>

RegisterStream(s) ==
  /\ At(s, "register")
  /\ handler' = [t \in Stream |-> CASE t = s -> [handler[t] EXCEPT !.pc = "setkey"]
                                    [] t = current /\ ~At(t, "returned") -> [handler[t] EXCEPT !.end = "cancel"]
                                    [] OTHER -> handler[t]]
  /\ current' = s
  /\ UNCHANGED <<status, cacheVars, adminVars>>

SetOnlineKey(s) ==
  /\ At(s, "setkey") /\ Step(s, "mark")
  /\ onlineKey' = (onlineKey \/ ~Cancelled(s))
  /\ UNCHANGED <<status, degradedKey, current, adminVars>>

MarkConnectedWarns(s) ==
  /\ At(s, "mark") /\ ~Cancelled(s)
  /\ MarkAgentOnlineIfUsable /\ Step(s, "sync")
  /\ UNCHANGED <<cacheVars, current, adminVars>>

\* No row left in a usable state ends the RPC; a failed write is only logged.
MarkConnected(s) ==
  /\ At(s, "mark") /\ ~Cancelled(s)
  /\ MarkAgentOnlineIfUsable
  /\ IF status \in Usable THEN Step(s, "sync") ELSE Return(s)
  /\ UNCHANGED <<cacheVars, current, adminVars>>

MarkConnectedFails(s) ==
  /\ At(s, "mark")
  /\ handler' = [handler EXCEPT ![s] = [handler[s] EXCEPT !.pc = "sync", !.unmarked = TRUE]]
  /\ UNCHANGED <<status, cacheVars, current, adminVars>>

\* SyncRulesOnConnect: complete, too large for one message, or failed (as it does
\* under a cancelled context).
SyncComplete(s) ==
  /\ At(s, "sync") /\ ~Cancelled(s)
  /\ degradedKey' = FALSE /\ Step(s, "live")
  /\ UNCHANGED <<status, onlineKey, current, adminVars>>

SyncDegraded(s) ==
  /\ At(s, "sync") /\ ~Cancelled(s)
  /\ degradedKey' = TRUE
  /\ handler' = [handler EXCEPT ![s] = [handler[s] EXCEPT !.pc = "live", !.degraded = TRUE]]
  /\ UNCHANGED <<status, onlineKey, current, adminVars>>

SyncFails(s) ==
  /\ At(s, "sync") /\ Return(s)
  /\ UNCHANGED <<status, cacheVars, current, adminVars>>

\* A degraded connection reports itself again with every heartbeat.
Heartbeat(s) ==
  /\ At(s, "live") /\ Step(s, "heal")
  /\ onlineKey' = (onlineKey \/ ~Cancelled(s))
  /\ degradedKey' = (degradedKey \/ (handler[s].degraded /\ ~Cancelled(s)))
  /\ UNCHANGED <<status, current, adminVars>>

HeartbeatHeals(s) ==
  /\ At(s, "heal") /\ Step(s, "live")
  /\ IF Cancelled(s) THEN UNCHANGED status
                     ELSE MarkAgentOnlineIfOffline
  /\ UNCHANGED <<cacheVars, current, adminVars>>

\* stopCh, ctx.Done or a failed Recv.
StreamEnds(s) ==
  /\ At(s, "live") /\ handler[s].end # "no" /\ Return(s)
  /\ UNCHANGED <<status, cacheVars, current, adminVars>>

StreamBreaks(s) ==
  /\ At(s, "live") /\ Return(s)
  /\ UNCHANGED <<status, cacheVars, current, adminVars>>

\* The deferred clean-up: only for the connection that owned the entry, and in a
\* context of its own.
CleanUnregister(s) ==
  /\ At(s, "returned")
  /\ IF current = s THEN current' = NoStream /\ Step(s, "delonline")
                    ELSE UNCHANGED current /\ Done(s)
  /\ UNCHANGED <<status, cacheVars, adminVars>>

CleanOnlineKey(s) ==
  /\ At(s, "delonline") /\ Step(s, "deldegraded") /\ onlineKey' = FALSE
  /\ UNCHANGED <<status, degradedKey, current, adminVars>>

CleanDegradedKey(s) ==
  /\ At(s, "deldegraded") /\ Step(s, "offline") /\ degradedKey' = FALSE
  /\ UNCHANGED <<status, onlineKey, current, adminVars>>

MarkOfflineOnDisconnect(s) ==
  /\ At(s, "offline") /\ Done(s)
  /\ MarkAgentOfflineIfOnline
  /\ UNCHANGED <<cacheVars, current, adminVars>>

MarkOfflineFails(s) ==
  /\ At(s, "offline") /\ Done(s)
  /\ UNCHANGED <<status, cacheVars, current, adminVars>>

-----------------------------------------------------------------------------
(* The offline sweeper.  That the agent was listed as online is what the   *)
(* conditional update tests again.                                         *)

SweepChecksPresent ==
  /\ sweeper = "idle" /\ onlineKey /\ sweeper' = "absent"
  /\ UNCHANGED <<status, cacheVars, current, handler, revoker>>

SweepChecks ==
  /\ sweeper = "idle" /\ ~onlineKey /\ sweeper' = "absent"
  /\ UNCHANGED <<status, cacheVars, current, handler, revoker>>

SweepMarks ==
  /\ sweeper = "absent" /\ sweeper' = "idle"
  /\ MarkAgentOfflineIfOnline
  /\ UNCHANGED <<cacheVars, current, handler, revoker>>

-----------------------------------------------------------------------------
(* The administrator, the time to live of the keys, and a crash.           *)

Approve ==
  /\ status' = "approved" /\ status # "approved"
  /\ UNCHANGED <<cacheVars, current, handler, adminVars>>

\* RevokeAgent writes the status and then drops the online key.
RevokeAgent ==
  /\ revoker = "idle" /\ revoker' = "written"
  /\ status' = "revoked" /\ onlineKey' = FALSE
  /\ UNCHANGED <<degradedKey, current, handler, sweeper>>

\* RevokeConn on the connection registered after the write.
RevokeCuts ==
  /\ revoker = "written" /\ revoker' = "idle"
  /\ IF current = NoStream \/ At(current, "returned") THEN UNCHANGED handler
     ELSE \E how \in {"stop", "cancel"} :
            handler' = [handler EXCEPT ![current].end = IF Cancelled(current) THEN "cancel" ELSE how]
  /\ UNCHANGED <<status, cacheVars, current, sweeper>>

ExpireOnline ==
  /\ onlineKey /\ onlineKey' = FALSE
  /\ UNCHANGED <<status, degradedKey, current, handler, adminVars>>

ExpireDegraded ==
  /\ degradedKey /\ degradedKey' = FALSE
  /\ UNCHANGED <<status, onlineKey, current, handler, adminVars>>

\* The control plane restarts; the database and the cache stay.
ServerCrash ==
  /\ current # NoStream
  /\ current' = NoStream /\ handler' = [s \in Stream |-> NoHandler]
  /\ sweeper' = "idle" /\ revoker' = "idle"
  /\ UNCHANGED <<status, cacheVars>>

Sweep == SweepChecks \/ SweepMarks
Setup(s) ==
  \/ RegisterStream(s) \/ SetOnlineKey(s) \/ MarkConnected(s) \/ MarkConnectedFails(s)
  \/ SyncComplete(s) \/ SyncDegraded(s) \/ SyncFails(s)
CleanUp(s) ==
  \/ CleanUnregister(s) \/ CleanOnlineKey(s) \/ CleanDegradedKey(s)
  \/ MarkOfflineOnDisconnect(s) \/ MarkOfflineFails(s)

PrsNext ==
  \/ \E s \in Stream : \/ Gate(s) \/ Setup(s) \/ Heartbeat(s) \/ HeartbeatHeals(s)
                       \/ StreamEnds(s) \/ StreamBreaks(s) \/ CleanUp(s)
  \/ Sweep \/ Approve \/ RevokeAgent \/ RevokeCuts
  \/ ExpireOnline \/ ExpireDegraded \/ ServerCrash

\* Handlers, the clean-up, the sweeper's ticker and a revoke in progress all run;
\* a live stream carries heartbeats (the agent's heartbeatLoop); the select that
\* sees the end of a stream is not starved by them; a time to live ends.
PrsFair ==
  /\ \A s \in Stream : /\ WF_prsVars(Setup(s)) /\ WF_prsVars(CleanUp(s))
                       /\ WF_prsVars(Heartbeat(s))
                       /\ WF_prsVars(HeartbeatHeals(s))
  /\ SF_prsVars(\E s \in Stream : StreamEnds(s))
  /\ WF_prsVars(SweepChecks) /\ WF_prsVars(SweepMarks)
  /\ WF_prsVars(RevokeCuts) /\ WF_prsVars(ExpireOnline)

PrsSpec == PrsInit /\ [][PrsNext]_prsVars
PrsFairSpec == PrsSpec /\ PrsFair

-----------------------------------------------------------------------------
(* Properties.                                                             *)

Serving(s) == handler[s].pc \in {"live", "heal"}
CurrentServes == current # NoStream /\ Serving(current)

\* The registered connection is a handler between its Register and its Unregister,
\* and every handler in between is registered or cancelled.
PrsTypeOK ==
  /\ status \in Usable \cup {"revoked"}
  /\ onlineKey \in BOOLEAN /\ degradedKey \in BOOLEAN
  /\ current # NoStream => handler[current].pc \in
       {"setkey", "mark", "sync", "live", "heal", "returned"}
  /\ \A s \in Stream : Serving(s) /\ current # s => Cancelled(s)

\* A revoked agent leaves that state only when an administrator approves it:
\* neither a connect that passed the gate before the revocation, nor a heartbeat,
\* nor a late clean-up, nor the sweeper revives it.
RevokedStays == [][status = "revoked" => status' \in {"revoked", "approved"}]_prsVars

\* Revoking ends the service of an agent whatever it was doing: connected, in the
\* middle of Connect, or reconnecting.  (A connection whose status write failed
\* went on unchecked and is excepted.)
RevokedIsCut ==
  []<>(status = "revoked" => \A s \in Stream : Serving(s) => handler[s].unmarked)

\* A status left offline by the sweeper, or by the clean-up of the connection
\* before, does not outlast the next heartbeat of the live one.
PresenceHeals ==
  []<>(CurrentServes => status # "offline")

\* An agent without a stream does not stay online, even if the control plane
\* crashed before its clean-up could run.
OfflineDetected ==
  []<>(current = NoStream => status # "online")

\* The degraded marker of an earlier connection does not taint a later one that
\* synchronised completely.
MarkerNotStale ==
  \A s \in Stream : Serving(s) /\ current = s /\ ~handler[s].degraded => ~degradedKey

\* A degraded connection is reported for as long as it lives, also after the key
\* expired or another connection's clean-up removed it.
MarkerReturns ==
  []<>(CurrentServes /\ handler[current].degraded => degradedKey)

\* What the control plane shows of an agent comes to agree with its stream: online,
\* offline and degraded, whatever clean-up, sweep or heartbeat came last.
PresenceIsTrue ==
  []PrsTypeOK /\ []MarkerNotStale /\ MarkerReturns /\ PresenceHeals /\ OfflineDetected

\* A revoked agent is out, and stays out until it is approved.
RevokedIsOut == RevokedStays /\ RevokedIsCut
=============================================================================
