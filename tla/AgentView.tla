----------------------------- MODULE AgentView ------------------------------
(***************************************************************************)
(* What the REST API shows of an agent: its row, listed by status or read  *)
(* by id, and, one after the other, the Redis keys for its presence and    *)
(* for its latest telemetry.  The keys expire, a heartbeat renews them one *)
(* by one and the end of a stream deletes only the first.  The marker of a *)
(* degraded rule synchronisation is AgentPresence's.                       *)
(***************************************************************************)
EXTENDS Naturals

CONSTANT OnlineTTL    \* agentOnlineTTL, in ticks

ASSUME ViewAssumption == OnlineTTL \in Nat \ {0}

VARIABLES
  vstatus,      \* agents.status
  onlineKey,    \* what is left of the presence key, 0: none
  statsKey,     \* what is left of the telemetry key
  beat,         \* ticks since the heartbeat the telemetry is from
  vstream,      \* the stream: none, open, or in the middle of a heartbeat
  view          \* the request being answered

viewVars == <<vstatus, onlineKey, statsKey, beat, vstream, view>>
keys == <<onlineKey, statsKey, beat>>

Shown == {"PENDING", "APPROVED", "RUNNING", "OFFLINE", "REVOKED"}

NoView == [pc |-> "none", filter |-> "", found |-> FALSE, status |-> "", row |-> "",
           online |-> FALSE, telemetry |-> FALSE, age |-> 0]

ViewInit ==
  /\ vstatus = "pending" /\ onlineKey = 0 /\ statsKey = 0 /\ beat = 0
  /\ vstream = "none" /\ view = NoView

-----------------------------------------------------------------------------
(* The agent's stream.                                                     *)

Upper(s) ==
  CASE s = "pending" -> "PENDING" [] s = "approved" -> "APPROVED" [] s = "online" -> "ONLINE"
    [] s = "offline" -> "OFFLINE" [] s = "revoked" -> "REVOKED"

ViewConnects ==
  /\ vstream = "none" /\ vstatus \in {"approved", "offline", "online"}
  /\ vstream' = "open" /\ vstatus' = "online" /\ onlineKey' \in {onlineKey, OnlineTTL}
  /\ UNCHANGED <<statsKey, beat, view>>

\* handleHeartbeat renews the presence key and then the telemetry; either may fail to
\* reach Redis.
HeartbeatPresence ==
  /\ vstream = "open" /\ vstream' = "beat" /\ onlineKey' \in {onlineKey, OnlineTTL}
  /\ UNCHANGED <<vstatus, statsKey, beat, view>>

HeartbeatStatsLong ==
  /\ vstream = "beat" /\ vstream' = "open"
  /\ statsKey' = 2 * OnlineTTL /\ beat' = 0
  /\ UNCHANGED <<vstatus, onlineKey, view>>

HeartbeatStats ==
  /\ vstream = "beat" /\ vstream' = "open"
  /\ (statsKey' = OnlineTTL /\ beat' = 0) \/ UNCHANGED <<statsKey, beat>>
  /\ UNCHANGED <<vstatus, onlineKey, view>>

ViewDisconnects ==
  /\ vstream # "none" /\ vstream' = "none" /\ onlineKey' = 0
  /\ vstatus' = IF vstatus = "online" THEN "offline" ELSE vstatus
  /\ UNCHANGED <<statsKey, beat, view>>

Decision ==
  /\ \E s \in {"approved", "revoked"} : vstatus' = s
  /\ UNCHANGED <<keys, vstream, view>>

Lapse(k) == IF k = 0 THEN 0 ELSE k - 1

TickKeys ==
  /\ onlineKey' = Lapse(onlineKey) /\ statsKey' = Lapse(statsKey)
  /\ beat' = IF beat > OnlineTTL THEN beat ELSE beat + 1
  /\ UNCHANGED <<vstatus, vstream, view>>

-----------------------------------------------------------------------------
(* List and Get.                                                           *)

MapFrontendStatusToDB(f) ==
  CASE f = "PENDING" -> "pending" [] f = "APPROVED" -> "approved" [] f = "OFFLINE" -> "offline"
    [] f = "REVOKED" -> "revoked" [] f = "RUNNING" -> "online"

MapDBStatusToFrontend(s) == IF Upper(s) = "ONLINE" THEN "RUNNING" ELSE Upper(s)

\* The rows of the table, all of them or those of a status.
ListAgents == {vstatus}
ListAgentsByStatus(s) == {r \in {vstatus} : r = s}

\* With a status, without one, or by id: the row, or nothing.
ViewReads ==
  /\ view.pc = "none"
  /\ \E f \in Shown \cup {""} :
       LET rows == IF f = "" THEN ListAgents ELSE ListAgentsByStatus(MapFrontendStatusToDB(f))
           found == rows # {} IN
       view' = [NoView EXCEPT !.pc = IF found THEN "online" ELSE "done", !.filter = f,
                              !.found = found, !.row = vstatus,
                              !.status = IF found THEN MapDBStatusToFrontend(vstatus) ELSE ""]
  /\ UNCHANGED <<vstatus, keys, vstream>>

\* A key that cannot be read counts as absent.
ViewOnline ==
  /\ view.pc = "online"
  /\ \E readable \in BOOLEAN :
       LET up == readable /\ onlineKey > 0 IN
       view' = [view EXCEPT !.online = up, !.pc = IF up THEN "stats" ELSE "done"]
  /\ UNCHANGED <<vstatus, keys, vstream>>

ViewStats ==
  /\ view.pc = "stats"
  /\ \E readable \in BOOLEAN :
       LET shown == readable /\ statsKey > 0 IN
       view' = [view EXCEPT !.telemetry = shown, !.age = IF shown THEN beat ELSE 0, !.pc = "done"]
  /\ UNCHANGED <<vstatus, keys, vstream>>

ViewAnswered ==
  /\ view.pc = "done" /\ view' = NoView /\ UNCHANGED <<vstatus, keys, vstream>>

ViewNext ==
  \/ ViewConnects \/ HeartbeatPresence \/ HeartbeatStats \/ ViewDisconnects \/ Decision
  \/ TickKeys \/ ViewReads \/ ViewOnline \/ ViewStats \/ ViewAnswered

ViewSpec == ViewInit /\ [][ViewNext]_viewVars

-----------------------------------------------------------------------------
(* Properties.                                                             *)

\* A list by status holds exactly the agents that the API shows with that status: the
\* two translations between the API's names and the database's are inverse.
ListMatchesDisplay ==
  view.pc # "none" /\ view.filter # "" =>
    (view.found <=> MapDBStatusToFrontend(view.row) = view.filter)

\* Telemetry that is shown comes with is_online, and from a heartbeat within the
\* presence window: an agent that reconnects without reporting, or whose reports no
\* longer reach Redis, does not show old numbers for longer than that.
TelemetryFresh == view.telemetry => view.online /\ view.age < OnlineTTL

\* The API shows agents as they are: under the status they are listed by, and with
\* telemetry only while it is fresh.
ViewIsCurrent == ListMatchesDisplay /\ TelemetryFresh
=============================================================================
