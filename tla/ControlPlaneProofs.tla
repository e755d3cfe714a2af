-------------------------- MODULE ControlPlaneProofs --------------------------
(***************************************************************************)
(* Proofs about six parts of the control plane: the requests that wait     *)
(* for an agent (PendingRequests), what the API shows of an agent          *)
(* (AgentView), the sessions of a user (Sessions), the registry of agent   *)
(* streams (AgentRegistry), the check of the object store                  *)
(* (StorageSelfCheck) and the limit of the REST API (RateLimit).  Each has *)
(* an inductive invariant, which is the property and what it rests on.     *)
(***************************************************************************)
EXTENDS PendingRequests, AgentView, Sessions, AgentRegistry, StorageSelfCheck, RateLimit,
        TLAPS

USE Zenon

-----------------------------------------------------------------------------
(* PendingRequests.  A request is in flight in one place at a time, and a  *)
(* handler that waits for one in flight is registered.                     *)

InFlight == commands \cup walking \cup results

Awaited(a) ==
  /\ phase[a] \in {"idle", "register", "send"} => a \notin InFlight /\ loaded # <<a, a>>
  /\ phase[a] = "send" => a \in store
  /\ phase[a] = "wait" /\ a \in InFlight => a \in store

PendInv ==
  /\ PendTypeOK /\ AnswerIsOwn /\ AnswerNotMissed
  /\ commands \cap walking = {} /\ commands \cap results = {} /\ walking \cap results = {}
  /\ loaded = NotLoaded \/ \E a \in Asker \ InFlight : loaded = <<a, a>>
  /\ \A a \in Asker : Awaited(a)

LEMMA PendStep == PendInv /\ [PendNext]_pendVars => PendInv'
<1> SUFFICES ASSUME PendInv, [PendNext]_pendVars PROVE PendInv'
  OBVIOUS
<1> USE PendingAssumption DEF PendInv, PendTypeOK, AnswerIsOwn, AnswerNotMissed, InFlight,
        Awaited, NotLoaded
<1>1. ASSUME NEW a \in Asker, Admit(a) PROVE PendInv'
  BY <1>1, SMT DEF Admit, agentSide, receiver
<1>2. ASSUME NEW a \in Asker, RegisterAsk(a) PROVE PendInv'
  BY <1>2, SMT DEF RegisterAsk, agentSide, receiver
<1>3. ASSUME NEW a \in Asker, SendAsk(a) PROVE PendInv'
  BY <1>3, SMT DEF SendAsk, receiver
<1>4. ASSUME NEW a \in Asker, AskAnswered(a) \/ TimesOut(a) PROVE PendInv'
  <2>1. /\ phase[a] = "wait" /\ phase' = [phase EXCEPT ![a] = "done"] /\ store' = store \ {a}
        /\ UNCHANGED <<answer, agentSide, receiver>>
    BY <1>4 DEF AskAnswered, TimesOut
  <2> QED BY <2>1 DEF agentSide, receiver
<1>5. ASSUME NEW a \in Asker, CommandArrives(a) \/ WalkDone(a) PROVE PendInv'
  BY <1>5, SMT DEF CommandArrives, WalkDone, receiver
<1>6. ASSUME NEW a \in Asker, DeliverLoads(a) PROVE PendInv'
  BY <1>6, SMT DEF DeliverLoads, Addressed
<1>7. ASSUME NEW a \in Asker, Forget(a) PROVE PendInv'
  BY <1>7, SMT DEF Forget, agentSide
<1>8. ASSUME DeliverSends PROVE PendInv'
  BY <1>8, SMT DEF DeliverSends, agentSide
<1>9. ASSUME StreamLostAt \/ Reconnects PROVE PendInv'
  BY <1>9 DEF StreamLostAt, Reconnects, receiver
<1>10. ASSUME UNCHANGED pendVars PROVE PendInv'
  BY <1>10 DEF pendVars
<1> QED BY <1>1, <1>2, <1>3, <1>4, <1>5, <1>6, <1>7, <1>8, <1>9, <1>10 DEF PendNext

\* A result reaches the handler that waits for it and no other: registering before
\* sending, and one copy of every command, are enough whatever streams break and
\* however late results come (dirstore.Deliver, dryrun.Deliver).
THEOREM AnswersAlwaysArrive == PendSpec => []AnswersArrive
<1>1. PendInit => PendInv
  BY PendingAssumption, SMT DEF PendInit, PendInv, PendTypeOK, AnswerIsOwn, AnswerNotMissed, InFlight,
     Awaited, NotLoaded
<1>2. PendInv => AnswersArrive
  BY DEF PendInv, AnswersArrive
<1> QED BY <1>1, <1>2, PendStep, PTL DEF PendSpec

-----------------------------------------------------------------------------
(* AgentView.  The telemetry key lives no longer than its numbers are      *)
(* fresh, and the two reads of a request keep their order.                 *)

ViewPc == {"none", "online", "stats", "done"}
DBStatus == {"pending", "approved", "online", "offline", "revoked"}

ViewType ==
  [pc : ViewPc, filter : Shown \cup {""}, found : BOOLEAN,
   status : Shown \cup {""},
   row : DBStatus \cup {""}, online : BOOLEAN, telemetry : BOOLEAN, age : Nat]

ViewInv ==
  /\ vstatus \in DBStatus
  /\ statsKey \in Nat /\ beat \in Nat
  /\ statsKey > 0 => beat + statsKey <= OnlineTTL
  /\ view \in ViewType
  /\ view.pc = "stats" => view.online
  /\ view.pc \in {"online", "stats"} => ~view.telemetry
  /\ ListMatchesDisplay /\ TelemetryFresh

LEMMA Translations ==
  ASSUME NEW s \in DBStatus, NEW f \in Shown
  PROVE  /\ MapFrontendStatusToDB(f) = s <=> MapDBStatusToFrontend(s) = f
         /\ MapDBStatusToFrontend(s) \in Shown
<1>1. /\ Upper("pending") = "PENDING" /\ Upper("approved") = "APPROVED"
      /\ Upper("online") = "ONLINE" /\ Upper("offline") = "OFFLINE"
      /\ Upper("revoked") = "REVOKED"
  BY DEF Upper
<1>2. /\ MapDBStatusToFrontend("pending") = "PENDING"
      /\ MapDBStatusToFrontend("approved") = "APPROVED"
      /\ MapDBStatusToFrontend("online") = "RUNNING"
      /\ MapDBStatusToFrontend("offline") = "OFFLINE"
      /\ MapDBStatusToFrontend("revoked") = "REVOKED"
  BY <1>1 DEF MapDBStatusToFrontend
<1>3. /\ MapFrontendStatusToDB("PENDING") = "pending"
      /\ MapFrontendStatusToDB("APPROVED") = "approved"
      /\ MapFrontendStatusToDB("RUNNING") = "online"
      /\ MapFrontendStatusToDB("OFFLINE") = "offline"
      /\ MapFrontendStatusToDB("REVOKED") = "revoked"
  BY DEF MapFrontendStatusToDB
<1>4. \A r \in DBStatus :
        MapFrontendStatusToDB(MapDBStatusToFrontend(r)) = r /\ MapDBStatusToFrontend(r) \in Shown
  BY <1>2, <1>3 DEF Shown, DBStatus
<1>5. \A g \in Shown : MapDBStatusToFrontend(MapFrontendStatusToDB(g)) = g
  BY <1>2, <1>3 DEF Shown, DBStatus
<1> QED BY <1>4, <1>5

LEMMA ViewStep == ViewInv /\ [ViewNext]_viewVars => ViewInv'
<1> SUFFICES ASSUME ViewInv, [ViewNext]_viewVars PROVE ViewInv'
  OBVIOUS
<1>0. /\ statsKey \in Nat /\ beat \in Nat /\ OnlineTTL \in Nat /\ OnlineTTL > 0
      /\ statsKey > 0 => beat + statsKey <= OnlineTTL
  BY ViewAssumption, SMT DEF ViewInv
<1>1. ASSUME UNCHANGED view, vstatus' \in {vstatus, "approved", "online", "offline", "revoked"},
             statsKey' \in Nat, beat' \in Nat, statsKey' > 0 => beat' + statsKey' <= OnlineTTL
      PROVE  ViewInv'
  BY <1>1 DEF ViewInv, ListMatchesDisplay, TelemetryFresh, DBStatus
<1>2. ASSUME ViewConnects \/ HeartbeatPresence \/ ViewDisconnects \/ Decision
             \/ UNCHANGED viewVars
      PROVE  ViewInv'
  <2>1. UNCHANGED <<view, statsKey, beat>>
    BY <1>2 DEF ViewConnects, HeartbeatPresence, ViewDisconnects, Decision, viewVars, keys
  <2>2. vstatus' \in {vstatus, "approved", "online", "offline", "revoked"}
    BY <1>2 DEF ViewConnects, HeartbeatPresence, ViewDisconnects, Decision, viewVars
  <2> QED BY <1>0, <1>1, <2>1, <2>2
<1>3. ASSUME HeartbeatStats PROVE ViewInv'
  <2>1. (statsKey' = OnlineTTL /\ beat' = 0) \/ UNCHANGED <<statsKey, beat>>
    BY <1>3 DEF HeartbeatStats
  <2>2. statsKey' \in Nat /\ beat' \in Nat /\ (statsKey' > 0 => beat' + statsKey' <= OnlineTTL)
    BY <1>0, <2>1, SMT
  <2> QED BY <1>1, <1>3, <2>2 DEF HeartbeatStats
<1>4. ASSUME TickKeys PROVE ViewInv'
  <2>1. statsKey' \in Nat /\ beat' \in Nat /\ (statsKey' > 0 => beat' + statsKey' <= OnlineTTL)
    BY <1>0, <1>4, SMT DEF TickKeys, Lapse
  <2> QED BY <1>1, <1>4, <2>1 DEF TickKeys
<1>5. ASSUME UNCHANGED <<vstatus, statsKey, beat>>, view' \in ViewType,
             view'.pc = "stats" => view'.online,
             view'.pc \in {"online", "stats"} => ~view'.telemetry,
             view'.pc # "none" /\ view'.filter # "" =>
               (view'.found <=> MapDBStatusToFrontend(view'.row) = view'.filter),
             view'.telemetry => view'.online /\ view'.age < OnlineTTL
      PROVE  ViewInv'
  BY <1>5 DEF ViewInv, ListMatchesDisplay, TelemetryFresh
<1>6. ASSUME ViewReads PROVE ViewInv'
  <2>1. PICK f \in Shown \cup {""}, found \in BOOLEAN :
          /\ found = (f = "" \/ vstatus = MapFrontendStatusToDB(f))
          /\ view' = [NoView EXCEPT !.pc = IF found THEN "online" ELSE "done", !.filter = f,
                        !.found = found, !.row = vstatus,
                        !.status = IF found THEN MapDBStatusToFrontend(vstatus) ELSE ""]
    <3>1. PICK f \in Shown \cup {""} :
            LET rows == IF f = "" THEN ListAgents
                        ELSE ListAgentsByStatus(MapFrontendStatusToDB(f))
                found == rows # {} IN
            view' = [NoView EXCEPT !.pc = IF found THEN "online" ELSE "done", !.filter = f,
                       !.found = found, !.row = vstatus,
                       !.status = IF found THEN MapDBStatusToFrontend(vstatus) ELSE ""]
      BY <1>6 DEF ViewReads
    <3>2. ListAgents # {} /\ \A s : ListAgentsByStatus(s) # {} <=> vstatus = s
      BY DEF ListAgents, ListAgentsByStatus
    <3> DEFINE found == f = "" \/ vstatus = MapFrontendStatusToDB(f)
    <3>3. ((IF f = "" THEN ListAgents ELSE ListAgentsByStatus(MapFrontendStatusToDB(f))) # {})
            = found
      BY <3>2
    <3>4. view' = [NoView EXCEPT !.pc = IF found THEN "online" ELSE "done", !.filter = f,
                     !.found = found, !.row = vstatus,
                     !.status = IF found THEN MapDBStatusToFrontend(vstatus) ELSE ""]
      BY <3>1, <3>3
    <3> QED BY <3>4
  <2>2. /\ view'.pc \in {"online", "done"} /\ view'.filter = f /\ view'.found = found
        /\ view'.row = vstatus /\ view'.telemetry = FALSE
    BY <2>1 DEF NoView
  <2>3. view' \in ViewType
    <3>1. MapDBStatusToFrontend(vstatus) \in Shown
      BY Translations DEF ViewInv, Shown
    <3>2. PICK p \in ViewPc, s \in Shown \cup {""} :
            view' = [pc |-> p, filter |-> f, found |-> found, status |-> s, row |-> vstatus,
                     online |-> FALSE, telemetry |-> FALSE, age |-> 0]
      BY <2>1, <3>1 DEF NoView, ViewPc
    <3>3. vstatus \in DBStatus \cup {""}
      BY DEF ViewInv, DBStatus
    <3>4. \A q \in ViewPc, g \in Shown \cup {""}, b \in BOOLEAN, u \in Shown \cup {""},
             r \in DBStatus \cup {""} :
            [pc |-> q, filter |-> g, found |-> b, status |-> u, row |-> r,
             online |-> FALSE, telemetry |-> FALSE, age |-> 0] \in ViewType
      BY DEF ViewType
    <3> QED BY <3>2, <3>3, <3>4
  <2>4. f # "" => (found <=> MapDBStatusToFrontend(vstatus) = f)
    BY <2>1, Translations DEF ViewInv
  <2> QED BY <1>5, <1>6, <2>2, <2>3, <2>4 DEF ViewReads, keys
<1>7. ASSUME ViewOnline PROVE ViewInv'
  <2>1. PICK b \in BOOLEAN :
          view' = [view EXCEPT !.online = b, !.pc = IF b THEN "stats" ELSE "done"]
    BY <1>7 DEF ViewOnline
  <2>2. /\ view'.pc = (IF b THEN "stats" ELSE "done") /\ view'.online = b
        /\ view'.filter = view.filter /\ view'.found = view.found /\ view'.row = view.row
        /\ view'.telemetry = view.telemetry /\ view' \in ViewType
    BY <2>1 DEF ViewInv, ViewType, ViewPc
  <2>3. view.pc = "online" /\ ~view.telemetry /\ ListMatchesDisplay
    BY <1>7 DEF ViewOnline, ViewInv
  <2> QED BY <1>5, <1>7, <2>2, <2>3 DEF ViewOnline, ListMatchesDisplay, keys
<1>8. ASSUME ViewStats PROVE ViewInv'
  <2>1. PICK b \in BOOLEAN :
          /\ b => statsKey > 0
          /\ view' = [view EXCEPT !.telemetry = b, !.age = IF b THEN beat ELSE 0, !.pc = "done"]
    BY <1>8 DEF ViewStats
  <2>2. /\ view'.pc = "done" /\ view'.online = view.online
        /\ view'.filter = view.filter /\ view'.found = view.found /\ view'.row = view.row
        /\ view'.telemetry = b /\ view'.age = (IF b THEN beat ELSE 0)
    BY <2>1 DEF ViewInv, ViewType, ViewPc
  <2>3. view' \in ViewType
    BY <1>0, <2>1 DEF ViewInv, ViewType, ViewPc
  <2>4. view.pc = "stats" /\ view.online /\ ListMatchesDisplay
    BY <1>8 DEF ViewStats, ViewInv
  <2>5. b => beat < OnlineTTL
    BY <1>0, <2>1, SMT
  <2> QED BY <1>5, <1>8, <2>2, <2>3, <2>4, <2>5 DEF ViewStats, ListMatchesDisplay, keys
<1>9. ASSUME ViewAnswered PROVE ViewInv'
  <2>1. view'.pc = "none" /\ view'.telemetry = FALSE /\ view' \in ViewType
    BY <1>9 DEF ViewAnswered, ViewType, NoView, ViewPc
  <2> QED BY <1>5, <1>9, <2>1 DEF ViewAnswered, keys
<1> QED BY <1>2, <1>3, <1>4, <1>6, <1>7, <1>8, <1>9 DEF ViewNext

\* Agents are listed under the status they are shown with, and telemetry is shown only
\* with is_online and within the presence window, for every value of agentOnlineTTL and
\* whatever writes of the keys fail.
THEOREM ViewAlwaysCurrent == ViewSpec => []ViewIsCurrent
<1>1. ViewInit => ViewInv
  <2> SUFFICES ASSUME ViewInit PROVE ViewInv
    OBVIOUS
  <2>1. view.pc = "none" /\ view.telemetry = FALSE /\ view \in ViewType
    BY DEF ViewInit, NoView, ViewType, ViewPc
  <2> QED BY <2>1, SMT DEF ViewInit, ViewInv, ListMatchesDisplay, TelemetryFresh, DBStatus
<1>2. ViewInv => ViewIsCurrent
  BY DEF ViewInv, ViewIsCurrent
<1> QED BY <1>1, <1>2, ViewStep, PTL DEF ViewSpec

-----------------------------------------------------------------------------
(* Sessions.  A token that was generated is nobody's until its answer      *)
(* arrives; only the request the client waits for may hold the token the   *)
(* client keeps, and only its answer still has to come when that token is  *)
(* blacklisted.                                                            *)

CallType ==
  [at : {"idle", "generate", "revoke", "reply"}, old : RefreshToken \cup {NoRefresh},
   new : RefreshToken \cup {NoRefresh}, waited : BOOLEAN]

SesTypes ==
  /\ SesTypeOK /\ call \in [Call -> CallType]
  /\ revoked \subseteq RefreshToken /\ \A t \in revoked : left[t] > 0 /\ black[t] = left[t]

Served(c) ==
  /\ call[c].at = "idle" => call[c] = NoCall
  /\ call[c].at # "idle" => call[c].old \in RefreshToken
  /\ call[c].at = "generate" => call[c].new = NoRefresh
  /\ call[c].at \in {"revoke", "reply"} => call[c].new \in RefreshToken
  /\ call[c].waited => call[c].old = held /\ held # NoRefresh

Unseen(c) ==
  call[c].new # NoRefresh =>
    /\ black[call[c].new] = 0 /\ call[c].new # held
    /\ \A d \in Call : call[d].old # call[c].new /\ (d # c => call[d].new # call[c].new)

HeldInv ==
  /\ \A c, d \in Call : call[c].waited /\ call[d].waited => c = d
  /\ held # NoRefresh /\ sure =>
       /\ \A c \in Call : call[c].old = held => call[c].waited
       /\ black[held] > 0 => \E c \in Call : call[c].waited /\ call[c].at = "reply"

SesInv == SesTypes /\ HeldInv /\ \A c \in Call : Served(c) /\ Unseen(c)

\* The call of one request changes, the others stay.
LEMMA CallChanges ==
  ASSUME call \in [Call -> CallType], NEW c \in Call, NEW r \in CallType,
         call' = [call EXCEPT ![c] = r]
  PROVE  /\ call' \in [Call -> CallType] /\ call'[c] = r
         /\ \A d \in Call \ {c} : call'[d] = call[d]
OBVIOUS

LEMMA NoCallTyped == NoCall \in CallType
BY DEF NoCall, CallType

\* The invariant survives whatever leaves the tokens, the requests and the client alone.
LEMMA SesFrame ==
  ASSUME SesInv, UNCHANGED <<left, black, revoked, held, sure, call>>,
         account' \in {"absent", "active", "disabled"}
  PROVE  SesInv'
<1>1. SesTypes'
  BY DEF SesInv, SesTypes, SesTypeOK
<1>2. HeldInv'
  BY DEF SesInv, HeldInv
<1>3. \A c \in Call : Served(c)' /\ Unseen(c)'
  BY DEF SesInv, Served, Unseen
<1> QED BY <1>1, <1>2, <1>3 DEF SesInv

LEMMA SesTick == ASSUME SesInv, Tick PROVE SesInv'
<1>1. \A n \in 0..RefreshTTL : Less(n) \in 0..RefreshTTL /\ (n = 0 => Less(n) = 0)
        /\ (Less(n) > 0 => n > 0) /\ \A m \in 0..RefreshTTL : m <= n => Less(m) <= Less(n)
  BY SessionAssumption, SMT DEF Less
<1>2. /\ left \in [RefreshToken -> 0..RefreshTTL] /\ black \in [RefreshToken -> 0..RefreshTTL]
      /\ \A t \in RefreshToken : black[t] <= left[t]
      /\ revoked \subseteq RefreshToken /\ \A t \in revoked : left[t] > 0 /\ black[t] = left[t]
  BY DEF SesInv, SesTypes, SesTypeOK
<1>3. /\ left' = [t \in RefreshToken |-> Less(left[t])]
      /\ black' = [t \in RefreshToken |-> Less(black[t])]
      /\ revoked' = {t \in revoked : left'[t] > 0}
      /\ UNCHANGED <<account, held, sure, call>>
  BY DEF Tick, acctVars, clientVars
<1>4. /\ \A t \in RefreshToken : left'[t] = Less(left[t]) /\ black'[t] = Less(black[t])
      /\ left' \in [RefreshToken -> 0..RefreshTTL] /\ black' \in [RefreshToken -> 0..RefreshTTL]
  BY <1>1, <1>2, <1>3
<1>5. SesTypes'
  <2>1. \A t \in RefreshToken : black'[t] <= left'[t]
    BY <1>1, <1>2, <1>4
  <2>2. revoked' \subseteq RefreshToken /\ \A t \in revoked' : left'[t] > 0 /\ black'[t] = left'[t]
    BY <1>2, <1>3, <1>4
  <2> QED BY <1>3, <1>4, <2>1, <2>2 DEF SesInv, SesTypes, SesTypeOK
<1>6. \A t \in RefreshToken : (black[t] = 0 => black'[t] = 0) /\ (black'[t] > 0 => black[t] > 0)
  BY <1>1, <1>2, <1>4
<1>7. \A c \in Call : Served(c)'
  BY <1>3 DEF SesInv, Served
<1>8. \A c \in Call : Unseen(c)'
  <2>1. \A c \in Call : call[c].new \in RefreshToken \cup {NoRefresh}
    BY DEF SesInv, SesTypes, CallType
  <2> QED BY <1>3, <1>6, <2>1 DEF SesInv, Unseen
<1>9. HeldInv'
  <2>1. held \in RefreshToken \cup {NoRefresh}
    BY DEF SesInv, SesTypes, SesTypeOK
  <2> QED BY <1>3, <1>6, <2>1 DEF SesInv, HeldInv
<1> QED BY <1>5, <1>7, <1>8, <1>9 DEF SesInv

LEMMA SesLogin == ASSUME SesInv, Login PROVE SesInv'
<1>1. PICK t \in RefreshToken :
        /\ NeverUsed(t) /\ left' = [left EXCEPT ![t] = RefreshTTL] /\ held' = t
  BY DEF Login
<1>2. held = NoRefresh /\ UNCHANGED <<account, black, revoked, call>>
  BY DEF Login, acctVars
<1>3. \A c \in Call : ~call[c].waited /\ call[c].old # t /\ call[c].new # t
  BY <1>1, <1>2 DEF SesInv, Served, NeverUsed
<1>4. SesTypes'
  <2>1. left' \in [RefreshToken -> 0..RefreshTTL] /\ left'[t] = RefreshTTL
        /\ \A u \in RefreshToken \ {t} : left'[u] = left[u]
    BY <1>1, SessionAssumption, SMT DEF SesInv, SesTypes, SesTypeOK
  <2>2. \A u \in RefreshToken : black'[u] <= left'[u]
    BY <1>2, <2>1, SessionAssumption, SMT DEF SesInv, SesTypes, SesTypeOK
  <2>3. t \notin revoked
    BY <1>1, SMT DEF SesInv, SesTypes, SesTypeOK, NeverUsed
  <2> QED BY <1>1, <1>2, <2>1, <2>2, <2>3 DEF SesInv, SesTypes, SesTypeOK
<1>5. \A c \in Call : Served(c)' /\ Unseen(c)'
  BY <1>1, <1>2, <1>3 DEF SesInv, Served, Unseen
<1>6. HeldInv'
  <2>1. ~(black'[t] > 0)
    BY <1>1, <1>2, SMT DEF NeverUsed
  <2> QED BY <1>1, <1>2, <1>3, <2>1 DEF HeldInv
<1> QED BY <1>4, <1>5, <1>6 DEF SesInv

\* Logout and a refused refresh: the client forgets its token.
LEMMA SesForgets ==
  ASSUME SesInv, \A c \in Call : ~call[c].waited, held' = NoRefresh,
         UNCHANGED <<account, left, black, revoked, call>>
  PROVE  SesInv'
<1>1. SesTypes'
  BY DEF SesInv, SesTypes, SesTypeOK
<1>2. HeldInv'
  BY DEF SesInv, HeldInv
<1>3. \A c \in Call : Served(c)' /\ Unseen(c)'
  BY DEF SesInv, Served, Unseen
<1> QED BY <1>1, <1>2, <1>3 DEF SesInv

LEMMA SesAccepted ==
  ASSUME SesInv, NEW c \in Call, RefreshAccepted(c) PROVE SesInv'
<1> DEFINE r == [at |-> "generate", old |-> held, new |-> NoRefresh, waited |-> TRUE]
<1>1. /\ call[c] = NoCall /\ held # NoRefresh /\ call' = [call EXCEPT ![c] = r]
      /\ \A d \in Call : ~call[d].waited
      /\ UNCHANGED <<account, left, black, revoked, held, sure>>
  BY DEF RefreshAccepted, acctVars, tokenVars, clientVars
<1>2. held \in RefreshToken /\ r \in CallType
  BY <1>1 DEF SesInv, SesTypes, SesTypeOK, CallType
<1>3. /\ call' \in [Call -> CallType] /\ call'[c] = r
      /\ \A d \in Call \ {c} : call'[d] = call[d]
  BY <1>1, <1>2, CallChanges DEF SesInv, SesTypes
<1>4. /\ call'[c].at = "generate" /\ call'[c].old = held /\ call'[c].new = NoRefresh
      /\ call'[c].waited = TRUE
  BY <1>3, SMT
<1> HIDE DEF r
<1>5. SesTypes'
  BY <1>1, <1>3 DEF SesInv, SesTypes, SesTypeOK
<1>6. \A d \in Call : Served(d)'
  BY <1>1, <1>2, <1>3, <1>4 DEF SesInv, Served
<1>7. \A d \in Call : Unseen(d)'
  <2>1. \A d \in Call : call[d].new # NoRefresh => call[d].new # held
    BY DEF SesInv, Unseen
  <2> QED BY <1>1, <1>3, <1>4, <2>1, SMT DEF SesInv, Unseen
<1>8. HeldInv'
  BY <1>1, <1>3, <1>4 DEF SesInv, HeldInv
<1> QED BY <1>5, <1>6, <1>7, <1>8 DEF SesInv

\* A request ends without an answer that the client takes.
LEMMA SesEnds ==
  ASSUME SesInv, NEW c \in Call, call[c].at = "reply" => ~call[c].waited,
         call' = [call EXCEPT ![c] = NoCall],
         UNCHANGED <<account, left, black, revoked, held, sure>>
  PROVE  SesInv'
<1>1. /\ call' \in [Call -> CallType] /\ call'[c] = NoCall
      /\ \A d \in Call \ {c} : call'[d] = call[d]
  BY CallChanges, NoCallTyped DEF SesInv, SesTypes
<1>2. /\ call'[c].at = "idle" /\ call'[c].old = NoRefresh /\ call'[c].new = NoRefresh
      /\ call'[c].waited = FALSE
  BY <1>1 DEF NoCall
<1>3. SesTypes'
  BY <1>1 DEF SesInv, SesTypes, SesTypeOK
<1>4. \A d \in Call : Served(d)'
  BY <1>1, <1>2 DEF SesInv, Served, NoCall
<1>5. \A d \in Call : Unseen(d)'
  BY <1>1, <1>2 DEF SesInv, Unseen
<1>6. HeldInv'
  BY <1>1, <1>2 DEF SesInv, HeldInv
<1> QED BY <1>3, <1>4, <1>5, <1>6 DEF SesInv

LEMMA SesGenerate ==
  ASSUME SesInv, NEW c \in Call, Generate(c) PROVE SesInv'
<1>1. call[c].at = "generate" /\ UNCHANGED <<account, black, revoked, held, sure>>
  BY DEF Generate, acctVars, clientVars
<1>2. CASE call' = [call EXCEPT ![c] = NoCall] /\ UNCHANGED left
  BY <1>1, <1>2, SesEnds
<1>3. CASE \E t \in RefreshToken :
             /\ NeverUsed(t) /\ left' = [left EXCEPT ![t] = RefreshTTL]
             /\ call' = [call EXCEPT ![c].at = "revoke", ![c].new = t]
  <2>1. PICK t \in RefreshToken :
          /\ NeverUsed(t) /\ left' = [left EXCEPT ![t] = RefreshTTL]
          /\ call' = [call EXCEPT ![c].at = "revoke", ![c].new = t]
    BY <1>3
  <2>2. /\ call' \in [Call -> CallType] /\ call'[c].at = "revoke" /\ call'[c].new = t
        /\ call'[c].old = call[c].old /\ call'[c].waited = call[c].waited
        /\ \A d \in Call \ {c} : call'[d] = call[d]
    BY <2>1 DEF SesInv, SesTypes, CallType
  <2>3. /\ \A d \in Call : call[d].old # t /\ call[d].new # t
        /\ t # held /\ black[t] = 0 /\ left[t] = 0 /\ t # NoRefresh
    BY <2>1, SessionAssumption DEF NeverUsed
  <2>4. SesTypes'
    <3>1. left' \in [RefreshToken -> 0..RefreshTTL] /\ left'[t] = RefreshTTL
          /\ \A u \in RefreshToken \ {t} : left'[u] = left[u]
      BY <2>1, SessionAssumption, SMT DEF SesInv, SesTypes, SesTypeOK
    <3>2. \A u \in RefreshToken : black'[u] <= left'[u]
      BY <1>1, <3>1, SessionAssumption, SMT DEF SesInv, SesTypes, SesTypeOK
    <3>3. t \notin revoked
      BY <2>3, SMT DEF SesInv, SesTypes
    <3> QED BY <1>1, <2>2, <3>1, <3>2, <3>3 DEF SesInv, SesTypes, SesTypeOK
  <2>5. \A d \in Call : Served(d)'
    BY <1>1, <2>2, SMT DEF SesInv, Served
  <2>6. \A d \in Call : Unseen(d)'
    BY <1>1, <2>2, <2>3, SMT DEF SesInv, Unseen
  <2>7. HeldInv'
    BY <1>1, <2>2, SMT DEF SesInv, HeldInv
  <2> QED BY <2>4, <2>5, <2>6, <2>7 DEF SesInv
<1> QED BY <1>2, <1>3 DEF Generate

LEMMA SesRotate ==
  ASSUME SesInv, NEW c \in Call, Rotate(c) PROVE SesInv'
<1> DEFINE o == call[c].old
<1>1. /\ call[c].at = "revoke" /\ RevokeToken(o) /\ call' = [call EXCEPT ![c].at = "reply"]
      /\ UNCHANGED <<account, left, held, sure>>
  BY DEF Rotate, acctVars, clientVars
<1>2. /\ call' \in [Call -> CallType] /\ call'[c].at = "reply"
      /\ \A d \in Call : /\ call'[d].new = call[d].new /\ call'[d].old = call[d].old
                         /\ call'[d].waited = call[d].waited /\ (d # c => call'[d] = call[d])
  BY <1>1 DEF SesInv, SesTypes, CallType
<1>3. o \in RefreshToken
  BY <1>1 DEF SesInv, Served
<1> HIDE DEF o
<1>4. /\ \A t \in RefreshToken \ {o} : black'[t] = black[t]
      /\ black' \in [RefreshToken -> 0..RefreshTTL] /\ black'[o] \in {black[o], left[o]}
      /\ revoked' \in {revoked, revoked \cup {o}}
      /\ o \in revoked' => left[o] > 0 /\ black'[o] = left[o]
  BY <1>1, <1>3 DEF RevokeToken, SesInv, SesTypes, SesTypeOK
<1>5. SesTypes'
  BY <1>1, <1>2, <1>3, <1>4, SMT DEF SesInv, SesTypes, SesTypeOK
<1>6. \A d \in Call : Served(d)'
  BY <1>1, <1>2, SMT DEF SesInv, Served
<1>7. \A d \in Call : Unseen(d)'
  <2>1. \A d \in Call : call[d].new # NoRefresh => call[d].new # o /\ call[d].new \in RefreshToken
    BY DEF SesInv, Unseen, SesTypes, CallType, o
  <2> QED BY <1>1, <1>2, <1>4, <2>1, SMT DEF SesInv, Unseen
<1>8. HeldInv'
  <2>1. ASSUME held # NoRefresh, sure, held = o
        PROVE  call'[c].waited /\ call'[c].at = "reply"
    BY <1>2, <2>1 DEF SesInv, HeldInv, o
  <2>2. held # NoRefresh /\ held # o => black'[held] = black[held]
    BY <1>4 DEF SesInv, SesTypes, SesTypeOK
  <2> QED BY <1>1, <1>2, <2>1, <2>2, SMT DEF SesInv, HeldInv
<1> QED BY <1>5, <1>6, <1>7, <1>8 DEF SesInv

LEMMA SesReplied ==
  ASSUME SesInv, NEW c \in Call, Replied(c) PROVE SesInv'
<1>1. /\ call[c].at = "reply" /\ call' = [call EXCEPT ![c] = NoCall]
      /\ UNCHANGED <<account, left, black, revoked>>
  BY DEF Replied, acctVars, tokenVars
<1>2. CASE ~call[c].waited
  BY <1>1, <1>2, SesEnds DEF Replied, clientVars
<1>3. CASE call[c].waited
  <2> DEFINE n == call[c].new
  <2>1. held' = n /\ n \in RefreshToken /\ n # NoRefresh /\ black[n] = 0
    BY <1>1, <1>3, SessionAssumption DEF Replied, SesInv, Served, Unseen
  <2>2. \A d \in Call : call[d].old # n /\ (d # c => call[d].new # n /\ ~call[d].waited)
    BY <1>3, <2>1 DEF SesInv, Unseen, HeldInv
  <2> HIDE DEF n
  <2>3. /\ call' \in [Call -> CallType] /\ call'[c] = NoCall
        /\ \A d \in Call \ {c} : call'[d] = call[d]
    BY <1>1, CallChanges, NoCallTyped DEF SesInv, SesTypes
  <2>4. /\ call'[c].at = "idle" /\ call'[c].old = NoRefresh /\ call'[c].new = NoRefresh
        /\ call'[c].waited = FALSE
    BY <2>3, SMT DEF NoCall
  <2>5. SesTypes'
    BY <1>1, <2>1, <2>3 DEF SesInv, SesTypes, SesTypeOK
  <2>6. \A d \in Call : Served(d)'
    BY <1>1, <2>2, <2>3, <2>4 DEF SesInv, Served, NoCall
  <2>7. \A d \in Call : Unseen(d)'
    BY <1>1, <2>1, <2>2, <2>3, <2>4, SMT DEF SesInv, Unseen
  <2>8. HeldInv'
    BY <1>1, <2>1, <2>2, <2>3, <2>4, SMT DEF HeldInv
  <2> QED BY <2>5, <2>6, <2>7, <2>8 DEF SesInv
<1> QED BY <1>2, <1>3

LEMMA SesGivesUp ==
  ASSUME SesInv, NEW c \in Call, GivesUp(c) PROVE SesInv'
<1>1. /\ call' = [call EXCEPT ![c].waited = FALSE] /\ sure' = FALSE /\ call[c].waited
      /\ UNCHANGED <<account, left, black, revoked, held>>
  BY DEF GivesUp, acctVars, tokenVars
<1>2. /\ call' \in [Call -> CallType]
      /\ \A d \in Call : /\ call'[d].new = call[d].new /\ call'[d].old = call[d].old
                         /\ call'[d].at = call[d].at /\ (d # c => call'[d] = call[d])
      /\ call'[c].waited = FALSE
  BY <1>1 DEF SesInv, SesTypes, CallType
<1>3. SesTypes'
  BY <1>1, <1>2 DEF SesInv, SesTypes, SesTypeOK
<1>4. call[c].at # "idle"
  BY <1>1, SMT DEF SesInv, Served, NoCall
<1>5. \A d \in Call : Served(d)'
  BY <1>1, <1>2, <1>4, SMT DEF SesInv, Served
<1>6. \A d \in Call : Unseen(d)'
  BY <1>1, <1>2, SMT DEF SesInv, Unseen
<1>7. HeldInv'
  BY <1>1, <1>2 DEF SesInv, HeldInv
<1> QED BY <1>3, <1>5, <1>6, <1>7 DEF SesInv

LEMMA SesStep == SesInv /\ [SesNext]_sesVars => SesInv'
<1> SUFFICES ASSUME SesInv, [SesNext]_sesVars PROVE SesInv'
  OBVIOUS
<1>1. account \in {"absent", "active", "disabled"}
  BY DEF SesInv, SesTypes, SesTypeOK
<1>2. ASSUME AccountStep \/ RedisChanges \/ UNCHANGED sesVars PROVE SesInv'
  <2>1. UNCHANGED <<left, black, revoked, held, sure, call>>
    BY <1>2 DEF AccountStep, Create, Delete, SetActive, UpdatePassword, RedisChanges,
                sesVars, tokenVars, clientVars
  <2>2. account' \in {"absent", "active", "disabled"}
    BY <1>1, <1>2 DEF AccountStep, Create, InsertUser, Delete, SetActive, UpdateUserActive,
                      UpdatePassword, RedisChanges, sesVars, acctVars
  <2> QED BY <2>1, <2>2, SesFrame
<1>3. ASSUME Logout PROVE SesInv'
  BY <1>3, SesForgets DEF Logout, acctVars
<1>4. ASSUME NEW c \in Call, RefreshRefused(c) PROVE SesInv'
  BY <1>4, SesForgets DEF RefreshRefused, acctVars, tokenVars
<1> QED BY <1>2, <1>3, <1>4, SesLogin, SesTick, SesAccepted, SesGenerate, SesRotate, SesReplied,
           SesGivesUp DEF SesNext

\* A session ends when it is revoked or refused and not because a refresh failed, and a
\* revoked refresh token stays revoked until it expires: for any number of tokens and of
\* refresh requests served at once, any lifetime, and whenever Redis is down.
THEOREM SessionsAlwaysHold == SesSpec => []SessionsHold
<1>1. SesInit => SesInv
  <2> SUFFICES ASSUME SesInit PROVE SesInv
    OBVIOUS
  <2>1. \A c \in Call : call[c] = NoCall /\ call[c].at = "idle" /\ call[c].old = NoRefresh
                        /\ call[c].new = NoRefresh /\ call[c].waited = FALSE
    BY DEF SesInit, NoCall
  <2>2. SesTypes
    BY SessionAssumption, NoCallTyped, SMT DEF SesInit, SesTypes, SesTypeOK
  <2> QED BY <2>1, <2>2 DEF SesInit, SesInv, HeldInv, Served, Unseen
<1>2. SesInv => SessionsHold
  <2> SUFFICES ASSUME SesInv PROVE SessionsHold
    OBVIOUS
  <2>1. SesTypeOK /\ RevocationHolds
    BY DEF SesInv, SesTypes, RevocationHolds
  <2>2. SessionSurvives
    BY SMT DEF SesInv, SesTypes, SesTypeOK, HeldInv, SessionSurvives
  <2> QED BY <2>1, <2>2 DEF SessionsHold
<1> QED BY <1>1, <1>2, SesStep, PTL DEF SesSpec

-----------------------------------------------------------------------------
(* AgentRegistry.  While a connection's writer lives, its sequence numbers *)
(* count what was written, what is being written and what is queued, in    *)
(* that order; a waiting revoke call finds its own command at its number.  *)

LinkType ==
  [phase : {"free", "open", "returned", "gone"}, ch : Seq(Revoker \cup {Other}),
   closed : BOOLEAN, queued : Nat, sent : Nat, writer : {"none", "idle", "sending", "stopped"},
   busy : Revoker \cup {Other}, wrote : SUBSET Revoker, writerDone : BOOLEAN,
   cancelled : BOOLEAN, stopped : BOOLEAN]

RevokeType ==
  [pc : {"idle", "captured", "wait", "confirmed", "refused"}, conn : Conn \cup {NoConn},
   seq : Nat]

RegTypes ==
  /\ conns \in Conn \cup {NoConn}
  /\ link \in [Conn -> LinkType] /\ revoke \in [Revoker -> RevokeType]

InSend(c) == IF link[c].writer = "sending" THEN 1 ELSE 0
Dead(c) == link[c].writer = "stopped" \/ link[c].phase = "gone"

LinkInv(c) ==
  /\ Len(link[c].ch) <= SendCap /\ link[c].queued <= MaxQueued /\ link[c].sent <= link[c].queued
  /\ link[c].closed => link[c].phase = "gone"
  /\ link[c].phase = "gone" => link[c].ch = << >>
  /\ ~Dead(c) => link[c].queued = link[c].sent + InSend(c) + Len(link[c].ch)
  /\ link[c].phase = "open" /\ conns # c => link[c].cancelled
  /\ conns = c => link[c].phase \in {"open", "returned"}

Ahead(k, c, n) ==
  \/ Dead(c)
  \/ link[c].writer = "sending" /\ link[c].busy = k /\ n = link[c].sent + 1
  \/ \E i \in 1..Len(link[c].ch) : link[c].ch[i] = k /\ n = link[c].sent + InSend(c) + i

RevokeInv(k) ==
  LET c == revoke[k].conn n == revoke[k].seq IN
  /\ revoke[k].pc # "idle" => c \in Conn
  /\ revoke[k].pc = "wait" => IF n <= link[c].sent THEN k \in link[c].wrote ELSE Ahead(k, c, n)
  /\ revoke[k].pc = "confirmed" => k \in link[c].wrote

RegInv ==
  RegTypes /\ (\A c \in Conn : LinkInv(c)) /\ (\A k \in Revoker : RevokeInv(k))

\* One connection changes, the others stay.
LEMMA LinkChanges ==
  ASSUME RegTypes, NEW c \in Conn, NEW r \in LinkType, Put(c, r)
  PROVE  /\ link' \in [Conn -> LinkType] /\ link'[c] = r
         /\ \A d \in Conn \ {c} : link'[d] = link[d]
BY DEF RegTypes, Put

\* What a connection keeps of itself is all that its invariant depends on.
LEMMA LinkKept ==
  ASSUME NEW c \in Conn, LinkInv(c), link'[c] = link[c], conns' = c <=> conns = c
  PROVE  LinkInv(c)'
BY DEF LinkInv, Dead, InSend

LEMMA RevokeKept ==
  ASSUME NEW k \in Revoker, RevokeInv(k), revoke'[k] = revoke[k],
         revoke[k].conn \in Conn => link'[revoke[k].conn] = link[revoke[k].conn]
  PROVE  RevokeInv(k)'
BY DEF RevokeInv, Ahead, Dead, InSend

\* A change of one connection that keeps its channel, its counts and what was written,
\* and does not bring its writer back.
LEMMA RevokeQuiet ==
  ASSUME NEW k \in Revoker, RevokeInv(k), revoke'[k] = revoke[k], NEW c, revoke[k].conn = c,
         link'[c].ch = link[c].ch, link'[c].sent = link[c].sent,
         link'[c].busy = link[c].busy, link'[c].wrote = link[c].wrote,
         link'[c].writer = "sending" <=> link[c].writer = "sending",
         Dead(c) => Dead(c)'
  PROVE  RevokeInv(k)'
BY DEF RevokeInv, Ahead, InSend

\* A change that neither writes nor loses the command of a waiting call.
LEMMA RevokeAhead ==
  ASSUME NEW k \in Revoker, RevokeInv(k), revoke'[k] = revoke[k], NEW c, revoke[k].conn = c,
         link'[c].sent = link[c].sent, link'[c].wrote = link[c].wrote,
         Ahead(k, c, revoke[k].seq) => Ahead(k, c, revoke[k].seq)'
  PROVE  RevokeInv(k)'
BY DEF RevokeInv, Ahead

\* The same, once the writer is dead: nothing is expected of it any more.
LEMMA RevokeDead ==
  ASSUME NEW k \in Revoker, RevokeInv(k), revoke'[k] = revoke[k], NEW c, revoke[k].conn = c,
         link'[c].sent = link[c].sent, link'[c].wrote = link[c].wrote, Dead(c)'
  PROVE  RevokeInv(k)'
BY DEF RevokeInv, Ahead

\* An action that changes one connection is judged by that connection and by the calls
\* that captured it or that it changes.
LEMMA OneLink ==
  ASSUME RegInv, NEW c \in Conn, NEW r \in LinkType, Put(c, r), UNCHANGED conns,
         revoke' \in [Revoker -> RevokeType], LinkInv(c)',
         \A k \in Revoker : RevokeInv(k)' \/ (revoke'[k] = revoke[k] /\ revoke[k].conn # c)
  PROVE  RegInv'
<1>1. /\ link' \in [Conn -> LinkType] /\ link'[c] = r
      /\ \A d \in Conn \ {c} : link'[d] = link[d]
  BY LinkChanges DEF RegInv
<1>2. RegTypes'
  BY <1>1 DEF RegInv, RegTypes
<1>3. \A d \in Conn : LinkInv(d)'
  <2> TAKE d \in Conn
  <2>1. CASE d # c
    BY <1>1, <2>1, LinkKept DEF RegInv
  <2> QED BY <2>1
<1>4. \A k \in Revoker : RevokeInv(k)'
  <2> TAKE k \in Revoker
  <2>1. CASE revoke'[k] = revoke[k] /\ revoke[k].conn # c
    <3>1. revoke[k].conn \in Conn => link'[revoke[k].conn] = link[revoke[k].conn]
      BY <1>1, <2>1
    <3> QED BY <2>1, <3>1, RevokeKept DEF RegInv
  <2> QED BY <2>1
<1> QED BY <1>2, <1>3, <1>4 DEF RegInv

\* Whatever keeps the channel, the counts and what was written: the handler, and the end
\* of a revoke call.
LEMMA QuietLink ==
  ASSUME RegInv, NEW c \in Conn, NEW r \in LinkType, Put(c, r), UNCHANGED conns,
         r.ch = link[c].ch, r.queued = link[c].queued, r.sent = link[c].sent,
         r.busy = link[c].busy, r.wrote = link[c].wrote, r.closed = link[c].closed,
         r.writer = link[c].writer \/ (link[c].writer = "none" /\ r.writer = "idle"),
         r.phase = link[c].phase \/ (link[c].phase = "open" /\ r.phase = "returned"),
         link[c].cancelled => r.cancelled,
         revoke' \in [Revoker -> RevokeType],
         \A k \in Revoker : RevokeInv(k)' \/ revoke'[k] = revoke[k]
  PROVE  RegInv'
<1>1. link'[c] = r
  BY LinkChanges DEF RegInv
<1>2. (Dead(c)' <=> Dead(c)) /\ InSend(c)' = InSend(c)
  BY <1>1 DEF Dead, InSend
<1>3. LinkInv(c)'
  BY <1>1, <1>2, SMT DEF RegInv, LinkInv
<1>4. \A k \in Revoker : revoke'[k] = revoke[k] /\ revoke[k].conn = c => RevokeInv(k)'
  <2> TAKE k \in Revoker
  <2> HAVE revoke'[k] = revoke[k] /\ revoke[k].conn = c
  <2>1. link'[c].writer = "sending" <=> link[c].writer = "sending"
    BY <1>1
  <2> QED BY <1>1, <1>2, <2>1, RevokeQuiet DEF RegInv
<1> QED BY <1>3, <1>4, OneLink

LEMMA RegHandler ==
  ASSUME RegInv, NEW c \in Conn, Refuse(c) \/ StartWriter(c) \/ HandlerEnds(c) \/ RecvFails(c)
  PROVE  RegInv'
<1>1. link[c] \in LinkType
  BY DEF RegInv, RegTypes
<1>2. CASE Refuse(c)
  <2> DEFINE r == [link[c] EXCEPT !.phase = "returned"]
  <2>1. r \in LinkType
    BY <1>1 DEF LinkType
  <2>2. /\ r.ch = link[c].ch /\ r.queued = link[c].queued /\ r.sent = link[c].sent
        /\ r.busy = link[c].busy /\ r.wrote = link[c].wrote /\ r.closed = link[c].closed
        /\ r.writer = link[c].writer /\ r.phase = "returned" /\ r.cancelled = link[c].cancelled
    BY <1>1 DEF LinkType
  <2>3. Put(c, r) /\ link[c].phase = "open" /\ UNCHANGED <<conns, revoke>>
    BY <1>2 DEF Refuse
  <2> HIDE DEF r
  <2> QED BY <2>1, <2>2, <2>3, QuietLink DEF RegInv, RegTypes
<1>3. CASE StartWriter(c)
  <2> DEFINE r == [link[c] EXCEPT !.writer = "idle"]
  <2>1. r \in LinkType
    BY <1>1 DEF LinkType
  <2>2. /\ r.ch = link[c].ch /\ r.queued = link[c].queued /\ r.sent = link[c].sent
        /\ r.busy = link[c].busy /\ r.wrote = link[c].wrote /\ r.closed = link[c].closed
        /\ r.writer = "idle" /\ r.phase = link[c].phase /\ r.cancelled = link[c].cancelled
    BY <1>1 DEF LinkType
  <2>3. Put(c, r) /\ link[c].writer = "none" /\ UNCHANGED <<conns, revoke>>
    BY <1>3 DEF StartWriter
  <2> HIDE DEF r
  <2> QED BY <2>1, <2>2, <2>3, QuietLink DEF RegInv, RegTypes
<1>4. CASE HandlerEnds(c)
  <2> DEFINE r == [link[c] EXCEPT !.phase = "returned", !.stopped = FALSE]
  <2>1. r \in LinkType
    BY <1>1 DEF LinkType
  <2>2. /\ r.ch = link[c].ch /\ r.queued = link[c].queued /\ r.sent = link[c].sent
        /\ r.busy = link[c].busy /\ r.wrote = link[c].wrote /\ r.closed = link[c].closed
        /\ r.writer = link[c].writer /\ r.phase = "returned" /\ r.cancelled = link[c].cancelled
    BY <1>1 DEF LinkType
  <2>3. Put(c, r) /\ link[c].phase = "open" /\ UNCHANGED <<conns, revoke>>
    BY <1>4 DEF HandlerEnds
  <2> HIDE DEF r
  <2> QED BY <2>1, <2>2, <2>3, QuietLink DEF RegInv, RegTypes
<1>5. CASE RecvFails(c)
  <2> DEFINE b == link[c].cancelled \/ ~link[c].stopped
             r == [link[c] EXCEPT !.phase = "returned", !.stopped = FALSE, !.cancelled = b]
  <2>1. b \in BOOLEAN /\ (link[c].cancelled => b)
    OBVIOUS
  <2>2. Put(c, r) /\ link[c].phase = "open" /\ UNCHANGED <<conns, revoke>>
    BY <1>5 DEF RecvFails
  <2> HIDE DEF b
  <2>3. r \in LinkType
    BY <1>1, <2>1 DEF LinkType
  <2>4. /\ r.ch = link[c].ch /\ r.queued = link[c].queued /\ r.sent = link[c].sent
        /\ r.busy = link[c].busy /\ r.wrote = link[c].wrote /\ r.closed = link[c].closed
        /\ r.writer = link[c].writer /\ r.phase = "returned" /\ r.cancelled = b
    BY <1>1 DEF LinkType
  <2> HIDE DEF r
  <2> QED BY <2>1, <2>2, <2>3, <2>4, QuietLink DEF RegInv, RegTypes
<1> QED BY <1>2, <1>3, <1>4, <1>5

LEMMA RegWriterTakes == ASSUME RegInv, NEW c \in Conn, WriterTakes(c) PROVE RegInv'
<1> DEFINE s == link[c].ch
           r == [link[c] EXCEPT !.ch = Tail(s), !.busy = Head(s), !.writer = "sending"]
<1>1. link[c] \in LinkType
  BY DEF RegInv, RegTypes
<1>2. s \in Seq(Revoker \cup {Other}) /\ s # << >>
  BY <1>1 DEF WriterTakes, LinkType
<1>3. /\ Tail(s) \in Seq(Revoker \cup {Other}) /\ Head(s) \in Revoker \cup {Other}
      /\ Len(Tail(s)) = Len(s) - 1 /\ Len(s) \in Nat /\ Len(s) > 0 /\ Head(s) = s[1]
      /\ \A i \in 1..Len(s) - 1 : Tail(s)[i] = s[i + 1]
  BY <1>2, SMT
<1>4. r \in LinkType
  BY <1>1, <1>3 DEF LinkType
<1>5. /\ r.ch = Tail(s) /\ r.queued = link[c].queued /\ r.sent = link[c].sent
      /\ r.busy = Head(s) /\ r.wrote = link[c].wrote /\ r.closed = link[c].closed
      /\ r.writer = "sending" /\ r.phase = link[c].phase /\ r.cancelled = link[c].cancelled
  BY <1>1 DEF LinkType
<1>6. Put(c, r) /\ link[c].writer = "idle" /\ UNCHANGED <<conns, revoke>>
  BY DEF WriterTakes
<1> HIDE DEF r
<1>7. link'[c] = r
  BY <1>4, <1>6, LinkChanges DEF RegInv
<1>8. (Dead(c)' <=> Dead(c)) /\ InSend(c)' = 1 /\ InSend(c) = 0
  BY <1>5, <1>6, <1>7 DEF Dead, InSend
<1>9. link[c].queued \in Nat /\ link[c].sent \in Nat /\ SendCap \in Nat
  BY <1>1, RegistryAssumption DEF LinkType
<1>10. LinkInv(c)'
  <2>1. link[c].phase # "gone" /\ LinkInv(c)
    BY <1>2 DEF RegInv, LinkInv
  <2>2. /\ Len(link'[c].ch) = Len(s) - 1 /\ Len(s) \in Nat
        /\ link'[c].queued = link[c].queued /\ link'[c].sent = link[c].sent
    BY <1>3, <1>5, <1>7
  <2>3. Len(s) <= SendCap /\ (~Dead(c) => link[c].queued = link[c].sent + 0 + Len(s))
    BY <1>8, <2>1 DEF LinkInv
  <2>4. Len(link'[c].ch) <= SendCap
    BY <1>9, <2>2, <2>3, SMT
  <2>5. ASSUME ~Dead(c)' PROVE link'[c].queued = link'[c].sent + 1 + Len(link'[c].ch)
    <3>1. link[c].queued = link[c].sent + 0 + Len(s)
      BY <1>8, <2>3, <2>5
    <3>2. link[c].queued \in Nat /\ link[c].sent \in Nat /\ Len(s) \in Nat
      BY <1>9, <2>2
    <3> HIDE DEF s
    <3>3. link[c].queued = link[c].sent + 1 + (Len(s) - 1)
      BY <3>1, <3>2, SMT
    <3> QED BY <2>2, <3>3
  <2> QED BY <1>5, <1>6, <1>7, <1>8, <2>1, <2>4, <2>5 DEF LinkInv
<1>11. \A k \in Revoker : revoke[k].conn = c => RevokeInv(k)'
  <2> TAKE k \in Revoker
  <2> HAVE revoke[k].conn = c
  <2> DEFINE n == revoke[k].seq
  <2>1. n \in Nat
    BY DEF RegInv, RegTypes, RevokeType
  <2>2. ASSUME Ahead(k, c, n) PROVE Ahead(k, c, n)'
    <3>1. CASE Dead(c)
      BY <1>8, <3>1 DEF Ahead
    <3>2. CASE \E i \in 1..Len(s) : s[i] = k /\ n = link[c].sent + i
      <4>1. PICK i \in 1..Len(s) : s[i] = k /\ n = link[c].sent + i
        BY <3>2
      <4>2. CASE i = 1
        BY <1>3, <1>5, <1>6, <1>7, <4>1, <4>2 DEF Ahead
      <4>3. CASE i # 1
        <5> DEFINE j == i - 1
        <5>1. j \in 1..Len(Tail(s)) /\ Tail(s)[j] = k /\ n = link[c].sent + 1 + j
          <6>1. Len(s) \in Nat /\ link[c].sent \in Nat /\ i \in 1..Len(s) /\ i # 1
            BY <1>3, <1>9, <4>3
          <6> HIDE DEF s
          <6>2. j \in 1..(Len(s) - 1) /\ j + 1 = i /\ link[c].sent + i = link[c].sent + 1 + j
            BY <6>1, SMT
          <6> QED BY <1>3, <4>1, <6>2
        <5>2. \E l \in 1..Len(link'[c].ch) :
                link'[c].ch[l] = k /\ n = link'[c].sent + InSend(c)' + l
          BY <1>5, <1>7, <1>8, <5>1
        <5> QED BY <1>6, <5>2 DEF Ahead
      <4> QED BY <4>2, <4>3
    <3>3. link[c].sent + InSend(c) = link[c].sent
      BY <1>8, <1>9, SMT
    <3> QED BY <1>6, <1>8, <2>2, <3>1, <3>2, <3>3 DEF Ahead
  <2> QED BY <1>5, <1>6, <1>7, <2>2, RevokeAhead DEF RegInv
<1> QED BY <1>4, <1>6, <1>10, <1>11, OneLink DEF RegInv, RegTypes

LEMMA RegWriterWrote == ASSUME RegInv, NEW c \in Conn, WriterWrote(c) PROVE RegInv'
<1> DEFINE b == link[c].busy
           n == link[c].sent + 1
           w == link[c].wrote \cup ({b} \cap Revoker)
           r == [link[c] EXCEPT !.writer = "idle", !.sent = n, !.wrote = w, !.busy = Other]
<1>1. link[c] \in LinkType
  BY DEF RegInv, RegTypes
<1>2. r \in LinkType
  <2>1. n \in Nat /\ w \in SUBSET Revoker
    BY <1>1, SMT DEF LinkType
  <2> HIDE DEF n, w
  <2> QED BY <1>1, <2>1 DEF LinkType
<1>3. /\ r.ch = link[c].ch /\ r.queued = link[c].queued /\ r.sent = n
      /\ r.wrote = w /\ r.closed = link[c].closed
      /\ r.writer = "idle" /\ r.phase = link[c].phase /\ r.cancelled = link[c].cancelled
  BY <1>1 DEF LinkType
<1>4. /\ Put(c, r) /\ link[c].writer = "sending" /\ link[c].phase # "gone"
      /\ UNCHANGED <<conns, revoke>>
  BY DEF WriterWrote
<1> HIDE DEF r
<1>5. link'[c] = r
  BY <1>2, <1>4, LinkChanges DEF RegInv
<1>6. ~Dead(c)' /\ ~Dead(c) /\ InSend(c)' = 0 /\ InSend(c) = 1
  BY <1>3, <1>4, <1>5 DEF Dead, InSend
<1>7. link[c].queued \in Nat /\ link[c].sent \in Nat /\ Len(link[c].ch) \in Nat
  BY <1>1, SMT DEF LinkType
<1>8. LinkInv(c)'
  <2>1. LinkInv(c) /\ link[c].queued = link[c].sent + 1 + Len(link[c].ch)
    BY <1>6 DEF RegInv, LinkInv
  <2>2. /\ link[c].queued = (link[c].sent + 1) + 0 + Len(link[c].ch)
        /\ link[c].sent + 1 <= link[c].queued
    BY <1>7, <2>1, SMT
  <2> QED BY <1>3, <1>4, <1>5, <1>6, <2>1, <2>2 DEF LinkInv
<1>9. \A k \in Revoker : revoke[k].conn = c => RevokeInv(k)'
  <2> TAKE k \in Revoker
  <2> HAVE revoke[k].conn = c
  <2>1. revoke[k].seq \in Nat /\ RevokeInv(k) /\ revoke'[k] = revoke[k]
    BY <1>4 DEF RegInv, RegTypes, RevokeType
  <2>2. ASSUME revoke[k].pc = "wait", revoke[k].seq <= link[c].sent + 1
        PROVE  k \in link'[c].wrote
    <3>1. CASE revoke[k].seq <= link[c].sent
      BY <1>3, <1>5, <2>1, <2>2, <3>1 DEF RevokeInv
    <3>2. CASE ~(revoke[k].seq <= link[c].sent)
      <4>1. revoke[k].seq = link[c].sent + 1
        BY <1>7, <2>1, <2>2, <3>2, SMT
      <4>2. \A i \in 1..Len(link[c].ch) : link[c].sent + 1 # link[c].sent + 1 + i
        BY <1>7, SMT
      <4>3. Ahead(k, c, revoke[k].seq)
        BY <2>1, <2>2, <3>2 DEF RevokeInv
      <4>4. b = k
        BY <1>6, <4>1, <4>2, <4>3 DEF Ahead
      <4> QED BY <1>3, <1>5, <4>4
    <3> QED BY <3>1, <3>2
  <2>3. ASSUME revoke[k].pc = "wait", ~(revoke[k].seq <= link[c].sent + 1)
        PROVE  Ahead(k, c, revoke[k].seq)'
    <3>1. Ahead(k, c, revoke[k].seq) /\ revoke[k].seq # link[c].sent + 1
      BY <1>7, <2>1, <2>3, SMT DEF RevokeInv
    <3>2. PICK i \in 1..Len(link[c].ch) :
            link[c].ch[i] = k /\ revoke[k].seq = link[c].sent + 1 + i
      BY <1>6, <3>1 DEF Ahead
    <3>3. revoke[k].seq = (link[c].sent + 1) + 0 + i
      BY <1>7, <3>2, SMT
    <3>4. revoke'[k].seq = link'[c].sent + InSend(c)' + i /\ i \in 1..Len(link'[c].ch)
          /\ link'[c].ch[i] = k
      BY <1>3, <1>5, <1>6, <2>1, <3>2, <3>3
    <3> QED BY <3>4 DEF Ahead
  <2>4. revoke[k].pc = "confirmed" => k \in link'[c].wrote
    BY <1>3, <1>5, <2>1 DEF RevokeInv
  <2>5. link'[c].sent = link[c].sent + 1
    BY <1>3, <1>5
  <2> QED BY <2>1, <2>2, <2>3, <2>4, <2>5 DEF RevokeInv
<1> QED BY <1>2, <1>4, <1>8, <1>9, OneLink DEF RegInv, RegTypes

LEMMA RegWriterStops == ASSUME RegInv, NEW c \in Conn, WriterStops(c) PROVE RegInv'
<1> DEFINE r == [link[c] EXCEPT !.writer = "stopped", !.writerDone = TRUE, !.busy = Other]
<1>1. link[c] \in LinkType
  BY DEF RegInv, RegTypes
<1>2. r \in LinkType
  BY <1>1 DEF LinkType
<1>3. /\ r.ch = link[c].ch /\ r.queued = link[c].queued /\ r.sent = link[c].sent
      /\ r.wrote = link[c].wrote /\ r.closed = link[c].closed
      /\ r.writer = "stopped" /\ r.phase = link[c].phase /\ r.cancelled = link[c].cancelled
  BY <1>1 DEF LinkType
<1>4. Put(c, r) /\ UNCHANGED <<conns, revoke>>
  BY DEF WriterStops
<1> HIDE DEF r
<1>5. link'[c] = r
  BY <1>2, <1>4, LinkChanges DEF RegInv
<1>6. Dead(c)'
  BY <1>3, <1>5 DEF Dead
<1>7. LinkInv(c)'
  BY <1>3, <1>4, <1>5, <1>6 DEF RegInv, LinkInv
<1>8. \A k \in Revoker : revoke[k].conn = c => RevokeInv(k)'
  BY <1>3, <1>4, <1>5, <1>6, RevokeDead DEF RegInv
<1> QED BY <1>2, <1>4, <1>7, <1>8, OneLink DEF RegInv, RegTypes

\* A message joins the channel of the registered connection.
LEMMA Enqueued ==
  ASSUME RegInv, conns \in Conn, CanQueue(conns), NEW who \in Revoker \cup {Other},
         Put(conns, Enqueue(conns, who)), UNCHANGED conns
  PROVE  /\ Enqueue(conns, who) \in LinkType /\ LinkInv(conns)'
         /\ link[conns].queued + 1 \in Nat
         /\ \A k \in Revoker : revoke'[k] = revoke[k] /\ revoke[k].conn = conns => RevokeInv(k)'
         /\ link'[conns].sent < link[conns].queued + 1
         /\ \A k \in Revoker :
              who = k /\ revoke'[k].seq = link[conns].queued + 1 =>
                Ahead(k, conns, revoke[k].seq)'
<1> DEFINE c == conns
           s == link[c].ch
           q == link[c].queued
           t == Append(s, who)
           r == [link[c] EXCEPT !.ch = t, !.queued = q + 1]
<1>1. link[c] \in LinkType /\ c \in Conn
  BY DEF RegInv, RegTypes
<1>2. s \in Seq(Revoker \cup {Other}) /\ q \in Nat /\ link[c].sent \in Nat
  BY <1>1 DEF LinkType
<1>3. /\ t \in Seq(Revoker \cup {Other}) /\ Len(t) = Len(s) + 1 /\ Len(s) \in Nat
      /\ t[Len(s) + 1] = who /\ \A i \in 1..Len(s) : t[i] = s[i]
  BY <1>2, SMT
<1>4. q + 1 \in Nat
  BY <1>2, SMT
<1>5. r \in LinkType /\ Put(c, r) /\ r = Enqueue(conns, who)
  <2>1. r = Enqueue(conns, who)
    BY DEF Enqueue
  <2> HIDE DEF t, q
  <2>2. r \in LinkType
    BY <1>1, <1>3, <1>4 DEF LinkType
  <2> QED BY <2>1, <2>2
<1>6. /\ r.ch = t /\ r.queued = q + 1 /\ r.sent = link[c].sent /\ r.busy = link[c].busy
      /\ r.wrote = link[c].wrote /\ r.closed = link[c].closed
      /\ r.writer = link[c].writer /\ r.phase = link[c].phase /\ r.cancelled = link[c].cancelled
  BY <1>1 DEF LinkType
<1> HIDE DEF r
<1>7. link'[c] = r /\ c' = c
  BY <1>1, <1>5, LinkChanges DEF RegInv
<1>8. /\ LinkInv(c) /\ Len(s) < SendCap /\ q < MaxQueued /\ link[c].phase # "gone"
      /\ SendCap \in Nat /\ MaxQueued \in Nat
  BY <1>1, RegistryAssumption DEF RegInv, LinkInv, CanQueue
<1> HIDE DEF t
<1>9. (Dead(c)' <=> Dead(c)) /\ InSend(c)' = InSend(c) /\ InSend(c) \in Nat
  BY <1>6, <1>7 DEF Dead, InSend
<1>10. ~Dead(c) => q + 1 = link[c].sent + InSend(c) + (Len(s) + 1)
  <2>1. ~Dead(c) => q = link[c].sent + InSend(c) + Len(s)
    BY <1>8 DEF LinkInv
  <2>2. q \in Nat /\ link[c].sent \in Nat /\ InSend(c) \in Nat /\ Len(s) \in Nat
    BY <1>2, <1>3, <1>9
  <2> HIDE DEF s, q, c
  <2> QED BY <2>1, <2>2, SMT
<1>11. link[c].sent <= q + 1 /\ link[c].sent < q + 1 /\ q + 1 <= MaxQueued /\ Len(s) + 1 <= SendCap
  <2>1. link[c].sent <= q
    BY <1>8 DEF LinkInv
  <2> QED BY <1>2, <1>3, <1>8, <2>1, SMT
<1>12. LinkInv(c)'
  <2>1. /\ link'[c].ch = t /\ link'[c].queued = q + 1 /\ link'[c].sent = link[c].sent
        /\ link'[c].closed = link[c].closed /\ link'[c].phase = link[c].phase
        /\ link'[c].cancelled = link[c].cancelled
    BY <1>6, <1>7
  <2>2. Len(link'[c].ch) = Len(s) + 1
    BY <1>3, <2>1
  <2> HIDE DEF s, q
  <2> QED BY <1>7, <1>8, <1>9, <1>10, <1>11, <2>1, <2>2 DEF LinkInv
<1>13. ASSUME NEW k \in Revoker, revoke'[k] = revoke[k], revoke[k].conn = c
       PROVE  RevokeInv(k)'
  <2>1. ASSUME Ahead(k, c, revoke[k].seq)
        PROVE  \/ Dead(c)
               \/ link[c].writer = "sending" /\ link[c].busy = k /\ revoke[k].seq = link[c].sent + 1
               \/ \E i \in 1..Len(t) : t[i] = k /\ revoke[k].seq = link[c].sent + InSend(c) + i
    <3>1. \A i \in 1..Len(s) : i \in 1..Len(t) /\ t[i] = s[i]
      BY <1>3, SMT
    <3> QED BY <2>1, <3>1 DEF Ahead
  <2>2. ASSUME Ahead(k, c, revoke[k].seq) PROVE Ahead(k, c, revoke[k].seq)'
    <3>1. /\ c' = c /\ revoke'[k].seq = revoke[k].seq /\ link'[c].ch = t
          /\ link'[c].sent = link[c].sent /\ link'[c].writer = link[c].writer
          /\ link'[c].busy = link[c].busy
      BY <1>6, <1>7, <1>13
    <3>2. CASE Dead(c)
      BY <1>9, <3>1, <3>2 DEF Ahead
    <3>3. CASE link[c].writer = "sending" /\ link[c].busy = k /\ revoke[k].seq = link[c].sent + 1
      BY <3>1, <3>3 DEF Ahead
    <3>4. CASE \E i \in 1..Len(t) : t[i] = k /\ revoke[k].seq = link[c].sent + InSend(c) + i
      BY <1>9, <3>1, <3>4 DEF Ahead
    <3> QED BY <2>1, <2>2, <3>2, <3>3, <3>4
  <2> QED BY <1>6, <1>7, <1>13, <2>2, RevokeAhead DEF RegInv
<1>14. ASSUME NEW k \in Revoker, who = k, revoke'[k].seq = q + 1
       PROVE  Ahead(k, c, revoke[k].seq)'
  <2>1. CASE Dead(c)
    BY <1>7, <1>9, <2>1 DEF Ahead
  <2>2. CASE ~Dead(c)
    <3>1. /\ Len(s) + 1 \in 1..Len(t) /\ t[Len(s) + 1] = k
          /\ q + 1 = link[c].sent + InSend(c) + (Len(s) + 1)
      BY <1>3, <1>10, <1>14, <2>2, SMT
    <3>2. \E i \in 1..Len(link'[c].ch) :
            link'[c].ch[i] = k /\ revoke'[k].seq = link'[c].sent + InSend(c)' + i
      BY <1>6, <1>7, <1>9, <1>14, <3>1
    <3> QED BY <1>7, <3>2 DEF Ahead
  <2> QED BY <2>1, <2>2
<1>15. link'[c].sent < q + 1
  BY <1>6, <1>7, <1>11
<1> QED BY <1>4, <1>5, <1>7, <1>12, <1>13, <1>14, <1>15

LEMMA RegSend == ASSUME RegInv, Send PROVE RegInv'
<1>1. /\ conns \in Conn /\ CanQueue(conns) /\ Put(conns, Enqueue(conns, Other))
      /\ UNCHANGED <<conns, revoke>>
  BY DEF Send, RegInv, RegTypes
<1>2. /\ Enqueue(conns, Other) \in LinkType /\ LinkInv(conns)'
      /\ \A k \in Revoker : revoke'[k] = revoke[k] /\ revoke[k].conn = conns => RevokeInv(k)'
  BY <1>1, Enqueued
<1> QED BY <1>1, <1>2, OneLink DEF RegInv, RegTypes

\* A revoke call changes, every connection stays.
LEMMA OneRevoke ==
  ASSUME RegInv, NEW k \in Revoker, NEW r \in RevokeType, Goto(k, r), UNCHANGED <<conns, link>>,
         RevokeInv(k)'
  PROVE  RegInv'
<1>1. /\ revoke' \in [Revoker -> RevokeType] /\ \A j \in Revoker \ {k} : revoke'[j] = revoke[j]
  BY DEF RegInv, RegTypes, Goto
<1>2. \A j \in Revoker : RevokeInv(j)'
  <2> TAKE j \in Revoker
  <2>1. CASE j # k
    BY <1>1, <2>1, RevokeKept DEF RegInv
  <2> QED BY <2>1
<1>3. \A c \in Conn : LinkInv(c)'
  BY LinkKept DEF RegInv
<1> QED BY <1>1, <1>2, <1>3 DEF RegInv, RegTypes

LEMMA RegRevokeConn == ASSUME RegInv, NEW k \in Revoker, RevokeConn(k) PROVE RegInv'
<1> DEFINE r == [pc |-> "captured", conn |-> conns, seq |-> 0]
<1>1. conns \in Conn /\ r \in RevokeType /\ Goto(k, r) /\ UNCHANGED <<conns, link>>
  BY DEF RevokeConn, RegInv, RegTypes, RevokeType
<1>2. revoke'[k] = r /\ r.pc = "captured" /\ r.conn = conns
  BY <1>1 DEF Goto, RegInv, RegTypes
<1> HIDE DEF r
<1>3. RevokeInv(k)'
  BY <1>1, <1>2 DEF RevokeInv
<1> QED BY <1>1, <1>3, OneRevoke

\* A waiting call is answered.
LEMMA RegAnswered ==
  ASSUME RegInv, NEW k \in Revoker, WaitConfirms(k) \/ WaitWriterDone(k) \/ WaitTimesOut(k)
  PROVE  RegInv'
<1>1. /\ revoke[k] \in RevokeType /\ revoke[k].pc = "wait" /\ RevokeInv(k)
      /\ UNCHANGED <<conns, link>>
  BY DEF WaitConfirms, WaitWriterDone, WaitTimesOut, RegInv, RegTypes
<1>2. revoke[k].conn \in Conn
  BY <1>1 DEF RevokeInv
<1>3. PICK p \in {"confirmed", "refused"} : Goto(k, [revoke[k] EXCEPT !.pc = p, !.seq = 0])
        /\ (p = "confirmed" => link[revoke[k].conn].sent >= revoke[k].seq)
  BY DEF WaitConfirms, WaitWriterDone, WaitTimesOut
<1> DEFINE r == [revoke[k] EXCEPT !.pc = p, !.seq = 0]
<1>4. r \in RevokeType /\ r.pc = p /\ r.conn = revoke[k].conn
  BY <1>1 DEF RevokeType
<1>5. revoke'[k] = r
  BY <1>3 DEF Goto, RegInv, RegTypes
<1> HIDE DEF r
<1>6. p = "confirmed" => k \in link[revoke[k].conn].wrote
  <2>1. link[revoke[k].conn].sent \in Nat /\ revoke[k].seq \in Nat
    BY <1>1, <1>2 DEF RegInv, RegTypes, LinkType, RevokeType
  <2>2. p = "confirmed" => revoke[k].seq <= link[revoke[k].conn].sent
    BY <1>3, <2>1
  <2> QED BY <1>1, <2>2 DEF RevokeInv
<1>7. RevokeInv(k)'
  BY <1>1, <1>2, <1>4, <1>5, <1>6 DEF RevokeInv
<1> QED BY <1>1, <1>3, <1>4, <1>7, OneRevoke DEF r

LEMMA RegSendSync == ASSUME RegInv, NEW k \in Revoker, SendSync(k) PROVE RegInv'
<1>1. revoke[k] \in RevokeType /\ revoke[k].pc = "captured" /\ RevokeInv(k) /\ UNCHANGED conns
  BY DEF SendSync, RegInv, RegTypes
<1>2. PICK c \in Conn : c = revoke[k].conn
  BY <1>1 DEF RevokeInv
<1>3. CASE conns = c /\ CanQueue(c)
  <2> DEFINE n == link[c].queued + 1
             r == [revoke[k] EXCEPT !.pc = "wait", !.seq = n]
  <2>1. Put(c, Enqueue(c, k)) /\ Goto(k, r)
    BY <1>2, <1>3 DEF SendSync
  <2>2. n \in Nat /\ Enqueue(c, k) \in LinkType /\ LinkInv(c)'
    BY <1>1, <1>2, <1>3, <2>1, Enqueued
  <2>3. \A j \in Revoker : revoke'[j] = revoke[j] /\ revoke[j].conn = c => RevokeInv(j)'
    BY <1>1, <1>2, <1>3, <2>1, Enqueued
  <2>4. link'[c].sent < n /\ (revoke'[k].seq = n => Ahead(k, conns, revoke[k].seq)')
    BY <1>1, <1>2, <1>3, <2>1, Enqueued
  <2>5. revoke' = [revoke EXCEPT ![k] = r] /\ revoke \in [Revoker -> RevokeType]
    BY <2>1 DEF Goto, RegInv, RegTypes
  <2> HIDE DEF n
  <2>6. r \in RevokeType /\ r.pc = "wait" /\ r.conn = c /\ r.seq = n
    BY <1>1, <1>2, <2>2 DEF RevokeType
  <2> HIDE DEF r
  <2>7. /\ revoke' \in [Revoker -> RevokeType] /\ revoke'[k] = r
        /\ \A j \in Revoker \ {k} : revoke'[j] = revoke[j]
    BY <2>5, <2>6
  <2>8. RevokeInv(k)'
    <3>1. revoke'[k].conn = c /\ revoke'[k].seq = n /\ revoke'[k].pc = "wait" /\ conns' = c
      BY <1>1, <1>3, <2>6, <2>7
    <3>2. link'[c].sent \in Nat
      BY <1>2, <2>1, <2>2, LinkChanges DEF RegInv, LinkType
    <3>3. ~(n <= link'[c].sent)
      BY <2>2, <2>4, <3>2, SMT
    <3>4. Ahead(k, conns, revoke[k].seq)'
      BY <2>4, <3>1
    <3> QED BY <1>2, <3>1, <3>3, <3>4 DEF RevokeInv
  <2> QED BY <1>1, <1>2, <2>1, <2>2, <2>3, <2>7, <2>8, OneLink
<1>4. CASE ~(conns = c /\ CanQueue(c))
  <2> DEFINE r == [revoke[k] EXCEPT !.pc = "refused", !.seq = 0]
  <2>1. UNCHANGED link /\ Goto(k, r)
    BY <1>2, <1>4 DEF SendSync
  <2>2. r \in RevokeType /\ r.pc = "refused" /\ r.conn = c
    BY <1>1, <1>2 DEF RevokeType
  <2>3. revoke'[k] = r
    BY <2>1 DEF Goto, RegInv, RegTypes
  <2> HIDE DEF r
  <2>4. RevokeInv(k)'
    BY <1>2, <2>2, <2>3 DEF RevokeInv
  <2> QED BY <1>1, <2>1, <2>2, <2>4, OneRevoke
<1> QED BY <1>3, <1>4

LEMMA RegRevokeEnds == ASSUME RegInv, NEW k \in Revoker, RevokeEnds(k) PROVE RegInv'
<1> DEFINE c == revoke[k].conn
<1>1. RevokeInv(k) /\ UNCHANGED conns /\ Goto(k, Idle)
  BY DEF RevokeEnds, RegInv
<1>2. c \in Conn /\ link[c] \in LinkType
  BY <1>1 DEF RevokeInv, RevokeEnds, RegInv, RegTypes
<1>3. Idle \in RevokeType /\ Idle.pc = "idle"
  BY DEF Idle, RevokeType
<1>4. /\ revoke' \in [Revoker -> RevokeType] /\ revoke'[k] = Idle
      /\ \A j \in Revoker \ {k} : revoke'[j] = revoke[j]
  BY <1>1, <1>3 DEF Goto, RegInv, RegTypes
<1>5. RevokeInv(k)'
  BY <1>3, <1>4 DEF RevokeInv
<1>6. PICK r : /\ Put(c, r)
               /\ \/ r = [link[c] EXCEPT !.stopped = link[c].phase = "open"]
                  \/ r = [link[c] EXCEPT !.cancelled = TRUE]
  BY DEF RevokeEnds
<1>7. r \in LinkType
  BY <1>2, <1>6 DEF LinkType
<1>8. /\ r.ch = link[c].ch /\ r.queued = link[c].queued /\ r.sent = link[c].sent
      /\ r.busy = link[c].busy /\ r.wrote = link[c].wrote /\ r.closed = link[c].closed
      /\ r.writer = link[c].writer /\ r.phase = link[c].phase
      /\ link[c].cancelled => r.cancelled
  BY <1>2, <1>6 DEF LinkType
<1> QED BY <1>1, <1>2, <1>4, <1>5, <1>6, <1>7, <1>8, QuietLink

LEMMA RegRegister == ASSUME RegInv, NEW c \in Conn, Register(c) PROVE RegInv'
<1>1. link[c].phase = "free" /\ conns' = c /\ UNCHANGED revoke /\ conns # c
  BY DEF Register, Unused, RegInv, LinkInv
<1>2. ASSUME NEW d \in Conn
      PROVE  link'[d] = CASE d = c -> [link[d] EXCEPT !.phase = "open"]
                          [] d = conns /\ d # c -> [link[d] EXCEPT !.cancelled = TRUE]
                          [] OTHER -> link[d]
  BY DEF Register
<1>3. ASSUME NEW d \in Conn
      PROVE  /\ link'[d] \in LinkType
             /\ link'[d].ch = link[d].ch /\ link'[d].queued = link[d].queued
             /\ link'[d].sent = link[d].sent /\ link'[d].busy = link[d].busy
             /\ link'[d].wrote = link[d].wrote /\ link'[d].closed = link[d].closed
             /\ link'[d].writer = link[d].writer
             /\ link'[d].phase = IF d = c THEN "open" ELSE link[d].phase
             /\ link[d].cancelled => link'[d].cancelled
             /\ d = conns => link'[d].cancelled
  <2>1. link[d] \in LinkType
    BY DEF RegInv, RegTypes
  <2>2. CASE d = c
    <3>1. link'[d] = [link[d] EXCEPT !.phase = "open"]
      BY <1>2, <2>2
    <3> QED BY <1>1, <2>1, <2>2, <3>1 DEF LinkType
  <2>3. CASE d # c /\ d = conns
    <3>1. link'[d] = [link[d] EXCEPT !.cancelled = TRUE]
      BY <1>2, <2>3
    <3> QED BY <2>1, <2>3, <3>1 DEF LinkType
  <2>4. CASE d # c /\ d # conns
    <3>1. link'[d] = link[d]
      BY <1>2, <2>4
    <3> QED BY <2>1, <2>4, <3>1
  <2> QED BY <2>2, <2>3, <2>4
<1>4. RegTypes'
  <2>1. link' = [d \in Conn |-> link'[d]]
    BY DEF Register
  <2>2. link' \in [Conn -> LinkType]
    BY <1>3, <2>1
  <2> QED BY <1>1, <2>2 DEF RegInv, RegTypes
<1>5. ASSUME NEW d \in Conn PROVE (Dead(d)' <=> Dead(d)) /\ InSend(d)' = InSend(d)
  BY <1>1, <1>3 DEF Dead, InSend
<1>6. \A d \in Conn : LinkInv(d)'
  <2> TAKE d \in Conn
  <2>1. LinkInv(d)
    BY DEF RegInv
  <2>2. CASE d = c
    BY <1>1, <1>3, <1>5, <2>1, <2>2 DEF LinkInv
  <2>3. CASE d # c
    BY <1>1, <1>3, <1>5, <2>1, <2>3 DEF LinkInv
  <2> QED BY <2>2, <2>3
<1>7. \A k \in Revoker : RevokeInv(k)'
  <2> TAKE k \in Revoker
  <2>1. RevokeInv(k) /\ revoke'[k] = revoke[k]
    BY <1>1 DEF RegInv
  <2>2. CASE revoke[k].conn \in Conn
    <3>1. PICK d \in Conn : revoke[k].conn = d
      BY <2>2
    <3>2. /\ link'[d].ch = link[d].ch /\ link'[d].sent = link[d].sent
          /\ link'[d].busy = link[d].busy /\ link'[d].wrote = link[d].wrote
          /\ link'[d].writer = link[d].writer /\ (Dead(d) => Dead(d)')
      BY <1>3, <1>5
    <3> QED BY <2>1, <3>1, <3>2, RevokeQuiet
  <2>3. CASE revoke[k].conn \notin Conn
    BY <2>1, <2>3, RevokeKept
  <2> QED BY <2>2, <2>3
<1> QED BY <1>4, <1>6, <1>7 DEF RegInv

LEMMA RegUnregister == ASSUME RegInv, NEW c \in Conn, Unregister(c) PROVE RegInv'
<1> DEFINE gone == [link[c] EXCEPT !.phase = "gone", !.cancelled = TRUE, !.ch = << >>]
<1>1. link[c] \in LinkType /\ LinkInv(c) /\ UNCHANGED revoke
  BY DEF RegInv, RegTypes, Unregister
<1>2. PICK r : /\ Put(c, r) /\ r \in {gone, [gone EXCEPT !.closed = TRUE, !.writerDone = TRUE]}
               /\ conns' = IF conns = c THEN NoConn ELSE conns
  BY DEF Unregister
<1>3. /\ gone \in LinkType /\ gone.queued = link[c].queued /\ gone.sent = link[c].sent
      /\ gone.wrote = link[c].wrote /\ gone.phase = "gone" /\ gone.ch = << >>
  <2>1. << >> \in Seq(Revoker \cup {Other})
    BY SMT
  <2> QED BY <1>1, <2>1 DEF LinkType
<1> HIDE DEF gone
<1>4. /\ r \in LinkType /\ r.queued = link[c].queued /\ r.sent = link[c].sent
      /\ r.wrote = link[c].wrote /\ r.phase = "gone" /\ r.ch = << >>
  BY <1>2, <1>3 DEF LinkType
<1>5. /\ link' \in [Conn -> LinkType] /\ link'[c] = r
      /\ \A d \in Conn \ {c} : link'[d] = link[d]
  BY <1>2, <1>4, LinkChanges DEF RegInv
<1>6. Dead(c)' /\ conns' # c /\ NoConn \notin Conn
  BY <1>2, <1>4, <1>5, RegistryAssumption DEF Dead
<1>7. RegTypes'
  BY <1>1, <1>2, <1>5 DEF RegInv, RegTypes
<1>8. \A d \in Conn : LinkInv(d)'
  <2> TAKE d \in Conn
  <2>1. CASE d = c
    <3>1. Len(r.ch) <= SendCap
      BY <1>4, RegistryAssumption, SMT
    <3> QED BY <1>1, <1>4, <1>5, <1>6, <2>1, <3>1 DEF LinkInv
  <2>2. CASE d # c
    <3>1. conns' = d <=> conns = d
      BY <1>2, <1>6, <2>2, SMT
    <3> QED BY <1>5, <2>2, <3>1, LinkKept DEF RegInv
  <2> QED BY <2>1, <2>2
<1>9. \A k \in Revoker : RevokeInv(k)'
  <2> TAKE k \in Revoker
  <2>1. RevokeInv(k) /\ revoke'[k] = revoke[k]
    BY <1>1 DEF RegInv
  <2>2. CASE revoke[k].conn = c
    BY <1>4, <1>5, <1>6, <2>1, <2>2, RevokeDead
  <2>3. CASE revoke[k].conn # c
    BY <1>5, <2>1, <2>3, RevokeKept
  <2> QED BY <2>2, <2>3
<1> QED BY <1>7, <1>8, <1>9 DEF RegInv

LEMMA FreshLink ==
  /\ Fresh \in LinkType /\ Fresh.phase = "free" /\ Fresh.ch = << >> /\ Fresh.queued = 0
  /\ Fresh.sent = 0 /\ Fresh.closed = FALSE /\ Fresh.writer = "none"
<1>1. << >> \in Seq(Revoker \cup {Other}) /\ {} \in SUBSET Revoker
  BY SMT
<1> QED BY <1>1 DEF Fresh, LinkType

LEMMA FreshInv ==
  ASSUME NEW c \in Conn, link[c] = Fresh, conns # c PROVE LinkInv(c)
<1>1. ~Dead(c) /\ InSend(c) = 0
  BY FreshLink DEF Dead, InSend
<1>2. Len(<< >>) = 0 /\ 0 <= SendCap /\ 0 <= MaxQueued /\ 0 = 0 + 0 + 0
  BY RegistryAssumption, SMT
<1>3. Len(link[c].ch) = 0
  BY <1>2, FreshLink
<1> QED BY <1>1, <1>2, <1>3, FreshLink, SMT DEF LinkInv

LEMMA RegRecycle == ASSUME RegInv, NEW c \in Conn, Recycle(c) PROVE RegInv'
<1>1. /\ link[c].phase = "gone" /\ (\A k \in Revoker : revoke[k].conn # c) /\ Put(c, Fresh)
      /\ UNCHANGED <<conns, revoke>>
  BY DEF Recycle
<1>2. link'[c] = Fresh
  BY <1>1, FreshLink, LinkChanges DEF RegInv
<1>3. conns' # c
  BY <1>1 DEF RegInv, LinkInv
<1>4. LinkInv(c)'
  <2>1. ~Dead(c)' /\ InSend(c)' = 0
    BY <1>2, FreshLink DEF Dead, InSend
  <2>2. Len(link'[c].ch) = 0 /\ 0 <= SendCap /\ 0 <= MaxQueued /\ 0 = 0 + 0 + 0
    BY <1>2, FreshLink, RegistryAssumption, SMT
  <2> QED BY <1>2, <1>3, <2>1, <2>2, FreshLink, SMT DEF LinkInv
<1> QED BY <1>1, <1>4, FreshLink, OneLink DEF RegInv, RegTypes

LEMMA RegStep == RegInv /\ [RegNext]_regVars => RegInv'
<1> SUFFICES ASSUME RegInv, [RegNext]_regVars PROVE RegInv'
  OBVIOUS
<1>1. CASE UNCHANGED regVars
  BY <1>1, LinkKept, RevokeKept DEF RegInv, RegTypes, regVars
<1> QED BY <1>1, RegRegister, RegHandler, RegUnregister, RegRecycle, RegWriterTakes,
           RegWriterWrote, RegWriterStops, RegSend, RegRevokeConn, RegSendSync, RegAnswered,
           RegRevokeEnds DEF RegNext

LEMMA RegHolds == RegSpec => []RegInv
<1>1. RegInit => RegInv
  <2> SUFFICES ASSUME RegInit PROVE RegInv
    OBVIOUS
  <2>1. Idle \in RevokeType /\ Idle.pc = "idle"
    BY DEF Idle, RevokeType
  <2>2. RegTypes
    BY <2>1, FreshLink DEF RegInit, RegTypes
  <2>3. \A c \in Conn : link[c] = Fresh /\ conns # c
    BY RegistryAssumption DEF RegInit
  <2>4. \A c \in Conn : LinkInv(c)
    BY <2>3, FreshInv
  <2>5. \A k \in Revoker : revoke[k].pc = "idle"
    BY <2>1 DEF RegInit
  <2>6. \A k \in Revoker : RevokeInv(k)
    BY <2>5 DEF RevokeInv
  <2> QED BY <2>2, <2>4, <2>6 DEF RegInv
<1> QED BY <1>1, RegStep, PTL DEF RegSpec

\* A revoke call that takes its command for written is right, and no stream serves the
\* agent beside the registered one unless it is already cancelled: for any number of
\* connections and of concurrent revoke calls, and any capacity of the send channel.
THEOREM RegistryIsSound == RegSpec => []RegistrySound
<1>1. RegInv => RegistrySound
  <2> SUFFICES ASSUME RegInv PROVE RegistrySound
    OBVIOUS
  <2>1. ASSUME NEW c \in Conn
        PROVE  /\ link[c].phase \in {"free", "open", "returned", "gone"}
               /\ link[c].writer \in {"none", "idle", "sending", "stopped"}
               /\ Len(link[c].ch) <= SendCap /\ link[c].queued \in 0..MaxQueued
               /\ link[c].sent \in 0..link[c].queued
               /\ link[c].closed => link[c].phase = "gone"
    <3>1. /\ link[c].phase \in {"free", "open", "returned", "gone"}
          /\ link[c].writer \in {"none", "idle", "sending", "stopped"}
          /\ link[c].queued \in Nat /\ link[c].sent \in Nat
      BY DEF RegInv, RegTypes, LinkType
    <3>2. LinkInv(c)
      BY DEF RegInv
    <3> QED BY <3>1, <3>2, RegistryAssumption, SMT DEF LinkInv
  <2>2. conns # NoConn => link[conns].phase \in {"open", "returned"} /\ ~link[conns].closed
    BY DEF RegInv, RegTypes, LinkInv
  <2>3. \A k \in Revoker : revoke[k].pc \in {"idle", "captured", "wait", "confirmed", "refused"}
    BY DEF RegInv, RegTypes, RevokeType
  <2>4. RegTypeOK
    BY <2>1, <2>2, <2>3 DEF RegTypeOK, RegInv, RegTypes
  <2>5. ConfirmedIsWritten /\ NoStrayStream
    BY DEF ConfirmedIsWritten, NoStrayStream, RegInv, RevokeInv, LinkInv
  <2> QED BY <2>4, <2>5 DEF RegistrySound
<1> QED BY <1>1, RegHolds, PTL

-----------------------------------------------------------------------------
(* What no step of the registry does.                                      *)

Cut(c) ==
  /\ conns' = c /\ link'[c].phase = "open"
  /\ \/ link'[c].stopped /\ ~link[c].stopped
     \/ link'[c].cancelled /\ ~link[c].cancelled

Exact(c) ==
  /\ Len(link'[c].ch) > Len(link[c].ch) => ~link[c].closed
  /\ Cut(c) => \E k \in Revoker : revoke[k].conn = c

\* A connection that keeps its channel and its flags.
LEMMA ExactKept ==
  ASSUME RegInv, NEW c \in Conn, link'[c].ch = link[c].ch,
         link'[c].stopped = link[c].stopped, link'[c].cancelled = link[c].cancelled
  PROVE  Exact(c)
<1>1. Len(link[c].ch) \in Nat
  BY SMT DEF RegInv, RegTypes, LinkType
<1>2. ~(Len(link'[c].ch) > Len(link[c].ch))
  BY <1>1, SMT
<1> QED BY <1>2 DEF Exact, Cut

LEMMA PutChanges ==
  ASSUME RegInv, NEW c \in Conn, NEW r, Put(c, r)
  PROVE  link'[c] = r /\ \A d \in Conn \ {c} : link'[d] = link[d]
BY DEF Put, RegInv, RegTypes

\* An action that changes one connection is judged by that connection.
LEMMA ExactOne ==
  ASSUME RegInv, NEW c \in Conn, \A d \in Conn \ {c} : link'[d] = link[d], Exact(c)
  PROVE  \A d \in Conn : Exact(d)
BY ExactKept

LEMMA ExactStep == ASSUME RegInv, RegNext PROVE \A c \in Conn : Exact(c)
<1>1. ASSUME UNCHANGED link PROVE \A c \in Conn : Exact(c)
  BY <1>1, ExactKept
<1>2. ASSUME NEW c \in Conn
      PROVE  /\ link[c] \in LinkType /\ Len(link[c].ch) \in Nat
             /\ Len(<< >>) = 0
  BY SMT DEF RegInv, RegTypes, LinkType
<1>3. ASSUME NEW c \in Conn, Refuse(c) \/ HandlerEnds(c) \/ RecvFails(c)
      PROVE  \A d \in Conn : Exact(d)
  <2>1. /\ link'[c].ch = link[c].ch /\ link'[c].phase = "returned"
        /\ \A d \in Conn \ {c} : link'[d] = link[d]
    <3>1. CASE Refuse(c)
      BY <1>2, <3>1, PutChanges, SMT DEF Refuse, LinkType
    <3>2. CASE HandlerEnds(c)
      <4>1. /\ link'[c] = [link[c] EXCEPT !.phase = "returned", !.stopped = FALSE]
            /\ \A d \in Conn \ {c} : link'[d] = link[d]
        BY <3>2, PutChanges DEF HandlerEnds
      <4> QED BY <1>2, <4>1 DEF LinkType
    <3>3. CASE RecvFails(c)
      <4>1. /\ link'[c] = [link[c] EXCEPT !.phase = "returned", !.stopped = FALSE,
                                       !.cancelled = @ \/ ~link[c].stopped]
            /\ \A d \in Conn \ {c} : link'[d] = link[d]
        BY <3>3, PutChanges DEF RecvFails
      <4> QED BY <1>2, <4>1 DEF LinkType
    <3> QED BY <1>3, <3>1, <3>2, <3>3
  <2>2. ~Cut(c) /\ ~(Len(link'[c].ch) > Len(link[c].ch))
    BY <1>2, <2>1, SMT DEF Cut
  <2> QED BY <2>1, <2>2, ExactOne DEF Exact
<1>4. ASSUME NEW c \in Conn, Unregister(c) \/ Recycle(c) PROVE \A d \in Conn : Exact(d)
  <2>1. /\ link'[c].ch = << >> /\ link'[c].phase \in {"gone", "free"}
        /\ \A d \in Conn \ {c} : link'[d] = link[d]
    <3>1. CASE Recycle(c)
      BY <3>1, FreshLink, PutChanges DEF Recycle
    <3>2. CASE Unregister(c)
      <4> DEFINE gone == [link[c] EXCEPT !.phase = "gone", !.cancelled = TRUE, !.ch = << >>]
      <4>1. /\ link'[c] \in {gone, [gone EXCEPT !.closed = TRUE, !.writerDone = TRUE]}
            /\ \A d \in Conn \ {c} : link'[d] = link[d]
        BY <3>2, PutChanges DEF Unregister
      <4> QED BY <1>2, <4>1 DEF LinkType
    <3> QED BY <1>4, <3>1, <3>2
  <2>2. ~Cut(c) /\ ~(Len(link'[c].ch) > Len(link[c].ch))
    BY <1>2, <2>1, SMT DEF Cut
  <2> QED BY <2>1, <2>2, ExactOne DEF Exact
<1>5. ASSUME NEW c \in Conn, StartWriter(c) \/ WriterWrote(c) \/ WriterStops(c)
      PROVE  \A d \in Conn : Exact(d)
  <2>1. /\ link'[c].ch = link[c].ch /\ link'[c].stopped = link[c].stopped
        /\ link'[c].cancelled = link[c].cancelled
        /\ \A d \in Conn \ {c} : link'[d] = link[d]
    <3>1. CASE StartWriter(c)
      BY <1>2, <3>1, PutChanges, SMT DEF StartWriter, LinkType
    <3>2. CASE WriterWrote(c)
      <4>1. /\ link'[c] = [link[c] EXCEPT !.writer = "idle", !.sent = @ + 1,
                           !.wrote = @ \cup ({link[c].busy} \cap Revoker), !.busy = Other]
            /\ \A d \in Conn \ {c} : link'[d] = link[d]
        BY <3>2, PutChanges DEF WriterWrote
      <4> QED BY <1>2, <4>1 DEF LinkType
    <3>3. CASE WriterStops(c)
      <4>1. /\ link'[c] = [link[c] EXCEPT !.writer = "stopped", !.writerDone = TRUE, !.busy = Other]
            /\ \A d \in Conn \ {c} : link'[d] = link[d]
        BY <3>3, PutChanges DEF WriterStops
      <4> QED BY <1>2, <4>1 DEF LinkType
    <3> QED BY <1>5, <3>1, <3>2, <3>3
  <2> QED BY <2>1, ExactKept, ExactOne
<1>6. ASSUME NEW c \in Conn, WriterTakes(c) PROVE \A d \in Conn : Exact(d)
  <2>1. /\ link'[c].ch = Tail(link[c].ch) /\ link'[c].stopped = link[c].stopped
        /\ link'[c].cancelled = link[c].cancelled
        /\ \A d \in Conn \ {c} : link'[d] = link[d]
    <3>1. /\ link'[c] = [link[c] EXCEPT !.ch = Tail(@), !.busy = Head(link[c].ch),
                                        !.writer = "sending"]
          /\ \A d \in Conn \ {c} : link'[d] = link[d]
      BY <1>6, PutChanges DEF WriterTakes
    <3> QED BY <1>2, <3>1 DEF LinkType
  <2>2. link[c].ch \in Seq(Revoker \cup {Other}) /\ link[c].ch # << >>
    BY <1>2, <1>6 DEF WriterTakes, LinkType
  <2>3. ~(Len(Tail(link[c].ch)) > Len(link[c].ch))
    BY <2>2, SMT
  <2>4. Exact(c)
    BY <2>1, <2>3 DEF Exact, Cut
  <2> QED BY <2>1, <2>4, ExactOne
<1>7. ASSUME conns \in Conn, NEW who, Put(conns, Enqueue(conns, who))
      PROVE  \A d \in Conn : Exact(d)
  <2>1. link[conns] \in LinkType /\ ~link[conns].closed
    BY <1>2, <1>7 DEF RegInv, LinkInv
  <2>2. /\ Enqueue(conns, who).stopped = link[conns].stopped
        /\ Enqueue(conns, who).cancelled = link[conns].cancelled
    BY <2>1 DEF Enqueue, LinkType
  <2>3. /\ link'[conns] = Enqueue(conns, who)
        /\ \A d \in Conn \ {conns} : link'[d] = link[d]
    BY <1>7, PutChanges
  <2>4. Exact(conns)
    BY <2>1, <2>2, <2>3 DEF Exact, Cut
  <2> QED BY <1>7, <2>3, <2>4, ExactOne
<1>8. ASSUME Send PROVE \A d \in Conn : Exact(d)
  BY <1>7, <1>8 DEF Send, RegInv, RegTypes
<1>9. ASSUME NEW k \in Revoker, SendSync(k) PROVE \A d \in Conn : Exact(d)
  <2>1. revoke[k].conn \in Conn
    BY <1>9 DEF SendSync, RegInv, RevokeInv
  <2> QED BY <1>1, <1>7, <1>9, <2>1 DEF SendSync
<1>10. ASSUME NEW k \in Revoker, RevokeEnds(k) PROVE \A d \in Conn : Exact(d)
  <2>1. PICK c \in Conn : c = revoke[k].conn
    BY <1>10 DEF RevokeEnds, RegInv, RevokeInv
  <2>2. link'[c].ch = link[c].ch /\ \A d \in Conn \ {c} : link'[d] = link[d]
    BY <1>2, <1>10, <2>1, PutChanges, SMT DEF RevokeEnds, LinkType
  <2>3. ~(Len(link'[c].ch) > Len(link[c].ch))
    BY <1>2, <2>2, SMT
  <2> QED BY <2>1, <2>2, <2>3, ExactOne DEF Exact
<1>11. ASSUME NEW c \in Conn, Register(c) PROVE \A d \in Conn : Exact(d)
  <2>1. conns' = c /\ conns # c
    BY <1>11 DEF Register, Unused, RegInv, LinkInv
  <2> TAKE d \in Conn
  <2>2. link'[d] = CASE d = c -> [link[d] EXCEPT !.phase = "open"]
                     [] d = conns /\ d # c -> [link[d] EXCEPT !.cancelled = TRUE]
                     [] OTHER -> link[d]
    BY <1>11 DEF Register
  <2>3. CASE d = c
    <3>1. link'[d] = [link[d] EXCEPT !.phase = "open"]
      BY <2>2, <2>3
    <3>2. /\ link'[d].ch = link[d].ch /\ link'[d].stopped = link[d].stopped
          /\ link'[d].cancelled = link[d].cancelled
      BY <1>2, <3>1 DEF LinkType
    <3> QED BY <3>2, ExactKept
  <2>4. CASE d # c
    <3>1. link'[d] = [link[d] EXCEPT !.cancelled = TRUE] \/ link'[d] = link[d]
      BY <2>2, <2>4
    <3>2. link'[d].ch = link[d].ch
      BY <1>2, <3>1 DEF LinkType
    <3>3. ~(Len(link'[d].ch) > Len(link[d].ch)) /\ ~Cut(d)
      BY <1>2, <2>1, <2>4, <3>2, SMT DEF Cut
    <3> QED BY <3>3 DEF Exact
  <2> QED BY <2>3, <2>4
<1>12. ASSUME NEW k \in Revoker,
              RevokeConn(k) \/ WaitConfirms(k) \/ WaitWriterDone(k) \/ WaitTimesOut(k)
       PROVE  \A d \in Conn : Exact(d)
  BY <1>1, <1>12 DEF RevokeConn, WaitConfirms, WaitWriterDone, WaitTimesOut
<1> QED BY <1>3, <1>4, <1>5, <1>6, <1>8, <1>9, <1>10, <1>11, <1>12 DEF RegNext

\* No message is ever put on a closed channel, and the registered connection is ended only
\* by a revoke call that captured it, never by one that captured its predecessor.
THEOREM RevokeCutsNoOther == RegSpec => NoSendOnClosed /\ ReplacementSurvives
<1>1. RegInv /\ [RegNext]_regVars =>
        [\A c \in Conn : Len(link'[c].ch) > Len(link[c].ch) => ~link[c].closed]_regVars
  BY ExactStep DEF Exact
<1>2. RegInv /\ [RegNext]_regVars =>
        [\A c \in Conn :
           (/\ conns' = c /\ link'[c].phase = "open"
            /\ \/ link'[c].stopped /\ ~link[c].stopped
               \/ link'[c].cancelled /\ ~link[c].cancelled)
           => \E k \in Revoker : revoke[k].conn = c]_regVars
  BY ExactStep DEF Exact, Cut
<1> QED BY <1>1, <1>2, RegHolds, PTL DEF RegSpec, NoSendOnClosed, ReplacementSurvives

-----------------------------------------------------------------------------
(* StorageSelfCheck.                                                       *)

\* The inductive invariant: a failure names the probe it is of, a record is kept under
\* the probe it is of, and Run pauses only after a failure.
CheckInv ==
  /\ cancelled \in BOOLEAN /\ window \in {"open", "expired"}
  /\ last = NoFailure \/ last.item \in Item
  /\ DOMAIN substantive = Item
  /\ \A i \in Item : substantive[i] = NoFailure \/ substantive[i].item = i
  /\ check = "pause" => last # NoFailure

LEMMA Failures ==
  ASSUME NEW a, NEW i
  PROVE  [item |-> i, answer |-> a].item = i /\ NoFailure.item = "none" /\ "none" \notin Item
BY DEF NoFailure, Item

\* The records after an attempt are still of their probes.
LEMMA RecordedOfItsItem ==
  ASSUME CheckInv
  PROVE  /\ DOMAIN Recorded = Item
         /\ \A i \in Item : Recorded[i] = NoFailure \/ Recorded[i].item = i
<1>1. CASE last = NoFailure \/ IsDeadlineCut(last)
  BY <1>1 DEF Recorded, CheckInv
<1>2. CASE ~(last = NoFailure \/ IsDeadlineCut(last)) /\ last.item = "s3"
  <2>1. Recorded = [substantive EXCEPT !["s3"] = last]
    BY <1>2 DEF Recorded
  <2> QED BY <1>2, <2>1 DEF CheckInv, Item
<1>3. CASE ~(last = NoFailure \/ IsDeadlineCut(last)) /\ last.item # "s3"
  <2>1. Recorded = [s3 |-> NoFailure, sts |-> last]
    BY <1>3 DEF Recorded
  <2>2. DOMAIN Recorded = {"s3", "sts"} /\ Recorded["s3"] = NoFailure /\ Recorded["sts"] = last
    BY <2>1, SMT
  <2>3. last.item = "sts"
    BY <1>3 DEF CheckInv, Item
  <2> QED BY <2>2, <2>3 DEF Item
<1> QED BY <1>1, <1>2, <1>3

\* The failure reported is of the probe the attempt stopped at.
LEMMA TerminalOfItsItem ==
  ASSUME CheckInv, last # NoFailure
  PROVE  TerminalFailure(last).item = last.item
<1>1. last.item \in Item
  BY DEF CheckInv
<1> QED BY <1>1, RecordedOfItsItem DEF TerminalFailure

\* The hint names the role just when the failure is not of S3.
LEMMA HintOfItem ==
  ASSUME NEW f
  PROVE  FixHint(f) = "check the role" <=> f.item # "s3"
<1>1. CASE f.item = "s3" /\ f.answer = "foreign"
  BY <1>1 DEF FixHint
<1>2. CASE f.item = "s3" /\ f.answer = "missing"
  BY <1>2 DEF FixHint
<1>3. CASE f.item = "s3" /\ f.answer # "missing" /\ f.answer # "foreign"
  BY <1>3 DEF FixHint
<1>4. CASE f.item # "s3"
  BY <1>4 DEF FixHint
<1> QED BY <1>1, <1>2, <1>3, <1>4

\* What VerdictIsJust says of one step.
Just ==
  verdict' # verdict =>
    /\ verdict' = "passed" => window = "open" /\ last = NoFailure
    /\ verdict' = "failure" =>
         /\ ~cancelled /\ window = "expired"
         /\ last # NoFailure => reported'.item = last.item
         /\ advice'[2] = "check the role" <=> last.item = "sts"
    /\ verdict' = "aborted" => cancelled

\* Run returns a failure of the probe the last attempt stopped at.
LEMMA FailureReported ==
  ASSUME CheckInv, NEW f, Return("failure", f), ~cancelled, window = "expired",
         \/ last = NoFailure /\ f = [item |-> "s3", answer |-> "slow"]
         \/ last # NoFailure /\ f.item = last.item
  PROVE  Just
<1>1. verdict' = "failure" /\ reported' = f /\ advice' = <<Diagnose(f), FixHint(f)>>
  BY DEF Return
<1>2. advice'[2] = FixHint(f)
  BY <1>1
<1>3. f.item = "s3" <=> last.item # "sts"
  <2>1. CASE last = NoFailure
    <3>1. f.item = "s3" /\ last.item = "none"
      BY <2>1, Failures
    <3> QED BY <3>1
  <2>2. CASE last # NoFailure
    <3>1. f.item = last.item /\ (last.item = "s3" \/ last.item = "sts")
      BY <2>2 DEF CheckInv, Item
    <3> QED BY <3>1
  <2> QED BY <2>1, <2>2
<1>4. last # NoFailure => reported'.item = last.item
  BY <1>1
<1> QED BY <1>1, <1>2, <1>3, <1>4, HintOfItem DEF Just

LEMMA JudgeStep ==
  ASSUME CheckInv, Judge
  PROVE  CheckInv' /\ Just
<1>1. UNCHANGED <<cancelled, window, last>> /\ substantive' = Recorded
  BY DEF Judge
<1>2. CASE cancelled
  <2>1. Return("aborted", NoFailure)
    BY <1>2 DEF Judge
  <2> QED BY <1>1, <1>2, <2>1, RecordedOfItsItem DEF Return, CheckInv, Just
<1>3. CASE ~cancelled /\ window = "expired"
  <2>1. PICK f : f = IF last = NoFailure THEN [item |-> "s3", answer |-> "slow"]
                     ELSE TerminalFailure(last)
    OBVIOUS
  <2>2. Return("failure", f)
    BY <1>3, <2>1 DEF Judge
  <2>3. Just
    BY <1>3, <2>1, <2>2, TerminalOfItsItem, FailureReported
  <2> QED BY <1>1, <2>2, <2>3, RecordedOfItsItem DEF Return, CheckInv
<1>4. CASE ~cancelled /\ window = "open" /\ last = NoFailure
  <2>1. Return("passed", NoFailure)
    BY <1>4 DEF Judge
  <2> QED BY <1>1, <1>4, <2>1, RecordedOfItsItem DEF Return, CheckInv, Just
<1>5. CASE ~cancelled /\ window = "open" /\ last # NoFailure
  <2>1. check' = "pause" /\ UNCHANGED outcome
    BY <1>5 DEF Judge
  <2> QED BY <1>1, <1>5, <2>1, RecordedOfItsItem DEF outcome, CheckInv, Just
<1> QED BY <1>2, <1>3, <1>4, <1>5 DEF CheckInv

LEMMA PauseStep ==
  ASSUME CheckInv, Pause
  PROVE  CheckInv' /\ Just
<1>1. UNCHANGED <<cancelled, window, last, substantive>> /\ last # NoFailure
  BY DEF Pause, CheckInv
<1>2. CASE cancelled
  <2>1. Return("aborted", NoFailure)
    BY <1>2 DEF Pause
  <2> QED BY <1>1, <1>2, <2>1 DEF Return, CheckInv, Just
<1>3. CASE ~cancelled /\ window = "expired"
  <2>1. PICK f : f = TerminalFailure(last)
    OBVIOUS
  <2>2. Return("failure", f)
    BY <1>3, <2>1 DEF Pause
  <2>3. Just
    BY <1>1, <1>3, <2>1, <2>2, TerminalOfItsItem, FailureReported
  <2> QED BY <1>1, <2>2, <2>3 DEF Return, CheckInv
<1>4. CASE ~cancelled /\ window # "expired"
  <2>1. check' = "s3" /\ UNCHANGED outcome
    BY <1>4 DEF Pause
  <2> QED BY <1>1, <2>1 DEF outcome, CheckInv, Just
<1> QED BY <1>2, <1>3, <1>4

LEMMA CheckStepHolds == CheckInv /\ [CheckStep \/ ParentCancelled]_checkVars => CheckInv' /\ Just
<1> SUFFICES ASSUME CheckInv, [CheckStep \/ ParentCancelled]_checkVars PROVE CheckInv' /\ Just
  OBVIOUS
<1>1. CASE BeginCheck
  BY <1>1 DEF BeginCheck, CheckInv, Just, outcome
<1>2. CASE ProbeS3
  <2>1. PICK a \in ProbeAnswers("s3") :
          IF a = "ok" THEN check' = "sts" /\ last' = NoFailure
                      ELSE check' = "judge" /\ last' = [item |-> "s3", answer |-> a]
    BY <1>2 DEF ProbeS3
  <2>2. last' = NoFailure \/ last'.item = "s3"
    BY <2>1, Failures
  <2>3. UNCHANGED <<cancelled, window, substantive, outcome>> /\ check' # "pause"
    BY <1>2, <2>1 DEF ProbeS3
  <2> QED BY <2>2, <2>3 DEF CheckInv, Just, outcome, Item
<1>3. CASE ProbeSTS
  <2>1. PICK a \in ProbeAnswers("sts") :
          last' = IF a = "ok" THEN NoFailure ELSE [item |-> "sts", answer |-> a]
    BY <1>3 DEF ProbeSTS
  <2>2. last' = NoFailure \/ last'.item = "sts"
    BY <2>1, Failures
  <2>3. UNCHANGED <<cancelled, window, substantive, outcome>> /\ check' # "pause"
    BY <1>3 DEF ProbeSTS
  <2> QED BY <2>2, <2>3 DEF CheckInv, Just, outcome, Item
<1>4. CASE WindowExpires
  BY <1>4 DEF WindowExpires, CheckInv, Just, outcome
<1>5. CASE ParentCancelled
  BY <1>5 DEF ParentCancelled, CheckInv, Just, outcome
<1>6. CASE UNCHANGED checkVars
  BY <1>6 DEF checkVars, CheckInv, Just
<1> QED BY <1>1, <1>2, <1>3, <1>4, <1>5, <1>6, JudgeStep, PauseStep DEF CheckStep

\* The verdict of the self-check agrees with how it ended, for every order of answers,
\* deadline and shutdown.
THEOREM VerdictAlwaysJust == CheckSpec => VerdictIsJust
<1>1. CheckInit => CheckInv
  BY DEF CheckInit, CheckInv, Item
<1>2. CheckInv /\ [CheckStep \/ ParentCancelled]_checkVars =>
        [verdict' # verdict =>
           /\ verdict' = "passed" => window = "open" /\ last = NoFailure
           /\ verdict' = "failure" =>
                /\ ~cancelled /\ window = "expired"
                /\ last # NoFailure => reported'.item = last.item
                /\ advice'[2] = "check the role" <=> last.item = "sts"
           /\ verdict' = "aborted" => cancelled]_outcome
  BY CheckStepHolds DEF Just
<1> QED BY <1>1, <1>2, CheckStepHolds, PTL DEF CheckSpec, VerdictIsJust

-----------------------------------------------------------------------------
(* RateLimit.  Every request let in was counted.                           *)

\* The inductive invariant: of one user, the counter lives as long as its expiry, and
\* every request let in was counted.
WindowOK(c, e, a) ==
  /\ c \in 0..(PerMinute + 1) /\ e \in 0..WindowTTL /\ a \in Nat
  /\ (c > 0 <=> e > 0) /\ a <= c /\ a <= PerMinute

RateInv ==
  /\ count \in [Caller -> 0..(PerMinute + 1)] /\ expires \in [Caller -> 0..WindowTTL]
  /\ allowed \in [Caller -> Nat]
  /\ \A u \in Caller : WindowOK(count[u], expires[u], allowed[u])

LEMMA WindowCounts ==
  ASSUME NEW c, NEW e, NEW a, WindowOK(c, e, a),
         NEW c1, c1 = IF c > PerMinute THEN c ELSE c + 1,
         NEW e1, e1 = IF c = 0 THEN WindowTTL ELSE e,
         NEW a1, a1 = IF c1 > PerMinute \/ a > PerMinute THEN a ELSE a + 1
  PROVE  WindowOK(c1, e1, a1)
BY RateAssumption, SMT DEF WindowOK

LEMMA ApiRequestStep ==
  ASSUME RateInv, NEW u \in Caller, ApiRequest(u) PROVE RateInv'
<1>1. PICK c1, e1 :
        /\ c1 = (IF count[u] > PerMinute THEN count[u] ELSE count[u] + 1)
        /\ e1 = (IF count[u] = 0 THEN WindowTTL ELSE expires[u])
  OBVIOUS
<1>2. PICK a1 : a1 = IF c1 > PerMinute \/ allowed[u] > PerMinute THEN allowed[u] ELSE allowed[u] + 1
  OBVIOUS
<1>3. count' = [count EXCEPT ![u] = c1] /\ expires' = [expires EXCEPT ![u] = e1]
  BY <1>1 DEF ApiRequest, IncrWithWindow
<1>4. count'[u] = c1
  BY <1>3 DEF RateInv
<1>5. allowed' = [allowed EXCEPT ![u] = a1]
  BY <1>2, <1>4 DEF ApiRequest, OverLimit
<1>6. WindowOK(c1, e1, a1)
  <2>1. PICK c, e, a : c = count[u] /\ e = expires[u] /\ a = allowed[u]
    OBVIOUS
  <2>2. WindowOK(c, e, a)
    BY <2>1 DEF RateInv
  <2>3. /\ c1 = (IF c > PerMinute THEN c ELSE c + 1) /\ e1 = (IF c = 0 THEN WindowTTL ELSE e)
        /\ a1 = (IF c1 > PerMinute \/ a > PerMinute THEN a ELSE a + 1)
    BY <1>1, <1>2, <2>1
  <2> QED BY <2>2, <2>3, WindowCounts, SMT
<1>7. ASSUME NEW w \in Caller PROVE WindowOK(count'[w], expires'[w], allowed'[w])
  <2>1. CASE w = u
    BY <1>3, <1>5, <1>6, <2>1 DEF RateInv
  <2>2. CASE w # u
    <3>1. count'[w] = count[w] /\ expires'[w] = expires[w] /\ allowed'[w] = allowed[w]
      BY <1>3, <1>5, <2>2 DEF RateInv
    <3> QED BY <3>1 DEF RateInv
  <2> QED BY <2>1, <2>2
<1>8. c1 \in 0..(PerMinute + 1) /\ e1 \in 0..WindowTTL /\ a1 \in Nat
  BY <1>6 DEF WindowOK
<1> QED BY <1>3, <1>5, <1>7, <1>8 DEF RateInv

LEMMA MinuteTickStep ==
  ASSUME RateInv, MinuteTick PROVE RateInv'
<1>1. ASSUME NEW w \in Caller PROVE WindowOK(count'[w], expires'[w], allowed'[w])
  <2>1. PICK c, e, a : c = count[w] /\ e = expires[w] /\ a = allowed[w]
    OBVIOUS
  <2>2. WindowOK(c, e, a)
    BY <2>1 DEF RateInv
  <2>3. PICK c1, e1, a1 : c1 = count'[w] /\ e1 = expires'[w] /\ a1 = allowed'[w]
    OBVIOUS
  <2>4. /\ e1 = (IF e = 0 THEN 0 ELSE e - 1)
        /\ c1 = (IF e1 = 0 THEN 0 ELSE c) /\ a1 = (IF e1 = 0 THEN 0 ELSE a)
    BY <2>1, <2>3 DEF MinuteTick
  <2>5. WindowOK(c1, e1, a1)
    BY <2>2, <2>4, RateAssumption, SMT DEF WindowOK
  <2> QED BY <2>3, <2>5
<1>2. ASSUME NEW w \in Caller
      PROVE  count'[w] \in 0..(PerMinute + 1) /\ expires'[w] \in 0..WindowTTL /\ allowed'[w] \in Nat
  BY <1>1 DEF WindowOK
<1>3. /\ count' = [w \in Caller |-> count'[w]] /\ expires' = [w \in Caller |-> expires'[w]]
      /\ allowed' = [w \in Caller |-> allowed'[w]]
  BY DEF MinuteTick
<1>4. /\ count' \in [Caller -> 0..(PerMinute + 1)] /\ expires' \in [Caller -> 0..WindowTTL]
      /\ allowed' \in [Caller -> Nat]
  BY <1>2, <1>3
<1> QED BY <1>1, <1>4 DEF RateInv

\* The safety half of LimitIsPerWindow: a counter never outlives its window, none is
\* left without an expiry, and however requests and the end of a window fall together,
\* and whenever Redis fails, no window lets in more counted requests than the limit.
THEOREM LimitAlwaysHolds == RateSpec => []RateTypeOK
<1>1. ASSUME RateInit PROVE RateInv
  <2>1. WindowOK(0, 0, 0)
    BY RateAssumption, SMT DEF WindowOK
  <2>2. 0 \in Nat
    BY SMT
  <2> QED BY <1>1, <2>1, <2>2 DEF RateInit, RateInv, WindowOK
<1>2. ASSUME RateInv, [RateNext]_rateVars PROVE RateInv'
  <2>1. CASE UNCHANGED <<count, expires, allowed>>
    BY <1>2, <2>1 DEF RateInv
  <2>2. CASE \E u \in Caller : ApiRequest(u)
    BY <1>2, <2>2, ApiRequestStep
  <2>3. CASE MinuteTick
    BY <1>2, <2>3, MinuteTickStep
  <2> QED BY <1>2, <2>1, <2>2, <2>3 DEF RateNext, rateVars, ApiRequestUncounted, RateRedisChanges
<1>3. RateInv => RateTypeOK
  BY DEF RateInv, WindowOK, RateTypeOK
<1> QED BY <1>1, <1>2, <1>3, PTL DEF RateSpec
=============================================================================
