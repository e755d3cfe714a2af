-------------------------- MODULE PendingRequests --------------------------
(***************************************************************************)
(* Requests that wait for an agent: a directory listing (dirstore) or a    *)
(* dry run of a rule (dryrun), which go through stores of the same shape.  *)
(* The handler registers a channel, sends the command over the agent's     *)
(* stream and waits thirty seconds; the agent answers from a goroutine of  *)
(* its own, and the receiver of its stream hands the answer to whoever is  *)
(* registered under the request's id.  Streams break and answers come      *)
(* late.                                                                   *)
(***************************************************************************)
EXTENDS Naturals

CONSTANTS Asker,    \* REST requests, all to one agent
          Nobody

ASSUME PendingAssumption == Nobody \notin Asker

VARIABLES
  phase,        \* each handler
  store,        \* Store.m
  answer,       \* the buffered channel of each request: whose result it holds
  connected,    \* the agent has a stream
  commands,     \* requests on their way to the agent
  walking,      \* requests the agent is working on
  results,      \* requests whose result is on its way back
  loaded,       \* the result whose entry Deliver has loaded: <<result, entry>>
  unheard,       \* requests whose result was discarded while their handler waited
  reply         \* what the client was told

pendVars == <<phase, store, answer, connected, commands, walking, results, loaded,
              unheard, reply>>
agentSide == <<connected, commands, walking, results>>
receiver == <<loaded, unheard>>

NotLoaded == <<Nobody, Nobody>>

PendInit ==
  /\ phase = [a \in Asker |-> "idle"] /\ store = {} /\ answer = [a \in Asker |-> Nobody]
  /\ connected = TRUE /\ commands = {} /\ walking = {} /\ results = {}
  /\ loaded = NotLoaded /\ unheard = {} /\ reply = [a \in Asker |-> "none"]

-----------------------------------------------------------------------------
(* ListDir and TestRule.                                                   *)

\* An agent that is neither registered nor has an online key is refused.  The key
\* outlives a stream, so a request may pass without one.
Admit(a) ==
  /\ phase[a] = "idle"
  /\ \/ phase' = [phase EXCEPT ![a] = "register"] /\ UNCHANGED reply
     \/ /\ ~connected
        /\ phase' = [phase EXCEPT ![a] = "done"] /\ reply' = [reply EXCEPT ![a] = "offline"]
  /\ UNCHANGED <<store, answer, agentSide, receiver>>

RegisterLate(a) ==
  /\ phase[a] = "register"
  /\ phase' = [phase EXCEPT ![a] = "send"]
  /\ UNCHANGED <<store, answer, agentSide, receiver, reply>>

\* Store.Register, before the command is sent.
RegisterAsk(a) ==
  /\ phase[a] = "register"
  /\ phase' = [phase EXCEPT ![a] = "send"]
  /\ store' = store \cup {a} /\ answer' = [answer EXCEPT ![a] = Nobody]
  /\ UNCHANGED <<agentSide, receiver, reply>>

\* Registry.Send: no stream, or no room on it, is a conflict.
SendAsk(a) ==
  /\ phase[a] = "send"
  /\ \/ /\ connected
        /\ commands' = commands \cup {a} /\ phase' = [phase EXCEPT ![a] = "wait"]
        /\ UNCHANGED <<store, reply>>
     \/ /\ phase' = [phase EXCEPT ![a] = "done"] /\ store' = store \ {a}
        /\ reply' = [reply EXCEPT ![a] = "offline"]
        /\ UNCHANGED commands
  /\ UNCHANGED <<answer, connected, walking, results, receiver>>

\* The select, then the deferred Store.Cancel.  A result carries a listing, or an
\* error of the agent.
AskAnswered(a) ==
  /\ phase[a] = "wait" /\ answer[a] # Nobody
  /\ phase' = [phase EXCEPT ![a] = "done"] /\ store' = store \ {a}
  /\ \E r \in {"result", "agent error"} : reply' = [reply EXCEPT ![a] = r]
  /\ UNCHANGED <<answer, agentSide, receiver>>

TimesOut(a) ==
  /\ phase[a] = "wait"
  /\ phase' = [phase EXCEPT ![a] = "done"] /\ store' = store \ {a}
  /\ reply' = [reply EXCEPT ![a] = "timeout"]
  /\ UNCHANGED <<answer, agentSide, receiver>>

-----------------------------------------------------------------------------
(* The agent: every command is answered from a goroutine of its own.       *)

CommandArrives(a) ==
  /\ connected /\ a \in commands
  /\ commands' = commands \ {a} /\ walking' = walking \cup {a}
  /\ UNCHANGED <<phase, store, answer, connected, results, receiver, reply>>

\* handleListDir and handleDryRun; SendMessage uses the stream there is by then,
\* and without one the result is dropped.
WalkDone(a) ==
  /\ a \in walking /\ walking' = walking \ {a}
  /\ results' = IF connected THEN results \cup {a} ELSE results
  /\ UNCHANGED <<phase, store, answer, connected, commands, receiver, reply>>

\* What a broken stream carried is lost, in both directions.
StreamLostAt ==
  /\ connected /\ connected' = FALSE
  /\ commands' = {} /\ results' = {}
  /\ UNCHANGED <<phase, store, answer, walking, receiver, reply>>

Reconnects ==
  /\ ~connected /\ connected' = TRUE
  /\ UNCHANGED <<phase, store, answer, commands, walking, results, receiver, reply>>

-----------------------------------------------------------------------------
(* handleDirectoryListing and handleDryRunResult, one message at a time.   *)

Addressed(a) == store \cap {a}

\* Deliver looks the entry up; a result nobody is registered for is discarded.
DeliverLoads(a) ==
  /\ a \in results /\ loaded = NotLoaded
  /\ results' = results \ {a}
  /\ IF Addressed(a) = {}
       THEN /\ UNCHANGED loaded
            /\ unheard' = IF phase[a] = "wait" THEN unheard \cup {a} ELSE unheard
       ELSE /\ \E e \in Addressed(a) : loaded' = <<a, e>>
            /\ UNCHANGED unheard
  /\ UNCHANGED <<phase, store, answer, connected, commands, walking, reply>>

\* Then it drops the entry and puts the result on the channel, unless it is full.
DeliverSends ==
  /\ loaded # NotLoaded
  /\ LET e == loaded[2] IN
       /\ store' = store \ {e}
       /\ answer' = IF answer[e] = Nobody THEN [answer EXCEPT ![e] = loaded[1]] ELSE answer
  /\ loaded' = NotLoaded
  /\ UNCHANGED <<phase, agentSide, unheard, reply>>

\* A new request takes a new id: the number is used again only when nothing of the
\* old one is left.
Forget(a) ==
  /\ phase[a] = "done"
  /\ a \notin commands \cup walking \cup results /\ loaded[1] # a
  /\ phase' = [phase EXCEPT ![a] = "idle"] /\ answer' = [answer EXCEPT ![a] = Nobody]
  /\ unheard' = unheard \ {a} /\ reply' = [reply EXCEPT ![a] = "none"]
  /\ UNCHANGED <<store, agentSide, loaded>>

PendNext ==
  \/ \E a \in Asker : \/ Admit(a) \/ RegisterAsk(a) \/ SendAsk(a) \/ AskAnswered(a) \/ TimesOut(a)
                    \/ CommandArrives(a) \/ WalkDone(a) \/ DeliverLoads(a) \/ Forget(a)
  \/ DeliverSends \/ StreamLostAt \/ Reconnects

PendSpec == PendInit /\ [][PendNext]_pendVars

-----------------------------------------------------------------------------
(* The stores hold the requests whose handler has not returned, and no      *)
(* others: neither a timeout, nor a send that failed, nor a late result     *)
(* leaves an entry behind.                                                  *)
PendTypeOK ==
  /\ phase \in [Asker -> {"idle", "register", "send", "wait", "done"}]
  /\ store \subseteq {a \in Asker : phase[a] \in {"send", "wait"}}
  /\ answer \in [Asker -> Asker \cup {Nobody}]
  /\ commands \cup walking \cup results \subseteq Asker

(* A handler is never given the result of another request, however late     *)
(* that one comes.                                                          *)
AnswerIsOwn == \A a \in Asker : answer[a] \in {a, Nobody}

(* No result that comes back while its handler waits is discarded: the      *)
(* channel is registered before the command is sent.                        *)
AnswerNotMissed == unheard = {}

\* An answer reaches the request it belongs to, and no other.
AnswersArrive == PendTypeOK /\ AnswerIsOwn /\ AnswerNotMissed
=============================================================================
