--------------------------- MODULE EventDelivery ---------------------------
(***************************************************************************)
(* The event engine of the control plane (controlplane/internal/event):    *)
(* a dispatcher per NATS subject records a delivery, sends it and records  *)
(* the outcome; one retry worker scans the deliveries that are due.  Both  *)
(* write the same rows of event_deliveries with no lock between them.      *)
(*                                                                         *)
(* Time is relative: the distance to next_retry_at, and to the moment by   *)
(* which a dispatcher is done, count down together.                        *)
(***************************************************************************)
EXTENDS Integers, FiniteSets

CONSTANTS
  Delivery,     \* one matching rule of one event each
  Webhook,      \* the deliveries of webhook rules; the others are nats_publish
  Edited,       \* deliveries whose rule row is edited by hand between its lookups
  MaxRetry,     \* maxRetryAttempts
  Schedule,     \* retryBackoffSchedule, by number of retries
  HandleMax,    \* the longest a dispatcher takes: the client's timeout and the UPDATE
  MaxFaults,    \* bound on failing statements
  MaxCrashes    \* bound on crashes of the control plane

ASSUME DeliveryAssumption ==
  /\ Webhook \subseteq Delivery /\ Edited \subseteq Delivery
  /\ MaxRetry \in Nat \ {0} /\ HandleMax \in Nat
  /\ Schedule \in [0..(MaxRetry - 1) -> Nat]
  /\ MaxFaults \in Nat /\ MaxCrashes \in Nat

\* The in-flight stamp outlives the dispatcher: 30 s against a client timeout
\* of 10 s and one UPDATE.
ASSUME StampAssumption == HandleMax < Schedule[0]

VARIABLES
  status, attempts, wait,     \* the row: status, attempt_count, next_retry_at
  disp,         \* the dispatcher of each delivery
  left,         \* time its dispatcher still has
  reply,        \* what the dispatcher heard of its send
  rpc,          \* the retry worker
  batch, snap,  \* rows it listed and still has to try; their attempt_count then
  cur, rreply,  \* the row it is trying
  sent, accepted, lapses,   \* history: attempts to send, rows the receiver took, outcomes lost
  faults, crashes

rows == <<status, attempts, wait>>
dispatcher == <<disp, left, reply>>
worker == <<rpc, batch, snap, cur, rreply>>
history == <<sent, accepted, lapses>>
vars == <<rows, dispatcher, worker, history, faults, crashes>>

Retriable == {"pending", "failed"}
Terminal == {"delivered", "dead"}
Fault == faults < MaxFaults /\ faults' = faults + 1

Init ==
  /\ status = [d \in Delivery |-> "none"]
  /\ attempts = [d \in Delivery |-> 0] /\ wait = [d \in Delivery |-> 0]
  /\ disp = [d \in Delivery |-> "idle"] /\ left = [d \in Delivery |-> 0]
  /\ reply = [d \in Delivery |-> FALSE]
  /\ rpc = "idle" /\ batch = {} /\ snap = [d \in Delivery |-> 0]
  /\ cur \in Delivery /\ rreply = FALSE
  /\ sent = [d \in Delivery |-> 0] /\ accepted = {}
  /\ lapses = [d \in Delivery |-> 0]
  /\ faults = 0 /\ crashes = 0

\* A dispatcher has not more than HandleMax for a delivery.
Active(d) == disp[d] \in {"send", "record"}

Tick ==
  /\ \A d \in Delivery : Active(d) => left[d] > 0
  /\ \E d \in Delivery : wait[d] > 0
  /\ wait' = [d \in Delivery |-> IF wait[d] > 0 THEN wait[d] - 1 ELSE 0]
  /\ left' = [d \in Delivery |-> IF left[d] > 0 THEN left[d] - 1 ELSE 0]
  /\ UNCHANGED <<status, attempts, disp, reply, worker, history, faults, crashes>>

-----------------------------------------------------------------------------
(* A row and the statements that write it.                                 *)

UpdateDelivery(d, s, a, w) ==
  /\ status' = [status EXCEPT ![d] = s]
  /\ attempts' = [attempts EXCEPT ![d] = a]
  /\ wait' = [wait EXCEPT ![d] = w]

\* The receiver takes a send or not; the sender may not hear that it did.
Send(d, heard) ==
  /\ sent' = [sent EXCEPT ![d] = @ + 1]
  /\ heard => accepted' = accepted \cup {d}
  /\ accepted' \in {accepted, accepted \cup {d}}

Lost(d) == lapses' = [lapses EXCEPT ![d] = @ + 1]

-----------------------------------------------------------------------------
(* The dispatcher: HandleEvent, dispatch, dispatchWebhook, dispatchNATS.   *)

InFlightStampMutant == 0

\* inFlightDeliveryParams: the row is not due while its dispatcher is at work.
InFlightStamp == Schedule[0]

CreateEventDelivery(d) ==
  /\ disp[d] = "idle"
  /\ UpdateDelivery(d, "pending", 0, InFlightStamp)
  /\ disp' = [disp EXCEPT ![d] = "send"]
  /\ left' = [left EXCEPT ![d] = HandleMax]
  /\ UNCHANGED <<reply, worker, history, faults, crashes>>

\* The INSERT is committed and its answer is lost: a row nobody sends yet.
CreateUnacknowledged(d) ==
  /\ disp[d] = "idle" /\ Fault
  /\ UpdateDelivery(d, "pending", 0, InFlightStamp)
  /\ disp' = [disp EXCEPT ![d] = "over"]
  /\ UNCHANGED <<left, reply, worker, history, crashes>>

\* The INSERT fails, or the rule's config cannot be used: no row, no send.
SkipEvent(d) ==
  /\ disp[d] = "idle"
  /\ \/ d \in Edited /\ UNCHANGED faults
     \/ Fault
  /\ disp' = [disp EXCEPT ![d] = "over"]
  /\ UNCHANGED <<rows, left, reply, worker, history, crashes>>

DispatchSend(d, heard) ==
  /\ disp[d] = "send"
  /\ Send(d, heard)
  /\ reply' = [reply EXCEPT ![d] = heard]
  /\ disp' = [disp EXCEPT ![d] = "record"]
  /\ UNCHANGED <<rows, left, worker, lapses, faults, crashes>>

\* The URL makes no request: Send returns and the row keeps its stamp.
DispatchNoRequest(d) ==
  /\ disp[d] = "send" /\ d \in Webhook
  /\ disp' = [disp EXCEPT ![d] = "over"]
  /\ left' = [left EXCEPT ![d] = 0]
  /\ UNCHANGED <<rows, reply, worker, history, faults, crashes>>

\* scheduleRetry of the webhook sender keeps 'pending', dispatchNATS writes
\* 'failed'; both wait for schedule[0] and leave attempt_count at 0.
DispatchRecord(d) ==
  /\ disp[d] = "record"
  /\ IF reply[d]
     THEN UpdateDelivery(d, "delivered", 0, 0)
     ELSE UpdateDelivery(d, IF d \in Webhook THEN "pending" ELSE "failed", 0, Schedule[0])
  /\ disp' = [disp EXCEPT ![d] = "over"]
  /\ left' = [left EXCEPT ![d] = 0]
  /\ UNCHANGED <<reply, worker, history, faults, crashes>>

DispatchRecordFails(d) ==
  /\ disp[d] = "record"
  /\ Fault /\ Lost(d)
  /\ disp' = [disp EXCEPT ![d] = "over"]
  /\ left' = [left EXCEPT ![d] = 0]
  /\ UNCHANGED <<rows, reply, worker, sent, accepted, crashes>>

-----------------------------------------------------------------------------
(* The retry worker: processRetries, retryDelivery.                        *)

ListFailedOnly == {d \in Delivery : status[d] = "failed" /\ wait[d] = 0}

\* ListPendingEventDeliveries.
ListPending == {d \in Delivery : status[d] \in Retriable /\ wait[d] = 0}

ProcessRetries ==
  /\ rpc = "idle"
  /\ batch' = ListPending /\ snap' = attempts
  /\ rpc' = "next"
  /\ UNCHANGED <<rows, dispatcher, cur, rreply, history, faults, crashes>>

\* The next row of the list.  The rule cannot be read, or the row not be marked:
\* it is left for the next tick.  The rule cannot run: the row is dead.  Otherwise it is sent.
RetryNext(d) ==
  /\ rpc = "next" /\ d \in batch
  /\ batch' = batch \ {d}
  /\ \/ Fault /\ UNCHANGED <<rows, rpc, cur>>
     \/ /\ d \in Edited
        /\ UpdateDelivery(d, "dead", snap[d], 0)
        /\ UNCHANGED <<rpc, cur, faults>>
     \/ rpc' = "send" /\ cur' = d /\ UNCHANGED <<rows, faults>>
  /\ UNCHANGED <<dispatcher, snap, rreply, history, crashes>>

RetriesDone ==
  /\ rpc = "next" /\ batch = {}
  /\ rpc' = "idle"
  /\ UNCHANGED <<rows, dispatcher, batch, snap, cur, rreply, history, faults, crashes>>

RetrySend(heard) ==
  /\ rpc = "send"
  /\ Send(cur, heard)
  /\ rreply' = heard
  /\ rpc' = "record"
  /\ UNCHANGED <<rows, dispatcher, batch, snap, cur, lapses, faults, crashes>>

Exhausted(a) == a >= MaxRetry

\* The index into the schedule is capped by its length; below MaxRetry the
\* cap is not reached.
RetryRecord ==
  /\ rpc = "record"
  /\ LET a == snap[cur] + 1 IN
       \/ /\ rreply /\ UpdateDelivery(cur, "delivered", a, 0)
          /\ UNCHANGED <<lapses, faults>>
       \/ /\ ~rreply /\ Exhausted(a) /\ UpdateDelivery(cur, "dead", a, 0)
          /\ UNCHANGED <<lapses, faults>>
       \/ /\ ~rreply /\ ~Exhausted(a)
          /\ UpdateDelivery(cur, "failed", a, Schedule[IF a < MaxRetry THEN a ELSE MaxRetry - 1])
          /\ UNCHANGED <<lapses, faults>>
       \/ Fault /\ Lost(cur) /\ UNCHANGED rows
  /\ rpc' = "next"
  /\ UNCHANGED <<dispatcher, batch, snap, cur, rreply, sent, accepted, crashes>>

-----------------------------------------------------------------------------
\* The control plane stops or crashes; what was being sent is not recorded.
Crash ==
  /\ crashes < MaxCrashes /\ crashes' = crashes + 1
  /\ lapses' = [d \in Delivery |->
                  IF disp[d] = "record" \/ (rpc = "record" /\ cur = d)
                  THEN lapses[d] + 1 ELSE lapses[d]]
  /\ disp' = [d \in Delivery |-> IF Active(d) THEN "over" ELSE disp[d]]
  /\ left' = [d \in Delivery |-> 0]
  /\ rpc' = "idle" /\ batch' = {}
  /\ UNCHANGED <<rows, reply, snap, cur, rreply, sent, accepted, faults>>

Dispatch(d) ==
  \/ CreateEventDelivery(d) \/ CreateUnacknowledged(d) \/ SkipEvent(d)
  \/ \E heard \in BOOLEAN : DispatchSend(d, heard)
  \/ DispatchNoRequest(d) \/ DispatchRecord(d) \/ DispatchRecordFails(d)

RetryWorker ==
  \/ ProcessRetries \/ RetriesDone
  \/ \E d \in Delivery : RetryNext(d)
  \/ \E heard \in BOOLEAN : RetrySend(heard)
  \/ RetryRecord

Next == Tick \/ (\E d \in Delivery : Dispatch(d)) \/ RetryWorker \/ Crash

Spec == Init /\ [][Next]_vars

\* Time passes, the ticker fires again and again, and a dispatcher that has a
\* delivery in hand goes on.
FairSpec ==
  /\ Spec
  /\ WF_vars(Tick) /\ WF_vars(RetryWorker)
  /\ \A d \in Delivery : WF_vars(Active(d) /\ Dispatch(d))

-----------------------------------------------------------------------------
RowType ==
  /\ status \in [Delivery -> {"none", "pending", "failed", "delivered", "dead"}]
  /\ attempts \in [Delivery -> 0..MaxRetry] /\ wait \in [Delivery -> Nat]
DispType ==
  /\ disp \in [Delivery -> {"idle", "send", "record", "over"}]
  /\ left \in [Delivery -> 0..HandleMax] /\ reply \in [Delivery -> BOOLEAN]
WorkType ==
  /\ rpc \in {"idle", "next", "send", "record"}
  /\ batch \subseteq Delivery /\ snap \in [Delivery -> 0..MaxRetry]
  /\ cur \in Delivery /\ rreply \in BOOLEAN
HistType ==
  /\ sent \in [Delivery -> Nat] /\ accepted \subseteq Delivery
  /\ lapses \in [Delivery -> Nat]
BudgetType == faults \in 0..MaxFaults /\ crashes \in 0..MaxCrashes

TypeOK == RowType /\ DispType /\ WorkType /\ HistType /\ BudgetType

\* Rows the retry worker holds in memory.
Held == {d \in Delivery : d \in batch \/ (rpc \in {"send", "record"} /\ cur = d)}

\* The in-flight stamp keeps a concurrent retry tick away from a row whose
\* dispatcher has not recorded its outcome (inFlightDeliveryParams).
OneSender == \A d \in Held : ~Active(d)

\* A delivery that is delivered or dead is never written again: no late
\* UPDATE of the other actor, and no stale list, revives it.
TerminalIsFinal ==
  [][\A d \in Delivery : status[d] \in Terminal => status'[d] = status[d]]_vars

\* A receiver gets a delivery at most 1 + maxRetryAttempts times, plus once for
\* every outcome that was lost before it was recorded.
SendsAreBounded == \A d \in Delivery : sent[d] <= 1 + MaxRetry + lapses[d]

\* 'delivered' is only recorded for a delivery the receiver took, and a row is
\* given up only after the worker's retries, or because its rule cannot run.
OutcomeIsEarned ==
  \A d \in Delivery :
    /\ status[d] = "delivered" => d \in accepted
    /\ status[d] = "dead" => d \in Edited \/ sent[d] >= MaxRetry

\* Every recorded delivery is eventually delivered or dead, also when the
\* process crashed between the INSERT and the outcome.
EventuallySettled ==
  \A d \in Delivery : status[d] # "none" ~> status[d] \in Terminal

\* Dispatcher and retry worker keep to the row: one sender at a time, no more sends
\* than the schedule allows, and an outcome that the sends earned.
DeliverySound == TypeOK /\ OneSender /\ SendsAreBounded /\ OutcomeIsEarned

\* A delivery is settled, once and for all.
DeliverySettles == TerminalIsFinal /\ EventuallySettled
=============================================================================
