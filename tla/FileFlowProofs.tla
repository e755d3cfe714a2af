--------------------------- MODULE FileFlowProofs ---------------------------
(***************************************************************************)
(* Proofs about the two ends of a file's way: the delivery of the event of *)
(* its arrival (EventDelivery), for any number of deliveries, retries,     *)
(* faults and crashes and any schedule that StampAssumption allows; and    *)
(* the rules by which an agent collects it (RuleRunner), for any rules,    *)
(* files and overlapping walks.                                            *)
(***************************************************************************)
EXTENDS EventDelivery, RuleRunner, TLAPS

(* One row and its dispatcher.  While the dispatcher is at work the row is  *)
(* 'pending' and becomes due strictly after the dispatcher's time is up.    *)
RowOK(d) ==
  /\ disp[d] = "idle" => status[d] = "none"
  /\ Active(d) => status[d] = "pending" /\ attempts[d] = 0 /\ wait[d] > left[d]
  /\ disp[d] \in {"idle", "send"} => sent[d] = 0
  /\ status[d] \in {"none"} \cup Retriable => attempts[d] < MaxRetry

(* What the retry worker has in memory is still what the row says.          *)
HeldOK(d) ==
  d \in batch \/ (rpc \in {"send", "record"} /\ cur = d) =>
    status[d] \in Retriable /\ wait[d] = 0 /\ snap[d] = attempts[d]

WorkerOK ==
  /\ rpc = "idle" => batch = {}
  /\ rpc \in {"send", "record"} => cur \notin batch

(* 1 between a retry's send and its record.                                 *)
Uncounted(d) == IF rpc = "record" /\ cur = d THEN 1 ELSE 0

CountOK(d) ==
  /\ attempts[d] + Uncounted(d) <= sent[d]
  /\ sent[d] <= 1 + attempts[d] + lapses[d] + Uncounted(d)

OutcomeOK(d) ==
  /\ disp[d] = "record" /\ reply[d] => d \in accepted
  /\ rpc = "record" /\ cur = d /\ rreply => d \in accepted
  /\ status[d] = "delivered" => d \in accepted
  /\ status[d] = "dead" => d \in Edited \/ attempts[d] >= MaxRetry

IInv ==
  /\ TypeOK /\ WorkerOK
  /\ \A d \in Delivery : RowOK(d) /\ HeldOK(d) /\ CountOK(d) /\ OutcomeOK(d)

-----------------------------------------------------------------------------
(* Numbers of the schedule: natural, and longer than a dispatcher's time.   *)
LEMMA ScheduleFacts ==
  /\ MaxRetry \in Nat \ {0} /\ HandleMax \in Nat
  /\ \A a \in 0..(MaxRetry - 1) : Schedule[a] \in Nat
  /\ Schedule[0] \in Nat /\ Schedule[0] > HandleMax
  BY DeliveryAssumption, StampAssumption

(* An UPDATE with values of their types keeps the row's types.              *)
LEMMA UpdateTyped ==
  ASSUME RowType, NEW d \in Delivery, NEW a \in 0..MaxRetry, NEW w \in Nat,
         NEW s \in {"none", "pending", "failed", "delivered", "dead"},
         UpdateDelivery(d, s, a, w)
  PROVE  RowType'
  BY DEF RowType, UpdateDelivery

(* A send keeps the types of the history.                                   *)
LEMMA SendTyped ==
  ASSUME HistType, NEW d \in Delivery, NEW h \in BOOLEAN, Send(d, h), UNCHANGED lapses
  PROVE  HistType'
<1>1. (sent \in [Delivery -> Nat])'
  BY DEF HistType, Send
<1>2. (accepted \subseteq Delivery)'
  BY DEF HistType, Send
<1>3. QED
  BY <1>1, <1>2 DEF HistType

(* The initial state.                                                       *)
LEMMA InitOK == Init => IInv
<1> SUFFICES ASSUME Init PROVE IInv
  OBVIOUS
<1>1. TypeOK
  <2>1. RowType /\ DispType
    BY DeliveryAssumption DEF Init, RowType, DispType
  <2>2. WorkType
    <3>1. rreply \in BOOLEAN /\ batch \subseteq Delivery
      BY DEF Init
    <3>2. QED
      BY <3>1, DeliveryAssumption DEF Init, WorkType
  <2>3. HistType /\ BudgetType
    BY DeliveryAssumption DEF Init, HistType, BudgetType
  <2>4. QED
    BY <2>1, <2>2, <2>3 DEF TypeOK
<1>2. WorkerOK
  BY DEF Init, WorkerOK
<1>3. ASSUME NEW d \in Delivery PROVE RowOK(d) /\ HeldOK(d) /\ CountOK(d) /\ OutcomeOK(d)
  BY DeliveryAssumption
     DEF Init, RowOK, HeldOK, CountOK, OutcomeOK, Uncounted, Active, Retriable
<1>4. QED
  BY <1>1, <1>2, <1>3 DEF IInv

(* Each step keeps the types.                                               *)
LEMMA TypeStep == IInv /\ [Next]_vars => TypeOK'
<1> SUFFICES ASSUME IInv, [Next]_vars PROVE TypeOK'
  OBVIOUS
<1> USE ScheduleFacts, DeliveryAssumption
<1>0. RowType /\ DispType /\ WorkType /\ HistType /\ BudgetType
  BY DEF IInv, TypeOK
<1>1. CASE Tick
  <2>1. RowType'
    BY <1>0, <1>1 DEF RowType, Tick, worker, history
  <2>2. DispType'
    BY <1>0, <1>1 DEF DispType, Tick, worker, history
  <2>3. WorkType'
    BY <1>0, <1>1 DEF WorkType, Tick, worker, history
  <2>4. HistType'
    BY <1>0, <1>1 DEF HistType, Tick, worker, history
  <2>5. BudgetType'
    BY <1>0, <1>1 DEF BudgetType, Tick, worker, history
  <2>6. QED
    BY <2>1, <2>2, <2>3, <2>4, <2>5 DEF TypeOK
<1>2. ASSUME NEW d \in Delivery, CreateEventDelivery(d) PROVE TypeOK'
  <2>1. RowType'
    BY <1>0, <1>2 DEF RowType, CreateEventDelivery, UpdateDelivery, InFlightStamp, worker, history
  <2>2. DispType'
    BY <1>0, <1>2 DEF DispType, CreateEventDelivery, UpdateDelivery, InFlightStamp, worker, history
  <2>3. WorkType'
    BY <1>0, <1>2 DEF WorkType, CreateEventDelivery, UpdateDelivery, InFlightStamp, worker, history
  <2>4. HistType'
    BY <1>0, <1>2 DEF HistType, CreateEventDelivery, UpdateDelivery, InFlightStamp, worker, history
  <2>5. BudgetType'
    BY <1>0, <1>2 DEF BudgetType, CreateEventDelivery, UpdateDelivery, InFlightStamp, worker, history
  <2>6. QED
    BY <2>1, <2>2, <2>3, <2>4, <2>5 DEF TypeOK
<1>3. ASSUME NEW d \in Delivery, SkipEvent(d) PROVE TypeOK'
  <2>1. RowType'
    BY <1>0, <1>3 DEF RowType, SkipEvent, Fault, rows, worker, history
  <2>2. DispType'
    BY <1>0, <1>3 DEF DispType, SkipEvent, Fault, rows, worker, history
  <2>3. WorkType'
    BY <1>0, <1>3 DEF WorkType, SkipEvent, Fault, rows, worker, history
  <2>4. HistType'
    BY <1>0, <1>3 DEF HistType, SkipEvent, Fault, rows, worker, history
  <2>5. BudgetType'
    BY <1>0, <1>3 DEF BudgetType, SkipEvent, Fault, rows, worker, history
  <2>6. QED
    BY <2>1, <2>2, <2>3, <2>4, <2>5 DEF TypeOK
<1>4. ASSUME NEW d \in Delivery, NEW h \in BOOLEAN, DispatchSend(d, h) PROVE TypeOK'
  <2>1. RowType'
    BY <1>0, <1>4 DEF RowType, DispatchSend, Send, rows, worker
  <2>2. DispType'
    BY <1>0, <1>4 DEF DispType, DispatchSend, Send, rows, worker
  <2>3. WorkType'
    BY <1>0, <1>4 DEF WorkType, DispatchSend, Send, rows, worker
  <2>4. HistType'
    BY <1>0, <1>4 DEF HistType, DispatchSend, Send, rows, worker
  <2>5. BudgetType'
    BY <1>0, <1>4 DEF BudgetType, DispatchSend, Send, rows, worker
  <2>6. QED
    BY <2>1, <2>2, <2>3, <2>4, <2>5 DEF TypeOK
<1>5. ASSUME NEW d \in Delivery, DispatchNoRequest(d) PROVE TypeOK'
  <2>1. RowType'
    BY <1>0, <1>5 DEF RowType, DispatchNoRequest, rows, worker, history
  <2>2. DispType'
    BY <1>0, <1>5 DEF DispType, DispatchNoRequest, rows, worker, history
  <2>3. WorkType'
    BY <1>0, <1>5 DEF WorkType, DispatchNoRequest, rows, worker, history
  <2>4. HistType'
    BY <1>0, <1>5 DEF HistType, DispatchNoRequest, rows, worker, history
  <2>5. BudgetType'
    BY <1>0, <1>5 DEF BudgetType, DispatchNoRequest, rows, worker, history
  <2>6. QED
    BY <2>1, <2>2, <2>3, <2>4, <2>5 DEF TypeOK
<1>6. ASSUME NEW d \in Delivery, DispatchRecord(d) PROVE TypeOK'
  <2>1. RowType'
    <3>1. CASE UpdateDelivery(d, "delivered", 0, 0)
      BY <1>0, <3>1, UpdateTyped
    <3>2. ASSUME NEW s \in {"pending", "failed"}, UpdateDelivery(d, s, 0, Schedule[0])
          PROVE  RowType'
      BY <1>0, <3>2, UpdateTyped
    <3>3. QED
      BY <1>6, <3>1, <3>2 DEF DispatchRecord
  <2>2. DispType'
    BY <1>0, <1>6 DEF DispType, DispatchRecord, UpdateDelivery, worker, history
  <2>3. WorkType'
    BY <1>0, <1>6 DEF WorkType, DispatchRecord, UpdateDelivery, worker, history
  <2>4. HistType'
    BY <1>0, <1>6 DEF HistType, DispatchRecord, UpdateDelivery, worker, history
  <2>5. BudgetType'
    BY <1>0, <1>6 DEF BudgetType, DispatchRecord, UpdateDelivery, worker, history
  <2>6. QED
    BY <2>1, <2>2, <2>3, <2>4, <2>5 DEF TypeOK
<1>7. ASSUME NEW d \in Delivery, DispatchRecordFails(d) PROVE TypeOK'
  <2>1. RowType'
    BY <1>0, <1>7 DEF RowType, DispatchRecordFails, Fault, Lost, rows, worker
  <2>2. DispType'
    BY <1>0, <1>7 DEF DispType, DispatchRecordFails, Fault, Lost, rows, worker
  <2>3. WorkType'
    BY <1>0, <1>7 DEF WorkType, DispatchRecordFails, Fault, Lost, rows, worker
  <2>4. HistType'
    BY <1>0, <1>7 DEF HistType, DispatchRecordFails, Fault, Lost, rows, worker
  <2>5. BudgetType'
    BY <1>0, <1>7 DEF BudgetType, DispatchRecordFails, Fault, Lost, rows, worker
  <2>6. QED
    BY <2>1, <2>2, <2>3, <2>4, <2>5 DEF TypeOK
<1>8. CASE ProcessRetries
  <2>1. RowType'
    BY <1>0, <1>8 DEF RowType, ProcessRetries, ListPending, rows, dispatcher, history
  <2>2. DispType'
    BY <1>0, <1>8 DEF DispType, ProcessRetries, ListPending, rows, dispatcher, history
  <2>3. WorkType'
    BY <1>0, <1>8 DEF WorkType, RowType, ProcessRetries, ListPending, rows, dispatcher, history
  <2>4. HistType'
    BY <1>0, <1>8 DEF HistType, ProcessRetries, ListPending, rows, dispatcher, history
  <2>5. BudgetType'
    BY <1>0, <1>8 DEF BudgetType, ProcessRetries, ListPending, rows, dispatcher, history
  <2>6. QED
    BY <2>1, <2>2, <2>3, <2>4, <2>5 DEF TypeOK
<1>9. CASE RetriesDone
  <2>1. RowType'
    BY <1>0, <1>9 DEF RowType, RetriesDone, rows, dispatcher, history
  <2>2. DispType'
    BY <1>0, <1>9 DEF DispType, RetriesDone, rows, dispatcher, history
  <2>3. WorkType'
    BY <1>0, <1>9 DEF WorkType, RetriesDone, rows, dispatcher, history
  <2>4. HistType'
    BY <1>0, <1>9 DEF HistType, RetriesDone, rows, dispatcher, history
  <2>5. BudgetType'
    BY <1>0, <1>9 DEF BudgetType, RetriesDone, rows, dispatcher, history
  <2>6. QED
    BY <2>1, <2>2, <2>3, <2>4, <2>5 DEF TypeOK
<1>10. ASSUME NEW d \in Delivery, RetryNext(d) PROVE TypeOK'
  <2>1. RowType'
    <3>1. snap[d] \in 0..MaxRetry
      BY <1>0 DEF WorkType
    <3>2. CASE UNCHANGED rows
      BY <1>0, <3>2 DEF RowType, rows
    <3>3. CASE UpdateDelivery(d, "dead", snap[d], 0)
      BY <1>0, <3>1, <3>3, UpdateTyped
    <3>4. QED
      BY <1>10, <3>2, <3>3 DEF RetryNext
  <2>2. DispType'
    BY <1>0, <1>10 DEF DispType, RetryNext, UpdateDelivery, Fault, rows, dispatcher, history
  <2>3. WorkType'
    BY <1>0, <1>10 DEF WorkType, RetryNext, UpdateDelivery, Fault, rows, dispatcher, history
  <2>4. HistType'
    BY <1>0, <1>10 DEF HistType, RetryNext, UpdateDelivery, Fault, rows, dispatcher, history
  <2>5. BudgetType'
    BY <1>0, <1>10 DEF BudgetType, RetryNext, UpdateDelivery, Fault, rows, dispatcher, history
  <2>6. QED
    BY <2>1, <2>2, <2>3, <2>4, <2>5 DEF TypeOK
<1>11. ASSUME NEW h \in BOOLEAN, RetrySend(h) PROVE TypeOK'
  <2>1. RowType'
    BY <1>0, <1>11 DEF RowType, RetrySend, Send, rows, dispatcher
  <2>2. DispType'
    BY <1>0, <1>11 DEF DispType, RetrySend, Send, rows, dispatcher
  <2>3. WorkType'
    BY <1>0, <1>11 DEF WorkType, RetrySend, Send, rows, dispatcher
  <2>4. HistType'
    BY <1>0, <1>11, SendTyped DEF WorkType, RetrySend
  <2>5. BudgetType'
    BY <1>0, <1>11 DEF BudgetType, RetrySend, Send, rows, dispatcher
  <2>6. QED
    BY <2>1, <2>2, <2>3, <2>4, <2>5 DEF TypeOK
<1>12. CASE RetryRecord
  <2>0. snap[cur] + 1 \in 0..MaxRetry
    <3>1. HeldOK(cur) /\ RowOK(cur) /\ cur \in Delivery
      BY <1>0 DEF IInv, WorkType
    <3>2. snap[cur] = attempts[cur] /\ attempts[cur] < MaxRetry
      BY <1>12, <3>1 DEF RetryRecord, HeldOK, RowOK
    <3>3. QED
      BY <1>0, <3>1, <3>2 DEF RowType
  <2>1. RowType'
    <3>1. cur \in Delivery /\ rreply \in BOOLEAN
      BY <1>0 DEF WorkType
    <3>2. CASE UNCHANGED rows
      BY <1>0, <3>2 DEF RowType, rows
    <3>3. CASE UpdateDelivery(cur, "delivered", snap[cur] + 1, 0)
      BY <1>0, <2>0, <3>1, <3>3, UpdateTyped
    <3>4. CASE UpdateDelivery(cur, "dead", snap[cur] + 1, 0)
      BY <1>0, <2>0, <3>1, <3>4, UpdateTyped
    <3>5. ASSUME NEW i \in 0..(MaxRetry - 1),
                 UpdateDelivery(cur, "failed", snap[cur] + 1, Schedule[i])
          PROVE  RowType'
      BY <1>0, <2>0, <3>1, <3>5, UpdateTyped
    <3>6. QED
      BY <1>12, <2>0, <3>2, <3>3, <3>4, <3>5 DEF RetryRecord
  <2>2. DispType'
    BY <1>0, <1>12, <2>0 DEF DispType, RetryRecord, UpdateDelivery, Exhausted, Fault, Lost, rows, dispatcher
  <2>3. WorkType'
    BY <1>0, <1>12, <2>0 DEF WorkType, RetryRecord, UpdateDelivery, Exhausted, Fault, Lost, rows, dispatcher
  <2>4. HistType'
    BY <1>0, <1>12, <2>0, SMTT(30) DEF HistType, RetryRecord, UpdateDelivery, Exhausted, Fault, Lost, rows, dispatcher
  <2>5. BudgetType'
    BY <1>0, <1>12, <2>0 DEF BudgetType, RetryRecord, UpdateDelivery, Exhausted, Fault, Lost, rows, dispatcher
  <2>6. QED
    BY <2>1, <2>2, <2>3, <2>4, <2>5 DEF TypeOK
<1>13. CASE Crash
  <2>1. RowType'
    BY <1>0, <1>13 DEF RowType, Crash, Active, rows
  <2>2. DispType'
    BY <1>0, <1>13 DEF DispType, Crash, Active, rows
  <2>3. WorkType'
    BY <1>0, <1>13 DEF WorkType, Crash, Active, rows
  <2>4. HistType'
    BY <1>0, <1>13 DEF HistType, Crash, Active, rows
  <2>5. BudgetType'
    BY <1>0, <1>13 DEF BudgetType, Crash, Active, rows
  <2>6. QED
    BY <2>1, <2>2, <2>3, <2>4, <2>5 DEF TypeOK
<1>14. CASE UNCHANGED vars
  BY <1>0, <1>14 DEF TypeOK, RowType, DispType, WorkType, HistType, BudgetType, vars, rows, dispatcher, worker, history
<1>15. ASSUME NEW d \in Delivery, CreateUnacknowledged(d) PROVE TypeOK'
  <2>1. RowType'
    BY <1>0, <1>15 DEF RowType, CreateUnacknowledged, UpdateDelivery, InFlightStamp, Fault, worker, history
  <2>2. DispType'
    BY <1>0, <1>15 DEF DispType, CreateUnacknowledged, UpdateDelivery, InFlightStamp, Fault, worker, history
  <2>3. WorkType'
    BY <1>0, <1>15 DEF WorkType, CreateUnacknowledged, UpdateDelivery, InFlightStamp, Fault, worker, history
  <2>4. HistType'
    BY <1>0, <1>15 DEF HistType, CreateUnacknowledged, UpdateDelivery, InFlightStamp, Fault, worker, history
  <2>5. BudgetType'
    BY <1>0, <1>15 DEF BudgetType, CreateUnacknowledged, UpdateDelivery, InFlightStamp, Fault, worker, history
  <2>6. QED
    BY <2>1, <2>2, <2>3, <2>4, <2>5 DEF TypeOK
<1>16. QED
  BY <1>1, <1>2, <1>3, <1>4, <1>5, <1>6, <1>7, <1>8, <1>9, <1>10, <1>11, <1>12, <1>13, <1>14, <1>15
     DEF Next, Dispatch, RetryWorker

-----------------------------------------------------------------------------
(* The other parts of the invariant, for one delivery e.                    *)

(* Each step keeps the row in step with its dispatcher.                    *)
LEMMA RowStep ==
  ASSUME IInv, [Next]_vars, NEW e \in Delivery PROVE RowOK(e)'
<1> USE ScheduleFacts
<1>0. /\ RowType /\ DispType /\ WorkType /\ HistType /\ WorkerOK
      /\ \A d \in Delivery : RowOK(d) /\ HeldOK(d) /\ CountOK(d) /\ OutcomeOK(d)
  BY DEF IInv, TypeOK
<1>1. CASE Tick
  BY <1>0, <1>1 DEF RowOK, HeldOK, Active, Retriable, RowType, DispType, WorkType, HistType,
     Tick, worker, history
<1>2. ASSUME NEW d \in Delivery, CreateEventDelivery(d) PROVE RowOK(e)'
  BY <1>0, <1>2 DEF RowOK, HeldOK, Active, Retriable, RowType, DispType, WorkType, HistType,
     CreateEventDelivery, UpdateDelivery, InFlightStamp, worker, history
<1>3. ASSUME NEW d \in Delivery, SkipEvent(d) PROVE RowOK(e)'
  BY <1>0, <1>3 DEF RowOK, HeldOK, Active, Retriable, RowType, DispType, WorkType, HistType,
     SkipEvent, rows, worker, history
<1>4. ASSUME NEW d \in Delivery, NEW h \in BOOLEAN, DispatchSend(d, h) PROVE RowOK(e)'
  BY <1>0, <1>4 DEF RowOK, HeldOK, Active, Retriable, RowType, DispType, WorkType, HistType,
     DispatchSend, Send, rows, worker
<1>5. ASSUME NEW d \in Delivery, DispatchNoRequest(d) PROVE RowOK(e)'
  BY <1>0, <1>5 DEF RowOK, HeldOK, Active, Retriable, RowType, DispType, WorkType, HistType,
     DispatchNoRequest, rows, worker, history
<1>6. ASSUME NEW d \in Delivery, DispatchRecord(d) PROVE RowOK(e)'
  BY <1>0, <1>6 DEF RowOK, HeldOK, Active, Retriable, RowType, DispType, WorkType, HistType,
     DispatchRecord, UpdateDelivery, worker, history
<1>7. ASSUME NEW d \in Delivery, DispatchRecordFails(d) PROVE RowOK(e)'
  BY <1>0, <1>7 DEF RowOK, HeldOK, Active, Retriable, RowType, DispType, WorkType, HistType,
     DispatchRecordFails, Lost, rows, worker
<1>8. CASE ProcessRetries
  BY <1>0, <1>8 DEF RowOK, HeldOK, Active, Retriable, RowType, DispType, WorkType, HistType,
     ProcessRetries, ListPending, rows, dispatcher, history
<1>9. CASE RetriesDone
  BY <1>0, <1>9 DEF RowOK, HeldOK, Active, Retriable, RowType, DispType, WorkType, HistType,
     RetriesDone, rows, dispatcher, history
<1>10. ASSUME NEW d \in Delivery, RetryNext(d) PROVE RowOK(e)'
  BY <1>0, <1>10 DEF RowOK, HeldOK, Active, Retriable, RowType, DispType, WorkType, HistType,
     RetryNext, UpdateDelivery, rows, dispatcher, history
<1>11. ASSUME NEW h \in BOOLEAN, RetrySend(h) PROVE RowOK(e)'
  BY <1>0, <1>11 DEF RowOK, HeldOK, Active, Retriable, RowType, DispType, WorkType, HistType,
     RetrySend, Send, rows, dispatcher
<1>12. CASE RetryRecord
  BY <1>0, <1>12 DEF RowOK, HeldOK, Active, Retriable, RowType, DispType, WorkType, HistType,
     RetryRecord, UpdateDelivery, Exhausted, Lost, rows, dispatcher
<1>13. CASE Crash
  BY <1>0, <1>13 DEF RowOK, HeldOK, Active, Retriable, RowType, DispType, WorkType, HistType,
     Crash, rows
<1>14. CASE UNCHANGED vars
  BY <1>0, <1>14 DEF RowOK, HeldOK, Active, Retriable, RowType, DispType, WorkType, HistType,
     vars, rows, dispatcher, worker, history
<1>15. ASSUME NEW d \in Delivery, CreateUnacknowledged(d) PROVE RowOK(e)'
  BY <1>0, <1>15 DEF RowOK, HeldOK, Active, Retriable, RowType, DispType, WorkType, HistType,
     CreateUnacknowledged, UpdateDelivery, InFlightStamp, Fault, worker, history
<1>16. QED
  BY <1>1, <1>2, <1>3, <1>4, <1>5, <1>6, <1>7, <1>8, <1>9, <1>10, <1>11, <1>12, <1>13, <1>14, <1>15
     DEF Next, Dispatch, RetryWorker

(* Each step keeps the worker's list valid: nobody writes a row it holds.   *)
LEMMA HeldStep ==
  ASSUME IInv, [Next]_vars, NEW e \in Delivery PROVE HeldOK(e)'
<1> USE ScheduleFacts
<1>0. /\ RowType /\ DispType /\ WorkType /\ HistType /\ WorkerOK
      /\ \A d \in Delivery : RowOK(d) /\ HeldOK(d) /\ CountOK(d) /\ OutcomeOK(d)
  BY DEF IInv, TypeOK
<1>1. CASE Tick
  BY <1>0, <1>1 DEF HeldOK, RowOK, WorkerOK, Active, Retriable, RowType, DispType, WorkType, HistType,
     Tick, worker, history
<1>2. ASSUME NEW d \in Delivery, CreateEventDelivery(d) PROVE HeldOK(e)'
  BY <1>0, <1>2 DEF HeldOK, RowOK, WorkerOK, Active, Retriable, RowType, DispType, WorkType, HistType,
     CreateEventDelivery, UpdateDelivery, InFlightStamp, worker, history
<1>3. ASSUME NEW d \in Delivery, SkipEvent(d) PROVE HeldOK(e)'
  BY <1>0, <1>3 DEF HeldOK, RowOK, WorkerOK, Active, Retriable, RowType, DispType, WorkType, HistType,
     SkipEvent, rows, worker, history
<1>4. ASSUME NEW d \in Delivery, NEW h \in BOOLEAN, DispatchSend(d, h) PROVE HeldOK(e)'
  BY <1>0, <1>4 DEF HeldOK, RowOK, WorkerOK, Active, Retriable, RowType, DispType, WorkType, HistType,
     DispatchSend, Send, rows, worker
<1>5. ASSUME NEW d \in Delivery, DispatchNoRequest(d) PROVE HeldOK(e)'
  BY <1>0, <1>5 DEF HeldOK, RowOK, WorkerOK, Active, Retriable, RowType, DispType, WorkType, HistType,
     DispatchNoRequest, rows, worker, history
<1>6. ASSUME NEW d \in Delivery, DispatchRecord(d) PROVE HeldOK(e)'
  BY <1>0, <1>6 DEF HeldOK, RowOK, WorkerOK, Active, Retriable, RowType, DispType, WorkType, HistType,
     DispatchRecord, UpdateDelivery, worker, history
<1>7. ASSUME NEW d \in Delivery, DispatchRecordFails(d) PROVE HeldOK(e)'
  BY <1>0, <1>7 DEF HeldOK, RowOK, WorkerOK, Active, Retriable, RowType, DispType, WorkType, HistType,
     DispatchRecordFails, Lost, rows, worker
<1>8. CASE ProcessRetries
  BY <1>0, <1>8 DEF HeldOK, RowOK, WorkerOK, Active, Retriable, RowType, DispType, WorkType, HistType,
     ProcessRetries, ListPending, rows, dispatcher, history
<1>9. CASE RetriesDone
  BY <1>0, <1>9 DEF HeldOK, RowOK, WorkerOK, Active, Retriable, RowType, DispType, WorkType, HistType,
     RetriesDone, rows, dispatcher, history
<1>10. ASSUME NEW d \in Delivery, RetryNext(d) PROVE HeldOK(e)'
  BY <1>0, <1>10 DEF HeldOK, RowOK, WorkerOK, Active, Retriable, RowType, DispType, WorkType, HistType,
     RetryNext, UpdateDelivery, rows, dispatcher, history
<1>11. ASSUME NEW h \in BOOLEAN, RetrySend(h) PROVE HeldOK(e)'
  BY <1>0, <1>11 DEF HeldOK, RowOK, WorkerOK, Active, Retriable, RowType, DispType, WorkType, HistType,
     RetrySend, Send, rows, dispatcher
<1>12. CASE RetryRecord
  BY <1>0, <1>12 DEF HeldOK, RowOK, WorkerOK, Active, Retriable, RowType, DispType, WorkType, HistType,
     RetryRecord, UpdateDelivery, Exhausted, Lost, rows, dispatcher
<1>13. CASE Crash
  BY <1>0, <1>13 DEF HeldOK, RowOK, WorkerOK, Active, Retriable, RowType, DispType, WorkType, HistType,
     Crash, rows
<1>14. CASE UNCHANGED vars
  BY <1>0, <1>14 DEF HeldOK, RowOK, WorkerOK, Active, Retriable, RowType, DispType, WorkType, HistType,
     vars, rows, dispatcher, worker, history
<1>15. ASSUME NEW d \in Delivery, CreateUnacknowledged(d) PROVE HeldOK(e)'
  BY <1>0, <1>15 DEF HeldOK, RowOK, WorkerOK, Active, Retriable, RowType, DispType, WorkType, HistType,
     CreateUnacknowledged, UpdateDelivery, InFlightStamp, Fault, worker, history
<1>16. QED
  BY <1>1, <1>2, <1>3, <1>4, <1>5, <1>6, <1>7, <1>8, <1>9, <1>10, <1>11, <1>12, <1>13, <1>14, <1>15
     DEF Next, Dispatch, RetryWorker

(* Each step keeps the count of attempts in step with the sends.           *)
LEMMA CountStep ==
  ASSUME IInv, [Next]_vars, NEW e \in Delivery PROVE CountOK(e)'
<1> USE ScheduleFacts
<1>0. /\ RowType /\ DispType /\ WorkType /\ HistType /\ WorkerOK
      /\ \A d \in Delivery : RowOK(d) /\ HeldOK(d) /\ CountOK(d) /\ OutcomeOK(d)
  BY DEF IInv, TypeOK
<1>1. CASE Tick
  BY <1>0, <1>1 DEF CountOK, RowOK, HeldOK, WorkerOK, Uncounted, Active, Retriable, RowType, DispType, WorkType, HistType,
     Tick, worker, history
<1>2. ASSUME NEW d \in Delivery, CreateEventDelivery(d) PROVE CountOK(e)'
  BY <1>0, <1>2 DEF CountOK, RowOK, HeldOK, WorkerOK, Uncounted, Active, Retriable, RowType, DispType, WorkType, HistType,
     CreateEventDelivery, UpdateDelivery, InFlightStamp, worker, history
<1>3. ASSUME NEW d \in Delivery, SkipEvent(d) PROVE CountOK(e)'
  BY <1>0, <1>3 DEF CountOK, RowOK, HeldOK, WorkerOK, Uncounted, Active, Retriable, RowType, DispType, WorkType, HistType,
     SkipEvent, rows, worker, history
<1>4. ASSUME NEW d \in Delivery, NEW h \in BOOLEAN, DispatchSend(d, h) PROVE CountOK(e)'
  BY <1>0, <1>4 DEF CountOK, RowOK, HeldOK, WorkerOK, Uncounted, Active, Retriable, RowType, DispType, WorkType, HistType,
     DispatchSend, Send, rows, worker
<1>5. ASSUME NEW d \in Delivery, DispatchNoRequest(d) PROVE CountOK(e)'
  BY <1>0, <1>5 DEF CountOK, RowOK, HeldOK, WorkerOK, Uncounted, Active, Retriable, RowType, DispType, WorkType, HistType,
     DispatchNoRequest, rows, worker, history
<1>6. ASSUME NEW d \in Delivery, DispatchRecord(d) PROVE CountOK(e)'
  BY <1>0, <1>6 DEF CountOK, RowOK, HeldOK, WorkerOK, Uncounted, Active, Retriable, RowType, DispType, WorkType, HistType,
     DispatchRecord, UpdateDelivery, worker, history
<1>7. ASSUME NEW d \in Delivery, DispatchRecordFails(d) PROVE CountOK(e)'
  BY <1>0, <1>7 DEF CountOK, RowOK, HeldOK, WorkerOK, Uncounted, Active, Retriable, RowType, DispType, WorkType, HistType,
     DispatchRecordFails, Lost, rows, worker
<1>8. CASE ProcessRetries
  BY <1>0, <1>8 DEF CountOK, RowOK, HeldOK, WorkerOK, Uncounted, Active, Retriable, RowType, DispType, WorkType, HistType,
     ProcessRetries, ListPending, rows, dispatcher, history
<1>9. CASE RetriesDone
  BY <1>0, <1>9 DEF CountOK, RowOK, HeldOK, WorkerOK, Uncounted, Active, Retriable, RowType, DispType, WorkType, HistType,
     RetriesDone, rows, dispatcher, history
<1>10. ASSUME NEW d \in Delivery, RetryNext(d) PROVE CountOK(e)'
  BY <1>0, <1>10 DEF CountOK, RowOK, HeldOK, WorkerOK, Uncounted, Active, Retriable, RowType, DispType, WorkType, HistType,
     RetryNext, UpdateDelivery, rows, dispatcher, history
<1>11. ASSUME NEW h \in BOOLEAN, RetrySend(h) PROVE CountOK(e)'
  BY <1>0, <1>11 DEF CountOK, RowOK, HeldOK, WorkerOK, Uncounted, Active, Retriable, RowType, DispType, WorkType, HistType,
     RetrySend, Send, rows, dispatcher
<1>12. CASE RetryRecord
  BY <1>0, <1>12 DEF CountOK, RowOK, HeldOK, WorkerOK, Uncounted, Active, Retriable, RowType, DispType, WorkType, HistType,
     RetryRecord, UpdateDelivery, Exhausted, Lost, rows, dispatcher
<1>13. CASE Crash
  BY <1>0, <1>13 DEF CountOK, RowOK, HeldOK, WorkerOK, Uncounted, Active, Retriable, RowType, DispType, WorkType, HistType,
     Crash, rows
<1>14. CASE UNCHANGED vars
  BY <1>0, <1>14 DEF CountOK, RowOK, HeldOK, WorkerOK, Uncounted, Active, Retriable, RowType, DispType, WorkType, HistType,
     vars, rows, dispatcher, worker, history
<1>15. ASSUME NEW d \in Delivery, CreateUnacknowledged(d) PROVE CountOK(e)'
  BY <1>0, <1>15 DEF CountOK, RowOK, HeldOK, WorkerOK, Uncounted, Active, Retriable, RowType, DispType, WorkType, HistType,
     CreateUnacknowledged, UpdateDelivery, InFlightStamp, Fault, worker, history
<1>16. QED
  BY <1>1, <1>2, <1>3, <1>4, <1>5, <1>6, <1>7, <1>8, <1>9, <1>10, <1>11, <1>12, <1>13, <1>14, <1>15
     DEF Next, Dispatch, RetryWorker

(* Each step records an outcome only on its evidence.                      *)
LEMMA OutcomeStep ==
  ASSUME IInv, [Next]_vars, NEW e \in Delivery PROVE OutcomeOK(e)'
<1> USE ScheduleFacts
<1>0. /\ RowType /\ DispType /\ WorkType /\ HistType /\ WorkerOK
      /\ \A d \in Delivery : RowOK(d) /\ HeldOK(d) /\ CountOK(d) /\ OutcomeOK(d)
  BY DEF IInv, TypeOK
<1>1. CASE Tick
  BY <1>0, <1>1 DEF OutcomeOK, RowOK, HeldOK, WorkerOK, Active, Retriable, RowType, DispType, WorkType, HistType,
     Tick, worker, history
<1>2. ASSUME NEW d \in Delivery, CreateEventDelivery(d) PROVE OutcomeOK(e)'
  BY <1>0, <1>2 DEF OutcomeOK, RowOK, HeldOK, WorkerOK, Active, Retriable, RowType, DispType, WorkType, HistType,
     CreateEventDelivery, UpdateDelivery, InFlightStamp, worker, history
<1>3. ASSUME NEW d \in Delivery, SkipEvent(d) PROVE OutcomeOK(e)'
  BY <1>0, <1>3 DEF OutcomeOK, RowOK, HeldOK, WorkerOK, Active, Retriable, RowType, DispType, WorkType, HistType,
     SkipEvent, rows, worker, history
<1>4. ASSUME NEW d \in Delivery, NEW h \in BOOLEAN, DispatchSend(d, h) PROVE OutcomeOK(e)'
  BY <1>0, <1>4 DEF OutcomeOK, RowOK, HeldOK, WorkerOK, Active, Retriable, RowType, DispType, WorkType, HistType,
     DispatchSend, Send, rows, worker
<1>5. ASSUME NEW d \in Delivery, DispatchNoRequest(d) PROVE OutcomeOK(e)'
  BY <1>0, <1>5 DEF OutcomeOK, RowOK, HeldOK, WorkerOK, Active, Retriable, RowType, DispType, WorkType, HistType,
     DispatchNoRequest, rows, worker, history
<1>6. ASSUME NEW d \in Delivery, DispatchRecord(d) PROVE OutcomeOK(e)'
  BY <1>0, <1>6 DEF OutcomeOK, RowOK, HeldOK, WorkerOK, Active, Retriable, RowType, DispType, WorkType, HistType,
     DispatchRecord, UpdateDelivery, worker, history
<1>7. ASSUME NEW d \in Delivery, DispatchRecordFails(d) PROVE OutcomeOK(e)'
  BY <1>0, <1>7, SMTT(30) DEF OutcomeOK, RowOK, HeldOK, WorkerOK, Active, Retriable, RowType, DispType, WorkType, HistType,
     DispatchRecordFails, Lost, rows, worker
<1>8. CASE ProcessRetries
  BY <1>0, <1>8 DEF OutcomeOK, RowOK, HeldOK, WorkerOK, Active, Retriable, RowType, DispType, WorkType, HistType,
     ProcessRetries, ListPending, rows, dispatcher, history
<1>9. CASE RetriesDone
  BY <1>0, <1>9 DEF OutcomeOK, RowOK, HeldOK, WorkerOK, Active, Retriable, RowType, DispType, WorkType, HistType,
     RetriesDone, rows, dispatcher, history
<1>10. ASSUME NEW d \in Delivery, RetryNext(d) PROVE OutcomeOK(e)'
  BY <1>0, <1>10 DEF OutcomeOK, RowOK, HeldOK, WorkerOK, Active, Retriable, RowType, DispType, WorkType, HistType,
     RetryNext, UpdateDelivery, rows, dispatcher, history
<1>11. ASSUME NEW h \in BOOLEAN, RetrySend(h) PROVE OutcomeOK(e)'
  BY <1>0, <1>11, SMTT(30) DEF OutcomeOK, RowOK, HeldOK, WorkerOK, Active, Retriable, RowType, DispType, WorkType, HistType,
     RetrySend, Send, rows, dispatcher
<1>12. CASE RetryRecord
  BY <1>0, <1>12 DEF OutcomeOK, RowOK, HeldOK, WorkerOK, Active, Retriable, RowType, DispType, WorkType, HistType,
     RetryRecord, UpdateDelivery, Exhausted, Lost, rows, dispatcher
<1>13. CASE Crash
  BY <1>0, <1>13 DEF OutcomeOK, RowOK, HeldOK, WorkerOK, Active, Retriable, RowType, DispType, WorkType, HistType,
     Crash, rows
<1>14. CASE UNCHANGED vars
  BY <1>0, <1>14 DEF OutcomeOK, RowOK, HeldOK, WorkerOK, Active, Retriable, RowType, DispType, WorkType, HistType,
     vars, rows, dispatcher, worker, history
<1>15. ASSUME NEW d \in Delivery, CreateUnacknowledged(d) PROVE OutcomeOK(e)'
  BY <1>0, <1>15 DEF OutcomeOK, RowOK, HeldOK, WorkerOK, Active, Retriable, RowType, DispType, WorkType, HistType,
     CreateUnacknowledged, UpdateDelivery, InFlightStamp, Fault, worker, history
<1>16. QED
  BY <1>1, <1>2, <1>3, <1>4, <1>5, <1>6, <1>7, <1>8, <1>9, <1>10, <1>11, <1>12, <1>13, <1>14, <1>15
     DEF Next, Dispatch, RetryWorker

(* Each step keeps the worker's own state.                                  *)
LEMMA WorkerStep ==
  ASSUME IInv, [Next]_vars PROVE WorkerOK'
<1>0. WorkerOK
  BY DEF IInv
<1> QED
  BY <1>0
     DEF WorkerOK, Next, Dispatch, RetryWorker, Tick, CreateEventDelivery, CreateUnacknowledged, SkipEvent,
         DispatchSend, DispatchNoRequest, DispatchRecord, DispatchRecordFails,
         ProcessRetries, RetriesDone, RetryNext, RetrySend, RetryRecord, Crash,
         vars, worker

(* IInv holds in every reachable state.                                     *)
THEOREM Invariance == Spec => []IInv
<1>1. IInv /\ [Next]_vars => IInv'
  <2> SUFFICES ASSUME IInv, [Next]_vars PROVE IInv'
    OBVIOUS
  <2>1. TypeOK' /\ WorkerOK'
    BY TypeStep, WorkerStep
  <2>2. ASSUME NEW e \in Delivery PROVE (RowOK(e) /\ HeldOK(e) /\ CountOK(e) /\ OutcomeOK(e))'
    BY RowStep, HeldStep, CountStep, OutcomeStep
  <2>3. QED
    BY <2>1, <2>2 DEF IInv
<1>2. QED
  BY <1>1, InitOK, PTL DEF Spec

(* No retry tick takes a delivery whose dispatcher has not recorded its     *)
(* outcome: the promise of inFlightDeliveryParams, for every schedule whose *)
(* first delay is longer than a dispatcher's time.                          *)
THEOREM StampExcludes == Spec => []OneSender
<1>1. IInv => OneSender
  <2> SUFFICES ASSUME IInv, NEW d \in Held PROVE ~Active(d)
    BY DEF OneSender
  <2>1. d \in Delivery /\ DispType /\ RowOK(d) /\ HeldOK(d)
    BY DEF IInv, TypeOK, Held
  <2>2. wait[d] = 0
    BY <2>1 DEF Held, HeldOK
  <2>3. Active(d) => wait[d] > left[d]
    BY <2>1 DEF RowOK
  <2>4. HandleMax \in Nat
    BY ScheduleFacts
  <2>5. left[d] \in Nat
    BY <2>1, <2>4 DEF DispType
  <2>6. QED
    BY <2>2, <2>3, <2>5
<1>2. QED
  BY <1>1, Invariance, PTL

(* A delivery that is delivered or dead stays so: the retry worker's list   *)
(* and the dispatcher's late UPDATE never touch it.                         *)
THEOREM TerminalStays == Spec => TerminalIsFinal
<1>1. IInv /\ [Next]_vars =>
        [\A d \in Delivery : status[d] \in Terminal => status'[d] = status[d]]_vars
  <2> SUFFICES ASSUME IInv, [Next]_vars, NEW e \in Delivery, status[e] \in Terminal
               PROVE  status'[e] = status[e]
    OBVIOUS
  <2>0. /\ RowType /\ WorkType /\ RowOK(e) /\ HeldOK(e)
        /\ status[e] \notin {"none"} \cup Retriable
    BY DEF IInv, TypeOK, Terminal, Retriable
  <2>1. ASSUME NEW d \in Delivery, Dispatch(d) PROVE status'[e] = status[e]
    BY ZenonT(40), <2>0, <2>1
       DEF RowType, RowOK, Active, Retriable, Dispatch, CreateEventDelivery, CreateUnacknowledged, SkipEvent, DispatchSend,
           DispatchNoRequest, DispatchRecord, DispatchRecordFails, UpdateDelivery, rows
  <2>2. CASE RetryWorker
    BY <2>0, <2>2
       DEF RowType, WorkType, HeldOK, RetryWorker, ProcessRetries, RetriesDone, RetryNext,
           RetrySend, RetryRecord, UpdateDelivery, rows
  <2>3. CASE Tick \/ Crash \/ UNCHANGED vars
    BY <2>3 DEF Tick, Crash, vars, rows
  <2>4. QED
    BY <2>1, <2>2, <2>3 DEF Next
<1>2. QED
  BY <1>1, Invariance, PTL DEF Spec, TerminalIsFinal

(* A receiver is tried at most 1 + maxRetryAttempts times, plus once for    *)
(* every outcome lost before it was recorded.                               *)
THEOREM SendBound == Spec => []SendsAreBounded
<1>1. IInv => SendsAreBounded
  <2> SUFFICES ASSUME IInv, NEW d \in Delivery PROVE sent[d] <= 1 + MaxRetry + lapses[d]
    BY DEF SendsAreBounded
  <2>1. /\ RowType /\ WorkType /\ HistType /\ RowOK(d) /\ HeldOK(d) /\ CountOK(d)
    BY DEF IInv, TypeOK
  <2>2. attempts[d] + Uncounted(d) <= MaxRetry
    <3>1. /\ attempts[d] \in 0..MaxRetry
          /\ rpc = "record" /\ cur = d => attempts[d] < MaxRetry
      BY <2>1, Zenon DEF RowType, RowOK, HeldOK, Retriable
    <3> QED BY <3>1, ScheduleFacts, SMT DEF Uncounted
  <2>3. QED
    BY <2>1, <2>2, ScheduleFacts DEF RowType, HistType, CountOK, Uncounted
<1>2. QED
  BY <1>1, Invariance, PTL

(* 'delivered' means the receiver took it; 'dead' means the retries were    *)
(* spent, or the rule cannot run.                                           *)
THEOREM OutcomeSound == Spec => []OutcomeIsEarned
<1>1. IInv => OutcomeIsEarned
  <2> SUFFICES ASSUME IInv, NEW d \in Delivery
               PROVE  /\ status[d] = "delivered" => d \in accepted
                      /\ status[d] = "dead" => d \in Edited \/ sent[d] >= MaxRetry
    BY DEF OutcomeIsEarned
  <2>1. /\ RowType /\ HistType /\ OutcomeOK(d) /\ CountOK(d)
    BY DEF IInv, TypeOK
  <2>2. attempts[d] \in Nat /\ sent[d] \in Nat /\ MaxRetry \in Nat
    BY <2>1, ScheduleFacts, SMT DEF RowType, HistType
  <2>3. attempts[d] <= sent[d]
    BY <2>1, <2>2, SMT DEF CountOK, Uncounted
  <2>4. attempts[d] >= MaxRetry => sent[d] >= MaxRetry
    BY <2>2, <2>3, SMT
  <2>5. QED
    BY <2>1, <2>4, Zenon DEF OutcomeOK
<1>2. QED
  BY <1>1, Invariance, PTL

\* Dispatcher and retry worker keep to the row, for any number of deliveries, crashes
\* and failing statements.
THEOREM DeliveriesSound == Spec => []DeliverySound
<1>1. IInv => TypeOK
  BY DEF IInv
<1> QED BY <1>1, Invariance, StampExcludes, SendBound, OutcomeSound, PTL DEF DeliverySound

-----------------------------------------------------------------------------
(* RuleRunner.  What the handler still has to do, and what the tables hold. *)

USE Zenon

\* What the handler's script is made of.
RuleOp == [op : {"remove", "cancel", "start", "walk", "add"}, rule : Rule, ver : Nat]
OutsideOp == [op : {"outside"}, rules : SUBSET Rule]
AnyOp == RuleOp \cup OutsideOp

\* A cancel follows the removal of the rule's entry, and a start follows the cancel; a
\* rule that is to be added has no entry and the handle of its version.
Freed(i, o) ==
  IF i = 1 THEN entries[script[i].rule] = 0
  ELSE script[i - 1].op = o /\ script[i - 1].rule = script[i].rule

OpOK(i) ==
  /\ script[i].op = "cancel" => Freed(i, "remove")
  /\ script[i].op = "start" => i = Len(script) /\ Freed(i, "cancel")
  /\ script[i].op = "walk" => i = 1
  /\ script[i].op = "add" =>
       /\ i = Len(script) /\ (i = 1 \/ (i = 2 /\ script[1].op = "walk"))
       /\ entries[script[i].rule] = 0 /\ handles[script[i].rule] = script[i].ver
  /\ script[i].op \in {"start", "walk", "add"} => script[i].ver \in 1..Len(shape)

ScriptOK ==
  /\ script \in Seq(AnyOp)
  /\ \A i \in 1..Len(script) : OpOK(i)

\* The job of an entry is the one of the handle, and every job has its entry.
TablesOK ==
  /\ shape \in Seq(Variant) /\ Len(shape) <= MaxVersion
  /\ handles \in [Rule -> 0..Len(shape)] /\ entries \in [Rule -> 0..Len(shape)]
  /\ \A r \in Rule : entries[r] \in {0, handles[r]}
  /\ \A v \in cron : v # 0 /\ \E r \in Rule : entries[r] = v
  /\ ended \subseteq 1..Len(shape)

WalkOK(w, n) ==
  DOMAIN w = {"ver", "at", "seen"} /\ (w = NoWalk \/ w.ver \in 1..n)
WalksOK == DOMAIN walks = Slots /\ \A s \in Slots : WalkOK(walks[s], Len(shape))
WatchOK == DOMAIN watching = Versions /\ \A v \in Versions : watching[v] \subseteq Files
TasksOK ==
  \A k, l \in tasks : k # l => <<k.rule, k.file, k.stamp>> # <<l.rule, l.file, l.stamp>>

\* The inductive invariant.
RunInv ==
  /\ ScriptOK /\ TablesOK /\ WalksOK /\ WatchOK /\ TasksOK
  /\ process \in {"up", "stopping", "draining", "down"}

\* What CancelledAddsNothing says of one step.
AddsNothing == \A k \in tasks' \ tasks : ~Stopped(k.ver)

-----------------------------------------------------------------------------
(* Scripts.                                                                *)

LEMMA ScriptPops ==
  ASSUME ScriptOK, script # <<>>, script' = Tail(script)
  PROVE  /\ script' \in Seq(AnyOp) /\ Len(script) \in Nat /\ Len(script) >= 1
         /\ Len(script') = Len(script) - 1
         /\ \A i \in 1..Len(script') : i + 1 \in 1..Len(script) /\ script'[i] = script[i + 1]
         /\ Head(script) = script[1] /\ 1 \in 1..Len(script)
BY SMT DEF ScriptOK

\* The rest of the script when its head is done, whatever the head was.
LEMMA RestOK ==
  ASSUME ScriptOK, script # <<>>, script' = Tail(script), shape' = shape,
         Op.op \in {"remove", "cancel"} => entries'[Op.rule] = 0,
         NEW i \in 1..Len(script'),
         script'[i].op = "add" => /\ entries'[script'[i].rule] = entries[script'[i].rule]
                                  /\ handles'[script'[i].rule] = handles[script'[i].rule]
  PROVE  OpOK(i)'
<1>1. /\ Len(script) \in Nat /\ Len(script) >= 1 /\ Len(script') = Len(script) - 1
      /\ i + 1 \in 1..Len(script) /\ script'[i] = script[i + 1] /\ Op = script[1]
  BY ScriptPops DEF Op
<1>2. PICK j \in 1..Len(script) : j = i + 1
  BY <1>1
<1>3. /\ OpOK(j) /\ script'[i] = script[j] /\ j # 1 /\ j - 1 = i
      /\ i = Len(script') <=> j = Len(script)
      /\ i = 1 <=> j = 2
  <2>1. PICK m, n : m = Len(script) /\ n = Len(script')
    OBVIOUS
  <2>2. i \in 1..n /\ m \in Nat /\ n = m - 1 /\ j = i + 1
    BY <1>1, <1>2, <2>1
  <2>3. j # 1 /\ j - 1 = i /\ (i = n <=> j = m) /\ (i = 1 <=> j = 2)
    BY <2>2, SMT
  <2> QED BY <1>1, <1>2, <2>1, <2>3 DEF ScriptOK
<1>4. i # 1 => script'[i - 1] = script[i]
  <2>1. CASE i # 1
    <3>1. i - 1 \in 1..Len(script') /\ (i - 1) + 1 = i
      BY <2>1, <1>1, SMT
    <3> QED BY <3>1, ScriptPops
  <2> QED BY <2>1
<1>5. ASSUME NEW o \in {"remove", "cancel"}, Freed(j, o) PROVE Freed(i, o)'
  <2>1. script[i].op = o /\ script[i].rule = script[j].rule
    BY <1>3, <1>5 DEF Freed
  <2>2. CASE i = 1
    BY <2>1, <2>2, <1>1, <1>3 DEF Freed
  <2>3. CASE i # 1
    BY <2>1, <2>3, <1>3, <1>4 DEF Freed
  <2> QED BY <2>2, <2>3
<1>6. script'[i].op # "walk"
  BY <1>3 DEF OpOK
<1>7. script'[i].op = "add" =>
       /\ i = Len(script') /\ i = 1
       /\ entries'[script'[i].rule] = 0 /\ handles'[script'[i].rule] = script'[i].ver
  BY <1>3 DEF OpOK
<1>8. script'[i].op = "cancel" => Freed(i, "remove")'
  BY <1>3, <1>5 DEF OpOK
<1>9. script'[i].op = "start" => i = Len(script') /\ Freed(i, "cancel")'
  BY <1>3, <1>5 DEF OpOK
<1>10. script'[i].op \in {"start", "walk", "add"} => script'[i].ver \in 1..Len(shape')
  BY <1>3 DEF OpOK
<1> QED BY <1>6, <1>7, <1>8, <1>9, <1>10 DEF OpOK

\* Only a walk has an addition behind it.
LEMMA NoAddBehind ==
  ASSUME ScriptOK, script # <<>>, script' = Tail(script), Op.op # "walk",
         NEW i \in 1..Len(script')
  PROVE  script'[i].op # "add"
<1>1. /\ i + 1 \in 1..Len(script) /\ script'[i] = script[i + 1] /\ Op = script[1]
      /\ Len(script) \in Nat
  BY ScriptPops DEF Op
<1>2. PICK j \in 1..Len(script) : j = i + 1
  BY <1>1
<1>3. OpOK(j) /\ script'[i] = script[j] /\ j # 1
  BY <1>1, <1>2, SMT DEF ScriptOK
<1> QED BY <1>1, <1>3 DEF OpOK

LEMMA HeadRule ==
  ASSUME ScriptOK, NEW o \in {"remove", "cancel", "start", "walk", "add"}, NextOp(o)
  PROVE  /\ Op.rule \in Rule /\ script # <<>> /\ Op.op = o /\ Op = script[1] /\ OpOK(1)
         /\ Len(script) \in Nat /\ 1 \in 1..Len(script) /\ Op.ver \in Nat
<1>1. /\ script # <<>> /\ Op.op = o /\ Op = script[1] /\ Op \in AnyOp
      /\ Len(script) \in Nat /\ 1 \in 1..Len(script)
  BY SMT DEF ScriptOK, NextOp, Op
<1>2. Op \notin OutsideOp
  BY <1>1, SMT DEF OutsideOp, AnyOp
<1>3. Op.rule \in Rule /\ Op.ver \in Nat
  BY <1>1, <1>2, SMT DEF RuleOp, AnyOp
<1> QED BY <1>1, <1>3 DEF ScriptOK

LEMMA OpFields ==
  ASSUME NEW o \in {"remove", "cancel", "start", "walk", "add"}, NEW r \in Rule, NEW v \in Nat,
         NEW e, e = [op |-> o, rule |-> r, ver |-> v]
  PROVE  e \in AnyOp /\ e.op = o /\ e.rule = r /\ e.ver = v
BY SMT DEF RuleOp, AnyOp

LEMMA OutsideFields ==
  ASSUME NEW R \in SUBSET Rule, NEW e, e = [op |-> "outside", rules |-> R]
  PROVE  e \in AnyOp /\ e.op = "outside" /\ e.rules = R
BY SMT DEF OutsideOp, AnyOp

LEMMA InFront ==
  ASSUME NEW S, NEW e \in S, NEW q \in Seq(S)
  PROVE  <<e>> \o q \in Seq(S) /\ Len(<<e>> \o q) = Len(q) + 1
BY SMT

LEMMA EmptyScript ==
  ASSUME script' = <<>> PROVE ScriptOK'
<1>1. script' \in Seq(AnyOp) /\ 1..Len(script') = {}
  BY SMT
<1> QED BY <1>1 DEF ScriptOK

LEMMA OneOp ==
  ASSUME NEW a, a \in AnyOp, NEW t, t = <<>>, script' = <<a>> \o t,
         a.op \notin {"cancel", "start"},
         a.op = "add" => entries'[a.rule] = 0 /\ handles'[a.rule] = a.ver,
         a.op \in {"start", "walk", "add"} => a.ver \in 1..Len(shape')
  PROVE  ScriptOK'
<1>a. PICK q : q = <<a>> \o t
  OBVIOUS
<1>b. q \in Seq(AnyOp) /\ 1..Len(q) = {1} /\ q[1] = a /\ Len(q) = 1
  BY <1>a, SMT
<1>1. script' \in Seq(AnyOp) /\ 1..Len(script') = {1} /\ script'[1] = a /\ Len(script') = 1
  BY <1>a, <1>b
<1>2. OpOK(1)'
  BY <1>1 DEF OpOK
<1> QED BY <1>1, <1>2 DEF ScriptOK

LEMMA WalkAdd ==
  ASSUME NEW a, NEW b, a \in AnyOp, b \in AnyOp, NEW t, t = <<>>, script' = <<a, b>> \o t,
         a.op = "walk", b.op = "add", entries'[b.rule] = 0, handles'[b.rule] = b.ver,
         a.ver \in 1..Len(shape'), b.ver \in 1..Len(shape')
  PROVE  ScriptOK'
<1>a. PICK q : q = <<a, b>> \o t
  OBVIOUS
<1>b. q \in Seq(AnyOp) /\ 1..Len(q) = {1, 2} /\ Len(q) = 2 /\ q[1] = a /\ q[2] = b
  BY <1>a, SMT
<1>1. /\ script' \in Seq(AnyOp) /\ 1..Len(script') = {1, 2} /\ Len(script') = 2
      /\ script'[1] = a /\ script'[2] = b
  BY <1>a, <1>b
<1>2. OpOK(1)'
  BY <1>1 DEF OpOK
<1>3. OpOK(2)'
  BY <1>1 DEF OpOK
<1> QED BY <1>1, <1>2, <1>3 DEF ScriptOK

LEMMA StopOpsIs ==
  ASSUME NEW r \in Rule
  PROVE  \E a, b \in AnyOp :
           /\ StopOps(r) = <<a, b>> /\ a.op = "remove" /\ b.op = "cancel" /\ a.rule = r /\ b.rule = r
<1>1. PICK a : a = [op |-> "remove", rule |-> r, ver |-> 0]
  OBVIOUS
<1>2. PICK b : b = [op |-> "cancel", rule |-> r, ver |-> 0]
  OBVIOUS
<1>3. a \in AnyOp /\ a.op = "remove" /\ a.rule = r
  BY <1>1, SMT DEF RuleOp, AnyOp
<1>4. b \in AnyOp /\ b.op = "cancel" /\ b.rule = r
  BY <1>2, SMT DEF RuleOp, AnyOp
<1>5. StopOps(r) = <<a, b>>
  BY <1>1, <1>2 DEF StopOps
<1> QED BY <1>3, <1>4, <1>5

LEMMA StopScript ==
  ASSUME NEW r \in Rule, script' = StopOps(r) PROVE ScriptOK'
<1>1. PICK a, b \in AnyOp :
        /\ StopOps(r) = <<a, b>> /\ a.op = "remove" /\ b.op = "cancel" /\ a.rule = r /\ b.rule = r
  BY StopOpsIs
<1>2. /\ script' \in Seq(AnyOp) /\ 1..Len(script') = {1, 2} /\ Len(script') = 2
      /\ script'[1] = a /\ script'[2] = b /\ script'[2 - 1] = a /\ 2 # 1
  BY <1>1, SMT
<1>3. OpOK(1)'
  BY <1>1, <1>2 DEF OpOK
<1>4. OpOK(2)'
  BY <1>1, <1>2 DEF OpOK, Freed
<1> QED BY <1>2, <1>3, <1>4 DEF ScriptOK

\* The three operations of applyRule.
ApplyShape(s, r, v) ==
  /\ s \in Seq(AnyOp) /\ Len(s) = 3
  /\ s[1].op = "remove" /\ s[2].op = "cancel" /\ s[3].op = "start"
  /\ s[1].rule = r /\ s[2].rule = r /\ s[3].rule = r /\ s[3].ver = v

LEMMA ApplyOpsIs ==
  ASSUME NEW r \in Rule, NEW v \in Nat
  PROVE  ApplyShape(ApplyOps(r, v), r, v)
<1>1. PICK a, b \in AnyOp :
        /\ StopOps(r) = <<a, b>> /\ a.op = "remove" /\ b.op = "cancel" /\ a.rule = r /\ b.rule = r
  BY StopOpsIs
<1>2. PICK c : c = [op |-> "start", rule |-> r, ver |-> v]
  OBVIOUS
<1>3. c \in AnyOp /\ c.op = "start" /\ c.rule = r /\ c.ver = v
  BY <1>2, SMT DEF RuleOp, AnyOp
<1>4. PICK s : s = <<a, b>> \o <<c>>
  OBVIOUS
<1>5. s \in Seq(AnyOp) /\ Len(s) = 3 /\ s[1] = a /\ s[2] = b /\ s[3] = c
  BY <1>3, <1>4, SMT
<1>6. ApplyOps(r, v) = s
  BY <1>1, <1>2, <1>4 DEF ApplyOps
<1> QED BY <1>1, <1>3, <1>5, <1>6 DEF ApplyShape

LEMMA ApplyScript ==
  ASSUME NEW r, NEW v, v \in 1..Len(shape'), ApplyShape(script', r, v)
  PROVE  ScriptOK'
<1>1. /\ 1..Len(script') = {1, 2, 3} /\ Len(script') = 3
      /\ 2 - 1 = 1 /\ 2 # 1 /\ 3 - 1 = 2 /\ 3 # 1
  BY SMT DEF ApplyShape
<1>2. OpOK(1)'
  BY DEF OpOK, ApplyShape
<1>3. OpOK(2)'
  BY <1>1 DEF OpOK, Freed, ApplyShape
<1>4. OpOK(3)'
  BY <1>1 DEF OpOK, Freed, ApplyShape
<1> QED BY <1>1, <1>2, <1>3, <1>4 DEF ScriptOK, ApplyShape

LEMMA OutsideApplyScript ==
  ASSUME NEW r \in Rule, NEW v \in Nat, v \in 1..Len(shape'), NEW R \in SUBSET Rule,
         script' = StopEach(R) \o ApplyOps(r, v)
  PROVE  ScriptOK'
<1>1. PICK q : q = ApplyOps(r, v)
  OBVIOUS
<1>2. ApplyShape(q, r, v) /\ q \in Seq(AnyOp) /\ Len(q) = 3
  <2>1. ApplyShape(q, r, v)
    BY <1>1, ApplyOpsIs
  <2> QED BY <2>1 DEF ApplyShape
<1>3. CASE R = {}
  <2>1. script' = <<>> \o q
    BY <1>1, <1>3 DEF StopEach
  <2>2. script' = q
    BY <2>1, <1>2, SMT
  <2> QED BY <2>2, <1>2, ApplyScript
<1>4. CASE R # {}
  <2>1. PICK e : e = [op |-> "outside", rules |-> R]
    OBVIOUS
  <2>2. e \in AnyOp /\ e.op = "outside"
    BY <2>1, OutsideFields
  <2>3. script' = <<e>> \o q
    BY <1>1, <1>4, <2>1 DEF StopEach
  <2>4. script' \in Seq(AnyOp) /\ Len(script') = 4
    <3>1. <<e>> \o q \in Seq(AnyOp) /\ Len(<<e>> \o q) = Len(q) + 1
      BY <1>2, <2>2, InFront
    <3>2. script' \in Seq(AnyOp) /\ Len(script') = Len(q) + 1
      BY <3>1, <2>3
    <3> QED BY <3>2, <1>2, SMT
  <2>5. script'[1] = e /\ script'[2] = q[1] /\ script'[3] = q[2] /\ script'[4] = q[3]
    BY <1>2, <2>2, <2>3, SMT
  <2>6. 1..4 = {1, 2, 3, 4} /\ 3 - 1 = 2 /\ 3 # 1 /\ 4 - 1 = 3 /\ 4 # 1
    BY SMT
  <2>7. OpOK(1)'
    BY <2>2, <2>5 DEF OpOK
  <2>8. OpOK(2)'
    BY <1>2, <2>5 DEF OpOK, ApplyShape
  <2>9. OpOK(3)'
    BY <1>2, <2>5, <2>6 DEF OpOK, Freed, ApplyShape
  <2>10. OpOK(4)'
    BY <1>2, <2>4, <2>5, <2>6 DEF OpOK, Freed, ApplyShape
  <2> QED BY <2>4, <2>6, <2>7, <2>8, <2>9, <2>10 DEF ScriptOK
<1> QED BY <1>3, <1>4

\* The rules outside the set are still to stop: nothing that follows depends on them.
LEMMA OutsideScript ==
  ASSUME NEW R \in SUBSET Rule, script' = StopEach(R) PROVE ScriptOK'
<1>1. CASE R = {}
  BY <1>1, EmptyScript DEF StopEach
<1>2. CASE R # {}
  <2>1. PICK e : e = [op |-> "outside", rules |-> R]
    OBVIOUS
  <2>2. e \in AnyOp /\ e.op = "outside" /\ script' = <<e>>
    BY <1>2, <2>1, OutsideFields DEF StopEach
  <2>3. PICK q : q = <<e>>
    OBVIOUS
  <2>4. q \in Seq(AnyOp) /\ 1..Len(q) = {1} /\ q[1] = e
    BY <2>2, <2>3, SMT
  <2>5. OpOK(1)'
    BY <2>2, <2>3, <2>4 DEF OpOK
  <2> QED BY <2>2, <2>3, <2>4, <2>5 DEF ScriptOK
<1> QED BY <1>1, <1>2

\* What follows the loop over the rules outside the set stands alone.
LEMMA Prepended ==
  ASSUME ScriptOK, NextOp("outside"), NEW p \in Seq(AnyOp), script' = p \o Tail(script),
         shape' = shape, \A i \in 1..Len(p) : OpOK(i)'
  PROVE  ScriptOK'
<1>1. script \in Seq(AnyOp) /\ script # <<>> /\ script[1].op = "outside" /\ Len(p) \in Nat
      /\ Len(script) \in Nat
  BY SMT DEF ScriptOK, NextOp
<1>2. /\ script' \in Seq(AnyOp) /\ Len(script') = Len(p) + Len(script) - 1
      /\ \A i \in 1..Len(script') :
            i > Len(p) => i - Len(p) + 1 \in 2..Len(script) /\ script'[i] = script[i - Len(p) + 1]
  <2>1. PICK q, t : q = script /\ t = script'
    OBVIOUS
  <2>2. q \in Seq(AnyOp) /\ q # <<>> /\ t = p \o Tail(q)
    BY <1>1, <2>1
  <2>3. /\ t \in Seq(AnyOp) /\ Len(t) = Len(p) + Len(q) - 1
        /\ \A i \in 1..Len(t) :
              i > Len(p) => i - Len(p) + 1 \in 2..Len(q) /\ t[i] = q[i - Len(p) + 1]
    BY <2>2, SMT
  <2> QED BY <2>1, <2>3
<1>3. ASSUME NEW i \in 1..Len(script'), i > Len(p) PROVE OpOK(i)'
  <2>1. PICK j : j = i - Len(p) + 1
    OBVIOUS
  <2>2. j \in 2..Len(script) /\ script'[i] = script[j]
    BY <1>2, <1>3, <2>1
  <2>3. i \in Nat
    BY <1>3, SMT
  <2>5. j \in 1..Len(script) /\ j # 1
    BY <1>1, <2>2, SMT
  <2>6. OpOK(j)
    BY <2>5 DEF ScriptOK
  <2>7. ASSUME NEW o \in {"remove", "cancel"}, Freed(j, o) PROVE Freed(i, o)'
    <3>1. script[j - 1].op = o /\ script[j - 1].rule = script[j].rule
      BY <2>5, <2>7 DEF Freed
    <3>2. j # 2
      <4>1. j = 2 => j - 1 = 1
        BY SMT
      <4> QED BY <3>1, <4>1, <1>1
    <3>3. PICK k : k = i - 1
      OBVIOUS
    <3>4. k \in 1..Len(script') /\ k > Len(p) /\ i # 1 /\ k - Len(p) + 1 = j - 1
      BY <1>1, <1>2, <1>3, <2>1, <2>2, <2>3, <3>2, <3>3, SMT
    <3>5. script'[k] = script[j - 1]
      BY <3>4, <1>2
    <3> QED BY <2>2, <3>1, <3>3, <3>4, <3>5 DEF Freed
  <2>8. script'[i].op \notin {"walk", "add"}
    BY <1>1, <2>2, <2>5, <2>6 DEF OpOK
  <2>9. j = Len(script) => i = Len(script')
    <3>1. PICK m, n, l : m = Len(script) /\ n = Len(script') /\ l = Len(p)
      OBVIOUS
    <3>2. l \in Nat /\ m \in Nat /\ n = l + m - 1 /\ j = i - l + 1
      BY <1>1, <1>2, <2>1, <3>1
    <3>3. j = m => i = n
      BY <2>3, <3>2, SMT
    <3> QED BY <3>1, <3>3
  <2>10. script'[i].op = "cancel" => Freed(i, "remove")'
    BY <2>2, <2>6, <2>7 DEF OpOK
  <2>11. script'[i].op = "start" => i = Len(script') /\ Freed(i, "cancel")'
    BY <2>2, <2>6, <2>7, <2>9 DEF OpOK
  <2>12. script'[i].op \in {"start", "walk", "add"} => script'[i].ver \in 1..Len(shape')
    BY <2>2, <2>6 DEF OpOK
  <2> QED BY <2>8, <2>10, <2>11, <2>12 DEF OpOK
<1>4. ASSUME NEW i \in 1..Len(script') PROVE i \in 1..Len(p) \/ i > Len(p)
  BY <1>1, <1>4, SMT
<1> QED BY <1>2, <1>3, <1>4 DEF ScriptOK

LEMMA StopPrefix ==
  ASSUME NEW r \in Rule, NEW R \in SUBSET Rule
  PROVE  /\ StopOps(r) \o StopEach(R) \in Seq(AnyOp)
         /\ Len(StopOps(r) \o StopEach(R)) \in {2, 3}
         /\ (StopOps(r) \o StopEach(R))[1].op = "remove"
         /\ (StopOps(r) \o StopEach(R))[1].rule = r
         /\ (StopOps(r) \o StopEach(R))[2].op = "cancel"
         /\ (StopOps(r) \o StopEach(R))[2].rule = r
         /\ Len(StopOps(r) \o StopEach(R)) = 3 => (StopOps(r) \o StopEach(R))[3].op = "outside"
<1>1. PICK a, b \in AnyOp :
        /\ StopOps(r) = <<a, b>> /\ a.op = "remove" /\ b.op = "cancel" /\ a.rule = r /\ b.rule = r
  BY StopOpsIs
<1>2. PICK e : e = [op |-> "outside", rules |-> R]
  OBVIOUS
<1>3. e \in AnyOp /\ e.op = "outside"
  BY <1>2, OutsideFields
<1>4. PICK s : s = <<a, b>> \o StopEach(R)
  OBVIOUS
<1>5. CASE R = {}
  <2>1. s = <<a, b>> \o <<>>
    BY <1>4, <1>5 DEF StopEach
  <2>2. s \in Seq(AnyOp) /\ Len(s) = 2 /\ s[1] = a /\ s[2] = b /\ 2 # 3
    BY <2>1, SMT
  <2>3. s = StopOps(r) \o StopEach(R)
    BY <1>1, <1>4
  <2> QED BY <1>1, <2>2, <2>3
<1>6. CASE R # {}
  <2>1. s = <<a, b>> \o <<e>>
    BY <1>2, <1>4, <1>6 DEF StopEach
  <2>2. s \in Seq(AnyOp) /\ Len(s) = 3 /\ s[1] = a /\ s[2] = b /\ s[3] = e
    BY <2>1, <1>3, SMT
  <2>3. s = StopOps(r) \o StopEach(R)
    BY <1>1, <1>4
  <2> QED BY <1>1, <1>3, <2>2, <2>3
<1> QED BY <1>5, <1>6

LEMMA OutsideStep ==
  ASSUME ScriptOK, NextOp("outside"), shape' = shape, NEW r \in Rule, NEW R \in SUBSET Rule,
         script' = StopOps(r) \o StopEach(R) \o Tail(script)
  PROVE  ScriptOK'
<1>1. PICK p : p = StopOps(r) \o StopEach(R)
  OBVIOUS
<1>2. /\ p \in Seq(AnyOp) /\ Len(p) \in {2, 3} /\ p[1].op = "remove" /\ p[1].rule = r
      /\ p[2].op = "cancel" /\ p[2].rule = r /\ (Len(p) = 3 => p[3].op = "outside")
  BY <1>1, StopPrefix
<1>3. script' = p \o Tail(script)
  BY <1>1
<1>4. script \in Seq(AnyOp) /\ script # <<>>
  BY DEF ScriptOK, NextOp
<1>5. \A i \in 1..Len(p) : script'[i] = p[i]
  <2>1. PICK q, t : q = script /\ t = script'
    OBVIOUS
  <2>2. q \in Seq(AnyOp) /\ q # <<>> /\ t = p \o Tail(q)
    BY <1>3, <1>4, <2>1
  <2>3. \A i \in 1..Len(p) : t[i] = p[i]
    BY <1>2, <2>2, SMT
  <2> QED BY <2>1, <2>3
<1>6. 1 \in 1..Len(p) /\ 2 \in 1..Len(p) /\ 2 - 1 = 1 /\ 2 # 1
  BY <1>2, SMT
<1>7. OpOK(1)'
  BY <1>2, <1>5, <1>6 DEF OpOK
<1>8. OpOK(2)'
  BY <1>2, <1>5, <1>6 DEF OpOK, Freed
<1>9. ASSUME NEW i \in 1..Len(p) PROVE OpOK(i)'
  <2>1. PICK n : n = Len(p)
    OBVIOUS
  <2>2. n \in {2, 3} /\ i \in 1..n
    BY <1>2, <1>9, <2>1
  <2>3. i \in {1, 2} \/ (i = 3 /\ n = 3)
    BY <2>2, SMT
  <2>4. CASE i = 3 /\ Len(p) = 3
    BY <1>2, <1>5, <2>4 DEF OpOK
  <2> QED BY <2>1, <2>3, <2>4, <1>7, <1>8
<1> QED BY <1>2, <1>3, <1>9, Prepended

-----------------------------------------------------------------------------
(* What a step leaves alone.                                               *)

LEMMA ScriptSame ==
  ASSUME ScriptOK, UNCHANGED <<script, shape, handles, entries>> PROVE ScriptOK'
BY DEF ScriptOK, OpOK, Freed

LEMMA TablesSame ==
  ASSUME TablesOK, UNCHANGED <<shape, handles, entries, cron, ended>> PROVE TablesOK'
BY DEF TablesOK

LEMMA WalksSame ==
  ASSUME WalksOK, UNCHANGED <<shape, walks>> PROVE WalksOK'
BY DEF WalksOK

LEMMA WatchSame == ASSUME WatchOK, UNCHANGED watching PROVE WatchOK'
BY DEF WatchOK

LEMMA TasksSame == ASSUME TasksOK, UNCHANGED tasks PROVE TasksOK' /\ AddsNothing
BY DEF TasksOK, AddsNothing

LEMMA CronVersions ==
  ASSUME TablesOK, NEW v \in cron PROVE v \in 1..Len(shape)
<1>1. PICK r \in Rule : entries[r] = v /\ v # 0
  BY DEF TablesOK
<1>2. v \in 0..Len(shape) /\ Len(shape) \in Nat
  <2>1. entries[r] \in 0..Len(shape)
    BY DEF TablesOK
  <2>2. Len(shape) \in Nat
    BY SMT DEF TablesOK
  <2> QED BY <1>1, <2>1, <2>2
<1> QED BY <1>1, <1>2, SMT

\* One more version.
LEMMA ShapeGrows ==
  ASSUME RunInv, NEW x \in Variant, NextVersion \in Versions, shape' = Append(shape, x),
         UNCHANGED <<handles, entries, cron, ended, walks>>
  PROVE  /\ TablesOK' /\ WalksOK' /\ NextVersion \in Nat /\ NextVersion \in 1..Len(shape')
<1>1. shape \in Seq(Variant) /\ Len(shape) \in Nat
  BY SMT DEF RunInv, TablesOK
<1>2. /\ shape' \in Seq(Variant) /\ Len(shape') = Len(shape) + 1 /\ Len(shape') \in Nat
      /\ Len(shape') <= MaxVersion
      /\ NextVersion \in Nat /\ NextVersion \in 1..Len(shape')
  BY <1>1, RunAssumption, SMT DEF NextVersion, Versions
<1>3. 0..Len(shape) \subseteq 0..Len(shape') /\ 1..Len(shape) \subseteq 1..Len(shape')
  BY <1>1, <1>2, SMT
<1>4. handles \in [Rule -> 0..Len(shape')] /\ entries \in [Rule -> 0..Len(shape')]
  <2>1. handles \in [Rule -> 0..Len(shape)] /\ entries \in [Rule -> 0..Len(shape)]
    BY DEF RunInv, TablesOK
  <2> QED BY <2>1, <1>3
<1>5. TablesOK'
  BY <1>2, <1>3, <1>4 DEF RunInv, TablesOK
<1>6. WalksOK'
  BY <1>3 DEF RunInv, WalksOK, WalkOK
<1> QED BY <1>2, <1>5, <1>6

-----------------------------------------------------------------------------
(* Messages.                                                               *)

LEMMA PushRuleStep ==
  ASSUME RunInv, PushRule PROVE RunInv' /\ AddsNothing
<1>1. PICK x \in Variant : shape' = Append(shape, x) /\ script' = ApplyOps(x.rule, NextVersion)
  BY DEF PushRule
<1>2. /\ NextVersion \in Versions
      /\ UNCHANGED <<handles, entries, cron, ended, walks, loops, watching, stamp,
                     tasks, processed, uploaded, process>>
  BY DEF PushRule
<1>3. TablesOK' /\ WalksOK' /\ NextVersion \in Nat /\ NextVersion \in 1..Len(shape')
  BY <1>1, <1>2, ShapeGrows
<1>4. ScriptOK'
  <2>1. PICK r \in Rule, v \in Nat : r = x.rule /\ v = NextVersion
    BY <1>3, RunAssumption
  <2>2. ApplyShape(ApplyOps(r, v), r, v)
    BY <2>1, ApplyOpsIs
  <2>3. ApplyShape(script', r, v) /\ v \in 1..Len(shape')
    BY <1>1, <1>3, <2>1, <2>2
  <2> QED BY <2>3, ApplyScript
<1> QED BY <1>2, <1>3, <1>4, WatchSame, TasksSame DEF RunInv

LEMMA CancelRuleStep ==
  ASSUME RunInv, CancelRule PROVE RunInv' /\ AddsNothing
<1>1. PICK r \in Rule : script' = StopOps(r)
  BY DEF CancelRule
<1>2. UNCHANGED <<shape, handles, entries, cron, ended, walks, loops, watching,
                  stamp, tasks, processed, uploaded, process>>
  BY DEF CancelRule
<1> QED BY <1>1, <1>2, StopScript, TablesSame, WalksSame, WatchSame, TasksSame DEF RunInv

LEMMA RulesSyncStep ==
  ASSUME RunInv, RulesSync PROVE RunInv' /\ AddsNothing
<1>1. PICK held \in SUBSET Rule :
        \/ script' = StopEach(held) /\ UNCHANGED shape
        \/ /\ NextVersion \in Versions
           /\ \E x \in Variant :
                /\ shape' = Append(shape, x)
                /\ script' = StopEach(held \ {x.rule}) \o ApplyOps(x.rule, NextVersion)
  <2>1. {r \in Rule : handles[r] # 0} \in SUBSET Rule
    OBVIOUS
  <2> QED BY <2>1 DEF RulesSync
<1>2. UNCHANGED <<handles, entries, cron, ended, walks, loops, watching, stamp,
                  tasks, processed, uploaded, process>>
  BY DEF RulesSync
<1>3. CASE script' = StopEach(held) /\ UNCHANGED shape
  BY <1>2, <1>3, OutsideScript, TablesSame, WalksSame, WatchSame, TasksSame DEF RunInv
<1>4. ASSUME NextVersion \in Versions, NEW x \in Variant, shape' = Append(shape, x),
             script' = StopEach(held \ {x.rule}) \o ApplyOps(x.rule, NextVersion)
      PROVE  RunInv' /\ AddsNothing
  <2>1. TablesOK' /\ WalksOK' /\ NextVersion \in Nat /\ NextVersion \in 1..Len(shape')
    BY <1>2, <1>4, ShapeGrows
  <2>2. PICK r \in Rule, v \in Nat, R \in SUBSET Rule :
          r = x.rule /\ v = NextVersion /\ R = held \ {x.rule}
    BY <2>1, RunAssumption
  <2>3. script' = StopEach(R) \o ApplyOps(r, v) /\ v \in 1..Len(shape')
    BY <1>4, <2>1, <2>2
  <2>4. ScriptOK'
    BY <2>3, OutsideApplyScript
  <2> QED BY <1>2, <2>1, <2>4, WatchSame, TasksSame DEF RunInv
<1> QED BY <1>1, <1>3, <1>4

-----------------------------------------------------------------------------
(* The handler.                                                            *)

LEMMA StopOutsideStep ==
  ASSUME RunInv, StopOutside PROVE RunInv' /\ AddsNothing
<1>1. /\ NextOp("outside")
      /\ UNCHANGED <<shape, handles, entries, cron, ended, walks, loops, watching, stamp,
                     tasks, processed, uploaded, process>>
  BY DEF StopOutside
<1>2. Op \in AnyOp /\ Op.op = "outside"
  BY <1>1, SMT DEF RunInv, ScriptOK, NextOp, Op
<1>3. Op.rules \subseteq Rule
  BY <1>2, SMT DEF AnyOp, RuleOp, OutsideOp
<1>4. PICK r \in Op.rules : script' = StopOps(r) \o StopEach(Op.rules \ {r}) \o Tail(script)
  BY DEF StopOutside
<1>5. PICK R \in SUBSET Rule : R = Op.rules \ {r}
  BY <1>3
<1>6. r \in Rule /\ script' = StopOps(r) \o StopEach(R) \o Tail(script)
  BY <1>3, <1>4, <1>5
<1>7. ScriptOK'
  BY <1>1, <1>6, OutsideStep DEF RunInv
<1> QED BY <1>1, <1>7, TablesSame, WalksSame, WatchSame, TasksSame DEF RunInv

LEMMA ShapeLen ==
  ASSUME TablesOK PROVE Len(shape) \in Nat /\ 0 \in 0..Len(shape) /\ 1..Len(shape) \subseteq 0..Len(shape)
<1>1. Len(shape) \in Nat
  BY SMT DEF TablesOK
<1> QED BY <1>1, SMT

LEMMA RemoveRuleStep ==
  ASSUME RunInv, RemoveRule PROVE RunInv' /\ AddsNothing
<1>1. /\ NextOp("remove") /\ script' = Tail(script)
      /\ cron' = cron \ {entries[Op.rule]} /\ entries' = [entries EXCEPT ![Op.rule] = 0]
      /\ UNCHANGED <<shape, handles, ended, walks, loops, watching, stamp, tasks,
                     processed, uploaded, process>>
  BY DEF RemoveRule
<1>2. Op.rule \in Rule /\ script # <<>> /\ Op.op = "remove"
  BY <1>1, HeadRule DEF RunInv
<1>3. PICK r \in Rule : r = Op.rule
  BY <1>2
<1>4. /\ entries' \in [Rule -> 0..Len(shape)] /\ entries'[r] = 0
      /\ \A q \in Rule : q # r => entries'[q] = entries[q]
  BY <1>1, <1>3, ShapeLen DEF RunInv, TablesOK
<1>5. ASSUME NEW v \in cron' PROVE v # 0 /\ \E q \in Rule : entries'[q] = v
  <2>1. v \in cron /\ v # entries[r]
    BY <1>1, <1>3
  <2>2. PICK q \in Rule : entries[q] = v /\ v # 0
    BY <2>1 DEF RunInv, TablesOK
  <2> QED BY <2>1, <2>2, <1>4
<1>6. TablesOK'
  BY <1>1, <1>4, <1>5 DEF RunInv, TablesOK
<1>7. ASSUME NEW i \in 1..Len(script') PROVE OpOK(i)'
  <2>1. script'[i].op # "add"
    BY <1>1, <1>2, NoAddBehind DEF RunInv
  <2> QED BY <1>1, <1>2, <1>3, <1>4, <2>1, RestOK DEF RunInv
<1>8. ScriptOK'
  BY <1>1, <1>2, <1>7, ScriptPops DEF RunInv, ScriptOK
<1> QED BY <1>1, <1>6, <1>8, WalksSame, WatchSame, TasksSame DEF RunInv

LEMMA CancelHandleStep ==
  ASSUME RunInv, CancelHandle PROVE RunInv' /\ AddsNothing
<1>1. /\ NextOp("cancel") /\ script' = Tail(script)
      /\ ended' = ended \cup ({handles[Op.rule]} \ {0})
      /\ handles' = [handles EXCEPT ![Op.rule] = 0]
      /\ UNCHANGED <<shape, entries, cron, walks, loops, watching, stamp, tasks,
                     processed, uploaded, process>>
  BY DEF CancelHandle
<1>2. Op.rule \in Rule /\ script # <<>> /\ Op.op = "cancel" /\ Op = script[1] /\ OpOK(1)
  BY <1>1, HeadRule DEF RunInv
<1>3. PICK r \in Rule : r = Op.rule
  BY <1>2
<1>4. entries[r] = 0
  BY <1>2, <1>3 DEF OpOK, Freed
<1>5. /\ handles' \in [Rule -> 0..Len(shape)] /\ handles'[r] = 0
      /\ \A q \in Rule : q # r => handles'[q] = handles[q]
  BY <1>1, <1>3, ShapeLen DEF RunInv, TablesOK
<1>6. ended' \subseteq 1..Len(shape)
  <2>1. handles[r] \in 0..Len(shape) /\ Len(shape) \in Nat /\ ended \subseteq 1..Len(shape)
    BY ShapeLen DEF RunInv, TablesOK
  <2>2. handles[r] # 0 => handles[r] \in 1..Len(shape)
    BY <2>1, SMT
  <2> QED BY <1>1, <1>3, <2>1, <2>2
<1>7. TablesOK'
  <2>1. ASSUME NEW q \in Rule PROVE entries'[q] \in {0, handles'[q]}
    BY <1>1, <1>4, <1>5 DEF RunInv, TablesOK
  <2> QED BY <1>1, <1>5, <1>6, <2>1 DEF RunInv, TablesOK
<1>8. ASSUME NEW i \in 1..Len(script') PROVE OpOK(i)'
  <2>1. script'[i].op # "add"
    BY <1>1, <1>2, NoAddBehind DEF RunInv
  <2> QED BY <1>1, <1>2, <1>3, <1>4, <2>1, RestOK DEF RunInv
<1>9. ScriptOK'
  BY <1>1, <1>2, <1>8, ScriptPops DEF RunInv, ScriptOK
<1> QED BY <1>1, <1>7, <1>9, WalksSame, WatchSame, TasksSame DEF RunInv

LEMMA RunOnceEndsStep ==
  ASSUME RunInv, RunOnceEnds PROVE RunInv' /\ AddsNothing
<1>1. /\ NextOp("walk") /\ script' = Tail(script)
      /\ UNCHANGED <<shape, handles, entries, cron, ended, walks, loops, watching,
                     stamp, tasks, processed, uploaded, process>>
  BY DEF RunOnceEnds
<1>2. Op.rule \in Rule /\ script # <<>> /\ Op.op = "walk"
  BY <1>1, HeadRule DEF RunInv
<1>3. ASSUME NEW i \in 1..Len(script') PROVE OpOK(i)'
  BY <1>1, <1>2, RestOK DEF RunInv
<1>4. ScriptOK'
  BY <1>1, <1>2, <1>3, ScriptPops DEF RunInv, ScriptOK
<1> QED BY <1>1, <1>4, TablesSame, WalksSame, WatchSame, TasksSame DEF RunInv

LEMMA AddRuleStep ==
  ASSUME RunInv, AddRule PROVE RunInv' /\ AddsNothing
<1>1. /\ NextOp("add") /\ script' = Tail(script)
      /\ cron' \in {cron, cron \cup {Op.ver}}
      /\ \/ entries' = entries /\ cron' = cron
         \/ entries' = [entries EXCEPT ![Op.rule] = Op.ver]
      /\ UNCHANGED <<shape, handles, ended, walks, loops, watching, stamp, tasks,
                     processed, uploaded, process>>
  BY DEF AddRule
<1>2. Op.rule \in Rule /\ script # <<>> /\ Op.op = "add" /\ Op = script[1] /\ OpOK(1)
  BY <1>1, HeadRule DEF RunInv
<1>3. PICK r \in Rule : r = Op.rule
  BY <1>2
<1>4. PICK v \in 1..Len(shape) : v = Op.ver
  BY <1>2 DEF OpOK
<1>5. entries[r] = 0 /\ handles[r] = v /\ v \in 0..Len(shape) /\ v # 0
  <2>1. entries[r] = 0 /\ handles[r] = v
    BY <1>2, <1>3, <1>4 DEF OpOK
  <2> QED BY <2>1, <1>4, SMT
<1>7. TablesOK'
  <2>1. CASE entries' = entries /\ cron' = cron
    BY <1>1, <2>1, TablesSame DEF RunInv
  <2>2. CASE entries' = [entries EXCEPT ![r] = v]
    <3>1. /\ entries' \in [Rule -> 0..Len(shape)] /\ entries'[r] = v
          /\ \A q \in Rule : q # r => entries'[q] = entries[q]
      BY <2>2, <1>5 DEF RunInv, TablesOK
    <3>2. ASSUME NEW q \in Rule PROVE entries'[q] \in {0, handles'[q]}
      BY <1>1, <1>5, <3>1 DEF RunInv, TablesOK
    <3>3. ASSUME NEW u \in cron' PROVE u # 0 /\ \E q \in Rule : entries'[q] = u
      <4>1. CASE u = v
        BY <4>1, <1>5, <3>1
      <4>2. CASE u \in cron
        <5>1. PICK q \in Rule : entries[q] = u /\ u # 0
          BY <4>2 DEF RunInv, TablesOK
        <5> QED BY <5>1, <1>5, <3>1
      <4> QED BY <4>1, <4>2, <1>1, <1>4
    <3> QED BY <1>1, <3>1, <3>2, <3>3 DEF RunInv, TablesOK
  <2> QED BY <2>1, <2>2, <1>1, <1>3, <1>4
<1>8. ASSUME NEW i \in 1..Len(script') PROVE OpOK(i)'
  <2>1. script'[i].op # "add"
    BY <1>1, <1>2, NoAddBehind DEF RunInv
  <2> QED BY <1>1, <1>2, <2>1, RestOK DEF RunInv
<1>9. ScriptOK'
  BY <1>1, <1>2, <1>8, ScriptPops DEF RunInv, ScriptOK
<1> QED BY <1>1, <1>7, <1>9, WalksSame, WatchSame, TasksSame DEF RunInv

LEMMA WalkFields ==
  ASSUME NEW v PROVE DOMAIN WalkOf(v) = {"ver", "at", "seen"} /\ WalkOf(v).ver = v
BY SMT DEF WalkOf

LEMMA NoWalkFields == DOMAIN NoWalk = {"ver", "at", "seen"}
BY SMT DEF NoWalk

\* One slot changes.
LEMMA SlotStep ==
  ASSUME WalksOK, NEW s \in Slots, NEW w, WalkOK(w, Len(shape)), shape' = shape,
         walks' = [walks EXCEPT ![s] = w]
  PROVE  WalksOK'
BY DEF WalksOK

LEMMA StartRuleStep ==
  ASSUME RunInv, StartRule PROVE RunInv' /\ AddsNothing
<1>1. /\ NextOp("start")
      /\ UNCHANGED <<shape, entries, cron, stamp, tasks, processed, uploaded, process>>
  BY DEF StartRule
<1>2. Op.rule \in Rule /\ script # <<>> /\ Op.op = "start" /\ Op = script[1] /\ OpOK(1)
  BY <1>1, HeadRule DEF RunInv
<1>3. PICK r \in Rule, v \in 1..Len(shape) : r = Op.rule /\ v = Op.ver
  BY <1>2 DEF OpOK
<1>4. 1 = Len(script) /\ entries[r] = 0
  BY <1>2, <1>3 DEF OpOK, Freed
<1>5. PICK add, walk : /\ add = [op |-> "add", rule |-> r, ver |-> v]
                       /\ walk = [op |-> "walk", rule |-> r, ver |-> v]
  OBVIOUS
<1>6. /\ handles' \in {handles, [handles EXCEPT ![r] = v]}
      /\ watching' \in {watching, [watching EXCEPT ![v] = Files]}
      /\ ended' \in {ended, ended \cup {v}}
      /\ walks' \in {walks, [walks EXCEPT ![0] = WalkOf(v)]}
      /\ \/ script' = <<>> \o Tail(script)
         \/ handles' = [handles EXCEPT ![r] = v]
            /\ (script' = <<walk, add>> \o Tail(script) \/ script' = <<add>> \o Tail(script))
  BY <1>3, <1>5 DEF StartRule
<1>7. v \in 0..Len(shape) /\ v \in Nat /\ v \in Versions /\ 0 \in Slots
  <2>1. Len(shape) \in Nat /\ Len(shape) <= MaxVersion
    BY ShapeLen DEF RunInv, TablesOK
  <2> QED BY <2>1, RunAssumption, SMT DEF Versions, Slots
<1>8. /\ handles' \in [Rule -> 0..Len(shape)]
      /\ \A q \in Rule : q # r => handles'[q] = handles[q]
      /\ handles' = [handles EXCEPT ![r] = v] => handles'[r] = v
  <2>1. handles \in [Rule -> 0..Len(shape)]
    BY DEF RunInv, TablesOK
  <2>2. CASE handles' = handles /\ handles # [handles EXCEPT ![r] = v]
    BY <2>1, <2>2
  <2>3. CASE handles' = [handles EXCEPT ![r] = v]
    BY <2>1, <2>3, <1>7
  <2> QED BY <2>2, <2>3, <1>6
<1>9. TablesOK'
  <2>1. ASSUME NEW q \in Rule PROVE entries'[q] \in {0, handles'[q]}
    BY <1>1, <1>4, <1>8 DEF RunInv, TablesOK
  <2>2. ended' \subseteq 1..Len(shape)
    BY <1>3, <1>6 DEF RunInv, TablesOK
  <2> QED BY <1>1, <1>8, <2>1, <2>2 DEF RunInv, TablesOK
<1>10. WalksOK'
  <2>1. WalkOK(WalkOf(v), Len(shape))
    BY <1>3, WalkFields DEF WalkOK
  <2>2. CASE walks' = walks
    BY <1>1, <2>2, WalksSame DEF RunInv
  <2>3. CASE walks' = [walks EXCEPT ![0] = WalkOf(v)]
    BY <1>1, <1>7, <2>1, <2>3, SlotStep DEF RunInv
  <2> QED BY <1>6, <2>2, <2>3
<1>11. WatchOK'
  BY <1>6, <1>7 DEF RunInv, WatchOK
<1>12. ScriptOK'
  <2>1. PICK t : t = Tail(script)
    OBVIOUS
  <2>2. t = <<>>
    <3>1. script \in Seq(AnyOp)
      BY DEF RunInv, ScriptOK
    <3> QED BY <1>4, <2>1, <3>1, SMT
  <2>3. add \in AnyOp /\ add.op = "add" /\ add.rule = r /\ add.ver = v
    BY <1>5, <1>7, SMT DEF AnyOp, RuleOp
  <2>4. walk \in AnyOp /\ walk.op = "walk" /\ walk.rule = r /\ walk.ver = v
    BY <1>5, <1>7, SMT DEF AnyOp, RuleOp
  <2>5. CASE script' = <<>> \o Tail(script)
    <3>1. script' = <<>>
      BY <2>1, <2>2, <2>5, SMT
    <3> QED BY <3>1, EmptyScript
  <2>6. CASE handles' = [handles EXCEPT ![r] = v] /\ script' = <<add>> \o Tail(script)
    <3>1. script' = <<add>> \o t
      BY <2>1, <2>6
    <3>2. entries'[add.rule] = 0 /\ handles'[add.rule] = add.ver /\ add.ver \in 1..Len(shape')
      BY <1>1, <1>3, <1>4, <1>8, <2>3, <2>6
    <3> QED BY <2>2, <2>3, <3>1, <3>2, OneOp
  <2>7. CASE handles' = [handles EXCEPT ![r] = v] /\ script' = <<walk, add>> \o Tail(script)
    <3>1. script' = <<walk, add>> \o t
      BY <2>1, <2>7
    <3>2. entries'[add.rule] = 0 /\ handles'[add.rule] = add.ver /\ add.ver \in 1..Len(shape')
          /\ walk.ver \in 1..Len(shape')
      BY <1>1, <1>3, <1>4, <1>8, <2>3, <2>4, <2>7
    <3> QED BY <2>2, <2>3, <2>4, <3>1, <3>2, WalkAdd
  <2> QED BY <1>6, <2>5, <2>6, <2>7
<1> QED BY <1>1, <1>9, <1>10, <1>11, <1>12, TasksSame DEF RunInv

-----------------------------------------------------------------------------
(* Walks, watch loops, uploads and shutdown.                               *)

LEMMA FiresStep ==
  ASSUME RunInv, NEW v \in Versions, Fires(v) PROVE RunInv' /\ AddsNothing
<1>1. /\ v \in cron
      /\ UNCHANGED <<script, shape, handles, entries, cron, ended, loops, watching,
                     stamp, tasks, processed, uploaded, process>>
  BY DEF Fires
<1>2. PICK s \in Slots : walks' = [walks EXCEPT ![s] = WalkOf(v)]
  BY DEF Fires
<1>3. v \in 1..Len(shape)
  BY <1>1, CronVersions DEF RunInv
<1>4. WalkOK(WalkOf(v), Len(shape))
  BY <1>3, WalkFields DEF WalkOK
<1>5. WalksOK'
  BY <1>1, <1>2, <1>4, SlotStep DEF RunInv
<1> QED BY <1>1, <1>5, ScriptSame, TablesSame, WatchSame, TasksSame DEF RunInv

\* Moving on or reading the stamp keeps the walk's version.
LEMMA OnwardOK ==
  ASSUME NEW w, NEW n, WalkOK(w, n), w # NoWalk PROVE WalkOK(Onward(w), n)
<1>1. CASE w.at = NFile
  BY <1>1, NoWalkFields DEF WalkOK, Onward
<1>2. CASE w.at # NFile
  <2>1. Onward(w) = [w EXCEPT !.at = w.at + 1, !.seen = 0]
    BY <1>2 DEF Onward
  <2>2. DOMAIN Onward(w) = DOMAIN w /\ Onward(w).ver = w.ver
    BY <2>1, SMT DEF WalkOK
  <2> QED BY <2>2 DEF WalkOK
<1> QED BY <1>1, <1>2

LEMMA SeenOK ==
  ASSUME NEW w, NEW n, NEW t, WalkOK(w, n), w # NoWalk PROVE WalkOK([w EXCEPT !.seen = t], n)
<1>1. DOMAIN [w EXCEPT !.seen = t] = DOMAIN w /\ [w EXCEPT !.seen = t].ver = w.ver
  BY SMT DEF WalkOK
<1> QED BY <1>1 DEF WalkOK

LEMMA WalkChecksStep ==
  ASSUME RunInv, NEW s \in Slots, WalkChecks(s) PROVE RunInv' /\ AddsNothing
<1>1. UNCHANGED <<script, shape, handles, entries, cron, ended, loops, watching,
                  stamp, tasks, processed, uploaded, process>>
  BY DEF WalkChecks
<1>2. PICK w : w = walks[s]
  OBVIOUS
<1>3. WalkOK(w, Len(shape)) /\ w # NoWalk
  BY <1>2 DEF RunInv, WalksOK, WalkChecks
<1>4. PICK next : walks' = [walks EXCEPT ![s] = next]
                  /\ (next = Onward(w) \/ next = [w EXCEPT !.seen = stamp[w.at]])
  BY <1>2 DEF WalkChecks
<1>5. WalkOK(next, Len(shape))
  <2>1. PICK t, n : t = stamp[w.at] /\ n = Len(shape)
    OBVIOUS
  <2>2. WalkOK(Onward(w), n)
    BY <1>3, <2>1, OnwardOK
  <2>3. WalkOK([w EXCEPT !.seen = t], n)
    BY <1>3, <2>1, SeenOK
  <2> QED BY <1>4, <2>1, <2>2, <2>3
<1>6. WalksOK'
  BY <1>1, <1>4, <1>5, SlotStep DEF RunInv
<1> QED BY <1>1, <1>6, ScriptSame, TablesSame, WatchSame, TasksSame DEF RunInv

\* EnqueueIfNoActive adds one task at most: one of a version that runs, for a file that
\* has no other task with this stamp.
LEMMA EnqueueAdds ==
  ASSUME TasksOK, NEW v, NEW f, NEW t,
         tasks' = tasks \/ tasks' = EnqueueIfNoActive(v, f, t)
  PROVE  TasksOK' /\ AddsNothing
<1>1. CASE tasks' = tasks
  BY <1>1, TasksSame
<1>2. CASE tasks' # tasks
  <2>1. PICK e : e = [rule |-> shape[v].rule, file |-> f, stamp |-> t, ver |-> v]
    OBVIOUS
  <2>2. e.rule = shape[v].rule /\ e.file = f /\ e.stamp = t /\ e.ver = v
    BY <2>1, SMT
  <2>3. /\ ~Stopped(v) /\ tasks' = tasks \cup {e}
        /\ ~ \E k \in tasks : k.rule = shape[v].rule /\ k.file = f /\ k.stamp = t
    BY <1>2, <2>1 DEF EnqueueIfNoActive
  <2>4. ASSUME NEW k \in tasks, k # e
        PROVE  <<k.rule, k.file, k.stamp>> # <<e.rule, e.file, e.stamp>>
    <3>1. ~(k.rule = e.rule /\ k.file = e.file /\ k.stamp = e.stamp)
      BY <2>2, <2>3
    <3> QED BY <3>1, SMT
  <2>5. TasksOK'
    BY <2>3, <2>4 DEF TasksOK
  <2>6. AddsNothing
    BY <2>2, <2>3 DEF AddsNothing
  <2> QED BY <2>5, <2>6
<1> QED BY <1>1, <1>2

LEMMA WalkSubmitsStep ==
  ASSUME RunInv, NEW s \in Slots, WalkSubmits(s) PROVE RunInv' /\ AddsNothing
<1>1. UNCHANGED <<script, shape, handles, entries, cron, ended, loops, watching,
                  stamp, processed, uploaded, process>>
  BY DEF WalkSubmits
<1>2. PICK w : w = walks[s]
  OBVIOUS
<1>3. WalkOK(w, Len(shape)) /\ w # NoWalk
  BY <1>2 DEF RunInv, WalksOK, WalkSubmits
<1>4. tasks' = EnqueueIfNoActive(w.ver, w.at, w.seen) /\ walks' = [walks EXCEPT ![s] = Onward(w)]
  BY <1>2 DEF WalkSubmits
<1>5. WalksOK'
  BY <1>1, <1>3, <1>4, OnwardOK, SlotStep DEF RunInv
<1>6. TasksOK' /\ AddsNothing
  <2>1. PICK v, f, t : v = w.ver /\ f = w.at /\ t = w.seen
    OBVIOUS
  <2>2. tasks' = EnqueueIfNoActive(v, f, t) /\ TasksOK
    BY <1>4, <2>1 DEF RunInv
  <2> QED BY <2>2, EnqueueAdds
<1> QED BY <1>1, <1>5, <1>6, ScriptSame, TablesSame, WatchSame DEF RunInv

LEMMA WatchSubmitsStep ==
  ASSUME RunInv, NEW v \in Versions, NEW f \in Files, WatchSubmits(v, f)
  PROVE  RunInv' /\ AddsNothing
<1>1. /\ UNCHANGED <<script, shape, handles, entries, cron, ended, walks, loops, stamp,
                     processed, uploaded, process>>
      /\ watching' = [watching EXCEPT ![v] = watching[v] \ {f}]
      /\ tasks' = tasks \/ tasks' = EnqueueIfNoActive(v, f, stamp[f])
  BY DEF WatchSubmits
<1>2. WatchOK'
  BY <1>1 DEF RunInv, WatchOK
<1>3. TasksOK' /\ AddsNothing
  <2>1. PICK t : t = stamp[f]
    OBVIOUS
  <2>2. (tasks' = tasks \/ tasks' = EnqueueIfNoActive(v, f, t)) /\ TasksOK
    BY <1>1, <2>1 DEF RunInv
  <2> QED BY <2>2, EnqueueAdds
<1> QED BY <1>1, <1>2, <1>3, ScriptSame, TablesSame, WalksSame DEF RunInv

LEMMA WatchEndsStep ==
  ASSUME RunInv, NEW v \in Versions, WatchEnds(v) PROVE RunInv' /\ AddsNothing
<1>1. /\ UNCHANGED <<script, shape, handles, entries, cron, ended, walks, stamp,
                     tasks, processed, uploaded, process>>
      /\ watching' = [watching EXCEPT ![v] = {}]
  BY DEF WatchEnds
<1>2. WatchOK'
  BY <1>1 DEF RunInv, WatchOK
<1> QED BY <1>1, <1>2, ScriptSame, TablesSame, WalksSame, TasksSame DEF RunInv

LEMMA RewriteStep ==
  ASSUME RunInv, NEW f \in Files, Rewrite(f) PROVE RunInv' /\ AddsNothing
<1>1. /\ UNCHANGED <<script, shape, handles, entries, cron, ended, walks,
                     loops, tasks, processed, uploaded, process>>
      /\ watching' = [v \in Versions |->
                        IF v \in loops THEN watching[v] \cup {f} ELSE watching[v]]
  BY DEF Rewrite
<1>2. WatchOK'
  BY <1>1 DEF RunInv, WatchOK
<1> QED BY <1>1, <1>2, ScriptSame, TablesSame, WalksSame, TasksSame DEF RunInv

LEMMA CompleteStep ==
  ASSUME RunInv, Complete PROVE RunInv' /\ AddsNothing
<1>1. /\ UNCHANGED <<script, shape, handles, entries, cron, ended, walks,
                     loops, watching, stamp, process>>
      /\ tasks' \subseteq tasks
  BY DEF Complete
<1>2. TasksOK' /\ AddsNothing
  BY <1>1 DEF RunInv, TasksOK, AddsNothing
<1> QED BY <1>1, <1>2, ScriptSame, TablesSame, WalksSame, WatchSame DEF RunInv

LEMMA ShutdownStep ==
  ASSUME RunInv, Terminate \/ StopScheduler \/ Exit PROVE RunInv' /\ AddsNothing
<1>1. /\ UNCHANGED <<script, shape, handles, entries, cron, ended, walks,
                     loops, watching, stamp, tasks, processed, uploaded>>
      /\ process' \in {"stopping", "draining", "down"}
  BY DEF Terminate, StopScheduler, Exit
<1> QED BY <1>1, ScriptSame, TablesSame, WalksSame, WatchSame, TasksSame DEF RunInv

-----------------------------------------------------------------------------
(* The theorem.                                                            *)

LEMMA RunInitInv ==
  ASSUME RunInit PROVE RunInv
<1>1. script \in Seq(AnyOp) /\ 1..Len(script) = {} /\ shape \in Seq(Variant) /\ Len(shape) = 0
  BY SMT DEF RunInit
<1>2. ScriptOK
  BY <1>1 DEF ScriptOK
<1>3. 0 \in 0..Len(shape) /\ Len(shape) <= MaxVersion
  BY <1>1, RunAssumption, SMT
<1>4. TablesOK
  BY <1>1, <1>3 DEF RunInit, TablesOK
<1>5. WalksOK
  BY NoWalkFields DEF RunInit, WalksOK, WalkOK
<1>6. WatchOK /\ TasksOK
  BY DEF RunInit, WatchOK, TasksOK
<1> QED BY <1>2, <1>4, <1>5, <1>6 DEF RunInit, RunInv

LEMMA RunStep ==
  ASSUME RunInv, [RunNext]_runVars PROVE RunInv' /\ AddsNothing
<1>1. CASE UNCHANGED runVars
  BY <1>1, ScriptSame, TablesSame, WalksSame, WatchSame, TasksSame DEF RunInv, runVars
<1>2. CASE PushRule \/ CancelRule \/ RulesSync
  BY <1>2, PushRuleStep, CancelRuleStep, RulesSyncStep
<1>3. CASE CommandHandler
  BY <1>3, StopOutsideStep, RemoveRuleStep, CancelHandleStep, StartRuleStep,
     RunOnceEndsStep, AddRuleStep DEF CommandHandler
<1>4. CASE \E v \in Versions : Fires(v) \/ WatchEnds(v)
  BY <1>4, FiresStep, WatchEndsStep
<1>5. CASE \E s \in Slots : WalkChecks(s) \/ WalkSubmits(s)
  BY <1>5, WalkChecksStep, WalkSubmitsStep
<1>6. CASE \E v \in Versions, f \in Files : WatchSubmits(v, f)
  BY <1>6, WatchSubmitsStep
<1>7. CASE \E f \in Files : Rewrite(f)
  BY <1>7, RewriteStep
<1>8. CASE Complete \/ Terminate \/ StopScheduler \/ Exit
  BY <1>8, CompleteStep, ShutdownStep
<1> QED BY <1>1, <1>2, <1>3, <1>4, <1>5, <1>6, <1>7, <1>8 DEF RunNext

LEMMA RunInvIsSafe ==
  ASSUME RunInv PROVE RunTypeOK /\ NoLeakedJob
<1>1. Applied = 1..Len(shape)
  BY SMT DEF RunInv, TablesOK, Applied
<1>2. cron \subseteq 1..Len(shape)
  BY CronVersions DEF RunInv
<1>3. RunTypeOK
  BY <1>1, <1>2 DEF RunInv, TablesOK, WalksOK, WalkOK, WatchOK, TasksOK, RunTypeOK
<1>4. ASSUME NEW v \in cron PROVE v \in {handles[r] : r \in Rule}
  BY <1>4 DEF RunInv, TablesOK
<1>5. NoLeakedJob
  BY <1>4 DEF RunInv, TablesOK, NoLeakedJob
<1> QED BY <1>3, <1>5

\* The safety half of RuleStops: applyRule, stopRule and applyRulesSnapshot leave no job
\* of a replaced or deleted rule in the scheduler, and once a version's context is
\* cancelled no walk or watch loop still running for it adds a task to the queue; for
\* any rules, versions, files and overlapping walks.
THEOREM RulesStopCleanly == RunSpec => []RunTypeOK /\ []NoLeakedJob /\ CancelledAddsNothing
<1>1. RunInit => RunInv
  BY RunInitInv
<1>2. RunInv /\ [RunNext]_runVars => RunInv' /\ AddsNothing
  BY RunStep
<1>3. RunInv => RunTypeOK /\ NoLeakedJob
  BY RunInvIsSafe
<1>4. AddsNothing => [\A k \in tasks' \ tasks : ~Stopped(k.ver)]_runVars
  BY DEF AddsNothing
<1> QED BY <1>1, <1>2, <1>3, <1>4, PTL DEF RunSpec, CancelledAddsNothing
=============================================================================
