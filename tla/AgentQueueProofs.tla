-------------------------- MODULE AgentQueueProofs --------------------------
(***************************************************************************)
(* Proofs about AgentQueue, for any number of tasks, paths, versions,      *)
(* upload identifiers, crashes and failing statements: first type          *)
(* correctness, for any number of workers, then what the queue promises to *)
(* an agent that runs one upload worker (upload.concurrency = 1).  With    *)
(* two workers the selects of DequeuePending race and SingleOwner does not *)
(* hold.                                                                   *)
(***************************************************************************)
EXTENDS AgentQueue, TLAPS

\* Most leaves are first-order: Zenon takes them unless they name another prover.
USE Zenon

\* Typing of the initial values of the records.
LEMMA Defaults ==
  /\ Somewhere \in Path
  /\ IdleWorker \in WorkerType
  /\ IdleProd \in ProdType
  /\ AbsentRow \in RowType
<1>1. Somewhere \in Path
  BY SetsAssumption DEF Somewhere
<1>2. 0 \in 0..NTask /\ 0 \in 0..MaxVer
  BY SizesAssumption, SMT
<1>3. IdleWorker \in WorkerType
  BY <1>2 DEF IdleWorker, WorkerType, Pcs
<1>4. IdleProd \in ProdType
  BY <1>1, <1>2 DEF IdleProd, ProdType
<1>5. AbsentRow \in RowType
  BY <1>1, <1>2 DEF AbsentRow, RowType, Statuses
<1> QED BY <1>1, <1>3, <1>4, <1>5

\* The parts of TypeOK that need more than a look at the action.
RowsOK == row \in [Task -> RowType]
WorkersOK ==
  /\ worker \in [Worker -> WorkerType]
  /\ \A w \in Worker : worker[w].pc # "idle" => worker[w].id \in Task
TimersOK == timers \in SUBSET TimerType
ProdOK == prod \in ProdType

\* What TypeOK says about the fields of one row, worker or timer.
LEMMA Fields ==
  ASSUME TypeOK
  PROVE  /\ RowsOK /\ WorkersOK /\ TimersOK /\ ProdOK
         /\ \A t \in Task : /\ row[t].path \in Path /\ row[t].ver \in 0..MaxVer
                            /\ row[t].upload \in Upload \cup {NoUpload}
                            /\ row[t].pver \in 0..MaxVer /\ row[t].retry \in Nat
         /\ \A w \in Worker : /\ worker[w].upload \in Upload \cup {NoUpload}
                              /\ worker[w].retry \in Nat /\ worker[w].stat \in 0..MaxVer
         /\ \A tm \in timers : tm.task \in Task /\ tm.upload \in Upload \cup {NoUpload}
         /\ prod.path \in Path /\ prod.ver \in 0..MaxVer
         /\ \A p \in Path : file[p] \in 0..MaxVer
<1>1. RowsOK /\ WorkersOK /\ TimersOK /\ ProdOK
  BY DEF TypeOK, RowsOK, WorkersOK, TimersOK, ProdOK
<1>2. \A t \in Task : row[t] \in RowType
  BY <1>1 DEF RowsOK
<1>3. \A w \in Worker : worker[w] \in WorkerType
  BY <1>1 DEF WorkersOK
<1>4. \A tm \in timers : tm \in TimerType
  BY <1>1 DEF TimersOK
<1>5. \A p \in Path : file[p] \in 0..MaxVer
  BY SMT DEF TypeOK, Ver
<1> QED BY <1>1, <1>2, <1>3, <1>4, <1>5
        DEF RowType, WorkerType, TimerType, ProdType, ProdOK

\* The updates of one row that the statements of queue.go make.
LEMMA RowStatus ==
  ASSUME RowsOK, NEW t \in Task, NEW s \in Statuses \cup {"gone"}
  PROVE  [row EXCEPT ![t].status = s] \in [Task -> RowType]
BY SMT DEF RowsOK, RowType

LEMMA RowUpload ==
  ASSUME RowsOK, NEW t \in Task, NEW u \in Upload \cup {NoUpload}, NEW v \in 0..MaxVer
  PROVE  [row EXCEPT ![t].upload = u, ![t].pver = v] \in [Task -> RowType]
<1> DEFINE q == [row[t] EXCEPT !.upload = u, !.pver = v]
<1>1. row[t] \in RowType
  BY DEF RowsOK
<1>2. q \in RowType
  BY <1>1 DEF RowType
<1>3. [row EXCEPT ![t].upload = u, ![t].pver = v] = [row EXCEPT ![t] = q]
  BY <1>1 DEF RowsOK, RowType
<1> QED BY <1>2, <1>3 DEF RowsOK

LEMMA RowFailed ==
  ASSUME RowsOK, NEW t \in Task, NEW n \in {"zero", "scheduled", "never"}
  PROVE  [row EXCEPT ![t].status = "failed", ![t].next = n, ![t].retry = @ + 1]
           \in [Task -> RowType]
<1> DEFINE q == [row[t] EXCEPT !.status = "failed", !.next = n, !.retry = @ + 1]
<1>1. row[t] \in RowType
  BY DEF RowsOK
<1>2. row[t].retry + 1 \in Nat
  BY <1>1, SMT DEF RowType
<1>3. q \in RowType
  BY <1>1, <1>2 DEF RowType, Statuses
<1>4. [row EXCEPT ![t].status = "failed", ![t].next = n, ![t].retry = @ + 1]
        = [row EXCEPT ![t] = q]
  BY <1>1 DEF RowsOK, RowType
<1> QED BY <1>3, <1>4 DEF RowsOK

\* The updates of one worker.
LEMMA WorkerSet ==
  ASSUME WorkersOK, NEW w \in Worker, NEW q \in WorkerType,
         q.pc # "idle" => q.id \in Task, worker' = [worker EXCEPT ![w] = q]
  PROVE  WorkersOK'
BY DEF WorkersOK

LEMMA WorkerFinish ==
  ASSUME WorkersOK, NEW w \in Worker, Finish(w)
  PROVE  WorkersOK'
<1>1. IdleWorker.pc = "idle"
  BY DEF IdleWorker
<1> QED BY <1>1, Defaults, WorkerSet DEF Finish

LEMMA WorkerGoto ==
  ASSUME WorkersOK, NEW w \in Worker, worker[w].pc # "idle", NEW c \in Pcs, Goto(w, c)
  PROVE  WorkersOK'
BY DEF WorkersOK, WorkerType, Goto

LEMMA WorkerFail ==
  ASSUME WorkersOK, NEW w \in Worker, worker[w].pc # "idle", NEW b \in BOOLEAN,
         FailWith(w, b)
  PROVE  WorkersOK'
<1> DEFINE q == [worker[w] EXCEPT !.pc = "fail", !.terminal = b]
<1>1. worker[w] \in WorkerType /\ worker[w].id \in Task
  BY DEF WorkersOK
<1>2. q \in WorkerType
  BY <1>1 DEF WorkerType, Pcs
<1>3. worker' = [worker EXCEPT ![w] = q]
  BY <1>1 DEF WorkerType, FailWith
<1>4. q.id \in Task
  BY <1>1 DEF WorkerType
<1> QED BY <1>2, <1>3, <1>4, WorkerSet

LEMMA WorkerUpload ==
  ASSUME WorkersOK, NEW w \in Worker, worker[w].pc # "idle", NEW c \in Pcs,
         NEW u \in Upload \cup {NoUpload},
         worker' = [worker EXCEPT ![w].upload = u, ![w].pc = c]
  PROVE  WorkersOK'
<1> DEFINE q == [worker[w] EXCEPT !.upload = u, !.pc = c]
<1>1. worker[w] \in WorkerType /\ worker[w].id \in Task
  BY DEF WorkersOK
<1>2. q \in WorkerType
  BY <1>1 DEF WorkerType
<1>3. worker' = [worker EXCEPT ![w] = q]
  BY <1>1 DEF WorkerType
<1>4. q.id \in Task
  BY <1>1 DEF WorkerType
<1> QED BY <1>2, <1>3, <1>4, WorkerSet

LEMMA WorkerStat ==
  ASSUME WorkersOK, NEW w \in Worker, worker[w].pc # "idle", NEW c \in Pcs,
         NEW v \in 0..MaxVer, worker' = [worker EXCEPT ![w].stat = v, ![w].pc = c]
  PROVE  WorkersOK'
<1> DEFINE q == [worker[w] EXCEPT !.stat = v, !.pc = c]
<1>1. worker[w] \in WorkerType /\ worker[w].id \in Task
  BY DEF WorkersOK
<1>2. q \in WorkerType
  BY <1>1 DEF WorkerType
<1>3. worker' = [worker EXCEPT ![w] = q]
  BY <1>1 DEF WorkerType
<1>4. q.id \in Task
  BY <1>1 DEF WorkerType
<1> QED BY <1>2, <1>3, <1>4, WorkerSet

LEMMA WorkerUnwind ==
  ASSUME WorkersOK, NEW w \in Worker, UnwindInitiation(w)
  PROVE  WorkersOK'
<1> DEFINE q == [worker[w] EXCEPT !.upload = NoUpload, !.pc = "fail", !.terminal = FALSE]
<1>1. worker[w] \in WorkerType /\ worker[w].id \in Task
  BY DEF WorkersOK, UnwindInitiation, At
<1>2. q \in WorkerType
  BY <1>1 DEF WorkerType, Pcs
<1>3. worker' = [worker EXCEPT ![w] = q]
  BY <1>1 DEF WorkerType, UnwindInitiation
<1>4. q.id \in Task
  BY <1>1 DEF WorkerType
<1> QED BY <1>2, <1>3, <1>4, WorkerSet

LEMMA FaultsStep ==
  ASSUME TypeOK, DBOk \/ DBFails
  PROVE  faults' \in 0..MaxFaults
BY SizesAssumption, SMT DEF TypeOK, DBOk, DBFails

LEMMA IdsType == ASSUME NEW u \in Upload \cup {NoUpload} PROVE Ids(u) \subseteq Upload
BY DEF Ids

\* Every step keeps every variable in its type.
LEMMA TypeStep == TypeOK /\ [Next]_vars => TypeOK'
<1> SUFFICES ASSUME TypeOK, [Next]_vars PROVE TypeOK'
  OBVIOUS
<1>0. RowsOK /\ WorkersOK /\ TimersOK /\ ProdOK
  BY Fields
<1>1. ASSUME NEW p \in Path, Detect(p) PROVE TypeOK'
  <2>1. file[p] \in 0..MaxVer
    BY <1>0, <1>1, SMT DEF TypeOK, Ver
  <2>2. ProdOK'
    BY <1>0, <1>1, <2>1, Defaults DEF Detect, ProdOK, ProdType, IdleProd
  <2> QED BY <1>1, <2>1, <2>2
     DEF TypeOK, ProdOK, Detect, durable, store
<1>2. CASE EnqueueIfNoActive
  <2>1. [AbsentRow EXCEPT !.status = "pending", !.path = prod.path, !.ver = prod.ver]
          \in RowType
    BY <1>0, <1>2, Fields, Defaults DEF RowType, Statuses
  <2>2. RowsOK'
    BY <1>0, <1>2, <2>1 DEF EnqueueIfNoActive, RowsOK
  <2>3. \A t \in Task : [prod EXCEPT !.pc = "trim", !.id = t] \in ProdType
    <3>1. \A t \in Task : t \in 0..NTask
      BY SizesAssumption, SMT DEF Task
    <3> QED BY <1>0, <3>1 DEF ProdOK, ProdType
  <2>4. ProdOK'
    BY <1>0, <1>2, <2>3, Defaults DEF EnqueueIfNoActive, ProdOK
  <2> QED BY <1>2, <2>1, <2>2, <2>3, <2>4
     DEF TypeOK, RowsOK, ProdOK, EnqueueIfNoActive, store, DBOk
<1>3. CASE EnqueueFails
  BY <1>3, Defaults, SizesAssumption, SMT DEF TypeOK, EnqueueFails, durable, store, DBFails
<1>4. CASE DeleteOldestEvictable
  <2>1. RowsOK'
    BY <1>0, <1>4, RowStatus, SMT DEF DeleteOldestEvictable, RowsOK
  <2> QED BY <1>4, <2>1, Fields, SMT
     DEF TypeOK, RowsOK, DeleteOldestEvictable, store, EvictionRecord, Ids
<1>5. CASE EnforceCapacityDone
  BY <1>5, Defaults, SizesAssumption, SMT DEF TypeOK, EnforceCapacityDone, durable, store, DBOk, DBFails
<1>6. ASSUME NEW w \in Worker, Select(w) PROVE TypeOK'
  <2>1. PICK t \in Task : worker' = [worker EXCEPT ![w] = [IdleWorker EXCEPT
                       !.pc = "selected", !.id = t, !.retry = row[t].retry,
                       !.upload = row[t].upload, !.pver = row[t].pver]]
    BY <1>6 DEF Select
  <2> DEFINE q == [IdleWorker EXCEPT !.pc = "selected", !.id = t,
                     !.retry = row[t].retry, !.upload = row[t].upload,
                     !.pver = row[t].pver]
  <2>2. q \in WorkerType
    <3>1. t \in 0..NTask /\ "selected" \in Pcs
      BY SizesAssumption, SMT DEF Task, Pcs
    <3>2. /\ row[t].retry \in Nat /\ row[t].pver \in 0..MaxVer
          /\ row[t].upload \in Upload \cup {NoUpload}
      BY Fields
    <3> QED BY <3>1, <3>2, Defaults DEF WorkerType
  <2>3. q.id = t
    BY DEF IdleWorker
  <2>4. WorkersOK'
    BY <1>0, <2>1, <2>2, <2>3, WorkerSet
  <2> QED BY <1>6, <2>4 DEF TypeOK, WorkersOK, Select, durable, store
<1>7. ASSUME NEW w \in Worker, MarkRunning(w) PROVE TypeOK'
  <2>1. worker[w].pc # "idle" /\ worker[w].id \in Task
    BY <1>0, <1>7 DEF WorkersOK, MarkRunning, At
  <2>2. "taken" \in Pcs
    BY <1>0, <1>7 DEF Pcs
  <2>3. WorkersOK'
    BY <1>0, <1>7, <2>1, <2>2, WorkerGoto, WorkerFinish DEF MarkRunning
  <2>4. "running" \in Statuses
    BY <1>0, <1>7 DEF Statuses
  <2>5. RowsOK'
    BY <1>0, <1>7, <2>1, <2>4, RowStatus, SMT DEF MarkRunning, RowsOK
  <2>6. faults' \in 0..MaxFaults
    BY <1>7, FaultsStep DEF MarkRunning
  <2> QED BY <1>7, <2>3, <2>5, <2>6
     DEF TypeOK, RowsOK, WorkersOK, MarkRunning, store
<1>8. ASSUME NEW w \in Worker, CheckDedup(w) PROVE TypeOK'
  <2>1. worker[w].pc # "idle" /\ worker[w].id \in Task
    BY <1>0, <1>8 DEF WorkersOK, CheckDedup, At
  <2>2. "dedup" \in Pcs /\ "upload" \in Pcs
    BY <1>0, <1>8, SMTT(30) DEF Pcs
  <2>3. WorkersOK'
    BY <1>0, <1>8, <2>1, <2>2, WorkerGoto, WorkerFail DEF CheckDedup
  <2>4. faults' \in 0..MaxFaults
    BY <1>8, FaultsStep DEF CheckDedup
  <2> QED BY SMTT(30), <1>8, <2>3, <2>4
     DEF TypeOK, WorkersOK, CheckDedup, durable, store
<1>9. ASSUME NEW w \in Worker, DedupComplete(w) PROVE TypeOK'
  <2>1. worker[w].pc # "idle" /\ worker[w].id \in Task
    BY <1>0, <1>9 DEF WorkersOK, DedupComplete, At
  <2>2. "abandonDone" \in Pcs
    BY <1>0, <1>9 DEF Pcs
  <2>3. WorkersOK'
    BY <1>0, <1>9, <2>1, <2>2, WorkerGoto, WorkerFinish, WorkerFail DEF DedupComplete
  <2>4. "completed" \in Statuses
    BY <1>0, <1>9 DEF Statuses
  <2>5. RowsOK'
    <3>1. [row EXCEPT ![worker[w].id].status = "completed"] \in [Task -> RowType]
      BY <1>0, <2>1, <2>4, RowStatus
    <3> QED BY <1>0, <1>9, <3>1 DEF DedupComplete, RowsOK
  <2>6. outbox' \in SUBSET Upload
    <3>1. Ids(worker[w].upload) \subseteq Upload
      BY Fields, IdsType
    <3> QED BY <1>9, <3>1 DEF DedupComplete, TypeOK
  <2>7. faults' \in 0..MaxFaults
    BY <1>9, FaultsStep DEF DedupComplete
  <2> QED BY <1>9, <2>3, <2>5, <2>6, <2>7
     DEF TypeOK, RowsOK, WorkersOK, DedupComplete, store
<1>10. ASSUME NEW w \in Worker, AbandonTaskUpload(w) PROVE TypeOK'
  <2>1. worker[w].pc # "idle" /\ worker[w].id \in Task
    BY <1>0, <1>10 DEF WorkersOK, AbandonTaskUpload, At
  <2>2. "reportFail" \in Pcs
    BY <1>0, <1>10 DEF Pcs
  <2>3. WorkersOK'
    BY <1>0, <1>10, <2>1, <2>2, WorkerGoto, WorkerFinish DEF AbandonTaskUpload
  <2>4. outbox' \in SUBSET Upload
    <3>1. Ids(worker[w].upload) \subseteq Upload
      BY Fields, IdsType
    <3> QED BY <1>10, <3>1 DEF AbandonTaskUpload, TypeOK
  <2>5. faults' \in 0..MaxFaults
    BY <1>10, FaultsStep DEF AbandonTaskUpload
  <2> QED BY <1>10, <2>3, <2>4, <2>5
     DEF TypeOK, WorkersOK, AbandonTaskUpload, store
<1>11. ASSUME NEW w \in Worker, PersistResult(w) PROVE TypeOK'
  <2>1. worker[w].pc # "idle" /\ worker[w].id \in Task
    BY <1>0, <1>11 DEF WorkersOK, PersistResult, At
  <2>2. WorkersOK'
    BY <1>0, <1>11, <2>1, WorkerFinish DEF PersistResult
  <2>3. "reported" \in Statuses
    BY <1>0, <1>11 DEF Statuses
  <2>4. RowsOK'
    BY <1>0, <1>11, <2>1, <2>3, RowStatus, SMT DEF PersistResult, RowsOK
  <2> QED BY <1>11, <2>1, <2>2, <2>3, <2>4, SizesAssumption, SMT
     DEF TypeOK, RowsOK, WorkersOK, PersistResult, store, DBOk, DBFails
<1>12. ASSUME NEW w \in Worker, UploadFile(w) PROVE TypeOK'
  <2>1. worker[w].pc # "idle" /\ worker[w].id \in Task
    BY <1>0, <1>12 DEF WorkersOK, UploadFile, At
  <2>2. file[row[worker[w].id].path] \in 0..MaxVer
    BY <2>1, Fields
  <2>3. PICK c \in Pcs :
          worker' = [worker EXCEPT ![w].stat = file[row[worker[w].id].path], ![w].pc = c]
    BY <1>12, ZenonT(40) DEF UploadFile, Pcs
  <2>4. WorkersOK'
    BY <1>0, <2>1, <2>2, <2>3, WorkerStat
  <2> QED BY <1>12, <2>4, ZenonT(40) DEF TypeOK, WorkersOK, UploadFile, durable, store
<1>13. ASSUME NEW w \in Worker, AttemptFails(w) PROVE TypeOK'
  <2>1. worker[w].pc # "idle" /\ worker[w].id \in Task
    BY <1>0, <1>13 DEF WorkersOK, AttemptFails, UploadPcs
  <2>2. WorkersOK'
    BY <1>0, <1>13, <2>1, WorkerFail DEF AttemptFails
  <2> QED BY <1>13, <2>1, <2>2
     DEF TypeOK, WorkersOK, AttemptFails, durable, store
<1>14. ASSUME NEW w \in Worker, DiscardStaleUpload(w) PROVE TypeOK'
  <2>1. worker[w].pc # "idle" /\ worker[w].id \in Task
    BY <1>0, <1>14 DEF WorkersOK, DiscardStaleUpload, At
  <2>2. "init" \in Pcs /\ "put" \in Pcs
    BY <1>0, <1>14 DEF Pcs
  <2>3. WorkersOK'
    BY <1>0, <1>14, <2>1, <2>2, WorkerUpload, WorkerFail DEF DiscardStaleUpload
  <2>4. outbox' \in SUBSET Upload
    <3>1. Ids(worker[w].upload) \subseteq Upload
      BY Fields, IdsType
    <3> QED BY <1>14, <3>1 DEF DiscardStaleUpload, TypeOK
  <2>5. faults' \in 0..MaxFaults
    BY <1>14, FaultsStep DEF DiscardStaleUpload
  <2> QED BY <1>14, <2>3, <2>4, <2>5
     DEF TypeOK, WorkersOK, DiscardStaleUpload, store
<1>15. ASSUME NEW w \in Worker, ResumeUpload(w) PROVE TypeOK'
  <2>1. worker[w].pc # "idle" /\ worker[w].id \in Task
    BY <1>0, <1>15 DEF WorkersOK, ResumeUpload, At
  <2>2. "parts" \in Pcs /\ "discard" \in Pcs /\ "init" \in Pcs
    BY <1>0, <1>15 DEF Pcs
  <2>3. WorkersOK'
    BY <1>0, <1>15, <2>1, <2>2, WorkerGoto DEF ResumeUpload
  <2> QED BY <1>15, <2>1, <2>2, <2>3
     DEF TypeOK, WorkersOK, ResumeUpload, durable, store
<1>16. ASSUME NEW w \in Worker, NewMultipartUpload(w) PROVE TypeOK'
  <2>1. worker[w].pc # "idle" /\ worker[w].id \in Task
    BY <1>0, <1>16 DEF WorkersOK, NewMultipartUpload, At
  <2>2. "persist" \in Pcs
    BY <1>0, <1>16 DEF Pcs
  <2>3. WorkersOK'
    BY <1>0, <1>16, <2>1, <2>2, WorkerUpload DEF NewMultipartUpload
  <2> QED BY <1>16, <2>1, <2>2, <2>3
     DEF TypeOK, WorkersOK, NewMultipartUpload, durable
<1>17. ASSUME NEW w \in Worker, PersistInitiation(w) PROVE TypeOK'
  <2>1. worker[w].pc # "idle" /\ worker[w].id \in Task
    BY <1>0, <1>17 DEF WorkersOK, PersistInitiation, At
  <2>2. "parts" \in Pcs /\ "unwind" \in Pcs
    BY <1>0, <1>17 DEF Pcs
  <2>3. WorkersOK'
    BY <1>0, <1>17, <2>1, <2>2, WorkerGoto DEF PersistInitiation
  <2>4. RowsOK'
    <3>1. [row EXCEPT ![worker[w].id].upload = worker[w].upload,
                      ![worker[w].id].pver = worker[w].stat] \in [Task -> RowType]
      BY <1>0, <2>1, RowUpload, Fields
    <3> QED BY <1>0, <1>17, <3>1 DEF PersistInitiation, RowsOK
  <2> QED BY <1>17, <2>1, <2>2, <2>3, <2>4, SizesAssumption, SMT
     DEF TypeOK, RowsOK, WorkersOK, PersistInitiation, store, DBOk, DBFails
<1>18. ASSUME NEW w \in Worker, UnwindInitiation(w) PROVE TypeOK'
  <2>1. WorkersOK'
    BY <1>0, <1>18, WorkerUnwind
  <2>2. live' \in SUBSET Upload /\ leaked' \in SUBSET Upload
    <3>1. Ids(worker[w].upload) \subseteq Upload
      BY Fields, IdsType
    <3> QED BY <1>18, <3>1 DEF UnwindInitiation, TypeOK
  <2> QED BY <1>18, <2>1, <2>2
     DEF TypeOK, WorkersOK, UnwindInitiation, durable
<1>19. ASSUME NEW w \in Worker, SavePart(w) PROVE TypeOK'
  <2>1. worker[w].pc # "idle" /\ worker[w].id \in Task
    BY <1>0, <1>19 DEF WorkersOK, SavePart, At
  <2>2. RowsOK'
    BY <1>0, <1>19, <2>1, RowUpload, Fields DEF SavePart, RowsOK
  <2> QED BY <1>19, <2>1, <2>2
     DEF TypeOK, RowsOK, SavePart, store
<1>20. ASSUME NEW w \in Worker, StoreObject(w) PROVE TypeOK'
  <2>1. worker[w].pc # "idle" /\ worker[w].id \in Task
    BY <1>0, <1>20 DEF WorkersOK, StoreObject, At
  <2>2. "report" \in Pcs
    BY <1>0, <1>20 DEF Pcs
  <2>3. WorkersOK'
    BY <1>0, <1>20, <2>1, <2>2, WorkerGoto, WorkerFail, ZenonT(40) DEF StoreObject
  <2> QED BY ZenonT(40), <1>20, <2>1, <2>2, <2>3, Fields
     DEF TypeOK, WorkersOK, StoreObject, durable
<1>21. ASSUME NEW w \in Worker, MarkFailedAbandoned(w) PROVE TypeOK'
  <2>1. worker[w].pc # "idle" /\ worker[w].id \in Task
    BY <1>0, <1>21 DEF WorkersOK, MarkFailedAbandoned, At
  <2>2. "abandon" \in Pcs /\ "backoff" \in Pcs
    BY <1>0, <1>21 DEF Pcs
  <2>3. WorkersOK'
    BY <1>0, <1>21, <2>1, <2>2, WorkerGoto DEF MarkFailedAbandoned
  <2>4. RowsOK'
    <3>1. [row EXCEPT ![worker[w].id].status = "failed", ![worker[w].id].next = "never",
                      ![worker[w].id].retry = @ + 1] \in [Task -> RowType]
      BY <1>0, <2>1, RowFailed
    <3> QED BY <1>0, <1>21, <3>1 DEF MarkFailedAbandoned, RowsOK
  <2>5. outbox' \in SUBSET Upload
    <3>1. Ids(worker[w].upload) \subseteq Upload
      BY Fields, IdsType
    <3> QED BY <1>21, <3>1, SMTT(30) DEF MarkFailedAbandoned, TypeOK, AbandonRecord
  <2>6. faults' \in 0..MaxFaults
    BY <1>21, FaultsStep, SMTT(30) DEF MarkFailedAbandoned
  <2> QED BY <1>21, <2>3, <2>4, <2>5, <2>6
     DEF TypeOK, RowsOK, WorkersOK, MarkFailedAbandoned, store
<1>22. ASSUME NEW w \in Worker, ScheduleRetry(w) PROVE TypeOK'
  <2>1. worker[w].pc # "idle" /\ worker[w].id \in Task
    BY <1>0, <1>22, SMTT(30) DEF WorkersOK, ScheduleRetry, At
  <2>2. WorkersOK'
    BY <1>0, <1>22, WorkerFinish, SMTT(30) DEF ScheduleRetry
  <2>3. RowsOK'
    <3>1. [row EXCEPT ![worker[w].id].status = "failed",
                      ![worker[w].id].next = "scheduled",
                      ![worker[w].id].retry = @ + 1] \in [Task -> RowType]
      BY ZenonT(40), <1>0, <2>1, RowFailed
    <3> QED BY <1>0, <1>22, <3>1 DEF ScheduleRetry, RowsOK
  <2>4. TimersOK'
    <3>1. [task |-> worker[w].id, upload |-> worker[w].upload,
           retry |-> worker[w].retry, by |-> w] \in TimerType
      BY <2>1, Fields DEF TimerType
    <3> QED BY <1>0, <1>22, <3>1 DEF ScheduleRetry, TimersOK
  <2> QED BY <1>22, <2>1, <2>2, <2>3, <2>4, SizesAssumption, SMT
     DEF TypeOK, RowsOK, WorkersOK, TimersOK, ScheduleRetry, store, DBOk, DBFails
<1>23. ASSUME NEW tm \in timers, TimerFires(tm) PROVE TypeOK'
  <2>1. tm.task \in Task
    BY <1>0, <1>23, Fields
  <2>2. RowsOK'
    <3>1. "pending" \in Statuses
      BY DEF Statuses
    <3>2. [row EXCEPT ![tm.task].status = "pending"] \in [Task -> RowType]
      BY <1>0, <2>1, <3>1, RowStatus
    <3> QED BY <1>0, <1>23, <3>2 DEF TimerFires, RequeueStatus, RowsOK
  <2> QED BY <1>23, <2>1, <2>2, Fields, SizesAssumption, SMT
     DEF TypeOK, RowsOK, TimerFires, DBOk, DBFails, Ids, store
<1>24. ASSUME NEW u \in Upload, AbortUpload(u) PROVE TypeOK'
  BY <1>24 DEF TypeOK, AbortUpload, durable
<1>25. ASSUME NEW u \in Upload, DeleteMultipartAbort(u) PROVE TypeOK'
  BY <1>25 DEF TypeOK, DeleteMultipartAbort, store
<1>26. ASSUME NEW t \in Task, SendReport(t) PROVE TypeOK'
  BY <1>26 DEF TypeOK, SendReport, durable, store
<1>27. ASSUME NEW t \in Task, HandleAcknowledgement(t) PROVE TypeOK'
  <2>1. RowsOK'
    BY <1>0, <1>27, RowStatus DEF HandleAcknowledgement, AckedStatus, Statuses, RowsOK
  <2> QED BY <1>27, <2>1, Fields
     DEF TypeOK, RowsOK, HandleAcknowledgement, ProcessedVersion, store
<1>28. ASSUME NEW p \in Path, Modify(p) PROVE TypeOK'
  BY <1>28, SizesAssumption, SMT DEF TypeOK, Modify, durable, store, Ver
<1>29. CASE Crash
  <2>1. IdleWorker.pc = "idle"
    BY <1>0, <1>29 DEF IdleWorker
  <2>2. WorkersOK'
    BY <1>0, <1>29, <2>1, Defaults DEF Crash, WorkersOK
  <2>3. crashes' \in 0..MaxCrashes
    BY <1>29, SizesAssumption, SMT DEF Crash, TypeOK
  <2>4. leaked' \in SUBSET Upload /\ timers' \in SUBSET TimerType
    BY <1>29 DEF Crash, TypeOK
  <2> QED BY <1>29, <2>2, <2>3, <2>4, Defaults
     DEF TypeOK, WorkersOK, Crash, durable, store
<1>30. CASE Start
  <2>1. PICK due \in SUBSET Scheduled :
       /\ row' = [t \in Task |->
            CASE t \in Interrupted ->
                   [row[t] EXCEPT !.status = "pending", !.ver = file[row[t].path]]
              [] t \in due -> [row[t] EXCEPT !.status = "pending"]
              [] OTHER -> row[t]]
       /\ timers' = {[task |-> t, upload |-> NoUpload, retry |-> row[t].retry,
                      by |-> "startup"] : t \in NotYetDue(due)}
    BY <1>30 DEF Start
  <2>2. ASSUME NEW t \in Task
        PROVE  /\ [row[t] EXCEPT !.status = "pending", !.ver = file[row[t].path]] \in RowType
               /\ [row[t] EXCEPT !.status = "pending"] \in RowType
               /\ row[t] \in RowType
    <3>1. row[t] \in RowType /\ file[row[t].path] \in 0..MaxVer
      BY <1>0, Fields DEF RowsOK
    <3> QED BY <3>1 DEF RowType, Statuses
  <2>3. RowsOK'
    BY <2>1, <2>2 DEF RowsOK
  <2>4. TimersOK'
    <3>1. \A t \in Task : [task |-> t, upload |-> NoUpload, retry |-> row[t].retry,
                           by |-> "startup"] \in TimerType
      BY Fields DEF TimerType
    <3>2. NotYetDue(due) \subseteq Task
      BY DEF NotYetDue, Scheduled
    <3> QED BY <2>1, <3>1, <3>2 DEF TimersOK
  <2>5. outbox' \in SUBSET Upload
    <3>1. {row[t].upload : t \in {s \in Task : Recoverable(s) /\ row[s].next = "zero"}}
            \subseteq Upload \cup {NoUpload}
      BY Fields
    <3> QED BY <1>30, <3>1 DEF TypeOK, Start
  <2> QED BY <1>30, <2>3, <2>4, <2>5 DEF TypeOK, RowsOK, TimersOK, Start, store
<1>31. CASE UNCHANGED vars
  BY <1>31 DEF TypeOK, vars
<1> QED BY <1>1, <1>2, <1>3, <1>4, <1>5, <1>6, <1>7, <1>8, <1>9, <1>10, <1>11, <1>12, <1>13, <1>14, <1>15, <1>16, <1>17, <1>18, <1>19, <1>20, <1>21, <1>22, <1>23, <1>24, <1>25, <1>26, <1>27, <1>28, <1>29, <1>30, <1>31
       DEF Next, ProducerStep, WorkerStep

LEMMA TypeInit == Init => TypeOK
<1> SUFFICES ASSUME Init PROVE TypeOK
  OBVIOUS
<1>1. PICK legacy \in [Legacy -> Upload \cup {NoUpload}] :
        /\ row = [t \in Task |->
                    IF t \in Legacy
                    THEN [AbsentRow EXCEPT !.status = "failed", !.ver = 1,
                                           !.retry = 1, !.upload = legacy[t]]
                    ELSE AbsentRow]
        /\ used = {legacy[t] : t \in Legacy} \ {NoUpload}
  BY DEF Init
<1>2. \A t \in Legacy : [AbsentRow EXCEPT !.status = "failed", !.ver = 1, !.retry = 1,
                                          !.upload = legacy[t]] \in RowType
  <2>1. 1 \in 0..MaxVer /\ 1 \in Nat /\ "failed" \in Statuses
    BY SizesAssumption, SMT DEF Statuses
  <2>2. \A t \in Legacy : legacy[t] \in Upload \cup {NoUpload}
    BY <1>1
  <2> QED BY <2>1, <2>2, Defaults DEF RowType
<1>3. row \in [Task -> RowType]
  BY <1>1, <1>2, Defaults
<1>4. used \in SUBSET Upload
  BY <1>1
<1>5. worker \in [Worker -> WorkerType]
      /\ \A w \in Worker : worker[w].pc # "idle" => worker[w].id \in Task
  BY Defaults DEF Init, IdleWorker
<1>6. 0 \in 0..MaxVer /\ 1 \in Ver /\ 0 \in 0..MaxCrashes /\ 0 \in 0..MaxFaults
  BY SizesAssumption, SMT DEF Ver
<1> QED BY <1>3, <1>4, <1>5, <1>6, Defaults DEF Init, TypeOK

\* The agent's rows, outboxes and workers keep their types in every behaviour.
THEOREM TypeCorrect == Spec => []TypeOK
<1>1. TypeOK /\ [Next]_vars => TypeOK'
  BY TypeStep
<1> QED BY <1>1, TypeInit, PTL DEF Spec

\* The steps that touch neither upload_tasks nor upload_reports.
LEMMA RowsUntouched ==
  ASSUME \/ \E p \in Path : Detect(p) \/ Modify(p)
         \/ EnqueueFails \/ EnforceCapacityDone \/ Crash
         \/ \E w \in Worker :
              \/ Select(w) \/ CheckDedup(w) \/ AbandonTaskUpload(w) \/ UploadFile(w)
              \/ AttemptFails(w) \/ DiscardStaleUpload(w) \/ ResumeUpload(w)
              \/ NewMultipartUpload(w) \/ UnwindInitiation(w) \/ StoreObject(w)
         \/ \E u \in Upload : AbortUpload(u) \/ DeleteMultipartAbort(u)
         \/ \E t \in Task : SendReport(t)
         \/ UNCHANGED vars
  PROVE  UNCHANGED <<row, report>>
BY ZenonT(40) DEF Detect, Modify, EnqueueFails, EnforceCapacityDone, Crash, Select, CheckDedup,
       AbandonTaskUpload, UploadFile, AttemptFails, DiscardStaleUpload, ResumeUpload,
       NewMultipartUpload, UnwindInitiation, StoreObject, AbortUpload,
       DeleteMultipartAbort, SendReport, durable, vars

\* A step that changes rows without making one reported keeps the reports.
LEMMA ReportKept ==
  ASSUME ReportedHasReport, UNCHANGED report,
         \A t \in Task : row'[t].status = "reported" => row[t].status = "reported"
  PROVE  ReportedHasReport'
BY DEF ReportedHasReport

LEMMA ReportStep == TypeOK /\ ReportedHasReport /\ [Next]_vars => ReportedHasReport'
<1> SUFFICES ASSUME TypeOK, ReportedHasReport, [Next]_vars PROVE ReportedHasReport'
  OBVIOUS
<1>0. RowsOK
  BY Fields
<1>1. CASE EnqueueIfNoActive
  <2>1. CASE UNCHANGED row
    BY <1>1, <2>1, ReportKept DEF EnqueueIfNoActive
  <2>2. ASSUME NEW new \in Task,
               row' = [row EXCEPT ![new] = [AbsentRow EXCEPT
                       !.status = "pending", !.path = prod.path, !.ver = prod.ver]]
        PROVE  ReportedHasReport'
    <3>1. row'[new].status = "pending"
      BY <1>0, <2>2 DEF RowsOK, AbsentRow
    <3>2. \A t \in Task \ {new} : row'[t] = row[t]
      BY <1>0, <2>2 DEF RowsOK
    <3> QED BY <1>1, <3>1, <3>2, ReportKept DEF EnqueueIfNoActive
  <2> QED BY <1>1, <2>1, <2>2 DEF EnqueueIfNoActive
<1>2. CASE DeleteOldestEvictable
  BY <1>0, <1>2, ReportKept DEF DeleteOldestEvictable, RowsOK, RowType
<1>3. ASSUME NEW w \in Worker, MarkRunning(w) PROVE ReportedHasReport'
  BY <1>0, <1>3, ReportKept DEF MarkRunning, RowsOK, RowType
<1>4. ASSUME NEW w \in Worker, DedupComplete(w) PROVE ReportedHasReport'
  BY <1>0, <1>4, ReportKept, ZenonT(40) DEF DedupComplete, RowsOK, RowType
<1>5. ASSUME NEW w \in Worker, PersistResult(w) PROVE ReportedHasReport'
  BY <1>0, <1>5, SMT DEF PersistResult, RowsOK, RowType, ReportedHasReport, TypeOK
<1>6. ASSUME NEW w \in Worker, PersistInitiation(w) PROVE ReportedHasReport'
  BY <1>0, <1>6, ReportKept, SMT DEF PersistInitiation, RowsOK, RowType
<1>7. ASSUME NEW w \in Worker, SavePart(w) PROVE ReportedHasReport'
  BY <1>0, <1>7, ReportKept, ZenonT(40) DEF SavePart, RowsOK, RowType
<1>8. ASSUME NEW w \in Worker, MarkFailedAbandoned(w) PROVE ReportedHasReport'
  <2>1. UNCHANGED report
    BY <1>8 DEF MarkFailedAbandoned
  <2>2. \/ row' = row
        \/ row' = [row EXCEPT ![worker[w].id].status = "failed",
                             ![worker[w].id].next = "never", ![worker[w].id].retry = @ + 1]
    BY <1>8 DEF MarkFailedAbandoned
  <2>3. \A t \in Task : row'[t].status \in {"failed", row[t].status}
    BY <1>0, <2>2, SMT DEF RowsOK, RowType
  <2> QED BY <2>1, <2>3, ReportKept
<1>9. ASSUME NEW w \in Worker, ScheduleRetry(w) PROVE ReportedHasReport'
  <2>1. UNCHANGED report
    BY <1>9 DEF ScheduleRetry
  <2>2. \/ row' = row
        \/ row' = [row EXCEPT ![worker[w].id].status = "failed",
                             ![worker[w].id].next = "scheduled", ![worker[w].id].retry = @ + 1]
    BY <1>9 DEF ScheduleRetry
  <2>3. \A t \in Task : row'[t].status \in {"failed", row[t].status}
    BY <1>0, <2>2, SMT DEF RowsOK, RowType
  <2> QED BY <2>1, <2>3, ReportKept
<1>10. ASSUME NEW tm \in timers, TimerFires(tm) PROVE ReportedHasReport'
  BY <1>0, <1>10, ReportKept DEF TimerFires, RequeueStatus, RowsOK, RowType
<1>11. ASSUME NEW t \in Task, HandleAcknowledgement(t) PROVE ReportedHasReport'
  BY <1>0, <1>11
     DEF HandleAcknowledgement, AckedStatus, RowsOK, RowType, ReportedHasReport, TypeOK
<1>12. CASE Start
  <2>1. PICK due \in SUBSET Scheduled :
         row' = [t \in Task |->
            CASE t \in Interrupted ->
                   [row[t] EXCEPT !.status = "pending", !.ver = file[row[t].path]]
              [] t \in due -> [row[t] EXCEPT !.status = "pending"]
              [] OTHER -> row[t]]
    BY <1>12 DEF Start
  <2>2. \A t \in Task : row'[t].status \in {"pending", row[t].status}
    BY <1>0, <2>1 DEF RowsOK, RowType
  <2> QED BY <1>12, <2>2, ReportKept DEF Start
<1>13. CASE UNCHANGED <<row, report>>
  BY <1>13 DEF ReportedHasReport
<1> QED BY <1>1, <1>2, <1>3, <1>4, <1>5, <1>6, <1>7, <1>8, <1>9, <1>10, <1>11, <1>12,
           <1>13, RowsUntouched
        DEF Next, ProducerStep, WorkerStep

\* A row that waits for the acknowledgement always has its report in the outbox,
\* whatever the workers, timers, failures and crashes do: SaveReport and
\* CompleteReported change status and report together.
THEOREM ReportIsReplayable == Spec => []ReportedHasReport
<1>1. Init => ReportedHasReport
  <2> SUFFICES ASSUME Init, NEW t \in Task PROVE row[t].status # "reported"
    BY DEF ReportedHasReport
  <2>1. PICK legacy \in [Legacy -> Upload \cup {NoUpload}] :
          row = [s \in Task |->
                    IF s \in Legacy
                    THEN [AbsentRow EXCEPT !.status = "failed", !.ver = 1,
                                           !.retry = 1, !.upload = legacy[s]]
                    ELSE AbsentRow]
    BY DEF Init
  <2> QED BY <2>1 DEF AbsentRow
<1>2. TypeOK /\ ReportedHasReport /\ [Next]_vars => ReportedHasReport'
  BY ReportStep
<1> QED BY <1>1, <1>2, TypeCorrect, PTL DEF Spec

-----------------------------------------------------------------------------
\* One worker; and a row left by an older build still has retries left.
OneWorker == \A v, w \in Worker : v = w
LegacyHasRetries == Legacy # {} => RetryMax > 1

-----------------------------------------------------------------------------
(* The inductive invariant.                                                *)

\* The agent need not find this upload any more: its abort is on record, or the
\* store has forgotten it.
Settled(u) == u \in outbox \/ u \notin live

\* Where a worker is between MarkRunning and the statement that ends the attempt.
Working == {"taken", "dedup", "upload", "resume", "discard", "init", "persist",
            "unwind", "parts", "put", "fail", "backoff", "report"}

\* The status of the row a worker has in hand: nobody but the worker and the
\* eviction changes it.
HeldStatus(w) ==
  LET s == row[worker[w].id].status IN
  /\ worker[w].pc = "selected" => s \in {"pending", "gone"}
  /\ worker[w].pc \in Working => s \in {"running", "gone"}
  /\ worker[w].pc = "abandonDone" => s \in {"completed", "gone"}
  /\ worker[w].pc \in {"abandon", "reportFail"} => s \in {"failed", "gone"}

\* The upload a worker has in hand is the row's, or is settled, or was just made;
\* and the row names no other that is not settled.
HeldUpload(w) ==
  LET t == worker[w].id
      u == worker[w].upload IN
  /\ worker[w].pc \in {"init", "put", "abandon", "abandonDone", "report", "reportFail"}
       => Settled(u)
  /\ worker[w].pc \in {"persist", "unwind"} => Settled(row[t].upload)
  /\ worker[w].pc \notin {"persist", "unwind"} =>
       /\ Settled(u) \/ (row[t].status # "gone" /\ row[t].upload = u)
       /\ Settled(row[t].upload) \/ row[t].upload = u

\* The worker's copy of the retry count, and how it gets to "backoff".
HeldRetry(w) ==
  LET t == worker[w].id IN
  /\ worker[w].pc \in Working \cup {"selected"} /\ row[t].status # "gone"
       => row[t].retry = worker[w].retry
  /\ worker[w].pc = "backoff" => faults > 0

\* The version a worker uploads is the file's at its stat, which is no older than
\* the row's and than the one stored: nobody else stores meanwhile.
HeldVersion(w) ==
  LET r == row[worker[w].id] IN
  /\ worker[w].pc \in {"resume", "discard", "init", "persist", "unwind", "parts", "put"}
       => r.ver <= worker[w].stat /\ object[r.path] <= worker[w].stat
            /\ worker[w].stat <= file[r.path]
  /\ worker[w].pc = "report" => r.ver <= object[r.path]

WorkerInv ==
  \A w \in Worker : worker[w].pc # "idle" =>
    ~Armed(worker[w].id) /\ HeldStatus(w) /\ HeldUpload(w) /\ HeldRetry(w) /\ HeldVersion(w)

\* An armed timer belongs to one row, which waits for it; while no statement has
\* failed, a start would find the row as well.
TimerInv ==
  /\ \A s, t \in timers : s # t => s.task # t.task
  /\ \A tm \in timers :
       /\ row[tm.task].status \in {"failed", "running", "gone"}
       /\ faults = 0 /\ row[tm.task].status = "failed" => Recoverable(tm.task)

\* Memory is empty while the process is down.
DownInv == ~up => timers = {} /\ \A w \in Worker : worker[w].pc = "idle"

\* Upload identifiers are never handed out twice.
UsedInv ==
  /\ live \subseteq used
  /\ \A t \in Task : row[t].upload \in used \cup {NoUpload}
  /\ \A w \in Worker : worker[w].upload \in used \cup {NoUpload}

\* The submitter and the rows name versions the file had, and a row reported as
\* uploaded one that the store has reached.
VersionInv ==
  /\ prod.ver <= file[prod.path]
  /\ \A p \in Path : processed[p] <= object[p] /\ object[p] <= file[p]
  /\ \A t \in Task :
       /\ row[t].ver <= file[row[t].path]
       /\ row[t].status = "reported" /\ report[t] = "ok" => row[t].ver <= object[row[t].path]

\* What one step of the queue has to keep, besides the types and the reports.
Safe == NotStranded /\ UploadTracked /\ WorkerInv /\ TimerInv /\ DownInv /\ UsedInv /\ VersionInv

IInv == TypeOK /\ ReportedHasReport /\ Safe
-----------------------------------------------------------------------------
(* What the updates of one worker and of one row change.                   *)

\* Most leaves are first-order: Zenon takes them unless they name another prover.

\* w is the only worker there is.
Only(w) == w \in Worker /\ \A v \in Worker : v = w

LEMMA GotoEffect ==
  ASSUME WorkersOK, NEW w \in Worker, NEW c, Goto(w, c)
  PROVE  /\ worker'[w].pc = c /\ worker'[w].id = worker[w].id
         /\ worker'[w].retry = worker[w].retry /\ worker'[w].upload = worker[w].upload
         /\ worker'[w].pver = worker[w].pver /\ worker'[w].stat = worker[w].stat
BY DEF WorkersOK, WorkerType, Goto

LEMMA FailEffect ==
  ASSUME WorkersOK, NEW w \in Worker, NEW b, FailWith(w, b)
  PROVE  /\ worker'[w].pc = "fail" /\ worker'[w].id = worker[w].id
         /\ worker'[w].retry = worker[w].retry /\ worker'[w].upload = worker[w].upload
         /\ worker'[w].pver = worker[w].pver /\ worker'[w].stat = worker[w].stat
BY DEF WorkersOK, WorkerType, FailWith

LEMMA FinishEffect ==
  ASSUME WorkersOK, NEW w \in Worker, Finish(w)
  PROVE  worker'[w].pc = "idle" /\ worker'[w].upload = NoUpload
BY DEF WorkersOK, Finish, IdleWorker

\* The row of t gets another status, and nothing else of it or of another row.
OnlyStatus(t, s) ==
  /\ \A x \in Task : x # t => row'[x] = row[x]
  /\ row'[t].status = s /\ row'[t].path = row[t].path /\ row'[t].ver = row[t].ver
  /\ row'[t].retry = row[t].retry /\ row'[t].next = row[t].next
  /\ row'[t].upload = row[t].upload /\ row'[t].pver = row[t].pver

LEMMA StatusEffect ==
  ASSUME RowsOK, NEW t \in Task, NEW s, row' = [row EXCEPT ![t].status = s]
  PROVE  OnlyStatus(t, s)
BY DEF RowsOK, RowType, OnlyStatus

\* MarkFailed and MarkFailedAbandoned.
OnlyFailed(t, n) ==
  /\ \A x \in Task : x # t => row'[x] = row[x]
  /\ row'[t].status = "failed" /\ row'[t].path = row[t].path /\ row'[t].ver = row[t].ver
  /\ row'[t].retry = row[t].retry + 1 /\ row'[t].next = n
  /\ row'[t].upload = row[t].upload /\ row'[t].pver = row[t].pver

LEMMA FailedEffect ==
  ASSUME RowsOK, NEW t \in Task, NEW n,
         row' = [row EXCEPT ![t].status = "failed", ![t].next = n, ![t].retry = @ + 1]
  PROVE  OnlyFailed(t, n)
BY SMT DEF RowsOK, RowType, OnlyFailed

\* SaveMultipartProgress.
OnlyUpload(t, u) ==
  /\ \A x \in Task : x # t => row'[x] = row[x]
  /\ row'[t].status = row[t].status /\ row'[t].path = row[t].path /\ row'[t].ver = row[t].ver
  /\ row'[t].retry = row[t].retry /\ row'[t].next = row[t].next /\ row'[t].upload = u

LEMMA UploadEffect ==
  ASSUME RowsOK, NEW t \in Task, NEW u, NEW v,
         row' = [row EXCEPT ![t].upload = u, ![t].pver = v]
  PROVE  OnlyUpload(t, u)
BY DEF RowsOK, RowType, OnlyUpload

\* A row is there, or evicted, or not enqueued yet.
LEMMA ExistsStatus ==
  ASSUME RowsOK, NEW t \in Task
  PROVE  /\ Exists(t) <=> row[t].status \notin {"absent", "gone"}
         /\ row[t].status \in Statuses \cup {"absent", "gone"}
BY DEF RowsOK, RowType, Exists, Statuses

\* A version is a number.
LEMMA VersionIsNat ==
  ASSUME NEW v \in 0..MaxVer
  PROVE  v \in Nat
BY SizesAssumption, SMT

\* The counters only grow.
LEMMA Counters ==
  ASSUME TypeOK, DBOk \/ DBFails
  PROVE  faults \in Nat /\ crashes \in Nat /\ faults' \in {faults, faults + 1}
BY SizesAssumption, SMT DEF TypeOK, DBOk, DBFails

LEMMA Growing ==
  ASSUME faults \in Nat, faults' \in {faults, faults + 1}
  PROVE  /\ faults' = 0 => faults = 0
         /\ faults > 0 => faults' > 0
         /\ faults' = faults + 1 => faults' > 0 /\ faults' # 0
BY SMT

\* The numbers of the state.
LEMMA Numbers ==
  ASSUME TypeOK
  PROVE  /\ \A t \in Task : row[t].path \in Path /\ row[t].ver \in Nat
         /\ \A w \in Worker : worker[w].stat \in Nat /\ worker[w].retry \in Nat
         /\ \A p \in Path : file[p] \in Nat /\ object[p] \in Nat /\ processed[p] \in Nat
         /\ prod.path \in Path /\ prod.ver \in Nat
         /\ faults \in Nat /\ crashes \in Nat
<1>1. /\ \A t \in Task : row[t].path \in Path /\ row[t].ver \in 0..MaxVer
      /\ \A w \in Worker : worker[w].stat \in 0..MaxVer /\ worker[w].retry \in Nat
      /\ \A p \in Path : file[p] \in 0..MaxVer
      /\ prod.path \in Path /\ prod.ver \in 0..MaxVer
  BY Fields
<1>2. /\ processed \in [Path -> 0..MaxVer] /\ object \in [Path -> 0..MaxVer]
      /\ faults \in 0..MaxFaults /\ crashes \in 0..MaxCrashes
  BY DEF TypeOK
<1>3. MaxVer \in Nat /\ MaxFaults \in Nat /\ MaxCrashes \in Nat
  BY SizesAssumption
<1> QED BY <1>1, <1>2, <1>3, SMT

-----------------------------------------------------------------------------
(* What carries a conjunct over a step.                                    *)

\* The condition under which UploadTracked speaks.
Few == faults = 0 \/ crashes + faults = 1

LEMMA FewBefore ==
  ASSUME TypeOK, faults' \in {faults, faults + 1}, crashes' \in {crashes, crashes + 1}, Few'
  PROVE  Few
<1>1. faults \in Nat /\ crashes \in Nat
  BY SizesAssumption, SMT DEF TypeOK
<1>2. faults' \in Nat /\ crashes' \in Nat /\ faults <= faults' /\ crashes <= crashes'
  BY <1>1, SMT
<1>3. ASSUME NEW f \in Nat, NEW c \in Nat, NEW g \in Nat, NEW d \in Nat,
             f <= g, c <= d, g = 0 \/ d + g = 1
      PROVE  f = 0 \/ c + f = 1
  BY <1>3, SMT
<1>4. faults' = 0 \/ crashes' + faults' = 1
  BY DEF Few
<1>5. faults = 0 \/ crashes + faults = 1
  BY <1>1, <1>2, <1>3, <1>4
<1> QED BY <1>5 DEF Few

\* The uploads that exist are tracked after a step that makes none, when it loses
\* sight of none.
LEMMA TrackedStep ==
  ASSUME TypeOK, UploadTracked, faults' \in {faults, faults + 1},
         crashes' \in {crashes, crashes + 1}, live' \ leaked' \subseteq live \ leaked,
         Few' => \A u \in live' \ leaked' : Tracked(u) => Tracked(u)'
  PROVE  UploadTracked'
<1>1. Few' => Few
  BY FewBefore
<1> QED BY <1>1 DEF UploadTracked, Few

\* What an only worker and its row track is what both name.
LEMMA HeldOnly ==
  ASSUME TypeOK, NEW w, Only(w), WorkerInv, worker[w].pc \notin {"idle", "persist", "unwind"},
         NEW u \in live, u \notin outbox,
         u = worker[w].upload \/ u = row[worker[w].id].upload
  PROVE  /\ u = worker[w].upload /\ u = row[worker[w].id].upload
         /\ row[worker[w].id].status # "gone"
BY DEF WorkerInv, HeldUpload, Settled, Only

\* A worker's step can only lose sight of what the worker or its row names.
LEMMA TrackedKept ==
  ASSUME TypeOK, NEW w, Only(w), NEW u, Tracked(u), outbox \subseteq outbox',
         timers \subseteq timers',
         \A s \in Task : s # worker[w].id => row'[s] = row[s],
         worker[w].pc # "idle" /\ worker[w].upload = u => Tracked(u)',
         worker[w].id \in Task /\ row[worker[w].id].upload = u => Tracked(u)'
  PROVE  Tracked(u)'
<1>1. CASE u \in outbox
  BY <1>1 DEF Tracked
<1>2. CASE \E v \in Worker : worker[v].pc # "idle" /\ worker[v].upload = u
  BY <1>2 DEF Only
<1>3. ASSUME NEW t \in Task, row[t].upload = u,
             \/ row[t].status \in {"pending", "running"}
             \/ Recoverable(t)
             \/ row[t].status = "failed" /\ Armed(t)
      PROVE  Tracked(u)'
  <2>1. CASE t = worker[w].id
    BY <1>3, <2>1
  <2>2. CASE t # worker[w].id
    <3>1. row'[t] = row[t]
      BY <2>2
    <3>2. Armed(t) => Armed(t)'
      BY DEF Armed
    <3> QED BY <1>3, <3>1, <3>2 DEF Tracked, Recoverable
  <2> QED BY <2>1, <2>2
<1> QED BY <1>1, <1>2, <1>3 DEF Tracked

\* A step of the only worker, which has a task in hand: it changes no row but that
\* task's, arms no timer and forgets no abort record.
StepOf(w) ==
  /\ Only(w) /\ up /\ up' /\ worker[w].pc # "idle"
  /\ \A s \in Task : s # worker[w].id => row'[s] = row[s]
  /\ timers' = timers /\ outbox \subseteq outbox'
  /\ UNCHANGED <<prod, file, processed, crashes>> /\ faults' \in {faults, faults + 1}

\* The row in hand is not stranded if it is settled, or stays in hand.
LEMMA StrandedKept ==
  ASSUME IInv, NEW w, StepOf(w),
         faults' = 0 /\ (worker'[w].pc = "idle" \/ worker'[w].id # worker[w].id) =>
           /\ row'[worker[w].id].status # "running"
           /\ row'[worker[w].id].status = "failed" => row'[worker[w].id].next # "scheduled"
  PROVE  NotStranded'
<1> DEFINE t == worker[w].id
<1>1. faults \in Nat /\ w \in Worker /\ worker[w].pc # "idle" /\ t \in Task
  BY SizesAssumption, SMT DEF IInv, TypeOK, StepOf, Only
<1>2. faults' = 0 => faults = 0
  BY <1>1, SMT DEF StepOf
<1>3. ASSUME faults' = 0, NEW s \in Task, s # t
      PROVE  /\ row'[s].status = "running" => Held(s)'
             /\ row'[s].status = "failed" /\ row'[s].next = "scheduled"
                  /\ row'[s].retry < RetryMax => Armed(s)' \/ Held(s)'
  <2>1. ~Held(s)
    BY <1>3 DEF Held, StepOf, Only
  <2>2. row'[s] = row[s] /\ (Armed(s) => Armed(s)')
    BY <1>3 DEF StepOf, Armed
  <2>3. NotStranded /\ up /\ faults = 0
    BY <1>2, <1>3 DEF IInv, Safe, StepOf
  <2> QED BY <2>1, <2>2, <2>3 DEF NotStranded
<1>4. ASSUME faults' = 0
      PROVE  /\ row'[t].status = "running" => Held(t)'
             /\ row'[t].status = "failed" /\ row'[t].next = "scheduled"
                  /\ row'[t].retry < RetryMax => Armed(t)' \/ Held(t)'
  BY <1>1, <1>4 DEF Held
<1> QED BY <1>3, <1>4 DEF NotStranded

\* The timers' rows are other rows than the one in hand.
LEMMA TimersKept ==
  ASSUME IInv, NEW w, StepOf(w)
  PROVE  TimerInv' /\ \A tm \in timers' : tm.task # worker[w].id
<1>1. ~Armed(worker[w].id) /\ faults \in Nat
  BY SizesAssumption, SMT DEF IInv, TypeOK, Safe, WorkerInv, StepOf, Only
<1>2. \A tm \in timers : tm.task \in Task /\ tm.task # worker[w].id
  BY <1>1, Fields DEF IInv, Armed
<1>3. \A tm \in timers : row'[tm.task] = row[tm.task]
  BY <1>2 DEF StepOf
<1>4. faults' = 0 => faults = 0
  BY <1>1, SMT DEF StepOf
<1>5. timers' = timers /\ TimerInv
  BY DEF IInv, Safe, StepOf
<1>6. \A tm \in timers : Recoverable(tm.task) => Recoverable(tm.task)'
  BY <1>3 DEF Recoverable
<1>7. TimerInv'
  BY <1>3, <1>4, <1>5, <1>6 DEF TimerInv
<1> QED BY <1>2, <1>5, <1>7

\* What a step keeps that stores nothing and changes no version of a row.
LEMMA VersionsKept ==
  ASSUME IInv, UNCHANGED <<prod, file, processed, object>>,
         \A t \in Task : /\ row'[t].ver = row[t].ver /\ row'[t].path = row[t].path
                         /\ row'[t].status = "reported" /\ report'[t] = "ok" =>
                              \/ row[t].status = "reported" /\ report[t] = "ok"
                              \/ row[t].ver <= object[row[t].path]
  PROVE  VersionInv'
BY DEF IInv, Safe, VersionInv

\* Nothing new is handed out.
LEMMA UsedKept ==
  ASSUME IInv, used' = used, live' \subseteq live,
         \A t \in Task : row'[t].upload \in used \cup {NoUpload},
         \A v \in Worker : worker'[v].upload \in used \cup {NoUpload}
  PROVE  UsedInv'
BY DEF IInv, Safe, UsedInv

LEMMA NoUploadSettled == TypeOK => Settled(NoUpload)
BY SetsAssumption DEF TypeOK, Settled

\* The uploads stay tracked if the one that both worker and row name does.
LEMMA HeldTracked ==
  ASSUME IInv, NEW w, StepOf(w), worker[w].pc \notin {"persist", "unwind"},
         live' \ leaked' \subseteq live \ leaked,
         ASSUME Few', NEW u \in live' \ leaked', u \notin outbox, u = worker[w].upload,
                u = row[worker[w].id].upload, row[worker[w].id].status # "gone"
         PROVE  Tracked(u)'
  PROVE  UploadTracked'
<1>1. ASSUME Few', NEW u \in live' \ leaked', Tracked(u) PROVE Tracked(u)'
  <2>1. CASE u \in outbox
    BY <2>1 DEF Tracked, StepOf
  <2>2. CASE u \notin outbox
    <3>1. u \in live /\ TypeOK /\ WorkerInv /\ Only(w) /\ worker[w].pc # "idle"
      BY <1>1 DEF IInv, Safe, StepOf
    <3>2. u = worker[w].upload \/ u = row[worker[w].id].upload => Tracked(u)'
      <4>1. u = worker[w].upload \/ u = row[worker[w].id].upload
              => /\ u = worker[w].upload /\ u = row[worker[w].id].upload
                 /\ row[worker[w].id].status # "gone"
        BY <2>2, <3>1, HeldOnly
      <4> QED BY <1>1, <2>2, <4>1
    <3> QED BY <1>1, <3>1, <3>2, TrackedKept DEF StepOf
  <2> QED BY <2>1, <2>2
<1> QED BY <1>1, TrackedStep DEF IInv, Safe, StepOf

\* What the invariant says of a worker with a task in hand.
LEMMA InHand ==
  ASSUME IInv, NEW w, Only(w), worker[w].pc # "idle"
  PROVE  /\ TypeOK /\ RowsOK /\ WorkersOK /\ w \in Worker /\ worker[w].id \in Task
         /\ HeldStatus(w) /\ HeldUpload(w) /\ HeldRetry(w) /\ HeldVersion(w)
         /\ worker[w].upload \in used \cup {NoUpload}
         /\ \A t \in Task : row[t].upload \in used \cup {NoUpload}
         /\ Settled(NoUpload)
BY Fields, NoUploadSettled DEF IInv, Safe, WorkerInv, UsedInv, Only, WorkersOK

LEMMA WorkerKept ==
  ASSUME IInv, NEW w, StepOf(w),
         worker'[w].pc # "idle" =>
           /\ worker'[w].id = worker[w].id
           /\ HeldStatus(w)' /\ HeldUpload(w)' /\ HeldRetry(w)' /\ HeldVersion(w)'
  PROVE  WorkerInv' /\ DownInv'
<1>1. \A tm \in timers' : tm.task # worker[w].id
  BY TimersKept
<1>2. worker'[w].pc # "idle" => ~Armed(worker[w].id)'
  BY <1>1 DEF Armed
<1> QED BY <1>2 DEF WorkerInv, DownInv, StepOf, Only

\* A worker goes on with its task, or fails it, and changes nothing but the abort
\* outbox.
LEMMA MoveStep ==
  ASSUME IInv, NEW w, StepOf(w), worker[w].pc \notin {"persist", "unwind"},
         UNCHANGED <<row, report, object, live, used, leaked>>,
         worker'[w].pc # "idle", worker'[w].id = worker[w].id, 
         worker'[w].upload = worker[w].upload
           \/ (worker'[w].upload = NoUpload /\ worker[w].upload \in outbox' \cup {NoUpload}),
         HeldStatus(w)', HeldUpload(w)', HeldRetry(w)', HeldVersion(w)'
  PROVE  Safe'
<1>0. /\ w \in Worker /\ worker[w].upload \in used \cup {NoUpload}
      /\ \A t \in Task : row[t].upload \in used \cup {NoUpload}
      /\ TypeOK
  BY InHand DEF StepOf
<1>1. NotStranded'
  BY StrandedKept
<1>2. TimerInv'
  BY TimersKept
<1>3. WorkerInv' /\ DownInv'
  BY WorkerKept
<1>4. VersionInv'
  BY VersionsKept DEF StepOf
<1>5. UsedInv'
  <2>1. \A v \in Worker : worker'[v].upload \in used \cup {NoUpload}
    BY <1>0 DEF StepOf, Only
  <2> QED BY <1>0, <2>1, UsedKept
<1>6. UploadTracked'
  <2>1. ASSUME NEW u \in live' \ leaked', u = worker[w].upload PROVE Tracked(u)'
    <3>1. u \in Upload /\ u # NoUpload
      BY <1>0, <2>1, SetsAssumption DEF TypeOK
    <3>2. worker'[w].upload = u \/ u \in outbox'
      BY <2>1, <3>1
    <3> QED BY <1>0, <3>2 DEF Tracked
  <2> QED BY <2>1, HeldTracked
<1> QED BY <1>1, <1>2, <1>3, <1>4, <1>5, <1>6 DEF Safe

LEMMA CheckDedupStep ==
  ASSUME IInv, NEW w, Only(w), CheckDedup(w)
  PROVE  Safe'
<1>0. worker[w].pc = "taken" /\ up
  BY DEF CheckDedup, At
<1>1. /\ TypeOK /\ WorkersOK /\ w \in Worker /\ worker[w].id \in Task
      /\ HeldStatus(w) /\ HeldUpload(w) /\ HeldRetry(w) /\ HeldVersion(w)
  BY <1>0, InHand
<1>2. /\ worker'[w].pc \in {"dedup", "upload", "fail"} /\ worker'[w].id = worker[w].id
      /\ worker'[w].upload = worker[w].upload /\ worker'[w].retry = worker[w].retry
  BY <1>1, GotoEffect, FailEffect DEF CheckDedup
<1>3. /\ UNCHANGED <<row, report, outbox, processed, file, object, live, used, timers, prod, up,
                     crashes, leaked>>
      /\ faults \in Nat /\ faults' \in {faults, faults + 1}
  BY <1>1, Counters DEF CheckDedup, durable, store
<1>4. StepOf(w)
  BY <1>0, <1>3 DEF StepOf
<1>5. HeldStatus(w)' /\ HeldRetry(w)' /\ HeldVersion(w)'
  BY <1>0, <1>1, <1>2, <1>3 DEF HeldStatus, HeldRetry, HeldVersion, Working
<1>6. HeldUpload(w)'
  BY <1>0, <1>1, <1>2, <1>3 DEF HeldUpload, Settled
<1> QED BY <1>0, <1>2, <1>3, <1>4, <1>5, <1>6, MoveStep

LEMMA UploadFileStep ==
  ASSUME IInv, NEW w, Only(w), UploadFile(w)
  PROVE  Safe'
<1>0. worker[w].pc = "upload" /\ up
  BY DEF UploadFile, At
<1>1. /\ TypeOK /\ WorkersOK /\ w \in Worker /\ worker[w].id \in Task
      /\ HeldStatus(w) /\ HeldUpload(w) /\ HeldRetry(w) /\ Settled(NoUpload)
  BY <1>0, InHand
<1> DEFINE t == worker[w].id
           v == file[row[t].path]
           c == worker'[w].pc
<1>2. /\ worker'[w].id = t /\ worker'[w].upload = worker[w].upload
      /\ worker'[w].retry = worker[w].retry /\ worker'[w].stat = v
  BY <1>1 DEF UploadFile, WorkersOK, WorkerType
<1>3. /\ c \in {"resume", "discard", "init", "put"}
      /\ c \in {"init", "put"} => worker[w].upload = NoUpload
  <2>1. worker[w] \in WorkerType
    BY <1>1 DEF WorkersOK
  <2> DEFINE u == worker[w].upload
             canResume == worker[w].pver # 0 /\ v = worker[w].pver /\ v \in BigVer
  <2>2. c = CASE u # NoUpload /\ canResume -> "resume"
              [] u # NoUpload /\ ~canResume -> "discard"
              [] u = NoUpload /\ v \in BigVer -> "init"
              [] u = NoUpload /\ v \notin BigVer -> "put"
    BY <1>1, <2>1 DEF UploadFile, WorkersOK, WorkerType
  <2> HIDE DEF canResume, u, v, c
  <2>3. \/ c \in {"resume", "discard"}
        \/ c \in {"init", "put"} /\ u = NoUpload
    BY <2>2
  <2> QED BY <2>3 DEF u
<1>4. /\ UNCHANGED <<row, report, outbox, processed, file, object, live, used, timers, prod, up,
                     crashes, faults, leaked>>
  BY DEF UploadFile, durable, store
<1>5. StepOf(w)
  BY <1>0, <1>4 DEF StepOf
<1>6. HeldStatus(w)' /\ HeldRetry(w)'
  BY <1>0, <1>1, <1>2, <1>3, <1>4 DEF HeldStatus, HeldRetry, Working
<1>7. HeldVersion(w)'
  <2>1. row[t].path \in Path /\ row[t].ver \in 0..MaxVer /\ v \in 0..MaxVer
    BY <1>1, Fields
  <2>2. row[t].ver <= v /\ object[row[t].path] <= v
    BY <1>1, <2>1 DEF IInv, Safe, VersionInv
  <2>3. v <= v
    BY <2>1, SMT
  <2> QED BY <1>2, <1>3, <1>4, <2>2, <2>3 DEF HeldVersion
<1>8. HeldUpload(w)'
  BY <1>0, <1>1, <1>2, <1>3, <1>4 DEF HeldUpload, Settled
<1>9. worker'[w].pc # "idle"
  BY <1>3
<1> QED BY <1>0, <1>2, <1>4, <1>5, <1>6, <1>7, <1>8, <1>9, MoveStep

LEMMA AttemptFailsStep ==
  ASSUME IInv, NEW w, Only(w), AttemptFails(w)
  PROVE  Safe'
<1>0. worker[w].pc \in {"upload", "resume", "init", "parts", "put"} /\ up
  BY DEF AttemptFails, UploadPcs
<1>1. /\ TypeOK /\ WorkersOK /\ w \in Worker /\ worker[w].id \in Task
      /\ HeldStatus(w) /\ HeldUpload(w) /\ HeldRetry(w) /\ HeldVersion(w)
  BY <1>0, InHand
<1>2. /\ worker'[w].pc = "fail" /\ worker'[w].id = worker[w].id
      /\ worker'[w].upload = worker[w].upload /\ worker'[w].retry = worker[w].retry
  BY <1>1, FailEffect DEF AttemptFails
<1>3. UNCHANGED <<row, report, outbox, processed, file, object, live, used, timers, prod, up,
                  crashes, faults, leaked>>
  BY DEF AttemptFails, durable, store
<1>4. StepOf(w)
  BY <1>0, <1>3 DEF StepOf
<1>5. HeldStatus(w)' /\ HeldRetry(w)' /\ HeldVersion(w)'
  BY <1>0, <1>1, <1>2, <1>3 DEF HeldStatus, HeldRetry, HeldVersion, Working
<1>6. HeldUpload(w)'
  BY <1>0, <1>1, <1>2, <1>3 DEF HeldUpload, Settled
<1> QED BY <1>0, <1>2, <1>3, <1>4, <1>5, <1>6, MoveStep

LEMMA DiscardStaleUploadStep ==
  ASSUME IInv, NEW w, Only(w), DiscardStaleUpload(w)
  PROVE  Safe'
<1>0. worker[w].pc = "discard" /\ up
  BY DEF DiscardStaleUpload, At
<1>1. /\ TypeOK /\ WorkersOK /\ w \in Worker /\ worker[w].id \in Task
      /\ HeldStatus(w) /\ HeldUpload(w) /\ HeldRetry(w) /\ HeldVersion(w) /\ Settled(NoUpload)
  BY <1>0, InHand
<1> DEFINE u == worker[w].upload
<1>2. /\ UNCHANGED <<row, report, processed, file, object, live, used, timers, prod, up,
                     crashes, leaked>>
      /\ faults \in Nat /\ faults' \in {faults, faults + 1}
  BY <1>1, Counters DEF DiscardStaleUpload, store
<1>3. /\ worker'[w].pc \in {"init", "put", "fail"} /\ worker'[w].id = worker[w].id
      /\ worker'[w].retry = worker[w].retry /\ worker'[w].stat = worker[w].stat
      /\ outbox \subseteq outbox'
      /\ \/ worker'[w].upload = NoUpload /\ u \in outbox' \cup {NoUpload}
         \/ worker'[w].upload = u /\ worker'[w].pc = "fail"
  <2>1. CASE outbox' = outbox \cup Ids(u)
             /\ worker' = [worker EXCEPT ![w].upload = NoUpload,
                             ![w].pc = IF worker[w].stat \in BigVer THEN "init" ELSE "put"]
    BY <1>1, <2>1 DEF Ids, WorkersOK, WorkerType
  <2>2. CASE FailWith(w, FALSE) /\ UNCHANGED outbox
    BY <1>1, <2>2, FailEffect
  <2> QED BY <2>1, <2>2 DEF DiscardStaleUpload
<1>4. StepOf(w)
  BY <1>0, <1>2, <1>3 DEF StepOf
<1>5. HeldStatus(w)' /\ HeldRetry(w)' /\ HeldVersion(w)'
  BY <1>0, <1>1, <1>2, <1>3 DEF HeldStatus, HeldRetry, HeldVersion, Working
<1>6. HeldUpload(w)'
  BY <1>0, <1>1, <1>2, <1>3 DEF HeldUpload, Settled
<1> QED BY <1>0, <1>2, <1>3, <1>4, <1>5, <1>6, MoveStep

LEMMA ResumeUploadStep ==
  ASSUME IInv, NEW w, Only(w), ResumeUpload(w)
  PROVE  Safe'
<1>0. worker[w].pc = "resume" /\ up
  BY DEF ResumeUpload, At
<1>1. /\ TypeOK /\ WorkersOK /\ w \in Worker /\ worker[w].id \in Task
      /\ HeldStatus(w) /\ HeldUpload(w) /\ HeldRetry(w) /\ HeldVersion(w)
  BY <1>0, InHand
<1>2. /\ worker'[w].pc \in {"parts", "discard", "init"} /\ worker'[w].id = worker[w].id
      /\ worker'[w].upload = worker[w].upload /\ worker'[w].retry = worker[w].retry
      /\ worker'[w].stat = worker[w].stat
      /\ worker'[w].pc = "init" => worker[w].upload \notin live
  <2>1. Goto(w, "parts") \/ Goto(w, "discard") \/ (Goto(w, "init") /\ worker[w].upload \notin live)
    BY DEF ResumeUpload
  <2>2. CASE Goto(w, "parts")
    BY <1>1, <2>2, GotoEffect, SMT
  <2>3. CASE Goto(w, "discard")
    BY <1>1, <2>3, GotoEffect, SMT
  <2>4. CASE Goto(w, "init") /\ worker[w].upload \notin live
    BY <1>1, <2>4, GotoEffect
  <2> QED BY <2>1, <2>2, <2>3, <2>4
<1>3. UNCHANGED <<row, report, outbox, processed, file, object, live, used, timers, prod, up,
                  crashes, faults, leaked>>
  BY DEF ResumeUpload, durable, store
<1>4. StepOf(w)
  BY <1>0, <1>3 DEF StepOf
<1>5. HeldStatus(w)' /\ HeldRetry(w)' /\ HeldVersion(w)'
  BY <1>0, <1>1, <1>2, <1>3 DEF HeldStatus, HeldRetry, HeldVersion, Working
<1>6. HeldUpload(w)'
  BY <1>0, <1>1, <1>2, <1>3 DEF HeldUpload, Settled
<1> QED BY <1>0, <1>2, <1>3, <1>4, <1>5, <1>6, MoveStep

\* A worker's step on the row in hand: the status or the retry of the row, the
\* report, the abort outbox.
LEMMA RowStep ==
  ASSUME IInv, NEW w, StepOf(w), worker[w].pc \notin {"persist", "unwind"},
         UNCHANGED <<object, live, used, leaked>>,
         row'[worker[w].id].ver = row[worker[w].id].ver,
         row'[worker[w].id].path = row[worker[w].id].path,
         row'[worker[w].id].upload = row[worker[w].id].upload,
         \A s \in Task : s # worker[w].id => report'[s] = report[s],
         row'[worker[w].id].status = "reported" =>
           worker[w].pc = "report" \/ report'[worker[w].id] # "ok",
         worker'[w].upload \in {worker[w].upload, NoUpload},
         worker'[w].pc # "idle" =>
           /\ worker'[w].id = worker[w].id
           /\ HeldStatus(w)' /\ HeldUpload(w)' /\ HeldRetry(w)' /\ HeldVersion(w)',
         faults' = 0 /\ worker'[w].pc = "idle" =>
           /\ row'[worker[w].id].status # "running"
           /\ row'[worker[w].id].status = "failed" => row'[worker[w].id].next # "scheduled",
         ASSUME Few', NEW u \in live' \ leaked', u \notin outbox, u = worker[w].upload,
                u = row[worker[w].id].upload, row[worker[w].id].status # "gone"
         PROVE  Tracked(u)'
  PROVE  Safe'
<1>0. /\ w \in Worker /\ worker[w].id \in Task /\ worker[w].upload \in used \cup {NoUpload}
      /\ \A t \in Task : row[t].upload \in used \cup {NoUpload}
      /\ HeldVersion(w)
  BY InHand DEF StepOf
<1>1. NotStranded'
  BY StrandedKept
<1>2. TimerInv'
  BY TimersKept
<1>3. WorkerInv' /\ DownInv'
  BY WorkerKept
<1>4. VersionInv'
  <2>1. UNCHANGED <<prod, file, processed, object>>
    BY DEF StepOf
  <2>2. ASSUME NEW t \in Task
        PROVE  /\ row'[t].ver = row[t].ver /\ row'[t].path = row[t].path
               /\ row'[t].status = "reported" /\ report'[t] = "ok" =>
                    \/ row[t].status = "reported" /\ report[t] = "ok"
                    \/ row[t].ver <= object[row[t].path]
    <3>1. CASE t = worker[w].id
      BY <1>0, <3>1 DEF HeldVersion
    <3>2. CASE t # worker[w].id
      BY <3>2 DEF StepOf
    <3> QED BY <3>1, <3>2
  <2> QED BY <2>1, <2>2, VersionsKept
<1>5. UsedInv'
  <2>1. \A v \in Worker : worker'[v].upload \in used \cup {NoUpload}
    BY <1>0 DEF StepOf, Only
  <2>2. \A t \in Task : row'[t].upload = row[t].upload
    BY DEF StepOf
  <2> QED BY <1>0, <2>1, <2>2, UsedKept
<1>6. UploadTracked'
  BY HeldTracked
<1> QED BY <1>1, <1>2, <1>3, <1>4, <1>5, <1>6 DEF Safe

LEMMA MarkRunningStep ==
  ASSUME IInv, NEW w, Only(w), MarkRunning(w)
  PROVE  Safe'
<1> DEFINE t == worker[w].id
<1>0. worker[w].pc = "selected" /\ up
  BY DEF MarkRunning, At
<1>1. /\ TypeOK /\ RowsOK /\ WorkersOK /\ w \in Worker /\ t \in Task
      /\ HeldStatus(w) /\ HeldUpload(w) /\ HeldRetry(w) /\ HeldVersion(w)
  BY <1>0, InHand
<1>2. /\ UNCHANGED <<report, outbox, processed, file, object, live, used, timers, prod, up,
                     crashes, leaked>>
      /\ faults \in Nat /\ faults' \in {faults, faults + 1}
  BY <1>1, Counters DEF MarkRunning, store
<1>3. row[t].status \in {"pending", "gone"}
  BY <1>0, <1>1 DEF HeldStatus
<1>4. CASE DBOk /\ Goto(w, "taken")
           /\ row' = IF Exists(t) THEN [row EXCEPT ![t].status = "running"] ELSE row
  <2>1. /\ worker'[w].pc = "taken" /\ worker'[w].id = t /\ worker'[w].stat = worker[w].stat
        /\ worker'[w].upload = worker[w].upload /\ worker'[w].retry = worker[w].retry
    BY <1>1, <1>4, GotoEffect
  <2>2. /\ \A s \in Task : s # t => row'[s] = row[s]
        /\ row'[t].path = row[t].path /\ row'[t].ver = row[t].ver
        /\ row'[t].retry = row[t].retry /\ row'[t].next = row[t].next
        /\ row'[t].upload = row[t].upload
        /\ row'[t].status = IF row[t].status = "gone" THEN "gone" ELSE "running"
    <3>1. CASE Exists(t)
      <4>1. OnlyStatus(t, "running")
        BY <1>1, <1>4, <3>1, StatusEffect
      <4>2. row[t].status # "gone"
        BY <1>1, <3>1, ExistsStatus
      <4> QED BY <4>1, <4>2 DEF OnlyStatus
    <3>2. CASE ~Exists(t)
      <4>1. row' = row /\ row[t].status = "gone"
        BY <1>1, <1>3, <1>4, <3>2, ExistsStatus
      <4> QED BY <4>1
    <3> QED BY <3>1, <3>2
  <2>3. StepOf(w)
    BY <1>0, <1>2, <2>2 DEF StepOf
  <2>4. HeldStatus(w)' /\ HeldRetry(w)' /\ HeldVersion(w)'
    <3>1. HeldStatus(w)'
      BY <2>1, <2>2 DEF HeldStatus, Working
    <3>2. HeldRetry(w)'
      BY <1>0, <1>1, <2>1, <2>2 DEF HeldRetry, Working
    <3>3. HeldVersion(w)'
      BY <2>1 DEF HeldVersion
    <3> QED BY <3>1, <3>2, <3>3
  <2>5. HeldUpload(w)'
    BY <1>0, <1>1, <1>2, <2>1, <2>2 DEF HeldUpload, Settled
  <2>6. ASSUME NEW u, u = worker[w].upload PROVE Tracked(u)'
    BY <1>1, <2>1, <2>6 DEF Tracked
  <2> QED BY <1>0, <1>2, <2>1, <2>2, <2>3, <2>4, <2>5, <2>6, RowStep
<1>5. CASE DBFails /\ Finish(w) /\ UNCHANGED row
  <2>1. worker'[w].pc = "idle" /\ worker'[w].upload = NoUpload
    BY <1>1, <1>5, FinishEffect
  <2>2. faults' # 0
    BY <1>2, <1>5, SMT DEF DBFails
  <2>3. StepOf(w)
    BY <1>0, <1>2, <1>5 DEF StepOf
  <2>4. ASSUME NEW u, u = row[t].upload, row[t].status # "gone" PROVE Tracked(u)'
    BY <1>1, <1>3, <1>5, <2>4 DEF Tracked
  <2> QED BY <1>0, <1>2, <1>3, <1>5, <2>1, <2>2, <2>3, <2>4, RowStep
<1> QED BY <1>4, <1>5 DEF MarkRunning

LEMMA DedupCompleteStep ==
  ASSUME IInv, NEW w, Only(w), DedupComplete(w)
  PROVE  Safe'
<1> DEFINE t == worker[w].id
           u0 == worker[w].upload
<1>0. worker[w].pc = "dedup" /\ up
  BY DEF DedupComplete, At
<1>1. /\ TypeOK /\ RowsOK /\ WorkersOK /\ w \in Worker /\ t \in Task
      /\ HeldStatus(w) /\ HeldUpload(w) /\ HeldRetry(w) /\ HeldVersion(w) /\ Settled(NoUpload)
  BY <1>0, InHand
<1>2. /\ UNCHANGED <<report, processed, file, object, live, used, timers, prod, up, crashes,
                     leaked>>
      /\ faults \in Nat /\ faults' \in {faults, faults + 1}
  BY <1>1, Counters DEF DedupComplete, store
<1>3. row[t].status \in {"running", "gone"}
  BY <1>0, <1>1 DEF HeldStatus, Working
<1>4. CASE /\ DBOk
           /\ row' = IF Exists(t) THEN [row EXCEPT ![t].status = "completed"] ELSE row
           /\ outbox' = IF Exists(t) THEN outbox \cup Ids(u0) ELSE outbox
           /\ IF u0 = NoUpload THEN Finish(w) ELSE Goto(w, "abandonDone")
  <2>1. /\ \/ worker'[w].pc = "idle" /\ worker'[w].upload = NoUpload
           \/ worker'[w].pc = "abandonDone" /\ worker'[w].id = t /\ worker'[w].upload = u0
    BY <1>1, <1>4, GotoEffect, FinishEffect
  <2>2. /\ \A s \in Task : s # t => row'[s] = row[s]
        /\ row'[t].path = row[t].path /\ row'[t].ver = row[t].ver
        /\ row'[t].upload = row[t].upload
        /\ row'[t].status = IF row[t].status = "gone" THEN "gone" ELSE "completed"
        /\ outbox \subseteq outbox'
        /\ row[t].status # "gone" => u0 \in outbox' \cup {NoUpload}
    <3>1. CASE Exists(t)
      <4>1. OnlyStatus(t, "completed")
        BY <1>1, <1>4, <3>1, StatusEffect
      <4>2. row[t].status # "gone"
        BY <1>1, <3>1, ExistsStatus
      <4>3. outbox' = outbox \cup Ids(u0)
        BY <1>4, <3>1
      <4> QED BY <4>1, <4>2, <4>3 DEF OnlyStatus, Ids
    <3>2. CASE ~Exists(t)
      <4>1. row' = row /\ row[t].status = "gone" /\ outbox' = outbox
        BY <1>1, <1>3, <1>4, <3>2, ExistsStatus
      <4> QED BY <4>1
    <3> QED BY <3>1, <3>2
  <2>3. StepOf(w)
    BY <1>0, <1>2, <2>2 DEF StepOf
  <2>4. u0 \in outbox' \/ u0 \notin live'
    BY <1>0, <1>1, <1>2, <2>2 DEF HeldUpload, Settled
  <2>5. row[t].upload = u0 \/ row[t].upload \in outbox' \/ row[t].upload \notin live'
    BY <1>0, <1>1, <1>2, <2>2 DEF HeldUpload, Settled
  <2>6. worker'[w].pc # "idle" => HeldUpload(w)'
    BY <1>0, <1>1, <1>2, <2>1, <2>2, <2>4, <2>5 DEF HeldUpload, Settled
  <2>7. worker'[w].pc # "idle" => HeldStatus(w)' /\ HeldRetry(w)' /\ HeldVersion(w)'
    BY <1>0, <1>1, <1>2, <1>3, <2>1, <2>2 DEF HeldStatus, HeldRetry, HeldVersion, Working
  <2>8. ASSUME NEW u \in live', u = u0 PROVE Tracked(u)'
    BY <2>4, <2>8 DEF Tracked, Settled
  <2> QED BY <1>0, <1>2, <1>3, <2>1, <2>2, <2>3, <2>6, <2>7, <2>8, RowStep
<1>5. CASE DBFails /\ (IF u0 = NoUpload THEN Finish(w) ELSE FailWith(w, FALSE))
           /\ UNCHANGED <<row, outbox>>
  <2>1. \/ worker'[w].pc = "idle" /\ worker'[w].upload = NoUpload
        \/ /\ worker'[w].pc = "fail" /\ worker'[w].id = t /\ worker'[w].upload = u0
           /\ worker'[w].retry = worker[w].retry
    BY <1>1, <1>5, FailEffect, FinishEffect
  <2>2. faults' # 0
    BY <1>2, <1>5, SMT DEF DBFails
  <2>3. StepOf(w)
    BY <1>0, <1>2, <1>5 DEF StepOf
  <2>4. ASSUME NEW u, u = row[t].upload, row[t].status # "gone" PROVE Tracked(u)'
    BY <1>1, <1>3, <1>5, <2>4 DEF Tracked
  <2>5. worker'[w].pc # "idle" =>
          HeldStatus(w)' /\ HeldRetry(w)' /\ HeldVersion(w)' /\ HeldUpload(w)'
    BY <1>0, <1>1, <1>2, <1>3, <1>5, <2>1
       DEF HeldStatus, HeldRetry, HeldVersion, HeldUpload, Settled, Working
  <2> QED BY <1>0, <1>2, <1>3, <1>5, <2>1, <2>2, <2>3, <2>4, <2>5, RowStep
<1> QED BY <1>4, <1>5 DEF DedupComplete

LEMMA AbandonTaskUploadStep ==
  ASSUME IInv, NEW w, Only(w), AbandonTaskUpload(w)
  PROVE  Safe'
<1> DEFINE t == worker[w].id
           u0 == worker[w].upload
<1>0. worker[w].pc \in {"abandon", "abandonDone"} /\ up
  BY DEF AbandonTaskUpload
<1>1. /\ TypeOK /\ RowsOK /\ WorkersOK /\ w \in Worker /\ t \in Task
      /\ HeldStatus(w) /\ HeldUpload(w) /\ HeldRetry(w) /\ HeldVersion(w)
  BY <1>0, InHand
<1>2. /\ UNCHANGED <<row, report, processed, file, object, live, used, timers, prod, up, crashes,
                     leaked>>
      /\ faults \in Nat /\ faults' \in {faults, faults + 1} /\ outbox \subseteq outbox'
  BY <1>1, Counters DEF AbandonTaskUpload, store
<1>3. \/ worker[w].pc = "abandonDone" /\ worker'[w].pc = "idle" /\ worker'[w].upload = NoUpload
      \/ /\ worker[w].pc = "abandon" /\ worker'[w].pc = "reportFail" /\ worker'[w].id = t
         /\ worker'[w].upload = u0
  BY <1>0, <1>1, GotoEffect, FinishEffect DEF AbandonTaskUpload
<1>4. StepOf(w)
  BY <1>0, <1>2 DEF StepOf
<1>5. worker'[w].pc # "idle" => HeldStatus(w)' /\ HeldRetry(w)' /\ HeldVersion(w)'
  BY <1>0, <1>1, <1>2, <1>3 DEF HeldStatus, HeldRetry, HeldVersion, Working
<1>6. worker'[w].pc # "idle" => HeldUpload(w)'
  BY <1>0, <1>1, <1>2, <1>3 DEF HeldUpload, Settled
<1>7. ASSUME NEW u \in live', u = u0 PROVE Tracked(u)'
  BY <1>0, <1>1, <1>2, <1>7 DEF Tracked, HeldUpload, Settled
<1>8. worker'[w].pc = "idle" => row[t].status \in {"completed", "gone"}
  BY <1>0, <1>1, <1>3 DEF HeldStatus
<1>9. row[t].status # "reported"
  BY <1>0, <1>1 DEF HeldStatus
<1> QED BY <1>0, <1>2, <1>3, <1>4, <1>5, <1>6, <1>7, <1>8, <1>9, RowStep

LEMMA PersistResultStep ==
  ASSUME IInv, NEW w, Only(w), PersistResult(w)
  PROVE  Safe'
<1> DEFINE t == worker[w].id
           u0 == worker[w].upload
<1>0. worker[w].pc \in {"report", "reportFail"} /\ up
  BY DEF PersistResult
<1>1. /\ TypeOK /\ RowsOK /\ WorkersOK /\ w \in Worker /\ t \in Task
      /\ HeldStatus(w) /\ HeldUpload(w)
  BY <1>0, InHand
<1>2. /\ UNCHANGED <<outbox, processed, file, object, live, used, timers, prod, up, crashes,
                     leaked>>
      /\ faults \in Nat /\ faults' \in {faults, faults + 1}
  BY <1>1, Counters DEF PersistResult, store
<1>3. worker'[w].pc = "idle" /\ worker'[w].upload = NoUpload
  BY <1>1, FinishEffect DEF PersistResult
<1>4. ASSUME NEW u \in live', u = u0 PROVE Tracked(u)'
  BY <1>0, <1>1, <1>2, <1>4 DEF Tracked, HeldUpload, Settled
<1>5. CASE /\ DBOk /\ row' = [row EXCEPT ![t].status = "reported"]
           /\ report' = [report EXCEPT ![t] =
                           IF worker[w].pc = "report" THEN "ok" ELSE "failed"]
  <2>1. OnlyStatus(t, "reported")
    BY <1>1, <1>5, StatusEffect
  <2>2. StepOf(w)
    BY <1>0, <1>2, <2>1 DEF StepOf, OnlyStatus
  <2>3. /\ \A s \in Task : s # t => report'[s] = report[s]
        /\ worker[w].pc = "report" \/ report'[t] # "ok"
    BY <1>1, <1>5 DEF TypeOK
  <2> QED BY <1>0, <1>2, <1>3, <1>4, <2>1, <2>2, <2>3, RowStep DEF OnlyStatus
<1>6. CASE /\ DBFails \/ (DBOk /\ row[t].status \notin {"running", "failed"})
           /\ UNCHANGED <<row, report>>
  <2>1. faults' = 0 => row[t].status \notin {"running", "failed"}
    BY <1>2, <1>6, SMT DEF DBFails
  <2>2. StepOf(w)
    BY <1>0, <1>2, <1>6 DEF StepOf
  <2>3. row[t].status # "reported"
    BY <1>0, <1>1 DEF HeldStatus, Working
  <2> QED BY <1>0, <1>2, <1>3, <1>4, <1>6, <2>1, <2>2, <2>3, RowStep
<1> QED BY <1>5, <1>6 DEF PersistResult

LEMMA SelectStep ==
  ASSUME IInv, NEW w, Only(w), Select(w)
  PROVE  Safe'
<1>0. /\ TypeOK /\ WorkersOK /\ w \in Worker /\ worker[w].pc = "idle" /\ up
      /\ UNCHANGED <<row, report, outbox, processed, file, object, live, used, timers, prod, up,
                     crashes, faults, leaked>>
  BY Fields DEF IInv, Only, Select, At, durable, store
<1>1. PICK t \in Task :
        /\ IsOldest(t, WithStatus({"pending"}))
        /\ worker' = [worker EXCEPT ![w] = [IdleWorker EXCEPT
                       !.pc = "selected", !.id = t, !.retry = row[t].retry,
                       !.upload = row[t].upload, !.pver = row[t].pver]]
  BY DEF Select
<1>2. /\ worker'[w].pc = "selected" /\ worker'[w].id = t /\ worker'[w].retry = row[t].retry
      /\ worker'[w].upload = row[t].upload
  BY <1>0, <1>1 DEF WorkersOK, IdleWorker
<1>3. row[t].status = "pending"
  BY <1>1 DEF IsOldest, WithStatus
<1>4. ~Armed(t)
  BY <1>3 DEF IInv, Safe, TimerInv, Armed
<1>5. WorkerInv'
  <2>1. HeldStatus(w)' /\ HeldRetry(w)' /\ HeldVersion(w)'
    BY <1>0, <1>2, <1>3 DEF HeldStatus, HeldRetry, HeldVersion, Working
  <2>2. HeldUpload(w)'
    BY <1>0, <1>2, <1>3 DEF HeldUpload
  <2>3. ~Armed(t)'
    BY <1>0, <1>4 DEF Armed
  <2> QED BY <1>2, <2>1, <2>2, <2>3 DEF WorkerInv, Only
<1>6. NotStranded'
  <2>1. \A s \in Task : ~Held(s) /\ (Armed(s) => Armed(s)')
    BY <1>0 DEF Held, Only, Armed
  <2> QED BY <1>0, <2>1 DEF NotStranded, IInv, Safe
<1>7. UploadTracked'
  <2>1. ASSUME NEW u, Tracked(u) PROVE Tracked(u)'
    BY <1>0, <2>1 DEF Tracked, Only, Recoverable, Armed
  <2> QED BY <1>0, <2>1, TrackedStep DEF IInv, Safe
<1>8. TimerInv' /\ VersionInv'
  BY <1>0 DEF IInv, Safe, TimerInv, VersionInv, Recoverable
<1>9. UsedInv'
  BY <1>0, <1>2 DEF IInv, Safe, UsedInv, Only
<1>10. DownInv'
  BY <1>0 DEF DownInv
<1> QED BY <1>5, <1>6, <1>7, <1>8, <1>9, <1>10 DEF Safe

LEMMA MarkFailedAbandonedStep ==
  ASSUME IInv, NEW w, Only(w), MarkFailedAbandoned(w)
  PROVE  Safe'
<1> DEFINE t == worker[w].id
           u0 == worker[w].upload
<1>0. worker[w].pc = "fail" /\ up
  BY DEF MarkFailedAbandoned, At
<1>1. /\ TypeOK /\ RowsOK /\ WorkersOK /\ w \in Worker /\ t \in Task
      /\ HeldStatus(w) /\ HeldUpload(w) /\ HeldRetry(w) /\ HeldVersion(w) /\ Settled(NoUpload)
  BY <1>0, InHand
<1>2. /\ UNCHANGED <<report, processed, file, object, live, used, timers, prod, up, crashes,
                     leaked>>
      /\ faults \in Nat /\ faults' \in {faults, faults + 1}
  <2>1. DBOk \/ DBFails
    BY DEF MarkFailedAbandoned
  <2> QED BY <1>1, <2>1, Counters DEF MarkFailedAbandoned, store
<1>3. row[t].status \in {"running", "gone"}
  BY <1>0, <1>1 DEF HeldStatus, Working
<1>4. CASE /\ DBOk
           /\ row' = IF Exists(t)
                     THEN [row EXCEPT ![t].status = "failed", ![t].next = "never",
                                      ![t].retry = @ + 1]
                     ELSE row
           /\ outbox' = IF Exists(t) THEN outbox \cup AbandonRecord(w) ELSE outbox
           /\ Goto(w, "abandon")
  <2>1. worker'[w].pc = "abandon" /\ worker'[w].id = t /\ worker'[w].upload = u0
    BY <1>1, <1>4, GotoEffect
  <2>2. /\ \A s \in Task : s # t => row'[s] = row[s]
        /\ row'[t].path = row[t].path /\ row'[t].ver = row[t].ver
        /\ row'[t].upload = row[t].upload
        /\ row'[t].status = IF row[t].status = "gone" THEN "gone" ELSE "failed"
    BY <1>1, <1>3, <1>4, FailedEffect, ExistsStatus DEF OnlyFailed
  <2>3. /\ outbox \subseteq outbox'
        /\ row[t].status # "gone" => u0 \in outbox' \cup {NoUpload}
    BY <1>1, <1>3, <1>4, ExistsStatus DEF AbandonRecord, Ids
  <2>4. StepOf(w)
    BY <1>0, <1>2, <2>2, <2>3 DEF StepOf
  <2>5. u0 \in outbox' \/ u0 \notin live'
    BY <1>0, <1>1, <1>2, <2>3 DEF HeldUpload, Settled
  <2>6. row[t].upload = u0 \/ row[t].upload \in outbox' \/ row[t].upload \notin live'
    BY <1>0, <1>1, <1>2, <2>3 DEF HeldUpload, Settled
  <2>7. HeldUpload(w)'
    BY <2>1, <2>2, <2>5, <2>6 DEF HeldUpload, Settled
  <2>8. HeldStatus(w)' /\ HeldRetry(w)' /\ HeldVersion(w)'
    BY <1>3, <2>1, <2>2 DEF HeldStatus, HeldRetry, HeldVersion, Working
  <2>9. ASSUME NEW u \in live', u = u0 PROVE Tracked(u)'
    BY <2>5, <2>9 DEF Tracked
  <2> QED BY <1>0, <1>2, <1>3, <2>1, <2>2, <2>4, <2>7, <2>8, <2>9, RowStep
<1>5. CASE DBFails /\ Goto(w, "backoff") /\ UNCHANGED <<row, outbox>>
  <2>1. /\ worker'[w].pc = "backoff" /\ worker'[w].id = t /\ worker'[w].upload = u0
        /\ worker'[w].retry = worker[w].retry
    BY <1>1, <1>5, GotoEffect
  <2>2. faults' > 0
    BY <1>2, <1>5, SMT DEF DBFails
  <2>3. StepOf(w)
    BY <1>0, <1>2, <1>5 DEF StepOf
  <2>4. HeldStatus(w)' /\ HeldRetry(w)' /\ HeldVersion(w)'
    BY <1>0, <1>1, <1>2, <1>5, <2>1, <2>2 DEF HeldStatus, HeldRetry, HeldVersion, Working
  <2>5. HeldUpload(w)'
    BY <1>0, <1>1, <1>2, <1>5, <2>1 DEF HeldUpload, Settled
  <2> QED BY <1>0, <1>2, <1>5, <2>1, <2>3, <2>4, <2>5, MoveStep
<1> QED BY <1>4, <1>5 DEF MarkFailedAbandoned

LEMMA NewMultipartUploadStep ==
  ASSUME IInv, NEW w, Only(w), NewMultipartUpload(w)
  PROVE  Safe'
<1> DEFINE t == worker[w].id
<1>0. worker[w].pc = "init" /\ up
  BY DEF NewMultipartUpload, At
<1>1. /\ TypeOK /\ RowsOK /\ WorkersOK /\ w \in Worker /\ t \in Task
      /\ HeldStatus(w) /\ HeldUpload(w) /\ HeldRetry(w) /\ HeldVersion(w)
      /\ \A s \in Task : row[s].upload \in used \cup {NoUpload}
  BY <1>0, InHand
<1>2. UNCHANGED <<row, report, outbox, processed, file, object, timers, prod, up, crashes, faults,
                  leaked>>
  BY DEF NewMultipartUpload, durable
<1>3. PICK n \in Upload \ used :
        /\ live' = live \cup {n} /\ used' = used \cup {n}
        /\ worker' = [worker EXCEPT ![w].upload = n, ![w].pc = "persist"]
  BY DEF NewMultipartUpload
<1>4. /\ worker'[w].pc = "persist" /\ worker'[w].id = t /\ worker'[w].upload = n
      /\ worker'[w].retry = worker[w].retry /\ worker'[w].stat = worker[w].stat
  BY <1>1, <1>3 DEF WorkersOK, WorkerType
<1>5. StepOf(w)
  BY <1>0, <1>2 DEF StepOf
<1>6. Settled(worker[w].upload) /\ Settled(row[t].upload)
  BY <1>0, <1>1 DEF HeldUpload
<1>7. WorkerInv' /\ DownInv'
  <2>1. HeldStatus(w)' /\ HeldRetry(w)' /\ HeldVersion(w)'
    BY <1>0, <1>1, <1>2, <1>4 DEF HeldStatus, HeldRetry, HeldVersion, Working
  <2>2. row[t].upload # n
    BY <1>1, <1>3, SetsAssumption
  <2>3. HeldUpload(w)'
    BY <1>2, <1>3, <1>4, <1>6, <2>2, SMT DEF HeldUpload, Settled
  <2> QED BY <1>4, <1>5, <2>1, <2>3, WorkerKept
<1>8. NotStranded'
  BY <1>4, <1>5, StrandedKept
<1>9. TimerInv'
  BY <1>5, TimersKept
<1>10. VersionInv'
  BY <1>2, VersionsKept
<1>11. UsedInv'
  <2>1. live' \subseteq used' /\ \A s \in Task : row'[s].upload \in used' \cup {NoUpload}
    BY <1>1, <1>2, <1>3 DEF UsedInv, IInv, Safe
  <2>2. n \in used' /\ \A v \in Worker : v = w
    BY <1>3 DEF Only
  <2>3. \A v \in Worker : worker'[v].upload \in used'
    BY <1>4, <2>2
  <2> QED BY <2>1, <2>3 DEF UsedInv
<1>12. UploadTracked'
  <2>1. Tracked(n)'
    BY <1>1, <1>4 DEF Tracked
  <2>2. ASSUME NEW u \in live, Tracked(u) PROVE Tracked(u)'
    <3>1. u = worker[w].upload \/ u = row[t].upload => Tracked(u)'
      BY <1>2, <1>6, <2>2 DEF Settled, Tracked
    <3> QED BY <1>1, <1>2, <2>2, <3>1, TrackedKept
  <2> QED BY <1>2, <1>3, <2>1, <2>2 DEF UploadTracked, IInv, Safe
<1> QED BY <1>7, <1>8, <1>9, <1>10, <1>11, <1>12 DEF Safe

\* SaveMultipartProgress writes the worker's upload into the row: what the row named
\* before is settled, or the same.
LEMMA SaveStep ==
  ASSUME IInv, NEW w, StepOf(w),
         worker[w].pc = "persist" \/ (worker[w].pc = "parts" /\ worker' = worker),
         UNCHANGED <<report, outbox, object, live, used, leaked>>,
         OnlyUpload(worker[w].id, worker[w].upload), row[worker[w].id].status # "gone",
         worker'[w].pc = "parts", worker'[w].id = worker[w].id,
         worker'[w].upload = worker[w].upload, worker'[w].retry = worker[w].retry,
         worker'[w].stat = worker[w].stat
  PROVE  Safe'
<1> DEFINE t == worker[w].id
           u0 == worker[w].upload
<1>1. /\ TypeOK /\ RowsOK /\ WorkersOK /\ w \in Worker /\ t \in Task
      /\ HeldStatus(w) /\ HeldUpload(w) /\ HeldRetry(w) /\ HeldVersion(w)
      /\ u0 \in used \cup {NoUpload}
      /\ \A s \in Task : row[s].upload \in used \cup {NoUpload}
  BY InHand DEF StepOf
<1>2. UNCHANGED <<prod, file, processed, crashes, timers>> /\ Only(w)
      /\ faults' \in {faults, faults + 1}
  BY DEF StepOf
<1>3. WorkerInv' /\ DownInv'
  <2>1. HeldStatus(w)' /\ HeldRetry(w)' /\ HeldVersion(w)'
    BY <1>1, <1>2 DEF HeldStatus, HeldRetry, HeldVersion, Working, OnlyUpload
  <2>2. HeldUpload(w)'
    BY DEF HeldUpload, OnlyUpload
  <2> QED BY <2>1, <2>2, WorkerKept
<1>4. NotStranded'
  BY StrandedKept
<1>5. TimerInv'
  BY TimersKept
<1>6. VersionInv'
  <2>1. \A s \in Task : /\ row'[s].ver = row[s].ver /\ row'[s].path = row[s].path
                        /\ row'[s].status = row[s].status
    BY DEF OnlyUpload
  <2> QED BY <1>2, <2>1, VersionsKept
<1>7. UsedInv'
  <2>1. \A s \in Task : row'[s].upload \in used \cup {NoUpload}
    BY <1>1 DEF OnlyUpload
  <2>2. \A v \in Worker : worker'[v].upload \in used \cup {NoUpload}
    BY <1>1, <1>2 DEF Only
  <2> QED BY <2>1, <2>2, UsedKept
<1>8. UploadTracked'
  <2>1. ASSUME NEW u \in live, Tracked(u) PROVE Tracked(u)'
    <3>1. u = u0 => Tracked(u)'
      BY <1>1 DEF Tracked
    <3>2. row[t].upload = u0 \/ Settled(row[t].upload)
      BY <1>1 DEF HeldUpload
    <3>3. u = row[t].upload => Tracked(u)'
      BY <2>1, <3>1, <3>2 DEF Settled, Tracked
    <3> QED BY <1>1, <1>2, <2>1, <3>1, <3>3, TrackedKept DEF OnlyUpload
  <2> QED BY <1>1, <1>2, <2>1, TrackedStep DEF IInv, Safe
<1> QED BY <1>3, <1>4, <1>5, <1>6, <1>7, <1>8 DEF Safe

LEMMA SavePartStep ==
  ASSUME IInv, NEW w, Only(w), SavePart(w)
  PROVE  Safe'
<1>0. worker[w].pc = "parts" /\ up /\ up' = up
  BY DEF SavePart, At
<1>1. TypeOK /\ RowsOK /\ worker[w].id \in Task
  BY <1>0, InHand
<1>2. OnlyUpload(worker[w].id, worker[w].upload) /\ row[worker[w].id].status # "gone"
  BY <1>1, UploadEffect, ExistsStatus DEF SavePart
<1>3. UNCHANGED <<report, outbox, processed, file, object, live, used, worker, timers, prod,
                  crashes, faults, leaked>>
  BY DEF SavePart, store
<1>4. StepOf(w)
  BY <1>0, <1>2, <1>3 DEF StepOf, OnlyUpload
<1> QED BY <1>0, <1>2, <1>3, <1>4, SaveStep

LEMMA PersistInitiationStep ==
  ASSUME IInv, NEW w, Only(w), PersistInitiation(w)
  PROVE  Safe'
<1> DEFINE t == worker[w].id
<1>0. worker[w].pc = "persist" /\ up
  BY DEF PersistInitiation, At
<1>1. /\ TypeOK /\ RowsOK /\ WorkersOK /\ w \in Worker /\ t \in Task
      /\ HeldStatus(w) /\ HeldUpload(w) /\ HeldRetry(w) /\ HeldVersion(w)
      /\ worker[w].upload \in used \cup {NoUpload}
      /\ \A s \in Task : row[s].upload \in used \cup {NoUpload}
  BY <1>0, InHand
<1>2. /\ UNCHANGED <<report, outbox, processed, file, object, live, used, timers, prod, up,
                     crashes, leaked>>
      /\ faults \in Nat /\ faults' \in {faults, faults + 1}
  BY <1>1, Counters DEF PersistInitiation, store
<1>3. CASE /\ Exists(t) /\ Goto(w, "parts")
           /\ row' = [row EXCEPT ![t].upload = worker[w].upload, ![t].pver = worker[w].stat]
  <2>1. OnlyUpload(t, worker[w].upload) /\ row[t].status # "gone"
    BY <1>1, <1>3, UploadEffect, ExistsStatus
  <2>2. /\ worker'[w].pc = "parts" /\ worker'[w].id = t /\ worker'[w].upload = worker[w].upload
        /\ worker'[w].retry = worker[w].retry /\ worker'[w].stat = worker[w].stat
    BY <1>1, <1>3, GotoEffect
  <2>3. StepOf(w)
    BY <1>0, <1>2, <2>1 DEF StepOf, OnlyUpload
  <2> QED BY <1>0, <1>2, <2>1, <2>2, <2>3, SaveStep
<1>4. CASE Goto(w, "unwind") /\ UNCHANGED row
  <2>1. /\ worker'[w].pc = "unwind" /\ worker'[w].id = t /\ worker'[w].upload = worker[w].upload
        /\ worker'[w].retry = worker[w].retry /\ worker'[w].stat = worker[w].stat
    BY <1>1, <1>4, GotoEffect
  <2>2. StepOf(w)
    BY <1>0, <1>2, <1>4 DEF StepOf
  <2>3. WorkerInv' /\ DownInv'
    <3>1. HeldStatus(w)' /\ HeldRetry(w)' /\ HeldVersion(w)'
      BY <1>0, <1>1, <1>2, <1>4, <2>1 DEF HeldStatus, HeldRetry, HeldVersion, Working
    <3>2. HeldUpload(w)'
      BY <1>0, <1>1, <1>2, <1>4, <2>1 DEF HeldUpload, Settled
    <3> QED BY <2>1, <2>2, <3>1, <3>2, WorkerKept
  <2>4. NotStranded'
    BY <2>1, <2>2, StrandedKept
  <2>5. TimerInv'
    BY <2>2, TimersKept
  <2>6. VersionInv'
    BY <1>2, <1>4, VersionsKept
  <2>7. UsedInv'
    BY <1>1, <1>2, <1>4, <2>1, UsedKept DEF Only
  <2>8. UploadTracked'
    <3>1. ASSUME NEW u \in live, Tracked(u) PROVE Tracked(u)'
      BY <1>0, <1>1, <1>2, <1>4, <2>1, <3>1 DEF Tracked, Only, Recoverable, Armed
    <3> QED BY <1>1, <1>2, <3>1, TrackedStep DEF IInv, Safe
  <2> QED BY <2>3, <2>4, <2>5, <2>6, <2>7, <2>8 DEF Safe
<1> QED BY <1>3, <1>4 DEF PersistInitiation

LEMMA UnwindInitiationStep ==
  ASSUME IInv, NEW w, Only(w), UnwindInitiation(w)
  PROVE  Safe'
<1> DEFINE t == worker[w].id
           u0 == worker[w].upload
<1>0. worker[w].pc = "unwind" /\ up
  BY DEF UnwindInitiation, At
<1>1. /\ TypeOK /\ RowsOK /\ WorkersOK /\ w \in Worker /\ t \in Task
      /\ HeldStatus(w) /\ HeldUpload(w) /\ HeldRetry(w) /\ HeldVersion(w) /\ Settled(NoUpload)
      /\ \A s \in Task : row[s].upload \in used \cup {NoUpload}
  BY <1>0, InHand
<1>2. UNCHANGED <<row, report, outbox, processed, file, object, used, timers, prod, up, crashes,
                  faults>>
  BY DEF UnwindInitiation, durable
<1>3. /\ live' \subseteq live /\ live' \ leaked' \subseteq (live \ leaked) \ {u0}
  <2>1. \A u \in live : u \in Upload
    BY <1>1 DEF TypeOK
  <2>2. CASE live' = live \ {u0} /\ UNCHANGED leaked
    BY <2>2
  <2>3. CASE leaked' = leaked \cup Ids(u0) /\ UNCHANGED live
    BY <2>1, <2>3, SetsAssumption DEF Ids
  <2> QED BY <2>2, <2>3 DEF UnwindInitiation
<1>4. /\ worker'[w].pc = "fail" /\ worker'[w].id = t /\ worker'[w].upload = NoUpload
      /\ worker'[w].retry = worker[w].retry
  BY <1>1 DEF UnwindInitiation, WorkersOK, WorkerType
<1>5. StepOf(w)
  BY <1>0, <1>2 DEF StepOf
<1>6. Settled(row[t].upload)
  BY <1>0, <1>1 DEF HeldUpload
<1>7. WorkerInv' /\ DownInv'
  <2>1. HeldStatus(w)' /\ HeldRetry(w)' /\ HeldVersion(w)'
    BY <1>0, <1>1, <1>2, <1>4 DEF HeldStatus, HeldRetry, HeldVersion, Working
  <2>2. HeldUpload(w)'
    BY <1>1, <1>2, <1>3, <1>4, <1>6 DEF HeldUpload, Settled
  <2> QED BY <1>4, <1>5, <2>1, <2>2, WorkerKept
<1>8. NotStranded'
  BY <1>4, <1>5, StrandedKept
<1>9. TimerInv'
  BY <1>5, TimersKept
<1>10. VersionInv'
  BY <1>2, VersionsKept
<1>11. UsedInv'
  BY <1>1, <1>2, <1>3, <1>4, UsedKept DEF Only
<1>12. UploadTracked'
  <2>1. ASSUME NEW u \in live' \ leaked', Tracked(u) PROVE Tracked(u)'
    <3>1. u = row[t].upload => Tracked(u)'
      BY <1>2, <1>3, <1>6, <2>1 DEF Settled, Tracked
    <3>2. u # u0
      BY <1>3
    <3> QED BY <1>1, <1>2, <2>1, <3>1, <3>2, TrackedKept
  <2>2. live' \ leaked' \subseteq live \ leaked
    BY <1>3
  <2> QED BY <1>1, <1>2, <2>1, <2>2, TrackedStep DEF IInv, Safe
<1> QED BY <1>7, <1>8, <1>9, <1>10, <1>11, <1>12 DEF Safe

LEMMA StoreObjectStep ==
  ASSUME IInv, NEW w, Only(w), StoreObject(w)
  PROVE  Safe'
<1> DEFINE t == worker[w].id
           u0 == worker[w].upload
           p0 == row[t].path
           v0 == worker[w].stat
<1>0. worker[w].pc \in {"put", "parts"} /\ up
  BY DEF StoreObject, At
<1>1. /\ TypeOK /\ RowsOK /\ WorkersOK /\ w \in Worker /\ t \in Task
      /\ HeldStatus(w) /\ HeldUpload(w) /\ HeldRetry(w) /\ HeldVersion(w)
      /\ u0 \in used \cup {NoUpload}
      /\ \A s \in Task : row[s].upload \in used \cup {NoUpload}
  BY <1>0, InHand
<1>2. UNCHANGED <<row, report, outbox, processed, file, used, timers, prod, up, crashes, faults,
                  leaked>>
  BY DEF StoreObject, durable
<1>3. /\ worker'[w].pc \in {"report", "fail"} /\ worker'[w].id = t /\ worker'[w].upload = u0
      /\ worker'[w].retry = worker[w].retry /\ worker'[w].stat = v0
  <2>1. Goto(w, "report") \/ FailWith(w, FALSE)
    BY DEF StoreObject
  <2> QED BY <1>1, <2>1, GotoEffect, FailEffect
<1>4. live' \subseteq live /\ (u0 \in outbox \/ u0 \notin live')
  <2>1. CASE worker[w].pc = "put" /\ UNCHANGED live
    BY <1>1, <2>1 DEF HeldUpload, Settled
  <2>2. CASE live' = live \ {u0}
    BY <2>2
  <2> QED BY <2>1, <2>2 DEF StoreObject, At
<1>5. StepOf(w)
  BY <1>0, <1>2 DEF StepOf
<1>6. /\ p0 \in Path /\ row[t].ver <= v0 /\ object[p0] <= v0 /\ v0 <= file[p0]
      /\ object'[p0] = v0 /\ \A p \in Path : p # p0 => object'[p] = object[p]
      /\ v0 \in 0..MaxVer
  <2>1. p0 \in Path /\ v0 \in 0..MaxVer
    BY <1>1, Fields
  <2>2. row[t].ver <= v0 /\ object[p0] <= v0 /\ v0 <= file[p0]
    BY <1>0, <1>1 DEF HeldVersion
  <2>3. object' = [object EXCEPT ![p0] = v0]
    BY DEF StoreObject
  <2> QED BY <1>1, <2>1, <2>2, <2>3 DEF TypeOK
<1>7. WorkerInv' /\ DownInv'
  <2>1. HeldStatus(w)' /\ HeldRetry(w)'
    BY <1>0, <1>1, <1>2, <1>3 DEF HeldStatus, HeldRetry, Working
  <2>2. HeldVersion(w)'
    BY <1>2, <1>3, <1>6 DEF HeldVersion
  <2>3. row[t].upload = u0 \/ row[t].upload \in outbox \/ row[t].upload \notin live'
    BY <1>0, <1>1, <1>4 DEF HeldUpload, Settled
  <2>4. HeldUpload(w)'
    BY <1>2, <1>3, <1>4, <2>3 DEF HeldUpload, Settled
  <2> QED BY <1>3, <1>5, <2>1, <2>2, <2>4, WorkerKept
<1>8. NotStranded'
  BY <1>3, <1>5, StrandedKept
<1>9. TimerInv'
  BY <1>5, TimersKept
<1>10. VersionInv'
  <2>1. \A p \in Path : object[p] <= object'[p] /\ object'[p] <= file[p] /\ object[p] \in Nat
                        /\ object'[p] \in Nat /\ processed[p] \in Nat
    <3>1. \A p \in Path : object[p] <= file[p] /\ object[p] \in Nat /\ processed[p] \in Nat
      BY <1>1, Numbers DEF IInv, Safe, VersionInv
    <3>2. v0 \in Nat
      BY <1>6, VersionIsNat
    <3>3. ASSUME NEW p \in Path
          PROVE  object[p] <= object'[p] /\ object'[p] <= file[p] /\ object'[p] \in Nat
      <4>1. CASE p = p0
        BY <1>6, <3>2, <4>1
      <4>2. CASE p # p0
        <5>1. object[p] <= object[p]
          BY <3>1, SMT
        <5> QED BY <1>6, <3>1, <4>2, <5>1
      <4> QED BY <4>1, <4>2
    <3> QED BY <3>1, <3>3
  <2>2. \A s \in Task : row[s].path \in Path /\ row[s].ver \in Nat
    BY <1>1, Numbers
  <2>3. VersionInv
    BY DEF IInv, Safe
  <2>4. \A p \in Path : processed[p] <= object'[p] /\ object'[p] <= file[p]
    BY <2>1, <2>3, SMT DEF VersionInv
  <2>5. \A s \in Task : row[s].status = "reported" /\ report[s] = "ok" =>
                           row[s].ver <= object'[row[s].path]
    BY <2>1, <2>2, <2>3, SMT DEF VersionInv
  <2> QED BY <1>2, <2>3, <2>4, <2>5 DEF VersionInv
<1>11. UsedInv'
  BY <1>1, <1>2, <1>3, <1>4, UsedKept DEF Only
<1>12. UploadTracked'
  <2>1. ASSUME NEW u \in live' \ leaked', u = u0 PROVE Tracked(u)'
    BY <1>2, <1>4, <2>1 DEF Tracked
  <2>2. live' \ leaked' \subseteq live \ leaked
    BY <1>2, <1>4
  <2> QED BY <1>0, <1>5, <2>1, <2>2, HeldTracked
<1> QED BY <1>7, <1>8, <1>9, <1>10, <1>11, <1>12 DEF Safe

\* The backoff: while no statement failed, the row a timer is armed for can be
\* recovered by a start as well.
LEMMA ScheduleRetryStep ==
  ASSUME IInv, NEW w, Only(w), ScheduleRetry(w)
  PROVE  Safe'
<1> DEFINE t == worker[w].id
           u0 == worker[w].upload
           tm0 == [task |-> t, upload |-> u0, retry |-> worker[w].retry, by |-> w]
<1>0. /\ worker[w].pc \in {"backoff", "fail"} /\ up
      /\ worker[w].pc = "fail" => ~GiveUp(w)
  <2>1. At(w, "backoff") \/ (At(w, "fail") /\ ~GiveUp(w))
    BY DEF ScheduleRetry
  <2> QED BY <2>1 DEF At
<1>1. /\ TypeOK /\ RowsOK /\ WorkersOK /\ w \in Worker /\ t \in Task
      /\ HeldStatus(w) /\ HeldUpload(w) /\ HeldRetry(w)
      /\ \A s \in Task : row[s].upload \in used \cup {NoUpload}
  BY <1>0, InHand
<1>2. /\ UNCHANGED <<report, outbox, processed, file, object, live, used, prod, up, crashes,
                     leaked>>
      /\ faults \in Nat /\ faults' \in {faults, faults + 1}
      /\ timers' = timers \cup {tm0}
  <2>1. DBOk \/ DBFails
    BY DEF ScheduleRetry
  <2> QED BY <1>1, <2>1, Counters DEF ScheduleRetry, store
<1>3. row[t].status \in {"running", "gone"}
  BY <1>0, <1>1 DEF HeldStatus, Working
<1>4. worker'[w].pc = "idle" /\ worker'[w].upload = NoUpload
  <2>1. Finish(w)
    BY DEF ScheduleRetry
  <2> QED BY <1>1, <2>1, FinishEffect
<1>5. /\ \A s \in Task : s # t => row'[s] = row[s]
      /\ row'[t].path = row[t].path /\ row'[t].ver = row[t].ver
      /\ row'[t].upload = row[t].upload
      /\ row[t].status = "gone" => row'[t].status = "gone"
      /\ \/ /\ row[t].status # "gone" /\ row'[t].status = "failed"
            /\ row'[t].next = "scheduled" /\ row'[t].retry = row[t].retry + 1
         \/ row'[t].status = row[t].status /\ (faults' > 0 \/ row[t].status = "gone")
  <2>1. CASE DBOk /\ row' = IF Exists(t)
                     THEN [row EXCEPT ![t].status = "failed", ![t].next = "scheduled",
                                      ![t].retry = @ + 1]
                     ELSE row
    BY <1>1, <1>3, <2>1, FailedEffect, ExistsStatus DEF OnlyFailed
  <2>2. CASE DBFails /\ UNCHANGED row
    <3>1. faults' > 0
      BY <1>2, <2>2, Growing DEF DBFails
    <3> QED BY <2>2, <3>1
  <2> QED BY <2>1, <2>2 DEF ScheduleRetry
<1>6. /\ tm0 \in timers' /\ tm0.task = t /\ timers \subseteq timers'
      /\ \A s \in Task : s = t \/ Armed(s) => Armed(s)'
  <2>1. tm0.task = t /\ tm0 \in timers' /\ timers \subseteq timers'
    BY <1>2
  <2>2. \A s \in Task : s = t => \E tm \in timers' : tm.task = s
    BY <2>1
  <2>3. \A s \in Task : Armed(s) => \E tm \in timers' : tm.task = s
    BY <2>1 DEF Armed
  <2> QED BY <2>1, <2>2, <2>3 DEF Armed
<1>7. NotStranded'
  <2>1. faults' = 0 => row'[t].status # "running"
    <3>1. faults' = 0 => ~(faults' > 0)
      BY SMT
    <3> QED BY <1>3, <1>5, <3>1
  <2>2. \A s \in Task : s # t => ~Held(s)
    BY DEF Held, Only
  <2>3. faults' = 0 => faults = 0
    BY <1>2, SMT
  <2>4. \A s \in Task : faults' = 0 /\ s # t => row'[s].status # "running"
    BY <1>2, <1>0, <1>5, <2>2, <2>3 DEF NotStranded, IInv, Safe
  <2>5. ASSUME NEW s \in Task, faults' = 0, row'[s].status = "failed",
               row'[s].next = "scheduled", row'[s].retry < RetryMax
        PROVE  Armed(s)'
    BY <1>0, <1>2, <1>5, <1>6, <2>2, <2>3, <2>5 DEF NotStranded, IInv, Safe
  <2> QED BY <2>1, <2>4, <2>5 DEF NotStranded
<1>8. TimerInv'
  <2>1. /\ TimerInv /\ (faults' = 0 => faults = 0)
        /\ \A tm \in timers : tm.task \in Task /\ tm.task # t
    <3>1. ~Armed(t) /\ TimerInv
      BY <1>0, <1>1 DEF IInv, Safe, WorkerInv
    <3>2. \A tm \in timers : tm.task \in Task
      BY <1>1, Fields
    <3>3. faults' = 0 => faults = 0
      BY <1>2, Growing
    <3> QED BY <3>1, <3>2, <3>3 DEF Armed
  <2>2. \A tm \in timers : row'[tm.task] = row[tm.task]
    BY <1>5, <2>1
  <2>3. \A tm \in timers : Recoverable(tm.task) => Recoverable(tm.task)'
    BY <2>2 DEF Recoverable
  <2>4. row'[t].status \in {"failed", "running", "gone"}
    BY <1>3, <1>5
  <2>5. ASSUME faults' = 0, row'[t].status = "failed"
        PROVE  row'[t].next # "never" /\ row'[t].retry < RetryMax
    <3>1. /\ row[t].status # "gone" /\ row'[t].next = "scheduled"
          /\ row'[t].retry = row[t].retry + 1
      BY <1>2, <1>3, <1>5, <2>5
    <3>2. worker[w].pc = "fail" /\ ~GiveUp(w)
      <4>1. faults = 0 /\ ~(0 > 0)
        BY <1>2, <2>5, Growing, SMT
      <4> QED BY <1>0, <1>1, <4>1 DEF HeldRetry
    <3>3. row[t].retry = worker[w].retry
      BY <1>1, <3>1, <3>2 DEF HeldRetry, Working
    <3>4. worker[w].retry \in Nat /\ ~(worker[w].retry + 1 >= RetryMax)
      BY <1>1, <3>2, Numbers DEF GiveUp
    <3>5. worker[w].retry + 1 < RetryMax
      BY <3>4, SizesAssumption, SMT
    <3> QED BY <3>1, <3>3, <3>5
  <2>6. ASSUME NEW tm \in timers'
        PROVE  /\ row'[tm.task].status \in {"failed", "running", "gone"}
               /\ faults' = 0 /\ row'[tm.task].status = "failed" => Recoverable(tm.task)'
    <3>1. CASE tm = tm0
      BY <1>6, <2>4, <2>5, <3>1 DEF Recoverable
    <3>2. CASE tm \in timers
      BY <2>1, <2>2, <2>3, <3>2 DEF TimerInv
    <3> QED BY <1>2, <3>1, <3>2
  <2>7. \A a, b \in timers' : a # b => a.task # b.task
    BY <1>2, <1>6, <2>1 DEF TimerInv
  <2> QED BY <2>6, <2>7 DEF TimerInv
<1>9. WorkerInv' /\ DownInv'
  BY <1>0, <1>2, <1>4 DEF WorkerInv, DownInv, Only
<1>10. VersionInv'
  <2>1. \A s \in Task : /\ row'[s].ver = row[s].ver /\ row'[s].path = row[s].path
                        /\ row'[s].status = "reported" => row[s].status = "reported"
    BY <1>5
  <2> QED BY <1>2, <2>1, VersionsKept
<1>11. UsedInv'
  BY <1>1, <1>2, <1>4, <1>5, UsedKept DEF Only
<1>12. UploadTracked'
  <2>1. ASSUME NEW u \in live, Tracked(u) PROVE Tracked(u)'
    <3>1. CASE u \in outbox
      BY <1>2, <3>1 DEF Tracked
    <3>2. CASE u \notin outbox
      <4>1. u = u0 \/ u = row[t].upload => u = row[t].upload /\ row[t].status # "gone"
        BY <1>0, <1>1, <3>2, HeldOnly DEF IInv, Safe
      <4>2. u = row[t].upload /\ row[t].status # "gone" => Tracked(u)'
        <5>1. ASSUME u = row[t].upload, row[t].status # "gone"
              PROVE  \E s \in Task : /\ row'[s].upload = u
                                     /\ \/ row'[s].status = "running"
                                        \/ row'[s].status = "failed" /\ Armed(s)'
          BY <1>1, <1>3, <1>5, <1>6, <5>1
        <5> QED BY <5>1 DEF Tracked
      <4> QED BY <1>1, <1>2, <1>5, <1>6, <2>1, <4>1, <4>2, TrackedKept
    <3> QED BY <3>1, <3>2
  <2> QED BY <1>1, <1>2, <2>1, TrackedStep DEF IInv, Safe
<1> QED BY <1>7, <1>8, <1>9, <1>10, <1>11, <1>12 DEF Safe

-----------------------------------------------------------------------------
(* The steps of the other goroutines.                                      *)

\* Steps that leave the queue, the workers, the timers and the store alone.
LEMMA QuietStep ==
  ASSUME IInv,
         UNCHANGED <<row, report, outbox, processed, object, live, used, worker, timers, up,
                     crashes, leaked>>,
         faults' \in {faults, faults + 1}, \A p \in Path : file[p] <= file'[p],
         file' \in [Path -> Ver], prod'.ver <= file'[prod'.path]
  PROVE  Safe'
<1>1. /\ TypeOK /\ Safe /\ faults \in Nat /\ (faults' = 0 => faults = 0)
      /\ (faults > 0 => faults' > 0)
  BY SizesAssumption, SMT DEF IInv, TypeOK
<1>2. NotStranded'
  BY <1>1 DEF Safe, NotStranded, Held, Armed
<1>3. UploadTracked'
  <2>1. \A u : Tracked(u) => Tracked(u)'
    BY DEF Tracked, Recoverable, Armed
  <2> QED BY <1>1, <2>1, TrackedStep DEF Safe
<1>4. \A p \in Path : file[p] \in Nat /\ file'[p] \in Nat /\ object[p] \in Nat
  BY <1>1, SMT DEF TypeOK, Ver
<1>5. WorkerInv'
  <2> SUFFICES ASSUME NEW w \in Worker, worker[w].pc # "idle"
               PROVE  ~Armed(worker[w].id)' /\ HeldStatus(w)' /\ HeldUpload(w)' /\ HeldRetry(w)'
                      /\ HeldVersion(w)'
    BY DEF WorkerInv
  <2>1. /\ ~Armed(worker[w].id) /\ HeldStatus(w) /\ HeldUpload(w) /\ HeldRetry(w)
        /\ HeldVersion(w) /\ worker[w].id \in Task
    BY <1>1 DEF Safe, WorkerInv, TypeOK
  <2>2. row[worker[w].id].path \in Path /\ worker[w].stat \in Nat
    BY <1>1, <2>1, Numbers
  <2>3. HeldVersion(w)'
    <3>1. worker[w].stat <= file[row[worker[w].id].path] =>
            worker[w].stat <= file'[row[worker[w].id].path]
      BY <1>4, <2>2, SMT
    <3> QED BY <2>1, <3>1 DEF HeldVersion
  <2>4. HeldRetry(w)'
    BY <1>1, <2>1 DEF HeldRetry
  <2>5. ~Armed(worker[w].id)' /\ HeldStatus(w)' /\ HeldUpload(w)'
    BY <2>1 DEF Armed, HeldStatus, HeldUpload, Settled
  <2> QED BY <2>3, <2>4, <2>5
<1>6. TimerInv' /\ DownInv' /\ UsedInv'
  BY <1>1 DEF Safe, TimerInv, DownInv, UsedInv, Recoverable
<1>7. VersionInv'
  <2>1. \A t \in Task : row[t].path \in Path /\ row[t].ver \in Nat
    BY <1>1, Numbers
  <2>2. VersionInv
    BY <1>1 DEF Safe
  <2>3. \A p \in Path : object[p] <= file'[p]
    BY <1>4, <2>2, SMT DEF VersionInv
  <2>4. \A t \in Task : row[t].ver <= file'[row[t].path]
    BY <1>4, <2>1, <2>2, SMT DEF VersionInv
  <2> QED BY <2>2, <2>3, <2>4 DEF VersionInv
<1> QED BY <1>2, <1>3, <1>5, <1>6, <1>7 DEF Safe

LEMMA QuietActions ==
  ASSUME IInv,
         \/ \E p \in Path : Detect(p) \/ Modify(p)
         \/ EnqueueFails \/ EnforceCapacityDone \/ UNCHANGED vars
         \/ \E t \in Task : SendReport(t)
  PROVE  Safe'
<1>1. /\ TypeOK /\ file \in [Path -> Ver] /\ prod.ver <= file[prod.path]
      /\ IdleProd.ver <= file[IdleProd.path] /\ prod.path \in Path
      /\ \A p \in Path : file[p] \in Nat /\ file[p] <= file[p]
  <2>1. TypeOK /\ file \in [Path -> Ver] /\ prod.ver <= file[prod.path]
    BY DEF IInv, Safe, VersionInv, TypeOK
  <2>2. \A p \in Path : file[p] \in Nat /\ file[p] <= file[p] /\ 0 <= file[p]
    BY <2>1, SMT DEF Ver
  <2>3. IdleProd.ver = 0 /\ IdleProd.path \in Path /\ prod.path \in Path
    BY <2>1, Defaults, Fields DEF IdleProd
  <2> QED BY <2>1, <2>2, <2>3
<1>2. faults \in Nat /\ faults \in {faults, faults + 1}
  BY <1>1, Numbers
<1>3. ASSUME NEW p \in Path, Detect(p) PROVE Safe'
  <2>1. prod'.ver = file[p] /\ prod'.path = p
    BY <1>3 DEF Detect, IdleProd
  <2> QED BY <1>1, <1>2, <1>3, <2>1, QuietStep DEF Detect, durable, store
<1>4. ASSUME NEW p \in Path, Modify(p) PROVE Safe'
  <2>1. /\ file' \in [Path -> Ver] /\ \A q \in Path : file[q] <= file'[q]
        /\ \A q \in Path : file'[q] \in Nat
    <3>1. file[p] < MaxVer /\ file' = [file EXCEPT ![p] = @ + 1]
      BY <1>4 DEF Modify
    <3>2. file \in [Path -> Ver] /\ MaxVer \in Nat
      BY <1>1, SizesAssumption
    <3> QED BY <3>1, <3>2, SMT DEF Ver
  <2>2. prod.ver \in Nat /\ file[prod.path] \in Nat
    BY <1>1, Numbers
  <2>3. prod.ver <= file'[prod.path]
    <3>1. file[prod.path] <= file'[prod.path] /\ file'[prod.path] \in Nat
      BY <1>1, <2>1
    <3>2. prod.ver <= file[prod.path]
      BY <1>1
    <3> QED BY <2>2, <3>1, <3>2, SMT
  <2> QED BY <1>2, <1>4, <2>1, <2>3, QuietStep DEF Modify, durable, store
<1>5. CASE EnqueueFails
  <2>1. faults' \in {faults, faults + 1}
    BY <1>5 DEF EnqueueFails, DBFails
  <2> QED BY <1>1, <1>5, <2>1, QuietStep DEF EnqueueFails, durable, store
<1>6. CASE EnforceCapacityDone
  <2>1. faults' \in {faults, faults + 1}
    BY <1>6 DEF EnforceCapacityDone, DBOk, DBFails
  <2> QED BY <1>1, <1>6, <2>1, QuietStep DEF EnforceCapacityDone, durable, store
<1>7. CASE UNCHANGED vars
  BY <1>1, <1>2, <1>7, QuietStep DEF vars
<1>8. ASSUME NEW t \in Task, SendReport(t) PROVE Safe'
  BY <1>1, <1>2, <1>8, QuietStep DEF SendReport, durable, store
<1> QED BY <1>3, <1>4, <1>5, <1>6, <1>7, <1>8

\* The workers do not notice a step that leaves their rows alone and unsettles no
\* upload.
LEMMA HandsKept ==
  ASSUME IInv, UNCHANGED <<worker, file, object>>, faults' \in {faults, faults + 1},
         \A u : Settled(u) => u \in outbox' \/ u \notin live',
         \A w \in Worker : worker[w].pc # "idle" =>
           row'[worker[w].id] = row[worker[w].id] /\ ~Armed(worker[w].id)'
  PROVE  WorkerInv'
<1> SUFFICES ASSUME NEW w \in Worker, worker[w].pc # "idle"
             PROVE  HeldStatus(w)' /\ HeldUpload(w)' /\ HeldRetry(w)' /\ HeldVersion(w)'
  BY DEF WorkerInv
<1>1. HeldStatus(w) /\ HeldUpload(w) /\ HeldRetry(w) /\ HeldVersion(w) /\ faults \in Nat
  BY Numbers DEF IInv, Safe, WorkerInv
<1>2. row'[worker[w].id] = row[worker[w].id] /\ (faults > 0 => faults' > 0)
  BY <1>1, Growing
<1>3. HeldStatus(w)' /\ HeldRetry(w)' /\ HeldVersion(w)'
  BY <1>1, <1>2 DEF HeldStatus, HeldRetry, HeldVersion
<1>4. HeldUpload(w)'
  BY <1>1, <1>2 DEF HeldUpload, Settled
<1> QED BY <1>3, <1>4

LEMMA AbortUploadStep ==
  ASSUME IInv, NEW u \in Upload, AbortUpload(u)
  PROVE  Safe'
<1>1. /\ UNCHANGED <<row, report, outbox, processed, file, object, used, worker, timers, prod, up,
                     crashes, faults, leaked>>
      /\ live' = live \ {u}
  BY DEF AbortUpload, durable
<1>2. TypeOK /\ Safe
  BY DEF IInv
<1>3. \A w \in Worker : worker[w].pc # "idle" => ~Armed(worker[w].id)'
  BY <1>1, <1>2 DEF Safe, WorkerInv, Armed
<1>4. WorkerInv'
  BY <1>1, <1>3, HandsKept DEF Settled
<1>5. UploadTracked'
  <2>1. \A x : Tracked(x) => Tracked(x)'
    BY <1>1 DEF Tracked, Recoverable, Armed
  <2> QED BY <1>1, <1>2, <2>1, TrackedStep DEF Safe
<1>6. NotStranded' /\ TimerInv' /\ DownInv'
  BY <1>1, <1>2 DEF Safe, NotStranded, Held, Armed, TimerInv, Recoverable, DownInv
<1>7. UsedInv' /\ VersionInv'
  BY <1>1, <1>2 DEF Safe, UsedInv, VersionInv
<1> QED BY <1>4, <1>5, <1>6, <1>7 DEF Safe

LEMMA DeleteMultipartAbortStep ==
  ASSUME IInv, NEW u \in Upload, DeleteMultipartAbort(u)
  PROVE  Safe'
<1>1. /\ UNCHANGED <<row, report, processed, file, object, live, used, worker, timers, prod, up,
                     crashes, faults, leaked>>
      /\ outbox' = outbox \ {u} /\ u \notin live
  BY DEF DeleteMultipartAbort, store
<1>2. TypeOK /\ Safe
  BY DEF IInv
<1>3. \A w \in Worker : worker[w].pc # "idle" => ~Armed(worker[w].id)'
  BY <1>1, <1>2 DEF Safe, WorkerInv, Armed
<1>4. WorkerInv'
  BY <1>1, <1>3, HandsKept DEF Settled
<1>5. UploadTracked'
  <2>1. \A x \in live : Tracked(x) => Tracked(x)'
    BY <1>1 DEF Tracked, Recoverable, Armed
  <2> QED BY <1>1, <1>2, <2>1, TrackedStep DEF Safe
<1>6. NotStranded' /\ TimerInv' /\ DownInv'
  BY <1>1, <1>2 DEF Safe, NotStranded, Held, Armed, TimerInv, Recoverable, DownInv
<1>7. UsedInv' /\ VersionInv'
  BY <1>1, <1>2 DEF Safe, UsedInv, VersionInv
<1> QED BY <1>4, <1>5, <1>6, <1>7 DEF Safe

\* The acknowledged row is in nobody's hands.
LEMMA HandleAcknowledgementStep ==
  ASSUME IInv, NEW t \in Task, HandleAcknowledgement(t)
  PROVE  Safe'
<1>1. /\ UNCHANGED <<outbox, file, object, live, used, worker, timers, prod, up, crashes, faults,
                     leaked>>
      /\ row[t].status = "reported" /\ report[t] # "none"
  BY DEF HandleAcknowledgement, store, Completes
<1>2. TypeOK /\ Safe /\ RowsOK /\ WorkersOK
  BY Fields DEF IInv
<1>3. OnlyStatus(t, "completed")
  BY <1>2, StatusEffect DEF HandleAcknowledgement, AckedStatus
<1>4. \A w \in Worker : worker[w].pc # "idle" => worker[w].id # t /\ worker[w].id \in Task
  <2> SUFFICES ASSUME NEW w \in Worker, worker[w].pc # "idle" PROVE worker[w].id # t
    BY <1>2 DEF WorkersOK
  <2>1. HeldStatus(w) /\ worker[w].pc \in Pcs
    BY <1>2 DEF Safe, WorkerInv, WorkersOK, WorkerType
  <2> QED BY <1>1, <2>1 DEF HeldStatus, Working, Pcs
<1>5. \A tm \in timers : tm.task # t /\ tm.task \in Task
  BY <1>1, <1>2, Fields DEF Safe, TimerInv
<1>6. WorkerInv'
  <2>1. \A w \in Worker : worker[w].pc # "idle" =>
          row'[worker[w].id] = row[worker[w].id] /\ ~Armed(worker[w].id)'
    BY <1>1, <1>2, <1>3, <1>4 DEF OnlyStatus, Safe, WorkerInv, Armed
  <2> QED BY <1>1, <2>1, HandsKept DEF Settled
<1>7. UploadTracked'
  <2>1. \A x : Tracked(x) => Tracked(x)'
    BY <1>1, <1>3 DEF Tracked, Recoverable, Armed, OnlyStatus
  <2> QED BY <1>1, <1>2, <2>1, TrackedStep DEF Safe
<1>8. NotStranded'
  BY <1>1, <1>2, <1>3 DEF Safe, NotStranded, Held, Armed, OnlyStatus
<1>9. TimerInv'
  BY <1>1, <1>2, <1>3, <1>5 DEF Safe, TimerInv, Recoverable, OnlyStatus
<1>10. DownInv' /\ UsedInv'
  BY <1>1, <1>2, <1>3 DEF Safe, DownInv, UsedInv, OnlyStatus
<1>11. VersionInv'
  <2>1. row[t].path \in Path /\ row[t].ver \in Nat
    BY <1>2, Numbers
  <2>2. report[t] = "ok" => row[t].ver <= object[row[t].path]
    BY <1>1, <1>2 DEF Safe, VersionInv
  <2>3. \A p \in Path : processed'[p] = processed[p]
                        \/ (report[t] = "ok" /\ p = row[t].path /\ processed'[p] = row[t].ver)
    BY <1>2, <2>1 DEF HandleAcknowledgement, ProcessedVersion, TypeOK
  <2>4. \A p \in Path : processed'[p] <= object[p]
    BY <1>2, <2>1, <2>2, <2>3 DEF Safe, VersionInv
  <2>5. \A s \in Task : s # t => row'[s] = row[s] /\ report'[s] = report[s]
    BY <1>2, <1>3 DEF OnlyStatus, HandleAcknowledgement, TypeOK
  <2>6. row'[t].ver = row[t].ver /\ row'[t].path = row[t].path /\ row'[t].status # "reported"
    BY <1>3 DEF OnlyStatus
  <2> QED BY <1>1, <1>2, <2>4, <2>5, <2>6 DEF Safe, VersionInv
<1> QED BY <1>6, <1>7, <1>8, <1>9, <1>10, <1>11 DEF Safe

\* A new row takes a place that no worker and no timer knows.
LEMMA EnqueueStep ==
  ASSUME IInv, EnqueueIfNoActive
  PROVE  Safe'
<1>1. /\ UNCHANGED <<report, outbox, processed, file, object, live, used, worker, timers, up,
                     crashes, faults, leaked>>
      /\ faults \in {faults, faults + 1}
  BY DEF EnqueueIfNoActive, store, DBOk
<1>2. TypeOK /\ Safe /\ RowsOK /\ WorkersOK /\ file \in [Path -> Ver]
  BY Fields DEF IInv, TypeOK
<1>3. \A p \in Path : file[p] \in Nat /\ file[p] <= file[p] /\ 0 <= file[p]
  BY <1>2, SMT DEF Ver
<1>4. CASE prod' = IdleProd /\ UNCHANGED row
  <2>1. prod'.ver <= file[prod'.path]
    BY <1>3, <1>4, Defaults DEF IdleProd
  <2> QED BY <1>1, <1>2, <1>3, <1>4, <2>1, QuietStep
<1>5. ASSUME NEW t \in Task, IsOldest(t, WithStatus({"absent"})),
             row' = [row EXCEPT ![t] = [AbsentRow EXCEPT
                       !.status = "pending", !.path = prod.path, !.ver = prod.ver]],
             prod' = [prod EXCEPT !.pc = "trim", !.id = t]
      PROVE  Safe'
  <2>1. row[t].status = "absent"
    BY <1>5 DEF IsOldest, WithStatus
  <2>2. /\ \A s \in Task : s # t => row'[s] = row[s]
        /\ row'[t].status = "pending" /\ row'[t].path = prod.path /\ row'[t].ver = prod.ver
        /\ row'[t].upload = NoUpload
    BY <1>2, <1>5 DEF RowsOK, AbsentRow
  <2>3. prod'.path = prod.path /\ prod'.ver = prod.ver
    BY <1>2, <1>5 DEF TypeOK, ProdType
  <2>4. \A w \in Worker : worker[w].pc # "idle" => worker[w].id # t /\ worker[w].id \in Task
    <3> SUFFICES ASSUME NEW w \in Worker, worker[w].pc # "idle" PROVE worker[w].id # t
      BY <1>2 DEF WorkersOK
    <3>1. HeldStatus(w) /\ worker[w].pc \in Pcs
      BY <1>2 DEF Safe, WorkerInv, WorkersOK, WorkerType
    <3> QED BY <2>1, <3>1 DEF HeldStatus, Working, Pcs
  <2>5. \A tm \in timers : tm.task # t /\ tm.task \in Task
    BY <1>2, <2>1, Fields DEF Safe, TimerInv
  <2>6. WorkerInv'
    <3>1. \A w \in Worker : worker[w].pc # "idle" =>
            row'[worker[w].id] = row[worker[w].id] /\ ~Armed(worker[w].id)'
      BY <1>1, <1>2, <2>2, <2>4 DEF Safe, WorkerInv, Armed
    <3> QED BY <1>1, <3>1, HandsKept DEF Settled
  <2>7. UploadTracked'
    <3>1. \A x : Tracked(x) => Tracked(x)'
      BY <1>1, <2>1, <2>2 DEF Tracked, Recoverable, Armed
    <3> QED BY <1>1, <1>2, <3>1, TrackedStep DEF Safe
  <2>8. NotStranded'
    BY <1>1, <1>2, <2>2 DEF Safe, NotStranded, Held, Armed
  <2>9. TimerInv'
    BY <1>1, <1>2, <2>2, <2>5 DEF Safe, TimerInv, Recoverable
  <2>10. DownInv' /\ UsedInv'
    BY <1>1, <1>2, <2>2 DEF Safe, DownInv, UsedInv
  <2>11. VersionInv'
    BY <1>1, <1>2, <2>2, <2>3 DEF Safe, VersionInv
  <2> QED BY <2>6, <2>7, <2>8, <2>9, <2>10, <2>11 DEF Safe
<1> QED BY <1>4, <1>5 DEF EnqueueIfNoActive

\* The eviction writes the abort record of the row it removes, so whoever still has
\* the row in hand finds its upload settled.
LEMMA DeleteOldestEvictableStep ==
  ASSUME IInv, DeleteOldestEvictable
  PROVE  Safe'
<1>1. UNCHANGED <<report, processed, file, object, live, used, worker, timers, prod, up, crashes,
                  faults, leaked>>
  BY DEF DeleteOldestEvictable, store
<1>2. TypeOK /\ Safe /\ RowsOK /\ WorkersOK
  BY Fields DEF IInv
<1>3. PICK t \in Task : /\ IsOldest(t, Evictable) /\ row' = [row EXCEPT ![t].status = "gone"]
                        /\ outbox' = outbox \cup Ids(row[t].upload)
  BY DEF DeleteOldestEvictable, EvictionRecord
<1>4. row[t].status \in {"pending", "failed"}
  BY <1>3 DEF IsOldest, Evictable, WithStatus
<1>5. OnlyStatus(t, "gone")
  BY <1>2, <1>3, StatusEffect
<1>6. /\ outbox \subseteq outbox'
      /\ \A u \in live : u = row[t].upload => u \in outbox'
      /\ \A u : Settled(u) => Settled(u)'
      /\ row[t].upload \in outbox' \/ row[t].upload \notin live'
  BY <1>1, <1>2, <1>3, SetsAssumption DEF Ids, TypeOK, Settled
<1>7. WorkerInv'
  <2> SUFFICES ASSUME NEW w \in Worker, worker[w].pc # "idle"
               PROVE  ~Armed(worker[w].id)' /\ HeldStatus(w)' /\ HeldUpload(w)' /\ HeldRetry(w)'
                      /\ HeldVersion(w)'
    BY <1>1 DEF WorkerInv
  <2>1. /\ ~Armed(worker[w].id) /\ HeldStatus(w) /\ HeldUpload(w) /\ HeldRetry(w)
        /\ HeldVersion(w) /\ worker[w].id \in Task /\ worker[w].pc \in Pcs
    BY <1>2 DEF Safe, WorkerInv, WorkersOK, WorkerType
  <2>2. ~Armed(worker[w].id)'
    BY <1>1, <2>1 DEF Armed
  <2>3. CASE worker[w].id # t
    <3>1. row'[worker[w].id] = row[worker[w].id]
      BY <1>5, <2>1, <2>3 DEF OnlyStatus
    <3>2. HeldStatus(w)' /\ HeldRetry(w)' /\ HeldVersion(w)'
      BY <1>1, <2>1, <3>1 DEF HeldStatus, HeldRetry, HeldVersion
    <3>3. HeldUpload(w)'
      BY <1>1, <1>6, <2>1, <3>1 DEF HeldUpload, Settled
    <3> QED BY <2>2, <3>2, <3>3
  <2>4. CASE worker[w].id = t
    <3>1. worker[w].pc \in {"selected", "abandon", "reportFail"}
      BY <1>4, <2>1, <2>4 DEF HeldStatus, Working, Pcs
    <3>2. HeldStatus(w)' /\ HeldRetry(w)' /\ HeldVersion(w)'
      BY <1>1, <1>5, <2>4, <3>1 DEF HeldStatus, HeldRetry, HeldVersion, Working, OnlyStatus
    <3>3. HeldUpload(w)'
      BY <1>1, <1>5, <1>6, <2>1, <2>4, <3>1 DEF HeldUpload, Settled, OnlyStatus
    <3> QED BY <2>2, <3>2, <3>3
  <2> QED BY <2>3, <2>4
<1>8. UploadTracked'
  <2>1. ASSUME NEW u \in live, Tracked(u) PROVE Tracked(u)'
    <3>1. CASE u \in outbox \/ \E w \in Worker : worker[w].pc # "idle" /\ worker[w].upload = u
      BY <1>1, <1>6, <3>1 DEF Tracked
    <3>2. ASSUME NEW s \in Task, row[s].upload = u,
                 \/ row[s].status \in {"pending", "running"}
                 \/ Recoverable(s)
                 \/ row[s].status = "failed" /\ Armed(s)
          PROVE  Tracked(u)'
      <4>1. CASE s = t
        BY <1>6, <3>2, <4>1 DEF Tracked
      <4>2. CASE s # t
        BY <1>1, <1>5, <3>2, <4>2 DEF Tracked, Recoverable, Armed, OnlyStatus
      <4> QED BY <4>1, <4>2
    <3> QED BY <2>1, <3>1, <3>2 DEF Tracked
  <2>2. faults' \in {faults, faults + 1} /\ crashes' \in {crashes, crashes + 1}
    BY <1>1
  <2> QED BY <1>1, <1>2, <2>1, <2>2, TrackedStep DEF Safe
<1>9. NotStranded'
  BY <1>1, <1>2, <1>5 DEF Safe, NotStranded, Held, Armed, OnlyStatus
<1>10. TimerInv'
  <2>1. \A tm \in timers : tm.task \in Task
    BY <1>2, Fields
  <2>2. ASSUME NEW tm \in timers
        PROVE  /\ row'[tm.task].status \in {"failed", "running", "gone"}
               /\ faults = 0 /\ row'[tm.task].status = "failed" => Recoverable(tm.task)'
    <3>1. CASE tm.task = t
      BY <1>5, <3>1 DEF OnlyStatus
    <3>2. CASE tm.task # t
      BY <1>2, <1>5, <2>1, <3>2 DEF OnlyStatus, Safe, TimerInv, Recoverable
    <3> QED BY <3>1, <3>2
  <2> QED BY <1>1, <1>2, <2>2 DEF Safe, TimerInv
<1>11. DownInv' /\ UsedInv' /\ VersionInv'
  BY <1>1, <1>2, <1>5 DEF Safe, DownInv, UsedInv, VersionInv, OnlyStatus
<1> QED BY <1>7, <1>8, <1>9, <1>10, <1>11 DEF Safe

\* A backoff ends: the row waits again, or was evicted and its upload is recorded; a
\* failed write leaves what the next start recovers.
LEMMA TimerFiresStep ==
  ASSUME IInv, NEW tm \in timers, TimerFires(tm)
  PROVE  Safe'
<1> DEFINE t == tm.task
<1>1. /\ UNCHANGED <<report, processed, file, object, live, used, worker, prod, up, crashes,
                     leaked>>
      /\ timers' = timers \ {tm}
  BY DEF TimerFires, store
<1>2. TypeOK /\ Safe /\ RowsOK /\ WorkersOK /\ t \in Task
  BY Fields DEF IInv
<1>3. faults \in Nat /\ faults' \in {faults, faults + 1}
  BY <1>2, Counters DEF TimerFires
<1>4. /\ row[t].status \in {"failed", "running", "gone"}
      /\ faults = 0 /\ row[t].status = "failed" => Recoverable(t)
      /\ \A s \in timers' : s.task # t /\ s.task \in Task
  BY <1>1, <1>2, Fields DEF Safe, TimerInv
<1>5. /\ \A s \in Task : s # t => row'[s] = row[s]
      /\ row'[t].path = row[t].path /\ row'[t].ver = row[t].ver /\ row'[t].upload = row[t].upload
      /\ \/ row[t].status # "gone" /\ row'[t].status = "pending"
         \/ row[t].status = "gone" /\ row'[t] = row[t]
         \/ faults' = faults + 1 /\ row'[t] = row[t]
      /\ outbox \subseteq outbox'
  <2>1. CASE DBOk /\ Exists(t) /\ row' = [row EXCEPT ![t].status = "pending"] /\ UNCHANGED outbox
    <3>1. OnlyStatus(t, "pending") /\ row[t].status # "gone"
      BY <1>2, <2>1, StatusEffect, ExistsStatus
    <3> QED BY <2>1, <3>1 DEF OnlyStatus
  <2>2. CASE DBOk /\ ~Exists(t) /\ outbox' = outbox \cup Ids(tm.upload) /\ UNCHANGED row
    BY <1>2, <1>4, <2>2, ExistsStatus
  <2>3. CASE DBFails /\ UNCHANGED <<row, outbox>>
    BY <2>3 DEF DBFails
  <2> QED BY <2>1, <2>2, <2>3 DEF TimerFires, RequeueStatus
<1>6. \A w \in Worker : worker[w].pc # "idle" => worker[w].id # t /\ worker[w].id \in Task
  BY <1>2 DEF Safe, WorkerInv, Armed, WorkersOK
<1>7. \A s \in Task : Armed(s) /\ s # t => Armed(s)'
  BY <1>1 DEF Armed
<1>8. WorkerInv'
  <2>1. \A w \in Worker : worker[w].pc # "idle" =>
          row'[worker[w].id] = row[worker[w].id] /\ ~Armed(worker[w].id)'
    BY <1>1, <1>2, <1>5, <1>6 DEF Safe, WorkerInv, Armed
  <2>2. \A u : Settled(u) => u \in outbox' \/ u \notin live'
    BY <1>1, <1>5 DEF Settled
  <2> QED BY <1>1, <1>3, <2>1, <2>2, HandsKept
<1>9. UploadTracked'
  <2>1. ASSUME Few', NEW u \in live, Tracked(u) PROVE Tracked(u)'
    <3>1. CASE u \in outbox \/ \E w \in Worker : worker[w].pc # "idle" /\ worker[w].upload = u
      BY <1>1, <1>5, <3>1 DEF Tracked
    <3>2. ASSUME NEW s \in Task, row[s].upload = u, s # t,
                 \/ row[s].status \in {"pending", "running"}
                 \/ Recoverable(s)
                 \/ row[s].status = "failed" /\ Armed(s)
          PROVE  Tracked(u)'
      BY <1>5, <1>7, <3>2 DEF Tracked, Recoverable
    <3>3. ASSUME row[t].upload = u, row[t].status # "gone"
          PROVE  Tracked(u)'
      <4>1. CASE row'[t].status = "pending"
        BY <1>2, <1>5, <3>3, <4>1 DEF Tracked
      <4>2. CASE faults' = faults + 1 /\ row'[t] = row[t]
        <5>1. crashes \in Nat
          BY <1>2, Numbers
        <5>2. faults' # 0 /\ crashes' + faults' = 1
          BY <1>3, <2>1, <4>2, SMT DEF Few
        <5>3. faults = 0
          BY <1>1, <1>3, <4>2, <5>1, <5>2, SMT
        <5>4. row[t].status = "running" \/ Recoverable(t)
          BY <1>4, <3>3, <5>3
        <5>5. row'[t].status = "running"
              \/ (row'[t].status = "failed" /\ row'[t].next # "never" /\ row'[t].retry < RetryMax)
          BY <4>2, <5>4 DEF Recoverable
        <5>6. \E s \in Task : row'[s].upload = u /\ (row'[s].status = "running" \/ Recoverable(s)')
          BY <1>2, <1>5, <3>3, <5>5 DEF Recoverable
        <5> QED BY <5>6 DEF Tracked
      <4> QED BY <1>5, <3>3, <4>1, <4>2
    <3>4. ASSUME NEW s \in Task, row[s].upload = u,
                 \/ row[s].status \in {"pending", "running"}
                 \/ Recoverable(s)
                 \/ row[s].status = "failed" /\ Armed(s)
          PROVE  Tracked(u)'
      BY <3>2, <3>3, <3>4 DEF Recoverable
    <3> QED BY <2>1, <3>1, <3>4 DEF Tracked
  <2> QED BY <1>1, <1>2, <1>3, <2>1, TrackedStep DEF Safe
<1>10. NotStranded'
  <2> SUFFICES ASSUME up', faults' = 0, NEW s \in Task
               PROVE  /\ row'[s].status = "running" => Held(s)'
                      /\ row'[s].status = "failed" /\ row'[s].next = "scheduled"
                           /\ row'[s].retry < RetryMax => Armed(s)' \/ Held(s)'
    BY DEF NotStranded
  <2>1. up /\ faults = 0 /\ faults' # faults + 1
    BY <1>1, <1>3, SMT
  <2>2. CASE s = t
    BY <1>5, <2>1, <2>2
  <2>3. CASE s # t
    BY <1>1, <1>2, <1>5, <1>7, <2>1, <2>3 DEF Safe, NotStranded, Held
  <2> QED BY <2>2, <2>3
<1>11. TimerInv'
  <2>1. \A s \in timers' : row'[s.task] = row[s.task]
    BY <1>4, <1>5
  <2>2. faults' = 0 => faults = 0
    BY <1>3, SMT
  <2> QED BY <1>1, <1>2, <2>1, <2>2 DEF Safe, TimerInv, Recoverable
<1>12. DownInv' /\ UsedInv'
  BY <1>1, <1>2, <1>5 DEF Safe, DownInv, UsedInv
<1>13. VersionInv'
  <2>1. \A s \in Task : /\ row'[s].ver = row[s].ver /\ row'[s].path = row[s].path
                        /\ row'[s].status = "reported" => row[s].status = "reported"
    BY <1>4, <1>5
  <2> QED BY <1>1, <2>1, VersionsKept
<1> QED BY <1>8, <1>9, <1>10, <1>11, <1>12, <1>13 DEF Safe

\* A crash forgets what memory held: what a worker had in hand is in its row, in the
\* abort outbox, or was lost between NewMultipartUpload and the first persist.
LEMMA CrashStep ==
  ASSUME IInv, Crash
  PROVE  Safe'
<1>1. /\ UNCHANGED <<row, report, outbox, processed, file, object, live, used, faults>>
      /\ up' = FALSE /\ crashes' = crashes + 1 /\ timers' = {} /\ prod' = IdleProd
      /\ worker' = [w \in Worker |-> IdleWorker]
  BY DEF Crash, durable, store
<1>2. TypeOK /\ Safe /\ RowsOK /\ WorkersOK
  BY Fields DEF IInv
<1>3. \A w \in Worker : worker'[w].pc = "idle" /\ worker'[w].upload = NoUpload
  BY <1>1 DEF IdleWorker
<1>4. faults \in Nat /\ crashes \in Nat
  BY <1>2, SizesAssumption, SMT DEF TypeOK
<1>5. UploadTracked'
  <2>1. live' \ leaked' \subseteq live \ leaked
    BY <1>1 DEF Crash
  <2>2. ASSUME Few', NEW u \in live' \ leaked', Tracked(u) PROVE Tracked(u)'
    <3>1. faults = 0
      <4>1. ASSUME NEW f \in Nat, NEW c \in Nat, f = 0 \/ (c + 1) + f = 1 PROVE f = 0
        BY <4>1, SMT
      <4> QED BY <1>1, <1>4, <2>2, <4>1 DEF Few
    <3>2. CASE u \in outbox
      BY <1>1, <3>2 DEF Tracked
    <3>3. ASSUME NEW w \in Worker, worker[w].pc # "idle", worker[w].upload = u, u \notin outbox
          PROVE  Tracked(u)'
      <4>1. u \in live /\ worker[w].pc \notin {"persist", "unwind"}
        BY <1>1, <2>2, <3>3 DEF Crash
      <4>2. HeldUpload(w) /\ HeldStatus(w) /\ worker[w].pc \in Pcs /\ worker[w].id \in Task
        BY <1>2, <3>3 DEF Safe, WorkerInv, WorkersOK, WorkerType
      <4>3. row[worker[w].id].status # "gone" /\ row[worker[w].id].upload = u
        BY <3>3, <4>1, <4>2 DEF HeldUpload, Settled
      <4>4. worker[w].pc \notin {"abandon", "abandonDone", "reportFail"}
        BY <3>3, <4>1, <4>2 DEF HeldUpload, Settled
      <4>5. row[worker[w].id].status \in {"pending", "running"}
        BY <3>3, <4>1, <4>2, <4>3, <4>4 DEF HeldStatus, Pcs, Working
      <4> QED BY <1>1, <4>2, <4>3, <4>5 DEF Tracked
    <3>4. ASSUME NEW s \in Task, row[s].upload = u,
                 \/ row[s].status \in {"pending", "running"}
                 \/ Recoverable(s)
                 \/ row[s].status = "failed" /\ Armed(s)
          PROVE  Tracked(u)'
      <4>1. row[s].status = "failed" /\ Armed(s) => Recoverable(s)
        BY <1>2, <3>1 DEF Safe, TimerInv, Armed
      <4> QED BY <1>1, <3>4, <4>1 DEF Tracked, Recoverable
    <3> QED BY <2>2, <3>2, <3>3, <3>4 DEF Tracked
  <2>3. faults' \in {faults, faults + 1} /\ crashes' \in {crashes, crashes + 1}
    BY <1>1
  <2> QED BY <1>2, <2>1, <2>2, <2>3, TrackedStep DEF Safe
<1>6. NotStranded' /\ WorkerInv' /\ DownInv' /\ TimerInv'
  BY <1>1, <1>3 DEF NotStranded, WorkerInv, DownInv, TimerInv
<1>7. UsedInv'
  BY <1>1, <1>2, <1>3 DEF Safe, UsedInv
<1>8. VersionInv'
  <2>1. IdleProd.ver = 0 /\ IdleProd.path \in Path /\ \A p \in Path : 0 <= file[p]
    BY <1>2, Defaults, SMT DEF IdleProd, TypeOK, Ver
  <2> QED BY <1>1, <1>2, <2>1 DEF Safe, VersionInv
<1> QED BY <1>5, <1>6, <1>7, <1>8 DEF Safe

\* A start takes up what the process before it had in hand: every interrupted row is
\* pending again, and every row with a schedule is pending or has a timer.
LEMMA StartStep ==
  ASSUME IInv, Start
  PROVE  Safe'
<1>1. /\ UNCHANGED <<report, processed, file, object, live, used, worker, prod, crashes, faults,
                     leaked>>
      /\ ~up /\ up' = TRUE /\ outbox \subseteq outbox'
  BY DEF Start, store
<1>2. /\ TypeOK /\ Safe /\ RowsOK /\ WorkersOK /\ timers = {}
      /\ \A w \in Worker : worker[w].pc = "idle"
  BY <1>1, Fields DEF IInv, Safe, DownInv
<1>3. PICK due \in SUBSET Scheduled :
        /\ row' = [t \in Task |->
             CASE t \in Interrupted ->
                    [row[t] EXCEPT !.status = "pending", !.ver = file[row[t].path]]
               [] t \in due -> [row[t] EXCEPT !.status = "pending"]
               [] OTHER -> row[t]]
        /\ timers' = {[task |-> t, upload |-> NoUpload, retry |-> row[t].retry,
                       by |-> "startup"] : t \in NotYetDue(due)}
  BY DEF Start
<1>4. ASSUME NEW t \in Task
      PROVE  /\ row'[t].path = row[t].path /\ row'[t].upload = row[t].upload
             /\ row'[t].next = row[t].next /\ row'[t].retry = row[t].retry
             /\ \/ /\ row[t].status = "running" /\ row'[t].status = "pending"
                   /\ row'[t].ver = file[row[t].path]
                \/ /\ row[t].status = "failed" /\ t \in due /\ row'[t].status = "pending"
                   /\ row'[t].ver = row[t].ver
                \/ row[t].status # "running" /\ t \notin due /\ row'[t] = row[t]
  <2>1. row[t] \in RowType
    BY <1>2 DEF RowsOK
  <2>2. /\ t \in Interrupted <=> row[t].status = "running"
        /\ t \in due => row[t].status = "failed"
    BY <1>3 DEF Interrupted, WithStatus, Scheduled, Recoverable
  <2>3. CASE row[t].status = "running"
    <3>1. row'[t] = [row[t] EXCEPT !.status = "pending", !.ver = file[row[t].path]]
      BY <1>3, <2>2, <2>3
    <3> QED BY <2>1, <2>3, <3>1 DEF RowType
  <2>4. CASE row[t].status # "running" /\ t \in due
    <3>1. row'[t] = [row[t] EXCEPT !.status = "pending"]
      BY <1>3, <2>2, <2>4
    <3> QED BY <2>1, <2>2, <2>4, <3>1 DEF RowType
  <2>5. CASE row[t].status # "running" /\ t \notin due
    BY <1>3, <2>2, <2>5
  <2> QED BY <2>3, <2>4, <2>5
<1>5. /\ \A tm \in timers' : /\ tm.task \in Task /\ Recoverable(tm.task) /\ tm.task \notin due
      /\ \A a, b \in timers' : a.task = b.task => a = b
      /\ \A t \in Scheduled : t \notin due => Armed(t)'
  <2> DEFINE T(t) == [task |-> t, upload |-> NoUpload, retry |-> row[t].retry, by |-> "startup"]
  <2>1. \A t : T(t).task = t
    OBVIOUS
  <2>2. timers' = {T(t) : t \in NotYetDue(due)}
    BY <1>3
  <2> HIDE DEF T
  <2>3. \A tm \in timers' : \E t \in NotYetDue(due) : tm = T(t) /\ tm.task = t
    BY <2>1, <2>2
  <2>4. \A t \in NotYetDue(due) : T(t) \in timers'
    BY <2>2
  <2>5. \A t \in NotYetDue(due) : t \in Task /\ Recoverable(t) /\ t \notin due
    BY DEF NotYetDue, Scheduled
  <2>6. \A t \in Scheduled : t \notin due => \E tm \in timers' : tm.task = t
    BY <2>1, <2>4 DEF NotYetDue
  <2> QED BY <2>3, <2>5, <2>6, SMT DEF Armed
<1>6. NotStranded'
  <2> SUFFICES ASSUME faults' = 0, NEW t \in Task
               PROVE  /\ row'[t].status # "running"
                      /\ row'[t].status = "failed" /\ row'[t].next = "scheduled"
                           /\ row'[t].retry < RetryMax => Armed(t)'
    BY DEF NotStranded
  <2>1. row'[t].status # "running"
    BY <1>4
  <2>2. ASSUME row'[t].status = "failed", row'[t].next = "scheduled", row'[t].retry < RetryMax
        PROVE  Armed(t)'
    <3>1. row'[t] = row[t] /\ t \notin due
      BY <1>4, <2>2
    <3>2. t \in Scheduled
      BY <2>2, <3>1 DEF Scheduled, Recoverable
    <3> QED BY <1>5, <3>1, <3>2
  <2> QED BY <2>1, <2>2
<1>7. UploadTracked'
  <2>1. ASSUME NEW u, Tracked(u) PROVE Tracked(u)'
    <3>1. CASE u \in outbox
      BY <1>1, <3>1 DEF Tracked
    <3>2. ASSUME NEW t \in Task, row[t].upload = u,
                 row[t].status \in {"pending", "running"} \/ Recoverable(t)
          PROVE  Tracked(u)'
      <4>1. row'[t].upload = u /\ (row'[t].status \in {"pending", "running"} \/ Recoverable(t)')
        BY <1>4, <3>2 DEF Recoverable
      <4> QED BY <4>1 DEF Tracked
    <3>3. \A t \in Task : ~Armed(t)
      BY <1>2 DEF Armed
    <3> QED BY <1>2, <2>1, <3>1, <3>2, <3>3 DEF Tracked
  <2>2. faults' \in {faults, faults + 1} /\ crashes' \in {crashes, crashes + 1}
    BY <1>1
  <2> QED BY <1>1, <1>2, <2>1, <2>2, TrackedStep DEF Safe
<1>8. TimerInv'
  <2>1. \A tm \in timers' : row'[tm.task] = row[tm.task] /\ row[tm.task].status = "failed"
    BY <1>4, <1>5 DEF Recoverable
  <2>2. \A tm \in timers' : Recoverable(tm.task)'
    BY <1>5, <2>1 DEF Recoverable
  <2> QED BY <1>5, <2>1, <2>2 DEF TimerInv
<1>9. WorkerInv' /\ DownInv'
  BY <1>1, <1>2 DEF WorkerInv, DownInv
<1>10. UsedInv'
  BY <1>1, <1>2, <1>4 DEF Safe, UsedInv
<1>11. VersionInv'
  <2>1. \A p \in Path : file[p] \in Nat /\ file[p] <= file[p]
    BY <1>2, SMT DEF TypeOK, Ver
  <2>2. \A t \in Task : row[t].path \in Path
    BY <1>2, Fields
  <2> QED BY <1>1, <1>2, <1>4, <2>1, <2>2 DEF Safe, VersionInv
<1> QED BY <1>6, <1>7, <1>8, <1>9, <1>10, <1>11 DEF Safe

-----------------------------------------------------------------------------
(* The theorems.                                                           *)

LEMMA SafeStep == ASSUME OneWorker PROVE IInv /\ [Next]_vars => IInv'
<1> SUFFICES ASSUME IInv, [Next]_vars PROVE IInv'
  OBVIOUS
<1>1. TypeOK' /\ ReportedHasReport'
  BY TypeStep, ReportStep DEF IInv
<1>2. \A w \in Worker : Only(w)
  BY DEF OneWorker, Only
<1>3. ASSUME NEW w \in Worker, WorkerStep(w) PROVE Safe'
  BY <1>2, <1>3, SelectStep, MarkRunningStep, CheckDedupStep, DedupCompleteStep,
     AbandonTaskUploadStep, PersistResultStep, UploadFileStep, AttemptFailsStep,
     DiscardStaleUploadStep, ResumeUploadStep, NewMultipartUploadStep, PersistInitiationStep,
     UnwindInitiationStep, SavePartStep, StoreObjectStep, MarkFailedAbandonedStep,
     ScheduleRetryStep
     DEF WorkerStep
<1>4. ASSUME \/ \E p \in Path : Detect(p) \/ Modify(p)
             \/ EnqueueFails \/ EnforceCapacityDone \/ UNCHANGED vars
             \/ \E t \in Task : SendReport(t)
      PROVE  Safe'
  BY <1>4, QuietActions
<1>5. ASSUME EnqueueIfNoActive \/ DeleteOldestEvictable PROVE Safe'
  BY <1>5, EnqueueStep, DeleteOldestEvictableStep
<1>6. ASSUME NEW tm \in timers, TimerFires(tm) PROVE Safe'
  BY <1>6, TimerFiresStep
<1>7. ASSUME NEW u \in Upload, AbortUpload(u) \/ DeleteMultipartAbort(u) PROVE Safe'
  BY <1>7, AbortUploadStep, DeleteMultipartAbortStep
<1>8. ASSUME NEW t \in Task, HandleAcknowledgement(t) PROVE Safe'
  BY <1>8, HandleAcknowledgementStep
<1>9. ASSUME Crash \/ Start PROVE Safe'
  BY <1>9, CrashStep, StartStep
<1>10. Safe'
  BY <1>3, <1>4, <1>5, <1>6, <1>7, <1>8, <1>9 DEF Next, ProducerStep
<1> QED BY <1>1, <1>10 DEF IInv

LEMMA SafeInit == ASSUME LegacyHasRetries PROVE Init => IInv
<1> SUFFICES ASSUME Init PROVE IInv
  OBVIOUS
<1>1. TypeOK
  BY TypeInit
<1>2. PICK legacy \in [Legacy -> Upload \cup {NoUpload}] :
        /\ row = [t \in Task |->
                    IF t \in Legacy
                    THEN [AbsentRow EXCEPT !.status = "failed", !.ver = 1,
                                           !.retry = 1, !.upload = legacy[t]]
                    ELSE AbsentRow]
        /\ used = {legacy[t] : t \in Legacy} \ {NoUpload}
  BY DEF Init
<1>3. \A t \in Legacy : /\ t \in Task /\ row[t].status = "failed" /\ row[t].ver = 1
                        /\ row[t].retry = 1 /\ row[t].upload = legacy[t]
                        /\ row[t].next = "zero"
  BY <1>2, SetsAssumption DEF AbsentRow
<1>4. \A t \in Task : t \notin Legacy => /\ row[t].status = "absent" /\ row[t].ver = 0
                                         /\ row[t].upload = NoUpload
  BY <1>2 DEF AbsentRow
<1>5. /\ ~up /\ timers = {} /\ live = used /\ faults = 0 /\ prod = IdleProd
      /\ \A w \in Worker : worker[w].pc = "idle" /\ worker[w].upload = NoUpload
      /\ \A p \in Path : processed[p] = 0 /\ object[p] = 0 /\ file[p] = 1
  BY DEF Init, IdleWorker
<1>6. NotStranded /\ WorkerInv /\ TimerInv /\ DownInv
  BY <1>5 DEF NotStranded, WorkerInv, TimerInv, DownInv
<1>7. UsedInv
  <2>1. \A t \in Legacy : legacy[t] \in used \cup {NoUpload}
    BY <1>2
  <2>2. \A t \in Task : row[t].upload \in used \cup {NoUpload}
    BY <1>3, <1>4, <2>1
  <2> QED BY <1>5, <2>2 DEF UsedInv
<1>8. UploadTracked
  <2> SUFFICES ASSUME NEW u \in used PROVE Tracked(u)
    BY <1>5 DEF UploadTracked
  <2>1. PICK t \in Legacy : legacy[t] = u
    BY <1>2
  <2>2. RetryMax > 1 /\ RetryMax \in Nat
    BY SizesAssumption DEF LegacyHasRetries
  <2>3. Recoverable(t) /\ row[t].upload = u /\ t \in Task
    BY <1>3, <2>1, <2>2 DEF Recoverable
  <2> QED BY <2>3 DEF Tracked
<1>9. ReportedHasReport
  BY <1>3, <1>4 DEF ReportedHasReport
<1>10. VersionInv
  <2>1. IdleProd.ver = 0 /\ IdleProd.path \in Path
    BY Defaults DEF IdleProd
  <2>2. \A t \in Task : /\ row[t].path \in Path /\ row[t].ver \in {0, 1}
                        /\ row[t].status # "reported"
    BY <1>1, <1>3, <1>4, Fields
  <2> QED BY <1>5, <2>1, <2>2, SMT DEF VersionInv
<1> QED BY <1>1, <1>6, <1>7, <1>8, <1>9, <1>10 DEF IInv, Safe

LEMMA SafeAlways == ASSUME OneWorker, LegacyHasRetries PROVE Spec => []IInv
<1>1. IInv /\ [Next]_vars => IInv'
  BY SafeStep
<1>2. Init => IInv
  BY SafeInit
<1> QED BY <1>1, <1>2, PTL DEF Spec

\* However often the agent crashes, or after one failed statement, a multipart upload
\* that exists in the store is on record for abortion, in use, or named by a row that
\* will be taken up (queue.go, aborts.go, executor.go).
THEOREM UploadsStayTracked ==
  ASSUME OneWorker, LegacyHasRetries PROVE Spec => []UploadTracked
<1>1. IInv => UploadTracked
  BY DEF IInv, Safe
<1> QED BY <1>1, SafeAlways, PTL

\* A version recorded as processed (CompleteReported) is in the object store, or a
\* later one is, whatever crashes, retries and late acknowledgements do.
THEOREM ProcessedVersionsAreStored ==
  ASSUME OneWorker, LegacyHasRetries PROVE Spec => []ProcessedIsStored
<1>1. IInv => ProcessedIsStored
  BY DEF IInv, Safe, VersionInv, ProcessedIsStored
<1> QED BY <1>1, SafeAlways, PTL

\* Every row has at most one owner, is not stranded while no statement has failed,
\* and has its report while it waits for the acknowledgement (DequeuePending,
\* handleFailure, recoverFailedTasks, SaveReport).
THEOREM RowsStayAccounted ==
  ASSUME OneWorker, LegacyHasRetries PROVE Spec => []RowsAccounted
<1>1. ASSUME IInv PROVE RowsAccounted
  <2>1. SingleOwner
    BY <1>1 DEF IInv, Safe, WorkerInv, TimerInv, SingleOwner, OneWorker
  <2> QED BY <1>1, <2>1 DEF RowsAccounted, IInv, Safe
<1>2. IInv => RowsAccounted
  BY <1>1
<1> QED BY <1>2, SafeAlways, PTL

-----------------------------------------------------------------------------
(* A row that is reported or completed is nobody's any more.               *)

Done(t) == row[t].status \in {"reported", "completed"}

\* All rows but t are what they were.
OthersKept(t) == \A s \in Task : s # t => row'[s] = row[s]

\* A worker changes a row only while it has it in hand as pending, running or failed.
LEMMA WorkerChanges ==
  ASSUME TypeOK, NEW w \in Worker, WorkerStep(w)
  PROVE  \/ row' = row
         \/ /\ worker[w].pc \in Working \cup {"selected", "reportFail"}
            /\ OthersKept(worker[w].id)
<1>1. row \in [Task -> RowType]
  BY DEF TypeOK
<1>2. CASE MarkRunning(w)
  BY <1>1, <1>2 DEF OthersKept, MarkRunning, At
<1>3. CASE DedupComplete(w)
  BY <1>1, <1>3 DEF OthersKept, DedupComplete, At, Working
<1>4. CASE PersistResult(w)
  BY <1>1, <1>4 DEF OthersKept, PersistResult, Working
<1>5. CASE PersistInitiation(w)
  BY <1>1, <1>5 DEF OthersKept, PersistInitiation, At, Working
<1>6. CASE SavePart(w)
  BY <1>1, <1>6 DEF OthersKept, SavePart, At, Working
<1>7. CASE MarkFailedAbandoned(w)
  BY <1>1, <1>7 DEF OthersKept, MarkFailedAbandoned, At, Working
<1>8. CASE ScheduleRetry(w)
  BY <1>1, <1>8 DEF OthersKept, ScheduleRetry, At, Working
<1>9. CASE Select(w) \/ CheckDedup(w) \/ AbandonTaskUpload(w) \/ UploadFile(w) \/ AttemptFails(w)
            \/ DiscardStaleUpload(w) \/ ResumeUpload(w) \/ NewMultipartUpload(w)
            \/ UnwindInitiation(w) \/ StoreObject(w)
  BY <1>9 DEF Select, CheckDedup, AbandonTaskUpload, UploadFile, AttemptFails, DiscardStaleUpload,
     ResumeUpload, NewMultipartUpload, UnwindInitiation, StoreObject, durable
<1> QED BY <1>2, <1>3, <1>4, <1>5, <1>6, <1>7, <1>8, <1>9 DEF WorkerStep

\* One step of the agent leaves a row that is done alone, except that the
\* acknowledgement completes a reported one.
LEMMA DoneStep ==
  ASSUME IInv, Next, NEW t \in Task, Done(t)
  PROVE  row'[t].status \in {row[t].status, "completed"}
<1>1. TypeOK /\ RowsOK /\ WorkersOK /\ WorkerInv /\ TimerInv /\ row \in [Task -> RowType]
  BY Fields DEF IInv, Safe, TypeOK
<1>2. row[t].status \notin {"pending", "running", "failed", "gone", "absent"}
  BY SMT DEF Done
<1>3. ASSUME NEW u, OthersKept(u), u # t PROVE row'[t] = row[t]
  BY <1>3 DEF OthersKept
<1>4. ASSUME NEW w \in Worker, WorkerStep(w) PROVE row'[t] = row[t]
  <2>1. CASE row' = row
    BY <2>1
  <2>2. CASE worker[w].pc \in Working \cup {"selected", "reportFail"} /\ OthersKept(worker[w].id)
    <3>1. worker[w].pc # "idle"
      BY <2>2, SMT DEF Working
    <3>2. HeldStatus(w)
      BY <1>1, <3>1 DEF WorkerInv
    <3>3. worker[w].id # t
      BY <1>2, <2>2, <3>2 DEF HeldStatus
    <3> QED BY <1>3, <2>2, <3>3
  <2> QED BY <1>1, <1>4, <2>1, <2>2, WorkerChanges
<1>5. ASSUME EnqueueIfNoActive PROVE row'[t] = row[t]
  BY <1>1, <1>2, <1>5 DEF EnqueueIfNoActive, IsOldest, WithStatus
<1>6. ASSUME DeleteOldestEvictable PROVE row'[t] = row[t]
  BY <1>1, <1>2, <1>6 DEF DeleteOldestEvictable, IsOldest, Evictable, WithStatus
<1>7. ASSUME NEW tm \in timers, TimerFires(tm) PROVE row'[t] = row[t]
  <2>1. tm.task # t
    BY <1>1, <1>2 DEF TimerInv
  <2> QED BY <1>1, <1>7, <2>1 DEF TimerFires
<1>8. ASSUME NEW s \in Task, HandleAcknowledgement(s)
      PROVE  row'[t].status \in {row[t].status, "completed"}
  <2>1. OnlyStatus(s, "completed")
    BY <1>1, <1>8, StatusEffect DEF HandleAcknowledgement, AckedStatus
  <2> QED BY <2>1 DEF OnlyStatus
<1>9. ASSUME Start PROVE row'[t] = row[t]
  <2>1. PICK due \in SUBSET Scheduled :
          row' = [s \in Task |->
             CASE s \in Interrupted ->
                    [row[s] EXCEPT !.status = "pending", !.ver = file[row[s].path]]
               [] s \in due -> [row[s] EXCEPT !.status = "pending"]
               [] OTHER -> row[s]]
    BY <1>9 DEF Start
  <2>2. t \notin Interrupted /\ t \notin due
    BY <1>2 DEF Interrupted, WithStatus, Scheduled, Recoverable
  <2> QED BY <2>1, <2>2
<1>10. ASSUME \/ \E p \in Path : Detect(p) \/ Modify(p)
              \/ EnqueueFails \/ EnforceCapacityDone \/ Crash
              \/ \E s \in Task : SendReport(s)
              \/ \E u \in Upload : AbortUpload(u) \/ DeleteMultipartAbort(u)
       PROVE  row'[t] = row[t]
  BY <1>10 DEF Detect, Modify, EnqueueFails, EnforceCapacityDone, Crash, SendReport, AbortUpload,
     DeleteMultipartAbort, durable
<1>11. row'[t] = row[t] => row'[t].status \in {row[t].status, "completed"}
  OBVIOUS
<1> QED
  BY <1>4, <1>5, <1>6, <1>7, <1>8, <1>9, <1>10, <1>11 DEF Next, ProducerStep

\* A persisted result is never uploaded again and a completed task stays completed,
\* although neither the backoff goroutine nor DequeuePending looks at the status of
\* the row it requeues or takes (executor.go, reports.go).
THEOREM ReportedStaysReported ==
  ASSUME OneWorker, LegacyHasRetries PROVE Spec => ReportedNeverRequeued
<1>1. ASSUME IInv, [Next]_vars
      PROVE  [\A t \in Task :
               /\ row[t].status = "reported" => row'[t].status \in {"reported", "completed"}
               /\ row[t].status = "completed" => row'[t].status = "completed"]_vars
  <2>1. CASE UNCHANGED vars
    BY <2>1
  <2>2. CASE Next
    <3>1. \A t \in Task : Done(t) => row'[t].status \in {row[t].status, "completed"}
      BY <1>1, <2>2, DoneStep
    <3> QED BY <3>1 DEF Done
  <2> QED BY <1>1, <2>1, <2>2
<1> QED BY <1>1, SafeAlways, PTL DEF Spec, ReportedNeverRequeued

=============================================================================
