----------------------------- MODULE AgentQueue -----------------------------
(***************************************************************************)
(* The edge agent's durable upload queue (agent/internal/queue) and the    *)
(* executor that drains it (agent/internal/executor): producers that       *)
(* submit file versions, a pool of workers that dequeue and upload, retry  *)
(* timers, eviction at the queue cap, the durable report outbox that waits *)
(* for the Control Plane's acknowledgement, the durable outbox of          *)
(* multipart uploads to abort, and crash and restart of the agent.         *)
(*                                                                         *)
(* One action per SQLite statement or transaction and per object-store     *)
(* call: SQLite is opened with one connection, so statements are atomic    *)
(* and everything between two of them may interleave.  Tasks are numbered  *)
(* in the order of created_at.  File versions (mtime, size) are numbered   *)
(* in the order in which the file takes them.                              *)
(***************************************************************************)
EXTENDS Naturals, FiniteSets

CONSTANTS NTask,       \* bound: number of tasks that can be enqueued
          Worker,      \* executor worker goroutines
          Path,        \* (rule, local path) pairs being collected
          TailPath,    \* the paths of rules with append_mode = tail
          MaxVer,      \* bound: number of versions of a file
          BigVer,      \* the versions above the multipart threshold
          Upload,      \* bound: multipart upload identifiers
          NoUpload,    \* the empty upload_id
          RetryMax,    \* retryMax
          QueueMax,    \* queue_max_size
          Legacy,      \* tasks left by a build without next_retry_at
          MaxCrashes,  \* bound: crashes of the agent
          MaxFaults,   \* bound: SQLite statements that fail
          MaxMishaps   \* bound: crashes and failed statements together

Task == 1..NTask
Ver == 1..MaxVer

ASSUME SizesAssumption ==
  /\ NTask \in Nat /\ MaxVer \in Nat \ {0} /\ RetryMax \in Nat
  /\ QueueMax \in Nat \ {0} /\ MaxCrashes \in Nat /\ MaxFaults \in Nat
  /\ MaxMishaps \in Nat
ASSUME SetsAssumption ==
  /\ Path # {} /\ TailPath \subseteq Path /\ BigVer \subseteq Ver
  /\ NoUpload \notin Upload /\ Legacy \subseteq Task

VARIABLES
  row,       \* upload_tasks; "absent": not inserted yet, "gone": evicted
  report,    \* upload_reports: none, or whether the upload succeeded
  outbox,    \* multipart_abort_outbox
  processed, \* processed_files: the version per path, 0 when there is no row
  file,      \* the version of each file on disk
  object,    \* the version whose content the object store holds, 0 for none
  live,      \* multipart uploads that exist in the object store
  used,      \* upload identifiers the object store has handed out
  worker,    \* each worker's program counter and in-memory copy of its task
  timers,    \* armed backoff timers
  prod,      \* the submitting goroutine
  sent,      \* tasks whose report reached the Control Plane at least once
  up,        \* the agent process runs
  crashes, faults,
  leaked     \* history: uploads lost before their identifier was persisted

durable == <<row, report, outbox, processed>>
store   == <<object, live, used>>
vars == <<row, report, outbox, processed, file, object, live, used, worker,
          timers, prod, sent, up, crashes, faults, leaked>>

Statuses == {"pending", "running", "reported", "completed", "failed"}
Active == {"pending", "running", "failed", "reported"}

\* next_retry_at: the legacy zero, a persisted schedule, or NextRetryNever.
RowType ==
  [status : Statuses \cup {"absent", "gone"}, path : Path, ver : 0..MaxVer,
   retry : Nat, next : {"zero", "scheduled", "never"},
   upload : Upload \cup {NoUpload}, pver : 0..MaxVer]

Pcs == {"idle", "selected", "taken", "dedup", "upload", "resume", "discard",
        "init", "persist", "unwind", "parts", "put", "fail", "backoff",
        "abandon", "abandonDone", "report", "reportFail"}

\* The fields of UploadTask a worker uses after the row may have changed.
WorkerType ==
  [pc : Pcs, id : 0..NTask, retry : Nat, upload : Upload \cup {NoUpload},
   pver : 0..MaxVer, stat : 0..MaxVer, terminal : BOOLEAN]

TimerType == [task : Task, upload : Upload \cup {NoUpload}, retry : Nat,
              by : Worker \cup {"startup"}]

ProdType == [pc : {"idle", "checked", "trim"}, path : Path, ver : 0..MaxVer,
             id : 0..NTask]

\* The type of every variable; a busy worker has a task.
TypeOK ==
  /\ row \in [Task -> RowType]
  /\ report \in [Task -> {"none", "ok", "failed"}]
  /\ outbox \in SUBSET Upload
  /\ processed \in [Path -> 0..MaxVer]
  /\ file \in [Path -> Ver]
  /\ object \in [Path -> 0..MaxVer]
  /\ live \in SUBSET Upload
  /\ used \in SUBSET Upload
  /\ worker \in [Worker -> WorkerType]
  /\ \A w \in Worker : worker[w].pc # "idle" => worker[w].id \in Task
  /\ timers \in SUBSET TimerType
  /\ prod \in ProdType
  /\ sent \in SUBSET Task
  /\ up \in BOOLEAN
  /\ crashes \in 0..MaxCrashes
  /\ faults \in 0..MaxFaults
  /\ leaked \in SUBSET Upload

IdleWorker == [pc |-> "idle", id |-> 0, retry |-> 0, upload |-> NoUpload,
               pver |-> 0, stat |-> 0, terminal |-> FALSE]

Somewhere == CHOOSE p \in Path : TRUE
IdleProd == [pc |-> "idle", path |-> Somewhere, ver |-> 0, id |-> 0]

AbsentRow == [status |-> "absent", path |-> Somewhere, ver |-> 0, retry |-> 0,
              next |-> "zero", upload |-> NoUpload, pver |-> 0]

----------------------------------------------------------------------------
(* Helpers *)

Exists(t) == row[t].status \in Statuses
WithStatus(S) == {t \in Task : row[t].status \in S}
IsOldest(t, S) == t \in S /\ \A s \in S : t <= s
Ids(u) == {u} \ {NoUpload}

\* A statement may fail while the fault budget lasts.
DBOk == UNCHANGED faults
DBFails ==
  /\ faults < MaxFaults /\ crashes + faults < MaxMishaps
  /\ faults' = faults + 1

At(w, pc) == up /\ worker[w].pc = pc
Goto(w, pc) == worker' = [worker EXCEPT ![w].pc = pc]
Finish(w) == worker' = [worker EXCEPT ![w] = IdleWorker]
FailWith(w, terminal) ==
  worker' = [worker EXCEPT ![w].pc = "fail", ![w].terminal = terminal]

Init ==
  /\ \E legacy \in [Legacy -> Upload \cup {NoUpload}] :
       /\ \A s, t \in Legacy : s # t /\ legacy[s] \in Upload => legacy[s] # legacy[t]
       /\ row = [t \in Task |->
                   IF t \in Legacy
                   THEN [AbsentRow EXCEPT !.status = "failed", !.ver = 1,
                                          !.retry = 1, !.upload = legacy[t]]
                   ELSE AbsentRow]
       /\ used = {legacy[t] : t \in Legacy} \ {NoUpload}
  /\ live = used
  /\ report = [t \in Task |-> "none"]
  /\ outbox = {}
  /\ processed = [p \in Path |-> 0]
  /\ file = [p \in Path |-> 1]
  /\ object = [p \in Path |-> 0]
  /\ worker = [w \in Worker |-> IdleWorker]
  /\ timers = {}
  /\ prod = IdleProd
  /\ sent = {}
  /\ up = FALSE
  /\ crashes = 0
  /\ faults = 0
  /\ leaked = {}

----------------------------------------------------------------------------
(* Producers: submitFile, Executor.Submit, enforceCapacity *)

\* submitFile's IsProcessed check on the version it detected.
Detect(p) ==
  /\ up /\ prod.pc = "idle"
  /\ processed[p] # file[p]
  /\ WithStatus({"absent"}) # {}
  /\ prod' = [IdleProd EXCEPT !.pc = "checked", !.path = p, !.ver = file[p]]
  /\ UNCHANGED <<durable, file, store, worker, timers, sent, up, crashes,
                 faults, leaked>>

\* Executor.Submit: the guarded INSERT of EnqueueIfNoActive.
EnqueueIfNoActive ==
  /\ up /\ prod.pc = "checked"
  /\ DBOk
  /\ IF \E t \in WithStatus({"pending", "running", "reported"}) :
          row[t].path = prod.path /\ row[t].ver = prod.ver
     THEN prod' = IdleProd /\ UNCHANGED row
     ELSE \E new \in Task :
          /\ IsOldest(new, WithStatus({"absent"}))
          /\ row' = [row EXCEPT ![new] = [AbsentRow EXCEPT
                       !.status = "pending", !.path = prod.path, !.ver = prod.ver]]
          /\ prod' = [prod EXCEPT !.pc = "trim", !.id = new]
  /\ UNCHANGED <<report, outbox, processed, file, store, worker, timers, sent,
                 up, crashes, leaked>>

EnqueueFails ==
  /\ up /\ prod.pc = "checked"
  /\ DBFails
  /\ prod' = IdleProd
  /\ UNCHANGED <<durable, file, store, worker, timers, sent, up, crashes, leaked>>

\* The rows the cap may remove.
Evictable == WithStatus({"pending", "failed"}) \ {prod.id}

\* The abort record DeleteOldestEvictable writes before it removes the row.
EvictionRecord(t) == Ids(row[t].upload)

\* enforceCapacity, one iteration: DeleteOldestEvictable removes the row and
\* records its upload for abortion in one transaction.
DeleteOldestEvictable ==
  /\ up /\ prod.pc = "trim"
  /\ Cardinality(WithStatus(Active)) > QueueMax
  /\ \E t \in Task :
       /\ IsOldest(t, Evictable)
       /\ row' = [row EXCEPT ![t].status = "gone"]
       /\ outbox' = outbox \cup EvictionRecord(t)
  /\ UNCHANGED <<report, processed, file, store, worker, timers, prod, sent, up,
                 crashes, faults, leaked>>

\* enforceCapacity returns: within the cap, nothing to evict, or an error.
EnforceCapacityDone ==
  /\ up /\ prod.pc = "trim"
  /\ \/ /\ Cardinality(WithStatus(Active)) <= QueueMax \/ Evictable = {}
        /\ DBOk
     \/ DBFails
  /\ prod' = IdleProd
  /\ UNCHANGED <<durable, file, store, worker, timers, sent, up, crashes, leaked>>

----------------------------------------------------------------------------
(* Workers: drainQueue, DequeuePending *)

\* DequeuePending's SELECT: the oldest pending row is copied to memory.
Select(w) ==
  /\ At(w, "idle")
  /\ \E t \in Task :
       /\ IsOldest(t, WithStatus({"pending"}))
       /\ worker' = [worker EXCEPT ![w] = [IdleWorker EXCEPT
                       !.pc = "selected", !.id = t, !.retry = row[t].retry,
                       !.upload = row[t].upload, !.pver = row[t].pver]]
  /\ UNCHANGED <<durable, file, store, timers, prod, sent, up, crashes, faults,
                 leaked>>

\* DequeuePending's UPDATE ... WHERE id=?: neither the status nor the number of
\* rows it changed is looked at.
MarkRunning(w) ==
  /\ At(w, "selected")
  /\ \/ /\ DBOk
        /\ row' = IF Exists(worker[w].id)
                  THEN [row EXCEPT ![worker[w].id].status = "running"] ELSE row
        /\ Goto(w, "taken")
     \/ DBFails /\ Finish(w) /\ UNCHANGED row
  /\ UNCHANGED <<report, outbox, processed, file, store, timers, prod, sent, up,
                 crashes, leaked>>

----------------------------------------------------------------------------
(* Workers: processTask *)

\* IsProcessed; a failed check counts as "not processed".  A task of a tail rule
\* is refused before the uploader runs.
CheckDedup(w) ==
  /\ At(w, "taken")
  /\ LET t == worker[w].id IN
     \/ /\ DBOk
        /\ processed[row[t].path] = row[t].ver
        /\ Goto(w, "dedup")
     \/ /\ DBFails \/ (DBOk /\ processed[row[t].path] # row[t].ver)
        /\ IF row[t].path \in TailPath THEN FailWith(w, TRUE)
                                       ELSE Goto(w, "upload")
  /\ UNCHANGED <<durable, file, store, timers, prod, sent, up, crashes, leaked>>

\* The dedup shortcut.  Without an upload: UpdateStatus, its error ignored.  With
\* one: MarkCompletedAbandoningUpload, completion and abort record in one
\* transaction, or handleFailure when that transaction fails.
DedupComplete(w) ==
  /\ At(w, "dedup")
  /\ LET t == worker[w].id
         u == worker[w].upload IN
     \/ /\ DBOk
        /\ row' = IF Exists(t) THEN [row EXCEPT ![t].status = "completed"] ELSE row
        /\ outbox' = IF Exists(t) THEN outbox \cup Ids(u) ELSE outbox
        /\ IF u = NoUpload THEN Finish(w) ELSE Goto(w, "abandonDone")
     \/ /\ DBFails
        /\ IF u = NoUpload THEN Finish(w) ELSE FailWith(w, FALSE)
        /\ UNCHANGED <<row, outbox>>
  /\ UNCHANGED <<report, processed, file, store, timers, prod, sent, up, crashes,
                 leaked>>

\* abandonTaskUpload: the abort record (kept if it exists), then a direct abort,
\* which is an attempt of AbortUpload below.  A failed record write is ignored.
AbandonTaskUpload(w) ==
  /\ up /\ worker[w].pc \in {"abandon", "abandonDone"}
  /\ \/ DBOk /\ outbox' = outbox \cup Ids(worker[w].upload)
     \/ DBFails /\ UNCHANGED outbox
  /\ IF worker[w].pc = "abandon" THEN Goto(w, "reportFail") ELSE Finish(w)
  /\ UNCHANGED <<row, report, processed, file, store, timers, prod, sent, up,
                 crashes, leaked>>

\* persistResult and SaveReport: the report becomes durable together with the
\* status; a row that is gone or has another status, and a failed transaction,
\* are only logged.
PersistResult(w) ==
  /\ up /\ worker[w].pc \in {"report", "reportFail"}
  /\ LET t == worker[w].id IN
     \/ /\ DBOk
        /\ row[t].status \in {"running", "failed"}
        /\ row' = [row EXCEPT ![t].status = "reported"]
        /\ report' = [report EXCEPT ![t] =
                        IF worker[w].pc = "report" THEN "ok" ELSE "failed"]
     \/ /\ DBFails \/ (DBOk /\ row[t].status \notin {"running", "failed"})
        /\ UNCHANGED <<row, report>>
  /\ Finish(w)
  /\ UNCHANGED <<outbox, processed, file, store, timers, prod, sent, up, crashes,
                 leaked>>

----------------------------------------------------------------------------
(* Workers: the uploader, at the level of upload identities.                 *)

UploadPcs == {"upload", "resume", "init", "parts", "put"}

\* UploadFile: stat the file, then the resume gate canResumeParts.
UploadFile(w) ==
  /\ At(w, "upload")
  /\ LET v == file[row[worker[w].id].path]
         u == worker[w].upload
         canResume == worker[w].pver # 0 /\ v = worker[w].pver /\ v \in BigVer
     IN worker' = [worker EXCEPT
          ![w].stat = v,
          ![w].pc = CASE u # NoUpload /\ canResume -> "resume"
                      [] u # NoUpload /\ ~canResume -> "discard"
                      [] u = NoUpload /\ v \in BigVer -> "init"
                      [] u = NoUpload /\ v \notin BigVer -> "put"]
  /\ UNCHANGED <<durable, file, store, timers, prod, sent, up, crashes, faults,
                 leaked>>

\* An error of the file system or of the object store ends the attempt without
\* a trace in the store; a terminal one is a denial on fresh credentials.
AttemptFails(w) ==
  /\ up /\ worker[w].pc \in UploadPcs
  /\ \E terminal \in BOOLEAN : FailWith(w, terminal)
  /\ UNCHANGED <<durable, file, store, timers, prod, sent, up, crashes, faults,
                 leaked>>

\* discardStaleUpload: the abort record first; without it nothing is discarded.
DiscardStaleUpload(w) ==
  /\ At(w, "discard")
  /\ \/ /\ DBOk
        /\ outbox' = outbox \cup Ids(worker[w].upload)
        /\ worker' = [worker EXCEPT ![w].upload = NoUpload,
               ![w].pc = IF worker[w].stat \in BigVer THEN "init" ELSE "put"]
     \/ DBFails /\ FailWith(w, FALSE) /\ UNCHANGED outbox
  /\ UNCHANGED <<row, report, processed, file, store, timers, prod, sent, up,
                 crashes, leaked>>

\* verifyRemoteParts and the ETag checks of the skipped parts: continue, discard
\* parts that do not match the file, or start afresh on NoSuchUpload.
ResumeUpload(w) ==
  /\ At(w, "resume")
  /\ IF worker[w].upload \in live
     THEN Goto(w, "parts") \/ Goto(w, "discard")
     ELSE Goto(w, "init")
  /\ UNCHANGED <<durable, file, store, timers, prod, sent, up, crashes, faults,
                 leaked>>

NewMultipartUpload(w) ==
  /\ At(w, "init")
  /\ \E u \in Upload \ used :
       /\ live' = live \cup {u}
       /\ used' = used \cup {u}
       /\ worker' = [worker EXCEPT ![w].upload = u, ![w].pc = "persist"]
  /\ UNCHANGED <<durable, file, object, timers, prod, sent, up, crashes, faults,
                 leaked>>

\* The first SaveMultipartProgress: fatal when it fails or the row is gone.
PersistInitiation(w) ==
  /\ At(w, "persist")
  /\ LET t == worker[w].id IN
     \/ /\ DBOk /\ Exists(t)
        /\ row' = [row EXCEPT ![t].upload = worker[w].upload,
                              ![t].pver = worker[w].stat]
        /\ Goto(w, "parts")
     \/ /\ DBFails \/ (DBOk /\ ~Exists(t))
        /\ Goto(w, "unwind")
        /\ UNCHANGED row
  /\ UNCHANGED <<report, outbox, processed, file, store, timers, prod, sent, up,
                 crashes, leaked>>

\* The abort after a failed first persist, on the same context; if it fails too
\* the identifier is forgotten.
UnwindInitiation(w) ==
  /\ At(w, "unwind")
  /\ LET u == worker[w].upload IN
     \/ live' = live \ {u} /\ UNCHANGED leaked
     \/ leaked' = leaked \cup Ids(u) /\ UNCHANGED live
  /\ worker' = [worker EXCEPT ![w].upload = NoUpload, ![w].pc = "fail",
                              ![w].terminal = FALSE]
  /\ UNCHANGED <<durable, file, object, used, timers, prod, sent, up, crashes,
                 faults>>

\* SaveMultipartProgress after a part: best effort.
SavePart(w) ==
  /\ At(w, "parts")
  /\ Exists(worker[w].id)
  /\ row' = [row EXCEPT ![worker[w].id].upload = worker[w].upload,
                        ![worker[w].id].pver = worker[w].stat]
  /\ UNCHANGED <<report, outbox, processed, file, store, worker, timers, prod,
                 sent, up, crashes, faults, leaked>>

\* CompleteMultipartUpload or PutObject: the object is replaced.  The answer may
\* be lost, and then the attempt fails although the object is stored.
StoreObject(w) ==
  /\ \/ At(w, "put") /\ UNCHANGED live
     \/ /\ At(w, "parts") /\ worker[w].upload \in live
        /\ live' = live \ {worker[w].upload}
  /\ object' = [object EXCEPT ![row[worker[w].id].path] = worker[w].stat]
  /\ Goto(w, "report") \/ FailWith(w, FALSE)
  /\ UNCHANGED <<durable, file, used, timers, prod, sent, up, crashes, faults,
                 leaked>>

----------------------------------------------------------------------------
(* Workers: handleFailure *)

GiveUp(w) == worker[w].terminal \/ worker[w].retry + 1 >= RetryMax

\* The abort record of the same transaction.
AbandonRecordMutant(w) == {}
AbandonRecord(w) == Ids(worker[w].upload)

\* MarkFailedAbandoned: the never-retry sentinel and the abort record in one
\* transaction.  A failed transaction leaves the task to the backoff path.
MarkFailedAbandoned(w) ==
  /\ At(w, "fail") /\ GiveUp(w)
  /\ LET t == worker[w].id IN
     \/ /\ DBOk
        /\ row' = IF Exists(t)
                  THEN [row EXCEPT ![t].status = "failed", ![t].next = "never",
                                   ![t].retry = @ + 1]
                  ELSE row
        /\ outbox' = IF Exists(t) THEN outbox \cup AbandonRecord(w) ELSE outbox
        /\ Goto(w, "abandon")
     \/ DBFails /\ Goto(w, "backoff") /\ UNCHANGED <<row, outbox>>
  /\ UNCHANGED <<report, processed, file, store, timers, prod, sent, up, crashes,
                 leaked>>

\* MarkFailed stamps the schedule, its error ignored; the timer is armed anyway.
ScheduleRetry(w) ==
  /\ At(w, "backoff") \/ (At(w, "fail") /\ ~GiveUp(w))
  /\ LET t == worker[w].id IN
     /\ \/ /\ DBOk
           /\ row' = IF Exists(t)
                     THEN [row EXCEPT ![t].status = "failed", ![t].next = "scheduled",
                                      ![t].retry = @ + 1]
                     ELSE row
        \/ DBFails /\ UNCHANGED row
     /\ timers' = timers \cup {[task |-> t, upload |-> worker[w].upload,
                                retry |-> worker[w].retry, by |-> w]}
  /\ Finish(w)
  /\ UNCHANGED <<report, outbox, processed, file, store, prod, sent, up, crashes,
                 leaked>>

\* The status the backoff goroutine gives the row.
RequeueStatus == "pending"

\* The backoff goroutine: UpdateStatus(pending), whatever the status is now; a
\* row evicted meanwhile has its upload abandoned.
TimerFires(tm) ==
  /\ up /\ tm \in timers
  /\ timers' = timers \ {tm}
  /\ \/ /\ DBOk
        /\ IF Exists(tm.task)
           THEN row' = [row EXCEPT ![tm.task].status = RequeueStatus] /\ UNCHANGED outbox
           ELSE outbox' = outbox \cup Ids(tm.upload) /\ UNCHANGED row
     \/ DBFails /\ UNCHANGED <<row, outbox>>
  /\ UNCHANGED <<report, processed, file, store, worker, prod, sent, up, crashes,
                 leaked>>

----------------------------------------------------------------------------
(* The abort outbox, the report outbox, acknowledgements *)

\* The records an abort attempt may take up.
DueMultipartAborts == outbox

\* An abort attempt that succeeds: drainAbortOutbox, or the direct attempt of
\* abandonTaskUpload and discardStaleUpload.  A failed one only moves the time
\* of the next attempt.
AbortUpload(u) ==
  /\ up /\ u \in DueMultipartAborts \cap live
  /\ live' = live \ {u}
  /\ UNCHANGED <<durable, file, object, used, worker, timers, prod, sent, up,
                 crashes, faults, leaked>>

\* DeleteMultipartAbort, once the abort succeeded or returned NoSuchUpload.
DeleteMultipartAbort(u) ==
  /\ up /\ u \in outbox \ live
  /\ outbox' = outbox \ {u}
  /\ UNCHANGED <<row, report, processed, file, store, worker, timers, prod, sent,
                 up, crashes, faults, leaked>>

\* sendDueReports: a persisted report is sent whenever its deadline has passed.
SendReport(t) ==
  /\ up /\ report[t] # "none"
  /\ sent' = sent \cup {t}
  /\ UNCHANGED <<durable, file, store, worker, timers, prod, up, crashes, faults,
                 leaked>>

\* The reports an acknowledgement completes: CompleteReported changes nothing
\* unless the row is still reported.
CompletesMutant(t) == row[t].status = "reported" /\ report[t] = "ok"
Completes(t) == row[t].status = "reported"

\* The version entered in processed_files: the one the row carries.
ProcessedVersionMutant(t) == file[row[t].path]
ProcessedVersion(t) == row[t].ver

\* The status of a row after the acknowledgement.
AckedStatus(t) == "completed"

\* HandleAcknowledgement and CompleteReported.  Acknowledgements name the task
\* only, and may come late or twice.
HandleAcknowledgement(t) ==
  /\ up /\ t \in sent /\ report[t] # "none"
  /\ Completes(t)
  /\ row' = [row EXCEPT ![t].status = AckedStatus(t)]
  /\ processed' = IF report[t] = "ok"
                  THEN [processed EXCEPT ![row[t].path] = ProcessedVersion(t)]
                  ELSE processed
  /\ report' = [report EXCEPT ![t] = "none"]
  /\ UNCHANGED <<outbox, file, store, worker, timers, prod, sent, up, crashes,
                 faults, leaked>>

----------------------------------------------------------------------------
(* The environment: files change, the agent crashes and starts *)

Modify(p) ==
  /\ file[p] < MaxVer
  /\ file' = [file EXCEPT ![p] = @ + 1]
  /\ UNCHANGED <<durable, store, worker, timers, prod, sent, up, crashes, faults,
                 leaked>>

\* The process dies, or stops: memory is lost, the database and the store stay.
Crash ==
  /\ up /\ crashes < MaxCrashes /\ crashes + faults < MaxMishaps
  /\ up' = FALSE
  /\ crashes' = crashes + 1
  /\ leaked' = leaked \cup
       {u \in live : \E w \in Worker :
          worker[w].pc \in {"persist", "unwind"} /\ worker[w].upload = u}
  /\ worker' = [w \in Worker |-> IdleWorker]
  /\ timers' = {}
  /\ prod' = IdleProd
  /\ UNCHANGED <<durable, file, store, sent, faults>>

\* The rows ResetRunningToPending makes pending again.
Interrupted == WithStatus({"running"})

\* recoverFailedTasks skips abandoned rows and rows out of retries.
RecoverableMutant(t) ==
  row[t].status = "failed" /\ row[t].next # "never" /\ row[t].retry + 1 < RetryMax
Recoverable(t) ==
  row[t].status = "failed" /\ row[t].next # "never" /\ row[t].retry < RetryMax

\* The rows scheduled for a retry, and those whose schedule is still ahead.
Scheduled == {t \in Task : Recoverable(t) /\ row[t].next = "scheduled"}
NotYetDue(due) == Scheduled \ due

\* Startup: ResetRunningToPending refreshes the file version of interrupted
\* tasks; recoverFailedTasks re-queues what is due, arms timers for the rest,
\* and treats rows without a schedule as abandoned.
Start ==
  /\ ~up
  /\ up' = TRUE
  /\ \E due \in SUBSET Scheduled :
       /\ row' = [t \in Task |->
            CASE t \in Interrupted ->
                   [row[t] EXCEPT !.status = "pending", !.ver = file[row[t].path]]
              [] t \in due -> [row[t] EXCEPT !.status = "pending"]
              [] OTHER -> row[t]]
       /\ timers' = {[task |-> t, upload |-> NoUpload, retry |-> row[t].retry,
                      by |-> "startup"] : t \in NotYetDue(due)}
  /\ outbox' = outbox \cup
       ({row[t].upload : t \in {s \in Task : Recoverable(s) /\ row[s].next = "zero"}}
        \ {NoUpload})
  /\ UNCHANGED <<report, processed, file, store, worker, prod, sent, crashes,
                 faults, leaked>>

----------------------------------------------------------------------------
WorkerStep(w) ==
  \/ Select(w) \/ MarkRunning(w) \/ CheckDedup(w) \/ DedupComplete(w)
  \/ AbandonTaskUpload(w) \/ PersistResult(w) \/ UploadFile(w) \/ AttemptFails(w)
  \/ DiscardStaleUpload(w) \/ ResumeUpload(w) \/ NewMultipartUpload(w)
  \/ PersistInitiation(w) \/ UnwindInitiation(w) \/ SavePart(w) \/ StoreObject(w)
  \/ MarkFailedAbandoned(w) \/ ScheduleRetry(w)

ProducerStep ==
  \/ \E p \in Path : Detect(p)
  \/ EnqueueIfNoActive \/ EnqueueFails
  \/ DeleteOldestEvictable \/ EnforceCapacityDone

Next ==
  \/ ProducerStep
  \/ \E w \in Worker : WorkerStep(w)
  \/ \E tm \in timers : TimerFires(tm)
  \/ \E u \in Upload : AbortUpload(u) \/ DeleteMultipartAbort(u)
  \/ \E t \in Task : SendReport(t) \/ HandleAcknowledgement(t)
  \/ \E p \in Path : Modify(p)
  \/ Crash \/ Start

Spec == Init /\ [][Next]_vars

\* Every goroutine that has a step to take takes it in the end, the agent is
\* started again, and the Control Plane answers a report that is replayed.
Fairness ==
  /\ WF_vars(Start)
  /\ WF_vars(EnqueueIfNoActive) /\ WF_vars(DeleteOldestEvictable)
  /\ WF_vars(EnforceCapacityDone)
  /\ \A w \in Worker : WF_vars(WorkerStep(w))
  /\ WF_vars(\E tm \in timers : TimerFires(tm))
  /\ \A u \in Upload : WF_vars(AbortUpload(u)) /\ WF_vars(DeleteMultipartAbort(u))
  /\ \A t \in Task : WF_vars(SendReport(t)) /\ WF_vars(HandleAcknowledgement(t))

FairSpec == Spec /\ Fairness

----------------------------------------------------------------------------
(* Properties *)

Held(t) == \E w \in Worker : worker[w].pc # "idle" /\ worker[w].id = t
Armed(t) == \E tm \in timers : tm.task = t

\* A row waiting for acknowledgement always has its report in the outbox:
\* SaveReport and CompleteReported each change both in one transaction, so that
\* the replay loop can always find what it has to replay.
ReportedHasReport ==
  \A t \in Task : row[t].status = "reported" => report[t] # "none"

\* Where a multipart upload that exists in the store can be found: its abort is on
\* record, a worker is using it, or a row names it that this process or the next
\* start will take up again.
Tracked(u) ==
  \/ u \in outbox
  \/ \E w \in Worker : worker[w].pc # "idle" /\ worker[w].upload = u
  \/ \E t \in Task :
       /\ row[t].upload = u
       /\ \/ row[t].status \in {"pending", "running"}
          \/ Recoverable(t)
          \/ row[t].status = "failed" /\ Armed(t)

\* However often the process crashes, or after one failed statement, a multipart
\* upload that exists in the store can still be found by the agent (queue.go,
\* aborts.go, executor.go: the order law of abandonment).  The uploads of `leaked'
\* are the documented exception: lost between NewMultipartUpload and the first
\* persist.  A second failed statement can lose one: the give-up transaction fails,
\* then the write of the timer armed instead.
UploadTracked ==
  faults = 0 \/ crashes + faults = 1 => \A u \in live \ leaked : Tracked(u)

\* A version recorded in processed_files (CompleteReported) is in the object
\* store, or a later one is: otherwise the file would never be collected again
\* although its content is missing.
ProcessedIsStored ==
  \A p \in Path : processed[p] <= object[p]

\* One owner per task: no two workers, no two timers, and not a worker and a
\* timer, act on the same row (DequeuePending, handleFailure).
SingleOwner ==
  /\ \A v, w \in Worker : /\ v # w
                          /\ worker[v].pc \notin {"idle", "selected"}
                          /\ worker[w].pc \notin {"idle", "selected"}
                          => worker[v].id # worker[w].id
  /\ \A s, t \in timers : s # t => s.task # t.task
  /\ \A w \in Worker : worker[w].pc # "idle" => ~Armed(worker[w].id)

\* While no statement failed, no row is stranded in the running process: a
\* running row is in a worker's hands, and a row awaiting its backoff has its
\* timer armed (handleFailure, recoverFailedTasks).
NotStranded ==
  up /\ faults = 0 =>
    \A t \in Task :
      /\ row[t].status = "running" => Held(t)
      /\ row[t].status = "failed" /\ row[t].next = "scheduled"
           /\ row[t].retry < RetryMax => Armed(t) \/ Held(t)

\* A task whose result is persisted is never uploaded again, and a completed
\* task stays completed ("A missed ack causes report replay, never another
\* object upload", executor/reports.go:21-22).
ReportedNeverRequeued ==
  [][\A t \in Task :
       /\ row[t].status = "reported" => row'[t].status \in {"reported", "completed"}
       /\ row[t].status = "completed" => row'[t].status = "completed"]_vars

\* While no statement fails, every task that waits to be uploaded is settled in
\* the end: acknowledged, evicted, or abandoned (drainQueue, handleFailure, the
\* report replay loop).  A failed row without a time of retry is one an older
\* release left abandoned.
PendingIsSettled ==
  \A t \in Task :
    []<>(\/ row[t].status \in {"absent", "completed", "gone"}
         \/ row[t].status = "failed" /\ row[t].next \in {"never", "zero"}
         \/ faults > 0)

\* Every persisted report is acknowledged and removed in the end, across
\* restarts (runReporter, ResetReportTimers).
ReportIsDrained == \A t \in Task : []<>(report[t] = "none")

\* A multipart upload leaves the abort outbox only once the store has forgotten
\* it, and every upload on record there leaves it (runAbortWorker).
AbortIsDone ==
  /\ [][\A u \in outbox : u \notin outbox' => u \notin live']_vars
  /\ \A u \in Upload : []<>(u \notin outbox)

\* Every row of upload_tasks is accounted for, across crashes and failing statements:
\* at most one goroutine owns it, something will take it up, and a row that waits for
\* its acknowledgement has a report to replay.
RowsAccounted == TypeOK /\ SingleOwner /\ NotStranded /\ ReportedHasReport

\* What the queue has on record is never lost sight of and gets done, once: tasks are
\* settled, reports drained, aborts carried out, and no reported task is taken up again.
WorkIsSettled ==
  /\ []UploadTracked /\ []RowsAccounted
  /\ PendingIsSettled /\ ReportIsDrained /\ AbortIsDone /\ ReportedNeverRequeued
=============================================================================
