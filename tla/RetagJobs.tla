----------------------------- MODULE RetagJobs ------------------------------
(***************************************************************************)
(* The retag jobs and their worker: merges and batches enqueued by the     *)
(* API, claimed in order, applied as one statement each and recorded; what *)
(* they and the direct writers do to the tag of one file.  Statements fail *)
(* and the control plane restarts anywhere.                                *)
(***************************************************************************)
EXTENDS Naturals, Sequences

CONSTANTS
  TagValue,     \* tag values
  NoTag,        \* the file has no tag
  MaxJob        \* bound on the retag jobs enqueued

ASSUME JobAssumption == NoTag \notin TagValue /\ MaxJob \in Nat

VARIABLES
  jobs,         \* retag_jobs in the order of created_at
  worker,       \* the retag worker
  fileTag       \* the file's value under the key

jobVars == <<jobs, worker, fileTag>>

IdleWorker == [at |-> "idle", job |-> 0]
JobsInit == jobs = <<>> /\ worker = IdleWorker /\ fileTag = NoTag

-----------------------------------------------------------------------------
(* The API and the indexer.                                                *)

Job(kind, from, to) ==
  [kind |-> kind, from |-> from, to |-> to,
   status |-> "pending", stranded |-> FALSE]

EnqueueRetagJob(kind, from, to) ==
  /\ Len(jobs) < MaxJob /\ jobs' = Append(jobs, Job(kind, from, to))
  /\ UNCHANGED <<worker, fileTag>>

\* Submit: a set to v, or a clear.
EnqueueBatch(v) == EnqueueRetagJob("batch_tag", NoTag, v)

\* Merge: into another value.
EnqueueMerge(from, to) == from # to /\ EnqueueRetagJob("merge", from, to)

\* setTag and clearTag of a user, and the tags of an upload report.
TagFile(v) == v # fileTag /\ fileTag' = v /\ UNCHANGED <<jobs, worker>>

-----------------------------------------------------------------------------
(* RetagWorker.                                                            *)

Pending == {n \in DOMAIN jobs : jobs[n].status = "pending"}
Current == jobs[worker.job]
Settled == {n \in DOMAIN jobs : jobs[n].status \in {"done", "failed"} \/ jobs[n].stranded}

\* Nothing reads the parameters of a job that was recorded.
Recorded(status) == [Job("merge", NoTag, NoTag) EXCEPT !.status = status]

ClaimAny ==
  /\ worker.at = "idle"
  /\ \E n \in Pending : /\ worker' = [at |-> "apply", job |-> n]
                        /\ jobs' = [jobs EXCEPT ![n].status = "running"]
  /\ UNCHANGED fileTag

ClaimNextRetagJob ==
  /\ worker.at = "idle"
  /\ \E n \in Pending : /\ \A m \in Pending : n <= m
                        /\ worker' = [at |-> "apply", job |-> n]
                        /\ jobs' = [jobs EXCEPT ![n].status = "running"]
  /\ UNCHANGED fileTag

\* MergeTagValue, BatchSetFileTag and BatchClearFileTag, one statement each.  The file
\* is one that the filter of every batch selects, and its key is not deleted.
ApplyJob ==
  /\ worker.at = "apply" /\ worker' = [worker EXCEPT !.at = "mark"]
  /\ fileTag' = IF Current.kind = "batch_tag" \/ fileTag = Current.from THEN Current.to
                                                                       ELSE fileTag
  /\ UNCHANGED jobs

\* The statement fails, or the spec cannot be read.
ApplyFails ==
  /\ worker.at = "apply" /\ worker' = [worker EXCEPT !.at = "fail"]
  /\ UNCHANGED <<jobs, fileTag>>

\* MarkRetagJobDone; when that fails, and when the job did, MarkRetagJobFailed, whose
\* own failure leaves the job running.
MarkJob ==
  /\ \/ /\ worker.at = "mark" /\ worker' = IdleWorker
        /\ jobs' = [jobs EXCEPT ![worker.job] = Recorded("done")]
     \/ /\ worker.at = "mark" /\ worker' = [worker EXCEPT !.at = "fail"] /\ UNCHANGED jobs
     \/ /\ worker.at = "fail" /\ worker' = IdleWorker
        /\ jobs' = [jobs EXCEPT ![worker.job] = Recorded("failed")]
     \/ /\ worker.at = "fail" /\ worker' = IdleWorker
        /\ jobs' = [jobs EXCEPT ![worker.job].stranded = TRUE]
  /\ UNCHANGED fileTag

\* requeueStale, at the start of Run; its failure is logged.
RequeueStale ==
  /\ worker.at = "start" /\ worker' = IdleWorker
  /\ \E failed \in BOOLEAN :
       jobs' = [n \in DOMAIN jobs |->
                  IF jobs[n].status # "running" THEN jobs[n]
                  ELSE [jobs[n] EXCEPT !.status = IF failed THEN "running" ELSE "pending",
                                       !.stranded = @ \/ failed]]
  /\ UNCHANGED fileTag

Restart ==
  /\ worker.at # "start" /\ worker' = [at |-> "start", job |-> 0]
  /\ UNCHANGED <<jobs, fileTag>>

-----------------------------------------------------------------------------
WorkerStep == ClaimNextRetagJob \/ ApplyJob \/ ApplyFails \/ MarkJob \/ RequeueStale

JobsNext ==
  \/ WorkerStep \/ Restart
  \/ \E v \in TagValue \cup {NoTag} : EnqueueBatch(v) \/ TagFile(v)
  \/ \E v, w \in TagValue : EnqueueMerge(v, w)

\* The worker polls for ever, and the control plane does not restart for ever.
JobsFair == WF_jobVars(WorkerStep) /\ <>[][~Restart]_jobVars
JobsSpec == JobsInit /\ [][JobsNext]_jobVars
JobsFairSpec == JobsSpec /\ JobsFair

-----------------------------------------------------------------------------
(* Properties.                                                             *)

JobRecord ==
  [kind : {"merge", "batch_tag"}, from : TagValue \cup {NoTag}, to : TagValue \cup {NoTag},
   status : {"pending", "running", "done", "failed"}, stranded : BOOLEAN]

\* At most one job is running, the worker's, apart from those whose outcome could not
\* be recorded and, until they are requeued, those a restart cut short.
JobsTypeOK ==
  /\ Len(jobs) <= MaxJob /\ \A n \in DOMAIN jobs : jobs[n] \in JobRecord
  /\ fileTag \in TagValue \cup {NoTag}
  /\ \A n \in DOMAIN jobs :
       jobs[n].status = "running" => n = worker.job \/ jobs[n].stranded \/ worker.at = "start"

\* The worker applies a job.
Applies == worker.at = "apply" /\ worker'.at = "mark"

\* Jobs take effect in the order they were enqueued, across restarts and re-runs, so
\* that a later batch has the last word; only a job whose outcome could not be
\* recorded takes effect late.
JobsInOrder ==
  [][Applies => (Current.stranded \/ \A n \in DOMAIN jobs : n > worker.job => n \in Pending)]_jobVars

\* Every enqueued job is recorded as done or failed, unless that could not be recorded.
JobSettles ==
  \A n \in 1..MaxJob : []<>(n \in DOMAIN jobs => n \in Settled)

\* Jobs run one by one in the order they were enqueued, and each is settled.
JobsRun == []JobsTypeOK /\ JobsInOrder /\ JobSettles
=============================================================================
