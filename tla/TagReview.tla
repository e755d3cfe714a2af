----------------------------- MODULE TagReview ------------------------------
(***************************************************************************)
(* The vocabulary of one tag key and the queue of values awaiting review,  *)
(* with the tag a file has under the key.  The indexer applying an upload  *)
(* report, an API request of several statements and a merge job interleave *)
(* statement by statement with the requests of a single statement;         *)
(* statements fail and the control plane restarts anywhere.  The flags of  *)
(* the key may be changed between any two statements, so a lookup of the   *)
(* key reads any of them.  What the jobs do to the tags is RetagJobs.      *)
(***************************************************************************)
EXTENDS Naturals

CONSTANTS
  Value,        \* tag values
  NoValue,      \* none of them
  MaxRow        \* bound on the rows of pending_tag_values created

ASSUME ReviewAssumption == NoValue \notin Value /\ MaxRow \in Nat

VARIABLES
  key,          \* the tag_keys row: "none", "there" or "deleted"
  vocabulary,   \* tag_values of the key
  queued,       \* the id of each value's pending_tag_values row (0: none)
  lastRow,      \* the last such id handed out
  tag,          \* the file_tags row: "none", or how it was derived
  indexer,      \* an upload report being applied
  request,      \* an API request of several statements
  merge,        \* a merge job: the row it drops when it ran
  owed          \* values put up for review and not disposed of by a decision

reviewVars == <<key, vocabulary, queued, lastRow, tag, indexer, request, merge, owed>>
processes == <<indexer, request, merge>>

IdleIndexer == [at |-> "idle", value |-> NoValue]
IdleRequest == [at |-> "idle", value |-> NoValue, row |-> 0]
NoMerge == [value |-> NoValue, row |-> 0]
Queued == {v \in Value : queued[v] # 0}
Explicit == {"rule_static", "manual"}

ReviewInit ==
  /\ key = "none" /\ vocabulary = {} /\ queued = [v \in Value |-> 0] /\ lastRow = 0
  /\ tag = "none" /\ owed = {}
  /\ indexer = IdleIndexer /\ request = IdleRequest /\ merge = NoMerge

-----------------------------------------------------------------------------
(* Statements several of the handlers use.                                 *)

TagValueExists(v) == v \in vocabulary
TagValueExistsInOrg(v) == key = "there" /\ v \in vocabulary

\* The id of the row, if there is one.
GetPendingTagValue(v) == queued[v]

\* A manual value replaces whatever is there.
SetFileTagRow == tag' = "manual"
DeleteFileTag == tag # "none" /\ tag' = "none"

-----------------------------------------------------------------------------
(* The vocabulary: requests of one deciding statement.                     *)

CreateKey ==
  /\ key = "none" /\ key' = "there"
  /\ UNCHANGED <<vocabulary, queued, lastRow, tag, processes, owed>>

\* The rows of tag_values and pending_tag_values go with the key.
DeleteKey ==
  /\ key = "there" /\ key' = "deleted"
  /\ vocabulary' = {} /\ queued' = [v \in Value |-> 0] /\ owed' = {}
  /\ UNCHANGED <<lastRow, tag, processes>>

CreateValue(v) ==
  /\ key = "there" /\ vocabulary' = vocabulary \cup {v}
  /\ UNCHANGED <<key, queued, lastRow, tag, processes, owed>>

DeleteValue(v) ==
  /\ v \in vocabulary /\ vocabulary' = vocabulary \ {v}
  /\ owed' = IF v \in Queued THEN owed ELSE owed \ {v}
  /\ UNCHANGED <<key, queued, lastRow, tag, processes>>

Reject(v) ==
  /\ v \in Queued /\ queued' = [queued EXCEPT ![v] = 0] /\ owed' = owed \ {v}
  /\ UNCHANGED <<key, vocabulary, lastRow, tag, processes>>

\* clearTag
ClearTag ==
  /\ DeleteFileTag
  /\ UNCHANGED <<key, vocabulary, queued, lastRow, processes, owed>>

-----------------------------------------------------------------------------
(* queuePendingIfUnregistered, as the indexer and the requests run it.     *)

\* The row that is there keeps its id; a key deleted meanwhile fails the insert.
UpsertPending(v) ==
  IF key # "there" THEN UNCHANGED <<queued, lastRow, owed>>
  ELSE /\ owed' = owed \cup {v}
       /\ IF v \in Queued THEN UNCHANGED <<queued, lastRow>>
          ELSE /\ lastRow < MaxRow /\ lastRow' = lastRow + 1
               /\ queued' = [queued EXCEPT ![v] = lastRow + 1]

-----------------------------------------------------------------------------
(* HandleUploadResult: the static tag, then the path variable.             *)

IndexerKeeps == UNCHANGED <<key, vocabulary, request, merge>>

\* static says that the rule declares a static tag; v is the value in the path.
UploadReported(static, v) ==
  /\ indexer.at = "idle"
  /\ \/ static /\ tag' = "rule_static"
     \/ UNCHANGED tag
  /\ indexer' = IF v = NoValue THEN indexer ELSE [at |-> "lookup", value |-> v]
  /\ IndexerKeeps /\ UNCHANGED <<queued, lastRow, owed>>

\* A key that forbids path variables ends it; an unregistered one is not governed.
LookupKey ==
  /\ indexer.at = "lookup"
  /\ \/ key = "there" /\ indexer' = IdleIndexer
     \/ key = "there" /\ indexer' = [indexer EXCEPT !.at = "insertGoverned"]
     \/ indexer' = [indexer EXCEPT !.at = "insert"]
  /\ IndexerKeeps /\ UNCHANGED <<queued, lastRow, tag, owed>>

AfterInsert == IF indexer.at = "insert" THEN IdleIndexer ELSE [indexer EXCEPT !.at = "check"]

InsertOverwrites ==
  /\ indexer.at \in {"insert", "insertGoverned"} /\ indexer' = AfterInsert
  /\ tag' = "path_var"
  /\ IndexerKeeps /\ UNCHANGED <<queued, lastRow, owed>>

InsertFileTagIfAbsent ==
  /\ indexer.at \in {"insert", "insertGoverned"}
  /\ IF tag # "none" THEN indexer' = IdleIndexer /\ UNCHANGED tag
     ELSE indexer' = AfterInsert /\ tag' = "path_var"
  /\ IndexerKeeps /\ UNCHANGED <<queued, lastRow, owed>>

IndexerChecks ==
  /\ indexer.at = "check"
  /\ indexer' = IF indexer.value \in vocabulary THEN IdleIndexer
                                                ELSE [indexer EXCEPT !.at = "queue"]
  /\ IndexerKeeps /\ UNCHANGED <<queued, lastRow, tag, owed>>

IndexerQueues ==
  /\ indexer.at = "queue" /\ UpsertPending(indexer.value) /\ indexer' = IdleIndexer
  /\ IndexerKeeps /\ UNCHANGED tag

\* A statement of the indexer failed: logged, and the upload is indexed without it.
IndexerFails ==
  /\ indexer.at # "idle" /\ indexer' = IdleIndexer
  /\ IndexerKeeps /\ UNCHANGED <<queued, lastRow, tag, owed>>

-----------------------------------------------------------------------------
(* Requests of several statements: SetTags, Submit (batch-tag), Approve and *)
(* Merge.                                                                   *)

RequestKeeps == UNCHANGED <<key, indexer>>
RequestGoes(at) == request' = [request EXCEPT !.at = at]

SetTags(v) ==
  /\ request.at = "idle" /\ key = "there"
  /\ request' = [at |-> "set", value |-> v, row |-> 0]
  /\ RequestKeeps /\ UNCHANGED <<vocabulary, queued, lastRow, tag, merge, owed>>

\* Then, for a controlled key, the review queue.
SetFileTag ==
  /\ request.at = "set" /\ SetFileTagRow
  /\ RequestGoes("check") \/ request' = IdleRequest
  /\ RequestKeeps /\ UNCHANGED <<vocabulary, queued, lastRow, merge, owed>>

\* The value of a controlled key is put up for review before the job is enqueued.
Submit(v) ==
  /\ request.at = "idle" /\ key = "there"
  /\ request' = [at |-> "check", value |-> v, row |-> 0]
  /\ RequestKeeps /\ UNCHANGED <<vocabulary, queued, lastRow, tag, merge, owed>>

RequestChecks ==
  /\ request.at = "check"
  /\ IF TagValueExists(request.value) THEN request' = IdleRequest ELSE RequestGoes("queue")
  /\ RequestKeeps /\ UNCHANGED <<vocabulary, queued, lastRow, tag, merge, owed>>

RequestQueues ==
  /\ request.at = "queue" /\ UpsertPending(request.value) /\ request' = IdleRequest
  /\ RequestKeeps /\ UNCHANGED <<vocabulary, tag, merge>>

\* resolvePending, for Approve and for Merge.
ResolvePending(v, at) ==
  /\ request.at = "idle" /\ GetPendingTagValue(v) # 0
  /\ request' = [at |-> at, value |-> v, row |-> GetPendingTagValue(v)]
  /\ RequestKeeps /\ UNCHANGED <<vocabulary, queued, lastRow, tag, merge, owed>>

\* DeletePendingTagValue, by the row's id.
Without(v, row) == IF queued[v] = row THEN [queued EXCEPT ![v] = 0] ELSE queued

\* CreateTagValueIfAbsent first.
ApproveCreates ==
  /\ request.at = "approve" /\ RequestGoes("approve2")
  /\ vocabulary' = IF key = "there" THEN vocabulary \cup {request.value} ELSE vocabulary
  /\ RequestKeeps /\ UNCHANGED <<queued, lastRow, tag, merge, owed>>

\* Then the row; the value may have been deleted again meanwhile.
ApproveDrops ==
  /\ request.at = "approve2" /\ request' = IdleRequest
  /\ queued' = Without(request.value, request.row)
  /\ owed' = IF request.value \in vocabulary THEN owed ELSE owed \ {request.value}
  /\ RequestKeeps /\ UNCHANGED <<vocabulary, lastRow, tag, merge>>

\* Merge, into another value of the vocabulary: the rewriting of the tags is a job.
MergeChecks(into) ==
  /\ request.at = "merge" /\ into # request.value /\ TagValueExistsInOrg(into)
  /\ merge = NoMerge /\ merge' = [value |-> request.value, row |-> request.row]
  /\ request' = IdleRequest
  /\ RequestKeeps /\ UNCHANGED <<vocabulary, queued, lastRow, tag, owed>>

\* runMerge after the rewriting; a failure to drop the row is ignored.
MergeDrops ==
  /\ merge # NoMerge /\ merge' = NoMerge
  /\ \/ /\ queued' = Without(merge.value, merge.row)
        /\ owed' = IF queued' = queued THEN owed ELSE owed \ {merge.value}
     \/ UNCHANGED <<queued, owed>>
  /\ UNCHANGED <<key, vocabulary, lastRow, tag, indexer, request>>

\* A statement failed, or a check refused: the request ends where it was.
RequestEnds ==
  /\ request.at # "idle" /\ request' = IdleRequest
  /\ RequestKeeps /\ UNCHANGED <<vocabulary, queued, lastRow, tag, merge, owed>>

\* The job stays in retag_jobs.
ControlPlaneRestarts ==
  /\ indexer' = IdleIndexer /\ request' = IdleRequest
  /\ UNCHANGED <<key, vocabulary, queued, lastRow, tag, merge, owed>>

-----------------------------------------------------------------------------
Administers ==
  \/ CreateKey \/ DeleteKey \/ ClearTag
  \/ \E v \in Value : CreateValue(v) \/ DeleteValue(v) \/ Reject(v)

Indexes ==
  \/ \E s \in BOOLEAN, v \in Value \cup {NoValue} : UploadReported(s, v)
  \/ LookupKey \/ InsertFileTagIfAbsent \/ IndexerChecks \/ IndexerQueues \/ IndexerFails

Requests ==
  \/ \E v \in Value : SetTags(v) \/ Submit(v) \/ MergeChecks(v)
  \/ \E v \in Value, at \in {"approve", "merge"} : ResolvePending(v, at)
  \/ SetFileTag \/ RequestChecks \/ RequestQueues
  \/ ApproveCreates \/ ApproveDrops \/ RequestEnds

ReviewNext == Administers \/ Indexes \/ Requests \/ MergeDrops \/ ControlPlaneRestarts
ReviewSpec == ReviewInit /\ [][ReviewNext]_reviewVars

-----------------------------------------------------------------------------
(* Properties.                                                             *)

\* The rows keep their shape; the vocabulary and the review queue have a key, also
\* when it is deleted under a request that is about to write to them.
ReviewTypeOK ==
  /\ key \in {"none", "there", "deleted"} /\ lastRow \in 0..MaxRow
  /\ vocabulary \subseteq Value /\ queued \in [Value -> 0..MaxRow]
  /\ key # "there" => vocabulary = {} /\ Queued = {}
  /\ tag \in Explicit \cup {"none", "path_var"}
  /\ indexer.at \in {"idle", "lookup", "insert", "insertGoverned", "check", "queue"}
  /\ request.at \in {"idle", "set", "check", "queue", "approve", "approve2", "merge"}

\* A value put up for review stays in the queue until it is in the vocabulary or a
\* rejection, a deletion or a merge disposed of it, wherever a request is cut short.
ReviewNotLost == owed \subseteq Queued \cup vocabulary

\* An extracted value replaces no tag that a rule, a user or a batch wrote.
ExplicitWins == [][(tag \in Explicit) => (tag' # "path_var")]_reviewVars

\* No value under review and no explicit tag is lost, wherever a request is cut short.
ReviewHolds == []ReviewTypeOK /\ []ReviewNotLost /\ ExplicitWins
=============================================================================
