--------------------------- MODULE SeaweedSource ---------------------------
(***************************************************************************)
(* The SeaweedFS event source of the control plane                         *)
(* (controlplane/internal/storage/seaweedfs): one adapter follows the      *)
(* metadata log of a filer, reads every changed object back from storage,  *)
(* writes the fact it read to the file index, and persists the declared    *)
(* value of idle heartbeats as its durable cursor.                         *)
(*                                                                         *)
(* Times are filer-clock ticks.  The filer, the object store, the          *)
(* database and the agents whose upload reports reach the index are the    *)
(* environment; the adapter's steps are the calls it makes, one by one.    *)
(***************************************************************************)
EXTENDS Integers, FiniteSets

CONSTANTS
  Key,          \* object keys
  Unknown,      \* keys in buckets that the ledger does not know
  MaxVer,       \* contents of an object: 1..MaxVer (bound)
  MaxLog,       \* bound on the entries of the metadata log
  MaxClock,     \* bound on the filer clock
  Margin,       \* ResumeMargin (M)
  Rollback,     \* how far a restarted filer's clock may fall back
  ApplyMaxRetries,
  MaxFaults,    \* bound on failing database and storage calls
  MaxRestarts,  \* bound on restarts of the filer and of the control plane
  MaxReports    \* bound on upload reports of agents

ASSUME SourceAssumption ==
  /\ Unknown \subseteq Key
  /\ MaxVer \in Nat /\ MaxLog \in Nat /\ MaxClock \in Nat
  /\ Margin \in Nat /\ Rollback \in Nat /\ ApplyMaxRetries \in Nat
  /\ MaxFaults \in Nat /\ MaxRestarts \in Nat /\ MaxReports \in Nat

\* The clock assumption of docs/reports/storage-event-source.md section 0.2:
\* the margin is at least the rollback.
ASSUME MarginAssumption == Rollback <= Margin

Entry == 1..MaxLog          \* positions in the metadata log
Bucket == "bucket"          \* the directory of the known keys' bucket
Other == "other"            \* entries that Translate filters out
Subject == Key \cup {Bucket, Other}

\* The key of an object is neither a bucket's directory nor filtered out.
ASSUME SubjectAssumption == Key \cap {Bucket, Other} = {}

Absent == 0                 \* content of a missing object, status of a deleted row
NoRow == -1                 \* the index holds no row for a key

VARIABLES
  (* The filer and its store. *)
  n,            \* entries logged so far
  ts, subj,     \* ts_ns and subject of each entry
  clock,        \* the filer's clock
  high,         \* the highest value the clock has had
  claim,        \* the highest value this filer process has declared
  lost,         \* entries a hard crash dropped before they were flushed
  object,       \* content of each key, Absent when there is none
  stored,       \* uploads an agent may still report: <<key, content>>
  (* The database. *)
  cursor,       \* storage_event_cursors.declared_ts_ns, 0 without a row
  row,          \* file_entries by key: NoRow, Absent (deleted) or content
  marks,        \* reasons of the marks other than gaps
  (* The adapter. *)
  pc,           \* its next step
  last,         \* lastDeclared
  since, pos,   \* since_ns of the stream, entries the filer has gone past
  open,         \* the stream is connected at the filer
  first,        \* firstHeartbeat
  hb,           \* the heartbeat in hand
  flushed,      \* lastFlush is not zero
  cur,          \* the entry in hand, 0 when there is none
  attempt, fact,
  raced,        \* a report wrote cur's row after the adapter read the clock
  (* History. *)
  done,         \* entries processed at least once
  dirty,        \* keys whose row a report wrote after the last read-back
  unmarked,     \* lost entries that neither were processed nor lie in a gap mark
  (* Bounds. *)
  faults, restarts, reports

filer == <<n, ts, subj, clock, high, claim, lost, object, stored>>
ledger == <<cursor, row, marks>>
stream == <<last, since, pos, open, first, hb, flushed>>
change == <<cur, attempt, fact, raced>>
history == <<done, dirty, unmarked>>
bounds == <<faults, restarts, reports>>
vars == <<filer, ledger, pc, stream, change, history, bounds>>

Streaming == {"recv", "gap", "beat", "bucket", "clock", "head", "apply", "state"}
Processing == {"bucket", "clock", "head", "apply", "state"}
Pcs == {"load", "check", "connect"} \cup Streaming

Init ==
  /\ n = 0 /\ ts = [i \in Entry |-> 0] /\ subj = [i \in Entry |-> Other]
  /\ clock = 0 /\ high = 0 /\ claim = 0 /\ lost = {}
  /\ object = [k \in Key |-> Absent] /\ stored = {}
  /\ cursor = 0 /\ row = [k \in Key |-> NoRow] /\ marks = {}
  /\ pc = "load" /\ last = 0 /\ since = 0 /\ pos = 0 /\ open = FALSE
  /\ first = FALSE /\ hb = 0 /\ flushed = FALSE
  /\ cur = 0 /\ attempt = 0 /\ fact = Absent /\ raced = FALSE
  /\ done = {} /\ dirty = {} /\ unmarked = {}
  /\ faults = 0 /\ restarts = 0 /\ reports = 0

Larger(a, b) == IF a >= b THEN a ELSE b
Smaller(a, b) == IF a <= b THEN a ELSE b
Fault == faults < MaxFaults /\ faults' = faults + 1

-----------------------------------------------------------------------------
(* The filer: external, modelled from how the adapter relies on it.        *)

\* A change of the namespace gets its time before it is logged, so entries are
\* not in the order of their times; but an entry logged after a declaration has
\* a later time.
Append(s) ==
  /\ n < MaxLog /\ clock < MaxClock
  /\ n' = n + 1
  /\ \E t \in (claim + 1)..(clock + 1) : ts' = [ts EXCEPT ![n + 1] = t]
  /\ subj' = [subj EXCEPT ![n + 1] = s]
  /\ clock' = clock + 1 /\ high' = Larger(high, clock + 1)
  /\ UNCHANGED <<claim, lost, ledger, pc, stream, change, history, bounds>>

\* An object is created or overwritten; the writer may be an agent.
Put(k, v) ==
  /\ object' = [object EXCEPT ![k] = v]
  /\ stored' = stored \cup {<<k, v>>}
  /\ Append(k)

Delete(k) ==
  /\ object[k] # Absent
  /\ object' = [object EXCEPT ![k] = Absent]
  /\ Append(k) /\ UNCHANGED stored

\* leveldb3 drops a bucket with one directory event and none per object.
RemoveBucket ==
  /\ object' = [k \in Key |-> IF k \in Unknown THEN object[k] ELSE Absent]
  /\ Append(Bucket) /\ UNCHANGED stored

OtherEntry == Append(Other) /\ UNCHANGED <<object, stored>>

Tick ==
  /\ clock < MaxClock
  /\ clock' = clock + 1 /\ high' = Larger(high, clock + 1)
  /\ UNCHANGED <<n, ts, subj, claim, lost, object, stored, ledger, pc, stream,
                 change, history, bounds>>

\* A hard crash of the filer: the entries after m were not flushed and no
\* stream will deliver them, although the objects are stored.  The clock may
\* come back up to Rollback below the highest value it has had.
FilerRestart ==
  /\ restarts < MaxRestarts /\ restarts' = restarts + 1
  /\ \E m \in 0..n, c \in 0..clock :
       /\ c + Rollback >= high
       /\ clock' = c /\ claim' = c
       /\ lost' = lost \cup (m + 1)..n
       /\ unmarked' = unmarked \cup {i \in (m + 1)..n : i \notin done \cup lost}
  /\ open' = FALSE
  /\ UNCHANGED <<n, ts, subj, high, object, stored, ledger, pc, last, since, pos,
                 first, hb, flushed, change, done, dirty, faults, reports>>

\* HandleUploadResult of an agent's report, now or much later: the row is
\* written with the database's own time, which is later than any reading the
\* adapter has in hand.
AgentReport(k, v) ==
  /\ reports < MaxReports /\ reports' = reports + 1
  /\ <<k, v>> \in stored /\ k \notin Unknown
  /\ row' = [row EXCEPT ![k] = v]
  /\ dirty' = dirty \cup {k}
  /\ raced' = (raced \/ (pc \in {"head", "apply", "state"} /\ subj[cur] = k))
  /\ UNCHANGED <<filer, cursor, marks, pc, stream, cur, attempt, fact, done,
                 unmarked, faults, restarts>>

-----------------------------------------------------------------------------
(* Start, restart and subscription.                                        *)

\* The control plane stops or crashes at any step and starts again: what the
\* adapter held in memory is gone.
Crash ==
  /\ restarts < MaxRestarts /\ restarts' = restarts + 1
  /\ pc' = "load" /\ last' = 0 /\ since' = 0 /\ pos' = 0 /\ open' = FALSE
  /\ first' = FALSE /\ hb' = 0 /\ flushed' = FALSE
  /\ cur' = 0 /\ attempt' = 0 /\ fact' = Absent /\ raced' = FALSE
  /\ UNCHANGED <<filer, ledger, history, faults, reports>>

\* DeclaredCursor is read until the read succeeds.
LoadCursor ==
  /\ pc = "load"
  /\ last' = cursor
  /\ pc' = IF cursor = 0 THEN "connect" ELSE "check"
  /\ UNCHANGED <<filer, ledger, since, pos, open, first, hb, flushed, change,
                 history, bounds>>

\* The self-check marks a cursor that predates the earliest log file and never
\* stops the start.  What fs.log.purge removed is not modelled: the check may
\* find the cursor out of range, in range, or fail.
SelfCheck ==
  /\ pc = "check"
  /\ pc' = "connect"
  /\ marks' \in {marks, marks \cup {"cursor_before_earliest_log"}}
  /\ UNCHANGED <<filer, cursor, row, stream, change, history, bounds>>

ResumeFromMutant(declared) == declared

\* ResumeFrom: the declared value rewound by the margin, floored at zero.
ResumeFrom(declared) == Larger(declared - Margin, 0)

Subscribe ==
  /\ pc = "connect"
  /\ pc' = "recv"
  /\ since' = ResumeFrom(last) /\ pos' = 0 /\ open' = TRUE /\ first' = TRUE
  /\ UNCHANGED <<filer, ledger, last, hb, flushed, change, history, bounds>>

\* What the adapter holds when a stream is given up.
Resubscribe ==
  /\ pc' = "connect"
  /\ open' = FALSE /\ cur' = 0 /\ attempt' = 0 /\ fact' = Absent /\ raced' = FALSE
  /\ hb' = 0
  /\ UNCHANGED <<last, since, pos, first, flushed>>

\* Recv fails: the filer went away, or the connection broke on its own.
RecvError ==
  /\ pc = "recv"
  /\ \/ ~open /\ UNCHANGED faults
     \/ open /\ Fault
  /\ Resubscribe
  /\ UNCHANGED <<filer, ledger, history, restarts, reports>>

-----------------------------------------------------------------------------
(* One response of the stream.                                             *)

\* The filer sends the entries above since in log order, and none that it
\* lost.  An entry that Translate filters out needs no work.
Deliverable(i) == ts[i] > since /\ i \notin lost

FirstStep(s) ==
  CASE s = Bucket -> "bucket" [] s = Other -> "recv" [] OTHER -> "clock"

RecvChange ==
  /\ pc = "recv" /\ open /\ pos < n
  /\ pos' = pos + 1
  /\ IF Deliverable(pos + 1)
     THEN /\ pc' = FirstStep(subj[pos + 1])
          /\ cur' = IF subj[pos + 1] = Other THEN 0 ELSE pos + 1
          /\ done' = IF subj[pos + 1] = Other THEN done \cup {pos + 1} ELSE done
          /\ unmarked' = unmarked \ done'
     ELSE UNCHANGED <<pc, cur, done, unmarked>>
  /\ UNCHANGED <<filer, ledger, last, since, open, first, hb, flushed, attempt,
                 fact, raced, dirty, bounds>>

\* An idle heartbeat is sent to a subscriber that is caught up: the filer
\* declares a time below every change that is still to be logged.
RecvHeartbeat ==
  /\ pc = "recv" /\ open /\ pos = n
  /\ hb' \in Larger(claim, 1)..clock /\ claim' = hb'
  /\ first' = FALSE
  /\ pc' = IF first THEN "gap" ELSE "beat"
  /\ UNCHANGED <<n, ts, subj, clock, high, lost, object, stored, ledger, last,
                 since, pos, open, flushed, change, history, bounds>>

\* GapWindow: from min(C, H) - M to max(C, H).
GapWindow(c, h) == (Smaller(c, h) - Margin)..Larger(c, h)

\* recordGapWindow, for the first heartbeat of a stream.
RecordGapWindow ==
  /\ pc = "gap"
  /\ \/ /\ pc' = "beat"
        /\ unmarked' = {i \in unmarked : ts[i] \notin GapWindow(last, hb)}
        /\ UNCHANGED <<stream, change, faults>>
     \/ Fault /\ Resubscribe /\ UNCHANGED unmarked
  /\ UNCHANGED <<filer, ledger, done, dirty, restarts, reports>>

\* SaveCursor keeps the greatest value ever saved.
Saved(h) == Larger(cursor, h)

\* persistCursor: never a smaller value; once a value has been flushed the
\* next ones may fall into the flush interval; a failed save gives up the
\* stream, and may or may not have reached the database.
PersistCursor ==
  /\ pc = "beat"
  /\ \/ /\ hb <= last \/ flushed
        /\ pc' = "recv" /\ hb' = 0
        /\ UNCHANGED <<cursor, last, since, pos, open, first, flushed, change, faults>>
     \/ /\ hb > last
        /\ cursor' = Saved(hb) /\ last' = hb /\ flushed' = TRUE
        /\ pc' = "recv" /\ hb' = 0
        /\ UNCHANGED <<since, pos, open, first, change, faults>>
     \/ /\ hb > last
        /\ Fault /\ Resubscribe
        /\ cursor' \in {cursor, Saved(hb)}
  /\ UNCHANGED <<filer, row, marks, history, restarts, reports>>

-----------------------------------------------------------------------------
(* processChange.                                                          *)

\* The change in hand is processed: the stream moves on.
Processed ==
  /\ pc' = "recv"
  /\ done' = done \cup {cur} /\ unmarked' = unmarked \ {cur}
  /\ cur' = 0 /\ attempt' = 0 /\ fact' = Absent /\ raced' = FALSE
  /\ UNCHANGED stream

AttemptFailedMutant ==
  /\ pc' = "recv" /\ cur' = 0 /\ attempt' = 0 /\ fact' = Absent /\ raced' = FALSE
  /\ UNCHANGED stream

\* A failed attempt: the fact is derived again from a fresh clock reading,
\* and the stream is given up after the last attempt.
AttemptFailed ==
  IF attempt < ApplyMaxRetries
  THEN /\ pc' = "clock" /\ attempt' = attempt + 1
       /\ fact' = Absent /\ raced' = FALSE
       /\ UNCHANGED <<stream, cur>>
  ELSE Resubscribe

\* handleBucketRemoved: a mark, and no write to the index.
HandleBucketRemoved ==
  /\ pc = "bucket"
  /\ \/ Processed /\ marks' = marks \cup {"bucket_removed"} /\ UNCHANGED faults
     \/ Fault /\ Resubscribe /\ UNCHANGED <<marks, done, unmarked>>
  /\ UNCHANGED <<filer, cursor, row, dirty, restarts, reports>>

\* readBack, first half: the database clock, before any traffic to storage.
ReadClock ==
  /\ pc = "clock"
  /\ \/ pc' = "head" /\ raced' = FALSE /\ UNCHANGED <<stream, cur, attempt, fact, faults>>
     \/ Fault /\ AttemptFailed
  /\ UNCHANGED <<filer, ledger, history, restarts, reports>>

\* What StatObject tells of a key: its content, a definitive absence, or
\* nothing when the call fails.
StatObject(k, failed) == IF failed THEN {} ELSE {object[k]}

\* readBack, second half: HEAD.
ReadBack ==
  /\ pc = "head"
  /\ \/ /\ \E failed \in {b \in BOOLEAN : b => faults < MaxFaults} :
             /\ fact' \in StatObject(subj[cur], failed)
             /\ faults' = IF failed THEN faults + 1 ELSE faults
        /\ pc' = "apply"
        /\ UNCHANGED <<stream, cur, attempt, raced>>
     \/ Fault /\ AttemptFailed
  /\ UNCHANGED <<filer, ledger, history, restarts, reports>>

\* The row the fact leaves: a removal of a key without a row writes none.
RowFor(k) == IF fact = Absent /\ row[k] = NoRow THEN NoRow ELSE fact

\* The guard of the upsert: the row carries a newer observation.
Suppressed == raced /\ row[subj[cur]] # NoRow

\* Apply of the suppression-aware sink.  A bucket unknown to the ledger counts
\* as processed.
Apply ==
  /\ pc = "apply"
  /\ \/ subj[cur] \in Unknown /\ Processed /\ UNCHANGED <<row, dirty, faults>>
     \/ /\ subj[cur] \notin Unknown /\ ~Suppressed
        /\ row' = [row EXCEPT ![subj[cur]] = RowFor(subj[cur])]
        /\ dirty' = dirty \ {subj[cur]}
        /\ Processed /\ UNCHANGED faults
     \/ /\ subj[cur] \notin Unknown /\ Suppressed
        /\ pc' = "state"
        /\ UNCHANGED <<row, dirty, stream, change, done, unmarked, faults>>
     \/ Fault /\ AttemptFailed /\ UNCHANGED <<row, dirty, done, unmarked>>
  /\ UNCHANGED <<filer, cursor, marks, restarts, reports>>

SameStateAsFactMutant(r) == r # NoRow

\* sameStateAsFact: the newer observation recorded exactly this fact.
SameStateAsFact(r) ==
  IF fact = Absent THEN r \in {NoRow, Absent} ELSE r = fact

\* The suppressed write: confirmed by the row's current state, or derived
\* again.  A failing RowState counts as a failed attempt too.
ConfirmSuppressed ==
  /\ pc = "state"
  /\ \/ /\ SameStateAsFact(row[subj[cur]])
        /\ dirty' = dirty \ {subj[cur]} /\ Processed /\ UNCHANGED faults
     \/ /\ ~SameStateAsFact(row[subj[cur]])
        /\ AttemptFailed /\ UNCHANGED <<dirty, done, unmarked, faults>>
     \/ Fault /\ AttemptFailed /\ UNCHANGED <<dirty, done, unmarked>>
  /\ UNCHANGED <<filer, ledger, restarts, reports>>

-----------------------------------------------------------------------------
Adapter ==
  \/ LoadCursor \/ SelfCheck \/ Subscribe \/ RecvError
  \/ RecvChange \/ RecvHeartbeat \/ RecordGapWindow \/ PersistCursor
  \/ HandleBucketRemoved \/ ReadClock \/ ReadBack \/ Apply \/ ConfirmSuppressed

Environment ==
  \/ \E k \in Key, v \in 1..MaxVer : Put(k, v)
  \/ \E k \in Key : Delete(k)
  \/ RemoveBucket \/ OtherEntry \/ Tick
  \/ FilerRestart \/ Crash
  \/ \E k \in Key, v \in 1..MaxVer : AgentReport(k, v)

Next == Adapter \/ Environment

Spec == Init /\ [][Next]_vars

\* The adapter is one goroutine that always has a next step; nothing else is
\* fair.  Failing calls are bounded, so a call that is repeated succeeds.
FairSpec == Spec /\ WF_vars(Adapter)

-----------------------------------------------------------------------------
TypeOK ==
  /\ n \in 0..MaxLog /\ ts \in [Entry -> Nat] /\ subj \in [Entry -> Subject]
  /\ clock \in Nat /\ high \in Nat /\ claim \in Nat /\ lost \subseteq Entry
  /\ object \in [Key -> 0..MaxVer] /\ stored \subseteq Key \X (1..MaxVer)
  /\ cursor \in Nat /\ row \in [Key -> NoRow..MaxVer]
  /\ marks \subseteq {"bucket_removed", "cursor_before_earliest_log"}
  /\ pc \in Pcs /\ last \in Nat /\ since \in Nat /\ pos \in 0..n
  /\ open \in BOOLEAN /\ first \in BOOLEAN /\ hb \in Nat /\ flushed \in BOOLEAN
  /\ cur \in 0..n /\ attempt \in 0..ApplyMaxRetries /\ fact \in 0..MaxVer
  /\ raced \in BOOLEAN
  /\ done \subseteq Entry /\ dirty \subseteq Key /\ unmarked \subseteq Entry
  /\ faults \in 0..MaxFaults /\ restarts \in 0..MaxRestarts
  /\ reports \in 0..MaxReports

\* An entry nobody has processed and the filer still holds.
Outstanding(i) == i \in 1..n /\ i \notin done /\ i \notin lost

\* "An event is NEVER skipped" (subscribe.go): whatever fails, and wherever the
\* control plane or the filer restarts, every outstanding entry lies above the
\* point from which the next subscription resumes.
NeverSkipped == \A i \in Entry : Outstanding(i) => ts[i] > ResumeFrom(cursor)

\* The completeness claim of the durable cursor, up to the clock rollback the
\* deployment allows: with Rollback = 0, every entry at or below a saved
\* declared value has been applied.
CursorIsComplete ==
  \A i \in Entry : Outstanding(i) => ts[i] + Rollback > cursor

\* A saved cursor never moves back (GREATEST in UpsertStorageEventCursor and
\* the guard of persistCursor), across crashes, failed saves and a filer clock
\* that fell back.
CursorNeverRegresses == [][cursor' >= cursor]_vars

\* The index's row describes the object.
Agrees(k) == IF object[k] = Absent THEN row[k] \in {NoRow, Absent} ELSE row[k] = object[k]

\* Once every entry of a key has been processed, the row describes the stored
\* object, unless an agent's report was written after the last read-back, or
\* the bucket was removed (then a mark says so).  In particular a storage
\* hiccup never becomes a deletion and a suppressed write is not forgotten.
IndexFollowsStore ==
  \A k \in Key \ Unknown :
    (/\ k \notin dirty
     /\ \A i \in 1..n : subj[i] \in {k, Bucket} => i \in done)
      => Agrees(k) \/ "bucket_removed" \in marks

\* An event that a hard crash of the filer dropped lies in a recorded gap
\* window as soon as the first heartbeat of the next stream was handled
\* (recordGapWindow): reconciliation will look at its object.
LossIsMarked == pc \in Streaming \ {"gap"} /\ open /\ ~first => unmarked = {}

\* Every logged entry the filer still holds is eventually processed.
EveryEntryProcessed ==
  \A i \in Entry : (i <= n /\ i \notin lost) ~> (i \in done \/ i \in lost)

\* The durable cursor can be trusted: no outstanding entry lies where a resumed
\* subscription would not look, up to the rollback of the filer's clock.
CursorSound == NeverSkipped /\ CursorIsComplete

\* The stream goes forward: the cursor never moves back, and every entry is processed.
StreamAdvances == []TypeOK /\ CursorNeverRegresses /\ EveryEntryProcessed

\* Once the stream is through, the index says what the store holds; where the filer
\* lost entries, a gap mark says so.
IndexIsExplained == IndexFollowsStore /\ LossIsMarked
=============================================================================
