----------------------------- MODULE FileIndex -----------------------------
(* The row of one object in the file index (file_entries), written along    *)
(* two paths: upload reports of the agent that stored the object, stamped   *)
(* with the database clock, and object-store events, stamped with the       *)
(* store's clock and sequencer.  Events are applied in any order and any    *)
(* number of times, and reports at any time.  The two clocks agree          *)
(* (docs/design/consistency-and-ingest.md, section 3.4).                    *)
EXTENDS Integers, Sequences

CONSTANTS MaxChange,  \* bound on the changes of the object
          MaxTime     \* bound on the clock

ASSUME IndexAssumption == MaxChange \in Nat /\ MaxTime \in Nat

VARIABLES changes,    \* what happened to the object, in the store's order
          time,       \* the clock of the store and of PostgreSQL
          entry,      \* the row
          delivered,  \* events applied at least once
          missed,     \* deletions last applied while there was no row
          report,     \* the report being handled
          uploads,    \* changes made by the agent; Failed: an upload given up
          acked,      \* uploads whose report was acknowledged
          logged,     \* uploads with a row in upload_logs
          landings    \* the reports written to the row: when, and whether the
                      \* object had moved on by then

idxVars == <<changes, time, entry, delivered, missed, report, uploads, acked,
             logged, landings>>
storeVars == <<changes, time, uploads>>

NoEntry == [status |-> "none"]
NoSeq == 0
NoDigest == 0
NoReport == [at |-> "idle"]

(* A change is numbered by its place: that is its sequencer and, for a      *)
(* creation, stands for the content (size and etag).                        *)
Object == IF changes = <<>> \/ changes[Len(changes)].kind = "removed" THEN 0
          ELSE Len(changes)

Failed == 0

IdxInit == /\ changes = <<>> /\ time = 0
           /\ entry = NoEntry
           /\ delivered = {} /\ missed = {}
           /\ report = NoReport
           /\ uploads = {} /\ acked = {} /\ logged = {}
           /\ landings = {}

-----------------------------------------------------------------------------
(* The environment: the object store, the agent and the clock.              *)

(* The object is stored, by the agent or by another writer, or removed.     *)
Change(kind, byAgent) ==
  /\ Len(changes) < MaxChange
  /\ (kind = "removed") => (Object # 0)
  /\ byAgent => (kind = "created")
  /\ changes' = Append(changes, [kind |-> kind, at |-> time])
  /\ uploads' = IF byAgent THEN uploads \cup {Len(changes) + 1} ELSE uploads
  /\ UNCHANGED <<time, entry, delivered, missed, report, acked, logged, landings>>

(* An upload runs out of retries and is reported as failed. *)
UploadGivenUp ==
  /\ uploads' = uploads \cup {Failed}
  /\ UNCHANGED <<changes, time, entry, delivered, missed, report, acked, logged,
                 landings>>

ClockTicks == /\ time < MaxTime
        /\ time' = time + 1
        /\ UNCHANGED <<changes, entry, delivered, missed, report, uploads, acked,
                       logged, landings>>

-----------------------------------------------------------------------------
(* The guarded statements of ingest.sql. *)

(* A newer observation wins; a tie goes to the larger sequencer, and to     *)
(* whoever comes last when either side has none.                            *)
Guard(old, at, seq) ==
  \/ at > old.observed
  \/ /\ at = old.observed
     /\ seq = NoSeq \/ old.seq = NoSeq \/ seq >= old.seq

Lands(at, seq) == entry.status = "none" \/ Guard(entry, at, seq)

(* UpsertIndexedFile; what the writer does not know keeps its old value.    *)
Upserted(content, digest, at, seq) ==
  [status |-> "completed", content |-> content,
   digest |-> IF digest # NoDigest \/ entry.status = "none" THEN digest ELSE entry.digest,
   observed |-> at, seq |-> seq]

DeletedInPlace(at, seq) == [entry EXCEPT !.status = "deleted"]

(* DeleteIndexedFile, which also advances the observation.                  *)
Deleted(at, seq) == [entry EXCEPT !.status = "deleted", !.observed = at, !.seq = seq]

(* IndexUpload or IndexDeletion for event n, its first delivery or a        *)
(* repeat; a suppressed or an absent deletion is processed all the same.    *)
ApplyEvent(n) ==
  /\ n <= Len(changes)
  /\ LET ev == changes[n]
         absent == ev.kind = "removed" /\ entry.status = "none" IN
       /\ entry' = IF absent \/ ~Lands(ev.at, n) THEN entry
                   ELSE IF ev.kind = "removed" THEN Deleted(ev.at, n)
                   ELSE Upserted(n, NoDigest, ev.at, n)
       /\ missed' = IF absent THEN missed \cup {n} ELSE missed \ {n}
  /\ delivered' = delivered \cup {n}
  /\ UNCHANGED <<storeVars, report, acked, logged, landings>>

-----------------------------------------------------------------------------
(* HandleUploadResult: the agent sends the report again until it is         *)
(* acknowledged.                                                            *)

(* The bucket is looked up, and the rule for its metadata: a rule that is   *)
(* gone, or another agent's, is dropped from the report and the row is      *)
(* written without it.  A failed upload leaves the row alone.               *)
BeginReport(n) ==
  /\ report = NoReport
  /\ n \in uploads \ acked
  /\ report' = [at |-> IF n = Failed THEN "log" ELSE "upsert", upload |-> n]
  /\ UNCHANGED <<storeVars, entry, delivered, missed, acked, logged, landings>>

(* The agent's clock instead of the database's. *)

(* A suppressed write skips the tags, the log and the event. *)
UpsertReport ==
  /\ report.at = "upsert"
  /\ IF Lands(time, NoSeq)
       THEN /\ entry' = Upserted(report.upload, report.upload, time, NoSeq)
            /\ report' = [report EXCEPT !.at = "log"]
            /\ landings' = landings \cup {[at |-> time, late |-> Object # report.upload]}
       ELSE /\ report' = [report EXCEPT !.at = "ack"]
            /\ UNCHANGED <<entry, landings>>
  /\ UNCHANGED <<storeVars, delivered, missed, acked, logged>>

(* The log row, then the event, which is best effort.  A failed upload is   *)
(* only logged.                                                             *)
LogReport ==
  /\ report.at = "log"
  /\ logged' = logged \cup {report.upload}
  /\ report' = [report EXCEPT !.at = "ack"]
  /\ UNCHANGED <<storeVars, entry, delivered, missed, acked, landings>>

(* The acknowledgement is sent, or dropped because the queue is full. *)
AckReport ==
  /\ report.at = "ack"
  /\ acked' \in {acked, acked \cup {report.upload}}
  /\ report' = NoReport
  /\ UNCHANGED <<storeVars, entry, delivered, missed, logged, landings>>

(* A statement fails, or the control plane goes down: no acknowledgement.   *)
ReportFails ==
  /\ report.at \in {"upsert", "log"}
  /\ report' = NoReport
  /\ UNCHANGED <<storeVars, entry, delivered, missed, acked, logged, landings>>

IdxNext ==
  \/ \E kind \in {"created", "removed"}, byAgent \in BOOLEAN : Change(kind, byAgent)
  \/ UploadGivenUp
  \/ \E n \in 1..MaxChange : ApplyEvent(n)
  \/ \E n \in 0..MaxChange : BeginReport(n)
  \/ UpsertReport \/ LogReport \/ AckReport \/ ReportFails
  \/ ClockTicks

IdxSpec == IdxInit /\ [][IdxNext]_idxVars

-----------------------------------------------------------------------------
EntryRecord == [status : {"completed", "deleted"}, content : 1..MaxChange,
                digest : 0..MaxChange,
                observed : 0..MaxTime, seq : 0..MaxChange]

(* The type of the state; no row carries an observation from the future     *)
(* (the stamp of a report is the database's now(), never the agent's).      *)
IdxTypeOK ==
  /\ changes \in Seq([kind : {"created", "removed"}, at : 0..MaxTime])
  /\ Len(changes) <= MaxChange /\ time \in 0..MaxTime
  /\ entry = NoEntry \/ (entry \in EntryRecord /\ entry.observed <= time)
  /\ missed \subseteq delivered /\ delivered \subseteq 1..Len(changes)
  /\ uploads \subseteq 0..Len(changes) /\ acked \cup logged \subseteq uploads
  /\ landings \subseteq [at : 0..time, late : BOOLEAN]

ChangeTimes == [i \in 1..Len(changes) |-> changes[i].at]

(* A report has no sequencer: among changes of the very instant at which    *)
(* one was written, whichever is written last wins.                         *)
Tied == \E r \in landings, i, j \in DOMAIN changes :
          i # j /\ ChangeTimes[i] = r.at /\ ChangeTimes[j] = r.at /\ entry.observed = r.at

(* A report landed after the object had moved on, and no change came since. *)
Overtaken == \E r \in landings :
               r.late /\ \A i \in DOMAIN changes : ChangeTimes[i] <= r.at

(* Reports and events commute: once every event has been applied, in any    *)
(* order and any number of times, the row says what the store holds.  The   *)
(* exceptions are the ones the design names: a report after the object      *)
(* moved on, a tie without a sequencer, and a deletion that came before     *)
(* there was a row to delete (no tombstone is kept).                        *)
RowConverges ==
  (/\ delivered = DOMAIN changes
   /\ ~Tied /\ ~Overtaken /\ Len(changes) \notin missed)
  => IF Object = 0 THEN entry.status \in {"none", "deleted"}
     ELSE entry.status = "completed" /\ entry.content = Object

(* An upload is acknowledged only once it is in upload_logs: the guard,     *)
(* whose refusal skips the log, never refuses a report, whatever events     *)
(* of the same instant the row has absorbed.                                *)
AckedIsLogged == acked \subseteq logged

\* The row follows the store and the log follows the acknowledgements, in whatever
\* order reports and events arrive.
IndexHolds == IdxTypeOK /\ RowConverges /\ AckedIsLogged
=============================================================================
