------------------------ MODULE SeaweedSourceProofs ------------------------
(***************************************************************************)
(* Proofs about SeaweedSource, for any log length, any clock, any number   *)
(* of failures and restarts: no event is skipped as long as the resume      *)
(* margin is at least the clock rollback, the index describes the store,    *)
(* and a filer's losses are marked if its clock does not fall back.  The   *)
(* process that starts the source and ends it (ServerLifecycle) follows.   *)
(***************************************************************************)
EXTENDS SeaweedSource, ServerLifecycle, TLAPS

USE Zenon

\* The bounds in the form the provers use.
LEMMA Sizes ==
  /\ MaxLog \in Nat /\ Margin \in Nat /\ Rollback \in Nat /\ Rollback <= Margin
  /\ MaxVer \in Nat /\ ApplyMaxRetries \in Nat /\ MaxFaults \in Nat
  /\ MaxRestarts \in Nat /\ MaxReports \in Nat
BY SourceAssumption, MarginAssumption

LEMMA ResumeFromType ==
  ASSUME NEW d \in Nat
  PROVE  ResumeFrom(d) \in Nat /\ (ResumeFrom(d) = 0 \/ ResumeFrom(d) = d - Margin)
BY Sizes, SMT DEF ResumeFrom, Larger

\* The numbers of the model.
NumbersOK ==
  /\ n \in 0..MaxLog /\ ts \in [Entry -> Nat] /\ clock \in Nat /\ high \in Nat
  /\ claim \in Nat
  /\ cursor \in Nat /\ last \in Nat /\ since \in Nat /\ hb \in Nat /\ pos \in Nat
  /\ cur \in Nat

\* The declared values stay behind the clock, and what the adapter remembers
\* stays behind the database.
ClocksOK ==
  /\ claim <= clock /\ clock <= high
  /\ cursor <= claim + Rollback /\ hb <= claim + Rollback
  /\ cursor <= high /\ hb <= high /\ last <= cursor
  /\ since <= ResumeFrom(cursor)
  /\ \A i \in 1..n : ts[i] >= 1

\* On a stream, everything the filer has gone past is processed, save the
\* change in hand; between changes there is none in hand.
StreamOK ==
  /\ pos <= n
  /\ pc \in Streaming => \A i \in 1..pos : Outstanding(i) => i = cur
  /\ pc \notin Processing => cur = 0

\* The heartbeat in hand may be saved.
BeatOK ==
  pc \in {"gap", "beat"} => \A i \in Entry : Outstanding(i) => ts[i] + Rollback > hb

IInv == NumbersOK /\ ClocksOK /\ StreamOK /\ BeatOK /\ CursorIsComplete

\* An outstanding entry is one of the log, and a processed or lost one is not
\* outstanding again.
LEMMA OutstandingInLog ==
  ASSUME NumbersOK, NEW i, Outstanding(i)
  PROVE  i \in Entry /\ i <= n
BY Sizes, SMT DEF NumbersOK, Outstanding, Entry

\* Entries below the resume point are not outstanding: the filer's filter on
\* since_ns drops only what has been processed.
LEMMA FilterIsSafe ==
  ASSUME IInv, NEW i, Outstanding(i)
  PROVE  ts[i] > since /\ ts[i] > ResumeFrom(cursor)
<1>1. i \in Entry /\ i \in 1..n /\ ts[i] \in Nat
  BY Sizes, SMT DEF IInv, NumbersOK, Outstanding, Entry
<1>2. ts[i] >= 1 /\ ts[i] + Rollback > cursor
  BY <1>1 DEF IInv, ClocksOK, CursorIsComplete
<1>3. cursor \in Nat /\ since \in Nat /\ since <= ResumeFrom(cursor)
  BY DEF IInv, NumbersOK, ClocksOK
<1>4. ResumeFrom(cursor) \in Nat /\ (ResumeFrom(cursor) = 0 \/ ResumeFrom(cursor) = cursor - Margin)
  BY <1>3, ResumeFromType
<1> QED BY <1>1, <1>2, <1>3, <1>4, Sizes, SMT

LEMMA ResumeFromMonotone ==
  ASSUME NEW c \in Nat, NEW d \in Nat, c <= d
  PROVE  ResumeFrom(c) <= ResumeFrom(d)
BY Sizes, SMT DEF ResumeFrom, Larger

LEMMA InitIInv == Init => IInv
<1> SUFFICES ASSUME Init PROVE IInv
  OBVIOUS
<1>1. NumbersOK
  BY Sizes, SMT DEF Init, NumbersOK, Entry
<1>2. ClocksOK
  BY Sizes, ResumeFromType, SMT DEF Init, ClocksOK
<1>3. StreamOK /\ BeatOK
  BY SMT DEF Init, StreamOK, BeatOK, Streaming
<1>4. CursorIsComplete
  BY SMT DEF Init, CursorIsComplete, Outstanding
<1> QED BY <1>1, <1>2, <1>3, <1>4 DEF IInv

\* A step that leaves the log, the clock and the cursors alone, loses and
\* forgets nothing, and neither starts a stream nor takes up a heartbeat.
LEMMA QuietStep ==
  ASSUME IInv,
         UNCHANGED <<n, ts, clock, high, claim, cursor, last, since>>,
         done \subseteq done', lost \subseteq lost',
         pos' = pos, cur' \in Nat, hb' \in {0, hb},
         pc' \in {"gap", "beat"} => pc \in {"gap", "beat"} /\ hb' = hb,
         pc' \in Streaming => pc \in Streaming
                              /\ (cur' = cur \/ cur = 0 \/ cur \in done'),
         pc' \notin Processing => cur' = 0
  PROVE  IInv'
<1>1. \A i : Outstanding(i)' => Outstanding(i)
  BY DEF Outstanding
<1>2. NumbersOK'
  BY SMT DEF IInv, NumbersOK
<1>3. ClocksOK'
  BY Sizes, SMT DEF IInv, ClocksOK, NumbersOK, ResumeFrom, Larger
<1>4. StreamOK'
  <2>1. pos' <= n'
    BY DEF IInv, StreamOK
  <2>2. ASSUME pc' \in Streaming, NEW i \in 1..pos', Outstanding(i)'
        PROVE  i = cur'
    <3>1. i \in 1..pos /\ Outstanding(i) /\ i = cur
      BY <1>1, <2>2 DEF IInv, StreamOK
    <3>2. cur # 0 /\ cur \notin done'
      BY <2>2, <3>1, SMT DEF IInv, NumbersOK, Outstanding
    <3> QED BY <2>2, <3>1, <3>2
  <2> QED BY <2>1, <2>2 DEF StreamOK
<1>5. BeatOK'
  BY <1>1 DEF IInv, BeatOK
<1>6. CursorIsComplete'
  BY <1>1 DEF IInv, CursorIsComplete
<1> QED BY <1>2, <1>3, <1>4, <1>5, <1>6 DEF IInv

\* A new entry gets a time above every declared value less the rollback.
LEMMA AppendStep ==
  ASSUME IInv, NEW s, Append(s)
  PROVE  IInv'
<1>1. PICK t \in (claim + 1)..(clock + 1) : ts' = [ts EXCEPT ![n + 1] = t]
  BY DEF Append
<1>2. /\ n' = n + 1 /\ n < MaxLog /\ clock' = clock + 1
      /\ high' = Larger(high, clock + 1)
      /\ UNCHANGED <<claim, lost, cursor, pc, done, last, since, pos, hb, cur>>
  BY DEF Append, ledger, stream, change, history
<1>3. /\ n + 1 \in Entry /\ n \in Nat /\ clock \in Nat /\ high \in Nat /\ claim \in Nat
      /\ cursor \in Nat /\ hb \in Nat /\ t \in Nat /\ t > claim
  BY <1>1, <1>2, Sizes, SMT DEF IInv, NumbersOK, Entry
<1>4. high' \in Nat /\ high' >= high /\ high' >= clock + 1
  BY <1>2, <1>3, SMT DEF Larger
<1>5. ts'[n + 1] = t /\ \A i \in Entry : i # n + 1 => ts'[i] = ts[i]
  BY <1>1, <1>3 DEF IInv, NumbersOK
<1>6. \A i : Outstanding(i)' => i = n + 1 \/ Outstanding(i)
  BY <1>2, <1>3, SMT DEF Outstanding
<1>7. \A i : Outstanding(i) => i \in Entry /\ i # n + 1
  BY <1>3, OutstandingInLog, SMT DEF IInv
<1>8. NumbersOK'
  <2>1. ts' \in [Entry -> Nat]
    BY <1>1, <1>3 DEF IInv, NumbersOK
  <2>2. n' \in 0..MaxLog
    BY <1>2, <1>3, Sizes, SMT
  <2> QED BY <1>2, <1>3, <1>4, <2>1, <2>2, SMT DEF IInv, NumbersOK
<1>9. ClocksOK'
  <2>1. \A i \in 1..n' : ts'[i] >= 1
    BY <1>2, <1>3, <1>5, Sizes, SMT DEF IInv, ClocksOK, Entry
  <2>2. claim' <= clock' /\ clock' <= high'
    BY <1>2, <1>3, <1>4, SMT DEF IInv, ClocksOK
  <2>3. cursor' <= high' /\ hb' <= high'
    BY <1>2, <1>3, <1>4, SMT DEF IInv, ClocksOK
  <2>4. /\ last' <= cursor' /\ since' <= ResumeFrom(cursor')
        /\ cursor' <= claim' + Rollback /\ hb' <= claim' + Rollback
    BY <1>2 DEF IInv, ClocksOK
  <2> QED BY <2>1, <2>2, <2>3, <2>4 DEF ClocksOK, ResumeFrom, Larger
<1>10. StreamOK'
  <2>1. pos' <= n' /\ pos <= n /\ pos \in Nat
    BY <1>2, <1>3, SMT DEF IInv, StreamOK, NumbersOK
  <2>2. ASSUME pc' \in Streaming, NEW i \in 1..pos', Outstanding(i)'
        PROVE  i = cur'
    <3>1. i # n + 1
      BY <1>2, <1>3, <2>1, <2>2, SMT
    <3> QED BY <1>2, <1>6, <2>2, <3>1 DEF IInv, StreamOK
  <2>3. pc' \notin Processing => cur' = 0
    BY <1>2 DEF IInv, StreamOK
  <2> QED BY <2>1, <2>2, <2>3 DEF StreamOK
<1>11. t + Rollback > cursor /\ t + Rollback > hb
  BY <1>3, Sizes, SMT DEF IInv, ClocksOK
<1>12. BeatOK'
  BY <1>2, <1>5, <1>6, <1>7, <1>11 DEF IInv, BeatOK
<1>13. CursorIsComplete'
  BY <1>2, <1>5, <1>6, <1>7, <1>11 DEF IInv, CursorIsComplete
<1> QED BY <1>8, <1>9, <1>10, <1>12, <1>13 DEF IInv

LEMMA TickStep ==
  ASSUME IInv, Tick
  PROVE  IInv'
<1>1. /\ clock' = clock + 1 /\ high' = Larger(high, clock + 1)
      /\ UNCHANGED <<n, ts, claim, lost, cursor, pc, done, last, since, pos, hb, cur>>
  BY DEF Tick, ledger, stream, change, history
<1>2. clock \in Nat /\ high \in Nat /\ cursor \in Nat /\ hb \in Nat /\ claim \in Nat
  BY DEF IInv, NumbersOK
<1>3. high' \in Nat /\ high' >= high /\ high' >= clock + 1
      /\ (high' = high \/ high' = clock + 1)
  BY <1>1, <1>2, SMT DEF Larger
<1>4. NumbersOK'
  BY <1>1, <1>2, <1>3, SMT DEF IInv, NumbersOK
<1>5. ClocksOK'
  BY <1>1, <1>2, <1>3, Sizes, SMT DEF IInv, ClocksOK, ResumeFrom, Larger
<1>6. StreamOK' /\ BeatOK' /\ CursorIsComplete'
  BY <1>1 DEF IInv, StreamOK, BeatOK, CursorIsComplete, Outstanding
<1> QED BY <1>4, <1>5, <1>6 DEF IInv

\* The filer's crash loses entries and moves the clock back by at most
\* Rollback from its highest value.
LEMMA FilerRestartStep ==
  ASSUME IInv, FilerRestart
  PROVE  IInv'
<1>1. PICK m \in 0..n, c \in 0..clock :
        c + Rollback >= high /\ clock' = c /\ claim' = c /\ lost' = lost \cup (m + 1)..n
  BY DEF FilerRestart
<1>2. UNCHANGED <<n, ts, high, cursor, pc, done, last, since, pos, hb, cur>>
  BY DEF FilerRestart, ledger, change
<1>3. /\ c \in Nat /\ c <= clock /\ clock \in Nat /\ high \in Nat
      /\ cursor \in Nat /\ hb \in Nat
  BY <1>1, SMT DEF IInv, NumbersOK
<1>4. \A i : Outstanding(i)' => Outstanding(i)
  BY <1>1, <1>2 DEF Outstanding
<1>5. NumbersOK'
  BY <1>1, <1>2, <1>3 DEF IInv, NumbersOK
<1>6. ClocksOK'
  BY <1>1, <1>2, <1>3, Sizes, SMT DEF IInv, ClocksOK, ResumeFrom, Larger
<1>7. StreamOK' /\ BeatOK' /\ CursorIsComplete'
  BY <1>2, <1>4 DEF IInv, StreamOK, BeatOK, CursorIsComplete
<1> QED BY <1>5, <1>6, <1>7 DEF IInv

\* A restart of the control plane, the load of the cursor and a subscription
\* leave the log and the database alone and have no change in hand.
LEMMA StartStep ==
  ASSUME IInv, UNCHANGED <<n, ts, clock, high, claim, lost, cursor, done>>,
         last' \in Nat, last' <= cursor, since' \in Nat, since' <= ResumeFrom(cursor),
         pos' = 0 \/ pos' = pos, hb' \in {0, hb}, cur' = 0,
         pc' \notin {"gap", "beat"},
         pc' \in Streaming => pos' = 0
  PROVE  IInv'
<1>1. NumbersOK'
  BY SMT DEF IInv, NumbersOK
<1>2. ClocksOK'
  BY Sizes, SMT DEF IInv, ClocksOK, NumbersOK, ResumeFrom, Larger
<1>3. StreamOK'
  BY SMT DEF IInv, StreamOK, NumbersOK, Streaming
<1>4. BeatOK' /\ CursorIsComplete'
  BY DEF IInv, BeatOK, CursorIsComplete, Outstanding
<1> QED BY <1>1, <1>2, <1>3, <1>4 DEF IInv

\* The next entry is taken up, or it needs no work: it was filtered by
\* since_ns, lost, or of no interest to Translate.
LEMMA RecvChangeStep ==
  ASSUME IInv, RecvChange
  PROVE  IInv'
<1>1. /\ pc = "recv" /\ pos < n /\ pos' = pos + 1
      /\ UNCHANGED <<n, ts, clock, high, claim, lost, cursor, last, since, hb>>
  BY DEF RecvChange, filer, ledger
<1>2. pos \in Nat /\ n \in Nat /\ cur = 0
  BY <1>1, Sizes, SMT DEF IInv, NumbersOK, StreamOK, Processing
<1>3. \A i \in 1..pos : ~Outstanding(i)
  BY <1>1, <1>2, SMT DEF IInv, StreamOK, Streaming
<1>4. /\ pc' \in {"recv", "bucket", "clock"}
      /\ done \subseteq done'
      /\ cur' \in {0, pos + 1}
      /\ pc' = "recv" => cur' = 0
      /\ cur' = 0 => \A i : i = pos + 1 => ~Outstanding(i)'
  <2>1. CASE ~Deliverable(pos + 1)
    <3>1. UNCHANGED <<pc, cur, done>>
      BY <2>1 DEF RecvChange
    <3>2. ~Outstanding(pos + 1)
      BY <2>1, FilterIsSafe DEF Deliverable, Outstanding
    <3> QED BY <1>1, <1>2, <3>1, <3>2 DEF Outstanding
  <2>2. CASE Deliverable(pos + 1) /\ subj[pos + 1] = Other
    <3>1. pc' = "recv" /\ cur' = 0 /\ done' = done \cup {pos + 1}
      BY <2>2 DEF RecvChange, FirstStep, Other, Bucket
    <3> QED BY <3>1 DEF Outstanding
  <2>3. CASE Deliverable(pos + 1) /\ subj[pos + 1] # Other
    <3>1. pc' = FirstStep(subj[pos + 1]) /\ cur' = pos + 1 /\ done' = done
      BY <2>3 DEF RecvChange
    <3>2. FirstStep(subj[pos + 1]) \in {"bucket", "clock"}
      BY <2>3 DEF FirstStep
    <3> QED BY <1>2, <3>1, <3>2, SMT
  <2> QED BY <2>1, <2>2, <2>3
<1>5. \A i : Outstanding(i)' => Outstanding(i)
  BY <1>1, <1>4 DEF Outstanding
<1>6. NumbersOK'
  BY <1>1, <1>2, <1>4, SMT DEF IInv, NumbersOK
<1>7. ClocksOK'
  BY <1>1 DEF IInv, ClocksOK, ResumeFrom, Larger
<1>8. StreamOK'
  <2>1. ASSUME NEW i \in 1..pos', Outstanding(i)'
        PROVE  i = cur'
    <3>1. i = pos + 1
      BY <1>1, <1>2, <1>3, <1>5, <2>1, SMT
    <3> QED BY <1>4, <2>1, <3>1
  <2> QED BY <1>1, <1>2, <1>4, <2>1, SMT DEF StreamOK, Processing
<1>9. BeatOK' /\ CursorIsComplete'
  BY <1>1, <1>4, <1>5 DEF IInv, BeatOK, CursorIsComplete
<1> QED BY <1>6, <1>7, <1>8, <1>9 DEF IInv

LEMMA ClaimGrows ==
  ASSUME NEW c \in Nat, NEW d \in Nat, NEW x \in Nat, c <= d,
         x <= c + Rollback \/ x <= d
  PROVE  x <= d + Rollback
BY Sizes, SMT

\* A heartbeat reaches a subscriber that is caught up: nothing is outstanding.
LEMMA RecvHeartbeatStep ==
  ASSUME IInv, RecvHeartbeat
  PROVE  IInv'
<1>1. /\ pc = "recv" /\ pos = n /\ pc' \in {"gap", "beat"}
      /\ hb' \in Larger(claim, 1)..clock /\ claim' = hb'
      /\ UNCHANGED <<n, ts, clock, high, lost, cursor, last, since, pos, cur, done>>
  BY DEF RecvHeartbeat, ledger, change, history
<1>2. cur = 0 /\ \A i \in 1..n : ~Outstanding(i)
  <2>1. cur = 0
    BY <1>1 DEF IInv, StreamOK, Processing
  <2>2. \A i \in 1..pos : ~Outstanding(i)
    BY <1>1, <2>1, SMT DEF IInv, StreamOK, Streaming
  <2> QED BY <1>1, <2>1, <2>2
<1>3. \A i : ~Outstanding(i)'
  BY <1>1, <1>2 DEF Outstanding
<1>4. /\ hb' \in Nat /\ hb' <= clock /\ hb' <= claim'
      /\ claim' \in Nat /\ claim' <= clock /\ claim <= claim'
  BY <1>1, SMT DEF IInv, NumbersOK, Larger
<1>5. NumbersOK'
  BY <1>1, <1>4 DEF IInv, NumbersOK
<1>6. ClocksOK'
  <2>1. /\ claim \in Nat /\ clock \in Nat /\ high \in Nat /\ cursor \in Nat
        /\ clock <= high /\ cursor <= claim + Rollback
        /\ clock' = clock /\ high' = high /\ cursor' = cursor
    BY <1>1 DEF IInv, ClocksOK, NumbersOK
  <2>2. claim' <= clock' /\ clock' <= high' /\ hb' <= high'
    BY <1>4, <2>1, SMT
  <2>3. cursor' <= claim' + Rollback /\ hb' <= claim' + Rollback
    BY <1>4, <2>1, ClaimGrows
  <2>4. /\ cursor' <= high' /\ last' <= cursor' /\ since' <= ResumeFrom(cursor')
        /\ \A i \in 1..n' : ts'[i] >= 1
    BY <1>1 DEF IInv, ClocksOK
  <2> QED BY <2>2, <2>3, <2>4 DEF ClocksOK, ResumeFrom, Larger
<1>7. StreamOK' /\ BeatOK' /\ CursorIsComplete'
  BY <1>1, <1>2, <1>3 DEF IInv, StreamOK, BeatOK, CursorIsComplete
<1> QED BY <1>5, <1>6, <1>7 DEF IInv

\* The declared value in hand becomes the durable cursor, with or without the
\* adapter learning of it.
LEMMA SaveStep ==
  ASSUME IInv, pc = "beat", hb > last,
         UNCHANGED <<n, ts, clock, high, claim, lost, since, pos, done>>,
         cursor' = Saved(hb), last' \in {last, hb}, hb' = 0, cur' = 0,
         pc' \in {"recv", "connect"}
  PROVE  IInv'
<1>1. /\ cursor \in Nat /\ hb \in Nat /\ last \in Nat /\ high \in Nat
      /\ cursor <= high /\ hb <= high /\ last <= cursor /\ claim \in Nat
      /\ cursor <= claim + Rollback /\ hb <= claim + Rollback
  BY DEF IInv, NumbersOK, ClocksOK
<1>2. /\ cursor' \in Nat /\ cursor' >= cursor /\ cursor' >= hb
      /\ cursor' = cursor \/ cursor' = hb
  BY <1>1, SMT DEF Saved, Larger
<1>3. \A i : Outstanding(i)' <=> Outstanding(i)
  BY DEF Outstanding
<1>4. NumbersOK'
  BY <1>1, <1>2 DEF IInv, NumbersOK
<1>5. ResumeFrom(cursor) <= ResumeFrom(cursor') /\ ResumeFrom(cursor) \in Nat
      /\ ResumeFrom(cursor') \in Nat
  BY <1>1, <1>2, ResumeFromMonotone, ResumeFromType
<1>6. since' <= ResumeFrom(cursor')
  BY <1>5, SMT DEF IInv, ClocksOK, NumbersOK
<1>7. ClocksOK'
  <2>1. /\ claim' <= clock' /\ clock' <= high'
        /\ \A i \in 1..n' : ts'[i] >= 1
    BY DEF IInv, ClocksOK
  <2>2. /\ cursor' <= high' /\ hb' <= high' /\ last' <= cursor'
        /\ cursor' <= claim' + Rollback /\ hb' <= claim' + Rollback
    BY <1>1, <1>2, Sizes, SMT
  <2> QED BY <1>6, <2>1, <2>2 DEF ClocksOK, ResumeFrom, Larger
<1>8. StreamOK'
  BY <1>3 DEF IInv, StreamOK, Streaming, Processing
<1>9. BeatOK'
  BY DEF BeatOK
<1>10. CursorIsComplete'
  BY <1>2, <1>3 DEF IInv, BeatOK, CursorIsComplete
<1> QED BY <1>4, <1>7, <1>8, <1>9, <1>10 DEF IInv

\* Giving up the stream or the attempt keeps the change outstanding.
LEMMA GiveUpStep ==
  ASSUME IInv, Resubscribe \/ (AttemptFailed /\ pc \in Processing),
         UNCHANGED <<n, ts, clock, high, claim, lost, cursor, done>>
  PROVE  IInv'
<1>1. CASE Resubscribe
  BY <1>1, QuietStep DEF Resubscribe, Streaming
<1>2. CASE AttemptFailed /\ pc \in Processing /\ attempt < ApplyMaxRetries
  <2>1. pc' = "clock" /\ UNCHANGED <<last, since, pos, hb, cur>>
    BY <1>2 DEF AttemptFailed, stream
  <2>2. pc \in Streaming /\ cur \in Nat
    BY <1>2 DEF Processing, Streaming, IInv, NumbersOK
  <2> QED BY <2>1, <2>2, QuietStep DEF Processing
<1>3. CASE AttemptFailed /\ ~(attempt < ApplyMaxRetries)
  BY <1>1, <1>3 DEF AttemptFailed
<1> QED BY <1>1, <1>2, <1>3

\* The change in hand is processed.
LEMMA ProcessedStep ==
  ASSUME IInv, Processed, pc \in Processing, UNCHANGED <<filer, cursor>>
  PROVE  IInv'
<1>1. /\ pc' = "recv" /\ done' = done \cup {cur} /\ cur' = 0
      /\ UNCHANGED <<last, since, pos, hb>>
  BY DEF Processed, stream
<1>2. UNCHANGED <<n, ts, clock, high, claim, lost, cursor>>
  BY DEF filer
<1>3. pc \in Streaming
  BY DEF Processing, Streaming
<1> QED BY <1>1, <1>2, <1>3, QuietStep

LEMMA StepIInv == IInv /\ [Next]_vars => IInv'
<1> SUFFICES ASSUME IInv, [Next]_vars PROVE IInv'
  OBVIOUS
<1>1. ASSUME NEW k \in Key, NEW v \in 1..MaxVer, Put(k, v) PROVE IInv'
  BY <1>1, AppendStep DEF Put
<1>2. ASSUME NEW k \in Key, Delete(k) PROVE IInv'
  BY <1>2, AppendStep DEF Delete
<1>3. CASE RemoveBucket
  BY <1>3, AppendStep DEF RemoveBucket
<1>4. CASE OtherEntry
  BY <1>4, AppendStep DEF OtherEntry
<1>5. CASE Tick
  BY <1>5, TickStep
<1>6. CASE FilerRestart
  BY <1>6, FilerRestartStep
<1>7. CASE Crash
  <2>1. /\ UNCHANGED <<n, ts, clock, high, claim, lost, cursor, done>>
        /\ last' = 0 /\ since' = 0 /\ pos' = 0 /\ hb' = 0 /\ cur' = 0 /\ pc' = "load"
    BY <1>7 DEF Crash, filer, ledger, history
  <2>2. 0 <= cursor /\ ResumeFrom(cursor) \in Nat
    BY ResumeFromType, SMT DEF IInv, NumbersOK
  <2> QED BY <2>1, <2>2, StartStep, SMT DEF Streaming
<1>8. ASSUME NEW k \in Key, NEW v \in 1..MaxVer, AgentReport(k, v) PROVE IInv'
  <2>1. UNCHANGED <<n, ts, clock, high, claim, lost, cursor, pc, last, since, pos, hb, cur, done>>
    BY <1>8 DEF AgentReport, filer, stream
  <2>2. cur \in Nat /\ (pc \notin Processing => cur = 0)
    BY DEF IInv, NumbersOK, StreamOK
  <2> QED BY <2>1, <2>2, QuietStep
<1>9. CASE LoadCursor
  <2>1. /\ UNCHANGED <<n, ts, clock, high, claim, lost, cursor, done, since, pos, hb, cur>>
        /\ last' = cursor /\ pc' \in {"connect", "check"}
    BY <1>9 DEF LoadCursor, filer, ledger, change, history
  <2>2. cursor \in Nat /\ since \in Nat /\ since <= ResumeFrom(cursor) /\ cur = 0
    BY <1>9 DEF IInv, NumbersOK, ClocksOK, StreamOK, LoadCursor, Processing
  <2> QED BY <2>1, <2>2, StartStep, SMT DEF Streaming
<1>10. CASE SelfCheck
  <2>1. /\ UNCHANGED <<n, ts, clock, high, claim, lost, cursor, done, last, since, pos, hb, cur>>
        /\ pc' = "connect"
    BY <1>10 DEF SelfCheck, filer, stream, change, history
  <2>2. cur \in Nat /\ cur = 0
    BY <1>10 DEF IInv, NumbersOK, StreamOK, SelfCheck, Processing
  <2> QED BY <2>1, <2>2, QuietStep DEF Streaming
<1>11. CASE Subscribe
  <2>1. /\ UNCHANGED <<n, ts, clock, high, claim, lost, cursor, done, last, hb, cur>>
        /\ pc = "connect" /\ pc' = "recv" /\ since' = ResumeFrom(last) /\ pos' = 0
    BY <1>11 DEF Subscribe, filer, ledger, change, history
  <2>2. cursor \in Nat /\ last \in Nat /\ last <= cursor /\ cur = 0
    BY <2>1 DEF IInv, NumbersOK, ClocksOK, StreamOK, Processing
  <2>3. since' \in Nat /\ since' <= ResumeFrom(cursor)
    BY <2>1, <2>2, ResumeFromType, ResumeFromMonotone
  <2> QED BY <2>1, <2>2, <2>3, StartStep
<1>12. CASE RecvError
  BY <1>12, GiveUpStep DEF RecvError, filer, ledger, history
<1>13. CASE RecvChange
  BY <1>13, RecvChangeStep
<1>14. CASE RecvHeartbeat
  BY <1>14, RecvHeartbeatStep
<1>15. CASE RecordGapWindow
  <2>1. UNCHANGED <<n, ts, clock, high, claim, lost, cursor, done>> /\ pc = "gap"
    BY <1>15 DEF RecordGapWindow, filer, ledger
  <2>2. CASE pc' = "beat" /\ UNCHANGED <<stream, change>>
    <3>1. UNCHANGED <<last, since, pos, hb, cur>> /\ cur = 0
      BY <2>1, <2>2 DEF stream, change, IInv, StreamOK, Processing
    <3> QED BY <2>1, <2>2, <3>1, QuietStep DEF Streaming, Processing
  <2>3. CASE Resubscribe
    BY <2>1, <2>3, GiveUpStep
  <2> QED BY <1>15, <2>2, <2>3 DEF RecordGapWindow
<1>16. CASE PersistCursor
  <2>1. UNCHANGED <<n, ts, clock, high, claim, lost, done>> /\ pc = "beat" /\ cur = 0
    BY <1>16 DEF PersistCursor, filer, history, IInv, StreamOK, Processing
  <2>2. CASE UNCHANGED <<cursor, last, since, pos, change>> /\ pc' = "recv" /\ hb' = 0
    <3>1. cur' = 0
      BY <2>1, <2>2 DEF change
    <3> QED BY <2>1, <2>2, <3>1, QuietStep DEF Streaming
  <2>3. CASE /\ hb > last /\ cursor' = Saved(hb) /\ last' = hb /\ pc' = "recv" /\ hb' = 0
             /\ UNCHANGED <<since, pos, change>>
    <3>1. cur' = 0
      BY <2>1, <2>3 DEF change
    <3> QED BY <2>1, <2>3, <3>1, SaveStep
  <2>4. CASE Resubscribe /\ cursor' = cursor
    BY <2>1, <2>4, GiveUpStep
  <2>5. CASE hb > last /\ Resubscribe /\ cursor' = Saved(hb)
    BY <2>1, <2>5, SaveStep DEF Resubscribe
  <2> QED BY <1>16, <2>2, <2>3, <2>4, <2>5, SMTT(30) DEF PersistCursor
<1>17. CASE HandleBucketRemoved
  <2>1. UNCHANGED <<filer, cursor>> /\ pc \in Processing
    BY <1>17 DEF HandleBucketRemoved, Processing
  <2>2. CASE Processed
    BY <2>1, <2>2, ProcessedStep
  <2>3. CASE Resubscribe /\ done' = done
    BY <2>1, <2>3, GiveUpStep, SMTT(30) DEF filer
  <2> QED BY <1>17, <2>2, <2>3 DEF HandleBucketRemoved
<1>18. CASE ReadClock \/ ReadBack
  <2>1. UNCHANGED <<n, ts, clock, high, claim, lost, cursor, done>> /\ pc \in {"clock", "head"}
    BY <1>18 DEF ReadClock, ReadBack, filer, ledger, history
  <2>2. CASE pc' \in {"head", "apply"} /\ UNCHANGED <<stream, cur>>
    <3>1. UNCHANGED <<last, since, pos, hb, cur>> /\ cur \in Nat
      BY <2>2 DEF stream, IInv, NumbersOK
    <3> QED BY <2>1, <2>2, <3>1, QuietStep DEF Streaming, Processing
  <2>3. CASE AttemptFailed
    BY <2>1, <2>3, GiveUpStep, SMTT(30) DEF Processing
  <2> QED BY <1>18, <2>2, <2>3, SMTT(30) DEF ReadClock, ReadBack
<1>19. CASE Apply \/ ConfirmSuppressed
  <2>1. UNCHANGED <<filer, cursor>> /\ pc \in {"apply", "state"}
    BY <1>19 DEF Apply, ConfirmSuppressed, ledger
  <2>2. CASE Processed
    BY <2>1, <2>2, ProcessedStep DEF Processing
  <2>3. CASE pc' = "state" /\ UNCHANGED <<stream, change, done>>
    <3>1. UNCHANGED <<last, since, pos, hb, cur>> /\ cur \in Nat
      BY <2>3 DEF stream, change, IInv, NumbersOK
    <3>2. UNCHANGED <<n, ts, clock, high, claim, lost>>
      BY <2>1 DEF filer
    <3> QED BY <2>1, <2>3, <3>1, <3>2, QuietStep DEF Streaming, Processing
  <2>4. CASE AttemptFailed /\ done' = done
    BY <2>1, <2>4, GiveUpStep DEF Processing, filer
  <2> QED BY <1>19, <2>2, <2>3, <2>4 DEF Apply, ConfirmSuppressed
<1>20. CASE UNCHANGED vars
  <2>1. UNCHANGED <<n, ts, clock, high, claim, lost, cursor, pc, last, since, pos, hb, cur, done>>
    BY <1>20 DEF vars, filer, ledger, stream, change, history
  <2>2. cur \in Nat /\ (pc \notin Processing => cur = 0)
    BY DEF IInv, NumbersOK, StreamOK
  <2> QED BY <2>1, <2>2, QuietStep
<1> QED BY <1>1, <1>2, <1>3, <1>4, <1>5, <1>6, <1>7, <1>8, <1>9, <1>10, <1>11, <1>12,
           <1>13, <1>14, <1>15, <1>16, <1>17, <1>18, <1>19, <1>20
        DEF Next, Adapter, Environment

\* The completeness claim of the persisted cursor (subscribe.go, header): no
\* outstanding entry lies at or below the cursor by more than the rollback.
THEOREM CursorCompleteness == Spec => []CursorIsComplete
BY InitIInv, StepIInv, PTL DEF Spec, IInv

\* "An event is NEVER skipped": every outstanding entry lies above the point
\* from which ResumeFrom(persisted cursor, M) resumes.
THEOREM NothingSkipped == Spec => []NeverSkipped
<1>1. IInv => NeverSkipped
  BY FilterIsSafe DEF NeverSkipped
<1> QED BY InitIInv, StepIInv, <1>1, PTL DEF Spec

\* The durable cursor never moves back.
THEOREM CursorMonotone == Spec => CursorNeverRegresses
<1>1. IInv /\ [Next]_vars => [cursor' >= cursor]_vars
  <2> SUFFICES ASSUME IInv, Next PROVE cursor' >= cursor
    BY DEF IInv
  <2>1. cursor \in Nat /\ hb \in Nat
    BY DEF IInv, NumbersOK
  <2>2. CASE PersistCursor
    <3>1. cursor' \in {cursor, Saved(hb)}
      BY <2>2 DEF PersistCursor
    <3> QED BY <2>1, <3>1, SMT DEF Saved, Larger
  <2>3. CASE ~PersistCursor
    <3>1. cursor' = cursor
      BY <2>3 DEF Next, Adapter, Environment, Put, Delete, RemoveBucket, OtherEntry,
         Append, Tick, FilerRestart, Crash, AgentReport, LoadCursor, SelfCheck,
         Subscribe, RecvError, RecvChange, RecvHeartbeat, RecordGapWindow,
         HandleBucketRemoved, ReadClock, ReadBack, Apply, ConfirmSuppressed, ledger
    <3> QED BY <2>1, <3>1, SMT
  <2> QED BY <2>2, <2>3
<1> QED BY InitIInv, StepIInv, <1>1, PTL DEF Spec, CursorNeverRegresses

\* The durable cursor can be trusted: no restart resumes above an outstanding entry,
\* however often the control plane and the filer restart.
THEOREM CursorTrusted == Spec => []CursorSound
BY NothingSkipped, CursorCompleteness, PTL DEF CursorSound

-----------------------------------------------------------------------------
(* The index describes the store.                                          *)

\* The entries and the change in hand: a processed entry is one of the log,
\* and the adapter's step fits the subject of the entry it works on.
InHandOK ==
  /\ subj \in [Entry -> Subject] /\ done \subseteq 1..n
  /\ row \in [Key -> Int] /\ object \in [Key -> Int] /\ fact \in Int
  /\ pc \in Processing => cur \in 1..n
  /\ pc = "bucket" => subj[cur] = Bucket
  /\ pc \in {"clock", "head", "apply", "state"} => subj[cur] \in Key

\* A removed bucket that was processed left its mark.
BucketsMarked == \A i \in done : subj[i] = Bucket => "bucket_removed" \in marks

\* What the adapter read back is what the store holds, or another entry of the
\* key or of its bucket is still to come.
FactFresh ==
  pc \in {"apply", "state"} =>
    \/ fact = object[subj[cur]]
    \/ \E i \in 1..n : subj[i] \in {subj[cur], Bucket} /\ i \notin done /\ i # cur

IndexInv == InHandOK /\ BucketsMarked /\ FactFresh /\ IndexFollowsStore

\* The dropped entries no mark covers lie between the durable cursor and what
\* the restarted filer has declared, above a heartbeat about to be saved; the
\* first heartbeat of a stream is the filer's latest declaration.
LossInv ==
  /\ \A i \in 1..n : ts[i] <= high
  /\ unmarked \subseteq 1..n
  /\ \A i \in unmarked : cursor < ts[i] /\ ts[i] <= claim
  /\ pc = "beat" => \A i \in unmarked : hb < ts[i]
  /\ pc = "gap" => ~first /\ (open => hb = claim)
  /\ LossIsMarked

\* The steps that work on an object's entry.
Reading == {"clock", "head", "apply", "state"}

LEMMA Subjects == Bucket # Other /\ Bucket \notin Key /\ Other \notin Key
BY SubjectAssumption DEF Bucket, Other

LEMMA InitIndexInv == Init => IndexInv
<1> SUFFICES ASSUME Init PROVE IndexInv
  OBVIOUS
<1>1. InHandOK
  BY Sizes, SMT DEF Init, InHandOK, Subject, Processing, Absent, NoRow
<1>2. BucketsMarked /\ FactFresh
  BY DEF Init, BucketsMarked, FactFresh
<1>3. IndexFollowsStore
  BY DEF Init, IndexFollowsStore, Agrees
<1> QED BY <1>1, <1>2, <1>3 DEF IndexInv

\* A step that leaves the log, the store and the index alone, and takes up
\* neither an entry nor a fact.
LEMMA IndexQuiet ==
  ASSUME IndexInv, UNCHANGED <<n, subj, object, row, done, dirty>>,
         marks \subseteq marks', fact' \in Int,
         pc' \in Processing => pc \in Processing /\ cur' = cur,
         pc' = "bucket" => pc = "bucket",
         pc' \in Reading => pc \in Reading,
         pc' \in {"apply", "state"} => pc \in {"apply", "state"} /\ fact' = fact
  PROVE  IndexInv'
<1>1. InHandOK'
  BY DEF IndexInv, InHandOK, Reading, Processing
<1>2. BucketsMarked'
  BY DEF IndexInv, BucketsMarked
<1>3. FactFresh'
  BY DEF IndexInv, FactFresh, Processing
<1>4. IndexFollowsStore'
  BY DEF IndexInv, IndexFollowsStore, Agrees
<1> QED BY <1>1, <1>2, <1>3, <1>4 DEF IndexInv

\* A new entry is outstanding for the keys whose objects changed.
LEMMA IndexAppend ==
  ASSUME IndexInv, NumbersOK, NEW s \in Subject, Append(s), object' \in [Key -> Int],
         \A k \in Key : object'[k] # object[k] => s \in {k, Bucket}
  PROVE  IndexInv'
<1>1. /\ n' = n + 1 /\ n + 1 \in Entry /\ n \in Nat
      /\ subj' = [subj EXCEPT ![n + 1] = s]
      /\ UNCHANGED <<row, marks, pc, cur, fact, done, dirty>>
  BY Sizes, SMT DEF Append, ledger, change, history, NumbersOK, Entry
<1>2. /\ subj' \in [Entry -> Subject] /\ subj'[n + 1] = s
      /\ \A i \in 1..n : i \in Entry /\ i # n + 1 /\ subj'[i] = subj[i]
  <2>1. subj \in [Entry -> Subject]
    BY DEF IndexInv, InHandOK
  <2>2. \A i \in 1..n : i \in Entry /\ i # n + 1
    BY Sizes, SMT DEF NumbersOK, Entry
  <2> QED BY <1>1, <2>1, <2>2
<1>3. n + 1 \notin done /\ n + 1 \in 1..n' /\ \A i \in 1..n : i \in 1..n'
  BY <1>1, SMT DEF IndexInv, InHandOK
<1>4. pc \in Processing => cur \in 1..n /\ subj'[cur] = subj[cur]
  BY <1>2 DEF IndexInv, InHandOK
<1>5. InHandOK'
  <2>1. done' \subseteq 1..n'
    BY <1>1, <1>3 DEF IndexInv, InHandOK
  <2> QED BY <1>1, <1>2, <1>3, <1>4, <2>1 DEF IndexInv, InHandOK, Processing
<1>6. BucketsMarked'
  BY <1>1, <1>2 DEF IndexInv, BucketsMarked, InHandOK
<1>7. FactFresh'
  <2> SUFFICES ASSUME pc \in {"apply", "state"}
               PROVE  \/ fact = object'[subj[cur]]
                      \/ \E i \in 1..n' : subj'[i] \in {subj[cur], Bucket} /\ i \notin done /\ i # cur
    BY <1>1, <1>4 DEF FactFresh, Processing
  <2>1. cur \in 1..n /\ subj[cur] \in Key /\ cur # n + 1
    BY <1>2 DEF IndexInv, InHandOK, Processing
  <2>2. CASE object'[subj[cur]] # object[subj[cur]]
    BY <1>2, <1>3, <2>1, <2>2
  <2>3. CASE object'[subj[cur]] = object[subj[cur]]
    BY <1>2, <1>3, <2>1, <2>3 DEF IndexInv, FactFresh
  <2> QED BY <2>2, <2>3
<1>8. IndexFollowsStore'
  <2> SUFFICES ASSUME NEW k \in Key \ Unknown, k \notin dirty,
                      \A i \in 1..n' : subj'[i] \in {k, Bucket} => i \in done
               PROVE  Agrees(k)' \/ "bucket_removed" \in marks
    BY <1>1 DEF IndexFollowsStore
  <2>1. s \notin {k, Bucket}
    BY <1>2, <1>3
  <2>2. object'[k] = object[k] /\ \A i \in 1..n : subj[i] \in {k, Bucket} => i \in done
    BY <1>2, <1>3, <2>1
  <2> QED BY <1>1, <2>2 DEF IndexInv, IndexFollowsStore, Agrees
<1> QED BY <1>5, <1>6, <1>7, <1>8 DEF IndexInv

\* The entry in hand is processed, and its key's row has been brought up to date.
LEMMA IndexProcessed ==
  ASSUME IndexInv, NumbersOK, Processed, pc \in Processing, UNCHANGED filer,
         marks \subseteq marks', row' \in [Key -> Int],
         pc \in {"apply", "state"} \/ (subj[cur] = Bucket /\ "bucket_removed" \in marks'),
         \A k \in Key \ Unknown :
           k # subj[cur] => row'[k] = row[k] /\ (k \in dirty => k \in dirty'),
         \A k \in Key \ Unknown : k = subj[cur] /\ fact = object[k] => Agrees(k)'
  PROVE  IndexInv'
<1>1. /\ pc' = "recv" /\ done' = done \cup {cur} /\ cur' = 0 /\ fact' = 0
      /\ UNCHANGED <<n, subj, object>>
  BY DEF Processed, filer, Absent
<1>2. cur \in 1..n /\ (subj[cur] \in Key \/ subj[cur] = Bucket)
      /\ (subj[cur] = Bucket => "bucket_removed" \in marks')
      /\ (subj[cur] # Bucket => pc \in {"apply", "state"})
  BY Subjects DEF IndexInv, InHandOK, Processing
<1>3. InHandOK'
  BY <1>1, <1>2, SMT DEF IndexInv, InHandOK, Processing
<1>4. BucketsMarked' /\ FactFresh'
  BY <1>1, <1>2 DEF IndexInv, BucketsMarked, FactFresh
<1>5. IndexFollowsStore'
  <2> SUFFICES ASSUME NEW k \in Key \ Unknown, k \notin dirty',
                      \A i \in 1..n : subj[i] \in {k, Bucket} => i \in done \cup {cur},
                      "bucket_removed" \notin marks'
               PROVE  Agrees(k)'
    BY <1>1 DEF IndexFollowsStore
  <2>1. subj[cur] # Bucket
    BY <1>2
  <2>2. CASE k # subj[cur]
    <3>1. k \notin dirty /\ \A i \in 1..n : subj[i] \in {k, Bucket} => i \in done
      BY <2>1, <2>2
    <3>2. Agrees(k)
      BY <3>1 DEF IndexInv, IndexFollowsStore
    <3> QED BY <1>1, <2>2, <3>2 DEF Agrees
  <2>3. CASE k = subj[cur]
    <3>1. ~ \E i \in 1..n : subj[i] \in {subj[cur], Bucket} /\ i \notin done /\ i # cur
      BY <2>3
    <3>2. fact = object[subj[cur]]
      BY <1>2, <2>1, <3>1 DEF IndexInv, FactFresh
    <3> QED BY <2>3, <3>2
  <2> QED BY <2>2, <2>3
<1> QED BY <1>3, <1>4, <1>5 DEF IndexInv

LEMMA IndexReport ==
  ASSUME IndexInv, NEW k \in Key, NEW v \in 1..MaxVer, AgentReport(k, v)
  PROVE  IndexInv'
<1>1. /\ row' = [row EXCEPT ![k] = v] /\ dirty' = dirty \cup {k}
      /\ UNCHANGED <<n, subj, object, marks, pc, cur, fact, done>>
  BY DEF AgentReport, filer
<1>2. InHandOK'
  BY <1>1, Sizes, SMT DEF IndexInv, InHandOK
<1>3. BucketsMarked' /\ FactFresh'
  BY <1>1 DEF IndexInv, BucketsMarked, FactFresh
<1>4. \A x \in Key : x # k => row'[x] = row[x]
  BY <1>1 DEF IndexInv, InHandOK
<1>5. IndexFollowsStore'
  BY <1>1, <1>4 DEF IndexInv, IndexFollowsStore, Agrees
<1> QED BY <1>2, <1>3, <1>5 DEF IndexInv

\* An entry that Translate filters out concerns no key; another one is taken
\* up at the step that fits its subject.
LEMMA IndexRecvChange ==
  ASSUME IndexInv, NumbersOK, RecvChange
  PROVE  IndexInv'
<1>1. /\ pc = "recv" /\ pos + 1 \in 1..n /\ pos + 1 \in Entry
      /\ UNCHANGED <<n, subj, object, row, marks, fact, dirty>>
  BY Sizes, SMT DEF RecvChange, filer, ledger, NumbersOK, Entry
<1>2. CASE ~Deliverable(pos + 1)
  <2>1. UNCHANGED <<pc, cur, done>>
    BY <1>2 DEF RecvChange
  <2> QED BY <1>1, <2>1, IndexQuiet DEF IndexInv, InHandOK
<1>3. CASE Deliverable(pos + 1) /\ subj[pos + 1] = Other
  <2>1. pc' = "recv" /\ cur' = 0 /\ done' = done \cup {pos + 1}
    BY <1>3, Subjects DEF RecvChange, FirstStep
  <2>2. InHandOK' /\ FactFresh'
    BY <1>1, <2>1 DEF IndexInv, InHandOK, FactFresh, Processing
  <2>3. BucketsMarked'
    BY <1>1, <1>3, <2>1, Subjects DEF IndexInv, BucketsMarked
  <2>4. IndexFollowsStore'
    BY <1>1, <1>3, <2>1, Subjects DEF IndexInv, IndexFollowsStore, Agrees
  <2> QED BY <2>2, <2>3, <2>4 DEF IndexInv
<1>4. CASE Deliverable(pos + 1) /\ subj[pos + 1] # Other
  <2>1. pc' = FirstStep(subj[pos + 1]) /\ cur' = pos + 1 /\ done' = done
    BY <1>4 DEF RecvChange
  <2>2. \/ pc' = "bucket" /\ subj[pos + 1] = Bucket
        \/ pc' = "clock" /\ subj[pos + 1] \in Key
    BY <1>1, <1>4, <2>1 DEF FirstStep, IndexInv, InHandOK, Subject
  <2>3. InHandOK' /\ FactFresh'
    BY <1>1, <2>1, <2>2 DEF IndexInv, InHandOK, FactFresh, Processing
  <2>4. BucketsMarked' /\ IndexFollowsStore'
    BY <1>1, <2>1 DEF IndexInv, BucketsMarked, IndexFollowsStore, Agrees
  <2> QED BY <2>3, <2>4 DEF IndexInv
<1> QED BY <1>2, <1>3, <1>4

\* A successful HEAD reads the store as it is.
LEMMA IndexReadBack ==
  ASSUME IndexInv, pc = "head", pc' = "apply", fact' = object[subj[cur]],
         UNCHANGED <<filer, ledger, history, cur>>
  PROVE  IndexInv'
<1>1. UNCHANGED <<n, subj, object, row, marks, done, dirty>>
  BY DEF filer, ledger, history
<1>2. cur \in 1..n /\ subj[cur] \in Key /\ object[subj[cur]] \in Int
  BY DEF IndexInv, InHandOK, Processing
<1>3. InHandOK'
  BY <1>1, <1>2 DEF IndexInv, InHandOK, Processing
<1>4. BucketsMarked' /\ FactFresh' /\ IndexFollowsStore'
  BY <1>1 DEF IndexInv, BucketsMarked, FactFresh, IndexFollowsStore, Agrees
<1> QED BY <1>3, <1>4 DEF IndexInv

\* Giving up an attempt or the stream changes neither the index nor the log.
LEMMA IndexGiveUp ==
  ASSUME IndexInv, Resubscribe \/ (AttemptFailed /\ pc \in Reading),
         UNCHANGED <<n, subj, object, row, marks, done, dirty>>
  PROVE  IndexInv'
<1>1. CASE Resubscribe
  BY <1>1, IndexQuiet, SMT DEF Resubscribe, Processing, Reading, Absent
<1>2. CASE AttemptFailed /\ pc \in Reading /\ attempt < ApplyMaxRetries
  <2>1. pc' = "clock" /\ cur' = cur /\ fact' = 0
    BY <1>2 DEF AttemptFailed, Absent
  <2>2. pc \in Processing
    BY <1>2 DEF Processing, Reading
  <2> QED BY <1>2, <2>1, <2>2, IndexQuiet, SMT
<1>3. CASE AttemptFailed /\ ~(attempt < ApplyMaxRetries)
  BY <1>1, <1>3 DEF AttemptFailed
<1> QED BY <1>1, <1>2, <1>3

LEMMA StepIndexInv == IndexInv /\ NumbersOK /\ [Next]_vars => IndexInv'
<1> SUFFICES ASSUME IndexInv, NumbersOK, [Next]_vars PROVE IndexInv'
  OBVIOUS
<1>0. object \in [Key -> Int] /\ row \in [Key -> Int] /\ fact \in Int /\ MaxVer \in Nat
  BY Sizes DEF IndexInv, InHandOK
<1>1. ASSUME NEW k \in Key, NEW v \in 1..MaxVer, Put(k, v) PROVE IndexInv'
  <2>1. k \in Subject /\ object' = [object EXCEPT ![k] = v]
    BY <1>1 DEF Put, Subject
  <2>2. object' \in [Key -> Int] /\ \A x \in Key : object'[x] # object[x] => k \in {x, Bucket}
    BY <1>0, <2>1, SMT
  <2> QED BY <1>1, <2>1, <2>2, IndexAppend DEF Put
<1>2. ASSUME NEW k \in Key, Delete(k) PROVE IndexInv'
  <2>1. k \in Subject /\ object' = [object EXCEPT ![k] = 0]
    BY <1>2 DEF Delete, Subject, Absent
  <2>2. object' \in [Key -> Int] /\ \A x \in Key : object'[x] # object[x] => k \in {x, Bucket}
    BY <1>0, <2>1, SMT
  <2> QED BY <1>2, <2>1, <2>2, IndexAppend DEF Delete
<1>3. CASE RemoveBucket
  <2>1. object' \in [Key -> Int] /\ Bucket \in Subject
    BY <1>0, <1>3, SMT DEF RemoveBucket, Absent, Subject
  <2> QED BY <1>3, <2>1, IndexAppend DEF RemoveBucket
<1>4. CASE OtherEntry
  <2>1. object' = object /\ Other \in Subject
    BY <1>4 DEF OtherEntry, Subject
  <2> QED BY <1>0, <1>4, <2>1, IndexAppend DEF OtherEntry
<1>5. CASE Tick \/ FilerRestart
  <2>1. UNCHANGED <<n, subj, object, row, done, dirty, marks, fact, pc, cur>>
    BY <1>5 DEF Tick, FilerRestart, ledger, change, history
  <2> QED BY <1>0, <2>1, IndexQuiet
<1>6. CASE Crash \/ LoadCursor \/ SelfCheck \/ Subscribe
  <2>1. /\ UNCHANGED <<n, subj, object, row, done, dirty>> /\ marks \subseteq marks'
        /\ fact' \in {0, fact} /\ pc' \in {"load", "connect", "check", "recv"}
    BY <1>6 DEF Crash, LoadCursor, SelfCheck, Subscribe, filer, ledger, change, history, Absent
  <2> QED BY <1>0, <2>1, IndexQuiet, SMT DEF Processing, Reading
<1>7. ASSUME NEW k \in Key, NEW v \in 1..MaxVer, AgentReport(k, v) PROVE IndexInv'
  BY <1>7, IndexReport
<1>8. CASE RecvError
  BY <1>8, IndexGiveUp DEF RecvError, filer, ledger, history
<1>9. CASE RecvChange
  BY <1>9, IndexRecvChange
<1>10. CASE RecvHeartbeat
  <2>1. /\ UNCHANGED <<n, subj, object, row, done, dirty, marks, fact>>
        /\ pc' \in {"gap", "beat"}
    BY <1>10 DEF RecvHeartbeat, ledger, change, history
  <2> QED BY <1>0, <2>1, IndexQuiet DEF Processing, Reading
<1>11. CASE RecordGapWindow
  <2>1. UNCHANGED <<n, subj, object, row, done, dirty, marks>>
    BY <1>11 DEF RecordGapWindow, filer, ledger
  <2>2. CASE pc' = "beat" /\ UNCHANGED change
    BY <1>0, <2>1, <2>2, IndexQuiet DEF Processing, Reading, change
  <2>3. CASE Resubscribe
    BY <2>1, <2>3, IndexGiveUp
  <2> QED BY <1>11, <2>2, <2>3 DEF RecordGapWindow
<1>12. CASE PersistCursor
  <2>1. UNCHANGED <<n, subj, object, row, done, dirty, marks>>
    BY <1>12 DEF PersistCursor, filer, history
  <2>2. CASE pc' = "recv" /\ UNCHANGED change
    BY <1>0, <2>1, <2>2, IndexQuiet DEF Processing, Reading, change
  <2>3. CASE Resubscribe
    BY <2>1, <2>3, IndexGiveUp
  <2> QED BY <1>12, <2>2, <2>3 DEF PersistCursor
<1>13. CASE HandleBucketRemoved
  <2>1. /\ pc = "bucket" /\ pc \in Processing /\ UNCHANGED <<filer, row, dirty>>
        /\ subj[cur] = Bucket
    BY <1>13 DEF HandleBucketRemoved, Processing, IndexInv, InHandOK
  <2>2. CASE Processed /\ marks' = marks \cup {"bucket_removed"}
    BY <1>0, <2>1, <2>2, Subjects, IndexProcessed
  <2>3. CASE Resubscribe /\ UNCHANGED <<marks, done>>
    BY <2>1, <2>3, IndexGiveUp DEF filer
  <2> QED BY <1>13, <2>2, <2>3 DEF HandleBucketRemoved
<1>14. CASE ReadClock
  <2>1. UNCHANGED <<n, subj, object, row, done, dirty, marks>> /\ pc = "clock"
    BY <1>14 DEF ReadClock, filer, ledger, history
  <2>2. CASE pc' = "head" /\ UNCHANGED <<cur, fact>>
    BY <1>0, <2>1, <2>2, IndexQuiet DEF Processing, Reading
  <2>3. CASE AttemptFailed
    BY <2>1, <2>3, IndexGiveUp DEF Reading
  <2> QED BY <1>14, <2>2, <2>3 DEF ReadClock
<1>15. CASE ReadBack
  <2>1. pc = "head" /\ UNCHANGED <<filer, ledger, history>>
    BY <1>15 DEF ReadBack
  <2>2. CASE pc' = "apply" /\ cur' = cur /\ fact' = object[subj[cur]]
    BY <2>1, <2>2, IndexReadBack
  <2>3. CASE AttemptFailed
    BY <2>1, <2>3, IndexGiveUp DEF Reading, filer, ledger, history
  <2> QED BY <1>15, <2>2, <2>3 DEF ReadBack, StatObject
<1>16. CASE Apply
  <2>1. /\ pc = "apply" /\ pc \in Processing /\ UNCHANGED <<filer, marks>>
        /\ object' = object /\ subj[cur] \in Key
    BY <1>16 DEF Apply, filer, Processing, IndexInv, InHandOK
  <2>2. CASE subj[cur] \in Unknown /\ Processed /\ UNCHANGED <<row, dirty>>
    BY <1>0, <2>1, <2>2, IndexProcessed
  <2>3. CASE /\ row' = [row EXCEPT ![subj[cur]] = RowFor(subj[cur])]
             /\ dirty' = dirty \ {subj[cur]} /\ Processed
    <3>1. PICK k \in Key : k = subj[cur]
      BY <2>1
    <3>2. RowFor(k) \in Int /\ RowFor(k) \in {NoRow, fact} /\ (RowFor(k) # fact => fact = Absent)
      BY <1>0 DEF RowFor, NoRow
    <3>3. row' \in [Key -> Int] /\ row'[k] = RowFor(k) /\ \A x \in Key : x # k => row'[x] = row[x]
      BY <1>0, <2>3, <3>1, <3>2
    <3>4. fact = object[k] => Agrees(k)'
      BY <2>1, <3>2, <3>3 DEF Agrees
    <3>5. \A x \in Key \ Unknown : x = subj[cur] /\ fact = object[x] => Agrees(x)'
      BY <3>1, <3>4
    <3>6. \A x \in Key \ Unknown :
            x # subj[cur] => row'[x] = row[x] /\ (x \in dirty => x \in dirty')
      BY <2>3, <3>1, <3>3
    <3> QED BY <2>1, <2>3, <3>3, <3>5, <3>6, IndexProcessed
  <2>4. CASE pc' = "state" /\ UNCHANGED <<row, dirty, change, done>>
    BY <1>0, <2>1, <2>4, IndexQuiet DEF Processing, Reading, change, filer
  <2>5. CASE AttemptFailed /\ UNCHANGED <<row, dirty, done>>
    BY <2>1, <2>5, IndexGiveUp DEF Reading, filer
  <2> QED BY <1>16, <2>2, <2>3, <2>4, <2>5 DEF Apply
<1>17. CASE ConfirmSuppressed
  <2>1. /\ pc = "state" /\ pc \in Processing /\ UNCHANGED <<filer, row, marks>>
        /\ object' = object /\ subj[cur] \in Key
    BY <1>17 DEF ConfirmSuppressed, filer, ledger, Processing, IndexInv, InHandOK
  <2>2. CASE /\ SameStateAsFact(row[subj[cur]])
             /\ dirty' = dirty \ {subj[cur]} /\ Processed
    <3>1. \A x \in Key \ Unknown : x = subj[cur] /\ fact = object[x] => Agrees(x)'
      BY <2>1, <2>2 DEF SameStateAsFact, Agrees
    <3> QED BY <1>0, <2>1, <2>2, <3>1, IndexProcessed
  <2>3. CASE AttemptFailed /\ UNCHANGED <<dirty, done>>
    BY <2>1, <2>3, IndexGiveUp DEF Reading, filer
  <2> QED BY <1>17, <2>2, <2>3 DEF ConfirmSuppressed
<1>18. CASE UNCHANGED vars
  <2>1. UNCHANGED <<n, subj, object, row, done, dirty, marks, fact, pc, cur>>
    BY <1>18 DEF vars, filer, ledger, change, history
  <2> QED BY <1>0, <2>1, IndexQuiet
<1> QED BY <1>1, <1>2, <1>3, <1>4, <1>5, <1>6, <1>7, <1>8, <1>9, <1>10, <1>11, <1>12,
           <1>13, <1>14, <1>15, <1>16, <1>17, <1>18
        DEF Next, Adapter, Environment

\* Once all entries of a key are processed, its row describes the stored object,
\* whatever failed, crashed or raced in between: a failed HEAD never becomes a
\* deletion, and a write that a newer report suppressed is confirmed or repeated.
THEOREM IndexFollows == Spec => []IndexFollowsStore
<1>1. Init => IInv /\ IndexInv
  BY InitIInv, InitIndexInv
<1>2. IInv /\ IndexInv /\ [Next]_vars => (IInv /\ IndexInv)'
  BY StepIInv, StepIndexInv DEF IInv
<1>3. IndexInv => IndexFollowsStore
  BY DEF IndexInv
<1> QED BY <1>1, <1>2, <1>3, PTL DEF Spec

-----------------------------------------------------------------------------
(* Where the filer lost entries, a gap mark says so: for a filer whose      *)
(* clock does not fall back.  With a rollback the window can end below a    *)
(* dropped entry, and LossIsMarked does not hold.                          *)

LEMMA InitLossInv == Init => LossInv
BY SMT DEF Init, LossInv, LossIsMarked, Streaming

\* A step that drops no entry and moves neither a clock nor the cursor.
LEMMA LossQuiet ==
  ASSUME LossInv, UNCHANGED <<n, ts, high, claim, cursor>>, unmarked' \subseteq unmarked,
         pc' = "beat" => pc = "beat" /\ hb' = hb,
         pc' = "gap" => pc = "gap" /\ UNCHANGED <<hb, open, first>>,
         pc' \in Streaming \ {"gap"} /\ open' /\ ~first' =>
           pc \in Streaming \ {"gap"} /\ open /\ ~first
  PROVE  LossInv'
<1>1. LossIsMarked'
  BY DEF LossInv, LossIsMarked
<1> QED BY <1>1, SMT DEF LossInv

\* The clock moves on, and the log may grow by an entry of a time it has had.
LEMMA LossTime ==
  ASSUME LossInv, NumbersOK, Tick \/ \E s : Append(s)
  PROVE  LossInv'
<1>1. /\ high' = Larger(high, clock + 1)
      /\ UNCHANGED <<claim, cursor, unmarked, pc, hb, open, first>>
  BY DEF Tick, Append, ledger, stream, history
<1>2. high \in Nat /\ clock \in Nat /\ claim \in Nat /\ n \in Nat /\ ts \in [Entry -> Nat]
  BY SMT DEF NumbersOK
<1>3. high' >= high /\ high' >= clock + 1 /\ high' \in Nat
  BY <1>1, <1>2, SMT DEF Larger
<1>4. \A i \in 1..n : ts'[i] = ts[i] /\ i \in 1..n'
  <2>1. CASE Tick
    BY <2>1 DEF Tick
  <2>2. CASE \E s : Append(s)
    <3>1. n + 1 \in Entry /\ \A i \in 1..n : i \in Entry /\ i # n + 1
      BY <2>2, Sizes, SMT DEF Append, NumbersOK, Entry
    <3>2. PICK t : ts' = [ts EXCEPT ![n + 1] = t] /\ n' = n + 1
      BY <2>2 DEF Append
    <3> QED BY <1>2, <3>1, <3>2, SMT
  <2> QED BY <2>1, <2>2
<1>5. \A i \in 1..n' : ts'[i] <= high'
  <2>1. \A i \in 1..n : ts'[i] <= high'
    <3>1. \A i \in 1..n : ts[i] <= high /\ ts[i] \in Nat
      BY <1>2, Sizes, SMT DEF LossInv, NumbersOK, Entry
    <3> QED BY <1>2, <1>3, <1>4, <3>1, SMT
  <2>2. CASE Tick
    BY <2>1, <2>2 DEF Tick
  <2>3. CASE \E s : Append(s)
    <3>1. n + 1 \in Entry
      BY <2>3, Sizes, SMT DEF Append, NumbersOK, Entry
    <3>2. PICK t \in (claim + 1)..(clock + 1) : ts' = [ts EXCEPT ![n + 1] = t] /\ n' = n + 1
      BY <2>3 DEF Append
    <3>3. ts'[n + 1] <= high'
      BY <1>2, <1>3, <3>1, <3>2, SMT
    <3> QED BY <1>2, <2>1, <3>2, <3>3, SMT
  <2> QED BY <2>2, <2>3
<1>6. LossIsMarked'
  BY <1>1 DEF LossInv, LossIsMarked
<1> QED BY <1>1, <1>4, <1>5, <1>6 DEF LossInv

\* What a crash drops was outstanding: it lies above the cursor and above the
\* heartbeat in hand, and at or below the value the clock comes back with.
LEMMA LossRestart ==
  ASSUME Rollback = 0, LossInv, IInv, FilerRestart
  PROVE  LossInv'
<1>1. PICK m \in 0..n, c \in 0..clock :
        /\ c + Rollback >= high /\ claim' = c
        /\ unmarked' = unmarked \cup {i \in (m + 1)..n : i \notin done \cup lost}
  BY DEF FilerRestart
<1>2. UNCHANGED <<n, ts, high, cursor, pc, hb, first>> /\ open' = FALSE
  BY DEF FilerRestart, ledger
<1>3. n \in Nat /\ m \in Nat /\ c \in Nat /\ high \in Nat /\ ts \in [Entry -> Nat]
  BY <1>1, SMT DEF IInv, NumbersOK
<1>4. c >= high
  BY <1>1, <1>3, SMT
<1>5. \A i \in unmarked' : i \in unmarked \/ Outstanding(i)
  BY <1>1, <1>3, SMT DEF Outstanding
<1>6. unmarked' \subseteq 1..n
  BY <1>5 DEF LossInv, Outstanding
<1>7. \A i \in 1..n : i \in Entry /\ ts[i] \in Nat /\ ts[i] <= c
  BY <1>3, <1>4, Sizes, SMT DEF LossInv, IInv, NumbersOK, Entry
<1>8. \A i : Outstanding(i) => ts[i] > cursor /\ (pc = "beat" => ts[i] > hb)
  <2> SUFFICES ASSUME NEW i, Outstanding(i)
               PROVE  ts[i] > cursor /\ (pc = "beat" => ts[i] > hb)
    OBVIOUS
  <2>1. i \in Entry /\ ts[i] \in Nat
    BY <1>7 DEF Outstanding
  <2> QED BY <2>1, SMT DEF IInv, CursorIsComplete, BeatOK
<1>9. \A i \in unmarked' : cursor < ts[i] /\ ts[i] <= claim' /\ (pc = "beat" => hb < ts[i])
  BY <1>1, <1>5, <1>6, <1>7, <1>8 DEF LossInv, IInv, NumbersOK
<1>10. LossIsMarked'
  BY <1>2 DEF LossIsMarked
<1> QED BY <1>2, <1>6, <1>9, <1>10 DEF LossInv

\* The first heartbeat of a stream is at least what the filer has declared,
\* and on a stream whose first heartbeat was handled nothing is unmarked.
LEMMA LossHeartbeat ==
  ASSUME LossInv, NumbersOK, RecvHeartbeat
  PROVE  LossInv'
<1>1. /\ pc = "recv" /\ open /\ claim' = hb' /\ first' = FALSE
      /\ hb' \in Larger(claim, 1)..clock
      /\ UNCHANGED <<n, ts, high, cursor, open, unmarked>>
      /\ pc' = IF first THEN "gap" ELSE "beat"
  BY DEF RecvHeartbeat, ledger, history
<1>2. claim' >= claim /\ claim' \in Nat
  BY <1>1, SMT DEF NumbersOK, Larger
<1>3. ~first => unmarked = {}
  BY <1>1 DEF LossInv, LossIsMarked, Streaming
<1>4. \A i \in unmarked : ts[i] <= claim'
  <2>1. \A i \in unmarked : ts[i] \in Nat /\ ts[i] <= claim
    BY Sizes, SMT DEF LossInv, NumbersOK, Entry
  <2> QED BY <1>2, <2>1, SMT DEF NumbersOK
<1>5. LossIsMarked'
  BY <1>1, <1>3 DEF LossIsMarked
<1> QED BY <1>1, <1>3, <1>4, <1>5 DEF LossInv

\* recordGapWindow covers what lies between the last declared value and the heartbeat.
LEMMA LossGap ==
  ASSUME LossInv, IInv, pc = "gap", pc' = "beat",
         unmarked' = {i \in unmarked : ts[i] \notin GapWindow(last, hb)},
         UNCHANGED <<n, ts, high, claim, cursor, hb, open, first>>
  PROVE  LossInv'
<1>1. \A i \in unmarked : ts[i] <= hb => ts[i] \in GapWindow(last, hb)
  <2> SUFFICES ASSUME NEW i \in unmarked, ts[i] <= hb PROVE ts[i] \in GapWindow(last, hb)
    OBVIOUS
  <2>1. ts[i] \in Nat /\ cursor < ts[i]
    BY Sizes, SMT DEF LossInv, IInv, NumbersOK, Entry
  <2>2. last \in Nat /\ hb \in Nat /\ cursor \in Nat /\ last <= cursor
    BY DEF IInv, NumbersOK, ClocksOK
  <2> QED BY <2>1, <2>2, Sizes, SMT DEF GapWindow, Smaller, Larger
<1>2. \A i \in unmarked' : i \in unmarked /\ hb < ts[i]
  <2>1. \A i \in unmarked : ts[i] \in Nat
    BY Sizes, SMT DEF LossInv, IInv, NumbersOK, Entry
  <2> QED BY <1>1, <2>1, SMT DEF IInv, NumbersOK
<1>3. open => unmarked' = {}
  <2>1. \A i \in unmarked : ts[i] <= claim
    BY DEF LossInv
  <2> QED BY <1>1, <2>1 DEF LossInv
<1>4. LossIsMarked'
  BY <1>3 DEF LossIsMarked
<1> QED BY <1>2, <1>4 DEF LossInv

\* A saved heartbeat stays below what is unmarked.
LEMMA LossSave ==
  ASSUME LossInv, NumbersOK, pc = "beat", cursor' \in {cursor, Saved(hb)},
         UNCHANGED <<n, ts, high, claim, unmarked>>,
         \/ pc' = "recv" /\ UNCHANGED <<open, first>>
         \/ pc' = "connect"
  PROVE  LossInv'
<1>1. \A i \in unmarked : cursor' < ts[i]
  BY DEF LossInv, NumbersOK, Saved, Larger
<1>2. LossIsMarked'
  BY DEF LossInv, LossIsMarked, Streaming
<1> QED BY <1>1, <1>2 DEF LossInv

LEMMA StepLossInv == Rollback = 0 /\ LossInv /\ IInv /\ [Next]_vars => LossInv'
<1> SUFFICES ASSUME Rollback = 0, LossInv, IInv, [Next]_vars PROVE LossInv'
  OBVIOUS
<1>0. NumbersOK
  BY DEF IInv
<1>1. CASE \/ \E k \in Key, v \in 1..MaxVer : Put(k, v)
           \/ \E k \in Key : Delete(k)
           \/ RemoveBucket \/ OtherEntry \/ Tick
  BY <1>0, <1>1, LossTime DEF Put, Delete, RemoveBucket, OtherEntry
<1>2. CASE FilerRestart
  BY <1>2, LossRestart
<1>3. CASE Crash \/ LoadCursor \/ SelfCheck \/ Subscribe \/ RecvError
  <2>1. /\ UNCHANGED <<n, ts, high, claim, cursor, unmarked>>
        /\ \/ pc' \in {"load", "check", "connect"}
           \/ pc' = "recv" /\ first' = TRUE
    BY <1>3 DEF Crash, LoadCursor, SelfCheck, Subscribe, RecvError, Resubscribe,
       filer, ledger, history
  <2> QED BY <2>1, LossQuiet DEF Streaming
<1>4. CASE \E k \in Key, v \in 1..MaxVer : AgentReport(k, v)
  <2>1. UNCHANGED <<n, ts, high, claim, cursor, unmarked, pc, hb, open, first>>
    BY <1>4 DEF AgentReport, filer, stream
  <2> QED BY <2>1, LossQuiet
<1>5. CASE RecvChange
  <2>1. /\ UNCHANGED <<n, ts, high, claim, cursor, open, first>>
        /\ unmarked' \subseteq unmarked /\ pc = "recv"
    BY <1>5 DEF RecvChange, filer, ledger
  <2>2. pc' \in {"recv", "bucket", "clock"}
    BY <1>5 DEF RecvChange, FirstStep
  <2> QED BY <2>1, <2>2, LossQuiet DEF Streaming
<1>6. CASE RecvHeartbeat
  BY <1>0, <1>6, LossHeartbeat
<1>7. CASE RecordGapWindow
  <2>1. pc = "gap" /\ UNCHANGED <<n, ts, high, claim, cursor>>
    BY <1>7 DEF RecordGapWindow, filer, ledger
  <2>2. CASE /\ pc' = "beat" /\ UNCHANGED stream
             /\ unmarked' = {i \in unmarked : ts[i] \notin GapWindow(last, hb)}
    BY <2>1, <2>2, LossGap DEF stream
  <2>3. CASE Resubscribe /\ UNCHANGED unmarked
    BY <2>1, <2>3, LossQuiet DEF Resubscribe, Streaming
  <2> QED BY <1>7, <2>2, <2>3 DEF RecordGapWindow
<1>8. CASE PersistCursor
  <2>1. /\ pc = "beat" /\ cursor' \in {cursor, Saved(hb)}
        /\ UNCHANGED <<n, ts, high, claim, unmarked>>
    BY <1>8 DEF PersistCursor, filer, history
  <2>2. \/ pc' = "recv" /\ UNCHANGED <<open, first>>
        \/ pc' = "connect"
    BY <1>8 DEF PersistCursor, Resubscribe
  <2> QED BY <1>0, <2>1, <2>2, LossSave
<1>9. CASE HandleBucketRemoved \/ ReadClock \/ ReadBack \/ Apply \/ ConfirmSuppressed
  <2>1. /\ UNCHANGED <<n, ts, high, claim, cursor>> /\ pc \in Processing
        /\ unmarked' \subseteq unmarked
    BY <1>9 DEF HandleBucketRemoved, ReadClock, ReadBack, Apply, ConfirmSuppressed,
       Processed, filer, ledger, history, Processing
  <2>2. \/ pc' = "connect"
        \/ pc' \in Processing \cup {"recv"} /\ UNCHANGED stream
    BY <1>9 DEF HandleBucketRemoved, ReadClock, ReadBack, Apply, ConfirmSuppressed,
       Processed, AttemptFailed, Resubscribe, Processing
  <2> QED BY <2>1, <2>2, LossQuiet, SMT DEF Processing, Streaming, stream
<1>10. CASE UNCHANGED vars
  <2>1. UNCHANGED <<n, ts, high, claim, cursor, unmarked, pc, hb, open, first>>
    BY <1>10 DEF vars, filer, ledger, stream, history
  <2> QED BY <2>1, LossQuiet
<1> QED BY <1>1, <1>2, <1>3, <1>4, <1>5, <1>6, <1>7, <1>8, <1>9, <1>10
        DEF Next, Adapter, Environment

\* With a filer clock that does not fall back, the index is explained: a row
\* describes its object once its entries are processed, and a dropped entry lies
\* in a recorded gap window once the next stream's first heartbeat was handled.
THEOREM IndexExplained ==
  ASSUME Rollback = 0
  PROVE  Spec => []IndexIsExplained
<1>1. Init => IInv /\ LossInv
  BY InitIInv, InitLossInv
<1>2. IInv /\ LossInv /\ [Next]_vars => (IInv /\ LossInv)'
  BY StepIInv, StepLossInv
<1>3. LossInv => LossIsMarked
  BY DEF LossInv
<1>4. Spec => []LossIsMarked
  BY <1>1, <1>2, <1>3, PTL DEF Spec
<1> QED BY <1>4, IndexFollows, PTL DEF IndexIsExplained

-----------------------------------------------------------------------------
(* ServerLifecycle.  What each place of run() can rely on.                 *)

\* How far run() has come.
WithBuckets == {"grpc", "source", "sourceFailed", "http"} \cup Started
WithAdmin == {"credentials", "buckets"} \cup WithBuckets
WithSchema == {"connect", "admin"} \cup WithAdmin

Prepared == schema = "current" /\ buckets = DefaultBucket /\ admin # "none"

\* What each place of run() can rely on, and when the gRPC listener may be there.
PlaceOK ==
  /\ at \in {"down", "exited", "migrate"} \cup WithSchema
  /\ admin \in {"none", "lost", "known"} /\ buckets \subseteq DefaultBucket
  /\ at \in WithSchema => schema = "current"
  /\ at \in WithAdmin => admin # "none"
  /\ at \in WithBuckets => buckets = DefaultBucket
  /\ at \in {"down", "migrate"} => listener["grpc"] = "off"
  /\ listener["grpc"] # "off" => Prepared
  /\ DOMAIN listener = Listener

\* The error channels and the verdict of the self-check.
VerdictOK ==
  /\ failed \in 0..1 /\ (~delivered => failed = 0) /\ (failed # 0 => verdict = "failure")
  /\ verdict # "refused" /\ conf.window # "zero"

\* The inductive invariant.
SrvInv == PlaceOK /\ VerdictOK /\ fatal \in 0..FatalCap /\ code \in 0..1

\* What FailureDecides says of one step.
Decides ==
  at = "drain" /\ at' = "shutdown" => /\ failed > 0 => code' = 1
                                      /\ failed > 0 => verdict = "failure"

LEMMA Codes == 0 \in 0..1 /\ 1 \in 0..1 /\ 0 \in 0..FatalCap
BY SMT DEF FatalCap

LEMMA ConfFields ==
  /\ NoConf.window # "zero"
  /\ \A c : InEffect(c).window = c.window
BY SMT DEF NoConf, InEffect

LEMMA VerdictSame ==
  ASSUME VerdictOK, UNCHANGED <<failed, delivered, verdict, conf>> PROVE VerdictOK'
BY DEF VerdictOK

LEMMA PlaceSame ==
  ASSUME PlaceOK, UNCHANGED <<at, schema, admin, buckets, listener>> PROVE PlaceOK'
BY DEF PlaceOK, Prepared

LEMMA EndedOK ==
  ASSUME SrvInv, Ended, UNCHANGED <<admin, buckets>> PROVE SrvInv'
<1>1. PlaceOK'
  BY DEF SrvInv, PlaceOK, Prepared, Ended, NoListener, Listener, WithSchema, WithAdmin,
         WithBuckets, Started
<1>2. VerdictOK'
  BY Codes, ConfFields DEF VerdictOK, Ended
<1> QED BY <1>1, <1>2, Codes DEF SrvInv, Ended

LEMMA ConfigureStep ==
  ASSUME SrvInv, Configure PROVE SrvInv' /\ Decides
<1>1. /\ at = "down" /\ at' \in {"migrate", "exited"} /\ (code' = code \/ code' = 1)
      /\ UNCHANGED <<cancelled, verdict, schema, admin, buckets, listener, source, fatal,
                     failed, delivered, sinkUp, sinkReady>>
  BY DEF Configure, Exit1
<1>2. conf'.window # "zero"
  <2>1. CASE conf' = conf
    BY <2>1 DEF SrvInv, VerdictOK
  <2>2. CASE \E c : conf' = InEffect(c) /\ c.window # "zero"
    BY <2>2, ConfFields
  <2> QED BY <2>1, <2>2 DEF Configure, Validate
<1>3. PlaceOK'
  BY <1>1 DEF SrvInv, PlaceOK, Prepared, WithSchema, WithAdmin, WithBuckets, Started
<1>4. VerdictOK'
  BY <1>1, <1>2 DEF SrvInv, VerdictOK
<1> QED BY <1>1, <1>3, <1>4, Codes DEF SrvInv, Decides

LEMMA MigrateStep ==
  ASSUME SrvInv, Migrate PROVE SrvInv' /\ Decides
<1>1. /\ at = "migrate" /\ (code' = code \/ code' = 1)
      /\ \/ at' = "connect" /\ schema' = "current"
         \/ at' = "exited"
      /\ UNCHANGED <<cancelled, verdict, conf, admin, buckets, listener, source, fatal, failed,
                     delivered, sinkUp, sinkReady>>
  BY DEF Migrate, Exit1
<1>2. PlaceOK'
  BY <1>1 DEF SrvInv, PlaceOK, Prepared, WithSchema, WithAdmin, WithBuckets, Started
<1>3. VerdictOK'
  BY <1>1, VerdictSame DEF SrvInv
<1> QED BY <1>1, <1>2, <1>3, Codes DEF SrvInv, Decides

LEMMA SchemaRepairedStep ==
  ASSUME SrvInv, SchemaRepaired PROVE SrvInv' /\ Decides
<1>1. /\ at \in {"down", "exited"} /\ schema = "partial"
      /\ UNCHANGED <<cancelled, verdict, at, conf, admin, buckets, listener, source, fatal,
                     failed, delivered, code, sinkUp, sinkReady>>
  BY DEF SchemaRepaired
<1>2. PlaceOK'
  BY <1>1 DEF SrvInv, PlaceOK, Prepared, WithSchema, WithAdmin, WithBuckets, Started
<1>3. VerdictOK'
  BY <1>1, VerdictSame DEF SrvInv
<1> QED BY <1>1, <1>2, <1>3 DEF SrvInv, Decides

\* A step of the boot sequence that prepares nothing.
LEMMA ConnectAllStep ==
  ASSUME SrvInv, ConnectAll \/ BootFails PROVE SrvInv' /\ Decides
<1>1. /\ \/ at = "connect" /\ at' = "admin" /\ code' = code
         \/ at # "drain" /\ at' = "exited" /\ code' = 1
      /\ UNCHANGED <<cancelled, verdict, conf, schema, admin, buckets, listener, source, fatal,
                     failed, delivered, sinkUp, sinkReady>>
  BY DEF ConnectAll, BootFails, Exit1
<1>2. PlaceOK'
  BY <1>1 DEF SrvInv, PlaceOK, Prepared, WithSchema, WithAdmin, WithBuckets, Started
<1>3. VerdictOK'
  BY <1>1, VerdictSame DEF SrvInv
<1> QED BY <1>1, <1>2, <1>3, Codes DEF SrvInv, Decides

LEMMA AdminStep ==
  ASSUME SrvInv, EnsureAdminAccount \/ WriteBootstrapCredentials PROVE SrvInv' /\ Decides
<1>1. /\ at \in {"admin", "credentials"} /\ at' \in {"credentials", "buckets"}
      /\ admin' \in {"lost", "known"} \/ (admin' = admin /\ admin # "none")
      /\ UNCHANGED <<cancelled, verdict, conf, schema, buckets, listener, source, fatal, failed,
                     delivered, code, sinkUp, sinkReady>>
  BY DEF EnsureAdminAccount, WriteBootstrapCredentials
<1>2. PlaceOK'
  BY <1>1 DEF SrvInv, PlaceOK, Prepared, WithSchema, WithAdmin, WithBuckets, Started
<1>3. VerdictOK'
  BY <1>1, VerdictSame DEF SrvInv
<1> QED BY <1>1, <1>2, <1>3 DEF SrvInv, Decides

LEMMA EnsureDefaultBucketsStep ==
  ASSUME SrvInv, EnsureDefaultBuckets PROVE SrvInv' /\ Decides
<1>1. /\ at = "buckets"
      /\ UNCHANGED <<cancelled, verdict, conf, schema, admin, listener, source, fatal, failed,
                     delivered, code, sinkUp, sinkReady>>
      /\ \/ at' = "grpc" /\ DefaultBucket \subseteq buckets /\ buckets' = buckets
         \/ /\ at' = at /\ ~(DefaultBucket \subseteq buckets)
            /\ \E b \in DefaultBucket : buckets' = buckets \cup {b}
  BY DEF EnsureDefaultBuckets
<1>2. PlaceOK'
  <2>1. CASE at' = "grpc" /\ DefaultBucket \subseteq buckets /\ buckets' = buckets
    <3>1. buckets' = DefaultBucket
      BY <2>1 DEF SrvInv, PlaceOK
    <3> QED BY <1>1, <2>1, <3>1 DEF SrvInv, PlaceOK, Prepared, WithSchema, WithAdmin,
            WithBuckets, Started
  <2>2. CASE /\ at' = at /\ ~(DefaultBucket \subseteq buckets)
             /\ \E b \in DefaultBucket : buckets' = buckets \cup {b}
    <3>1. listener["grpc"] = "off" /\ buckets' \subseteq DefaultBucket /\ at \notin WithBuckets
      BY <1>1, <2>2 DEF SrvInv, PlaceOK, Prepared, WithBuckets, Started
    <3> QED BY <1>1, <2>2, <3>1 DEF SrvInv, PlaceOK
  <2> QED BY <1>1, <2>1, <2>2
<1>3. VerdictOK'
  BY <1>1, VerdictSame DEF SrvInv
<1> QED BY <1>1, <1>2, <1>3 DEF SrvInv, Decides

\* The listeners, the event source and their errors.
LEMMA ListenerChanges ==
  ASSUME SrvInv, at \in WithBuckets, at' \in WithBuckets \cup {"exited"},
         UNCHANGED <<schema, admin, buckets>>, DOMAIN listener' = Listener
  PROVE  PlaceOK'
<1>1. Prepared /\ Prepared'
  BY DEF SrvInv, PlaceOK, Prepared, WithAdmin, WithSchema
<1>2. at' \notin {"down", "migrate"}
  BY DEF WithBuckets, Started
<1> QED BY <1>1, <1>2 DEF SrvInv, PlaceOK, Prepared, WithAdmin, WithSchema

LEMMA StartGRPCStep ==
  ASSUME SrvInv, StartGRPC \/ StartHTTP PROVE SrvInv' /\ Decides
<1>1. /\ \/ at = "grpc" /\ at' = "source" /\ listener' = [listener EXCEPT !["grpc"] = "up"]
         \/ at = "http" /\ at' = "await" /\ listener' = [listener EXCEPT !["http"] = "up"]
      /\ UNCHANGED <<cancelled, verdict, conf, schema, admin, buckets, source, fatal, failed,
                     delivered, code, sinkUp>>
  BY DEF StartGRPC, StartHTTP
<1>2. at \in WithBuckets /\ at' \in WithBuckets
  BY <1>1 DEF WithBuckets, Started
<1>3. PlaceOK'
  BY <1>1, <1>2, ListenerChanges DEF SrvInv, PlaceOK
<1>4. VerdictOK'
  BY <1>1, VerdictSame DEF SrvInv
<1> QED BY <1>1, <1>3, <1>4 DEF SrvInv, Decides

\* One more error fits while the channel is not full.
LEMMA ErrorFits ==
  ASSUME fatal \in 0..FatalCap, fatal < FatalCap, fatal' = fatal + 1 PROVE fatal' \in 0..FatalCap
BY SMT DEF FatalCap

LEMMA SourceStep ==
  ASSUME SrvInv, StartEventSource \/ SourceErrorSent PROVE SrvInv' /\ Decides
<1>1. /\ at \in {"source", "sourceFailed"} /\ at' \in {"http", "sourceFailed"}
      /\ fatal' = fatal \/ (fatal < FatalCap /\ fatal' = fatal + 1)
      /\ UNCHANGED <<cancelled, verdict, conf, schema, admin, buckets, listener, failed,
                     delivered, code, sinkUp, sinkReady>>
  BY DEF StartEventSource, SourceErrorSent
<1>2. at \in WithBuckets /\ at' \in WithBuckets
  BY <1>1 DEF WithBuckets
<1>3. PlaceOK'
  BY <1>1, <1>2, ListenerChanges DEF SrvInv, PlaceOK
<1>4. VerdictOK'
  BY <1>1, VerdictSame DEF SrvInv
<1> QED BY <1>1, <1>3, <1>4, ErrorFits DEF SrvInv, Decides

LEMMA ListenerStep ==
  ASSUME SrvInv, NEW l \in Listener, ListenerDies(l) \/ ListenerErrorSent(l)
  PROVE  SrvInv' /\ Decides
<1>1. /\ listener[l] # "off" /\ \E x : x # "off" /\ listener' = [listener EXCEPT ![l] = x]
      /\ fatal' = fatal \/ (fatal < FatalCap /\ fatal' = fatal + 1)
      /\ UNCHANGED <<cancelled, verdict, conf, schema, at, admin, buckets, source, failed,
                     delivered, code, sinkUp, sinkReady>>
  BY DEF ListenerDies, ListenerErrorSent
<1>2. DOMAIN listener' = Listener /\ (listener'["grpc"] = "off" <=> listener["grpc"] = "off")
  BY <1>1 DEF SrvInv, PlaceOK, Listener
<1>3. PlaceOK'
  BY <1>1, <1>2 DEF SrvInv, PlaceOK, Prepared
<1>4. VerdictOK'
  BY <1>1, VerdictSame DEF SrvInv
<1> QED BY <1>1, <1>3, <1>4, ErrorFits DEF SrvInv, Decides

-----------------------------------------------------------------------------
(* The self-check, the workers and the shutdown.                            *)

LEMMA SelfCheckEndsStep ==
  ASSUME SrvInv, SelfCheckEnds PROVE SrvInv' /\ Decides
<1>1. /\ verdict = "none" /\ verdict' \in {"aborted", "passed", "failure"}
      /\ UNCHANGED <<cancelled, mainVars>>
  BY DEF SelfCheckEnds, SrvInv, VerdictOK
<1>2. UNCHANGED <<at, conf, schema, admin, buckets, listener, fatal, failed, delivered, code>>
  BY <1>1 DEF mainVars
<1>3. failed = 0
  BY <1>1 DEF SrvInv, VerdictOK
<1>4. VerdictOK'
  BY <1>1, <1>2, <1>3 DEF SrvInv, VerdictOK
<1> QED BY <1>2, <1>4, PlaceSame DEF SrvInv, Decides

LEMMA DeliverVerdictStep ==
  ASSUME SrvInv, DeliverVerdict PROVE SrvInv' /\ Decides
<1>1. /\ ~delivered /\ delivered'
      /\ failed' = (IF verdict = "failure" THEN failed + 1 ELSE failed)
      /\ UNCHANGED <<cancelled, verdict, conf, schema, at, admin, buckets, listener, source,
                     fatal, code, sinkUp, sinkReady>>
  BY DEF DeliverVerdict
<1>2. failed = 0
  BY <1>1 DEF SrvInv, VerdictOK
<1>3. 0 + 1 = 1
  BY SMT
<1>4. failed' \in 0..1 /\ (failed' # 0 => verdict = "failure")
  BY <1>1, <1>2, <1>3, Codes
<1>5. VerdictOK'
  BY <1>1, <1>4 DEF SrvInv, VerdictOK
<1> QED BY <1>1, <1>5, PlaceSame DEF SrvInv, Decides

LEMMA WorkerStep ==
  ASSUME SrvInv, ProbeSink \/ SourceStops \/ SinkChanges \/ Signal PROVE SrvInv' /\ Decides
<1>1. UNCHANGED <<at, verdict, conf, schema, admin, buckets, listener, fatal, failed,
                  delivered, code>>
  BY DEF ProbeSink, SourceStops, SinkChanges, Signal, mainVars
<1> QED BY <1>1, PlaceSame, VerdictSame DEF SrvInv, Decides

LEMMA AwaitStep ==
  ASSUME SrvInv, Await PROVE SrvInv' /\ Decides
<1>1. /\ at = "await" /\ at' = "drain" /\ (code' = 0 \/ code' = 1)
      /\ failed' = failed \/ (failed > 0 /\ failed' = failed - 1)
      /\ fatal' = fatal \/ (fatal > 0 /\ fatal' = fatal - 1)
      /\ UNCHANGED <<cancelled, verdict, conf, schema, admin, buckets, listener, source,
                     delivered, sinkUp, sinkReady>>
  BY DEF Await
<1>2. fatal' \in 0..FatalCap
  BY <1>1, SMT DEF SrvInv, FatalCap
<1>3. failed' \in 0..1 /\ (failed' = failed \/ failed # 0)
  BY <1>1, SMT DEF SrvInv, VerdictOK
<1>4. VerdictOK'
  BY <1>1, <1>3 DEF SrvInv, VerdictOK
<1>5. PlaceOK'
  <2>1. at \in WithBuckets /\ at' \in WithBuckets
    BY <1>1 DEF WithBuckets, Started
  <2> QED BY <1>1, <2>1, ListenerChanges DEF SrvInv, PlaceOK
<1> QED BY <1>1, <1>2, <1>4, <1>5, Codes DEF SrvInv, Decides

LEMMA DrainStep ==
  ASSUME SrvInv, DrainStartupCheckFailure PROVE SrvInv' /\ Decides
<1>1. /\ at = "drain" /\ at' = "shutdown"
      /\ \/ failed > 0 /\ failed' = failed - 1 /\ code' = 1
         \/ ~(failed > 0) /\ failed' = failed /\ code' = code
      /\ UNCHANGED <<cancelled, verdict, conf, schema, admin, buckets, listener, source, fatal,
                     delivered, sinkUp, sinkReady>>
  BY DEF DrainStartupCheckFailure
<1>2. failed' \in 0..1 /\ (failed' = failed \/ failed # 0) /\ (failed > 0 => failed # 0)
  BY <1>1, SMT DEF SrvInv, VerdictOK
<1>3. VerdictOK'
  BY <1>1, <1>2 DEF SrvInv, VerdictOK
<1>4. PlaceOK'
  <2>1. at \in WithBuckets /\ at' \in WithBuckets
    BY <1>1 DEF WithBuckets, Started
  <2> QED BY <1>1, <2>1, ListenerChanges DEF SrvInv, PlaceOK
<1>5. Decides
  BY <1>1, <1>2 DEF SrvInv, VerdictOK, Decides
<1> QED BY <1>1, <1>3, <1>4, <1>5, Codes DEF SrvInv

LEMMA ShutdownStep ==
  ASSUME SrvInv, Shutdown \/ JoinEventSource PROVE SrvInv' /\ Decides
<1>1. /\ \/ at = "shutdown" /\ at' = "join" /\ listener' = [listener EXCEPT !["http"] = "gone"]
         \/ at = "join" /\ at' = "exited" /\ listener' = listener
      /\ UNCHANGED <<verdict, conf, schema, admin, buckets, source, fatal, failed, delivered,
                     code, sinkUp, sinkReady>>
  BY DEF Shutdown, JoinEventSource
<1>2. at \in WithBuckets /\ at' \in WithBuckets \cup {"exited"}
  BY <1>1 DEF WithBuckets, Started
<1>3. PlaceOK'
  BY <1>1, <1>2, ListenerChanges DEF SrvInv, PlaceOK
<1>4. VerdictOK'
  BY <1>1, VerdictSame DEF SrvInv
<1> QED BY <1>1, <1>3, <1>4 DEF SrvInv, Decides

LEMMA EndStep ==
  ASSUME SrvInv, Restarted \/ ServerDies PROVE SrvInv' /\ Decides
<1>1. Ended /\ UNCHANGED <<admin, buckets>>
  BY DEF Restarted, ServerDies
<1>2. Decides
  BY <1>1 DEF Ended, Decides
<1> QED BY <1>1, <1>2, EndedOK

-----------------------------------------------------------------------------
(* The theorem.                                                            *)

LEMMA SrvStep ==
  ASSUME SrvInv, [SrvNext]_srvVars PROVE SrvInv' /\ Decides
<1>1. CASE UNCHANGED srvVars
  <2>1. UNCHANGED <<at, verdict, conf, schema, admin, buckets, listener, fatal, failed,
                    delivered, code>>
    BY <1>1 DEF srvVars, mainVars
  <2> QED BY <2>1, PlaceSame, VerdictSame DEF SrvInv, Decides
<1>2. CASE MainStep
  BY <1>2, ConfigureStep, MigrateStep, ConnectAllStep, AdminStep, EnsureDefaultBucketsStep,
     StartGRPCStep, SourceStep, AwaitStep, DrainStep, ShutdownStep DEF MainStep
<1>3. CASE SelfCheckEnds \/ DeliverVerdict \/ ProbeSink \/ SourceStops \/ SinkChanges \/ Signal
  BY <1>3, SelfCheckEndsStep, DeliverVerdictStep, WorkerStep
<1>4. CASE \E l \in Listener : ListenerDies(l) \/ ListenerErrorSent(l)
  BY <1>4, ListenerStep
<1>5. CASE SchemaRepaired \/ Restarted \/ ServerDies
  BY <1>5, SchemaRepairedStep, EndStep
<1> QED BY <1>1, <1>2, <1>3, <1>4, <1>5 DEF SrvNext

\* The safety half of ExitIsRight: however boots, crashes, restarts, signals, dead
\* listeners and the self-check interleave, nothing is served before the schema, the
\* default buckets and the first account are there, the error channels never overflow,
\* and a self-check that failed before the exit code was chosen decides it; for any
\* default buckets.
THEOREM ServesOnlyPrepared == SrvSpec => []SrvTypeOK /\ FailureDecides
<1>1. ASSUME SrvInit PROVE SrvInv
  <2>1. PlaceOK
    BY <1>1 DEF SrvInit, PlaceOK, Prepared, NoListener, Listener, WithSchema, WithAdmin,
                WithBuckets, Started
  <2>2. VerdictOK
    BY <1>1, Codes, ConfFields DEF SrvInit, VerdictOK
  <2> QED BY <1>1, <2>1, <2>2, Codes DEF SrvInit, SrvInv
<1>2. SrvInv /\ [SrvNext]_srvVars => SrvInv' /\ Decides
  BY SrvStep
<1>3. SrvInv => SrvTypeOK
  BY DEF SrvInv, PlaceOK, VerdictOK, Prepared, SrvTypeOK
<1>4. Decides => [at = "drain" /\ at' = "shutdown" =>
                    /\ failed > 0 => code' = 1
                    /\ failed > 0 => verdict = "failure"]_<<at, code, failed>>
  BY DEF Decides
<1> QED BY <1>1, <1>2, <1>3, <1>4, PTL DEF SrvSpec, FailureDecides
=============================================================================
