---------------------------- MODULE IngestProofs ----------------------------
(* Proofs about how an object gets into the index.  The storage webhook     *)
(* implements the notification queue, for any notifications, any number of  *)
(* concurrent requests and any failure cap; the row follows the store, for  *)
(* any number of changes, events and upload reports.  The tags beside it    *)
(* (TagReview, TagKeys) and the jobs that change them (RetagJobs) follow.   *)
EXTENDS StorageWebhook, FileIndex, TagReview, TagKeys, RetagJobs, TLAPS

USE Zenon

(* The inductive invariant: type correctness and what a request has done.  *)
WebInv == WebTypeOK /\ FactsAccounted

RequestStates == Working \cup {NoRequest}
Kept == inIndex \cup deadLetters

LEMMA RequestFields ==
  ASSUME NEW r \in RequestStates
  PROVE  /\ r = NoRequest <=> r.at = "idle"
         /\ r # NoRequest =>
              /\ r \in Working /\ r.body \in Body /\ r.next \in Nat \ {0}
              /\ r.at \in {"record", "count", "persist", "clear"}
              /\ r.failed \in BOOLEAN /\ r.live \in BOOLEAN
BY SMT DEF Working, NoRequest, RequestStates

LEMMA RecordsOf ==
  ASSUME NEW b \in Body
  PROVE  /\ Records[b] \in Seq(Event) /\ Len(Records[b]) \in Nat
         /\ DOMAIN Records[b] = 1..Len(Records[b])
         /\ \A i \in DOMAIN Records[b] : Records[b][i] \in Event
         /\ Whole(b) => DOMAIN Records[b] = {}
BY WebAssumption, SMT DEF Whole

(* What is accounted for stays so when more facts are kept.                *)
LEMMA AccountedStays ==
  ASSUME NEW s, NEW K, NEW L, K \subseteq L, Accounted(s, K)
  PROVE  Accounted(s, L)
BY DEF Accounted

(* The request of h goes to r, the others stay, and facts are only added.  *)
LEMMA RequestStep ==
  ASSUME WebInv, NEW h \in Handler, NEW r \in RequestStates,
         serving' = [serving EXCEPT ![h] = r],
         Kept \subseteq Kept', r # NoRequest => Accounted(r, Kept')
  PROVE  /\ serving' \in [Handler -> RequestStates] /\ serving'[h] = r
         /\ \A g \in Handler \ {h} : serving'[g] = serving[g]
         /\ FactsAccounted'
<1>1. serving \in [Handler -> RequestStates] BY DEF WebInv, WebTypeOK, RequestStates
<1>2. /\ serving' \in [Handler -> RequestStates] /\ serving'[h] = r
      /\ \A g \in Handler \ {h} : serving'[g] = serving[g]
  BY <1>1
<1>3. \A g \in Handler \ {h} : serving[g] # NoRequest => Accounted(serving[g], Kept')
  BY AccountedStays DEF WebInv, FactsAccounted, Kept
<1> QED BY <1>2, <1>3 DEF FactsAccounted, Kept


(* A step of the request of h that leaves the store's queue alone and      *)
(* does not change what the store waits for.                               *)
LEMMA HandlerTypeOK ==
  ASSUME WebInv, NEW h \in Handler, NEW r \in Working, serving[h] # NoRequest,
         serving' = [serving EXCEPT ![h] = r],
         r.body = serving[h].body, r.live => serving[h].live,
         Kept \subseteq Kept', Accounted(r, Kept'),
         UNCHANGED <<outbox, unsent>>,
         failCount' \in [Event -> 0..(FailLimit + 1)],
         inIndex' \subseteq Event, deadLetters' \subseteq Event \cup Body
  PROVE  WebInv'
<1>1. /\ serving' \in [Handler -> RequestStates] /\ serving'[h] = r
      /\ \A g \in Handler \ {h} : serving'[g] = serving[g]
      /\ FactsAccounted'
  BY RequestStep DEF RequestStates
<1>2. \A g \in Handler : Waiting(g)' => Waiting(g) /\ serving'[g].body = serving[g].body
  BY <1>1 DEF Waiting
<1>3. \A g \in Handler : serving'[g].at \in {"count", "clear"} =>
        serving'[g].next \in DOMAIN Records[serving'[g].body]
  <2> TAKE g \in Handler
  <2>1. CASE g # h BY <2>1, <1>1 DEF WebInv, WebTypeOK
  <2>2. CASE g = h BY <2>2, <1>1 DEF Accounted
  <2> QED BY <2>1, <2>2
<1>4. \A g \in Handler : Waiting(g)' => outbox' # <<>> /\ serving'[g].body = Head(outbox')
  BY <1>2 DEF WebInv, WebTypeOK
<1>5. \A f, g \in Handler : Waiting(f)' /\ Waiting(g)' => f = g
  BY <1>2 DEF WebInv, WebTypeOK
<1>6. outbox' \in Seq(Body) /\ unsent' \subseteq Body
  BY DEF WebInv, WebTypeOK
<1> QED BY <1>1, <1>3, <1>4, <1>5, <1>6 DEF WebInv, WebTypeOK, RequestStates

(* The request of h goes on with the next record.                          *)
LEMMA NextRecordType ==
  ASSUME NEW r \in Working, NEW retry \in BOOLEAN
  PROVE  LET q == Advanced(r, retry) IN
         /\ q \in Working /\ q.body = r.body /\ q.live = r.live /\ q.at = "record"
         /\ q.next = r.next + 1 /\ q.failed = (IF retry THEN TRUE ELSE r.failed)
<1> DEFINE q == Advanced(r, retry)
<1>1. /\ q.body = r.body /\ q.live = r.live /\ q.at = "record" /\ q.next = r.next + 1
  BY DEF Working, Advanced
<1>2. q.failed = IF retry THEN TRUE ELSE r.failed
  BY DEF Working, Advanced
<1>3. q \in Working
  <2>1. r.next + 1 \in Nat \ {0} BY SMT DEF Working
  <2>2. CASE retry
    <3>1. q = [r EXCEPT !.at = "record", !.next = r.next + 1, !.failed = TRUE]
      BY <2>2 DEF Advanced
    <3> QED BY <2>1, <3>1 DEF Working
  <2>3. CASE ~retry
    <3>1. q = [r EXCEPT !.at = "record", !.next = r.next + 1, !.failed = r.failed]
      BY <2>3 DEF Advanced
    <3>2. r.failed \in BOOLEAN BY DEF Working
    <3> HIDE DEF q
    <3> QED BY <2>1, <3>1, <3>2 DEF Working
  <2> QED BY <2>2, <2>3
<1> QED BY <1>1, <1>2, <1>3

LEMMA AtType ==
  ASSUME NEW r \in Working, NEW at \in {"record", "count", "persist", "clear"},
         NEW q, q = [r EXCEPT !.at = at]
  PROVE  /\ q \in Working /\ q.body = r.body /\ q.live = r.live /\ q.at = at
         /\ q.next = r.next /\ q.failed = r.failed
BY DEF Working

LEMMA NextRecordAccounted ==
  ASSUME NEW K, NEW r \in Working, NEW retry \in BOOLEAN,
         Accounted(r, K),
         retry \/ IF Whole(r.body) THEN r.body \in K
                  ELSE r.next \in DOMAIN Records[r.body] => Records[r.body][r.next] \in K \cup Ignored
  PROVE  Accounted(Advanced(r, retry), K)
<1> DEFINE q == Advanced(r, retry)
<1>1. /\ q \in Working /\ q.body = r.body /\ q.at = "record"
      /\ q.next = r.next + 1 /\ q.failed = (IF retry THEN TRUE ELSE r.failed)
  BY NextRecordType
<1>2. CASE Whole(r.body) BY <1>1, <1>2 DEF Accounted
<1>3. CASE ~Whole(r.body)
  <2>1. ASSUME ~q.failed, NEW i \in DOMAIN Records[q.body], i < q.next
        PROVE  Records[q.body][i] \in K \cup Ignored
    <3>1. ~r.failed /\ ~retry BY <1>1, <2>1
    <3>2. r.next \in Nat /\ r.body \in Body BY DEF Working
    <3>3. i \in Nat BY <1>1, <2>1, <3>2, RecordsOf, SMT
    <3>4. i < r.next \/ i = r.next BY <1>1, <2>1, <3>2, <3>3, SMT
    <3> QED BY <1>1, <1>3, <2>1, <3>1, <3>4 DEF Accounted
  <2> QED BY <1>1, <1>3, <2>1 DEF Accounted
<1> QED BY <1>2, <1>3

(* NextRecord, taken by the request of h at a point where it has kept what *)
(* it leaves behind, or asks for redelivery.                               *)
LEMMA NextRecordStep ==
  ASSUME WebInv, NEW h \in Handler, serving[h] # NoRequest,
         NEW retry \in BOOLEAN, NextRecord(h, retry), Kept \subseteq Kept',
         retry \/ IF Whole(serving[h].body) THEN serving[h].body \in Kept'
                  ELSE serving[h].next \in DOMAIN Records[serving[h].body] =>
                         Record(h) \in Kept' \cup Ignored,
         UNCHANGED <<outbox, unsent>>,
         failCount' \in [Event -> 0..(FailLimit + 1)],
         inIndex' \subseteq Event, deadLetters' \subseteq Event \cup Body
  PROVE  WebInv'
<1> DEFINE r == serving[h]
           q == Advanced(r, retry)
<1>1. r \in Working BY RequestFields DEF WebInv, WebTypeOK, RequestStates
<1>2. serving' = [serving EXCEPT ![h] = q] BY DEF NextRecord
<1>3. Accounted(r, Kept') BY AccountedStays DEF WebInv, FactsAccounted, Kept
<1>4. q \in Working /\ q.body = r.body /\ q.live = r.live
  <2> HIDE DEF r
  <2> QED BY <1>1, NextRecordType
<1>5. retry \/ IF Whole(r.body) THEN r.body \in Kept'
               ELSE r.next \in DOMAIN Records[r.body] => Records[r.body][r.next] \in Kept' \cup Ignored
  BY DEF Record
<1>6. Accounted(q, Kept')
  <2> HIDE DEF r
  <2> QED BY <1>1, <1>3, <1>5, NextRecordAccounted
<1> HIDE DEF q
<1> QED BY <1>2, <1>4, <1>6, HandlerTypeOK

(* The request of h goes to another point of the same record.              *)
LEMMA GotoStep ==
  ASSUME WebInv, NEW h \in Handler, serving[h] # NoRequest, ~Whole(serving[h].body),
         serving[h].next \in DOMAIN Records[serving[h].body],
         NEW at \in {"count", "persist", "clear"},
         serving' = [serving EXCEPT ![h].at = at], Kept \subseteq Kept',
         at = "clear" => Record(h) \in Kept' \cup Ignored,
         at # "clear" => Record(h) \notin Ignored,
         UNCHANGED <<outbox, unsent>>,
         failCount' \in [Event -> 0..(FailLimit + 1)],
         inIndex' \subseteq Event, deadLetters' \subseteq Event \cup Body
  PROVE  WebInv'
<1> DEFINE r == serving[h]
           q == [r EXCEPT !.at = at]
<1>1. r \in Working BY RequestFields DEF WebInv, WebTypeOK, RequestStates
<1>2. serving' = [serving EXCEPT ![h] = q] BY DEF WebInv, WebTypeOK
<1>3. Accounted(r, Kept') BY AccountedStays DEF WebInv, FactsAccounted, Kept
<1>4. q \in Working /\ q.body = r.body /\ q.live = r.live /\ q.at = at
      /\ q.next = r.next /\ q.failed = r.failed
  <2> HIDE DEF r
  <2> QED BY <1>1, AtType, SMT
<1>5. Accounted(q, Kept') BY <1>3, <1>4 DEF Accounted, Record
<1> HIDE DEF q
<1> QED BY <1>2, <1>4, <1>5, HandlerTypeOK

LEMMA CountsType ==
  ASSUME failCount \in [Event -> 0..(FailLimit + 1)], NEW e \in Event
  PROVE  /\ [failCount EXCEPT ![e] = 0] \in [Event -> 0..(FailLimit + 1)]
         /\ [failCount EXCEPT ![e] = Bumped(@)] \in [Event -> 0..(FailLimit + 1)]
BY WebAssumption, SMT DEF Bumped

(* A request at one of the points of the handler.                          *)
LEMMA RequestAt ==
  ASSUME WebInv, NEW h \in Handler, serving[h].at # "idle"
  PROVE  /\ serving[h] # NoRequest /\ serving[h] \in Working /\ serving[h].body \in Body
         /\ Accounted(serving[h], Kept)
         /\ serving[h].next \in DOMAIN Records[serving[h].body] => Record(h) \in Event
<1>1. serving[h] \in RequestStates BY DEF WebInv, WebTypeOK, RequestStates
<1>2. serving[h] # NoRequest /\ serving[h] \in Working /\ serving[h].body \in Body
  BY <1>1, RequestFields
<1> QED BY <1>2, RecordsOf DEF WebInv, FactsAccounted, Kept, Record

LEMMA AtRecordFacts ==
  ASSUME WebInv, NEW h \in Handler, AtRecord(h)
  PROVE  ~Whole(serving[h].body) /\ serving[h].next \in DOMAIN Records[serving[h].body]
<1>1. serving[h].at # "idle" BY DEF AtRecord
<1>2. serving[h] \in Working /\ serving[h].body \in Body BY <1>1, RequestAt
<1>3. serving[h].next \in Nat \ {0} BY <1>2 DEF Working
<1> QED BY <1>2, <1>3, RecordsOf, SMT DEF AtRecord

LEMMA InvInit == WebInit => WebInv
BY WebAssumption, SMT DEF WebInit, WebInv, WebTypeOK, FactsAccounted, Waiting, NoRequest

(* Every step of the webhook keeps the invariant.                          *)
LEMMA InvStep == WebInv /\ [WebNext]_webVars => WebInv'
<1> SUFFICES ASSUME WebInv, [WebNext]_webVars PROVE WebInv'
  OBVIOUS
<1>0. /\ failCount \in [Event -> 0..(FailLimit + 1)]
      /\ inIndex \subseteq Event /\ deadLetters \subseteq Event \cup Body
  BY DEF WebInv, WebTypeOK
<1>1. ASSUME NEW b \in Body, Notify(b) PROVE WebInv'
  <2>1. outbox \in Seq(Body) /\ outbox' = Append(outbox, b) BY <1>1 DEF Notify, WebInv, WebTypeOK
  <2>2. outbox' \in Seq(Body) /\ (outbox # <<>> => outbox' # <<>> /\ Head(outbox') = Head(outbox))
    BY <2>1, SMT
  <2>3. \A h \in Handler : Waiting(h)' <=> Waiting(h) BY <1>1 DEF Notify, Waiting
  <2>4. FactsAccounted' BY <1>1 DEF WebInv, FactsAccounted, Notify
  <2> QED BY <1>1, <2>2, <2>3, <2>4 DEF Notify, WebInv, WebTypeOK
<1>2. ASSUME NEW h \in Handler, Post(h) PROVE WebInv'
  <2> DEFINE b == Head(outbox)
             r == [at |-> IF Whole(b) THEN "persist" ELSE "record",
                   body |-> b, next |-> 1, failed |-> FALSE, live |-> TRUE]
  <2>1. b \in Body BY <1>2, SMT DEF Post, WebInv, WebTypeOK
  <2>2. r \in Working BY <2>1, SMT DEF Working
  <2>3. Accounted(r, Kept') BY <2>1, RecordsOf, SMT DEF Accounted
  <2>4. serving' = [serving EXCEPT ![h] = r] /\ Kept \subseteq Kept'
    BY <1>2 DEF Post, Kept
  <2>5. r.live /\ r.body = b /\ r # NoRequest /\ r.at \notin {"count", "clear"}
    BY DEF NoRequest
  <2> HIDE DEF r
  <2>6. /\ serving' \in [Handler -> RequestStates] /\ serving'[h] = r
        /\ \A g \in Handler \ {h} : serving'[g] = serving[g]
        /\ FactsAccounted'
    BY <2>2, <2>3, <2>4, RequestStep DEF RequestStates
  <2>7. \A g \in Handler : Waiting(g)' => g = h
    BY <1>2, <2>6 DEF Post, Waiting
  <2>8. \A g \in Handler : serving'[g].at \in {"count", "clear"} =>
          serving'[g].next \in DOMAIN Records[serving'[g].body]
    BY <2>5, <2>6 DEF WebInv, WebTypeOK
  <2>9. \A g \in Handler : Waiting(g)' => outbox' # <<>> /\ serving'[g].body = Head(outbox')
    BY <1>2, <2>5, <2>6, <2>7 DEF Post
  <2> QED BY <1>2, <2>6, <2>7, <2>8, <2>9 DEF Post, WebInv, WebTypeOK, RequestStates
<1>3. ASSUME NEW h \in Handler, StoreGivesUp(h) PROVE WebInv'
  <2> DEFINE r == [serving[h] EXCEPT !.live = FALSE]
  <2>1. serving[h] # NoRequest /\ serving[h] \in Working /\ Accounted(serving[h], Kept)
    BY <1>3, RequestFields DEF StoreGivesUp, Waiting, WebInv, WebTypeOK, FactsAccounted, Kept, RequestStates
  <2>2. /\ r \in Working /\ r.body = serving[h].body /\ r.at = serving[h].at /\ ~r.live
        /\ r.next = serving[h].next /\ r.failed = serving[h].failed
    BY <2>1 DEF Working
  <2>3. serving' = [serving EXCEPT ![h] = r] BY <1>3 DEF StoreGivesUp
  <2>4. Kept' = Kept BY <1>3 DEF StoreGivesUp, Kept
  <2> HIDE DEF r
  <2>5. Accounted(r, Kept') BY <2>1, <2>2, <2>4 DEF Accounted
  <2> QED BY <1>0, <1>3, <2>1, <2>2, <2>3, <2>4, <2>5, HandlerTypeOK DEF StoreGivesUp
<1>4. ASSUME NEW h \in Handler, SkipRecord(h) PROVE WebInv'
  <2>1. serving[h].at # "idle" /\ Kept' = Kept BY <1>4 DEF SkipRecord, AtRecord, Kept
  <2>2. serving[h] # NoRequest BY <2>1, RequestAt
  <2>3. ~Whole(serving[h].body) /\ serving[h].next \in DOMAIN Records[serving[h].body]
    BY <1>4, AtRecordFacts DEF SkipRecord
  <2> QED BY <1>0, <1>4, <2>1, <2>2, <2>3, GotoStep DEF SkipRecord
<1>5. ASSUME NEW h \in Handler, ApplyRecord(h) PROVE WebInv'
  <2>1. serving[h].at # "idle" /\ Kept \subseteq Kept' /\ Record(h) \in Kept'
    BY <1>5 DEF ApplyRecord, AtRecord, Kept
  <2>2. ~Whole(serving[h].body) /\ serving[h].next \in DOMAIN Records[serving[h].body]
    BY <1>5, AtRecordFacts DEF ApplyRecord
  <2>3. serving[h] # NoRequest /\ Record(h) \in Event BY <2>1, <2>2, RequestAt
  <2>4. inIndex' \subseteq Event BY <1>0, <1>5, <2>3 DEF ApplyRecord
  <2> QED BY <1>0, <1>5, <2>1, <2>2, <2>3, <2>4, GotoStep DEF ApplyRecord
<1>6. ASSUME NEW h \in Handler, RecordFails(h) PROVE WebInv'
  <2>1. serving[h].at # "idle" /\ Kept' = Kept BY <1>6 DEF RecordFails, AtRecord, Kept
  <2>2. serving[h] # NoRequest BY <2>1, RequestAt
  <2>3. ~Whole(serving[h].body) /\ serving[h].next \in DOMAIN Records[serving[h].body]
    BY <1>6, AtRecordFacts DEF RecordFails
  <2> QED BY <1>0, <1>6, <2>1, <2>2, <2>3, GotoStep DEF RecordFails
<1>7. ASSUME NEW h \in Handler, IncrFailCount(h) PROVE WebInv'
  <2>1. serving[h].at = "count" /\ Kept' = Kept BY <1>7 DEF IncrFailCount, Kept
  <2>2. serving[h] # NoRequest /\ Accounted(serving[h], Kept) BY <2>1, RequestAt
  <2>3. /\ ~Whole(serving[h].body) /\ serving[h].next \in DOMAIN Records[serving[h].body]
        /\ Record(h) \notin Ignored
    BY <2>1, <2>2 DEF Accounted, Record
  <2>4. Record(h) \in Event BY <2>1, <2>3, RequestAt
  <2>5. failCount' \in [Event -> 0..(FailLimit + 1)]
    BY <1>0, <1>7, <2>4, CountsType DEF IncrFailCount
  <2>6. CASE serving' = [serving EXCEPT ![h].at = "persist"]
    BY <1>0, <1>7, <2>1, <2>2, <2>3, <2>5, <2>6, GotoStep DEF IncrFailCount
  <2>7. CASE NextRecord(h, TRUE)
    BY <1>0, <1>7, <2>1, <2>2, <2>5, <2>7, NextRecordStep DEF IncrFailCount
  <2> QED BY <1>7, <2>6, <2>7 DEF IncrFailCount
<1>8. ASSUME NEW h \in Handler, CounterUnavailable(h) PROVE WebInv'
  <2>1. serving[h].at = "count" /\ Kept' = Kept BY <1>8 DEF CounterUnavailable, Kept
  <2>2. serving[h] # NoRequest BY <2>1, RequestAt
  <2> QED BY <1>0, <1>8, <2>1, <2>2, NextRecordStep DEF CounterUnavailable
<1>9. ASSUME NEW h \in Handler, PersistFails(h) PROVE WebInv'
  <2>1. serving[h].at = "persist" /\ Kept' = Kept BY <1>9 DEF PersistFails, Kept
  <2>2. serving[h] # NoRequest BY <2>1, RequestAt
  <2> QED BY <1>0, <1>9, <2>1, <2>2, NextRecordStep DEF PersistFails
<1>10. ASSUME NEW h \in Handler, PersistDeadLetter(h) PROVE WebInv'
  <2>1. /\ serving[h].at = "persist" /\ Kept \subseteq Kept' /\ DedupKey(h) \in Kept'
    BY <1>10 DEF PersistDeadLetter, UpsertDeadLetter, Kept
  <2>2. /\ serving[h] # NoRequest /\ Accounted(serving[h], Kept)
        /\ serving[h].body \in Body
    BY <2>1, RequestAt
  <2>3. CASE Whole(serving[h].body)
    <3>1. DedupKey(h) = serving[h].body BY <2>3 DEF DedupKey
    <3>2. deadLetters' \subseteq Event \cup Body
      BY <1>0, <1>10, <2>2, <3>1 DEF PersistDeadLetter, UpsertDeadLetter
    <3>3. NextRecord(h, serving[h].body \in Oversized)
      BY <1>10, <2>3 DEF PersistDeadLetter
    <3>4. CASE serving[h].body \in Oversized
      <4>1. NextRecord(h, TRUE) BY <3>3, <3>4 DEF NextRecord, Advanced
      <4> QED BY <1>0, <1>10, <2>1, <2>2, <3>2, <4>1, NextRecordStep DEF PersistDeadLetter
    <3>5. CASE serving[h].body \notin Oversized
      <4>1. NextRecord(h, FALSE) BY <3>3, <3>5 DEF NextRecord, Advanced
      <4> QED BY <1>0, <1>10, <2>1, <2>2, <2>3, <3>1, <3>2, <4>1, NextRecordStep
              DEF PersistDeadLetter
    <3> QED BY <3>4, <3>5
  <2>4. CASE ~Whole(serving[h].body)
    <3>1. DedupKey(h) = Record(h) BY <2>4 DEF DedupKey
    <3>2. serving[h].next \in DOMAIN Records[serving[h].body]
      BY <2>1, <2>2, <2>4 DEF Accounted
    <3>3. Record(h) \in Event BY <2>1, <3>2, RequestAt
    <3>4. deadLetters' \subseteq Event \cup Body
      BY <1>0, <1>10, <3>1, <3>3 DEF PersistDeadLetter, UpsertDeadLetter
    <3>5. serving' = [serving EXCEPT ![h].at = "clear"] BY <1>10, <2>4 DEF PersistDeadLetter
    <3> QED BY <1>0, <1>10, <2>1, <2>2, <2>4, <3>1, <3>2, <3>4, <3>5, GotoStep
            DEF PersistDeadLetter
  <2> QED BY <2>3, <2>4
<1>11. ASSUME NEW h \in Handler, ClearFailCount(h) \/ ClearFails(h) PROVE WebInv'
  <2>1. serving[h].at = "clear" /\ Kept' = Kept /\ NextRecord(h, FALSE)
    BY <1>11 DEF ClearFailCount, ClearFails, Kept
  <2>2. serving[h] # NoRequest /\ Accounted(serving[h], Kept) BY <2>1, RequestAt
  <2>3. /\ ~Whole(serving[h].body) /\ serving[h].next \in DOMAIN Records[serving[h].body]
        /\ Record(h) \in Kept \cup Ignored
    BY <2>1, <2>2 DEF Accounted, Record
  <2>4. Record(h) \in Event BY <2>1, <2>3, RequestAt
  <2>5. failCount' \in [Event -> 0..(FailLimit + 1)]
    BY <1>0, <1>11, <2>4, CountsType DEF ClearFailCount, ClearFails
  <2>6. UNCHANGED <<outbox, unsent, inIndex, deadLetters>>
    BY <1>11 DEF ClearFailCount, ClearFails
  <2> QED BY <1>0, <2>1, <2>2, <2>3, <2>5, <2>6, NextRecordStep
<1>12. ASSUME NEW h \in Handler, Respond(h) PROVE WebInv'
  <2>1. serving' = [serving EXCEPT ![h] = NoRequest] /\ Kept \subseteq Kept'
    BY <1>12 DEF Respond, Kept
  <2>2. /\ serving' \in [Handler -> RequestStates] /\ serving'[h] = NoRequest
        /\ \A g \in Handler \ {h} : serving'[g] = serving[g]
        /\ FactsAccounted'
    BY <2>1, RequestStep DEF RequestStates
  <2>3. serving[h] # NoRequest BY <1>12, RequestAt DEF Respond, RecordsDone
  <2>4. outbox' \in Seq(Body)
    <3>1. serving[h].live /\ ~serving[h].failed => outbox # <<>> BY <2>3 DEF WebInv, WebTypeOK, Waiting
    <3> QED BY <1>12, <3>1, SMT DEF Respond, WebInv, WebTypeOK
  <2>5. \A g \in Handler : Waiting(g)' => g # h /\ Waiting(g) BY <2>2 DEF Waiting
  <2>6. ASSUME NEW g \in Handler, Waiting(g)' PROVE outbox' = outbox
    <3>1. ~serving[h].live BY <2>3, <2>5, <2>6 DEF WebInv, WebTypeOK, Waiting
    <3> QED BY <1>12, <3>1 DEF Respond
  <2>7. \A g \in Handler : Waiting(g)' => outbox' # <<>> /\ serving'[g].body = Head(outbox')
    BY <2>2, <2>5, <2>6 DEF WebInv, WebTypeOK
  <2>8. \A g \in Handler : serving'[g].at \in {"count", "clear"} =>
          serving'[g].next \in DOMAIN Records[serving'[g].body]
    BY <2>2, SMT DEF WebInv, WebTypeOK, NoRequest
  <2> QED BY <1>12, <2>2, <2>4, <2>5, <2>7, <2>8 DEF Respond, WebInv, WebTypeOK, RequestStates
<1>13. CASE WebCrash
  <2>1. \A g \in Handler : serving'[g] = NoRequest BY <1>13 DEF WebCrash
  <2>2. serving' \in [Handler -> Working \cup {NoRequest}] BY <1>13 DEF WebCrash
  <2> QED BY <1>13, <2>1, <2>2
          DEF WebCrash, WebInv, WebTypeOK, FactsAccounted, Waiting, NoRequest
<1>14. ASSUME NEW e \in Event, SweepStale(e) PROVE WebInv'
  <2>1. failCount' \in [Event -> 0..(FailLimit + 1)] BY <1>0, <1>14, CountsType DEF SweepStale
  <2> QED BY <1>14, <2>1 DEF SweepStale, WebInv, WebTypeOK, FactsAccounted, Waiting
<1>15. CASE UNCHANGED webVars
  BY <1>15 DEF webVars, WebInv, WebTypeOK, FactsAccounted, Waiting
<1> QED BY <1>1, <1>2, <1>3, <1>4, <1>5, <1>6, <1>7, <1>8, <1>9, <1>10, <1>11, <1>12,
           <1>13, <1>14, <1>15 DEF WebNext, HandlerStep

(* The invariant holds throughout.                                         *)
LEMMA InvHolds == WebSpec => []WebInv
<1>1. WebInit => WebInv BY InvInit
<1>2. WebInv /\ [WebNext]_webVars => WebInv' BY InvStep
<1> QED BY <1>1, <1>2, PTL DEF WebSpec

(* Type correctness of the webhook, whatever fails: in particular a        *)
(* handler at a database call has a record, and the only answer the store  *)
(* waits for is that of the head of its queue.                             *)
THEOREM WebTypeCorrect == WebSpec => []WebTypeOK
BY InvHolds, PTL DEF WebInv

(* A request that would answer 200 has left no fact behind.                *)
THEOREM RequestsAccount == WebSpec => []FactsAccounted
BY InvHolds, PTL DEF WebInv

(* What a fact of a notification is, seen from the abstract queue.         *)
LEMMA AbstractFacts ==
  ASSUME NEW b \in Body
  PROVE  /\ [c \in Body |-> FactsOf(c)][b] = FactsOf(b)
         /\ Whole(b) => b \in FactsOf(b)
         /\ \A i \in DOMAIN Records[b] :
              ~Whole(b) /\ Records[b][i] \notin Ignored => Records[b][i] \in FactsOf(b)
BY DEF FactsOf

(* A request that is done and asks for no redelivery has its facts kept.   *)
LEMMA DoneIsKept ==
  ASSUME WebInv, NEW h \in Handler, RecordsDone(h), ~serving[h].failed
  PROVE  FactsOf(serving[h].body) \subseteq Kept
<1>1. serving[h].at # "idle" BY DEF RecordsDone
<1>2. serving[h].body \in Body /\ Accounted(serving[h], Kept) /\ serving[h] \in Working
  BY <1>1, RequestAt
<1>3. CASE Whole(serving[h].body)
  BY <1>2, <1>3 DEF RecordsDone, FactsOf, Accounted
<1>4. CASE ~Whole(serving[h].body)
  <2>1. ASSUME NEW i \in DOMAIN Records[serving[h].body] PROVE i < serving[h].next
    <3>1. serving[h].next \in Nat BY <1>2 DEF Working
    <3> QED BY <1>2, <2>1, <3>1, RecordsOf, SMT DEF RecordsDone
  <2> QED BY <1>2, <1>4, <2>1 DEF FactsOf, Accounted
<1> QED BY <1>3, <1>4

(* Every step of the webhook is a step of the notification queue, or none. *)
LEMMA QueueStep ==
  WebInv /\ [WebNext]_webVars => [Queue!AbsNext]_(Queue!absVars)
<1> SUFFICES ASSUME WebInv, [WebNext]_webVars
             PROVE  Queue!AbsNext \/ UNCHANGED <<outbox, inIndex \cup deadLetters>>
  BY DEF Queue!absVars
<1>1. ASSUME NEW b \in Body, Notify(b) PROVE Queue!Arrive
  BY <1>1 DEF Notify, Queue!Arrive
<1>2. ASSUME NEW h \in Handler, ApplyRecord(h) PROVE Queue!Keep
  <2>1. serving[h].at # "idle" BY <1>2 DEF ApplyRecord, AtRecord
  <2>2. /\ ~Whole(serving[h].body) /\ serving[h].next \in DOMAIN Records[serving[h].body]
        /\ serving[h].body \in Body
    BY <1>2, <2>1, AtRecordFacts, RequestAt DEF ApplyRecord
  <2>3. Record(h) \in [c \in Body |-> FactsOf(c)][serving[h].body]
    BY <1>2, <2>2, AbstractFacts DEF ApplyRecord, Record
  <2>4. (inIndex \cup deadLetters)' = (inIndex \cup deadLetters) \cup {Record(h)}
    BY <1>2 DEF ApplyRecord
  <2> QED BY <1>2, <2>2, <2>3, <2>4 DEF ApplyRecord, Queue!Keep
<1>3. ASSUME NEW h \in Handler, PersistDeadLetter(h) PROVE Queue!Keep
  <2>1. serving[h].at = "persist" BY <1>3 DEF PersistDeadLetter
  <2>2. serving[h].body \in Body /\ Accounted(serving[h], Kept) BY <2>1, RequestAt
  <2>3. DedupKey(h) \in [c \in Body |-> FactsOf(c)][serving[h].body]
    BY <2>1, <2>2, AbstractFacts DEF DedupKey, Accounted, Record
  <2>4. (inIndex \cup deadLetters)' = (inIndex \cup deadLetters) \cup {DedupKey(h)}
    BY <1>3 DEF PersistDeadLetter, UpsertDeadLetter
  <2> QED BY <1>3, <2>2, <2>3, <2>4 DEF PersistDeadLetter, Queue!Keep
<1>4. ASSUME NEW h \in Handler, Respond(h), outbox' # outbox PROVE Queue!Release
  <2>1. RecordsDone(h) /\ serving[h].live /\ ~serving[h].failed /\ outbox' = Tail(outbox)
    BY <1>4 DEF Respond
  <2>2. serving[h] # NoRequest /\ serving[h].body \in Body
    BY <2>1, RequestAt DEF RecordsDone
  <2>3. outbox # <<>> /\ serving[h].body = Head(outbox)
    BY <2>1, <2>2 DEF WebInv, WebTypeOK, Waiting
  <2>4. [c \in Body |-> FactsOf(c)][Head(outbox)] \subseteq inIndex \cup deadLetters
    BY <2>1, <2>2, <2>3, DoneIsKept, AbstractFacts DEF Kept
  <2> QED BY <1>4, <2>1, <2>3, <2>4 DEF Respond, Queue!Release
<1>5. ASSUME NEW h \in Handler, \/ Post(h) \/ StoreGivesUp(h) \/ SkipRecord(h) \/ RecordFails(h)
                                \/ IncrFailCount(h) \/ CounterUnavailable(h) \/ PersistFails(h)
                                \/ ClearFailCount(h) \/ ClearFails(h)
      PROVE  UNCHANGED <<outbox, inIndex \cup deadLetters>>
  BY <1>5 DEF Post, StoreGivesUp, SkipRecord, RecordFails, IncrFailCount, CounterUnavailable,
              PersistFails, ClearFailCount, ClearFails
<1>6. ASSUME NEW h \in Handler, Respond(h) PROVE UNCHANGED (inIndex \cup deadLetters)
  BY <1>6 DEF Respond
<1>7. ASSUME WebCrash \/ (\E e \in Event : SweepStale(e)) \/ UNCHANGED webVars
      PROVE  UNCHANGED <<outbox, inIndex \cup deadLetters>>
  BY <1>7 DEF WebCrash, SweepStale, webVars
<1> QED BY <1>1, <1>2, <1>3, <1>4, <1>5, <1>6, <1>7 DEF WebNext, HandlerStep, Queue!AbsNext

(* The webhook implements the notification queue: under crashes, failing   *)
(* statements, abandoned requests and any number of requests at once, a    *)
(* notification leaves the store's queue only from its head and only once  *)
(* each of its facts is in the index or dead-lettered.                     *)
THEOREM WebhookImplementsQueue == WebSpec => NeverLostSilently
<1>1. WebInit => Queue!AbsInit BY DEF WebInit, Queue!AbsInit
<1>2. WebInv /\ [WebNext]_webVars => [Queue!AbsNext]_(Queue!absVars) BY QueueStep
<1> QED BY <1>1, <1>2, InvHolds, PTL DEF WebSpec, NeverLostSilently, Queue!AbsSpec

(* A failure counter goes down only after a durable verdict on its record, *)
(* or by the stale sweep when no notification in the queue carries it.     *)
THEOREM SeriesIsMonotonic == WebSpec => SeriesMonotonic
<1> DEFINE Verdict(e) == \/ e \in inIndex \cup deadLetters \cup Ignored
                         \/ \A i \in DOMAIN outbox : e \notin FactsOf(outbox[i])
           Justified == \A e \in Event : failCount'[e] < failCount[e] => Verdict(e)
<1>1. WebInv /\ [WebNext]_webVars => Justified \/ UNCHANGED webVars
  <2> SUFFICES ASSUME WebInv, WebNext PROVE Justified
    OBVIOUS
  <2>0. failCount \in [Event -> 0..(FailLimit + 1)] /\ FailLimit \in Nat
    BY WebAssumption DEF WebInv, WebTypeOK
  <2>1. CASE failCount' = failCount BY <2>0, <2>1, SMT
  <2>2. ASSUME NEW h \in Handler, IncrFailCount(h) PROVE Justified
    BY <2>0, <2>2, SMT DEF IncrFailCount, Bumped
  <2>3. ASSUME NEW h \in Handler, ClearFailCount(h) PROVE Justified
    <3>1. serving[h].at = "clear" BY <2>3 DEF ClearFailCount
    <3>2. Accounted(serving[h], Kept) BY <3>1, RequestAt
    <3>3. Verdict(Record(h)) BY <3>1, <3>2 DEF Accounted, Kept, Record
    <3>4. \A e \in Event : e # Record(h) => failCount'[e] = failCount[e]
      BY <2>0, <2>3 DEF ClearFailCount
    <3> QED BY <2>0, <3>3, <3>4, SMT
  <2>4. ASSUME NEW e \in Event, SweepStale(e) PROVE Justified
    <3>1. Verdict(e) BY <2>4 DEF SweepStale
    <3>2. \A f \in Event : f # e => failCount'[f] = failCount[f] BY <2>0, <2>4 DEF SweepStale
    <3> QED BY <2>0, <3>1, <3>2, SMT
  <2>5. ASSUME NEW h \in Handler, \/ Post(h) \/ StoreGivesUp(h) \/ SkipRecord(h) \/ ApplyRecord(h)
                                  \/ RecordFails(h) \/ CounterUnavailable(h) \/ PersistFails(h)
                                  \/ PersistDeadLetter(h) \/ ClearFails(h) \/ Respond(h)
        PROVE  failCount' = failCount
    BY <2>5 DEF Post, StoreGivesUp, SkipRecord, ApplyRecord, RecordFails, CounterUnavailable,
                PersistFails, PersistDeadLetter, ClearFails, Respond
  <2>6. ASSUME WebCrash \/ \E b \in Body : Notify(b) PROVE failCount' = failCount
    BY <2>6 DEF WebCrash, Notify
  <2> HIDE DEF Justified
  <2> QED BY <2>1, <2>2, <2>3, <2>4, <2>5, <2>6 DEF WebNext, HandlerStep
<1>2. WebInv /\ [WebNext]_webVars =>
        [\A e \in Event : failCount'[e] < failCount[e] =>
           \/ e \in inIndex \cup deadLetters \cup Ignored
           \/ \A i \in DOMAIN outbox : e \notin FactsOf(outbox[i])]_webVars
  BY <1>1
<1> QED BY <1>2, InvHolds, PTL DEF WebSpec, SeriesMonotonic

-----------------------------------------------------------------------------
(* FileIndex.                                                               *)

(* What the row's state rests on: the event with the row's sequencer, or a  *)
(* report that landed at the row's observation.  A report that was not late *)
(* covers every change that came before it and every event applied since.   *)
FromEvent ==
  /\ entry.seq \in DOMAIN changes /\ entry.observed = changes[entry.seq].at
  /\ IF changes[entry.seq].kind = "removed" THEN entry.status = "deleted"
     ELSE entry.status = "completed" /\ entry.content = entry.seq

Covers(r) ==
  /\ entry.content \in DOMAIN changes /\ changes[entry.content].kind = "created"
  /\ \A i \in DOMAIN changes : i > entry.content => changes[i].at >= r.at
  /\ \A n \in delivered : n <= entry.content

FromReport ==
  /\ entry.seq = NoSeq /\ entry.status = "completed"
  /\ \E r \in landings : r.at = entry.observed /\ (r.late \/ Covers(r))

(* An event that was applied to a row is behind the row's observation, save *)
(* for a report of the same instant.                                        *)
Reached(n) ==
  /\ entry # NoEntry
  /\ \/ entry.observed > changes[n].at
     \/ /\ entry.observed = changes[n].at
        /\ entry.seq >= n \/ \E r \in landings : r.at = changes[n].at

TimesOK ==
  \A j \in DOMAIN changes : changes[j].at <= time /\ \A i \in 1..j : changes[i].at <= changes[j].at

UploadsOK == \A u \in uploads : u # Failed => u \in DOMAIN changes /\ changes[u].kind = "created"

ReportOK ==
  \/ report = NoReport
  \/ /\ report \in [at : {"upsert", "log", "ack"}, upload : uploads]
     /\ report.at = "upsert" => report.upload # Failed
     /\ report.at = "ack" => report.upload \in logged

RowInv ==
  /\ entry # NoEntry => FromEvent \/ FromReport
  /\ \A n \in delivered \ missed : Reached(n)

IdxInv ==
  IdxTypeOK /\ AckedIsLogged /\ TimesOK /\ UploadsOK /\ ReportOK /\ RowInv

ChangeRecord == [kind : {"created", "removed"}, at : 0..MaxTime]

LEMMA IdxSizes == MaxChange \in Nat /\ MaxTime \in Nat
BY IndexAssumption

LEMMA Changes ==
  ASSUME IdxTypeOK
  PROVE  /\ Len(changes) \in Nat /\ DOMAIN changes = 1..Len(changes)
         /\ time \in Nat /\ time \in 0..MaxTime /\ delivered \subseteq DOMAIN changes
         /\ \A i \in DOMAIN changes :
              /\ i \in Nat /\ i <= Len(changes) /\ i \in 1..MaxChange
              /\ changes[i] \in ChangeRecord
              /\ changes[i].at \in Nat /\ changes[i].at \in 0..MaxTime
              /\ changes[i].kind \in {"created", "removed"}
<1>1. changes \in Seq(ChangeRecord)
  BY DEF IdxTypeOK, ChangeRecord
<1>2. Len(changes) \in Nat /\ DOMAIN changes = 1..Len(changes) /\ Len(changes) <= MaxChange
  BY <1>1, SMT DEF IdxTypeOK
<1>3. time \in Nat /\ time \in 0..MaxTime /\ delivered \subseteq DOMAIN changes
  BY <1>2, IdxSizes, SMT DEF IdxTypeOK
<1>4. \A i \in DOMAIN changes :
        i \in Nat /\ i <= Len(changes) /\ i \in 1..MaxChange /\ changes[i] \in ChangeRecord
  BY <1>1, <1>2, IdxSizes, SMT
<1>5. \A c \in ChangeRecord : /\ c.at \in Nat /\ c.at \in 0..MaxTime
                              /\ c.kind \in {"created", "removed"}
  BY IdxSizes, SMT DEF ChangeRecord
<1> QED BY <1>2, <1>3, <1>4, <1>5

LEMMA EntryFields ==
  ASSUME NEW e \in EntryRecord
  PROVE  /\ e # NoEntry /\ e.status # "none" /\ e.status \in {"completed", "deleted"}
         /\ e.content \in 1..MaxChange /\ e.content \in Nat /\ e.digest \in 0..MaxChange
         /\ e.observed \in Nat /\ e.observed \in 0..MaxTime
         /\ e.seq \in Nat /\ e.seq \in 0..MaxChange
<1>1. /\ e.status \in {"completed", "deleted"} /\ e.content \in 1..MaxChange
      /\ e.digest \in 0..MaxChange /\ e.observed \in 0..MaxTime /\ e.seq \in 0..MaxChange
  BY SMT DEF EntryRecord
<1>2. NoEntry.status = "none" /\ "none" \notin {"completed", "deleted"}
  BY SMT DEF NoEntry
<1> QED BY <1>1, <1>2, IdxSizes, SMT

\* There is a row, or none.
LEMMA EntryKind ==
  ASSUME IdxTypeOK
  PROVE  /\ entry.status = "none" <=> entry = NoEntry
         /\ entry # NoEntry => entry \in EntryRecord /\ entry.observed <= time
<1>1. NoEntry.status = "none"
  BY SMT DEF NoEntry
<1> QED BY <1>1, EntryFields DEF IdxTypeOK

LEMMA InitIdxInv == IdxInit => IdxInv
<1> SUFFICES ASSUME IdxInit PROVE IdxInv
  OBVIOUS
<1>1. Len(changes) = 0 /\ changes \in Seq(ChangeRecord) /\ DOMAIN changes = {}
  BY SMT DEF IdxInit
<1>2. IdxTypeOK
  BY <1>1, IdxSizes, SMT DEF IdxInit, IdxTypeOK, ChangeRecord
<1>3. AckedIsLogged /\ UploadsOK /\ ReportOK
  BY DEF IdxInit, AckedIsLogged, UploadsOK, ReportOK
<1>4. TimesOK /\ RowInv
  BY <1>1 DEF IdxInit, TimesOK, RowInv
<1> QED BY <1>2, <1>3, <1>4 DEF IdxInv

\* Steps that leave the row and the changes alone.
LEMMA SameRow ==
  ASSUME RowInv, UNCHANGED <<changes, entry, delivered, missed, landings>>
  PROVE  RowInv'
BY DEF RowInv, FromEvent, FromReport, Covers, Reached

LEMMA ChangeIdx ==
  ASSUME IdxInv, NEW kind \in {"created", "removed"}, NEW byAgent \in BOOLEAN,
         Change(kind, byAgent)
  PROVE  IdxInv'
<1> DEFINE N == Len(changes)
<1>1. /\ N < MaxChange /\ changes' = Append(changes, [kind |-> kind, at |-> time])
      /\ uploads' = IF byAgent THEN uploads \cup {N + 1} ELSE uploads
      /\ byAgent => kind = "created"
      /\ UNCHANGED <<time, entry, delivered, missed, report, acked, logged, landings>>
  BY DEF Change
<1>2. IdxTypeOK /\ RowInv /\ changes \in Seq(ChangeRecord) /\ [kind |-> kind, at |-> time] \in ChangeRecord
  BY Changes, SMT DEF IdxInv, ChangeRecord, IdxTypeOK
<1>3. /\ changes' \in Seq(ChangeRecord) /\ Len(changes') = N + 1 /\ DOMAIN changes' = 1..(N + 1)
      /\ changes'[N + 1] = [kind |-> kind, at |-> time]
      /\ N \in Nat /\ \A i \in 1..N : changes'[i] = changes[i]
  BY <1>1, <1>2, SMT
<1>4. /\ changes'[N + 1].kind = kind /\ changes'[N + 1].at = time
      /\ DOMAIN changes = 1..N /\ DOMAIN changes' = DOMAIN changes \cup {N + 1}
      /\ N + 1 \notin DOMAIN changes
      /\ \A i \in DOMAIN changes : changes'[i] = changes[i]
  BY <1>2, <1>3, Changes, SMT
<1>5. IdxTypeOK'
  <2>1. Len(changes') <= MaxChange /\ 1..N \subseteq 1..(N + 1) /\ 0..N \subseteq 0..(N + 1)
        /\ N + 1 \in 0..(N + 1)
    BY <1>1, <1>3, IdxSizes, SMT
  <2>2. delivered' \subseteq 1..Len(changes') /\ uploads' \subseteq 0..Len(changes')
        /\ acked' \cup logged' \subseteq uploads'
    BY <1>1, <1>2, <1>3, <2>1 DEF IdxTypeOK
  <2> QED BY <1>1, <1>2, <1>3, <2>1, <2>2 DEF IdxTypeOK, ChangeRecord
<1>6. AckedIsLogged'
  BY <1>1 DEF IdxInv, AckedIsLogged
<1>7. TimesOK'
  <2>1. \A j \in DOMAIN changes : changes[j].at <= time /\ \A i \in 1..j : changes[i].at <= changes[j].at
    BY DEF IdxInv, TimesOK
  <2>2. ASSUME NEW j \in DOMAIN changes
        PROVE  changes'[j].at <= time /\ \A i \in 1..j : changes'[i].at <= changes'[j].at
    <3>1. 1..j \subseteq DOMAIN changes
      BY <1>3, <1>4, SMT
    <3> QED BY <1>4, <2>1, <3>1
  <2>3. /\ changes'[N + 1].at <= time
        /\ \A i \in 1..(N + 1) : changes'[i].at <= changes'[N + 1].at
    <3>1. time <= time /\ 1..(N + 1) = DOMAIN changes \cup {N + 1}
      BY <1>2, <1>3, <1>4, Changes, SMT
    <3> QED BY <1>4, <2>1, <3>1
  <2> QED BY <1>1, <1>4, <2>2, <2>3 DEF TimesOK
<1>8. UploadsOK' /\ ReportOK'
  <2>1. UploadsOK'
    BY <1>1, <1>4 DEF IdxInv, UploadsOK
  <2>2. \A r \in [at : {"upsert", "log", "ack"}, upload : uploads] :
          r \in [at : {"upsert", "log", "ack"}, upload : uploads']
    BY <1>1, SMT
  <2> QED BY <1>1, <2>1, <2>2 DEF IdxInv, ReportOK
<1>9. RowInv'
  <2>1. FromEvent => FromEvent'
    BY <1>1, <1>4 DEF FromEvent
  <2>2. ASSUME NEW r \in landings, Covers(r) PROVE Covers(r)'
    <3>1. r.at <= time
      <4>1. r \in [at : 0..time, late : BOOLEAN]
        BY <1>2 DEF IdxTypeOK
      <4> QED BY <1>2, <4>1, Changes, SMT
    <3> QED BY <1>1, <1>4, <2>2, <3>1 DEF Covers
  <2>3. FromReport => FromReport'
    BY <1>1, <2>2 DEF FromReport
  <2>4. \A n \in delivered : Reached(n) => Reached(n)'
    BY <1>1, <1>2, <1>4, Changes DEF Reached
  <2> QED BY <1>1, <1>2, <2>1, <2>3, <2>4 DEF RowInv
<1> QED BY <1>5, <1>6, <1>7, <1>8, <1>9 DEF IdxInv

\* Steps of the environment and of a report that leave the row alone.
LEMMA QuietIdx ==
  ASSUME IdxInv, UNCHANGED <<changes, entry, delivered, missed, landings, time>>,
         uploads' \in {uploads, uploads \cup {Failed}},
         AckedIsLogged', ReportOK', acked' \cup logged' \subseteq uploads'
  PROVE  IdxInv'
<1>1. IdxTypeOK'
  <2>1. 0 \in 0..Len(changes)
    BY Changes, SMT DEF IdxInv
  <2> QED BY <2>1 DEF IdxInv, IdxTypeOK, Failed
<1>2. TimesOK' /\ UploadsOK'
  BY DEF IdxInv, TimesOK, UploadsOK
<1> QED BY <1>1, <1>2, SameRow DEF IdxInv

LEMMA TickIdx ==
  ASSUME IdxInv, ClockTicks
  PROVE  IdxInv'
<1>1. /\ time < MaxTime /\ time' = time + 1
      /\ UNCHANGED <<changes, entry, delivered, missed, report, uploads, acked, logged, landings>>
  BY DEF ClockTicks
<1>2. IdxTypeOK /\ time \in Nat /\ time' \in 0..MaxTime /\ 0..time \subseteq 0..time'
  BY <1>1, Changes, IdxSizes, SMT DEF IdxInv
<1>3. IdxTypeOK'
  <2>1. entry' = NoEntry \/ (entry' \in EntryRecord /\ entry'.observed <= time')
    <3>1. ASSUME entry \in EntryRecord, entry.observed <= time PROVE entry.observed <= time'
      BY <1>1, <1>2, <3>1, EntryFields, SMT
    <3> QED BY <1>1, <1>2, <3>1 DEF IdxTypeOK
  <2>2. landings' \subseteq [at : 0..time', late : BOOLEAN]
    BY <1>1, <1>2, SMT DEF IdxTypeOK
  <2> QED BY <1>1, <1>2, <2>1, <2>2 DEF IdxTypeOK
<1>4. TimesOK'
  <2>1. \A j \in DOMAIN changes : changes[j].at <= time => changes[j].at <= time'
    BY <1>1, <1>2, Changes, SMT
  <2> QED BY <1>1, <2>1 DEF IdxInv, TimesOK
<1>5. AckedIsLogged' /\ UploadsOK' /\ ReportOK'
  BY <1>1 DEF IdxInv, AckedIsLogged, UploadsOK, ReportOK
<1> QED BY <1>1, <1>3, <1>4, <1>5, SameRow DEF IdxInv

\* The parts of the invariant an event does not touch.
LEMMA EventFrame ==
  ASSUME IdxInv, NEW n \in DOMAIN changes, ApplyEvent(n), RowInv',
         entry' = NoEntry \/ (entry' \in EntryRecord /\ entry'.observed <= time)
  PROVE  IdxInv'
<1>1. /\ delivered' = delivered \cup {n} /\ missed' \in {missed \cup {n}, missed \ {n}}
      /\ UNCHANGED <<changes, time, uploads, report, acked, logged, landings>>
  BY DEF ApplyEvent, storeVars
<1>2. n \in 1..Len(changes)
  BY Changes DEF IdxInv
<1>3. IdxTypeOK'
  BY <1>1, <1>2 DEF IdxInv, IdxTypeOK
<1>4. AckedIsLogged' /\ TimesOK' /\ UploadsOK' /\ ReportOK'
  BY <1>1 DEF IdxInv, AckedIsLogged, TimesOK, UploadsOK, ReportOK
<1> QED BY <1>3, <1>4 DEF IdxInv

LEMMA DeletedFields ==
  ASSUME NEW S, NEW C, NEW D, NEW T, NEW Q, "deleted" \in S, NEW t \in T, NEW q \in Q,
         NEW e \in [status : S, content : C, digest : D, observed : T, seq : Q]
  PROVE  LET f == [e EXCEPT !.status = "deleted", !.observed = t, !.seq = q]
         IN  /\ f \in [status : S, content : C, digest : D, observed : T, seq : Q]
             /\ f.seq = q /\ f.observed = t /\ f.status = "deleted"
<1> DEFINE R == [status : S, content : C, digest : D, observed : T, seq : Q]
           f == [e EXCEPT !.status = "deleted", !.observed = t, !.seq = q]
<1>1. PICK g \in R : g = [e EXCEPT !.status = "deleted"]
  <2>1. [e EXCEPT !.status = "deleted"] \in R
    BY SMT
  <2> QED BY <2>1
<1>2. PICK h \in R : h = [g EXCEPT !.observed = t]
  <2>1. [g EXCEPT !.observed = t] \in R
    BY SMT
  <2> QED BY <2>1
<1>3. [h EXCEPT !.seq = q] \in R
  BY SMT
<1>4. f = [h EXCEPT !.seq = q]
  BY <1>1, <1>2, SMT
<1>5. f.seq = q /\ f.observed = t /\ f.status = "deleted"
  BY SMT
<1> QED BY <1>3, <1>4, <1>5

\* An event that lands makes the row what the event says.
LEMMA EventLands ==
  ASSUME IdxInv, NEW n \in DOMAIN changes, ApplyEvent(n), Lands(changes[n].at, n),
         ~(changes[n].kind = "removed" /\ entry.status = "none")
  PROVE  IdxInv'
<1>1. /\ entry' = IF changes[n].kind = "removed" THEN Deleted(changes[n].at, n)
                  ELSE Upserted(n, NoDigest, changes[n].at, n)
      /\ missed' = missed \ {n} /\ delivered' = delivered \cup {n}
      /\ UNCHANGED <<changes, landings>>
  BY DEF ApplyEvent, storeVars
<1>2. /\ IdxTypeOK /\ RowInv /\ n \in Nat /\ n # 0 /\ n \in 1..MaxChange
      /\ changes[n].at \in Nat /\ changes[n].at \in 0..MaxTime /\ changes[n].at <= time
      /\ changes[n].kind \in {"created", "removed"}
  BY Changes, IdxSizes, SMT DEF IdxInv, TimesOK
<1>3. /\ entry' \in EntryRecord /\ entry'.seq = n /\ entry'.observed = changes[n].at
      /\ IF changes[n].kind = "removed" THEN entry'.status = "deleted"
         ELSE entry'.status = "completed" /\ entry'.content = n
  <2>1. CASE changes[n].kind = "removed"
    <3>1. entry \in EntryRecord
      BY <1>2, <2>1, EntryKind
    <3>2. entry' = [entry EXCEPT !.status = "deleted", !.observed = changes[n].at, !.seq = n]
      BY <1>1, <2>1 DEF Deleted
    <3>3. n \in 0..MaxChange
      BY <1>2, IdxSizes, SMT
    <3> QED BY <1>2, <2>1, <3>1, <3>2, <3>3, DeletedFields DEF EntryRecord
  <2>2. CASE changes[n].kind # "removed"
    <3>1. PICK d \in 0..MaxChange :
            entry' = [status |-> "completed", content |-> n, digest |-> d,
                      observed |-> changes[n].at, seq |-> n]
      <4>1. entry.status # "none" => entry.digest \in 0..MaxChange
        BY <1>2, EntryKind, EntryFields
      <4>2. 0 \in 0..MaxChange
        BY IdxSizes, SMT
      <4> QED BY <1>1, <2>2, <4>1, <4>2 DEF Upserted, NoDigest
    <3> QED BY <1>2, <2>2, <3>1, IdxSizes, SMT DEF EntryRecord
  <2> QED BY <2>1, <2>2
<1>4. entry' # NoEntry /\ FromEvent'
  BY <1>1, <1>3, EntryFields DEF FromEvent
<1>5. ASSUME NEW m \in delivered \ missed, Reached(m) PROVE Reached(m)'
  <2>1. m \in DOMAIN changes /\ m \in Nat /\ m # 0 /\ changes[m].at \in Nat
    BY <1>2, Changes, SMT
  <2>2. entry \in EntryRecord /\ entry.observed \in Nat /\ entry.seq \in Nat /\ entry.status # "none"
    BY <1>2, <1>5, EntryKind, EntryFields DEF Reached
  <2>3. Guard(entry, changes[n].at, n)
    BY <2>2 DEF Lands
  <2>4. \/ changes[n].at > changes[m].at
        \/ changes[n].at = changes[m].at /\ (n >= m \/ \E r \in landings : r.at = changes[m].at)
    BY <1>2, <1>5, <2>1, <2>2, <2>3, SMT DEF Guard, Reached, NoSeq
  <2> QED BY <1>1, <1>3, <1>4, <2>4 DEF Reached
<1>6. Reached(n)'
  <2>1. n >= n
    BY <1>2, SMT
  <2> QED BY <1>1, <1>3, <1>4, <2>1 DEF Reached
<1>7. RowInv'
  BY <1>1, <1>2, <1>4, <1>5, <1>6 DEF RowInv
<1> QED BY <1>2, <1>3, <1>7, EventFrame

\* An event the guard refuses is older than the row; one that finds no row to
\* delete is missed.
LEMMA EventKeepsRow ==
  ASSUME IdxInv, NEW n \in DOMAIN changes, ApplyEvent(n),
         \/ ~Lands(changes[n].at, n)
         \/ changes[n].kind = "removed" /\ entry.status = "none"
  PROVE  IdxInv'
<1>1. /\ entry' = entry /\ delivered' = delivered \cup {n} /\ UNCHANGED <<changes, landings>>
      /\ missed' = IF changes[n].kind = "removed" /\ entry.status = "none"
                   THEN missed \cup {n} ELSE missed \ {n}
  BY DEF ApplyEvent, storeVars
<1>2. /\ IdxTypeOK /\ RowInv /\ n \in Nat /\ n # 0 /\ changes[n].at \in Nat
      /\ entry = NoEntry \/ (entry \in EntryRecord /\ entry.observed <= time)
  BY Changes, SMT DEF IdxInv, IdxTypeOK
<1>3. CASE entry.status = "none"
  <2>1. entry = NoEntry /\ missed' = missed \cup {n}
    BY <1>1, <1>2, <1>3, EntryKind DEF Lands
  <2>2. RowInv'
    BY <1>1, <1>2, <2>1 DEF RowInv, Reached
  <2> QED BY <1>1, <1>2, <2>2, EventFrame
<1>4. CASE entry.status # "none"
  <2>1. /\ entry \in EntryRecord /\ entry.observed \in Nat /\ entry.seq \in Nat /\ entry # NoEntry
        /\ entry.content \in Nat
    BY <1>2, <1>4, EntryKind, EntryFields
  <2>2. \/ entry.observed > changes[n].at
        \/ entry.observed = changes[n].at /\ entry.seq # NoSeq /\ entry.seq >= n
    BY <1>2, <1>4, <2>1, SMT DEF Lands, Guard
  <2>3. Reached(n)'
    BY <1>1, <2>1, <2>2 DEF Reached
  <2>4. FromEvent => FromEvent'
    BY <1>1 DEF FromEvent
  <2>5. ASSUME NEW r \in landings, Covers(r), entry.seq = NoSeq, r.at = entry.observed
        PROVE  Covers(r)'
    <3>1. n <= entry.content
      <4>1. n > entry.content => changes[n].at >= entry.observed
        BY <2>5 DEF Covers
      <4> QED BY <1>2, <2>1, <2>2, <2>5, <4>1, SMT
    <3> QED BY <1>1, <2>5, <3>1 DEF Covers
  <2>6. FromReport => FromReport'
    BY <1>1, <2>5 DEF FromReport
  <2>7. \A m \in delivered : Reached(m) => Reached(m)'
    BY <1>1 DEF Reached
  <2>8. RowInv'
    BY <1>1, <1>2, <1>4, <2>1, <2>3, <2>4, <2>6, <2>7 DEF RowInv
  <2> QED BY <1>1, <1>2, <2>8, EventFrame
<1> QED BY <1>3, <1>4

\* The guard never refuses a report: the row's observation is not in the future.
LEMMA ReportLands ==
  ASSUME IdxTypeOK
  PROVE  Lands(time, NoSeq)
<1>1. CASE entry = NoEntry
  BY <1>1, EntryKind DEF Lands
<1>2. CASE entry # NoEntry
  <2>1. entry.observed \in Nat /\ time \in Nat /\ entry.observed <= time
    BY <1>2, EntryKind, EntryFields, Changes
  <2>2. Guard(entry, time, NoSeq)
    BY <2>1, SMT DEF Guard
  <2> QED BY <2>2 DEF Lands
<1> QED BY <1>1, <1>2

LEMMA UpsertIdx ==
  ASSUME IdxInv, UpsertReport
  PROVE  IdxInv'
<1>0. PICK l : l = [at |-> time, late |-> Object # report.upload]
  OBVIOUS
<1>1. report # NoReport
  BY SMT DEF UpsertReport, NoReport
<1>2. PICK u \in uploads : /\ report = [at |-> "upsert", upload |-> u] /\ u # Failed
                           /\ report.upload = u
  <2>1. report.at = "upsert" /\ report \in [at : {"upsert", "log", "ack"}, upload : uploads]
        /\ report.upload # Failed
    BY <1>1 DEF UpsertReport, IdxInv, ReportOK
  <2> QED BY <2>1, SMT
<1>3. /\ IdxTypeOK /\ RowInv /\ u \in DOMAIN changes /\ changes[u].kind = "created"
      /\ time \in Nat /\ time \in 0..MaxTime /\ u \in 1..MaxChange /\ u \in Nat
  BY <1>2, Changes DEF IdxInv, UploadsOK
<1>4. /\ entry' = Upserted(u, u, time, NoSeq) /\ report' = [report EXCEPT !.at = "log"]
      /\ landings' = landings \cup {l}
      /\ UNCHANGED <<changes, time, uploads, delivered, missed, acked, logged>>
  BY <1>0, <1>2, <1>3, ReportLands DEF UpsertReport, storeVars
<1>5. /\ entry' \in EntryRecord /\ entry'.status = "completed" /\ entry'.content = u
      /\ entry'.observed = time /\ entry'.seq = NoSeq
  <2>1. u \in 0..MaxChange /\ u # NoDigest /\ 0 \in 0..MaxChange
    BY <1>3, IdxSizes, SMT DEF NoDigest
  <2>2. entry' = [status |-> "completed", content |-> u, digest |-> u, observed |-> time,
                  seq |-> 0]
    BY <1>4, <2>1 DEF Upserted, NoSeq
  <2> QED BY <1>3, <2>1, <2>2, SMT DEF EntryRecord, NoSeq
<1>6. entry' # NoEntry
  BY <1>5, EntryFields
<1>7. l.at = time /\ l.late = (Object # u) /\ l \in [at : 0..time, late : BOOLEAN]
  BY <1>0, <1>2, <1>3, SMT
<1>8. IdxTypeOK'
  <2>1. time <= time
    BY <1>3, SMT
  <2>2. landings' \subseteq [at : 0..time, late : BOOLEAN]
    BY <1>3, <1>4, <1>7 DEF IdxTypeOK
  <2> QED BY <1>3, <1>4, <1>5, <2>1, <2>2 DEF IdxTypeOK
<1>9. AckedIsLogged' /\ TimesOK' /\ UploadsOK' /\ ReportOK'
  <2>1. report' = [at |-> "log", upload |-> u]
    BY <1>2, <1>4, SMT
  <2>2. /\ report' \in [at : {"upsert", "log", "ack"}, upload : uploads]
        /\ report'.at = "log" /\ "log" # "upsert" /\ "log" # "ack"
    BY <2>1, SMT
  <2> QED BY <1>4, <2>2 DEF IdxInv, AckedIsLogged, TimesOK, UploadsOK, ReportOK
<1>10. l.late \/ Covers(l)'
  <2>1. CASE Object = u
    <3>1. u = Len(changes) /\ \A i \in DOMAIN changes : ~(i > u) /\ i <= u
      BY <1>3, <2>1, Changes, SMT DEF Object
    <3>2. \A i \in delivered : i \in DOMAIN changes
      BY <1>3, Changes
    <3> QED BY <1>3, <1>4, <1>5, <3>1, <3>2 DEF Covers
  <2>2. CASE Object # u
    BY <1>7, <2>2
  <2> QED BY <2>1, <2>2
<1>11. FromReport'
  BY <1>4, <1>5, <1>7, <1>10 DEF FromReport
<1>12. ASSUME NEW m \in delivered PROVE Reached(m)'
  <2>1. m \in DOMAIN changes /\ changes[m].at \in Nat /\ changes[m].at <= time
    BY <1>3, Changes DEF IdxInv, TimesOK
  <2>2. time > changes[m].at \/ time = changes[m].at
    BY <1>3, <2>1, SMT
  <2> QED BY <1>4, <1>5, <1>6, <1>7, <2>2 DEF Reached
<1>13. RowInv'
  BY <1>4, <1>11, <1>12 DEF RowInv
<1> QED BY <1>8, <1>9, <1>13 DEF IdxInv

\* A report that is begun, logged, acknowledged or given up.
LEMMA ReportIdx ==
  ASSUME IdxInv,
         \/ \E n \in 0..MaxChange : BeginReport(n)
         \/ LogReport \/ AckReport \/ ReportFails
  PROVE  IdxInv'
<1> DEFINE Reports == [at : {"upsert", "log", "ack"}, upload : uploads]
<1>1. /\ UNCHANGED <<changes, entry, delivered, missed, landings, time, uploads>>
      /\ AckedIsLogged /\ ReportOK /\ acked \cup logged \subseteq uploads
  BY DEF BeginReport, LogReport, AckReport, ReportFails, storeVars, IdxInv, IdxTypeOK
<1>2. report \notin Reports => report = NoReport
  BY <1>1 DEF ReportOK
<1>3. NoReport.at = "idle" /\ \A r \in Reports : r.upload \in uploads
  BY SMT DEF NoReport
<1>4. ASSUME NEW n \in 0..MaxChange, BeginReport(n) PROVE IdxInv'
  <2>1. PICK a \in {"upsert", "log"} : report' = [at |-> a, upload |-> n] /\ (a = "upsert" => n # Failed)
    BY <1>4 DEF BeginReport
  <2>2. report' \in Reports /\ report'.at = a /\ report'.upload = n /\ a # "ack"
    BY <1>4, <2>1, SMT DEF BeginReport
  <2>3. ReportOK' /\ UNCHANGED <<acked, logged>>
    BY <1>1, <1>4, <2>1, <2>2 DEF ReportOK, BeginReport
  <2> QED BY <1>1, <2>3, QuietIdx DEF AckedIsLogged
<1>5. CASE LogReport
  <2>1. /\ report.at = "log" /\ logged' = logged \cup {report.upload} /\ acked' = acked
        /\ report' = [report EXCEPT !.at = "ack"] /\ report \in Reports
    BY <1>2, <1>3, <1>5 DEF LogReport
  <2>2. report' \in Reports /\ report'.upload = report.upload /\ report.upload \in uploads
        /\ report'.at = "ack" /\ "ack" # "upsert"
    BY <2>1, SMT
  <2>3. ReportOK'
    BY <1>1, <2>1, <2>2 DEF ReportOK
  <2>4. AckedIsLogged' /\ acked' \cup logged' \subseteq uploads'
    BY <1>1, <2>1, <2>2 DEF AckedIsLogged
  <2> QED BY <1>1, <2>3, <2>4, QuietIdx
<1>6. CASE AckReport
  <2>1. /\ report.at = "ack" /\ acked' \in {acked, acked \cup {report.upload}}
        /\ report' = NoReport /\ logged' = logged /\ report \in Reports
    BY <1>2, <1>3, <1>6 DEF AckReport
  <2>2. report.upload \in logged /\ report.upload \in uploads
    BY <1>1, <1>3, <2>1 DEF ReportOK, NoReport
  <2>3. AckedIsLogged' /\ acked' \cup logged' \subseteq uploads' /\ ReportOK'
    BY <1>1, <2>1, <2>2 DEF AckedIsLogged, ReportOK
  <2> QED BY <1>1, <2>3, QuietIdx
<1>7. CASE ReportFails
  <2>1. report' = NoReport /\ UNCHANGED <<acked, logged>>
    BY <1>7 DEF ReportFails
  <2>2. AckedIsLogged' /\ ReportOK'
    BY <1>1, <2>1 DEF AckedIsLogged, ReportOK
  <2> QED BY <1>1, <2>1, <2>2, QuietIdx
<1> QED BY <1>4, <1>5, <1>6, <1>7

LEMMA GivenUpIdx ==
  ASSUME IdxInv, UploadGivenUp
  PROVE  IdxInv'
<1>1. /\ uploads' = uploads \cup {Failed}
      /\ UNCHANGED <<changes, time, entry, delivered, missed, report, acked, logged, landings>>
  BY DEF UploadGivenUp
<1>2. \A r \in [at : {"upsert", "log", "ack"}, upload : uploads] :
        r \in [at : {"upsert", "log", "ack"}, upload : uploads']
  BY <1>1, SMT
<1>3. AckedIsLogged' /\ ReportOK' /\ acked' \cup logged' \subseteq uploads'
  BY <1>1, <1>2 DEF IdxInv, AckedIsLogged, ReportOK, IdxTypeOK
<1> QED BY <1>1, <1>3, QuietIdx

LEMMA StepIdxInv == IdxInv /\ [IdxNext]_idxVars => IdxInv'
<1> SUFFICES ASSUME IdxInv, [IdxNext]_idxVars PROVE IdxInv'
  OBVIOUS
<1>1. ASSUME NEW n \in 1..MaxChange, ApplyEvent(n) PROVE IdxInv'
  <2>1. n \in DOMAIN changes
    <3>1. IdxTypeOK /\ n <= Len(changes)
      BY <1>1 DEF ApplyEvent, IdxInv
    <3> QED BY <1>1, <3>1, Changes, SMT
  <2> QED BY <1>1, <2>1, EventLands, EventKeepsRow
<1>2. CASE UNCHANGED idxVars
  <2>1. UNCHANGED <<changes, time, entry, delivered, missed, report, uploads, acked, logged, landings>>
    BY <1>2 DEF idxVars
  <2>2. AckedIsLogged' /\ ReportOK' /\ acked' \cup logged' \subseteq uploads'
    BY <2>1 DEF IdxInv, AckedIsLogged, ReportOK, IdxTypeOK
  <2> QED BY <2>1, <2>2, QuietIdx
<1> QED BY <1>1, <1>2, ChangeIdx, GivenUpIdx, TickIdx, UpsertIdx, ReportIdx DEF IdxNext

\* Once every event was applied, the row is the last change's: an event that was
\* applied later would be a tie, and a report that landed later came in time.
LEMMA Converged == IdxInv => RowConverges
<1> SUFFICES ASSUME IdxInv, delivered = DOMAIN changes, ~Tied, ~Overtaken,
                    Len(changes) \notin missed
             PROVE  IF Object = 0 THEN entry.status \in {"none", "deleted"}
                    ELSE entry.status = "completed" /\ entry.content = Object
  BY DEF RowConverges
<1> DEFINE L == Len(changes)
<1>1. IdxTypeOK /\ RowInv /\ L \in Nat /\ DOMAIN changes = 1..L
  BY Changes DEF IdxInv
<1>2. CASE L = 0
  <2>1. DOMAIN changes = {} /\ landings \subseteq landings
    BY <1>1, <1>2, SMT
  <2>2. changes = <<>>
    BY <1>1, <1>2, SMT DEF IdxTypeOK
  <2>3. entry = NoEntry
    <3>1. ~FromEvent
      BY <2>1 DEF FromEvent
    <3>2. ASSUME FromReport PROVE FALSE
      <4>1. PICK r \in landings : r.late \/ Covers(r)
        BY <3>2 DEF FromReport
      <4>2. r.late
        BY <2>1, <4>1 DEF Covers
      <4>3. Overtaken
        BY <2>1, <4>2 DEF Overtaken
      <4> QED BY <4>3
    <3> QED BY <1>1, <3>1, <3>2 DEF RowInv
  <2> QED BY <1>1, <2>2, <2>3, EntryKind DEF Object
<1>3. CASE L # 0
  <2>1. L \in DOMAIN changes /\ \A i \in DOMAIN changes : i \in Nat /\ i <= L /\ i \in 1..L
    BY <1>1, <1>3, SMT
  <2>2. Reached(L)
    BY <1>1, <2>1 DEF RowInv
  <2>3. \A i \in DOMAIN changes : changes[i].at <= changes[L].at /\ changes[i].at \in Nat
    BY <1>1, <2>1, Changes DEF IdxInv, TimesOK
  <2>4. entry \in EntryRecord /\ entry.observed \in Nat /\ entry.seq \in Nat /\ entry.content \in Nat
    BY <1>1, <2>2, EntryKind, EntryFields DEF Reached
  <2>5. Object = IF changes[L].kind = "removed" THEN 0 ELSE L
    BY <1>1, <1>3, SMT DEF Object, IdxTypeOK
  <2>6. CASE FromEvent
    <3>1. entry.seq \in DOMAIN changes /\ entry.observed = changes[entry.seq].at
      BY <2>6 DEF FromEvent
    <3>2. entry.observed = changes[L].at /\ (entry.seq >= L \/ \E r \in landings : r.at = changes[L].at)
      BY <2>1, <2>2, <2>3, <2>4, <3>1, SMT DEF Reached
    <3>3. ASSUME entry.seq # L PROVE FALSE
      <4>1. ~(entry.seq >= L)
        BY <1>1, <2>1, <2>4, <3>1, <3>3, SMT
      <4>2. PICK r \in landings : r.at = changes[L].at
        BY <3>2, <4>1
      <4>3. ChangeTimes[L] = changes[L].at /\ ChangeTimes[entry.seq] = changes[entry.seq].at
        BY <2>1, <3>1 DEF ChangeTimes
      <4>4. Tied
        BY <2>1, <3>1, <3>2, <3>3, <4>2, <4>3 DEF Tied
      <4> QED BY <4>4
    <3>4. L # 0 /\ entry.seq = L
      BY <1>3, <3>3
    <3>5. CASE changes[L].kind = "removed"
      BY <2>5, <2>6, <3>4, <3>5 DEF FromEvent
    <3>6. CASE changes[L].kind # "removed"
      BY <2>5, <2>6, <3>4, <3>6 DEF FromEvent
    <3> QED BY <3>5, <3>6
  <2>7. CASE FromReport
    <3>1. PICK r \in landings : r.at = entry.observed /\ (r.late \/ Covers(r))
      BY <2>7 DEF FromReport
    <3>2. entry.observed >= changes[L].at
      BY <2>1, <2>2, <2>3, <2>4, SMT DEF Reached
    <3>3. \A i \in DOMAIN changes : ChangeTimes[i] <= r.at
      <4>1. \A i \in DOMAIN changes : ChangeTimes[i] = changes[i].at
        BY <2>1 DEF ChangeTimes
      <4> QED BY <2>1, <2>3, <2>4, <3>1, <3>2, <4>1, SMT
    <3>4. Covers(r)
      BY <3>1, <3>3 DEF Overtaken
    <3>5. entry.content \in DOMAIN changes /\ L <= entry.content /\ changes[entry.content].kind = "created"
      BY <2>1, <3>4 DEF Covers
    <3>6. entry.content = L
      BY <1>1, <2>1, <2>4, <3>5, SMT
    <3> QED BY <2>5, <2>7, <3>5, <3>6, <1>3 DEF FromReport
  <2> QED BY <1>1, <2>2, <2>6, <2>7 DEF RowInv, Reached
<1> QED BY <1>2, <1>3

\* The row follows the store and the log follows the acknowledgements, for any number
\* of changes, events in any order and repeated, and reports at any time: the database
\* stamps a report with its own clock, so the guard never refuses one, and a report
\* that was in time covers every event applied before it.
THEOREM IndexAlwaysHolds == IdxSpec => []IndexHolds
<1>1. IdxInv => IndexHolds
  BY Converged DEF IdxInv, IndexHolds
<1> QED BY InitIdxInv, StepIdxInv, <1>1, PTL DEF IdxSpec

-----------------------------------------------------------------------------
(* TagKeys.                                                                *)

\* A request that is to write its patch, and was not disturbed, has the row as it is.
CallFresh(call) ==
  call.pc = "patch" => "alone" \in DOMAIN call /\ (call.alone = TRUE => call.row = tagKey.flags)

\* The inductive invariant: the values are of the row that is there, and each request
\* about to write knows whether the row changed since it read it.
KeysInv ==
  /\ ValueOfItsKey
  /\ tagKey.id = 0 => tagValues = {}
  /\ DOMAIN tagKey = {"id", "flags"}
  /\ DOMAIN keyCalls = KeyCall
  /\ \A c \in KeyCall : CallFresh(keyCalls[c])

\* What PatchExact says of one step.
Exact == \A c \in KeyCall : PatchWrites(c) /\ keyCalls[c].alone => NamesOnly(keyCalls[c])

LEMMA IdleIsFresh == IdleKeyCall.pc = "idle" /\ IdleKeyCall.pc # "patch"
BY DEF IdleKeyCall

LEMMA NewRow ==
  ASSUME NEW i, NEW g, NEW k, k = [id |-> i, flags |-> g]
  PROVE  DOMAIN k = {"id", "flags"} /\ k.id = i /\ k.flags = g
BY SMT

LEMMA Disturbed ==
  ASSUME NEW call, "alone" \in DOMAIN call, NEW w, w = [call EXCEPT !.alone = FALSE]
  PROVE  "alone" \in DOMAIN w /\ w.alone = FALSE
OBVIOUS

LEMMA PatchCall ==
  ASSUME NEW r, NEW p, NEW w, w = [pc |-> "patch", row |-> r, set |-> p, alone |-> TRUE]
  PROVE  w.pc = "patch" /\ "alone" \in DOMAIN w /\ w.row = r
BY SMT

LEMMA ValueCall ==
  ASSUME NEW op \in {"create", "delete"}, NEW i, NEW v,
         NEW w, w = [pc |-> op, id |-> i, value |-> v]
  PROVE  w.pc # "patch"
BY SMT

\* A changed row leaves no request that takes it for the one it read.
LEMMA DisturbsAll ==
  ASSUME KeysInv, Disturbs
  PROVE  DOMAIN keyCalls' = KeyCall /\ \A c \in KeyCall : CallFresh(keyCalls[c])'
<1>1. DOMAIN keyCalls' = KeyCall
  BY DEF Disturbs
<1>2. ASSUME NEW c \in KeyCall PROVE CallFresh(keyCalls[c])'
  <2>1. CASE keyCalls[c].pc = "patch"
    <3>1. PICK w : w = [keyCalls[c] EXCEPT !.alone = FALSE]
      OBVIOUS
    <3>2. keyCalls'[c] = w
      BY <2>1, <3>1 DEF Disturbs
    <3>3. "alone" \in DOMAIN keyCalls[c]
      BY <2>1 DEF KeysInv, CallFresh
    <3>4. "alone" \in DOMAIN w /\ w.alone = FALSE
      BY <3>1, <3>3, Disturbed
    <3> QED BY <3>2, <3>4 DEF CallFresh
  <2>2. CASE keyCalls[c].pc # "patch"
    <3>1. keyCalls'[c] = keyCalls[c]
      BY <2>2 DEF Disturbs
    <3> QED BY <2>2, <3>1 DEF CallFresh
  <2> QED BY <2>1, <2>2
<1> QED BY <1>1, <1>2

\* One request changes and the row does not.
LEMMA OneCall ==
  ASSUME KeysInv, NEW c \in KeyCall, NEW w, keyCalls' = [keyCalls EXCEPT ![c] = w],
         tagKey' = tagKey,
         w.pc = "patch" => "alone" \in DOMAIN w /\ w.row = tagKey.flags
  PROVE  DOMAIN keyCalls' = KeyCall /\ \A d \in KeyCall : CallFresh(keyCalls[d])'
<1>1. DOMAIN keyCalls' = KeyCall
  BY DEF KeysInv
<1>2. ASSUME NEW d \in KeyCall PROVE CallFresh(keyCalls[d])'
  <2>1. CASE d = c
    <3>1. keyCalls'[d] = w
      BY <2>1 DEF KeysInv
    <3> QED BY <3>1 DEF CallFresh
  <2>2. CASE d # c
    <3>1. keyCalls'[d] = keyCalls[d]
      BY <2>2 DEF KeysInv
    <3>2. CallFresh(keyCalls[d])
      BY DEF KeysInv
    <3> QED BY <3>1, <3>2 DEF CallFresh
  <2> QED BY <2>1, <2>2
<1> QED BY <1>1, <1>2

LEMMA PatchWritesStep ==
  ASSUME KeysInv, NEW c \in KeyCall, PatchWrites(c)
  PROVE  KeysInv' /\ (keyCalls[c].alone => NamesOnly(keyCalls[c]))
<1>1. keyCalls[c].pc = "patch" /\ tagValues' = tagValues
  BY DEF PatchWrites
<1>2. /\ DOMAIN tagKey' = {"id", "flags"} /\ tagKey'.id = tagKey.id
      /\ GetTagKey => tagKey'.flags = Patched(keyCalls[c])
  <2>1. CASE GetTagKey
    <3>1. tagKey' = [tagKey EXCEPT !.flags = Patched(keyCalls[c])]
      BY <2>1 DEF PatchWrites, UpdateTagKey
    <3> QED BY <3>1 DEF KeysInv
  <2>2. CASE ~GetTagKey
    BY <2>2 DEF PatchWrites, KeysInv
  <2> QED BY <2>1, <2>2
<1>3. DOMAIN keyCalls' = KeyCall
  BY DEF PatchWrites
<1>4. ASSUME NEW d \in KeyCall PROVE CallFresh(keyCalls[d])'
  <2>1. CASE d = c
    <3>1. keyCalls'[d] = IdleKeyCall
      BY <2>1 DEF PatchWrites
    <3> QED BY <3>1, IdleIsFresh DEF CallFresh
  <2>2. CASE d # c /\ keyCalls[d].pc = "patch"
    <3>1. PICK w : w = [keyCalls[d] EXCEPT !.alone = FALSE]
      OBVIOUS
    <3>2. keyCalls'[d] = w
      BY <2>2, <3>1 DEF PatchWrites
    <3>3. "alone" \in DOMAIN keyCalls[d]
      BY <2>2 DEF KeysInv, CallFresh
    <3>4. "alone" \in DOMAIN w /\ w.alone = FALSE
      BY <3>1, <3>3, Disturbed
    <3> QED BY <3>2, <3>4 DEF CallFresh
  <2>3. CASE d # c /\ keyCalls[d].pc # "patch"
    <3>1. keyCalls'[d] = keyCalls[d]
      BY <2>3 DEF PatchWrites
    <3> QED BY <2>3, <3>1 DEF CallFresh
  <2> QED BY <2>1, <2>2, <2>3
<1>5. ASSUME keyCalls[c].alone PROVE NamesOnly(keyCalls[c])
  <2>1. keyCalls[c].row = tagKey.flags
    BY <1>1, <1>5 DEF KeysInv, CallFresh
  <2> QED BY <1>2, <2>1 DEF NamesOnly, Patched
<1> QED BY <1>1, <1>2, <1>3, <1>4, <1>5 DEF KeysInv, ValueOfItsKey

LEMMA ValueCreatedStep ==
  ASSUME KeysInv, NEW c \in KeyCall, ValueCreated(c)
  PROVE  KeysInv'
<1>1. tagKey' = tagKey /\ keyCalls' = [keyCalls EXCEPT ![c] = IdleKeyCall]
  BY DEF ValueCreated, Ends
<1>2. PICK i, v : CreateTagValue(i, v)
  BY DEF ValueCreated
<1>3. CASE GetTagKey /\ tagKey.id = i
  <2>1. PICK x : x = [key |-> i, seen |-> i, value |-> v]
    OBVIOUS
  <2>2. x.key = i /\ x.seen = i
    BY <2>1, SMT
  <2>3. tagValues' = tagValues \cup {x}
    BY <1>2, <1>3, <2>1 DEF CreateTagValue
  <2>4. ValueOfItsKey' /\ tagKey'.id # 0
    BY <1>1, <1>3, <2>2, <2>3 DEF KeysInv, ValueOfItsKey, GetTagKey
  <2> QED BY <1>1, <2>4, OneCall, IdleIsFresh DEF KeysInv
<1>4. CASE ~(GetTagKey /\ tagKey.id = i)
  <2>1. tagValues' = tagValues
    BY <1>2, <1>4 DEF CreateTagValue
  <2> QED BY <1>1, <2>1, OneCall, IdleIsFresh DEF KeysInv, ValueOfItsKey
<1> QED BY <1>3, <1>4

LEMMA KeysStep == KeysInv /\ [KeysNext]_keysVars => KeysInv' /\ Exact
<1> SUFFICES ASSUME KeysInv, [KeysNext]_keysVars PROVE KeysInv' /\ Exact
  OBVIOUS
<1>0. Exact
  BY PatchWritesStep DEF Exact
<1>1. CASE KeyCreate
  <2>1. PICK g : tagKey' = [id |-> lastKey + 1, flags |-> g]
    BY <1>1 DEF KeyCreate, CreateTagKey
  <2>2. DOMAIN tagKey' = {"id", "flags"}
    BY <2>1, NewRow
  <2>3. tagValues = {} /\ tagValues' = {}
    BY <1>1 DEF KeyCreate, GetTagKey, KeysInv
  <2>4. Disturbs
    BY <1>1 DEF KeyCreate
  <2> QED BY <1>0, <2>2, <2>3, <2>4, DisturbsAll DEF KeysInv, ValueOfItsKey
<1>2. CASE KeyDelete
  <2>1. tagKey' = [id |-> 0, flags |-> DefaultOf] /\ tagValues' = {} /\ Disturbs
    BY <1>2 DEF KeyDelete, DeleteTagKey, NoKey
  <2>2. DOMAIN tagKey' = {"id", "flags"}
    BY <2>1, NewRow
  <2> QED BY <1>0, <2>1, <2>2, DisturbsAll DEF KeysInv, ValueOfItsKey
<1>3. ASSUME NEW c \in KeyCall, PatchReads(c) PROVE KeysInv'
  <2>1. PICK p \in Patches :
          keyCalls' = [keyCalls EXCEPT ![c] = [pc |-> "patch", row |-> tagKey.flags, set |-> p,
                                               alone |-> TRUE]]
    BY <1>3 DEF PatchReads
  <2>2. PICK w : w = [pc |-> "patch", row |-> tagKey.flags, set |-> p, alone |-> TRUE]
    OBVIOUS
  <2>3. keyCalls' = [keyCalls EXCEPT ![c] = w] /\ "alone" \in DOMAIN w /\ w.row = tagKey.flags
    BY <2>1, <2>2, PatchCall
  <2>4. UNCHANGED <<tagKey, tagValues>>
    BY <1>3 DEF PatchReads
  <2> QED BY <2>3, <2>4, OneCall DEF KeysInv, ValueOfItsKey
<1>4. ASSUME NEW c \in KeyCall, ResolveKey(c) PROVE KeysInv'
  <2>1. PICK op \in {"create", "delete"}, v \in KeyValue :
          keyCalls' = [keyCalls EXCEPT ![c] = [pc |-> op, id |-> tagKey.id, value |-> v]]
    BY <1>4 DEF ResolveKey
  <2>2. PICK w : w = [pc |-> op, id |-> tagKey.id, value |-> v]
    OBVIOUS
  <2>3. keyCalls' = [keyCalls EXCEPT ![c] = w] /\ w.pc # "patch"
    BY <2>1, <2>2, ValueCall
  <2>4. UNCHANGED <<tagKey, tagValues>>
    BY <1>4 DEF ResolveKey
  <2> QED BY <2>3, <2>4, OneCall DEF KeysInv, ValueOfItsKey
<1>5. ASSUME NEW c \in KeyCall, ValueDeleted(c) PROVE KeysInv'
  <2>1. tagKey' = tagKey /\ keyCalls' = [keyCalls EXCEPT ![c] = IdleKeyCall]
    BY <1>5 DEF ValueDeleted, Ends
  <2>2. tagValues' \subseteq tagValues
    BY <1>5 DEF ValueDeleted, DeleteTagValue
  <2>3. ValueOfItsKey' /\ (tagKey'.id = 0 => tagValues' = {})
    BY <2>1, <2>2 DEF KeysInv, ValueOfItsKey
  <2> QED BY <2>1, <2>3, OneCall, IdleIsFresh DEF KeysInv
<1>6. CASE UNCHANGED keysVars
  BY <1>0, <1>6 DEF keysVars, KeysInv, ValueOfItsKey, CallFresh
<1> QED BY <1>0, <1>1, <1>2, <1>3, <1>4, <1>5, <1>6, PatchWritesStep, ValueCreatedStep DEF KeysNext

\* A value belongs to the key its request looked up, and an update that nothing came
\* between changes exactly the fields it names, whatever the requests and their order.
THEOREM KeysAlwaysHold == KeysSpec => KeysHold
<1>1. KeysInit => KeysInv
  <2> SUFFICES ASSUME KeysInit PROVE KeysInv
    OBVIOUS
  <2>1. DOMAIN tagKey = {"id", "flags"}
    BY NewRow DEF KeysInit, NoKey
  <2>2. ASSUME NEW c \in KeyCall PROVE CallFresh(keyCalls[c])
    BY IdleIsFresh DEF KeysInit, CallFresh
  <2> QED BY <2>1, <2>2 DEF KeysInit, KeysInv, ValueOfItsKey
<1>2. KeysInv => ValueOfItsKey
  BY DEF KeysInv
<1>3. KeysInv /\ [KeysNext]_keysVars =>
        [\A c \in KeyCall : PatchWrites(c) /\ keyCalls[c].alone => NamesOnly(keyCalls[c])]_keysVars
  BY KeysStep DEF Exact
<1> QED BY <1>1, <1>2, <1>3, KeysStep, PTL DEF KeysSpec, KeysHold, PatchExact

-----------------------------------------------------------------------------
(* TagReview.                                                              *)

IndexerPoints == {"idle", "lookup", "insert", "insertGoverned", "check", "queue"}
RequestPoints == {"idle", "set", "check", "queue", "approve", "approve2", "merge"}

\* A report or a request under way has a value.
IndexerOK(i) == DOMAIN i = {"at", "value"} /\ i.at \in IndexerPoints /\ (i.at # "idle" => i.value \in Value)
RequestOK(r) ==
  DOMAIN r = {"at", "value", "row"} /\ r.at \in RequestPoints /\ (r.at # "idle" => r.value \in Value)

\* The rows of the key, and what is owed.
RowsOK ==
  /\ key \in {"none", "there", "deleted"} /\ lastRow \in 0..MaxRow
  /\ vocabulary \subseteq Value /\ queued \in [Value -> 0..MaxRow]
  /\ key # "there" => vocabulary = {} /\ Queued = {}
  /\ ReviewNotLost

TagOK == tag \in Explicit \cup {"none", "path_var"}

\* The inductive invariant.
ReviewInv == RowsOK /\ TagOK /\ IndexerOK(indexer) /\ RequestOK(request)

\* What ExplicitWins says of one step.
Wins == (tag \in Explicit) => (tag' # "path_var")

keyRows == <<key, vocabulary, queued, lastRow, owed>>

-----------------------------------------------------------------------------
LEMMA IdleOK == IndexerOK(IdleIndexer) /\ RequestOK(IdleRequest)
<1>1. /\ DOMAIN IdleIndexer = {"at", "value"} /\ IdleIndexer.at = "idle"
      /\ DOMAIN IdleRequest = {"at", "value", "row"} /\ IdleRequest.at = "idle"
  BY SMT DEF IdleIndexer, IdleRequest
<1> QED BY <1>1 DEF IndexerOK, RequestOK, IndexerPoints, RequestPoints

LEMMA IndexerMoves ==
  ASSUME IndexerOK(indexer), indexer.at # "idle", NEW a \in IndexerPoints
  PROVE  IndexerOK([indexer EXCEPT !.at = a])
<1>1. PICK w : w = [indexer EXCEPT !.at = a]
  OBVIOUS
<1>2. DOMAIN w = {"at", "value"} /\ w.at = a /\ w.value = indexer.value
  BY <1>1 DEF IndexerOK
<1>3. IndexerOK(w)
  BY <1>2 DEF IndexerOK
<1> QED BY <1>1, <1>3

LEMMA IndexerStarts ==
  ASSUME NEW a \in IndexerPoints, NEW v \in Value
  PROVE  IndexerOK([at |-> a, value |-> v])
<1>1. PICK w : w = [at |-> a, value |-> v]
  OBVIOUS
<1>2. DOMAIN w = {"at", "value"} /\ w.at = a /\ w.value = v
  BY <1>1, SMT
<1>3. IndexerOK(w)
  BY <1>2 DEF IndexerOK
<1> QED BY <1>1, <1>3

LEMMA RequestMoves ==
  ASSUME RequestOK(request), request.at # "idle", NEW a \in RequestPoints, RequestGoes(a)
  PROVE  RequestOK(request')
<1>1. request' = [request EXCEPT !.at = a]
  BY DEF RequestGoes
<1>2. DOMAIN request' = {"at", "value", "row"} /\ request'.at = a /\ request'.value = request.value
  BY <1>1 DEF RequestOK
<1> QED BY <1>2 DEF RequestOK

LEMMA RequestStarts ==
  ASSUME NEW a \in RequestPoints, NEW v \in Value, NEW r
  PROVE  RequestOK([at |-> a, value |-> v, row |-> r])
<1>1. PICK w : w = [at |-> a, value |-> v, row |-> r]
  OBVIOUS
<1>2. DOMAIN w = {"at", "value", "row"} /\ w.at = a /\ w.value = v
  BY <1>1, SMT
<1>3. RequestOK(w)
  BY <1>2 DEF RequestOK
<1> QED BY <1>1, <1>3

LEMMA RowsSame == ASSUME RowsOK, UNCHANGED keyRows PROVE RowsOK'
BY DEF RowsOK, keyRows, ReviewNotLost, Queued

LEMMA TagSame == ASSUME TagOK, UNCHANGED tag PROVE TagOK' /\ Wins
BY DEF TagOK, Wins, Explicit

LEMMA TagWritten ==
  ASSUME tag' \in {"none", "rule_static", "manual"} PROVE TagOK' /\ Wins
BY DEF TagOK, Wins, Explicit

\* 0 is no row, and the next row is one.
LEMMA RowIds ==
  ASSUME lastRow \in 0..MaxRow, lastRow < MaxRow
  PROVE  lastRow + 1 \in 0..MaxRow /\ lastRow + 1 # 0
BY ReviewAssumption, SMT

LEMMA NoRowId == 0 \in 0..MaxRow
BY ReviewAssumption, SMT

\* A value put up for review is in the queue afterwards, unless the key has gone.
LEMMA UpsertRows ==
  ASSUME RowsOK, NEW v \in Value, UpsertPending(v), UNCHANGED <<key, vocabulary>>
  PROVE  RowsOK'
<1>1. CASE key # "there"
  BY <1>1, RowsSame DEF UpsertPending, keyRows
<1>2. CASE key = "there" /\ v \in Queued
  <2>1. owed' = owed \cup {v} /\ UNCHANGED <<queued, lastRow>>
    BY <1>2 DEF UpsertPending
  <2> QED BY <1>2, <2>1 DEF RowsOK, ReviewNotLost, Queued
<1>3. CASE key = "there" /\ v \notin Queued
  <2>1. PICK id : id = lastRow + 1
    OBVIOUS
  <2>2. owed' = owed \cup {v} /\ lastRow' = id /\ queued' = [queued EXCEPT ![v] = id]
    BY <1>3, <2>1 DEF UpsertPending
  <2>3. id \in 0..MaxRow /\ id # 0
    <3>1. lastRow < MaxRow
      BY <1>3 DEF UpsertPending
    <3> QED BY <2>1, <3>1, RowIds DEF RowsOK
  <2>4. queued' \in [Value -> 0..MaxRow]
    BY <2>2, <2>3 DEF RowsOK
  <2>5. Queued' = Queued \cup {v}
    BY <2>2, <2>3 DEF RowsOK, Queued
  <2> QED BY <1>3, <2>2, <2>3, <2>4, <2>5 DEF RowsOK, ReviewNotLost
<1> QED BY <1>1, <1>2, <1>3

\* Dropping the row of a value disturbs the queue of no other.
LEMMA DropRow ==
  ASSUME RowsOK, NEW v, queued' = [queued EXCEPT ![v] = 0]
  PROVE  queued' \in [Value -> 0..MaxRow] /\ Queued \ {v} \subseteq Queued' /\ Queued' \subseteq Queued
<1>1. queued' \in [Value -> 0..MaxRow]
  BY NoRowId DEF RowsOK
<1>2. \A u \in Value : queued'[u] = IF u = v THEN 0 ELSE queued[u]
  BY DEF RowsOK
<1>3. Queued \ {v} \subseteq Queued' /\ Queued' \subseteq Queued
  BY <1>2 DEF Queued
<1> QED BY <1>1, <1>3

LEMMA WithoutRow ==
  ASSUME RowsOK, NEW v, NEW r, queued' = Without(v, r)
  PROVE  queued' \in [Value -> 0..MaxRow] /\ Queued \ {v} \subseteq Queued' /\ Queued' \subseteq Queued
<1>1. CASE queued[v] = r
  BY <1>1, DropRow DEF Without
<1>2. CASE queued[v] # r
  BY <1>2 DEF Without, RowsOK, Queued
<1> QED BY <1>1, <1>2

-----------------------------------------------------------------------------
LEMMA AdministersStep ==
  ASSUME ReviewInv, Administers
  PROVE  ReviewInv' /\ Wins
<1>0. UNCHANGED <<indexer, request>>
  BY DEF Administers, CreateKey, DeleteKey, ClearTag, CreateValue, DeleteValue, Reject, processes
<1>1. IndexerOK(indexer)' /\ RequestOK(request)'
  BY <1>0 DEF ReviewInv
<1>2. CASE ClearTag
  <2>1. RowsOK' /\ tag' = "none"
    BY <1>2, RowsSame DEF ClearTag, DeleteFileTag, ReviewInv, keyRows
  <2> QED BY <1>1, <2>1, TagWritten DEF ReviewInv
<1>3. ASSUME UNCHANGED tag, RowsOK' PROVE ReviewInv' /\ Wins
  BY <1>1, <1>3, TagSame DEF ReviewInv
<1>4. CASE CreateKey
  BY <1>3, <1>4 DEF CreateKey, ReviewInv, RowsOK, ReviewNotLost, Queued
<1>5. CASE DeleteKey
  <2>1. /\ key' = "deleted" /\ vocabulary' = {} /\ owed' = {} /\ lastRow' = lastRow
        /\ queued' = [v \in Value |-> 0] /\ UNCHANGED tag
    BY <1>5 DEF DeleteKey
  <2>2. queued' \in [Value -> 0..MaxRow] /\ Queued' = {}
    BY <2>1, NoRowId DEF Queued
  <2> QED BY <1>3, <2>1, <2>2 DEF ReviewInv, RowsOK, ReviewNotLost
<1>6. ASSUME NEW v \in Value, CreateValue(v) PROVE ReviewInv' /\ Wins
  BY <1>3, <1>6 DEF CreateValue, ReviewInv, RowsOK, ReviewNotLost, Queued
<1>7. ASSUME NEW v \in Value, DeleteValue(v) PROVE ReviewInv' /\ Wins
  <2>1. UNCHANGED <<key, queued, lastRow, tag>> /\ vocabulary' = vocabulary \ {v}
    BY <1>7 DEF DeleteValue
  <2>2. Queued' = Queued
    BY <2>1 DEF Queued
  <2>3. CASE v \in Queued
    BY <1>3, <1>7, <2>1, <2>2, <2>3 DEF DeleteValue, ReviewInv, RowsOK, ReviewNotLost
  <2>4. CASE v \notin Queued
    BY <1>3, <1>7, <2>1, <2>2, <2>4 DEF DeleteValue, ReviewInv, RowsOK, ReviewNotLost
  <2> QED BY <2>3, <2>4
<1>8. ASSUME NEW v \in Value, Reject(v) PROVE ReviewInv' /\ Wins
  <2>1. /\ UNCHANGED <<key, vocabulary, lastRow, tag>> /\ owed' = owed \ {v}
        /\ queued' = [queued EXCEPT ![v] = 0]
    BY <1>8 DEF Reject
  <2>2. queued' \in [Value -> 0..MaxRow] /\ Queued \ {v} \subseteq Queued' /\ Queued' \subseteq Queued
    BY <2>1, DropRow DEF ReviewInv
  <2> QED BY <1>3, <2>1, <2>2 DEF ReviewInv, RowsOK, ReviewNotLost
<1> QED BY <1>2, <1>4, <1>5, <1>6, <1>7, <1>8 DEF Administers

LEMMA IndexesStep ==
  ASSUME ReviewInv, Indexes
  PROVE  ReviewInv' /\ Wins
<1>0. UNCHANGED <<key, vocabulary, request>>
  BY DEF Indexes, UploadReported, LookupKey, InsertFileTagIfAbsent, IndexerChecks,
         IndexerQueues, IndexerFails, IndexerKeeps
<1>1. ASSUME UNCHANGED <<queued, lastRow, owed>>, TagOK' /\ Wins, IndexerOK(indexer')
      PROVE  ReviewInv' /\ Wins
  <2>1. RowsOK'
    BY <1>0, <1>1, RowsSame DEF ReviewInv, keyRows
  <2>2. RequestOK(request') /\ IndexerOK(indexer)'
    BY <1>0, <1>1 DEF ReviewInv
  <2> QED BY <1>1, <2>1, <2>2 DEF ReviewInv
<1>2. ASSUME NEW s \in BOOLEAN, NEW v \in Value \cup {NoValue}, UploadReported(s, v)
      PROVE  ReviewInv' /\ Wins
  <2>1. IndexerOK(indexer')
    <3>1. CASE v = NoValue
      BY <1>2, <3>1 DEF UploadReported, ReviewInv
    <3>2. CASE v # NoValue
      <4>1. v \in Value /\ "lookup" \in IndexerPoints
        BY <3>2 DEF IndexerPoints
      <4> QED BY <1>2, <3>2, <4>1, IndexerStarts DEF UploadReported
    <3> QED BY <3>1, <3>2
  <2>2. TagOK' /\ Wins
    <3>1. tag' = "rule_static" \/ tag' = tag
      BY <1>2 DEF UploadReported
    <3> QED BY <3>1, TagSame, TagWritten DEF ReviewInv
  <2> QED BY <1>1, <1>2, <2>1, <2>2 DEF UploadReported
<1>3. CASE LookupKey
  <2>1. IndexerOK(indexer')
    <3>1. indexer.at # "idle" /\ "insertGoverned" \in IndexerPoints /\ "insert" \in IndexerPoints
      BY <1>3 DEF LookupKey, IndexerPoints
    <3> QED BY <1>3, <3>1, IdleOK, IndexerMoves DEF LookupKey, ReviewInv
  <2>2. UNCHANGED <<queued, lastRow, tag, owed>>
    BY <1>3 DEF LookupKey
  <2> QED BY <1>1, <2>1, <2>2, TagSame DEF ReviewInv
<1>4. CASE InsertFileTagIfAbsent
  <2>1. IndexerOK(AfterInsert)
    <3>1. indexer.at # "idle" /\ "check" \in IndexerPoints
      BY <1>4 DEF InsertFileTagIfAbsent, IndexerPoints
    <3> QED BY <3>1, IdleOK, IndexerMoves DEF AfterInsert, ReviewInv
  <2>2. IndexerOK(indexer')
    BY <1>4, <2>1, IdleOK DEF InsertFileTagIfAbsent
  <2>3. TagOK' /\ Wins
    BY <1>4 DEF InsertFileTagIfAbsent, ReviewInv, TagOK, Wins, Explicit
  <2>4. UNCHANGED <<queued, lastRow, owed>>
    BY <1>4 DEF InsertFileTagIfAbsent
  <2> QED BY <1>1, <2>2, <2>3, <2>4
<1>5. CASE IndexerChecks
  <2>1. IndexerOK(indexer')
    <3>1. indexer.at # "idle" /\ "queue" \in IndexerPoints
      BY <1>5 DEF IndexerChecks, IndexerPoints
    <3> QED BY <1>5, <3>1, IdleOK, IndexerMoves DEF IndexerChecks, ReviewInv
  <2>2. UNCHANGED <<queued, lastRow, tag, owed>>
    BY <1>5 DEF IndexerChecks
  <2> QED BY <1>1, <2>1, <2>2, TagSame DEF ReviewInv
<1>6. CASE IndexerQueues
  <2>1. indexer.value \in Value /\ UpsertPending(indexer.value) /\ indexer' = IdleIndexer /\ tag' = tag
    BY <1>6 DEF IndexerQueues, ReviewInv, IndexerOK
  <2>2. PICK v \in Value : UpsertPending(v)
    BY <2>1
  <2>3. RowsOK'
    BY <1>0, <2>2, UpsertRows DEF ReviewInv
  <2>4. RequestOK(request)' /\ IndexerOK(indexer)'
    BY <1>0, <2>1, IdleOK DEF ReviewInv
  <2> QED BY <2>1, <2>3, <2>4, TagSame DEF ReviewInv
<1>7. CASE IndexerFails
  <2>1. UNCHANGED <<queued, lastRow, tag, owed>> /\ indexer' = IdleIndexer
    BY <1>7 DEF IndexerFails
  <2> QED BY <1>1, <2>1, IdleOK, TagSame DEF ReviewInv
<1> QED BY <1>2, <1>3, <1>4, <1>5, <1>6, <1>7 DEF Indexes

LEMMA RequestsStep ==
  ASSUME ReviewInv, Requests
  PROVE  ReviewInv' /\ Wins
<1>0. UNCHANGED <<key, indexer>>
  BY DEF Requests, SetTags, Submit, MergeChecks, ResolvePending, SetFileTag, RequestChecks,
         RequestQueues, ApproveCreates, ApproveDrops, RequestEnds, RequestKeeps
<1>1. ASSUME RowsOK', TagOK' /\ Wins, RequestOK(request')
      PROVE  ReviewInv' /\ Wins
  <2>1. IndexerOK(indexer)' /\ RequestOK(request)'
    BY <1>0, <1>1 DEF ReviewInv
  <2> QED BY <1>1, <2>1 DEF ReviewInv
<1>2. ASSUME UNCHANGED <<vocabulary, queued, lastRow, tag, owed>>, RequestOK(request')
      PROVE  ReviewInv' /\ Wins
  <2>1. RowsOK'
    BY <1>0, <1>2, RowsSame DEF ReviewInv, keyRows
  <2>2. TagOK' /\ Wins
    BY <1>2, TagSame DEF ReviewInv
  <2> QED BY <1>1, <1>2, <2>1, <2>2
<1>3. /\ "set" \in RequestPoints /\ "check" \in RequestPoints /\ "queue" \in RequestPoints
      /\ "approve" \in RequestPoints /\ "approve2" \in RequestPoints /\ "merge" \in RequestPoints
  BY DEF RequestPoints
<1>4. ASSUME NEW v \in Value, SetTags(v) \/ Submit(v) PROVE ReviewInv' /\ Wins
  BY <1>2, <1>3, <1>4, RequestStarts DEF SetTags, Submit
<1>5. ASSUME NEW v \in Value, MergeChecks(v) PROVE ReviewInv' /\ Wins
  BY <1>2, <1>5, IdleOK DEF MergeChecks
<1>6. ASSUME NEW v \in Value, NEW at \in {"approve", "merge"}, ResolvePending(v, at)
      PROVE  ReviewInv' /\ Wins
  BY <1>2, <1>3, <1>6, RequestStarts DEF ResolvePending
<1>7. CASE SetFileTag
  <2>1. RequestOK(request')
    BY <1>3, <1>7, IdleOK, RequestMoves DEF SetFileTag, ReviewInv
  <2>2. UNCHANGED <<vocabulary, queued, lastRow, owed>> /\ tag' = "manual"
    BY <1>7 DEF SetFileTag, SetFileTagRow
  <2> QED BY <1>0, <1>1, <2>1, <2>2, RowsSame, TagWritten DEF ReviewInv, keyRows
<1>8. CASE RequestChecks
  <2>1. RequestOK(request')
    BY <1>3, <1>8, IdleOK, RequestMoves DEF RequestChecks, ReviewInv
  <2> QED BY <1>2, <1>8, <2>1 DEF RequestChecks
<1>9. CASE RequestQueues
  <2>1. /\ request.value \in Value /\ UpsertPending(request.value) /\ request' = IdleRequest
        /\ UNCHANGED <<vocabulary, tag>>
    BY <1>9 DEF RequestQueues, ReviewInv, RequestOK
  <2>2. PICK v \in Value : UpsertPending(v)
    BY <2>1
  <2>3. RowsOK'
    BY <1>0, <2>1, <2>2, UpsertRows DEF ReviewInv
  <2> QED BY <1>1, <2>1, <2>3, IdleOK, TagSame DEF ReviewInv
<1>10. CASE ApproveCreates
  <2>1. /\ request.at # "idle" /\ RequestGoes("approve2")
        /\ UNCHANGED <<queued, lastRow, tag, owed>>
        /\ vocabulary' = IF key = "there" THEN vocabulary \cup {request.value} ELSE vocabulary
    BY <1>10 DEF ApproveCreates
  <2>2. RequestOK(request') /\ request.value \in Value
    BY <1>3, <2>1, RequestMoves DEF ReviewInv, RequestOK
  <2>3. Queued' = Queued
    BY <2>1 DEF Queued
  <2>4. RowsOK'
    BY <1>0, <2>1, <2>2, <2>3 DEF ReviewInv, RowsOK, ReviewNotLost
  <2> QED BY <1>1, <2>1, <2>2, <2>4, TagSame DEF ReviewInv
<1>11. CASE ApproveDrops
  <2>1. PICK v, r : v = request.value /\ r = request.row
    OBVIOUS
  <2>2. /\ request' = IdleRequest /\ UNCHANGED <<vocabulary, lastRow, tag>>
        /\ queued' = Without(v, r) /\ owed' = IF v \in vocabulary THEN owed ELSE owed \ {v}
    BY <1>11, <2>1 DEF ApproveDrops
  <2>3. queued' \in [Value -> 0..MaxRow] /\ Queued \ {v} \subseteq Queued' /\ Queued' \subseteq Queued
    BY <2>2, WithoutRow DEF ReviewInv
  <2>4. RowsOK'
    BY <1>0, <2>2, <2>3 DEF ReviewInv, RowsOK, ReviewNotLost
  <2> QED BY <1>1, <2>2, <2>4, IdleOK, TagSame DEF ReviewInv
<1>12. CASE RequestEnds
  BY <1>2, <1>12, IdleOK DEF RequestEnds
<1> QED BY <1>4, <1>5, <1>6, <1>7, <1>8, <1>9, <1>10, <1>11, <1>12 DEF Requests

LEMMA MergeDropsStep ==
  ASSUME ReviewInv, MergeDrops
  PROVE  ReviewInv' /\ Wins
<1>1. UNCHANGED <<key, vocabulary, lastRow, tag, indexer, request>>
  BY DEF MergeDrops
<1>2. RowsOK'
  <2>1. CASE UNCHANGED <<queued, owed>>
    BY <1>1, <2>1, RowsSame DEF ReviewInv, keyRows
  <2>2. CASE /\ queued' = Without(merge.value, merge.row)
             /\ owed' = IF queued' = queued THEN owed ELSE owed \ {merge.value}
    <3>1. PICK v, r : v = merge.value /\ r = merge.row
      OBVIOUS
    <3>2. queued' \in [Value -> 0..MaxRow] /\ Queued \ {v} \subseteq Queued' /\ Queued' \subseteq Queued
      BY <2>2, <3>1, WithoutRow DEF ReviewInv
    <3>3. CASE queued' = queued
      BY <1>1, <2>2, <3>3, RowsSame DEF ReviewInv, keyRows
    <3>4. CASE queued' # queued
      <4>1. owed' = owed \ {v}
        BY <2>2, <3>1, <3>4
      <4> QED BY <1>1, <3>2, <4>1 DEF ReviewInv, RowsOK, ReviewNotLost
    <3> QED BY <3>3, <3>4
  <2> QED BY <2>1, <2>2 DEF MergeDrops
<1> QED BY <1>1, <1>2, TagSame DEF ReviewInv, IndexerOK, RequestOK

LEMMA ReviewStep == ReviewInv /\ [ReviewNext]_reviewVars => ReviewInv' /\ Wins
<1> SUFFICES ASSUME ReviewInv, [ReviewNext]_reviewVars PROVE ReviewInv' /\ Wins
  OBVIOUS
<1>1. CASE ControlPlaneRestarts
  <2>1. RowsOK' /\ UNCHANGED tag
    BY <1>1, RowsSame DEF ControlPlaneRestarts, ReviewInv, keyRows
  <2>2. IndexerOK(indexer)' /\ RequestOK(request)'
    BY <1>1, IdleOK DEF ControlPlaneRestarts
  <2> QED BY <2>1, <2>2, TagSame DEF ReviewInv
<1>2. CASE UNCHANGED reviewVars
  <2>1. RowsOK' /\ UNCHANGED tag
    BY <1>2, RowsSame DEF reviewVars, ReviewInv, keyRows
  <2>2. IndexerOK(indexer)' /\ RequestOK(request)'
    BY <1>2 DEF reviewVars, ReviewInv
  <2> QED BY <2>1, <2>2, TagSame DEF ReviewInv
<1> QED BY <1>1, <1>2, AdministersStep, IndexesStep, RequestsStep, MergeDropsStep DEF ReviewNext

\* No value under review and no explicit tag is lost, whatever the values, wherever a
\* report, a request or a job is cut short.
THEOREM ReviewAlwaysHolds == ReviewSpec => ReviewHolds
<1>1. ReviewInit => ReviewInv
  <2> SUFFICES ASSUME ReviewInit PROVE ReviewInv
    OBVIOUS
  <2>1. queued \in [Value -> 0..MaxRow] /\ Queued = {} /\ lastRow \in 0..MaxRow
    BY NoRowId DEF ReviewInit, Queued
  <2> QED BY <2>1, IdleOK DEF ReviewInit, ReviewInv, RowsOK, ReviewNotLost, TagOK
<1>2. ReviewInv => ReviewTypeOK /\ ReviewNotLost
  BY DEF ReviewInv, RowsOK, TagOK, IndexerOK, RequestOK, IndexerPoints, RequestPoints, ReviewTypeOK
<1>3. ReviewInv /\ [ReviewNext]_reviewVars => [(tag \in Explicit) => (tag' # "path_var")]_reviewVars
  BY ReviewStep DEF Wins
<1> QED BY <1>1, <1>2, <1>3, ReviewStep, PTL DEF ReviewSpec, ReviewHolds, ExplicitWins

-----------------------------------------------------------------------------
(* RetagJobs.  The jobs behind one that is not recorded have not started.  *)

\* A job that is still to be recorded, and not one whose outcome was lost.
OpenJob(j) == j.status \in {"pending", "running"} /\ ~j.stranded

\* The inductive invariant: the jobs after an open one have not been started.
JobsInv ==
  /\ jobs \in Seq(JobRecord) /\ JobsTypeOK
  /\ DOMAIN worker = {"at", "job"} /\ worker.at \in {"idle", "apply", "mark", "fail", "start"}
  /\ IF worker.at \in {"idle", "start"} THEN worker.job = 0
     ELSE worker.job \in DOMAIN jobs /\ jobs[worker.job].status = "running"
  /\ \A n, m \in DOMAIN jobs : n < m /\ OpenJob(jobs[n]) => jobs[m].status = "pending"

\* What JobsInOrder says of one step.
InOrder == Applies => (Current.stranded \/ \A n \in DOMAIN jobs : n > worker.job => n \in Pending)

LEMMA JobFields ==
  ASSUME NEW k \in {"merge", "batch_tag"}, NEW f \in TagValue \cup {NoTag}, NEW t \in TagValue \cup {NoTag}
  PROVE  /\ Job(k, f, t) \in JobRecord
         /\ Job(k, f, t).status = "pending" /\ ~Job(k, f, t).stranded
BY SMT DEF Job, JobRecord

LEMMA RecordedFields ==
  ASSUME NEW s \in {"done", "failed"}
  PROVE  Recorded(s) \in JobRecord /\ Recorded(s).status = s /\ ~OpenJob(Recorded(s))
<1>1. PICK j : j = Job("merge", NoTag, NoTag)
  OBVIOUS
<1>2. j \in JobRecord
  BY <1>1, JobFields
<1>3. PICK r : r = [j EXCEPT !.status = s]
  OBVIOUS
<1>4. r \in JobRecord /\ r.status = s
  BY <1>2, <1>3, SMT DEF JobRecord
<1> QED BY <1>1, <1>3, <1>4 DEF Recorded, OpenJob

LEMMA WithRunning ==
  ASSUME NEW j \in JobRecord, NEW r, r = [j EXCEPT !.status = "running"]
  PROVE  r \in JobRecord /\ r.status = "running" /\ r.stranded = j.stranded
BY SMT DEF JobRecord

LEMMA WithStranded ==
  ASSUME NEW j \in JobRecord, NEW b \in BOOLEAN, NEW r, r = [j EXCEPT !.stranded = b]
  PROVE  r \in JobRecord /\ r.status = j.status /\ r.stranded = b
BY SMT DEF JobRecord

LEMMA WithBoth ==
  ASSUME NEW j \in JobRecord, NEW s \in {"pending", "running"}, NEW b \in BOOLEAN,
         NEW r, r = [j EXCEPT !.status = s, !.stranded = b]
  PROVE  r \in JobRecord /\ r.status = s /\ r.stranded = b
<1>1. PICK q : q = [j EXCEPT !.status = s]
  OBVIOUS
<1>2. q \in JobRecord /\ q.status = s
  BY <1>1, SMT DEF JobRecord
<1>3. r = [q EXCEPT !.stranded = b]
  BY <1>1
<1> QED BY <1>2, <1>3, WithStranded

LEMMA JobsAreNumbered ==
  ASSUME jobs \in Seq(JobRecord)
  PROVE  DOMAIN jobs = 1..Len(jobs) /\ Len(jobs) \in Nat /\ 0 \notin DOMAIN jobs
         /\ \A n \in DOMAIN jobs : jobs[n] \in JobRecord
BY SMT

\* One job changes.
LEMMA OneJob ==
  ASSUME jobs \in Seq(JobRecord), NEW n \in DOMAIN jobs, NEW j \in JobRecord,
         jobs' = [jobs EXCEPT ![n] = j]
  PROVE  /\ jobs' \in Seq(JobRecord) /\ Len(jobs') = Len(jobs) /\ DOMAIN jobs' = DOMAIN jobs
         /\ jobs'[n] = j /\ \A m \in DOMAIN jobs : m # n => jobs'[m] = jobs[m]
BY SMT

LEMMA WorkerMoves ==
  ASSUME DOMAIN worker = {"at", "job"}, NEW a, worker' = [worker EXCEPT !.at = a]
  PROVE  DOMAIN worker' = {"at", "job"} /\ worker'.at = a /\ worker'.job = worker.job
OBVIOUS

LEMMA NewWorker ==
  ASSUME NEW a, NEW n, worker' = [at |-> a, job |-> n]
  PROVE  DOMAIN worker' = {"at", "job"} /\ worker'.at = a /\ worker'.job = n
BY SMT

\* A job is the first of the pending ones when the worker takes it, and the others
\* that run are stranded, so nothing after an open job runs.
LEMMA ClaimStep ==
  ASSUME JobsInv, ClaimNextRetagJob
  PROVE  JobsInv'
<1>0. jobs \in Seq(JobRecord) /\ fileTag' = fileTag /\ worker.at = "idle" /\ worker.job = 0
  BY DEF JobsInv, ClaimNextRetagJob
<1>1. PICK n \in Pending : /\ \A m \in Pending : n <= m
                           /\ worker' = [at |-> "apply", job |-> n]
                           /\ jobs' = [jobs EXCEPT ![n].status = "running"]
  BY DEF ClaimNextRetagJob
<1>2. PICK j : j = [jobs[n] EXCEPT !.status = "running"]
  OBVIOUS
<1>3. n \in DOMAIN jobs /\ jobs[n].status = "pending" /\ jobs[n] \in JobRecord
  BY <1>0, <1>1, JobsAreNumbered DEF Pending
<1>4. j \in JobRecord /\ j.status = "running" /\ j.stranded = jobs[n].stranded
  BY <1>2, <1>3, WithRunning
<1>5. jobs' = [jobs EXCEPT ![n] = j]
  BY <1>1, <1>2
<1>6. /\ jobs' \in Seq(JobRecord) /\ Len(jobs') = Len(jobs) /\ DOMAIN jobs' = DOMAIN jobs
      /\ jobs'[n] = j /\ \A m \in DOMAIN jobs : m # n => jobs'[m] = jobs[m]
  BY <1>0, <1>3, <1>4, <1>5, OneJob
<1>7. DOMAIN worker' = {"at", "job"} /\ worker'.at = "apply" /\ worker'.job = n
  BY <1>1, NewWorker
<1>8. ASSUME NEW k \in DOMAIN jobs', NEW m \in DOMAIN jobs', k < m, OpenJob(jobs'[k])
      PROVE  jobs'[m].status = "pending"
  <2>1. OpenJob(jobs[k])
    BY <1>3, <1>4, <1>6, <1>8 DEF OpenJob
  <2>2. jobs[m].status = "pending"
    BY <1>6, <1>8, <2>1 DEF JobsInv
  <2>3. jobs[k].status = "pending"
    BY <1>0, <1>6, <2>1, JobsAreNumbered DEF JobsInv, JobsTypeOK, OpenJob
  <2>4. m # n
    <3>1. n <= k
      BY <1>1, <1>6, <2>3 DEF Pending
    <3>2. n \in Nat /\ k \in Nat /\ m \in Nat
      BY <1>0, <1>3, <1>6, JobsAreNumbered, SMT
    <3> QED BY <1>8, <3>1, <3>2, SMT
  <2> QED BY <1>6, <2>2, <2>4
<1>9. \A k \in DOMAIN jobs' : jobs'[k] \in JobRecord /\
        (jobs'[k].status = "running" => k = worker'.job \/ jobs'[k].stranded \/ worker'.at = "start")
  <2>1. \A k \in DOMAIN jobs : jobs[k].status = "running" => jobs[k].stranded
    BY <1>0, JobsAreNumbered DEF JobsInv, JobsTypeOK
  <2> QED BY <1>0, <1>4, <1>6, <1>7, <2>1, JobsAreNumbered
<1>10. JobsTypeOK'
  BY <1>0, <1>6, <1>9 DEF JobsInv, JobsTypeOK
<1> QED BY <1>3, <1>4, <1>6, <1>7, <1>8, <1>10 DEF JobsInv

\* The job in hand is recorded, or stranded: it is open no longer.
LEMMA ClosesStep ==
  ASSUME JobsInv, worker.at \in {"mark", "fail"}, worker' = IdleWorker, fileTag' = fileTag,
         NEW j \in JobRecord, ~OpenJob(j), j.status # "running" \/ j.stranded,
         jobs' = [jobs EXCEPT ![worker.job] = j]
  PROVE  JobsInv'
<1>0. /\ jobs \in Seq(JobRecord)
      /\ worker.job \in DOMAIN jobs /\ jobs[worker.job].status = "running"
  BY DEF JobsInv
<1>1. PICK n \in DOMAIN jobs : n = worker.job
  BY <1>0
<1>2. /\ jobs' \in Seq(JobRecord) /\ Len(jobs') = Len(jobs) /\ DOMAIN jobs' = DOMAIN jobs
      /\ jobs'[n] = j /\ \A m \in DOMAIN jobs : m # n => jobs'[m] = jobs[m]
  BY <1>0, <1>1, OneJob
<1>3. DOMAIN worker' = {"at", "job"} /\ worker'.at = "idle" /\ worker'.job = 0
  BY NewWorker DEF IdleWorker
<1>4. ASSUME NEW k \in DOMAIN jobs', NEW m \in DOMAIN jobs', k < m, OpenJob(jobs'[k])
      PROVE  jobs'[m].status = "pending"
  <2>1. k # n /\ OpenJob(jobs[k])
    BY <1>2, <1>4
  <2>2. jobs[m].status = "pending"
    BY <1>2, <1>4, <2>1 DEF JobsInv
  <2>3. m # n
    BY <1>0, <1>1, <2>2
  <2> QED BY <1>2, <2>2, <2>3
<1>5. \A k \in DOMAIN jobs' : jobs'[k] \in JobRecord /\
        (jobs'[k].status = "running" => k = worker'.job \/ jobs'[k].stranded \/ worker'.at = "start")
  BY <1>1, <1>2 DEF JobsInv, JobsTypeOK
<1>6. JobsTypeOK'
  BY <1>2, <1>5 DEF JobsInv, JobsTypeOK
<1> QED BY <1>2, <1>3, <1>4, <1>6 DEF JobsInv

LEMMA MarkStep ==
  ASSUME JobsInv, MarkJob
  PROVE  JobsInv'
<1>0. /\ jobs \in Seq(JobRecord) /\ fileTag' = fileTag /\ worker.at \in {"mark", "fail"}
      /\ worker.job \in DOMAIN jobs /\ jobs[worker.job] \in JobRecord /\ DOMAIN worker = {"at", "job"}
  BY JobsAreNumbered DEF MarkJob, JobsInv
<1>1. CASE worker' = IdleWorker /\ jobs' = [jobs EXCEPT ![worker.job] = Recorded("done")]
  <2>1. PICK j : j = Recorded("done")
    OBVIOUS
  <2>2. j \in JobRecord /\ ~OpenJob(j) /\ j.status # "running"
    BY <2>1, RecordedFields
  <2> QED BY <1>0, <1>1, <2>1, <2>2, ClosesStep
<1>2. CASE worker' = IdleWorker /\ jobs' = [jobs EXCEPT ![worker.job] = Recorded("failed")]
  <2>1. PICK j : j = Recorded("failed")
    OBVIOUS
  <2>2. j \in JobRecord /\ ~OpenJob(j) /\ j.status # "running"
    BY <2>1, RecordedFields
  <2> QED BY <1>0, <1>2, <2>1, <2>2, ClosesStep
<1>3. CASE worker' = IdleWorker /\ jobs' = [jobs EXCEPT ![worker.job].stranded = TRUE]
  <2>1. PICK j : j = [jobs[worker.job] EXCEPT !.stranded = TRUE]
    OBVIOUS
  <2>2. j \in JobRecord /\ j.stranded
    BY <1>0, <2>1, WithStranded
  <2>3. ~OpenJob(j)
    BY <2>2 DEF OpenJob
  <2>4. jobs' = [jobs EXCEPT ![worker.job] = j]
    BY <1>3, <2>1
  <2> QED BY <1>0, <1>3, <2>2, <2>3, <2>4, ClosesStep
<1>4. CASE worker' = [worker EXCEPT !.at = "fail"] /\ UNCHANGED jobs
  <2>1. DOMAIN worker' = {"at", "job"} /\ worker'.at = "fail" /\ worker'.job = worker.job
    BY <1>0, <1>4, WorkerMoves
  <2> QED BY <1>0, <1>4, <2>1 DEF JobsInv, JobsTypeOK
<1> QED BY <1>1, <1>2, <1>3, <1>4 DEF MarkJob

\* What was running is pending again, or stranded.
LEMMA RequeueStep ==
  ASSUME JobsInv, RequeueStale
  PROVE  JobsInv'
<1>0. jobs \in Seq(JobRecord) /\ fileTag' = fileTag /\ worker' = IdleWorker
  BY DEF JobsInv, RequeueStale
<1>1. PICK failed \in BOOLEAN :
        jobs' = [n \in DOMAIN jobs |->
                   IF jobs[n].status # "running" THEN jobs[n]
                   ELSE [jobs[n] EXCEPT !.status = IF failed THEN "running" ELSE "pending",
                                        !.stranded = jobs[n].stranded \/ failed]]
  BY DEF RequeueStale
<1>2. DOMAIN worker' = {"at", "job"} /\ worker'.at = "idle" /\ worker'.job = 0
  BY <1>0, NewWorker DEF IdleWorker
<1>3. ASSUME NEW n \in DOMAIN jobs
      PROVE  /\ jobs'[n] \in JobRecord
             /\ jobs'[n].status = "running" => jobs'[n].stranded
             /\ jobs[n].status = "pending" => jobs'[n].status = "pending"
             /\ OpenJob(jobs'[n]) => OpenJob(jobs[n])
  <2>0. jobs[n] \in JobRecord
    BY <1>0, JobsAreNumbered
  <2>1. CASE jobs[n].status # "running"
    <3>1. jobs'[n] = jobs[n]
      BY <1>1, <2>1
    <3> QED BY <2>0, <2>1, <3>1
  <2>2. CASE jobs[n].status = "running" /\ failed
    <3>1. PICK r : r = [jobs[n] EXCEPT !.status = "running", !.stranded = TRUE]
      OBVIOUS
    <3>2. jobs'[n] = r
      BY <1>1, <2>2, <3>1
    <3>3. PICK b \in BOOLEAN, p \in {"pending", "running"} : b = TRUE /\ p = "running"
      OBVIOUS
    <3>4. r \in JobRecord /\ r.status = "running" /\ r.stranded = TRUE
      <4>1. PICK j \in JobRecord : j = jobs[n]
        BY <2>0
      <4>2. r = [j EXCEPT !.status = p, !.stranded = b]
        BY <3>1, <3>3, <4>1
      <4>3. r \in JobRecord /\ r.status = p /\ r.stranded = b
        BY <4>2, WithBoth
      <4> QED BY <3>3, <4>3
    <3> QED BY <2>2, <3>2, <3>4 DEF OpenJob
  <2>3. CASE jobs[n].status = "running" /\ ~failed
    <3>1. PICK r : r = [jobs[n] EXCEPT !.status = "pending", !.stranded = jobs[n].stranded]
      OBVIOUS
    <3>2. jobs'[n] = r
      <4>1. (jobs[n].stranded \/ failed) = jobs[n].stranded
        BY <2>0, <2>3 DEF JobRecord
      <4> QED BY <1>1, <2>3, <3>1, <4>1
    <3>3. PICK b \in BOOLEAN, p \in {"pending", "running"} : b = jobs[n].stranded /\ p = "pending"
      BY <2>0 DEF JobRecord
    <3>4. r \in JobRecord /\ r.status = "pending" /\ r.stranded = jobs[n].stranded
      <4>1. PICK j \in JobRecord : j = jobs[n]
        BY <2>0
      <4>2. r = [j EXCEPT !.status = p, !.stranded = b]
        BY <3>1, <3>3, <4>1
      <4>3. r \in JobRecord /\ r.status = p /\ r.stranded = b
        BY <4>2, WithBoth
      <4> QED BY <3>3, <4>3
    <3> QED BY <2>3, <3>2, <3>4 DEF OpenJob
  <2> QED BY <2>1, <2>2, <2>3
<1>4. DOMAIN jobs' = DOMAIN jobs
  BY <1>1
<1>5. jobs' \in Seq(JobRecord) /\ Len(jobs') = Len(jobs)
  <2>1. PICK N \in Nat : DOMAIN jobs = 1..N /\ N = Len(jobs)
    BY <1>0, JobsAreNumbered
  <2>2. jobs' \in [1..N -> JobRecord]
    BY <1>1, <1>3, <2>1
  <2> QED BY <2>1, <2>2, SMT
<1>6. JobsTypeOK'
  BY <1>0, <1>3, <1>4, <1>5 DEF JobsInv, JobsTypeOK
<1>7. ASSUME NEW k \in DOMAIN jobs', NEW m \in DOMAIN jobs', k < m, OpenJob(jobs'[k])
      PROVE  jobs'[m].status = "pending"
  BY <1>3, <1>4, <1>7 DEF JobsInv
<1> QED BY <1>2, <1>5, <1>6, <1>7 DEF JobsInv

LEMMA EnqueueStep ==
  ASSUME JobsInv, NEW k \in {"merge", "batch_tag"},
         NEW f \in TagValue \cup {NoTag}, NEW t \in TagValue \cup {NoTag}, EnqueueRetagJob(k, f, t)
  PROVE  JobsInv'
<1>1. PICK j : j = Job(k, f, t)
  OBVIOUS
<1>2. j \in JobRecord /\ j.status = "pending"
  BY <1>1, JobFields
<1>3. Len(jobs) < MaxJob /\ jobs' = Append(jobs, j) /\ UNCHANGED <<worker, fileTag>>
  BY <1>1 DEF EnqueueRetagJob
<1>4. PICK N \in Nat : N = Len(jobs) /\ DOMAIN jobs = 1..N
  BY JobsAreNumbered DEF JobsInv
<1>5. /\ jobs' \in Seq(JobRecord) /\ Len(jobs') = N + 1 /\ DOMAIN jobs' = 1..(N + 1)
      /\ jobs'[N + 1] = j /\ \A m \in 1..N : jobs'[m] = jobs[m]
  BY <1>2, <1>3, <1>4, SMT DEF JobsInv
<1>6. N + 1 <= MaxJob
  BY <1>3, <1>4, JobAssumption, SMT
<1>7. \A m \in 1..(N + 1) : m \in 1..N \/ m = N + 1
  BY SMT
<1>8. 1..N \subseteq 1..(N + 1)
  BY SMT
<1>9. JobsTypeOK'
  <2>1. Len(jobs') <= MaxJob /\ fileTag' \in TagValue \cup {NoTag}
    BY <1>3, <1>5, <1>6 DEF JobsInv, JobsTypeOK
  <2>2. ASSUME NEW n \in DOMAIN jobs'
        PROVE  jobs'[n] \in JobRecord /\ (jobs'[n].status = "running"
                 => n = worker'.job \/ jobs'[n].stranded \/ worker'.at = "start")
    <3>1. CASE n \in 1..N
      BY <1>3, <1>4, <1>5, <3>1 DEF JobsInv, JobsTypeOK
    <3>2. CASE n = N + 1
      BY <1>2, <1>5, <3>2
    <3> QED BY <1>5, <1>7, <3>1, <3>2
  <2> QED BY <2>1, <2>2 DEF JobsTypeOK
<1>10. ASSUME NEW n \in DOMAIN jobs', NEW m \in DOMAIN jobs', n < m, OpenJob(jobs'[n])
      PROVE  jobs'[m].status = "pending"
  <2>1. CASE m = N + 1
    BY <1>2, <1>5, <2>1
  <2>2. CASE m \in 1..N
    <3>1. n \in 1..N
      BY <1>4, <1>5, <1>10, <2>2, SMT
    <3> QED BY <1>4, <1>5, <1>10, <2>2, <3>1 DEF JobsInv
  <2> QED BY <1>5, <1>7, <2>1, <2>2
<1>11. worker.at \in {"idle", "start"} \/ (worker'.job \in DOMAIN jobs' /\ jobs'[worker'.job].status = "running")
  BY <1>3, <1>4, <1>5, <1>8 DEF JobsInv
<1> QED BY <1>3, <1>5, <1>9, <1>10, <1>11 DEF JobsInv

LEMMA JobsStep == JobsInv /\ [JobsNext]_jobVars => JobsInv' /\ InOrder
<1> SUFFICES ASSUME JobsInv, [JobsNext]_jobVars PROVE JobsInv' /\ InOrder
  OBVIOUS
<1>0. jobs \in Seq(JobRecord) /\ JobsTypeOK
  BY DEF JobsInv
<1>1. InOrder
  <2> SUFFICES ASSUME Applies, ~Current.stranded, NEW n \in DOMAIN jobs, n > worker.job PROVE n \in Pending
    BY DEF InOrder
  <2>1. worker.job \in DOMAIN jobs /\ jobs[worker.job].status = "running"
    BY DEF Applies, JobsInv
  <2>2. OpenJob(jobs[worker.job])
    BY <2>1 DEF OpenJob, Current
  <2>3. worker.job < n
    BY <1>0, <2>1, JobsAreNumbered, SMT
  <2> QED BY <2>1, <2>2, <2>3 DEF JobsInv, Pending
<1>2. CASE ApplyJob \/ ApplyFails
  <2>1. PICK a \in {"mark", "fail"} : worker' = [worker EXCEPT !.at = a]
    BY <1>2 DEF ApplyJob, ApplyFails
  <2>2. jobs' = jobs /\ worker.at = "apply"
    BY <1>2 DEF ApplyJob, ApplyFails
  <2>3. DOMAIN worker' = {"at", "job"} /\ worker'.at = a /\ worker'.job = worker.job
    BY <2>1, WorkerMoves DEF JobsInv
  <2>4. fileTag' \in TagValue \cup {NoTag}
    <3>1. Current \in JobRecord /\ fileTag \in TagValue \cup {NoTag}
      BY <2>2 DEF Current, JobsInv, JobsTypeOK
    <3>2. Current.to \in TagValue \cup {NoTag}
      BY <3>1 DEF JobRecord
    <3> QED BY <1>2, <3>1, <3>2 DEF ApplyJob, ApplyFails
  <2>5. JobsInv'
    BY <2>1, <2>2, <2>3, <2>4 DEF JobsInv, JobsTypeOK
  <2> QED BY <1>1, <2>5
<1>3. CASE Restart
  <2>1. worker' = [at |-> "start", job |-> 0] /\ UNCHANGED <<jobs, fileTag>>
    BY <1>3 DEF Restart
  <2>2. DOMAIN worker' = {"at", "job"} /\ worker'.at = "start" /\ worker'.job = 0
    BY <2>1, NewWorker
  <2> QED BY <1>1, <2>1, <2>2 DEF JobsInv, JobsTypeOK
<1>4. ASSUME NEW v \in TagValue \cup {NoTag}, EnqueueBatch(v) PROVE JobsInv'
  BY <1>4, EnqueueStep DEF EnqueueBatch
<1>5. ASSUME NEW v \in TagValue \cup {NoTag}, TagFile(v) PROVE JobsInv'
  BY <1>5 DEF TagFile, JobsInv, JobsTypeOK
<1>6. ASSUME NEW v \in TagValue, NEW w \in TagValue, EnqueueMerge(v, w) PROVE JobsInv'
  <2>1. EnqueueRetagJob("merge", v, w)
    BY <1>6 DEF EnqueueMerge
  <2> QED BY <2>1, EnqueueStep
<1>7. CASE UNCHANGED jobVars
  BY <1>1, <1>7 DEF jobVars, JobsInv, JobsTypeOK
<1> QED BY <1>1, <1>2, <1>3, <1>4, <1>5, <1>6, <1>7, ClaimStep, MarkStep, RequeueStep DEF JobsNext, WorkerStep

\* Jobs take effect in the order they were enqueued, and one at a time, for any number
\* of jobs, failures and restarts.
THEOREM JobsAlwaysInOrder == JobsSpec => []JobsTypeOK /\ JobsInOrder
<1>1. JobsInit => JobsInv
  <2> SUFFICES ASSUME JobsInit PROVE JobsInv
    OBVIOUS
  <2>1. jobs \in Seq(JobRecord) /\ Len(jobs) = 0 /\ DOMAIN jobs = {}
    BY SMT DEF JobsInit
  <2>2. DOMAIN worker = {"at", "job"} /\ worker.at = "idle" /\ worker.job = 0
    BY SMT DEF JobsInit, IdleWorker
  <2>3. Len(jobs) <= MaxJob
    BY <2>1, JobAssumption, SMT
  <2> QED BY <2>1, <2>2, <2>3 DEF JobsInit, JobsInv, JobsTypeOK
<1>2. JobsInv => JobsTypeOK
  BY DEF JobsInv
<1>3. JobsInv /\ [JobsNext]_jobVars =>
        [Applies => (Current.stranded \/ \A n \in DOMAIN jobs : n > worker.job => n \in Pending)]_jobVars
  BY JobsStep DEF InOrder
<1> QED BY <1>1, <1>2, <1>3, JobsStep, PTL DEF JobsSpec, JobsInOrder
=============================================================================
