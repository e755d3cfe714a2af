-------------------------- MODULE StorageWebhook --------------------------
(* The MinIO event webhook: POST /internal/minio-event.  The object store  *)
(* posts the head of its notification queue until it is answered 200.  The *)
(* handler applies each record to the file index; a record that fails is   *)
(* counted in PostgreSQL, retried below a cap and dead-lettered above it.  *)
(* The store gives up on a slow answer and posts again, so two handlers    *)
(* may work on the same notification; a control-plane crash loses both.    *)
EXTENDS Integers, Sequences, FiniteSets

CONSTANTS Body,        \* the notifications
          Event,       \* records: bucket, key and sequencer identify each
          Records,     \* [Body -> Seq(Event)]: the records of a parseable body
          Garbage,     \* bodies that are not valid JSON
          Oversized,   \* bodies above WEBHOOK_MAX_PARSE_BYTES
          Undecodable, \* records whose key is not valid URL encoding
          Ignored,     \* records that are neither creations nor removals
          FailLimit,   \* WEBHOOK_FAIL_LIMIT
          Handler      \* concurrent requests

ASSUME WebAssumption == /\ FailLimit \in Nat
                        /\ Garbage \subseteq Body
                        /\ Oversized \subseteq Body
                        /\ Garbage \cap Oversized = {}
                        /\ Undecodable \subseteq Event
                        /\ Ignored \subseteq Event
                        /\ Undecodable \cap Ignored = {}
                        /\ Records \in [Body -> Seq(Event)]
                        /\ \A b \in Garbage \cup Oversized : Records[b] = <<>>
                        /\ Body \cap Event = {}

VARIABLES outbox,      \* the store's persistent queue, head first
          unsent,      \* notifications the store has not raised yet
          serving,     \* per handler: what it is doing
          failCount,   \* webhook_fail_counters, by record
          inIndex,     \* records the index has processed
          deadLetters  \* webhook_dead_letters, by dedup key

webVars == <<outbox, unsent, serving, failCount, inIndex, deadLetters>>

NoRequest == [at |-> "idle"]

(* A body the handler never unpacks is kept whole, under its hash. *)
Whole(b) == b \in Garbage \cup Oversized

(* What must be durable before a notification may be forgotten. *)
FactsOf(b) == IF Whole(b) THEN {b}
              ELSE {Records[b][i] : i \in DOMAIN Records[b]} \ Ignored

WebInit == /\ outbox = <<>>
           /\ unsent = Body
           /\ serving = [h \in Handler |-> NoRequest]
           /\ failCount = [e \in Event |-> 0]
           /\ inIndex = {}
           /\ deadLetters = {}

--------------------------------------------------------------------------
(* The object store. *)

Notify(b) == /\ b \in unsent
             /\ unsent' = unsent \ {b}
             /\ outbox' = Append(outbox, b)
             /\ UNCHANGED <<serving, failCount, inIndex, deadLetters>>

Waiting(h) == serving[h] # NoRequest /\ serving[h].live

(* The head is posted when no answer is outstanding for it. *)
Post(h) ==
  /\ outbox # <<>>
  /\ serving[h].at = "idle"
  /\ \A g \in Handler : ~Waiting(g)
  /\ serving' = [serving EXCEPT ![h] =
       [at |-> IF Whole(Head(outbox)) THEN "persist" ELSE "record",
        body |-> Head(outbox), next |-> 1, failed |-> FALSE, live |-> TRUE]]
  /\ UNCHANGED <<outbox, unsent, failCount, inIndex, deadLetters>>

(* The store stops waiting for this answer; the handler runs on. *)
StoreGivesUp(h) ==
  /\ Waiting(h)
  /\ serving' = [serving EXCEPT ![h].live = FALSE]
  /\ UNCHANGED <<outbox, unsent, failCount, inIndex, deadLetters>>

--------------------------------------------------------------------------
(* The handler, one database call per step. *)

Record(h) == Records[serving[h].body][serving[h].next]

AtRecord(h) == /\ serving[h].at = "record"
               /\ serving[h].next <= Len(Records[serving[h].body])

(* Go on with the next record; `retry` says this one needs redelivery. *)
Advanced(r, retry) ==
  [r EXCEPT !.at = "record", !.next = @ + 1, !.failed = IF retry THEN TRUE ELSE @]
NextRecord(h, retry) == serving' = [serving EXCEPT ![h] = Advanced(@, retry)]

(* An event type the index does not consume only clears its counter. *)
SkipRecord(h) ==
  /\ AtRecord(h)
  /\ Record(h) \in Ignored
  /\ serving' = [serving EXCEPT ![h].at = "clear"]
  /\ UNCHANGED <<outbox, unsent, failCount, inIndex, deadLetters>>

ApplyRecord(h) ==
  /\ AtRecord(h)
  /\ Record(h) \notin Ignored \cup Undecodable
  /\ inIndex' = inIndex \cup {Record(h)}
  /\ serving' = [serving EXCEPT ![h].at = "clear"]
  /\ UNCHANGED <<outbox, unsent, failCount, deadLetters>>

(* A decode failure and an indexing failure share the counted path. *)
RecordFails(h) ==
  /\ AtRecord(h)
  /\ Record(h) \notin Ignored
  /\ serving' = [serving EXCEPT ![h].at = "count"]
  /\ UNCHANGED <<outbox, unsent, failCount, inIndex, deadLetters>>

ShouldDeadLetter(count, limit) == count > limit

(* Counts above the cap are told apart by nothing, so they saturate. *)
Bumped(c) == IF c > FailLimit THEN c ELSE c + 1

IncrFailCount(h) ==
  /\ serving[h].at = "count"
  /\ failCount' = [failCount EXCEPT ![Record(h)] = Bumped(@)]
  /\ IF ShouldDeadLetter(failCount'[Record(h)], FailLimit)
       THEN serving' = [serving EXCEPT ![h].at = "persist"]
       ELSE NextRecord(h, TRUE)
  /\ UNCHANGED <<outbox, unsent, inIndex, deadLetters>>

CounterUnavailable(h) ==
  /\ serving[h].at = "count"
  /\ NextRecord(h, TRUE)
  /\ UNCHANGED <<outbox, unsent, failCount, inIndex, deadLetters>>

DedupKey(h) == IF Whole(serving[h].body) THEN serving[h].body ELSE Record(h)

(* One row per dedup key: a second dead letter refreshes the first. *)
UpsertDeadLetter(k) == deadLetters' = deadLetters \cup {k}

PersistFailsSilently(h) ==
  /\ serving[h].at = "persist"
  /\ NextRecord(h, FALSE)
  /\ UNCHANGED <<outbox, unsent, failCount, inIndex, deadLetters>>

(* The dead letter is not durable: 5xx, and the counter is kept. *)
PersistFails(h) ==
  /\ serving[h].at = "persist"
  /\ NextRecord(h, TRUE)
  /\ UNCHANGED <<outbox, unsent, failCount, inIndex, deadLetters>>

(* An oversized body stays in the store's queue even so. *)
PersistDeadLetter(h) ==
  /\ serving[h].at = "persist"
  /\ UpsertDeadLetter(DedupKey(h))
  /\ IF Whole(serving[h].body)
       THEN NextRecord(h, serving[h].body \in Oversized)
       ELSE serving' = [serving EXCEPT ![h].at = "clear"]
  /\ UNCHANGED <<outbox, unsent, failCount, inIndex>>

ClearThenRetry(h) ==
  /\ serving[h].at = "clear"
  /\ failCount' = [failCount EXCEPT ![Record(h)] = 0]
  /\ NextRecord(h, TRUE)
  /\ UNCHANGED <<outbox, unsent, inIndex, deadLetters>>

ClearFailCount(h) ==
  /\ serving[h].at = "clear"
  /\ failCount' = [failCount EXCEPT ![Record(h)] = 0]
  /\ NextRecord(h, FALSE)
  /\ UNCHANGED <<outbox, unsent, inIndex, deadLetters>>

ClearFails(h) ==
  /\ serving[h].at = "clear"
  /\ NextRecord(h, FALSE)
  /\ UNCHANGED <<outbox, unsent, failCount, inIndex, deadLetters>>

RecordsDone(h) == /\ serving[h].at = "record"
                  /\ serving[h].next > Len(Records[serving[h].body])

(* 200 when nothing is to be retried; it removes the notification when the *)
(* store still waits for the answer.                                       *)
Respond(h) ==
  /\ RecordsDone(h)
  /\ outbox' = IF serving[h].live /\ ~serving[h].failed THEN Tail(outbox)
               ELSE outbox
  /\ serving' = [serving EXCEPT ![h] = NoRequest]
  /\ UNCHANGED <<unsent, failCount, inIndex, deadLetters>>

--------------------------------------------------------------------------
WebCrash == /\ \E h \in Handler : serving[h] # NoRequest
            /\ serving' = [h \in Handler |-> NoRequest]
            /\ UNCHANGED <<outbox, unsent, failCount, inIndex, deadLetters>>

(* The hourly sweep drops counters untouched for a week: those of records  *)
(* nobody has been redelivering.                                           *)
SweepStale(e) ==
  /\ failCount[e] > 0
  /\ \A i \in DOMAIN outbox : e \notin FactsOf(outbox[i])
  /\ \A h \in Handler : serving[h] # NoRequest => e \notin FactsOf(serving[h].body)
  /\ failCount' = [failCount EXCEPT ![e] = 0]
  /\ UNCHANGED <<outbox, unsent, serving, inIndex, deadLetters>>

HandlerStep(h) == \/ SkipRecord(h) \/ ApplyRecord(h) \/ RecordFails(h)
                  \/ IncrFailCount(h) \/ CounterUnavailable(h)
                  \/ PersistDeadLetter(h) \/ PersistFails(h)
                  \/ ClearFailCount(h) \/ ClearFails(h) \/ Respond(h)

WebNext == \/ \E b \in Body : Notify(b)
           \/ \E h \in Handler : Post(h) \/ StoreGivesUp(h) \/ HandlerStep(h)
           \/ \E e \in Event : SweepStale(e)
           \/ WebCrash

WebSpec == WebInit /\ [][WebNext]_webVars

(* Handlers run, the store redelivers, and neither crashes nor abandoned   *)
(* requests go on for ever (the step of a 5xx answer is that of a crash    *)
(* at that point, and is not ruled out); nor does PostgreSQL fail for ever, *)
(* whatever the index makes of the record.                                 *)
WebFair ==
  /\ \A h \in Handler : /\ WF_webVars(Post(h))
                        /\ WF_webVars(HandlerStep(h))
  /\ <>[][WebCrash => \E h \in Handler : Respond(h)]_webVars
  /\ <>[][\A h \in Handler : /\ ~StoreGivesUp(h) /\ ~CounterUnavailable(h)
                              /\ ~PersistFails(h) /\ ~ClearFails(h)]_webVars

WebFairSpec == WebSpec /\ WebFair

--------------------------------------------------------------------------
Working == [at : {"record", "count", "persist", "clear"}, body : Body,
            next : Nat \ {0}, failed : BOOLEAN, live : BOOLEAN]

(* The type of the webhook's state; a handler at a database call has a     *)
(* record to make it for, and at most one answer is awaited, for the head. *)
WebTypeOK ==
  /\ outbox \in Seq(Body)
  /\ unsent \subseteq Body
  /\ serving \in [Handler -> Working \cup {NoRequest}]
  /\ failCount \in [Event -> 0..(FailLimit + 1)]
  /\ inIndex \subseteq Event
  /\ deadLetters \subseteq Event \cup Body
  /\ \A h \in Handler : serving[h].at \in {"count", "clear"} =>
       serving[h].next \in DOMAIN Records[serving[h].body]
  /\ \A h \in Handler : Waiting(h) =>
       outbox # <<>> /\ serving[h].body = Head(outbox)
  /\ \A g, h \in Handler : Waiting(g) /\ Waiting(h) => g = h

(* A request s whose answer would be 200 has left no fact behind: every    *)
(* record before the one it is at, and the body that is kept whole once it *)
(* is stored, is among the facts kept or of a type the index ignores       *)
(* (events.go, the loop over the records and its retry flag).              *)
Accounted(s, kept) ==
  LET done(i) == Records[s.body][i] \in kept \cup Ignored IN
  IF Whole(s.body)
  THEN s.at = "persist" \/ (s.at = "record" /\ (s.failed \/ s.body \in kept))
  ELSE /\ s.failed \/ \A i \in DOMAIN Records[s.body] : i < s.next => done(i)
       /\ s.at # "record" => s.next \in DOMAIN Records[s.body]
       /\ s.at \in {"count", "persist"} => Records[s.body][s.next] \notin Ignored
       /\ s.at = "clear" => done(s.next)
FactsAccounted ==
  \A h \in Handler :
    serving[h] # NoRequest => Accounted(serving[h], inIndex \cup deadLetters)

(* The webhook implements the notification queue (events.go, "the 200 is   *)
(* only ever emitted after the dead letter is durably stored"): facts are  *)
(* kept in the index or as dead letters, and a notification leaves the     *)
(* store's queue from its head only when all its facts are kept, whatever  *)
(* fails, crashes or is answered late.                                     *)
Queue == INSTANCE NotificationQueue WITH
           Notification <- Body, Facts <- [b \in Body |-> FactsOf(b)],
           waiting <- outbox, kept <- inIndex \cup deadLetters
NeverLostSilently == Queue!AbsSpec

(* The failure series is monotonic until a durable verdict: a counter goes *)
(* down only for a record that is in the index, is dead-lettered or is not *)
(* consumed by the index, or by the stale sweep when nobody redelivers it. *)
SeriesMonotonic ==
  [][\A e \in Event : failCount'[e] < failCount[e] =>
       \/ e \in inIndex \cup deadLetters \cup Ignored
       \/ \A i \in DOMAIN outbox : e \notin FactsOf(outbox[i])]_webVars

(* The poison pill always comes out: a notification at the head of the     *)
(* queue is answered 200 in the end even when its record never indexes,    *)
(* so that it cannot block the feed for ever.                              *)
HeadFreed ==
  \A b \in Body \ Oversized : []<>(outbox # <<>> => b # Head(outbox))

\* The feed keeps flowing: failures of a record are counted up to a durable verdict,
\* and the head of the queue is freed.
FeedFlows == SeriesMonotonic /\ HeadFreed
=============================================================================
