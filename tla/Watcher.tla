------------------------------ MODULE Watcher ------------------------------
(***************************************************************************)
(* The debounced file watcher of the agent (agent/internal/watcher) and    *)
(* runWatcher, its consumer.  The event loop re-arms one debounce timer    *)
(* per path; flushes and rechecks run on goroutines of their own, scans on *)
(* the loop's, and all of them deliver through one bounded channel.        *)
(*                                                                         *)
(* A version of a file is the number of its writes and stands for its      *)
(* modification time: times that go back are outside the model.            *)
(* There is no clock.  A file is hot while its last write is younger than  *)
(* the debounce window; a timer set while a version was current fires once *)
(* that version is quiet or replaced.                                      *)
(***************************************************************************)
EXTENDS Integers, Sequences

CONSTANTS
  Path,        \* files a rule matches
  LateDir,     \* those whose directory does not exist yet
  Backend,     \* ways of watching Start may end up with: "fsnotify", "polling"
  MaxVer,      \* bound on the writes of a file
  ChanCap,     \* capacity of the events channel
  KernelMax,   \* capacity of the kernel's event queue
  MadeEvents,  \* events a file makes that a writer creates: Create, and Write if 2
  SweepEvery,  \* defaultPendingSweepEvery
  MaxReloads   \* bound on reloads of the rule

ASSUME WatcherAssumption ==
  /\ LateDir \subseteq Path
  /\ Backend \subseteq {"fsnotify", "polling"}
  /\ {MaxVer, ChanCap, KernelMax, SweepEvery} \subseteq Nat \ {0}
  /\ MadeEvents \in 1..2 /\ MaxReloads \in Nat

VARIABLES
  file,              \* per path: version, is it there, is it hot
  kq,                \* the kernel's event queue
  watched, backend,  \* files in a watched directory; the backend in use
  loop,              \* the event loop: pc, files left to scan, hot files skipped
  pend, tick,        \* debouncePending per path; events since the last sweep
  timer, tracked,    \* the live recheck timer per path; is it on record
  procs,             \* deliveries under way
  seen, inflight,    \* versions delivered and claimed
  undone,            \* history: paths of which a flush gave up a newer claim
                     \* while an older delivery was under way
  chan,              \* the events channel
  sent, taken,       \* history of one Start: deliveries; what the consumer took
  reloads

watch == <<watched, backend>>
debounce == <<pend, tick>>
recheck == <<timer, tracked>>
ledger == <<seen, inflight, undone>>
out == <<chan, sent, taken>>
vars == <<file, kq, watch, loop, debounce, recheck, procs, ledger, out, reloads>>

Version == 1..MaxVer
Off == [st |-> "none", at |-> 0]
Walk == [pc |-> "list", todo |-> {}, skipped |-> {}]
PerPath(v) == [p \in Path |-> v]

Init ==
  /\ file \in [Path -> {[ver |-> 0, here |-> FALSE, hot |-> FALSE],
                        [ver |-> 1, here |-> TRUE, hot |-> FALSE],
                        [ver |-> 1, here |-> TRUE, hot |-> TRUE]}]
  /\ \A p \in LateDir : file[p].ver = 0
  /\ kq = << >> /\ watched = Path \ LateDir /\ backend \in Backend
  /\ loop = Walk /\ pend = PerPath(Off) /\ tick = 0
  /\ timer = PerPath(Off) /\ tracked = PerPath(FALSE) /\ procs = {}
  /\ seen = PerPath(0) /\ inflight = PerPath(0) /\ undone = {}
  /\ chan = << >> /\ sent = PerPath([v \in Version |-> 0]) /\ taken = PerPath({})
  /\ reloads = 0

\* The rule is reloaded: the context ends every goroutine and timer, and a new
\* Watcher starts; addWatchPaths finds the directories that exist by now.
Reload ==
  /\ reloads < MaxReloads /\ reloads' = reloads + 1
  /\ kq' = << >> /\ backend' \in Backend
  /\ watched' = watched \cup {p \in Path : file[p].ver > 0}
  /\ loop' = Walk /\ pend' = PerPath(Off) /\ tick' = 0
  /\ timer' = PerPath(Off) /\ tracked' = PerPath(FALSE) /\ procs' = {}
  /\ seen' = PerPath(0) /\ inflight' = PerPath(0) /\ undone' = {}
  /\ chan' = << >> /\ sent' = PerPath([v \in Version |-> 0]) /\ taken' = PerPath({})
  /\ UNCHANGED file

-----------------------------------------------------------------------------
(* Files, and the kernel's queue.  A full queue drops events and holds one *)
(* overflow marker for all of them.                                        *)

Event(p, op) == [path |-> p, op |-> op]

Push(q, e) ==
  IF Len(q) < KernelMax THEN Append(q, e)
  ELSE IF \E i \in 1..Len(q) : q[i].op = "overflow" THEN q
  ELSE Append(q, [e EXCEPT !.op = "overflow"])

Observed(p) == backend = "fsnotify" /\ p \in watched

\* A write, or a file moved in that is quiet already.
Write(p, h) ==
  /\ file[p].ver < MaxVer
  /\ file' = [file EXCEPT ![p] = [ver |-> @.ver + 1, here |-> TRUE, hot |-> h]]
  /\ LET e == Event(p, "write")
         made == h /\ ~file[p].here /\ MadeEvents = 2
     IN kq' = IF ~Observed(p) THEN kq ELSE IF made THEN Push(Push(kq, e), e) ELSE Push(kq, e)
  /\ UNCHANGED <<watch, loop, debounce, recheck, procs, ledger, out, reloads>>

Remove(p) ==
  /\ file[p].here
  /\ file' = [file EXCEPT ![p].here = FALSE, ![p].hot = FALSE]
  /\ kq' = IF Observed(p) THEN Push(kq, Event(p, "remove")) ELSE kq
  /\ UNCHANGED <<watch, loop, debounce, recheck, procs, ledger, out, reloads>>

GoQuiet(p) ==
  /\ file[p].hot
  /\ file' = [file EXCEPT ![p].hot = FALSE]
  /\ UNCHANGED <<kq, watch, loop, debounce, recheck, procs, ledger, out, reloads>>

Quiet(p) == file[p].here /\ ~file[p].hot

-----------------------------------------------------------------------------
(* Goroutines.  x.pc is the next step, "parked" a send that blocks.  x.gen *)
(* is what became of the timer generation x belongs to: "current", or      *)
(* "rearmed" by a newer one, or "removed" with its entry.  x.before holds  *)
(* the kinds of timers of the path that were set while x was running.      *)

Proc(kind, p, pc, v) ==
  [kind |-> kind, path |-> p, pc |-> pc, ver |-> v, gen |-> "current", ok |-> FALSE, before |-> {}]

Become(x, y) == procs' = (procs \ {x}) \cup {y}
Step(x, pc) == Become(x, [x EXCEPT !.pc = pc])
Exit(x) == procs' = procs \ {x}
Ends(x) == IF x.kind = "flush" THEN Step(x, "done") ELSE Exit(x)

\* A timer waits at least debounceRecheckGrace.  No goroutine takes that long
\* except in a blocked send: those running when it was set are done by then.
SetTimer(ps, kind, p) ==
  {IF x.path # p THEN x
   ELSE [x EXCEPT !.before = IF x.pc = "parked" THEN @ \ {kind} ELSE @ \cup {kind}] : x \in ps}

Due(kind, p, t) ==
  /\ t.st = "armed"
  /\ t.at = file[p].ver => ~file[p].hot
  /\ \A x \in procs : x.path = p /\ kind \in x.before => x.pc = "parked"

\* The generation of the path's goroutine of a kind ends; a send parked on the
\* generation's cancel channel wakes up.
Cancel(ps, kind, p, how) ==
  {IF x.kind # kind \/ x.path # p \/ x.gen # "current" THEN x
   ELSE [x EXCEPT !.gen = how,
                  !.pc = IF kind = "flush" /\ @ = "parked" THEN "superseded" ELSE @] : x \in ps}

Timer(p) == [st |-> "armed", at |-> file[p].ver]

\* scheduleDebounceRecheck: nothing for a file that is gone; an older timer of
\* the path is stopped and replaced.
ScheduleRecheck(p, ps) ==
  IF file[p].here
  THEN /\ timer' = [timer EXCEPT ![p] = Timer(p)]
       /\ tracked' = [tracked EXCEPT ![p] = TRUE]
       /\ procs' = SetTimer(Cancel(ps, "recheck", p, "rearmed"), "recheck", p)
  ELSE UNCHANGED recheck /\ procs' = ps

\* claimDelivery.
ClaimDelivery(p, v) == v > seen[p] /\ v > inflight[p]

Claim(x) ==
  /\ x.pc = "claim"
  /\ IF ClaimDelivery(x.path, x.ver)
     THEN /\ inflight' = [inflight EXCEPT ![x.path] = x.ver]
          /\ Step(x, IF x.kind = "flush" THEN "check" ELSE "send")
     ELSE Ends(x) /\ UNCHANGED inflight
  /\ UNCHANGED <<file, kq, watch, loop, debounce, recheck, seen, undone, out, reloads>>

Cancelled(x) == x.kind = "flush" /\ x.gen # "current"

\* emitCancellable: the check at its entry.
CheckCancel(x) ==
  /\ x.pc = "check"
  /\ Step(x, IF Cancelled(x) THEN "superseded" ELSE "send")
  /\ UNCHANGED <<file, kq, watch, loop, debounce, recheck, ledger, out, reloads>>

\* The event of x enters the channel, whose content is c.
Deliver(x, c) ==
  /\ chan' = Append(c, [path |-> x.path, ver |-> x.ver])
  /\ IF x.kind = "remove"
     THEN Exit(x) /\ UNCHANGED sent
     ELSE /\ Become(x, [x EXCEPT !.pc = "settle", !.ok = TRUE])
          /\ sent' = [sent EXCEPT ![x.path][x.ver] = @ + 1]

\* The select of emitCancellable and emitBlocking.
Send(x) ==
  /\ x.pc = "send"
  /\ \/ Len(chan) < ChanCap /\ Deliver(x, chan)
     \/ Cancelled(x) /\ Step(x, "superseded") /\ UNCHANGED <<chan, sent>>
     \/ Len(chan) = ChanCap /\ ~Cancelled(x) /\ Step(x, "parked") /\ UNCHANGED <<chan, sent>>
  /\ UNCHANGED <<file, kq, watch, loop, debounce, recheck, ledger, taken, reloads>>

\* runWatcher takes an event, and a parked send fills the place.
Receive ==
  /\ chan # << >>
  /\ taken' = LET e == Head(chan)
              IN IF e.ver = 0 THEN taken ELSE [taken EXCEPT ![e.path] = @ \cup {e.ver}]
  /\ LET parked == {x \in procs : x.pc = "parked"}
     IN IF parked = {} THEN chan' = Tail(chan) /\ UNCHANGED <<sent, procs>>
                       ELSE \E x \in parked : Deliver(x, Tail(chan))
  /\ UNCHANGED <<file, kq, watch, loop, debounce, recheck, ledger, reloads>>

\* flush on emitSuperseded: a recheck is the fallback.
Superseded(x) ==
  /\ x.pc = "superseded"
  /\ ScheduleRecheck(x.path, (procs \ {x}) \cup {[x EXCEPT !.pc = "settle"]})
  /\ UNCHANGED <<file, kq, watch, loop, debounce, ledger, out, reloads>>

\* A claim is held from claimDelivery to completeDelivery.
Claimed == {"check", "send", "parked", "superseded", "settle"}
InDelivery(x) == x.kind # "remove" /\ x.pc \in Claimed

GivesUpNewer(x) ==
  /\ ~x.ok /\ inflight[x.path] = x.ver
  /\ \E y \in procs \ {x} : y.path = x.path /\ InDelivery(y)

CompleteBackwards(x) ==
  /\ x.pc = "settle"
  /\ seen' = IF x.ok THEN [seen EXCEPT ![x.path] = x.ver] ELSE seen
  /\ inflight' = IF inflight[x.path] = x.ver THEN [inflight EXCEPT ![x.path] = 0] ELSE inflight
  /\ undone' = IF GivesUpNewer(x) THEN undone \cup {x.path} ELSE undone
  /\ Ends(x)
  /\ UNCHANGED <<file, kq, watch, loop, debounce, recheck, out, reloads>>

CompleteDelivery(x) ==
  /\ x.pc = "settle"
  /\ seen' = IF x.ok /\ x.ver > seen[x.path] THEN [seen EXCEPT ![x.path] = x.ver] ELSE seen
  /\ inflight' = IF inflight[x.path] = x.ver THEN [inflight EXCEPT ![x.path] = 0] ELSE inflight
  /\ undone' = IF GivesUpNewer(x) THEN undone \cup {x.path} ELSE undone
  /\ Ends(x)
  /\ UNCHANGED <<file, kq, watch, loop, debounce, recheck, out, reloads>>

-----------------------------------------------------------------------------
(* The debounce timer's callback: armTimer and flush.                      *)

TimerFires(p) ==
  /\ Due("flush", p, pend[p])
  /\ pend' = [pend EXCEPT ![p].st = "flushing"]
  /\ procs' = procs \cup {Proc("flush", p, "begin", 0)}
  /\ UNCHANGED <<file, kq, watch, loop, tick, recheck, ledger, out, reloads>>

FlushBegin(x) ==
  /\ x.pc = "begin"
  /\ IF x.gen = "rearmed" THEN Exit(x) ELSE Step(x, "stat")
  /\ UNCHANGED <<file, kq, watch, loop, debounce, recheck, ledger, out, reloads>>

FlushStat(x) ==
  /\ x.kind = "flush" /\ x.pc = "stat"
  /\ \/ Quiet(x.path) /\ Become(x, [x EXCEPT !.pc = "claim", !.ver = file[x.path].ver])
     \/ file[x.path].hot /\ Step(x, "hot")
     \/ ~file[x.path].here /\ Step(x, "done")
  /\ UNCHANGED <<file, kq, watch, loop, debounce, recheck, ledger, out, reloads>>

FlushHot(x) ==
  /\ x.pc = "hot"
  /\ ScheduleRecheck(x.path, (procs \ {x}) \cup {[x EXCEPT !.pc = "done"]})
  /\ UNCHANGED <<file, kq, watch, loop, debounce, ledger, out, reloads>>

FlushDone(x) ==
  /\ x.pc = "done"
  /\ pend' = IF x.gen = "current" THEN [pend EXCEPT ![x.path].st = "fired"] ELSE pend
  /\ Exit(x)
  /\ UNCHANGED <<file, kq, watch, loop, tick, recheck, ledger, out, reloads>>

-----------------------------------------------------------------------------
(* The recheck timer's callback: settleRecheck and recheckAfterDebounce.   *)

RecheckFires(p) ==
  /\ Due("recheck", p, timer[p])
  /\ timer' = [timer EXCEPT ![p] = Off]
  /\ procs' = procs \cup {Proc("recheck", p, "untrack", 0)}
  /\ UNCHANGED <<file, kq, watch, loop, debounce, tracked, ledger, out, reloads>>

SettleRecheck(x) ==
  /\ x.pc = "untrack"
  /\ tracked' = IF x.gen = "current" THEN [tracked EXCEPT ![x.path] = FALSE] ELSE tracked
  /\ Become(x, [x EXCEPT !.pc = "stat", !.gen = "current"])
  /\ UNCHANGED <<file, kq, watch, loop, debounce, timer, ledger, out, reloads>>

RecheckAfterDebounce(x) ==
  /\ x.kind = "recheck" /\ x.pc = "stat"
  /\ IF Quiet(x.path) THEN Become(x, [x EXCEPT !.pc = "claim", !.ver = file[x.path].ver])
                      ELSE Exit(x)
  /\ UNCHANGED <<file, kq, watch, loop, debounce, recheck, ledger, out, reloads>>

-----------------------------------------------------------------------------
(* The event loop.  Its own sends, of scans and removals, hold it up.      *)

Free == \A x \in procs : x.kind \notin {"scan", "remove"}
At(pc) == loop.pc = pc /\ Free

\* A Write or Create event arms the path's timer under a new generation; a
\* Remove or Rename drops the entry and reports the removal.
LoopEvent ==
  /\ At("select") /\ kq # << >> /\ Head(kq).op # "overflow"
  /\ kq' = Tail(kq) /\ loop' = [loop EXCEPT !.pc = "sweep"]
  /\ LET p == Head(kq).path
         known == pend[p].st # "none"
         cancelled(how) == IF known THEN Cancel(procs, "flush", p, how) ELSE procs
     IN IF Head(kq).op = "write"
        THEN /\ pend' = [pend EXCEPT ![p] = Timer(p)]
             /\ procs' = SetTimer(cancelled("rearmed"), "flush", p)
        ELSE /\ pend' = [pend EXCEPT ![p] = Off]
             /\ procs' = cancelled("removed") \cup {Proc("remove", p, "send", 0)}
  /\ UNCHANGED <<file, watch, tick, recheck, ledger, out, reloads>>

SweptUnarmed == [p \in Path |-> IF pend[p].st = "armed" THEN pend[p] ELSE Off]

\* sweepPendingIfDue deletes the entries that have fired.
Swept == [p \in Path |-> IF pend[p].st = "fired" THEN Off ELSE pend[p]]

Ticked == (tick + 1) % SweepEvery

LoopSweep ==
  /\ At("sweep") /\ loop' = [loop EXCEPT !.pc = "select"]
  /\ tick' = Ticked
  /\ pend' = IF tick' = 0 THEN Swept ELSE pend
  /\ UNCHANGED <<file, kq, watch, recheck, procs, ledger, out, reloads>>

\* handleWatchError on an overflow: safetyNetRescan.
LoopOverflow ==
  /\ At("select") /\ kq # << >> /\ Head(kq).op = "overflow"
  /\ kq' = Tail(kq) /\ loop' = Walk
  /\ UNCHANGED <<file, watch, debounce, recheck, procs, ledger, out, reloads>>

PollTickUntilSeen ==
  /\ At("select") /\ backend = "polling" /\ loop' = Walk
  /\ \A p \in Path : seen[p] = 0
  /\ UNCHANGED <<file, kq, watch, debounce, recheck, procs, ledger, out, reloads>>

\* runPolling scans again on a tick.
PollTick ==
  /\ At("select") /\ backend = "polling" /\ loop' = Walk
  /\ UNCHANGED <<file, kq, watch, debounce, recheck, procs, ledger, out, reloads>>

\* pollScan lists the tree, and then looks at one file after the other.
ScanList ==
  /\ At("list")
  /\ loop' = [loop EXCEPT !.pc = "scan", !.todo = {p \in Path : file[p].here}]
  /\ UNCHANGED <<file, kq, watch, debounce, recheck, procs, ledger, out, reloads>>

ScanOne(p) ==
  /\ At("scan") /\ p \in loop.todo
  /\ loop' = [loop EXCEPT !.todo = @ \ {p}, !.skipped = IF file[p].hot THEN @ \cup {p} ELSE @]
  /\ procs' = IF Quiet(p) THEN procs \cup {Proc("scan", p, "claim", file[p].ver)} ELSE procs
  /\ UNCHANGED <<file, kq, watch, debounce, recheck, ledger, out, reloads>>

\* scheduleDebounceRechecks: the files skipped get a recheck; polling has none.
ScanRecheck(p) ==
  /\ At("scan") /\ loop.todo = {} /\ p \in loop.skipped /\ backend = "fsnotify"
  /\ loop' = [loop EXCEPT !.skipped = @ \ {p}]
  /\ ScheduleRecheck(p, procs)
  /\ UNCHANGED <<file, kq, watch, debounce, ledger, out, reloads>>

ScanEnd ==
  /\ At("scan") /\ loop.todo = {} /\ (loop.skipped = {} \/ backend = "polling")
  /\ loop' = [loop EXCEPT !.pc = "select", !.skipped = {}]
  /\ UNCHANGED <<file, kq, watch, debounce, recheck, procs, ledger, out, reloads>>

-----------------------------------------------------------------------------
Delivery(x) ==
  \/ Claim(x) \/ CheckCancel(x) \/ Send(x) \/ Superseded(x) \/ CompleteDelivery(x)
  \/ FlushBegin(x) \/ FlushStat(x) \/ FlushHot(x) \/ FlushDone(x)
  \/ SettleRecheck(x) \/ RecheckAfterDebounce(x)

LoopKind == {"scan", "remove"}

\* Time passes: files go quiet, timers fire.
Clock == \E p \in Path : GoQuiet(p) \/ TimerFires(p) \/ RecheckFires(p)

Callbacks == \E x \in procs : x.kind \notin LoopKind /\ Delivery(x)

EventLoop ==
  \/ LoopEvent \/ LoopSweep \/ LoopOverflow \/ PollTick \/ ScanList \/ ScanEnd
  \/ \E p \in Path : ScanOne(p) \/ ScanRecheck(p)
  \/ \E x \in procs : x.kind \in LoopKind /\ Delivery(x)

Next ==
  \/ \E p \in Path : Remove(p)
  \/ \E p \in Path, h \in BOOLEAN : Write(p, h)
  \/ Clock \/ Callbacks \/ EventLoop \/ Receive \/ Reload

Spec == Init /\ [][Next]_vars

\* Timers and goroutines are run and the consumer drains; files may be left alone.
FairSpec == Spec /\ WF_vars(Clock) /\ WF_vars(Callbacks) /\ WF_vars(EventLoop) /\ WF_vars(Receive)

-----------------------------------------------------------------------------
TimerType == [st : {"none", "armed", "flushing", "fired"}, at : 0..MaxVer]

\* Type invariant: the channel and the kernel's queue (with its one overflow
\* marker) keep to their capacity.
TypeOK ==
  /\ file \in [Path -> [ver : 0..MaxVer, here : BOOLEAN, hot : BOOLEAN]]
  /\ Len(kq) <= KernelMax + 1 /\ watched \subseteq Path /\ backend \in Backend
  /\ loop \in [pc : {"list", "scan", "select", "sweep"}, todo : SUBSET Path, skipped : SUBSET Path]
  /\ pend \in [Path -> TimerType] /\ tick \in 0..(SweepEvery - 1)
  /\ timer \in [Path -> TimerType] /\ tracked \in [Path -> BOOLEAN]
  /\ \A x \in procs : x.kind \in {"flush", "recheck"} \cup LoopKind /\ x.path \in Path /\ x.ver \in 0..MaxVer
  /\ seen \in [Path -> 0..MaxVer] /\ inflight \in [Path -> 0..MaxVer]
  /\ Len(chan) <= ChanCap /\ reloads \in 0..MaxReloads

\* Flush, recheck and rescan may all be after the same version of a file: the
\* claim lets one of them deliver it, once (claimDelivery, completeDelivery).
\* The exception: inflight holds one version of a path, so a flush that gives up
\* its claim of a newer one leaves an older delivery, still blocked, unprotected.
DeliveredOnce == \A p \in Path \ undone, v \in Version : sent[p][v] <= 1

\* Something will still look at p as it is now.
Obligation(p) ==
  \/ backend = "polling"
  \/ \E i \in 1..Len(kq) : kq[i].op = "overflow" \/ kq[i] = Event(p, "write")
  \/ loop.pc = "list" \/ p \in loop.todo \cup loop.skipped
  \/ pend[p].st = "armed" \/ timer[p].st = "armed"
  \/ \E x \in procs :
       /\ x.path = p
       /\ \/ x.pc \in {"stat", "hot", "untrack", "superseded"}
          \/ x.pc = "begin" /\ x.gen # "rearmed"
          \/ x.pc \in {"claim", "check", "send", "parked"} /\ x.ver = file[p].ver

\* A file in a watched directory whose version was not delivered is never
\* forgotten: an event, a timer, a scan or a goroutine still has to look at it,
\* whatever flush, recheck, removal and overflow did to one another.
NeverForgotten ==
  \A p \in watched :
    file[p].here /\ sent[p][file[p].ver] = 0 => Obligation(p)

\* A flush blocked in its send always has its entry in the pending map, so the
\* next event of the file finds it and cancels the stale snapshot (the sweep
\* deletes fired entries only).
ParkedIsCancellable ==
  \A x \in procs :
    x.kind = "flush" /\ x.pc = "parked" => pend[x.path].st = "flushing"

\* A live recheck timer is on record, so stopAllRechecks and a replacement can
\* stop it (settleRecheck checks the generation).
RechecksTracked == \A p \in Path : timer[p].st = "armed" => tracked[p]

\* The record of what was delivered never goes back to an older version, in
\* whatever order deliveries complete (completeDelivery).
SeenAdvances == [][reloads' = reloads => \A p \in Path : seen'[p] >= seen[p]]_vars

\* What is left in a watched directory reaches the consumer in its last version.
EventuallyCollected ==
  \A p \in Path : []<>(~file[p].here \/ p \notin watched \/ file[p].ver \in taken[p])

\* Every version is delivered at most once, and deliveries that overtake one another
\* do not take the record of what was seen back.
DeliveredInOrder == []DeliveredOnce /\ SeenAdvances

\* Whoever has to cancel something pending can find it: a blocked flush has its entry
\* in the pending map and an armed recheck its record.
TimersTracked == TypeOK /\ ParkedIsCancellable /\ RechecksTracked

\* No file is lost: somebody still has to look at an undelivered version, and in the
\* end somebody does.
FileNotLost == []NeverForgotten /\ EventuallyCollected
=============================================================================
