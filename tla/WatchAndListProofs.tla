------------------------- MODULE WatchAndListProofs -------------------------
(***************************************************************************)
(* Proofs about the first and the last place a file is seen.  Watcher:     *)
(* what has to be cancelled can always be found, and a version of a file   *)
(* is delivered once although flush, recheck and scan are after it on      *)
(* goroutines of their own.  FileQueries: a list read in pages is exact,   *)
(* whatever is inserted or changed between two of them.                    *)
(***************************************************************************)
EXTENDS Watcher, FileQueries, FiniteSetTheorems, WellFoundedInduction, TLAPS

\* Zenon proves the leaves that name no other prover.
USE Zenon

-----------------------------------------------------------------------------
Kind == {"flush", "recheck", "scan", "remove"}
Gen == {"current", "rearmed", "removed"}
Pc == {"begin", "stat", "hot", "untrack", "claim", "done"} \cup Claimed
PcOf(kind) ==
  CASE kind = "flush" -> Pc \ {"untrack"}
    [] kind = "recheck" -> {"untrack", "stat", "claim", "send", "parked", "settle"}
    [] kind = "scan" -> {"claim", "send", "parked", "settle"}
    [] OTHER -> {"send", "parked"}
BeforeType == SUBSET {"flush", "recheck"}
ProcType == [kind : Kind, path : Path, pc : Pc, ver : 0..MaxVer, gen : Gen, ok : BOOLEAN, before : BeforeType]

\* A goroutine takes the steps of its kind; one that is to deliver a version has one,
\* and has sent it only when all that is left is to settle.
ProcOK(x) ==
  /\ x \in ProcType
  /\ x.pc \in PcOf(x.kind)
  /\ x.pc = "claim" \/ InDelivery(x) => x.ver \in Version
  /\ x.ok => x.pc \in {"settle", "done"}

FileOK ==
  /\ file \in [Path -> [ver : 0..MaxVer, here : BOOLEAN, hot : BOOLEAN]]
  /\ \A p \in Path : file[p].here => file[p].ver # 0

\* A full kernel queue has its overflow marker.
Op == {"write", "remove", "overflow"}
QueueOK(q) ==
  /\ q \in Seq([path : Path, op : Op]) /\ Len(q) <= KernelMax + 1
  /\ Len(q) > KernelMax => \E i \in 1..Len(q) : q[i].op = "overflow"

LoopPc == {"list", "scan", "select", "sweep"}
LoopOK ==
  /\ watched \subseteq Path /\ backend \in Backend /\ reloads \in 0..MaxReloads
  /\ loop \in [pc : LoopPc, todo : SUBSET Path, skipped : SUBSET Path]

PendOK == pend \in [Path -> TimerType] /\ tick \in 0..(SweepEvery - 1)
TimerOK == timer \in [Path -> TimerType] /\ tracked \in [Path -> BOOLEAN]
LedgerOK == seen \in [Path -> 0..MaxVer] /\ inflight \in [Path -> 0..MaxVer]
ChanOK == chan \in Seq([path : Path, ver : 0..MaxVer]) /\ Len(chan) <= ChanCap
SentOK == sent \in [Path -> [Version -> Nat]]
ProcsOK == \A x \in procs : ProcOK(x)

\* Types, finer than TypeOK.
StateOK ==
  FileOK /\ QueueOK(kq) /\ LoopOK /\ PendOK /\ TimerOK /\ LedgerOK /\ ChanOK /\ SentOK /\ ProcsOK

\* The flush of the current generation has its entry, and there is one per path; a
\* cancelled one is not parked.
FlushOK ==
  /\ \A x \in procs : x.kind = "flush" /\ x.gen = "current" => pend[x.path].st = "flushing"
  /\ \A x, y \in procs :
       x.kind = "flush" /\ x.gen = "current" /\ y.kind = "flush" /\ y.gen = "current"
       /\ x.path = y.path => x = y
  /\ \A x \in procs : x.kind = "flush" /\ x.pc = "parked" => x.gen = "current"

\* A callback of the current generation that has yet to untrack its timer is the
\* last one of its path: the timer was not replaced.
RecheckOK ==
  /\ \A x \in procs : x.pc = "untrack" /\ x.gen = "current" => timer[x.path].st # "armed"
  /\ RechecksTracked

\* Of the deliveries under way no two have the same version, none was sent before,
\* and the claim or the record covers each; what was sent is on record or about to be.
ClaimOK ==
  /\ \A x, y \in procs :
       InDelivery(x) /\ InDelivery(y) /\ x.path = y.path /\ x.ver = y.ver
       /\ x.path \notin undone => x = y
  /\ \A x \in procs : InDelivery(x) /\ x.path \notin undone =>
       /\ x.ver <= seen[x.path] \/ x.ver <= inflight[x.path]
       /\ ~x.ok => sent[x.path][x.ver] = 0
  /\ \A p \in Path \ undone, v \in Version : sent[p][v] # 0 =>
       \/ v <= seen[p]
       \/ \E x \in procs : InDelivery(x) /\ x.path = p /\ x.ver = v /\ x.ok
  /\ DeliveredOnce

WInv == StateOK /\ FlushOK /\ RecheckOK /\ ClaimOK

-----------------------------------------------------------------------------
\* What cancelling a generation and setting a timer leave of a goroutine.
Kept(x, y) ==
  /\ ProcOK(y) /\ y.kind = x.kind /\ y.path = x.path /\ y.ver = x.ver /\ y.ok = x.ok
  /\ y.pc = x.pc \/ (x.kind = "flush" /\ x.pc = "parked" /\ y.pc = "superseded")
  /\ y.gen = x.gen \/ (y.gen # "current" /\ ~(x.kind = "flush" /\ y.pc = "parked"))

CancelOne(x, kind, p, how) ==
  IF x.kind # kind \/ x.path # p \/ x.gen # "current" THEN x
  ELSE [x EXCEPT !.gen = how, !.pc = IF kind = "flush" /\ @ = "parked" THEN "superseded" ELSE @]

TimeOne(x, kind, p) ==
  IF x.path # p THEN x
  ELSE [x EXCEPT !.before = IF x.pc = "parked" THEN @ \ {kind} ELSE @ \cup {kind}]

LEMMA CancelKeeps ==
  ASSUME NEW x, ProcOK(x), NEW kind, NEW p, NEW how \in {"rearmed", "removed"}
  PROVE  /\ Kept(x, CancelOne(x, kind, p, how))
         /\ x.kind = kind /\ x.path = p => CancelOne(x, kind, p, how).gen # "current"
<1> DEFINE y == CancelOne(x, kind, p, how)
<1>1. CASE x.kind # kind \/ x.path # p \/ x.gen # "current"
  <2>1. y = x
    BY <1>1 DEF CancelOne
  <2> QED  BY <2>1, <1>1 DEF Kept
<1>2. CASE ~(x.kind # kind \/ x.path # p \/ x.gen # "current")
  <2>1. PICK c : c = IF kind = "flush" /\ x.pc = "parked" THEN "superseded" ELSE x.pc
    OBVIOUS
  <2>2. x \in ProcType /\ c \in Pc /\ how \in Gen
    BY <2>1 DEF ProcOK, Pc, Claimed, Gen, ProcType
  <2>3. PICK w : w = [x EXCEPT !.gen = how]
    OBVIOUS
  <2>4. w \in ProcType /\ w.gen = how /\ w.kind = x.kind /\ w.path = x.path /\ w.pc = x.pc
        /\ w.ver = x.ver /\ w.ok = x.ok
    BY <2>2, <2>3 DEF ProcType
  <2>5. y = [w EXCEPT !.pc = c]
    BY <1>2, <2>1, <2>2, <2>3 DEF CancelOne, ProcType
  <2>6. y \in ProcType /\ y.pc = c /\ y.gen = how /\ y.kind = x.kind /\ y.path = x.path
        /\ y.ver = x.ver /\ y.ok = x.ok
    BY <2>2, <2>4, <2>5 DEF ProcType
  <2>7. ProcOK(y)
    <3>1. y.pc \in PcOf(y.kind)
      BY <2>1, <2>6, <1>2 DEF ProcOK, PcOf, Pc, Claimed
    <3>2. y.pc = "claim" \/ InDelivery(y) => y.ver \in Version
      BY <2>1, <2>6 DEF ProcOK, InDelivery, Claimed
    <3>3. y.ok => y.pc \in {"settle", "done"}
      BY <2>1, <2>6 DEF ProcOK
    <3> QED  BY <2>6, <3>1, <3>2, <3>3 DEF ProcOK
  <2> QED  BY <2>1, <2>6, <2>7, <1>2 DEF Kept
<1> QED  BY <1>1, <1>2

LEMMA TimeKeeps ==
  ASSUME NEW x, ProcOK(x), NEW kind \in {"flush", "recheck"}, NEW p
  PROVE  Kept(x, TimeOne(x, kind, p)) /\ TimeOne(x, kind, p).gen = x.gen
<1> DEFINE y == TimeOne(x, kind, p)
<1>1. CASE x.path # p
  BY <1>1 DEF TimeOne, Kept
<1>2. CASE x.path = p
  <2>1. PICK b : b = IF x.pc = "parked" THEN x.before \ {kind} ELSE x.before \cup {kind}
    OBVIOUS
  <2>2. x \in ProcType /\ b \in BeforeType
    BY <2>1 DEF ProcOK, BeforeType, ProcType
  <2>3. y = [x EXCEPT !.before = b]
    BY <1>2, <2>1, <2>2 DEF TimeOne, ProcType
  <2>4. y \in ProcType /\ y.pc = x.pc /\ y.gen = x.gen /\ y.kind = x.kind /\ y.path = x.path
        /\ y.ver = x.ver /\ y.ok = x.ok
    BY <2>2, <2>3 DEF ProcType
  <2> QED  BY <2>4 DEF ProcOK, Kept, InDelivery
<1> QED  BY <1>1, <1>2

LEMMA KeptOnce ==
  ASSUME NEW x, NEW y, NEW z, Kept(x, y), Kept(y, z)  PROVE  Kept(x, z)
BY DEF Kept

-----------------------------------------------------------------------------
(* Steps that relabel goroutines: y is what became of x.                    *)
Like(x, y) ==
  /\ ProcOK(y) /\ y.kind = x.kind /\ y.path = x.path
  /\ InDelivery(y) <=> InDelivery(x)
  /\ InDelivery(x) => y.ver = x.ver /\ y.ok = x.ok
  /\ y.kind = "flush" /\ y.gen = "current" => x.gen = "current"
  /\ y.kind = "flush" /\ y.pc = "parked" => y.gen = "current"
  /\ y.pc = "untrack" /\ y.gen = "current" => x.pc = "untrack" /\ x.gen = "current"

LEMMA LikeKept ==
  ASSUME NEW x, NEW y, Kept(x, y), x.kind = "flush" /\ x.pc = "parked" => x.gen = "current"
  PROVE  Like(x, y)
BY DEF Kept, Like, InDelivery, Claimed

LEMMA LikeLike ==
  ASSUME NEW x, NEW y, NEW z, Like(x, y), Like(y, z)  PROVE  Like(x, z)
BY DEF Like

LEMMA LikeSelf ==
  ASSUME WInv  PROVE  \A x \in procs : Like(x, x)
BY DEF WInv, StateOK, ProcsOK, FlushOK, Like

LEMMA ClaimFrame ==
  ASSUME ClaimOK, NEW f,
         \A y \in procs' : InDelivery(y) => \E x \in procs : y = f[x] /\ Like(x, y),
         \A x \in procs : InDelivery(x) => f[x] \in procs' /\ Like(x, f[x]),
         UNCHANGED <<seen, inflight, undone, sent>>
  PROVE  ClaimOK'
<1>1. \A y \in procs' : InDelivery(y) =>
        \E x \in procs : y = f[x] /\ InDelivery(x) /\ x.path = y.path /\ x.ver = y.ver /\ x.ok = y.ok
  BY DEF Like
<1>2. \A x \in procs : InDelivery(x) =>
        /\ f[x] \in procs' /\ InDelivery(f[x])
        /\ f[x].path = x.path /\ f[x].ver = x.ver /\ f[x].ok = x.ok
  BY DEF Like
<1>3. (\A x, y \in procs : InDelivery(x) /\ InDelivery(y) /\ x.path = y.path /\ x.ver = y.ver
                           /\ x.path \notin undone => x = y)'
  BY <1>1, SMT DEF ClaimOK
<1>4. (\A x \in procs : InDelivery(x) /\ x.path \notin undone =>
         /\ x.ver <= seen[x.path] \/ x.ver <= inflight[x.path]
         /\ ~x.ok => sent[x.path][x.ver] = 0)'
  BY <1>1, SMT DEF ClaimOK
<1>5. (\A p \in Path \ undone, v \in Version : sent[p][v] # 0 =>
         \/ v <= seen[p]
         \/ \E x \in procs : InDelivery(x) /\ x.path = p /\ x.ver = v /\ x.ok)'
  <2> SUFFICES ASSUME NEW p \in Path \ undone, NEW v \in Version, sent[p][v] # 0, ~(v <= seen[p])
               PROVE  \E y \in procs' : InDelivery(y) /\ y.path = p /\ y.ver = v /\ y.ok
    BY SMT
  <2>1. PICK x \in procs : InDelivery(x) /\ x.path = p /\ x.ver = v /\ x.ok
    BY DEF ClaimOK
  <2> QED  BY <1>2, <2>1
<1>6. DeliveredOnce'
  BY DEF ClaimOK, DeliveredOnce
<1> QED  BY <1>3, <1>4, <1>5, <1>6 DEF ClaimOK

LEMMA FlushFrame ==
  ASSUME FlushOK, NEW f,
         \A y \in procs' : y.kind = "flush" => \E x \in procs : y = f[x] /\ Like(x, y),
         \A y \in procs' : y.kind = "flush" /\ y.gen = "current" => pend'[y.path].st = "flushing"
  PROVE  FlushOK'
<1>1. \A y \in procs' : y.kind = "flush" /\ y.gen = "current" =>
        \E x \in procs : y = f[x] /\ x.kind = "flush" /\ x.gen = "current" /\ x.path = y.path
  BY SMT DEF Like
<1>2. \A y \in procs' : y.kind = "flush" /\ y.pc = "parked" => y.gen = "current"
  BY DEF Like
<1>3. (\A x, y \in procs : x.kind = "flush" /\ x.gen = "current" /\ y.kind = "flush"
                           /\ y.gen = "current" /\ x.path = y.path => x = y)'
  BY <1>1, SMT DEF FlushOK
<1> QED  BY <1>2, <1>3 DEF FlushOK

LEMMA RecheckFrame ==
  ASSUME RecheckOK, UNCHANGED <<timer, tracked>>,
         \A y \in procs' : y.pc = "untrack" /\ y.gen = "current" => \E x \in procs : Like(x, y)
  PROVE  RecheckOK'
<1>1. \A y \in procs' : y.pc = "untrack" /\ y.gen = "current" => timer[y.path].st # "armed"
  BY DEF RecheckOK, Like
<1> QED  BY <1>1 DEF RecheckOK, RechecksTracked

\* One goroutine takes a step that neither begins nor ends a delivery.
LEMMA OneSteps ==
  ASSUME WInv, NEW x \in procs, NEW y, Like(x, y), Become(x, y),
         UNCHANGED <<debounce, recheck, ledger, sent>>
  PROVE  FlushOK' /\ RecheckOK' /\ ClaimOK' /\ ProcsOK'
<1>1. PICK f : f = [z \in procs |-> IF z = x THEN y ELSE z]
  OBVIOUS
<1>2. \A z \in procs' : \E w \in procs : z = f[w] /\ Like(w, z)
  BY <1>1, LikeSelf DEF Become
<1>3. \A w \in procs : f[w] \in procs' /\ Like(w, f[w])
  BY <1>1, LikeSelf DEF Become
<1>4. \A z \in procs' : z.kind = "flush" /\ z.gen = "current" => pend'[z.path].st = "flushing"
  BY <1>2, SMT DEF WInv, FlushOK, Like, debounce
<1>5. UNCHANGED <<pend, timer, tracked, seen, inflight, undone, sent>>
  BY DEF debounce, recheck, ledger
<1>6. FlushOK'
  BY <1>2, <1>4, FlushFrame DEF WInv
<1>7. RecheckOK'
  BY <1>2, <1>5, RecheckFrame DEF WInv
<1>8. ClaimOK'
  BY <1>2, <1>3, <1>5, ClaimFrame DEF WInv
<1>9. ProcsOK'
  BY <1>2 DEF Like, ProcsOK
<1> QED  BY <1>6, <1>7, <1>8, <1>9

\* One goroutine that delivers nothing ends.
LEMMA OneExits ==
  ASSUME WInv, NEW x \in procs, ~InDelivery(x), Exit(x),
         UNCHANGED <<debounce, recheck, ledger, sent>>
  PROVE  FlushOK' /\ RecheckOK' /\ ClaimOK' /\ ProcsOK'
<1>1. PICK f : f = [z \in procs |-> z]
  OBVIOUS
<1>2. \A z \in procs' : \E w \in procs : z = f[w] /\ Like(w, z)
  BY <1>1, LikeSelf DEF Exit
<1>3. \A w \in procs : InDelivery(w) => f[w] \in procs' /\ Like(w, f[w])
  BY <1>1, LikeSelf DEF Exit
<1>4. \A z \in procs' : z.kind = "flush" /\ z.gen = "current" => pend'[z.path].st = "flushing"
  BY <1>2, SMT DEF WInv, FlushOK, Like, debounce
<1>5. UNCHANGED <<pend, timer, tracked, seen, inflight, undone, sent>>
  BY DEF debounce, recheck, ledger
<1>6. FlushOK'
  BY <1>2, <1>4, FlushFrame DEF WInv
<1>7. RecheckOK'
  BY <1>2, <1>5, RecheckFrame DEF WInv
<1>8. ClaimOK'
  BY <1>2, <1>3, <1>5, ClaimFrame DEF WInv
<1>9. ProcsOK'
  BY <1>2 DEF Like, ProcsOK
<1> QED  BY <1>6, <1>7, <1>8, <1>9

-----------------------------------------------------------------------------
(* The steps of a goroutine.                                                *)
others == <<file, kq, watch, loop, debounce, recheck, seen, inflight, chan, sent, reloads>>

LEMMA StateFrame ==
  ASSUME StateOK, UNCHANGED others, ProcsOK'  PROVE  StateOK'
<1>1. FileOK' /\ QueueOK(kq)' /\ LoopOK'
  BY DEF StateOK, others, watch, FileOK, QueueOK, LoopOK
<1>2. PendOK' /\ TimerOK'
  BY DEF StateOK, others, debounce, recheck, PendOK, TimerOK
<1>3. LedgerOK' /\ ChanOK' /\ SentOK'
  BY DEF StateOK, others, LedgerOK, ChanOK, SentOK
<1> QED  BY <1>1, <1>2, <1>3 DEF StateOK

LEMMA WithPc ==
  ASSUME NEW x \in ProcType, NEW c \in Pc, NEW y, y = [x EXCEPT !.pc = c]
  PROVE  /\ y \in ProcType /\ y.pc = c /\ y.kind = x.kind /\ y.path = x.path /\ y.ver = x.ver
         /\ y.gen = x.gen /\ y.ok = x.ok
BY DEF ProcType

LEMMA ProcFacts ==
  ASSUME WInv, NEW x \in procs
  PROVE  /\ ProcOK(x) /\ x \in ProcType /\ x.path \in Path /\ x.ver \in 0..MaxVer
         /\ x.kind = "flush" /\ x.pc = "parked" => x.gen = "current"
BY DEF WInv, StateOK, ProcsOK, ProcOK, ProcType, FlushOK

\* What a step to another pc needs.
LEMMA StepLike ==
  ASSUME WInv, NEW x \in procs, NEW c \in Pc, c \in PcOf(x.kind), c \notin {"parked", "claim", "untrack"},
         x.kind # "remove" => (c \in Claimed <=> x.pc \in Claimed),
         x.ok => c \in {"settle", "done"}
  PROVE  Like(x, [x EXCEPT !.pc = c])
<1>1. PICK y : y = [x EXCEPT !.pc = c]
  OBVIOUS
<1>2. ProcOK(x) /\ x \in ProcType
  BY ProcFacts
<1>3. /\ y \in ProcType /\ y.pc = c /\ y.kind = x.kind /\ y.path = x.path /\ y.ver = x.ver
      /\ y.gen = x.gen /\ y.ok = x.ok
  BY <1>1, <1>2, WithPc, SMT
<1>4. InDelivery(y) <=> InDelivery(x)
  BY <1>3 DEF InDelivery
<1>5. ProcOK(y)
  BY <1>2, <1>3, <1>4 DEF ProcOK
<1> QED  BY <1>1, <1>3, <1>4, <1>5 DEF Like

LEMMA CheckCancelKeeps ==
  ASSUME WInv, NEW x \in procs, CheckCancel(x)  PROVE  WInv'
<1>1. PICK c : c = IF Cancelled(x) THEN "superseded" ELSE "send"
  OBVIOUS
<1>2. x.kind = "flush" /\ ~x.ok
  BY ProcFacts DEF CheckCancel, ProcOK, PcOf, Pc, Claimed, ProcType, Kind
<1>3. c \in Pc /\ c \in PcOf(x.kind) /\ c \in Claimed /\ c \notin {"parked", "claim", "untrack"}
  BY <1>1, <1>2 DEF PcOf, Pc, Claimed
<1>4. Like(x, [x EXCEPT !.pc = c])
  BY <1>2, <1>3, StepLike DEF CheckCancel, Claimed
<1>5. Become(x, [x EXCEPT !.pc = c])
  BY <1>1 DEF CheckCancel, Step
<1>6. UNCHANGED <<debounce, recheck, ledger, sent>> /\ UNCHANGED others
  BY DEF CheckCancel, others, ledger, out
<1>7. FlushOK' /\ RecheckOK' /\ ClaimOK' /\ ProcsOK'
  BY <1>4, <1>5, <1>6, OneSteps
<1> QED  BY <1>6, <1>7, StateFrame DEF WInv

LEMMA FlushBeginKeeps ==
  ASSUME WInv, NEW x \in procs, FlushBegin(x)  PROVE  WInv'
<1>1. x.kind = "flush" /\ ~x.ok /\ x.pc = "begin"
  BY ProcFacts DEF FlushBegin, ProcOK, PcOf, Pc, Claimed, ProcType, Kind
<1>2. UNCHANGED <<debounce, recheck, ledger, sent>> /\ UNCHANGED others
  BY DEF FlushBegin, others, ledger, out
<1>3. FlushOK' /\ RecheckOK' /\ ClaimOK' /\ ProcsOK'
  <2>1. CASE x.gen = "rearmed"
    <3>1. Exit(x) /\ ~InDelivery(x)
      BY <2>1, <1>1 DEF FlushBegin, InDelivery, Claimed
    <3> QED  BY <3>1, <1>2, OneExits
  <2>2. CASE x.gen # "rearmed"
    <3>1. Become(x, [x EXCEPT !.pc = "stat"])
      BY <2>2 DEF FlushBegin, Step
    <3>2. Like(x, [x EXCEPT !.pc = "stat"])
      <4>1. "stat" \in Pc /\ "stat" \in PcOf(x.kind) /\ "stat" \notin Claimed /\ x.pc \notin Claimed
        BY <1>1 DEF PcOf, Pc, Claimed
      <4> QED  BY <4>1, <1>1, StepLike
    <3> QED  BY <3>1, <3>2, <1>2, OneSteps
  <2> QED  BY <2>1, <2>2
<1> QED  BY <1>2, <1>3, StateFrame DEF WInv

\* A callback that finds the file quiet takes its version.
LEMMA StatLike ==
  ASSUME WInv, NEW x \in procs, x.kind \in {"flush", "recheck"}, x.pc = "stat", Quiet(x.path)
  PROVE  Like(x, [x EXCEPT !.pc = "claim", !.ver = file[x.path].ver])
<1>1. PICK v : v = file[x.path].ver
  OBVIOUS
<1>2. v \in 0..MaxVer /\ v # 0
  BY <1>1, ProcFacts DEF WInv, StateOK, FileOK, Quiet
<1>3. v \in Version
  BY <1>2, WatcherAssumption, SMT DEF Version
<1>4. PICK y : y = [x EXCEPT !.pc = "claim", !.ver = v]
  OBVIOUS
<1>5. "claim" \in Pc /\ "claim" \in PcOf(x.kind)
  BY DEF Pc, PcOf, Claimed
<1>6. /\ y \in ProcType /\ y.pc = "claim" /\ y.kind = x.kind /\ y.path = x.path /\ y.ver = v
      /\ y.gen = x.gen /\ y.ok = x.ok
  <2>1. PICK w : w = [x EXCEPT !.pc = "claim"]
    OBVIOUS
  <2>2. x \in ProcType
    BY ProcFacts
  <2>3. /\ w \in ProcType /\ w.pc = "claim" /\ w.kind = x.kind /\ w.path = x.path
        /\ w.gen = x.gen /\ w.ok = x.ok
    BY <1>5, <2>1, <2>2, WithPc, SMT
  <2>4. y = [w EXCEPT !.ver = v]
    BY <1>4, <2>1, <2>2 DEF ProcType
  <2> QED  BY <1>2, <2>3, <2>4 DEF ProcType
<1>7. ~InDelivery(x) /\ ~InDelivery(y)
  BY <1>6 DEF InDelivery, Claimed
<1>8. ProcOK(y)
  BY <1>3, <1>5, <1>6, <1>7, ProcFacts DEF ProcOK
<1>9. Like(x, y)
  BY <1>6, <1>7, <1>8 DEF Like
<1> QED  BY <1>1, <1>4, <1>9

LEMMA FlushStatKeeps ==
  ASSUME WInv, NEW x \in procs, FlushStat(x)  PROVE  WInv'
<1>1. x.kind = "flush" /\ x.pc = "stat" /\ ~x.ok
  BY ProcFacts DEF FlushStat, ProcOK
<1>2. UNCHANGED <<debounce, recheck, ledger, sent>> /\ UNCHANGED others
  BY DEF FlushStat, others, ledger, out
<1>3. PICK y : Become(x, y) /\ Like(x, y)
  <2>1. CASE Quiet(x.path) /\ Become(x, [x EXCEPT !.pc = "claim", !.ver = file[x.path].ver])
    BY <2>1, <1>1, StatLike
  <2>2. ASSUME NEW c \in {"hot", "done"}, Step(x, c)
        PROVE  Become(x, [x EXCEPT !.pc = c]) /\ Like(x, [x EXCEPT !.pc = c])
    <3>1. c \in Pc /\ c \in PcOf(x.kind) /\ c \notin Claimed /\ x.pc \notin Claimed
          /\ c \notin {"parked", "claim", "untrack"}
      BY <1>1 DEF PcOf, Pc, Claimed
    <3> QED  BY <2>2, <3>1, <1>1, StepLike DEF Step
  <2> QED  BY <2>1, <2>2 DEF FlushStat
<1>4. FlushOK' /\ RecheckOK' /\ ClaimOK' /\ ProcsOK'
  BY <1>2, <1>3, OneSteps
<1> QED  BY <1>2, <1>4, StateFrame DEF WInv

LEMMA RecheckAfterDebounceKeeps ==
  ASSUME WInv, NEW x \in procs, RecheckAfterDebounce(x)  PROVE  WInv'
<1>1. x.kind = "recheck" /\ x.pc = "stat" /\ ~InDelivery(x)
  BY DEF RecheckAfterDebounce, InDelivery, Claimed
<1>2. UNCHANGED <<debounce, recheck, ledger, sent>> /\ UNCHANGED others
  BY DEF RecheckAfterDebounce, others, ledger, out
<1>3. FlushOK' /\ RecheckOK' /\ ClaimOK' /\ ProcsOK'
  <2>1. CASE Quiet(x.path)
    <3>1. PICK y : Become(x, y) /\ Like(x, y)
      BY <2>1, <1>1, StatLike DEF RecheckAfterDebounce
    <3> QED  BY <3>1, <1>2, OneSteps
  <2>2. CASE ~Quiet(x.path)
    <3>1. Exit(x)
      BY <2>2 DEF RecheckAfterDebounce
    <3> QED  BY <3>1, <1>1, <1>2, OneExits
  <2> QED  BY <2>1, <2>2
<1> QED  BY <1>2, <1>3, StateFrame DEF WInv

-----------------------------------------------------------------------------
(* scheduleDebounceRecheck, after goroutines ps have become what they are.  *)
LEMMA Schedules ==
  ASSUME NEW p, NEW ps, \A z \in ps : ProcOK(z), ScheduleRecheck(p, ps)
  PROVE  \E g : /\ procs' = {g[z] : z \in ps}
                /\ \A z \in ps : /\ Kept(z, g[z])
                                 /\ file[p].here /\ z.pc = "untrack" /\ z.path = p
                                      => g[z].gen # "current"
<1>1. CASE file[p].here
  <2> DEFINE c(z) == CancelOne(z, "recheck", p, "rearmed")
             t(z) == TimeOne(z, "recheck", p)
  <2>1. PICK g : g = [z \in ps |-> t(c(z))]
    OBVIOUS
  <2>2. Cancel(ps, "recheck", p, "rearmed") = {c(z) : z \in ps}
    BY DEF Cancel, CancelOne
  <2>3. procs' = {t(w) : w \in {c(z) : z \in ps}}
    BY <1>1, <2>2 DEF ScheduleRecheck, SetTimer, TimeOne
  <2>4. procs' = {g[z] : z \in ps}
    BY <2>1, <2>3
  <2>5. ASSUME NEW z \in ps
        PROVE  Kept(z, t(c(z))) /\ (z.pc = "untrack" /\ z.path = p => t(c(z)).gen # "current")
    <3>1. Kept(z, c(z)) /\ (z.kind = "recheck" /\ z.path = p => c(z).gen # "current")
      BY CancelKeeps
    <3>2. ProcOK(c(z))
      BY <3>1 DEF Kept
    <3>3. Kept(c(z), t(c(z))) /\ t(c(z)).gen = c(z).gen
      BY <3>2, TimeKeeps
    <3>4. Kept(z, t(c(z)))
      BY <3>1, <3>3, KeptOnce
    <3>5. z.pc = "untrack" => z.kind = "recheck"
      BY DEF ProcOK, PcOf, Pc, Claimed, ProcType, Kind
    <3> QED  BY <3>1, <3>3, <3>4, <3>5
  <2> QED  BY <2>1, <2>4, <2>5, SMT
<1>2. CASE ~file[p].here
  <2>1. PICK g : g = [z \in ps |-> z]
    OBVIOUS
  <2>2. procs' = {g[z] : z \in ps}
    BY <1>2, <2>1 DEF ScheduleRecheck
  <2>3. \A z \in ps : Kept(z, g[z])
    BY <2>1 DEF Kept
  <2> QED  BY <1>2, <2>2, <2>3
<1> QED  BY <1>1, <1>2

LEMMA ScheduleKeeps ==
  ASSUME WInv, NEW p \in Path, NEW ps, NEW h, ps = {h[z] : z \in procs},
         \A z \in procs : Like(z, h[z]), ScheduleRecheck(p, ps),
         UNCHANGED <<debounce, ledger, sent>>
  PROVE  FlushOK' /\ RecheckOK' /\ ClaimOK' /\ ProcsOK' /\ TimerOK'
<1>1. \A z \in ps : ProcOK(z)
  BY DEF Like
<1>2. PICK g : /\ procs' = {g[z] : z \in ps}
               /\ \A z \in ps : /\ Kept(z, g[z])
                                /\ file[p].here /\ z.pc = "untrack" /\ z.path = p
                                     => g[z].gen # "current"
  BY <1>1, Schedules, SMT
<1>3. PICK f : f = [z \in procs |-> g[h[z]]]
  OBVIOUS
<1>4. \A z \in procs : f[z] \in procs' /\ Like(z, f[z])
  <2> TAKE z \in procs
  <2>1. h[z] \in ps /\ Like(z, h[z]) /\ f[z] = g[h[z]]
    BY <1>3
  <2>2. Like(h[z], g[h[z]])
    BY <2>1, <1>2, LikeKept, SMT DEF Like
  <2> QED  BY <2>1, <2>2, <1>2, LikeLike
<1>5. \A y \in procs' : \E z \in procs : y = f[z] /\ Like(z, y)
  BY <1>2, <1>3, <1>4, SMT
<1>6. \A z \in procs' : z.kind = "flush" /\ z.gen = "current" => pend'[z.path].st = "flushing"
  BY <1>5, SMT DEF WInv, FlushOK, Like, debounce
<1>7. FlushOK'
  BY <1>5, <1>6, FlushFrame DEF WInv
<1>8. ClaimOK'
  <2>1. UNCHANGED <<seen, inflight, undone, sent>>
    BY DEF ledger
  <2> QED  BY <2>1, <1>4, <1>5, ClaimFrame DEF WInv
<1>9. ProcsOK'
  BY <1>5 DEF Like, ProcsOK
<1>10. TimerOK' /\ RechecksTracked'
  <2>1. TimerOK /\ RechecksTracked /\ file[p].ver \in 0..MaxVer
    BY DEF WInv, StateOK, RecheckOK, FileOK
  <2>2. CASE file[p].here
    <3>1. Timer(p) \in TimerType
      BY <2>1 DEF Timer, TimerType
    <3>2. timer' = [timer EXCEPT ![p] = Timer(p)] /\ tracked' = [tracked EXCEPT ![p] = TRUE]
      BY <2>2 DEF ScheduleRecheck
    <3> QED  BY <2>1, <3>1, <3>2 DEF TimerOK, RechecksTracked
  <2>3. CASE ~file[p].here
    <3>1. UNCHANGED <<timer, tracked>>
      BY <2>3 DEF ScheduleRecheck, recheck
    <3> QED  BY <2>1, <3>1 DEF TimerOK, RechecksTracked
  <2> QED  BY <2>2, <2>3
<1>11. \A y \in procs' : y.pc = "untrack" /\ y.gen = "current" => timer'[y.path].st # "armed"
  <2> SUFFICES ASSUME NEW y \in procs', y.pc = "untrack", y.gen = "current"
               PROVE  timer'[y.path].st # "armed"
    OBVIOUS
  <2>1. PICK z \in ps : y = g[z]
    BY <1>2
  <2>2. z.pc = "untrack" /\ z.path = y.path /\ z.gen = "current" /\ ~(file[p].here /\ z.path = p)
    BY <1>2, <2>1, SMT DEF Kept
  <2>3. PICK x \in procs : z = h[x] /\ Like(x, z)
    BY <2>1
  <2>4. timer[y.path].st # "armed" /\ y.path \in Path
    BY <2>2, <2>3, ProcFacts, SMT DEF WInv, RecheckOK, Like
  <2>5. timer'[y.path] = timer[y.path]
    BY <2>2, <2>4 DEF ScheduleRecheck, recheck, WInv, StateOK, TimerOK
  <2> QED  BY <2>4, <2>5
<1> QED  BY <1>7, <1>8, <1>9, <1>10, <1>11 DEF RecheckOK

\* The step of one goroutine that schedules a recheck, whatever comes with it.
LEMMA OneSchedules ==
  ASSUME WInv, NEW x \in procs, NEW y, Like(x, y), ScheduleRecheck(x.path, (procs \ {x}) \cup {y}),
         UNCHANGED <<file, kq, watch, loop, debounce, ledger, out, reloads>>
  PROVE  WInv'
<1>1. PICK h : h = [z \in procs |-> IF z = x THEN y ELSE z]
  OBVIOUS
<1>2. (procs \ {x}) \cup {y} = {h[z] : z \in procs}
  BY <1>1
<1>3. \A z \in procs : Like(z, h[z])
  BY <1>1, LikeSelf
<1>4. UNCHANGED <<debounce, ledger, sent>> /\ x.path \in Path
  BY ProcFacts DEF out
<1>5. FlushOK' /\ RecheckOK' /\ ClaimOK' /\ ProcsOK' /\ TimerOK'
  BY <1>2, <1>3, <1>4, ScheduleKeeps
<1>6. FileOK' /\ QueueOK(kq)' /\ LoopOK' /\ PendOK'
  BY DEF WInv, StateOK, watch, debounce, FileOK, QueueOK, LoopOK, PendOK
<1>7. LedgerOK' /\ ChanOK' /\ SentOK'
  BY DEF WInv, StateOK, ledger, out, LedgerOK, ChanOK, SentOK
<1> QED  BY <1>5, <1>6, <1>7 DEF WInv, StateOK

LEMMA SupersededKeeps ==
  ASSUME WInv, NEW x \in procs, Superseded(x)  PROVE  WInv'
<1>1. x.kind = "flush" /\ ~x.ok /\ x.pc = "superseded"
  BY ProcFacts DEF Superseded, ProcOK, PcOf, Pc, Claimed, ProcType, Kind
<1>2. "settle" \in Pc /\ "settle" \in PcOf(x.kind) /\ "settle" \in Claimed /\ x.pc \in Claimed
  BY <1>1 DEF PcOf, Pc, Claimed
<1>3. Like(x, [x EXCEPT !.pc = "settle"])
  BY <1>1, <1>2, StepLike
<1> QED  BY <1>3, OneSchedules DEF Superseded

LEMMA FlushHotKeeps ==
  ASSUME WInv, NEW x \in procs, FlushHot(x)  PROVE  WInv'
<1>1. x.kind = "flush" /\ ~x.ok /\ x.pc = "hot"
  BY ProcFacts DEF FlushHot, ProcOK, PcOf, Pc, Claimed, ProcType, Kind
<1>2. "done" \in Pc /\ "done" \in PcOf(x.kind) /\ "done" \notin Claimed /\ x.pc \notin Claimed
  BY <1>1 DEF PcOf, Pc, Claimed
<1>3. Like(x, [x EXCEPT !.pc = "done"])
  BY <1>1, <1>2, StepLike
<1> QED  BY <1>3, OneSchedules DEF FlushHot

LEMMA ScanRecheckKeeps ==
  ASSUME WInv, NEW p \in Path, ScanRecheck(p)  PROVE  WInv'
<1>1. PICK h : h = [z \in procs |-> z]
  OBVIOUS
<1>2. procs = {h[z] : z \in procs} /\ \A z \in procs : Like(z, h[z])
  BY <1>1, LikeSelf
<1>3. UNCHANGED <<debounce, ledger, sent>> /\ ScheduleRecheck(p, procs)
  BY DEF ScanRecheck, out
<1>4. FlushOK' /\ RecheckOK' /\ ClaimOK' /\ ProcsOK' /\ TimerOK'
  BY <1>2, <1>3, ScheduleKeeps
<1>5. FileOK' /\ QueueOK(kq)' /\ LoopOK' /\ PendOK'
  BY DEF ScanRecheck, WInv, StateOK, watch, debounce, FileOK, QueueOK, LoopOK, PendOK
<1>6. LedgerOK' /\ ChanOK' /\ SentOK'
  BY DEF ScanRecheck, WInv, StateOK, ledger, out, LedgerOK, ChanOK, SentOK
<1> QED  BY <1>4, <1>5, <1>6 DEF WInv, StateOK

-----------------------------------------------------------------------------
(* claimDelivery, the send and completeDelivery.                            *)

\* What the step of one goroutine leaves alone, whatever it does to deliveries.
LEMMA RestSteps ==
  ASSUME WInv, NEW x \in procs, NEW y, ProcOK(y), y.kind = x.kind, y.path = x.path, y.gen = x.gen,
         y.pc \notin {"parked", "claim", "untrack"}, procs' = (procs \ {x}) \cup {y},
         UNCHANGED <<debounce, recheck>>
  PROVE  FlushOK' /\ RecheckOK' /\ ProcsOK'
<1>1. FlushOK /\ RecheckOK /\ UNCHANGED <<pend, timer, tracked>>
  BY DEF WInv, debounce, recheck
<1>2. (\A z \in procs : z.kind = "flush" /\ z.gen = "current" => pend[z.path].st = "flushing")'
  BY <1>1 DEF FlushOK
<1>3. (\A z \in procs : z.kind = "flush" /\ z.pc = "parked" => z.gen = "current")'
  BY <1>1 DEF FlushOK
<1>4. (\A z, w \in procs : z.kind = "flush" /\ z.gen = "current" /\ w.kind = "flush"
                           /\ w.gen = "current" /\ z.path = w.path => z = w)'
  BY <1>1, SMT DEF FlushOK
<1>5. (\A z \in procs : z.pc = "untrack" /\ z.gen = "current" => timer[z.path].st # "armed")'
  BY <1>1 DEF RecheckOK
<1>6. ProcsOK'
  BY ProcFacts DEF ProcsOK
<1> QED  BY <1>1, <1>2, <1>3, <1>4, <1>5, <1>6 DEF FlushOK, RecheckOK, RechecksTracked

LEMMA RestExits ==
  ASSUME WInv, procs' \subseteq procs, UNCHANGED <<debounce, recheck>>
  PROVE  FlushOK' /\ RecheckOK' /\ ProcsOK'
<1>1. FlushOK /\ RecheckOK /\ UNCHANGED <<pend, timer, tracked>>
  BY DEF WInv, debounce, recheck
<1>2. FlushOK'
  BY <1>1 DEF FlushOK
<1>3. RecheckOK'
  BY <1>1 DEF RecheckOK, RechecksTracked
<1>4. ProcsOK'
  BY ProcFacts DEF ProcsOK
<1> QED  BY <1>2, <1>3, <1>4

\* The deliveries under way stay within the claim and the record.
LEMMA ClaimMakes ==
  ASSUME WInv, NEW x \in procs, NEW y, x.pc = "claim", ClaimDelivery(x.path, x.ver),
         InDelivery(y), ~y.ok, y.path = x.path, y.ver = x.ver,
         procs' = (procs \ {x}) \cup {y},
         inflight' = [inflight EXCEPT ![x.path] = x.ver], UNCHANGED <<seen, undone, sent>>
  PROVE  ClaimOK'
<1>1. x.path \in Path /\ x.ver \in Version /\ ~InDelivery(x)
  BY ProcFacts DEF ProcOK, InDelivery, Claimed
<1>2. seen \in [Path -> 0..MaxVer] /\ inflight \in [Path -> 0..MaxVer]
  BY DEF WInv, StateOK, LedgerOK
<1>3. MaxVer \in Nat
  BY WatcherAssumption
<1>4. \A z \in procs : z.ver \in 0..MaxVer /\ z.path \in Path
  BY ProcFacts
<1>5. \A z \in procs : InDelivery(z) /\ z.path = x.path /\ z.path \notin undone
        => (z.ver <= seen[x.path] \/ z.ver <= inflight[x.path])
  BY DEF WInv, ClaimOK
<1>6. \A z \in procs : InDelivery(z) /\ z.path = x.path /\ z.path \notin undone
        => z.ver < x.ver
  BY <1>1, <1>2, <1>3, <1>4, <1>5, SMT DEF ClaimDelivery, Version
<1>7. (\A u, w \in procs : InDelivery(u) /\ InDelivery(w) /\ u.path = w.path /\ u.ver = w.ver
                           /\ u.path \notin undone => u = w)'
  <2>1. \A z \in procs : InDelivery(z) /\ z.path = x.path /\ z.path \notin undone => z.ver # x.ver
    BY <1>1, <1>4, <1>6, SMT DEF Version
  <2> QED  BY <2>1, SMT DEF WInv, ClaimOK
<1>8. x.path \notin undone => sent[x.path][x.ver] = 0
  <2> SUFFICES ASSUME x.path \notin undone, sent[x.path][x.ver] # 0  PROVE  FALSE
    OBVIOUS
  <2>1. ~(x.ver <= seen[x.path])
    BY <1>1, <1>2, <1>3, SMT DEF ClaimDelivery, Version
  <2>2. PICK z \in procs : InDelivery(z) /\ z.path = x.path /\ z.ver = x.ver
    BY <1>1, <2>1, SMT DEF WInv, ClaimOK
  <2> QED  BY <2>2, <1>1, <1>4, <1>6, SMT DEF Version
<1>9. ASSUME NEW z \in procs', InDelivery(z), z.path \notin undone'
      PROVE  /\ z.ver <= seen'[z.path] \/ z.ver <= inflight'[z.path]
             /\ ~z.ok => sent'[z.path][z.ver] = 0
  <2>1. CASE z = y
    BY <2>1, <1>1, <1>2, <1>8, <1>9, SMT DEF Version
  <2>2. CASE z # y /\ z.path # x.path
    <3>1. z \in procs /\ inflight'[z.path] = inflight[z.path]
      BY <2>2, <1>2, <1>4
    <3> QED  BY <3>1, <1>9 DEF WInv, ClaimOK
  <2>3. CASE z # y /\ z.path = x.path
    <3>1. z \in procs /\ inflight'[z.path] = x.ver
      BY <2>3, <1>1, <1>2
    <3>2. z.ver <= x.ver
      BY <3>1, <2>3, <1>1, <1>4, <1>6, <1>9, SMT DEF Version
    <3> QED  BY <3>1, <3>2, <1>9 DEF WInv, ClaimOK
  <2> QED  BY <2>1, <2>2, <2>3
<1>10. (\A p \in Path \ undone, v \in Version : sent[p][v] # 0 =>
         \/ v <= seen[p]
         \/ \E z \in procs : InDelivery(z) /\ z.path = p /\ z.ver = v /\ z.ok)'
  <2> SUFFICES ASSUME NEW p \in Path \ undone, NEW v \in Version, sent[p][v] # 0, ~(v <= seen[p])
               PROVE  \E z \in procs' : InDelivery(z) /\ z.path = p /\ z.ver = v /\ z.ok
    BY SMT
  <2>1. PICK z \in procs : InDelivery(z) /\ z.path = p /\ z.ver = v /\ z.ok
    BY DEF WInv, ClaimOK
  <2> QED  BY <2>1, <1>1
<1>11. DeliveredOnce'
  BY DEF WInv, ClaimOK, DeliveredOnce
<1> QED  BY <1>7, <1>9, <1>10, <1>11 DEF ClaimOK

LEMMA ClaimKeeps ==
  ASSUME WInv, NEW x \in procs, Claim(x)  PROVE  WInv'
<1>1. x.pc = "claim" /\ x.kind \in {"flush", "recheck", "scan"} /\ ~x.ok /\ ~InDelivery(x)
      /\ x.path \in Path /\ x.ver \in Version /\ x \in ProcType
  BY ProcFacts DEF Claim, ProcOK, PcOf, Pc, Claimed, ProcType, Kind, InDelivery
<1>2. CASE ClaimDelivery(x.path, x.ver)
  <2>1. PICK c : c = IF x.kind = "flush" THEN "check" ELSE "send"
    OBVIOUS
  <2>2. c \in Pc /\ c \in PcOf(x.kind) /\ c \in Claimed /\ c \notin {"parked", "claim", "untrack"}
    BY <1>1, <2>1 DEF PcOf, Pc, Claimed
  <2>3. PICK y : y = [x EXCEPT !.pc = c]
    OBVIOUS
  <2>4. /\ y \in ProcType /\ y.pc = c /\ y.kind = x.kind /\ y.path = x.path /\ y.ver = x.ver
        /\ y.gen = x.gen /\ y.ok = x.ok
    BY <1>1, <2>2, <2>3, WithPc, SMT
  <2>5. procs' = (procs \ {x}) \cup {y} /\ inflight' = [inflight EXCEPT ![x.path] = x.ver]
    BY <1>2, <2>1, <2>3 DEF Claim, Step, Become
  <2>6. InDelivery(y) /\ ProcOK(y)
    BY <1>1, <2>2, <2>4 DEF InDelivery, ProcOK
  <2>7. UNCHANGED <<seen, undone, sent>>
    BY DEF Claim, out
  <2>8. ClaimOK'
    BY <1>1, <1>2, <2>4, <2>5, <2>6, <2>7, ClaimMakes
  <2>9. FlushOK' /\ RecheckOK' /\ ProcsOK'
    BY <2>2, <2>4, <2>5, <2>6, RestSteps DEF Claim
  <2>10. FileOK' /\ QueueOK(kq)' /\ LoopOK' /\ PendOK'
    BY DEF Claim, WInv, StateOK, watch, debounce, FileOK, QueueOK, LoopOK, PendOK
  <2>11. TimerOK' /\ ChanOK' /\ SentOK'
    BY DEF Claim, WInv, StateOK, recheck, out, TimerOK, ChanOK, SentOK
  <2>12. LedgerOK'
    <3>1. x.ver \in 0..MaxVer /\ LedgerOK
      BY ProcFacts DEF WInv, StateOK
    <3> QED  BY <1>1, <2>5, <2>7, <3>1 DEF LedgerOK
  <2> QED  BY <2>8, <2>9, <2>10, <2>11, <2>12 DEF WInv, StateOK
<1>3. CASE ~ClaimDelivery(x.path, x.ver)
  <2>1. UNCHANGED <<debounce, recheck, ledger, sent>> /\ UNCHANGED others
    BY <1>3 DEF Claim, others, ledger, out
  <2>2. FlushOK' /\ RecheckOK' /\ ClaimOK' /\ ProcsOK'
    <3>1. CASE x.kind = "flush"
      <4>1. "done" \in Pc /\ "done" \in PcOf(x.kind) /\ "done" \notin Claimed /\ x.pc \notin Claimed
        BY <3>1, <1>1 DEF PcOf, Pc, Claimed
      <4>2. Like(x, [x EXCEPT !.pc = "done"])
        BY <4>1, <1>1, StepLike
      <4>3. Become(x, [x EXCEPT !.pc = "done"])
        BY <1>3, <3>1 DEF Claim, Ends, Step
      <4> QED  BY <4>2, <4>3, <2>1, OneSteps
    <3>2. CASE x.kind # "flush"
      <4>1. Exit(x)
        BY <1>3, <3>2 DEF Claim, Ends
      <4> QED  BY <4>1, <1>1, <2>1, OneExits
    <3> QED  BY <3>1, <3>2
  <2> QED  BY <2>1, <2>2, StateFrame DEF WInv
<1> QED  BY <1>2, <1>3

LEMMA DeliverMakes ==
  ASSUME WInv, NEW x \in procs, InDelivery(x), ~x.ok, NEW y, InDelivery(y), y.ok,
         y.path = x.path, y.ver = x.ver, procs' = (procs \ {x}) \cup {y},
         sent' = [sent EXCEPT ![x.path][x.ver] = @ + 1], UNCHANGED ledger
  PROVE  ClaimOK' /\ SentOK'
<1>1. UNCHANGED <<seen, inflight, undone>> /\ SentOK /\ ClaimOK
  BY DEF ledger, WInv, StateOK
<1>2. x.path \in Path /\ x.ver \in Version
  BY ProcFacts DEF ProcOK
<1>3. /\ SentOK' /\ sent'[x.path][x.ver] = sent[x.path][x.ver] + 1
      /\ \A p \in Path, v \in Version : p # x.path \/ v # x.ver => sent'[p][v] = sent[p][v]
  BY <1>1, <1>2, SMT DEF SentOK
<1>4. x.path \notin undone => sent[x.path][x.ver] = 0
  BY <1>1 DEF ClaimOK
<1>5. \A z \in procs \ {x} : InDelivery(z) /\ z.path \notin undone => z.path # x.path \/ z.ver # x.ver
  BY <1>1 DEF ClaimOK
<1>6. (\A u, w \in procs : InDelivery(u) /\ InDelivery(w) /\ u.path = w.path /\ u.ver = w.ver
                           /\ u.path \notin undone => u = w)'
  BY <1>1, <1>5, SMT DEF ClaimOK
<1>7. ASSUME NEW z \in procs', InDelivery(z), z.path \notin undone'
      PROVE  /\ z.ver <= seen'[z.path] \/ z.ver <= inflight'[z.path]
             /\ ~z.ok => sent'[z.path][z.ver] = 0
  <2>1. CASE z = y
    BY <2>1, <1>1, <1>7 DEF ClaimOK
  <2>2. CASE z # y
    <3>1. z \in procs \ {x} /\ z.path \in Path /\ z.ver \in Version
      BY <2>2, <1>7, ProcFacts DEF ProcOK
    <3>2. sent'[z.path][z.ver] = sent[z.path][z.ver]
      BY <3>1, <1>1, <1>3, <1>5, <1>7
    <3> QED  BY <3>1, <3>2, <1>1, <1>7 DEF ClaimOK
  <2> QED  BY <2>1, <2>2
<1>8. (\A p \in Path \ undone, v \in Version : sent[p][v] # 0 =>
         \/ v <= seen[p]
         \/ \E z \in procs : InDelivery(z) /\ z.path = p /\ z.ver = v /\ z.ok)'
  <2> SUFFICES ASSUME NEW p \in Path \ undone, NEW v \in Version, sent'[p][v] # 0, ~(v <= seen[p])
               PROVE  \E z \in procs' : InDelivery(z) /\ z.path = p /\ z.ver = v /\ z.ok
    BY <1>1, SMT
  <2>1. CASE p = x.path /\ v = x.ver
    BY <2>1
  <2>2. CASE p # x.path \/ v # x.ver
    <3>1. sent[p][v] # 0
      BY <2>2, <1>3
    <3>2. PICK z \in procs : InDelivery(z) /\ z.path = p /\ z.ver = v /\ z.ok
      BY <3>1, <1>1, SMT DEF ClaimOK
    <3> QED  BY <3>2
  <2> QED  BY <2>1, <2>2
<1>9. DeliveredOnce'
  <2> SUFFICES ASSUME NEW p \in Path \ undone, NEW v \in Version  PROVE  sent'[p][v] <= 1
    BY <1>1 DEF DeliveredOnce
  <2>1. CASE p = x.path /\ v = x.ver
    BY <2>1, <1>3, <1>4, SMT
  <2>2. CASE p # x.path \/ v # x.ver
    BY <2>2, <1>1, <1>3, SMT DEF ClaimOK, DeliveredOnce
  <2> QED  BY <2>1, <2>2
<1> QED  BY <1>3, <1>6, <1>7, <1>8, <1>9 DEF ClaimOK

\* The event of x enters the channel, which holds c.
LEMMA DeliverKeeps ==
  ASSUME WInv, NEW x \in procs, NEW c, ~x.ok, Deliver(x, c), x.kind # "remove" => InDelivery(x),
         c \in Seq([path : Path, ver : 0..MaxVer]), Len(c) < ChanCap,
         UNCHANGED <<file, kq, watch, loop, debounce, recheck, ledger, reloads>>
  PROVE  WInv'
<1>1. x \in ProcType /\ x.path \in Path /\ x.ver \in 0..MaxVer
  BY ProcFacts
<1>2. ChanOK'
  <2>1. ChanCap \in Nat
    BY WatcherAssumption
  <2>2. PICK e : e = [path |-> x.path, ver |-> x.ver]
    OBVIOUS
  <2>3. e \in [path : Path, ver : 0..MaxVer] /\ chan' = Append(c, e)
    BY <1>1, <2>2 DEF Deliver
  <2>4. chan' \in Seq([path : Path, ver : 0..MaxVer]) /\ Len(chan') = Len(c) + 1 /\ Len(c) \in Nat
    BY <2>3, SMT
  <2> QED  BY <2>1, <2>4, SMT DEF ChanOK
<1>3. FlushOK' /\ RecheckOK' /\ ClaimOK' /\ ProcsOK' /\ SentOK'
  <2>1. CASE x.kind = "remove"
    <3>1. Exit(x) /\ UNCHANGED sent /\ ~InDelivery(x)
      BY <2>1 DEF Deliver, InDelivery
    <3>2. FlushOK' /\ RecheckOK' /\ ClaimOK' /\ ProcsOK'
      BY <3>1, OneExits
    <3> QED  BY <3>1, <3>2 DEF WInv, StateOK, SentOK
  <2>2. CASE x.kind # "remove"
    <3>1. PICK w : w = [x EXCEPT !.pc = "settle"]
      OBVIOUS
    <3>2. "settle" \in Pc /\ "settle" \in PcOf(x.kind)
      BY <2>2, <1>1 DEF Pc, PcOf, Claimed, ProcType, Kind
    <3>3. /\ w \in ProcType /\ w.pc = "settle" /\ w.kind = x.kind /\ w.path = x.path
          /\ w.ver = x.ver /\ w.gen = x.gen
      BY <1>1, <3>1, <3>2, WithPc, SMT
    <3>4. PICK y : y = [w EXCEPT !.ok = TRUE]
      OBVIOUS
    <3>5. y = [x EXCEPT !.pc = "settle", !.ok = TRUE]
      BY <1>1, <3>1, <3>4 DEF ProcType
    <3>6. /\ y \in ProcType /\ y.pc = "settle" /\ y.kind = x.kind /\ y.path = x.path
          /\ y.ver = x.ver /\ y.gen = x.gen /\ y.ok
      BY <3>3, <3>4 DEF ProcType
    <3>7. InDelivery(x) /\ InDelivery(y)
      BY <2>2, <3>6 DEF InDelivery, Claimed
    <3>8. ProcOK(y)
      BY <3>2, <3>6, <3>7, ProcFacts DEF ProcOK
    <3>9. procs' = (procs \ {x}) \cup {y} /\ sent' = [sent EXCEPT ![x.path][x.ver] = @ + 1]
      BY <2>2, <3>5 DEF Deliver, Become
    <3>10. ClaimOK' /\ SentOK'
      BY <1>1, <3>6, <3>7, <3>9, DeliverMakes
    <3>11. FlushOK' /\ RecheckOK' /\ ProcsOK'
      BY <3>6, <3>8, <3>9, RestSteps
    <3> QED  BY <3>10, <3>11
  <2> QED  BY <2>1, <2>2
<1>4. FileOK' /\ QueueOK(kq)' /\ LoopOK'
  BY DEF WInv, StateOK, watch, FileOK, QueueOK, LoopOK
<1>5. PendOK' /\ TimerOK' /\ LedgerOK'
  BY DEF WInv, StateOK, debounce, recheck, ledger, PendOK, TimerOK, LedgerOK
<1> QED  BY <1>2, <1>3, <1>4, <1>5 DEF WInv, StateOK

LEMMA SendKeeps ==
  ASSUME WInv, NEW x \in procs, Send(x)  PROVE  WInv'
<1>1. x.pc = "send" /\ ~x.ok /\ ProcOK(x) /\ x \in ProcType
  BY ProcFacts DEF Send, ProcOK
<1>2. CASE Len(chan) < ChanCap /\ Deliver(x, chan)
  <2>1. chan \in Seq([path : Path, ver : 0..MaxVer])
    BY DEF WInv, StateOK, ChanOK
  <2>2. UNCHANGED <<file, kq, watch, loop, debounce, recheck, ledger, reloads>>
    BY DEF Send
  <2>3. ~x.ok /\ (x.kind # "remove" => InDelivery(x))
    BY <1>1 DEF InDelivery, Claimed
  <2>4. PICK c : c = chan
    OBVIOUS
  <2>5. Deliver(x, c)
    BY <1>2, <2>4 DEF Deliver
  <2>6. c \in Seq([path : Path, ver : 0..MaxVer]) /\ Len(c) < ChanCap
    BY <1>2, <2>1, <2>4
  <2> QED  BY <2>2, <2>3, <2>5, <2>6, DeliverKeeps
<1>3. ASSUME NEW c, UNCHANGED <<chan, sent>>, Step(x, c), Like(x, [x EXCEPT !.pc = c])  PROVE  WInv'
  <2>1. UNCHANGED <<debounce, recheck, ledger, sent>> /\ UNCHANGED others
    BY <1>3 DEF Send, others, ledger
  <2>2. FlushOK' /\ RecheckOK' /\ ClaimOK' /\ ProcsOK'
    BY <1>3, <2>1, OneSteps DEF Step
  <2> QED  BY <2>1, <2>2, StateFrame DEF WInv
<1>4. CASE Cancelled(x) /\ Step(x, "superseded") /\ UNCHANGED <<chan, sent>>
  <2>1. "superseded" \in Pc /\ "superseded" \in PcOf(x.kind) /\ "superseded" \in Claimed /\ x.pc \in Claimed
    BY <1>1, <1>4 DEF Cancelled, PcOf, Pc, Claimed
  <2>2. Like(x, [x EXCEPT !.pc = "superseded"])
    BY <1>1, <2>1, StepLike
  <2> QED  BY <1>3, <1>4, <2>2
<1>5. CASE ~Cancelled(x) /\ Step(x, "parked") /\ UNCHANGED <<chan, sent>>
  <2>1. "parked" \in Pc /\ "parked" \in PcOf(x.kind) /\ "parked" \in Claimed /\ "send" \in Claimed
    BY <1>1 DEF PcOf, Pc, Claimed, ProcOK, ProcType, Kind
  <2>2. PICK y : y = [x EXCEPT !.pc = "parked"]
    OBVIOUS
  <2>3. /\ y \in ProcType /\ y.pc = "parked" /\ y.kind = x.kind /\ y.path = x.path /\ y.ver = x.ver
        /\ y.gen = x.gen /\ y.ok = x.ok
    BY <1>1, <2>1, <2>2, WithPc, SMT
  <2>4. InDelivery(y) <=> InDelivery(x)
    BY <1>1, <2>1, <2>3 DEF InDelivery
  <2>5. ProcOK(y)
    BY <1>1, <2>1, <2>3, <2>4 DEF ProcOK
  <2>6. Like(x, y)
    BY <1>5, <2>3, <2>4, <2>5 DEF Like, Cancelled
  <2> QED  BY <1>3, <1>5, <2>2, <2>6
<1> QED  BY <1>2, <1>4, <1>5 DEF Send

LEMMA ReceiveKeeps ==
  ASSUME WInv, Receive  PROVE  WInv'
<1>1. chan \in Seq([path : Path, ver : 0..MaxVer]) /\ Len(chan) <= ChanCap /\ chan # << >>
      /\ ChanCap \in Nat
  BY WatcherAssumption DEF WInv, StateOK, ChanOK, Receive
<1>2. Tail(chan) \in Seq([path : Path, ver : 0..MaxVer]) /\ Len(Tail(chan)) < ChanCap
  BY <1>1, SMT
<1>3. CASE {x \in procs : x.pc = "parked"} = {}
  <2>1. chan' = Tail(chan) /\ UNCHANGED <<sent, procs>>
    BY <1>3 DEF Receive
  <2>2. ChanOK' /\ SentOK' /\ ProcsOK'
    <3>1. ChanOK'
      BY <1>1, <1>2, <2>1, SMT DEF ChanOK
    <3> QED  BY <2>1, <3>1 DEF SentOK, ProcsOK, WInv, StateOK
  <2>3. FileOK' /\ QueueOK(kq)' /\ LoopOK'
    BY DEF Receive, WInv, StateOK, watch, FileOK, QueueOK, LoopOK
  <2>4. PendOK' /\ TimerOK' /\ LedgerOK'
    BY DEF Receive, WInv, StateOK, debounce, recheck, ledger, PendOK, TimerOK, LedgerOK
  <2>5. FlushOK' /\ RecheckOK'
    BY <2>1, RestExits DEF Receive
  <2>6. ClaimOK'
    BY <2>1, SMT DEF Receive, ledger, WInv, ClaimOK, DeliveredOnce
  <2> QED  BY <2>2, <2>3, <2>4, <2>5, <2>6 DEF WInv, StateOK
<1>4. CASE {x \in procs : x.pc = "parked"} # {}
  <2>1. PICK x \in procs : x.pc = "parked" /\ Deliver(x, Tail(chan))
    BY <1>4 DEF Receive
  <2>2. UNCHANGED <<file, kq, watch, loop, debounce, recheck, ledger, reloads>>
    BY DEF Receive
  <2>3. ~x.ok /\ (x.kind # "remove" => InDelivery(x))
    BY <2>1, ProcFacts DEF InDelivery, Claimed, ProcOK
  <2>4. PICK c : c = Tail(chan)
    OBVIOUS
  <2>5. Deliver(x, c)
    BY <2>1, <2>4 DEF Deliver
  <2>6. c \in Seq([path : Path, ver : 0..MaxVer]) /\ Len(c) < ChanCap
    BY <1>2, <2>1, <2>4
  <2> QED  BY <2>2, <2>3, <2>5, <2>6, DeliverKeeps
<1> QED  BY <1>3, <1>4

\* The record takes over what the claim no longer covers, unless a newer claim is
\* given up over an older delivery.
LEMMA CompleteMakes ==
  ASSUME WInv, NEW x \in procs, InDelivery(x), CompleteDelivery(x),
         \A z \in procs' : InDelivery(z) => z \in procs \ {x},
         \A z \in procs \ {x} : z \in procs'
  PROVE  ClaimOK' /\ LedgerOK' /\ \A p \in Path : seen'[p] >= seen[p]
<1>1. x.path \in Path /\ x.ver \in 0..MaxVer /\ MaxVer \in Nat /\ LedgerOK /\ ClaimOK
  BY ProcFacts, WatcherAssumption DEF WInv, StateOK
<1>2. \A z \in procs : z.ver \in 0..MaxVer /\ z.path \in Path
  BY ProcFacts
<1>3. sent' = sent /\ undone \subseteq undone' /\ (GivesUpNewer(x) => x.path \in undone')
  BY DEF CompleteDelivery, out
<1>4. LedgerOK'
  BY <1>1, SMT DEF CompleteDelivery, LedgerOK
<1>5. \A p \in Path : /\ seen'[p] >= seen[p]
                      /\ p # x.path => inflight'[p] = inflight[p]
  BY <1>1, SMT DEF CompleteDelivery, LedgerOK
<1>6. x.ok => seen'[x.path] >= x.ver
  BY <1>1, SMT DEF CompleteDelivery, LedgerOK
<1>7. inflight[x.path] # x.ver => inflight' = inflight
  BY DEF CompleteDelivery
<1>8. (\A u, w \in procs : InDelivery(u) /\ InDelivery(w) /\ u.path = w.path /\ u.ver = w.ver
                           /\ u.path \notin undone => u = w)'
  BY <1>1, <1>3 DEF ClaimOK
<1>9. ASSUME NEW z \in procs', InDelivery(z), z.path \notin undone'
      PROVE  /\ z.ver <= seen'[z.path] \/ z.ver <= inflight'[z.path]
             /\ ~z.ok => sent'[z.path][z.ver] = 0
  <2>1. z \in procs \ {x} /\ z.path \notin undone
    BY <1>3, <1>9
  <2>2. /\ z.ver <= seen[z.path] \/ z.ver <= inflight[z.path]
        /\ ~z.ok => sent[z.path][z.ver] = 0
    BY <1>1, <1>9, <2>1 DEF ClaimOK
  <2>3. z.ver \in Nat /\ z.path \in Path /\ seen[z.path] \in Nat /\ seen'[z.path] \in Nat
        /\ x.ver \in Nat
    BY <1>1, <1>2, <1>4, <2>1, SMT DEF LedgerOK
  <2>4. CASE z.ver <= seen[z.path]
    <3>1. z.ver <= seen'[z.path]
      BY <1>5, <2>3, <2>4, SMT
    <3> QED  BY <1>3, <2>2, <3>1
  <2>5. CASE z.ver <= inflight[z.path] /\ inflight'[z.path] = inflight[z.path]
    BY <1>3, <2>2, <2>5
  <2>6. CASE z.ver <= inflight[z.path] /\ inflight'[z.path] # inflight[z.path]
    <3>1. z.path = x.path /\ inflight[x.path] = x.ver
      BY <1>5, <1>7, <2>3, <2>6
    <3>2. x.ok
      BY <1>3, <1>9, <2>1, <3>1 DEF GivesUpNewer
    <3>3. z.ver <= seen'[z.path]
      BY <1>6, <2>3, <2>6, <3>1, <3>2, SMT
    <3> QED  BY <1>3, <2>2, <3>3
  <2> QED  BY <2>2, <2>4, <2>5, <2>6
<1>10. (\A p \in Path \ undone, v \in Version : sent[p][v] # 0 =>
         \/ v <= seen[p]
         \/ \E z \in procs : InDelivery(z) /\ z.path = p /\ z.ver = v /\ z.ok)'
  <2> SUFFICES ASSUME NEW p \in Path \ undone', NEW v \in Version, sent[p][v] # 0, ~(v <= seen'[p])
               PROVE  \E z \in procs' : InDelivery(z) /\ z.path = p /\ z.ver = v /\ z.ok
    BY <1>3
  <2>1. ~(v <= seen[p])
    BY <1>1, <1>4, <1>5, SMT DEF Version, LedgerOK
  <2>2. PICK z \in procs : InDelivery(z) /\ z.path = p /\ z.ver = v /\ z.ok
    BY <1>1, <1>3, <2>1, SMT DEF ClaimOK
  <2>3. z # x
    BY <1>1, <1>4, <1>6, <2>2 DEF Version, LedgerOK
  <2> QED  BY <2>2, <2>3
<1>11. DeliveredOnce'
  BY <1>1, <1>3 DEF ClaimOK, DeliveredOnce
<1> QED  BY <1>4, <1>5, <1>8, <1>9, <1>10, <1>11 DEF ClaimOK

LEMMA CompleteDeliveryKeeps ==
  ASSUME WInv, NEW x \in procs, CompleteDelivery(x)
  PROVE  WInv' /\ \A p \in Path : seen'[p] >= seen[p]
<1>1. x.pc = "settle" /\ ProcOK(x) /\ x \in ProcType
  BY ProcFacts DEF CompleteDelivery
<1>2. InDelivery(x)
  BY <1>1 DEF ProcOK, ProcType, Kind, PcOf, InDelivery, Claimed
<1>3. UNCHANGED <<debounce, recheck>>
  BY DEF CompleteDelivery
<1>4. /\ FlushOK' /\ RecheckOK' /\ ProcsOK'
      /\ \A z \in procs' : InDelivery(z) => z \in procs \ {x}
      /\ \A z \in procs \ {x} : z \in procs'
  <2>1. CASE x.kind = "flush"
    <3>1. PICK y : y = [x EXCEPT !.pc = "done"]
      OBVIOUS
    <3>2. procs' = (procs \ {x}) \cup {y}
      BY <2>1, <3>1 DEF CompleteDelivery, Ends, Step, Become
    <3>3. "done" \in Pc /\ "done" \in PcOf(x.kind) /\ "done" \notin Claimed
      BY <2>1 DEF Pc, PcOf, Claimed
    <3>4. /\ y \in ProcType /\ y.pc = "done" /\ y.kind = x.kind /\ y.path = x.path
          /\ y.gen = x.gen
      BY <1>1, <3>1, <3>3, WithPc, SMT
    <3>5. ~InDelivery(y)
      BY <3>3, <3>4 DEF InDelivery
    <3>6. ProcOK(y)
      BY <3>3, <3>4, <3>5 DEF ProcOK
    <3>7. FlushOK' /\ RecheckOK' /\ ProcsOK'
      BY <1>3, <3>2, <3>4, <3>6, RestSteps
    <3> QED  BY <3>2, <3>5, <3>7
  <2>2. CASE x.kind # "flush"
    <3>1. procs' = procs \ {x}
      BY <2>2 DEF CompleteDelivery, Ends, Exit
    <3>2. FlushOK' /\ RecheckOK' /\ ProcsOK'
      BY <1>3, <3>1, RestExits
    <3> QED  BY <3>1, <3>2
  <2> QED  BY <2>1, <2>2
<1>5. ClaimOK' /\ LedgerOK' /\ \A p \in Path : seen'[p] >= seen[p]
  BY <1>2, <1>4, CompleteMakes
<1>6. FileOK' /\ QueueOK(kq)' /\ LoopOK' /\ PendOK'
  BY DEF CompleteDelivery, WInv, StateOK, watch, debounce, FileOK, QueueOK, LoopOK, PendOK
<1>7. TimerOK' /\ ChanOK' /\ SentOK'
  BY DEF CompleteDelivery, WInv, StateOK, recheck, out, TimerOK, ChanOK, SentOK
<1> QED  BY <1>4, <1>5, <1>6, <1>7 DEF WInv, StateOK

-----------------------------------------------------------------------------
(* The timers' callbacks begin and end.                                     *)
LEMMA ClaimNew ==
  ASSUME WInv, \A z \in procs' : InDelivery(z) => z \in procs,
         \A z \in procs : InDelivery(z) => z \in procs', UNCHANGED <<ledger, sent>>
  PROVE  ClaimOK'
<1>1. PICK f : f = [z \in procs |-> z]
  OBVIOUS
<1>2. UNCHANGED <<seen, inflight, undone, sent>>
  BY DEF ledger
<1>3. \A y \in procs' : InDelivery(y) => \E x \in procs : y = f[x] /\ Like(x, y)
  BY <1>1, LikeSelf
<1>4. \A x \in procs : InDelivery(x) => f[x] \in procs' /\ Like(x, f[x])
  BY <1>1, LikeSelf
<1> QED  BY <1>2, <1>3, <1>4, ClaimFrame DEF WInv

LEMMA NewProc ==
  ASSUME NEW kind \in Kind, NEW p \in Path, NEW pc \in Pc, NEW v \in 0..MaxVer, pc \in PcOf(kind),
         NEW x, x = Proc(kind, p, pc, v),
         pc = "claim" \/ (kind # "remove" /\ pc \in Claimed) => v \in Version
  PROVE  ProcOK(x) /\ x.kind = kind /\ x.path = p /\ x.pc = pc /\ x.gen = "current"
<1>1. x = [kind |-> kind, path |-> p, pc |-> pc, ver |-> v, gen |-> "current", ok |-> FALSE, before |-> {}]
  BY DEF Proc
<1>2. "current" \in Gen /\ {} \in BeforeType
  BY DEF Gen, BeforeType
<1>3. x \in ProcType /\ x.kind = kind /\ x.path = p /\ x.pc = pc /\ x.gen = "current" /\ ~x.ok /\ x.ver = v
  BY <1>1, <1>2, SMT DEF ProcType
<1> QED  BY <1>3 DEF ProcOK, InDelivery

LEMMA TimerFiresKeeps ==
  ASSUME WInv, NEW p \in Path, TimerFires(p)  PROVE  WInv'
<1>1. pend \in [Path -> TimerType] /\ pend[p].st = "armed" /\ FlushOK /\ PendOK
  BY DEF TimerFires, Due, WInv, StateOK, PendOK
<1>2. PICK n : n = Proc("flush", p, "begin", 0)
  OBVIOUS
<1>3. procs' = procs \cup {n} /\ pend' = [pend EXCEPT ![p].st = "flushing"]
  BY <1>2 DEF TimerFires
<1>4. ProcOK(n) /\ n.kind = "flush" /\ n.path = p /\ n.pc = "begin" /\ n.gen = "current"
  <2>1. "begin" \in Pc /\ "begin" \in PcOf("flush") /\ "begin" \notin Claimed /\ "flush" \in Kind
    BY DEF Pc, PcOf, Claimed, Kind
  <2>2. 0 \in 0..MaxVer
    BY WatcherAssumption, SMT
  <2> QED  BY <1>2, <2>1, <2>2, NewProc, SMT
<1>5. ~InDelivery(n)
  BY <1>4 DEF InDelivery, Claimed
<1>6. pend' \in [Path -> TimerType] /\ pend'[p].st = "flushing"
      /\ \A q \in Path : q # p => pend'[q] = pend[q]
  BY <1>1, <1>3 DEF TimerType
<1>7. \A z \in procs : z.kind = "flush" /\ z.gen = "current" => z.path # p /\ z.path \in Path
  BY <1>1, ProcFacts DEF FlushOK
<1>8. FlushOK'
  <2>1. (\A z \in procs : z.kind = "flush" /\ z.gen = "current" => pend[z.path].st = "flushing")'
    BY <1>1, <1>3, <1>4, <1>6, <1>7 DEF FlushOK
  <2>2. (\A z \in procs : z.kind = "flush" /\ z.pc = "parked" => z.gen = "current")'
    BY <1>1, <1>3, <1>4 DEF FlushOK
  <2>3. (\A z, w \in procs : z.kind = "flush" /\ z.gen = "current" /\ w.kind = "flush"
                             /\ w.gen = "current" /\ z.path = w.path => z = w)'
    BY <1>1, <1>3, <1>4, <1>7, SMT DEF FlushOK
  <2> QED  BY <2>1, <2>2, <2>3 DEF FlushOK
<1>9. ClaimOK'
  BY <1>3, <1>5, ClaimNew DEF TimerFires, out
<1>10. ProcsOK'
  BY <1>3, <1>4, ProcFacts DEF ProcsOK
<1>11. RecheckOK'
  BY <1>3, <1>4 DEF TimerFires, WInv, RecheckOK, RechecksTracked, recheck
<1>12. PendOK'
  BY <1>1, <1>6 DEF TimerFires, PendOK
<1>13. FileOK' /\ QueueOK(kq)' /\ LoopOK'
  BY DEF TimerFires, WInv, StateOK, watch, FileOK, QueueOK, LoopOK
<1>14. TimerOK' /\ LedgerOK' /\ ChanOK' /\ SentOK'
  BY DEF TimerFires, WInv, StateOK, recheck, ledger, out, TimerOK, LedgerOK, ChanOK, SentOK
<1> QED  BY <1>8, <1>9, <1>10, <1>11, <1>12, <1>13, <1>14 DEF WInv, StateOK

LEMMA FlushDoneKeeps ==
  ASSUME WInv, NEW x \in procs, FlushDone(x)  PROVE  WInv'
<1>1. x.pc = "done" /\ x.kind = "flush" /\ ~InDelivery(x) /\ x.path \in Path
  BY ProcFacts DEF FlushDone, ProcOK, PcOf, Pc, Claimed, ProcType, Kind, InDelivery
<1>2. pend \in [Path -> TimerType] /\ FlushOK /\ PendOK
  BY DEF WInv, StateOK, PendOK
<1>3. procs' = procs \ {x}
  BY DEF FlushDone, Exit
<1>4. pend' \in [Path -> TimerType]
  BY <1>1, <1>2 DEF FlushDone, TimerType
<1>5. \A z \in procs' : z.kind = "flush" /\ z.gen = "current" => pend'[z.path] = pend[z.path]
  <2> SUFFICES ASSUME NEW z \in procs', z.kind = "flush", z.gen = "current"
               PROVE  pend'[z.path] = pend[z.path]
    OBVIOUS
  <2>1. z.path \in Path /\ (x.gen = "current" => z.path # x.path)
    BY <1>1, <1>2, <1>3, ProcFacts DEF FlushOK
  <2> QED  BY <1>2, <2>1 DEF FlushDone
<1>6. FlushOK'
  BY <1>2, <1>3, <1>5, SMT DEF FlushOK
<1>7. ClaimOK'
  BY <1>1, <1>3, ClaimNew DEF FlushDone, out
<1>8. ProcsOK'
  BY <1>3, ProcFacts DEF ProcsOK
<1>9. RecheckOK'
  BY <1>3 DEF FlushDone, WInv, RecheckOK, RechecksTracked, recheck
<1>10. PendOK'
  BY <1>2, <1>4 DEF FlushDone, PendOK
<1>11. FileOK' /\ QueueOK(kq)' /\ LoopOK'
  BY DEF FlushDone, WInv, StateOK, watch, FileOK, QueueOK, LoopOK
<1>12. TimerOK' /\ LedgerOK' /\ ChanOK' /\ SentOK'
  BY DEF FlushDone, WInv, StateOK, recheck, ledger, out, TimerOK, LedgerOK, ChanOK, SentOK
<1> QED  BY <1>6, <1>7, <1>8, <1>9, <1>10, <1>11, <1>12 DEF WInv, StateOK

LEMMA RecheckFiresKeeps ==
  ASSUME WInv, NEW p \in Path, RecheckFires(p)  PROVE  WInv'
<1>1. timer \in [Path -> TimerType] /\ tracked \in [Path -> BOOLEAN] /\ FlushOK /\ RecheckOK
  BY DEF WInv, StateOK, TimerOK
<1>2. PICK n : n = Proc("recheck", p, "untrack", 0)
  OBVIOUS
<1>3. procs' = procs \cup {n} /\ timer' = [timer EXCEPT ![p] = Off] /\ tracked' = tracked /\ pend' = pend
  BY <1>2 DEF RecheckFires, debounce
<1>4. ProcOK(n) /\ n.kind = "recheck" /\ n.path = p /\ n.pc = "untrack"
  <2>1. "untrack" \in Pc /\ "untrack" \in PcOf("recheck") /\ "untrack" \notin Claimed /\ "recheck" \in Kind
    BY DEF Pc, PcOf, Claimed, Kind
  <2>2. 0 \in 0..MaxVer
    BY WatcherAssumption, SMT
  <2> QED  BY <1>2, <2>1, <2>2, NewProc, SMT
<1>5. ~InDelivery(n)
  BY <1>4 DEF InDelivery, Claimed
<1>6. Off \in TimerType /\ Off.st # "armed"
  BY WatcherAssumption, SMT DEF Off, TimerType
<1>7. /\ timer' \in [Path -> TimerType]
      /\ \A q \in Path : timer'[q].st = "armed" => timer[q].st = "armed"
      /\ timer'[p].st # "armed"
  BY <1>1, <1>3, <1>6
<1>8. RecheckOK'
  <2>1. (\A z \in procs : z.pc = "untrack" /\ z.gen = "current" => timer[z.path].st # "armed")'
    BY <1>1, <1>3, <1>4, <1>7, ProcFacts DEF RecheckOK
  <2>2. RechecksTracked'
    BY <1>1, <1>3, <1>7 DEF RecheckOK, RechecksTracked
  <2> QED  BY <2>1, <2>2 DEF RecheckOK
<1>9. FlushOK'
  BY <1>1, <1>3, <1>4, SMT DEF FlushOK
<1>10. ClaimOK'
  BY <1>3, <1>5, ClaimNew DEF RecheckFires, out
<1>11. ProcsOK'
  BY <1>3, <1>4, ProcFacts DEF ProcsOK
<1>12. TimerOK'
  BY <1>1, <1>3, <1>7 DEF TimerOK
<1>13. FileOK' /\ QueueOK(kq)' /\ LoopOK' /\ PendOK'
  BY DEF RecheckFires, WInv, StateOK, watch, debounce, FileOK, QueueOK, LoopOK, PendOK
<1>14. LedgerOK' /\ ChanOK' /\ SentOK'
  BY DEF RecheckFires, WInv, StateOK, ledger, out, LedgerOK, ChanOK, SentOK
<1> QED  BY <1>8, <1>9, <1>10, <1>11, <1>12, <1>13, <1>14 DEF WInv, StateOK

LEMMA SettleRecheckKeeps ==
  ASSUME WInv, NEW x \in procs, SettleRecheck(x)  PROVE  WInv'
<1>1. x.pc = "untrack" /\ x.kind = "recheck" /\ ~InDelivery(x) /\ x.path \in Path /\ x \in ProcType /\ ~x.ok
  BY ProcFacts DEF SettleRecheck, ProcOK, PcOf, Pc, Claimed, ProcType, Kind, InDelivery
<1>2. PICK w : w = [x EXCEPT !.pc = "stat"]
  OBVIOUS
<1>3. "stat" \in Pc /\ "stat" \in PcOf("recheck") /\ "current" \in Gen
  BY DEF Pc, PcOf, Claimed, Gen
<1>4. w \in ProcType /\ w.pc = "stat" /\ w.kind = "recheck" /\ ~w.ok
  BY <1>1, <1>2, <1>3, WithPc, SMT
<1>5. PICK y : y = [w EXCEPT !.gen = "current"]
  OBVIOUS
<1>6. y \in ProcType /\ y.pc = "stat" /\ y.kind = "recheck" /\ ~y.ok
  BY <1>3, <1>4, <1>5 DEF ProcType
<1>7. y = [x EXCEPT !.pc = "stat", !.gen = "current"]
  BY <1>1, <1>2, <1>5 DEF ProcType
<1>8. procs' = (procs \ {x}) \cup {y}
  BY <1>7 DEF SettleRecheck, Become
<1>9. ~InDelivery(y)
  BY <1>6 DEF InDelivery, Claimed
<1>10. ProcOK(y)
  BY <1>3, <1>6, <1>9 DEF ProcOK
<1>11. RecheckOK /\ TimerOK /\ timer' = timer /\ FlushOK /\ pend' = pend
  BY DEF WInv, StateOK, SettleRecheck, debounce
<1>12. TimerOK' /\ RechecksTracked'
  <2>1. x.gen = "current" => timer[x.path].st # "armed"
    BY <1>1, <1>11 DEF RecheckOK
  <2> QED  BY <1>1, <1>11, <2>1 DEF SettleRecheck, TimerOK, RecheckOK, RechecksTracked
<1>13. RecheckOK'
  BY <1>6, <1>8, <1>11, <1>12 DEF RecheckOK
<1>14. FlushOK'
  BY <1>6, <1>8, <1>11, SMT DEF FlushOK
<1>15. ClaimOK'
  BY <1>1, <1>8, <1>9, ClaimNew DEF SettleRecheck, out
<1>16. ProcsOK'
  BY <1>8, <1>10, ProcFacts DEF ProcsOK
<1>17. FileOK' /\ QueueOK(kq)' /\ LoopOK' /\ PendOK'
  BY DEF SettleRecheck, WInv, StateOK, watch, debounce, FileOK, QueueOK, LoopOK, PendOK
<1>18. LedgerOK' /\ ChanOK' /\ SentOK'
  BY DEF SettleRecheck, WInv, StateOK, ledger, out, LedgerOK, ChanOK, SentOK
<1> QED  BY <1>12, <1>13, <1>14, <1>15, <1>16, <1>17, <1>18 DEF WInv, StateOK

-----------------------------------------------------------------------------
(* The event loop.                                                          *)

\* Pushing on a full queue leaves the overflow marker, and no more than that.
LEMMA PushKeeps ==
  ASSUME NEW q, QueueOK(q), NEW e \in [path : Path, op : Op]
  PROVE  QueueOK(Push(q, e))
<1>1. KernelMax \in Nat \ {0} /\ Len(q) \in Nat /\ q \in Seq([path : Path, op : Op])
  BY WatcherAssumption, SMT DEF QueueOK
<1>2. CASE Len(q) < KernelMax
  <2>1. Push(q, e) = Append(q, e)
    BY <1>2 DEF Push
  <2>2. Append(q, e) \in Seq([path : Path, op : Op]) /\ Len(Append(q, e)) = Len(q) + 1
    BY <1>1, SMT
  <2> QED  BY <1>1, <1>2, <2>1, <2>2, SMT DEF QueueOK
<1>3. CASE ~(Len(q) < KernelMax) /\ \E i \in 1..Len(q) : q[i].op = "overflow"
  BY <1>3 DEF Push
<1>4. CASE ~(Len(q) < KernelMax) /\ ~\E i \in 1..Len(q) : q[i].op = "overflow"
  <2>1. PICK o : o = [e EXCEPT !.op = "overflow"]
    OBVIOUS
  <2>2. o \in [path : Path, op : Op] /\ o.op = "overflow"
    BY <2>1 DEF Op
  <2>3. PICK r : r = Append(q, o)
    OBVIOUS
  <2>4. Push(q, e) = r
    BY <1>4, <2>1, <2>3 DEF Push
  <2>5. r \in Seq([path : Path, op : Op]) /\ Len(r) = Len(q) + 1 /\ r[Len(r)] = o
    BY <1>1, <2>2, <2>3, SMT
  <2>6. Len(q) = KernelMax
    BY <1>1, <1>4, SMT DEF QueueOK
  <2> QED  BY <1>1, <2>2, <2>4, <2>5, <2>6, SMT DEF QueueOK
<1> QED  BY <1>2, <1>3, <1>4

LEMMA TailKeeps ==
  ASSUME NEW q, QueueOK(q), q # << >>
  PROVE  QueueOK(Tail(q)) /\ Head(q) \in [path : Path, op : Op]
<1>1. KernelMax \in Nat /\ q \in Seq([path : Path, op : Op])
  BY WatcherAssumption DEF QueueOK
<1>2. Tail(q) \in Seq([path : Path, op : Op]) /\ Len(Tail(q)) = Len(q) - 1 /\ Len(q) \in Nat
      /\ Head(q) \in [path : Path, op : Op]
  <2>1. PICK S : S = [path : Path, op : Op]
    OBVIOUS
  <2>2. q \in Seq(S)
    BY <1>1, <2>1
  <2>3. Tail(q) \in Seq(S) /\ Len(Tail(q)) = Len(q) - 1 /\ Len(q) \in Nat /\ Head(q) \in S
    BY <2>2, SMT
  <2> QED  BY <2>1, <2>3
<1> QED  BY <1>1, <1>2, SMT DEF QueueOK

\* What a step that leaves the goroutines alone leaves of the invariant.
LEMMA LoopFrame ==
  ASSUME WInv, UNCHANGED <<procs, debounce, recheck, ledger, chan, sent>>,
         FileOK', QueueOK(kq)', LoopOK'
  PROVE  WInv'
<1>1. FlushOK' /\ RecheckOK' /\ ProcsOK'
  BY RestExits
<1>2. ClaimOK'
  BY ClaimNew
<1>3. PendOK' /\ TimerOK'
  BY DEF WInv, StateOK, debounce, recheck, PendOK, TimerOK
<1>4. LedgerOK' /\ ChanOK' /\ SentOK'
  BY DEF WInv, StateOK, ledger, LedgerOK, ChanOK, SentOK
<1> QED  BY <1>1, <1>2, <1>3, <1>4 DEF WInv, StateOK

LEMMA FilesKeep ==
  ASSUME WInv, NEW p \in Path, (\E h \in BOOLEAN : Write(p, h)) \/ Remove(p) \/ GoQuiet(p)
  PROVE  WInv'
<1>1. FileOK /\ QueueOK(kq) /\ LoopOK /\ MaxVer \in Nat
  BY WatcherAssumption DEF WInv, StateOK
<1>2. UNCHANGED <<procs, debounce, recheck, ledger, chan, sent>> /\ LoopOK'
  BY <1>1 DEF Write, Remove, GoQuiet, out, watch, LoopOK
<1>3. FileOK'
  <2>1. CASE \E h \in BOOLEAN : Write(p, h)
    <3>1. PICK h \in BOOLEAN : Write(p, h)
      BY <2>1
    <3> QED  BY <1>1, <3>1, SMT DEF Write, FileOK
  <2>2. CASE Remove(p)
    <3>1. PICK g : g = [file EXCEPT ![p].here = FALSE]
      OBVIOUS
    <3>2. g \in [Path -> [ver : 0..MaxVer, here : BOOLEAN, hot : BOOLEAN]]
          /\ \A q \in Path : g[q].here => g[q].ver # 0
      BY <1>1, <3>1 DEF FileOK
    <3>3. file' = [g EXCEPT ![p].hot = FALSE]
      BY <1>1, <2>2, <3>1 DEF Remove, FileOK
    <3> QED  BY <3>2, <3>3 DEF FileOK
  <2>3. CASE GoQuiet(p)
    BY <1>1, <2>3 DEF GoQuiet, FileOK
  <2> QED  BY <2>1, <2>2, <2>3
<1>4. QueueOK(kq)'
  <2>1. Event(p, "write") \in [path : Path, op : Op] /\ Event(p, "remove") \in [path : Path, op : Op]
    BY DEF Event, Op
  <2>2. QueueOK(Push(kq, Event(p, "write"))) /\ QueueOK(Push(kq, Event(p, "remove")))
    BY <1>1, <2>1, PushKeeps
  <2>3. QueueOK(Push(Push(kq, Event(p, "write")), Event(p, "write")))
    BY <2>1, <2>2, PushKeeps
  <2>4. kq' \in {kq, Push(kq, Event(p, "write")), Push(kq, Event(p, "remove")),
                 Push(Push(kq, Event(p, "write")), Event(p, "write"))}
    BY DEF Write, Remove, GoQuiet
  <2> QED  BY <1>1, <2>2, <2>3, <2>4
<1> QED  BY <1>2, <1>3, <1>4, LoopFrame

LEMMA LoopStepsKeep ==
  ASSUME WInv, LoopOverflow \/ PollTick \/ ScanList \/ ScanEnd  PROVE  WInv'
<1>1. FileOK /\ QueueOK(kq) /\ LoopOK
  BY DEF WInv, StateOK
<1>2. UNCHANGED <<procs, debounce, recheck, ledger, chan, sent>> /\ FileOK'
  BY <1>1 DEF LoopOverflow, PollTick, ScanList, ScanEnd, out, FileOK
<1>3. QueueOK(kq)'
  <2>1. CASE LoopOverflow
    BY <1>1, <2>1, TailKeeps DEF LoopOverflow
  <2>2. CASE PollTick \/ ScanList \/ ScanEnd
    BY <1>1, <2>2 DEF PollTick, ScanList, ScanEnd
  <2> QED  BY <2>1, <2>2
<1>4. LoopOK'
  <2>1. Walk \in [pc : LoopPc, todo : SUBSET Path, skipped : SUBSET Path]
    BY DEF Walk, LoopPc
  <2>2. CASE LoopOverflow \/ PollTick
    BY <1>1, <2>1, <2>2 DEF LoopOverflow, PollTick, LoopOK, watch
  <2>3. CASE ScanList
    <3>1. loop' = [loop EXCEPT !.pc = "scan", !.todo = {p \in Path : file[p].here}]
      BY <2>3 DEF ScanList
    <3>2. loop' \in [pc : LoopPc, todo : SUBSET Path, skipped : SUBSET Path]
      BY <1>1, <3>1 DEF LoopOK, LoopPc
    <3> QED  BY <1>1, <2>3, <3>2 DEF ScanList, LoopOK, watch
  <2>4. CASE ScanEnd
    <3>1. loop' = [loop EXCEPT !.pc = "select", !.skipped = {}]
      BY <2>4 DEF ScanEnd
    <3>2. loop' \in [pc : LoopPc, todo : SUBSET Path, skipped : SUBSET Path]
      BY <1>1, <3>1 DEF LoopOK, LoopPc
    <3> QED  BY <1>1, <2>4, <3>2 DEF ScanEnd, LoopOK, watch
  <2> QED  BY <2>2, <2>3, <2>4
<1> QED  BY <1>2, <1>3, <1>4, LoopFrame

LEMMA LoopSweepKeeps ==
  ASSUME WInv, LoopSweep  PROVE  WInv'
<1>1. PendOK /\ FlushOK /\ LoopOK /\ SweepEvery \in Nat \ {0}
  BY WatcherAssumption DEF WInv, StateOK
<1>2. Off \in TimerType
  BY WatcherAssumption, SMT DEF Off, TimerType
<1>3. PendOK'
  <2>1. tick' \in 0..(SweepEvery - 1)
    BY <1>1, SMT DEF LoopSweep, Ticked, PendOK
  <2>2. pend' \in [Path -> TimerType]
    BY <1>1, <1>2 DEF LoopSweep, Swept, PendOK
  <2> QED  BY <2>1, <2>2 DEF PendOK
<1>4. \A q \in Path : pend[q].st = "flushing" => pend'[q].st = "flushing"
  BY DEF LoopSweep, Swept
<1>5. procs' = procs /\ UNCHANGED <<recheck, ledger, sent, chan>>
  BY DEF LoopSweep, out
<1>6. FlushOK'
  BY <1>1, <1>4, <1>5, ProcFacts DEF FlushOK
<1>7. RecheckOK'
  BY <1>5 DEF WInv, RecheckOK, RechecksTracked, recheck
<1>8. ClaimOK'
  BY <1>5, ClaimNew
<1>9. LoopOK'
  BY <1>1 DEF LoopSweep, LoopOK, LoopPc, watch
<1>10. FileOK' /\ QueueOK(kq)' /\ ProcsOK'
  BY DEF LoopSweep, WInv, StateOK, FileOK, QueueOK, ProcsOK
<1>11. TimerOK' /\ LedgerOK' /\ ChanOK' /\ SentOK'
  BY <1>5 DEF WInv, StateOK, recheck, ledger, TimerOK, LedgerOK, ChanOK, SentOK
<1> QED  BY <1>3, <1>6, <1>7, <1>8, <1>9, <1>10, <1>11 DEF WInv, StateOK

LEMMA ScanOneKeeps ==
  ASSUME WInv, NEW p \in Path, ScanOne(p)  PROVE  WInv'
<1>1. FileOK /\ LoopOK /\ FlushOK /\ RecheckOK /\ MaxVer \in Nat
  BY WatcherAssumption DEF WInv, StateOK
<1>2. PICK n : n = Proc("scan", p, "claim", file[p].ver)
  OBVIOUS
<1>3. Quiet(p) => ProcOK(n) /\ n.kind = "scan" /\ n.pc = "claim"
  <2> SUFFICES ASSUME Quiet(p)  PROVE  ProcOK(n) /\ n.kind = "scan" /\ n.pc = "claim"
    OBVIOUS
  <2>1. PICK v : v = file[p].ver
    OBVIOUS
  <2>2. v \in 0..MaxVer /\ v \in Version
    BY <1>1, <2>1, SMT DEF Quiet, FileOK, Version
  <2>3. "claim" \in Pc /\ "claim" \in PcOf("scan") /\ "scan" \in Kind
    BY DEF Pc, PcOf, Claimed, Kind
  <2>4. n = Proc("scan", p, "claim", v)
    BY <1>2, <2>1
  <2> QED  BY <2>2, <2>3, <2>4, NewProc, SMT
<1>4. \A z \in procs' : z \in procs \/ (ProcOK(z) /\ z.kind = "scan" /\ z.pc = "claim")
  BY <1>2, <1>3 DEF ScanOne
<1>5. procs \subseteq procs' /\ UNCHANGED <<debounce, recheck, ledger, sent, chan>>
  BY DEF ScanOne, out
<1>6. FlushOK'
  BY <1>1, <1>4, <1>5 DEF FlushOK, debounce
<1>7. RecheckOK'
  BY <1>1, <1>4, <1>5 DEF RecheckOK, RechecksTracked, recheck
<1>8. ClaimOK'
  <2>1. \A z \in procs' : InDelivery(z) => z \in procs
    BY <1>4 DEF InDelivery, Claimed
  <2> QED  BY <2>1, <1>5, ClaimNew
<1>9. ProcsOK'
  BY <1>4, ProcFacts DEF ProcsOK
<1>10. LoopOK'
  <2>1. PICK s : s = IF file[p].hot THEN loop.skipped \cup {p} ELSE loop.skipped
    OBVIOUS
  <2>2. loop' = [loop EXCEPT !.todo = @ \ {p}, !.skipped = s]
    BY <1>1, <2>1 DEF ScanOne, LoopOK
  <2>3. s \in SUBSET Path
    BY <1>1, <2>1 DEF LoopOK
  <2>4. loop' \in [pc : LoopPc, todo : SUBSET Path, skipped : SUBSET Path]
    BY <1>1, <2>2, <2>3 DEF LoopOK
  <2> QED  BY <1>1, <2>4 DEF ScanOne, LoopOK, watch
<1>11. FileOK' /\ QueueOK(kq)' /\ PendOK'
  BY DEF ScanOne, WInv, StateOK, debounce, FileOK, QueueOK, PendOK
<1>12. TimerOK' /\ LedgerOK' /\ ChanOK' /\ SentOK'
  BY <1>5 DEF WInv, StateOK, recheck, ledger, TimerOK, LedgerOK, ChanOK, SentOK
<1> QED  BY <1>6, <1>7, <1>8, <1>9, <1>10, <1>11, <1>12 DEF WInv, StateOK

\* An event cancels the flush of its path, which the pending map holds, before it
\* arms the path's timer or drops its entry.
LEMMA LoopEventProcs ==
  ASSUME WInv, LoopEvent, NEW p, p = Head(kq).path
  PROVE  \E f : /\ \A z \in procs : /\ f[z] \in procs' /\ Kept(z, f[z])
                                    /\ z.kind = "flush" /\ z.path = p => f[z].gen # "current"
                /\ \A y \in procs' : \/ \E z \in procs : y = f[z]
                                     \/ ProcOK(y) /\ y.kind = "remove" /\ y.pc = "send"
<1>1. p \in Path
  BY TailKeeps DEF LoopEvent, WInv, StateOK
<1>2. \A z \in procs : ProcOK(z) /\ Kept(z, z)
  BY ProcFacts DEF Kept
<1>3. \A z \in procs : z.kind = "flush" /\ z.path = p /\ z.gen = "current" => pend[p].st # "none"
  BY DEF WInv, FlushOK
<1>4. ASSUME NEW how \in {"rearmed", "removed"}
      PROVE  \E c : /\ (IF pend[p].st # "none" THEN Cancel(procs, "flush", p, how) ELSE procs)
                         = {c[z] : z \in procs}
                    /\ \A z \in procs : /\ Kept(z, c[z])
                                        /\ z.kind = "flush" /\ z.path = p => c[z].gen # "current"
  <2>1. CASE pend[p].st # "none"
    <3>1. PICK c : c = [z \in procs |-> CancelOne(z, "flush", p, how)]
      OBVIOUS
    <3>2. Cancel(procs, "flush", p, how) = {c[z] : z \in procs}
      BY <3>1 DEF Cancel, CancelOne
    <3>3. \A z \in procs : Kept(z, c[z]) /\ (z.kind = "flush" /\ z.path = p => c[z].gen # "current")
      BY <1>2, <3>1, CancelKeeps
    <3> QED  BY <2>1, <3>2, <3>3
  <2>2. CASE ~(pend[p].st # "none")
    <3>1. PICK c : c = [z \in procs |-> z]
      OBVIOUS
    <3>2. procs = {c[z] : z \in procs}
      BY <3>1
    <3>3. \A z \in procs : Kept(z, c[z]) /\ (z.kind = "flush" /\ z.path = p => c[z].gen # "current")
      BY <1>2, <1>3, <2>2, <3>1
    <3> QED  BY <2>2, <3>2, <3>3
  <2> QED  BY <2>1, <2>2
<1>5. CASE Head(kq).op = "write"
  <2>1. PICK c : /\ (IF pend[p].st # "none" THEN Cancel(procs, "flush", p, "rearmed") ELSE procs)
                      = {c[z] : z \in procs}
                 /\ \A z \in procs : /\ Kept(z, c[z])
                                     /\ z.kind = "flush" /\ z.path = p => c[z].gen # "current"
    BY <1>4
  <2>2. procs' = SetTimer({c[z] : z \in procs}, "flush", p)
    BY <1>5, <2>1 DEF LoopEvent
  <2>3. PICK f : f = [z \in procs |-> TimeOne(c[z], "flush", p)]
    OBVIOUS
  <2>4. procs' = {f[z] : z \in procs}
    BY <2>2, <2>3, SMT DEF SetTimer, TimeOne
  <2>5. \A z \in procs : Kept(z, f[z]) /\ f[z].gen = c[z].gen
    <3> TAKE z \in procs
    <3>1. ProcOK(c[z]) /\ Kept(z, c[z])
      BY <2>1 DEF Kept
    <3>2. Kept(c[z], f[z]) /\ f[z].gen = c[z].gen
      BY <2>3, <3>1, TimeKeeps
    <3> QED  BY <3>1, <3>2, KeptOnce
  <2> QED  BY <2>1, <2>4, <2>5, SMT
<1>6. CASE Head(kq).op # "write"
  <2>1. PICK c : /\ (IF pend[p].st # "none" THEN Cancel(procs, "flush", p, "removed") ELSE procs)
                      = {c[z] : z \in procs}
                 /\ \A z \in procs : /\ Kept(z, c[z])
                                     /\ z.kind = "flush" /\ z.path = p => c[z].gen # "current"
    BY <1>4
  <2>2. PICK n : n = Proc("remove", p, "send", 0)
    OBVIOUS
  <2>3. procs' = {c[z] : z \in procs} \cup {n}
    BY <1>6, <2>1, <2>2 DEF LoopEvent
  <2>4. ProcOK(n) /\ n.kind = "remove" /\ n.pc = "send"
    <3>1. "send" \in Pc /\ "send" \in PcOf("remove") /\ "remove" \in Kind
      BY DEF Pc, PcOf, Claimed, Kind
    <3>2. 0 \in 0..MaxVer
      BY WatcherAssumption, SMT
    <3> QED  BY <1>1, <2>2, <3>1, <3>2, NewProc, SMT
  <2> QED  BY <2>1, <2>3, <2>4, SMT
<1> QED  BY <1>5, <1>6

LEMMA LoopEventKeeps ==
  ASSUME WInv, LoopEvent  PROVE  WInv'
<1>1. PICK p : p = Head(kq).path
  OBVIOUS
<1>2. p \in Path /\ QueueOK(kq)'
  BY <1>1, TailKeeps DEF LoopEvent, WInv, StateOK
<1>3. PendOK /\ FlushOK /\ LoopOK /\ FileOK
  BY DEF WInv, StateOK
<1>4. PICK f : /\ \A z \in procs : /\ f[z] \in procs' /\ Kept(z, f[z])
                                   /\ z.kind = "flush" /\ z.path = p => f[z].gen # "current"
               /\ \A y \in procs' : \/ \E z \in procs : y = f[z]
                                    \/ ProcOK(y) /\ y.kind = "remove" /\ y.pc = "send"
  BY <1>1, LoopEventProcs, SMT
<1>5. \A z \in procs : f[z] \in procs' /\ Like(z, f[z])
  BY <1>4, LikeKept, ProcFacts
<1>6. \A y \in procs' : \/ \E z \in procs : y = f[z] /\ Like(z, y)
                        \/ ProcOK(y) /\ y.kind = "remove" /\ y.pc = "send"
  BY <1>4, <1>5
<1>7. PendOK' /\ \A q \in Path : q # p => pend'[q] = pend[q]
  <2>1. Off \in TimerType /\ Timer(p) \in TimerType
    BY <1>2, <1>3, WatcherAssumption, SMT DEF Off, Timer, TimerType, FileOK
  <2>2. pend' = [pend EXCEPT ![p] = Timer(p)] \/ pend' = [pend EXCEPT ![p] = Off]
    BY <1>1 DEF LoopEvent
  <2>3. tick' = tick
    BY DEF LoopEvent
  <2> QED  BY <1>2, <1>3, <2>1, <2>2, <2>3 DEF PendOK
<1>8. \A y \in procs' : y.kind = "flush" => \E z \in procs : y = f[z] /\ Like(z, y)
  BY <1>6
<1>9. \A y \in procs' : y.kind = "flush" /\ y.gen = "current" => pend'[y.path].st = "flushing"
  <2> SUFFICES ASSUME NEW y \in procs', y.kind = "flush", y.gen = "current"
               PROVE  pend'[y.path].st = "flushing"
    OBVIOUS
  <2>1. PICK z \in procs : y = f[z] /\ Like(z, y)
    BY <1>8
  <2>2. z.kind = "flush" /\ z.gen = "current" /\ z.path = y.path /\ z.path # p /\ z.path \in Path
    BY <2>1, <1>4, ProcFacts DEF Like
  <2> QED  BY <2>2, <1>3, <1>7 DEF FlushOK
<1>10. FlushOK'
  BY <1>3, <1>8, <1>9, FlushFrame
<1>11. UNCHANGED <<timer, tracked, seen, inflight, undone, sent, chan>>
  BY DEF LoopEvent, recheck, ledger, out
<1>12. RecheckOK'
  <2>1. \A y \in procs' : y.pc = "untrack" /\ y.gen = "current" => \E x \in procs : Like(x, y)
    BY <1>6
  <2> QED  BY <1>11, <2>1, RecheckFrame DEF WInv
<1>13. ClaimOK'
  <2>1. \A y \in procs' : InDelivery(y) => \E x \in procs : y = f[x] /\ Like(x, y)
    BY <1>6 DEF InDelivery
  <2> QED  BY <1>5, <1>11, <2>1, ClaimFrame DEF WInv
<1>14. ProcsOK'
  BY <1>6 DEF ProcsOK, Like
<1>15. LoopOK'
  BY <1>3 DEF LoopEvent, LoopOK, LoopPc, watch
<1>16. FileOK' /\ TimerOK' /\ LedgerOK' /\ ChanOK' /\ SentOK'
  BY <1>11 DEF LoopEvent, WInv, StateOK, FileOK, TimerOK, LedgerOK, ChanOK, SentOK
<1> QED  BY <1>2, <1>7, <1>10, <1>12, <1>13, <1>14, <1>15, <1>16 DEF WInv, StateOK

-----------------------------------------------------------------------------
(* Init, Reload and the theorems.                                           *)

\* A Watcher that starts has nothing under way.
LEMMA StartFacts ==
  /\ Off \in TimerType /\ Off.st # "armed" /\ 0 \in 0..MaxVer /\ 0 \in 0..(SweepEvery - 1)
  /\ 0 \in 0..MaxReloads /\ 1 \in 0..MaxVer
  /\ Walk \in [pc : LoopPc, todo : SUBSET Path, skipped : SUBSET Path]
  /\ QueueOK(<< >>) /\ << >> \in Seq([path : Path, ver : 0..MaxVer]) /\ Len(<< >>) <= ChanCap
<1>1. Off \in TimerType /\ Off.st # "armed" /\ 0 \in 0..MaxVer /\ 0 \in 0..(SweepEvery - 1)
      /\ 0 \in 0..MaxReloads /\ 1 \in 0..MaxVer
  BY WatcherAssumption, SMT DEF Off, TimerType
<1>2. Walk \in [pc : LoopPc, todo : SUBSET Path, skipped : SUBSET Path]
  BY DEF Walk, LoopPc
<1>3. QueueOK(<< >>) /\ << >> \in Seq([path : Path, ver : 0..MaxVer]) /\ Len(<< >>) <= ChanCap
  BY WatcherAssumption, SMT DEF QueueOK
<1> QED  BY <1>1, <1>2, <1>3

LEMMA InitHolds ==
  ASSUME Init  PROVE  WInv
<1>1. FileOK
  <2>1. ASSUME NEW p \in Path
        PROVE  /\ file[p] \in [ver : 0..MaxVer, here : BOOLEAN, hot : BOOLEAN]
               /\ file[p].here => file[p].ver # 0
    <3>1. \/ file[p] = [ver |-> 0, here |-> FALSE, hot |-> FALSE]
          \/ file[p] = [ver |-> 1, here |-> TRUE, hot |-> FALSE]
          \/ file[p] = [ver |-> 1, here |-> TRUE, hot |-> TRUE]
      BY DEF Init
    <3>2. 0 \in 0..MaxVer /\ 1 \in 0..MaxVer
      BY StartFacts
    <3>3. \A v \in 0..MaxVer, h, t \in BOOLEAN :
            [ver |-> v, here |-> h, hot |-> t] \in [ver : 0..MaxVer, here : BOOLEAN, hot : BOOLEAN]
      OBVIOUS
    <3>4. file[p] \in [ver : 0..MaxVer, here : BOOLEAN, hot : BOOLEAN]
      BY <3>1, <3>2, <3>3
    <3>5. file[p].here => file[p].ver # 0
      BY <3>1, SMT
    <3> QED  BY <3>4, <3>5
  <2>2. file = [p \in Path |-> file[p]]
    BY DEF Init
  <2> QED  BY <2>1, <2>2 DEF FileOK
<1>2. LoopOK /\ QueueOK(kq) /\ ChanOK
  BY StartFacts, WatcherAssumption DEF Init, LoopOK, ChanOK
<1>3. PendOK /\ TimerOK /\ RechecksTracked
  BY StartFacts DEF Init, PendOK, TimerOK, RechecksTracked, PerPath
<1>4. LedgerOK /\ SentOK /\ ProcsOK
  BY StartFacts DEF Init, LedgerOK, SentOK, ProcsOK, PerPath
<1>5. FlushOK /\ RecheckOK
  BY <1>3 DEF Init, FlushOK, RecheckOK
<1>6. ClaimOK
  BY SMT DEF Init, ClaimOK, DeliveredOnce, PerPath
<1> QED  BY <1>1, <1>2, <1>3, <1>4, <1>5, <1>6 DEF WInv, StateOK

LEMMA ReloadKeeps ==
  ASSUME WInv, Reload  PROVE  WInv'
<1>1. FileOK'
  BY DEF Reload, FileOK, WInv, StateOK
<1>2. LoopOK' /\ QueueOK(kq)' /\ ChanOK'
  <2>1. LoopOK'
    BY StartFacts, WatcherAssumption, SMT DEF Reload, LoopOK, WInv, StateOK
  <2> QED  BY <2>1, StartFacts DEF Reload, ChanOK
<1>3. PendOK' /\ TimerOK' /\ RechecksTracked'
  BY StartFacts DEF Reload, PendOK, TimerOK, RechecksTracked, PerPath
<1>4. LedgerOK' /\ SentOK' /\ ProcsOK'
  BY StartFacts DEF Reload, LedgerOK, SentOK, ProcsOK, PerPath
<1>5. FlushOK' /\ RecheckOK'
  BY <1>3 DEF Reload, FlushOK, RecheckOK
<1>6. ClaimOK'
  BY SMT DEF Reload, ClaimOK, DeliveredOnce, PerPath
<1> QED  BY <1>1, <1>2, <1>3, <1>4, <1>5, <1>6 DEF WInv, StateOK

LEMMA DeliveryKeeps ==
  ASSUME WInv, NEW x \in procs, Delivery(x)  PROVE  WInv'
BY ClaimKeeps, CheckCancelKeeps, SendKeeps, SupersededKeeps, CompleteDeliveryKeeps, FlushBeginKeeps,
   FlushStatKeeps, FlushHotKeeps, FlushDoneKeeps, SettleRecheckKeeps, RecheckAfterDebounceKeeps
   DEF Delivery

LEMMA StutterKeeps ==
  ASSUME WInv, UNCHANGED vars  PROVE  WInv'
<1>1. UNCHANGED <<procs, debounce, recheck, ledger, chan, sent>>
  BY DEF vars, out
<1>2. FileOK' /\ QueueOK(kq)' /\ LoopOK'
  BY DEF vars, watch, WInv, StateOK, FileOK, QueueOK, LoopOK
<1> QED  BY <1>1, <1>2, LoopFrame

LEMMA NextKeeps ==
  ASSUME WInv, [Next]_vars  PROVE  WInv'
<1>1. CASE \E p \in Path : Remove(p) \/ (\E h \in BOOLEAN : Write(p, h)) \/ GoQuiet(p)
  BY <1>1, FilesKeep
<1>2. CASE \E p \in Path : TimerFires(p) \/ RecheckFires(p)
  BY <1>2, TimerFiresKeeps, RecheckFiresKeeps
<1>3. CASE \E x \in procs : Delivery(x)
  BY <1>3, DeliveryKeeps
<1>4. CASE LoopEvent \/ LoopSweep \/ LoopOverflow \/ PollTick \/ ScanList \/ ScanEnd
  BY <1>4, LoopEventKeeps, LoopSweepKeeps, LoopStepsKeep
<1>5. CASE \E p \in Path : ScanOne(p) \/ ScanRecheck(p)
  BY <1>5, ScanOneKeeps, ScanRecheckKeeps
<1>6. CASE Receive \/ Reload
  BY <1>6, ReceiveKeeps, ReloadKeeps
<1>7. CASE UNCHANGED vars
  BY <1>7, StutterKeeps
<1> QED  BY <1>1, <1>2, <1>3, <1>4, <1>5, <1>6, <1>7 DEF Next, Clock, Callbacks, EventLoop

\* Only completeDelivery and a reload write the record.
LEMMA SeenKept ==
  ASSUME WInv, [Next]_vars, reloads' = reloads  PROVE  \A p \in Path : seen'[p] >= seen[p]
<1>1. \A p \in Path : seen[p] \in Nat
  BY SMT DEF WInv, StateOK, LedgerOK
<1>2. seen' = seen => \A p \in Path : seen'[p] >= seen[p]
  BY <1>1, SMT
<1>3. CASE \E p \in Path : Remove(p) \/ (\E h \in BOOLEAN : Write(p, h)) \/ GoQuiet(p)
                           \/ TimerFires(p) \/ RecheckFires(p) \/ ScanOne(p) \/ ScanRecheck(p)
  BY <1>2, <1>3 DEF Remove, Write, GoQuiet, TimerFires, RecheckFires, ScanOne, ScanRecheck, ledger
<1>4. CASE \E x \in procs : Delivery(x)
  <2>1. PICK x \in procs : Delivery(x)
    BY <1>4
  <2>2. CASE CompleteDelivery(x)
    BY <2>2, CompleteDeliveryKeeps
  <2>3. CASE Claim(x) \/ CheckCancel(x) \/ Send(x) \/ Superseded(x) \/ FlushBegin(x) \/ FlushStat(x)
    BY <1>2, <2>3 DEF Claim, CheckCancel, Send, Superseded, FlushBegin, FlushStat, ledger
  <2>4. CASE FlushHot(x) \/ FlushDone(x) \/ SettleRecheck(x) \/ RecheckAfterDebounce(x)
    BY <1>2, <2>4 DEF FlushHot, FlushDone, SettleRecheck, RecheckAfterDebounce, ledger
  <2> QED  BY <2>1, <2>2, <2>3, <2>4 DEF Delivery
<1>5. CASE LoopEvent \/ LoopSweep \/ LoopOverflow \/ PollTick \/ ScanList \/ ScanEnd \/ Receive
  BY <1>2, <1>5 DEF LoopEvent, LoopSweep, LoopOverflow, PollTick, ScanList, ScanEnd, Receive, ledger
<1>6. CASE Reload
  <2>1. reloads \in Nat /\ reloads' = reloads + 1
    BY <1>6, SMT DEF Reload, WInv, StateOK, LoopOK
  <2> QED  BY <2>1, SMT
<1>7. CASE UNCHANGED vars
  BY <1>2, <1>7 DEF vars, ledger
<1> QED  BY <1>3, <1>4, <1>5, <1>6, <1>7 DEF Next, Clock, Callbacks, EventLoop

LEMMA Tracked ==
  ASSUME WInv  PROVE  TimersTracked
<1>1. ParkedIsCancellable /\ RechecksTracked
  BY DEF WInv, FlushOK, RecheckOK, ParkedIsCancellable
<1>2. \A x \in procs : x.kind \in {"flush", "recheck"} \cup LoopKind /\ x.path \in Path /\ x.ver \in 0..MaxVer
  BY ProcFacts DEF ProcType, Kind, LoopKind
<1>3. TypeOK
  BY <1>2 DEF WInv, StateOK, FileOK, QueueOK, LoopOK, LoopPc, PendOK, TimerOK, LedgerOK, ChanOK, TypeOK
<1> QED  BY <1>1, <1>3 DEF TimersTracked

\* A blocked flush always has its entry in the pending map and an armed recheck its
\* record, so the next event of the file, and stopAllRechecks, find what they have to
\* cancel: for any number of files, writes and goroutines, any channel and kernel queue.
THEOREM TimersAlwaysTracked == Spec => []TimersTracked
<1>1. Init => WInv
  BY InitHolds
<1>2. WInv /\ [Next]_vars => WInv'
  BY NextKeeps
<1>3. WInv => TimersTracked
  BY Tracked
<1> QED  BY <1>1, <1>2, <1>3, PTL DEF Spec

\* Flush, recheck and scan deliver a version of a file at most once (but for a file
\* whose newer claim was given up over an older delivery), and deliveries that complete
\* in any order never take the record of what was seen back.
THEOREM DeliversInOrder == Spec => DeliveredInOrder
<1>1. Init => WInv
  BY InitHolds
<1>2. WInv /\ [Next]_vars => WInv'
  BY NextKeeps
<1>3. WInv => DeliveredOnce
  BY DEF WInv, ClaimOK
<1>4. WInv /\ [Next]_vars => [reloads' = reloads => \A p \in Path : seen'[p] >= seen[p]]_vars
  BY SeenKept
<1> QED  BY <1>1, <1>2, <1>3, <1>4, PTL DEF Spec, DeliveredInOrder, SeenAdvances

-----------------------------------------------------------------------------
(* FileQueries.  Lists in pages, for any rows, limits and changes meanwhile. *)

\* Every set of natural numbers that is not empty has a least element.
LEMMA LeastNat ==
  ASSUME NEW T \in SUBSET Nat, T # {} PROVE \E x \in T : \A y \in T : x <= y
<1>1. PICK R : R = OpToRel(<, Nat)
  OBVIOUS
<1>2. IsWellFoundedOn(R, Nat)
  BY <1>1, NatLessThanWellFounded
<1>3. PICK x \in T : \A y \in T : ~(<<y, x>> \in R)
  BY <1>2, WFMin
<1>4. ASSUME NEW y \in T PROVE x <= y
  <2>1. ~(<<y, x>> \in R)
    BY <1>3
  <2>2. y < x => <<y, x>> \in R
    BY <1>1, SMT DEF OpToRel
  <2> QED BY <2>1, <2>2, SMT
<1> QED BY <1>4

-----------------------------------------------------------------------------
(* The order of the rows.                                                  *)

RowsOK == /\ rowsOf \in [DOMAIN rowsOf -> [ca : Nat, kind : EntryKind]]
          /\ DOMAIN rowsOf \subseteq Id

\* Row y comes before row x in a list.
Above(x, y) == Before(Position(x), Position(y))
AllAbove(S, x) == {y \in S : Above(x, y)}

LEMMA AboveIs ==
  ASSUME RowsOK, NEW x \in DOMAIN rowsOf, NEW y \in DOMAIN rowsOf
  PROVE  /\ x \in Nat /\ rowsOf[x].ca \in Nat
         /\ Above(x, y) <=> \/ rowsOf[x].ca < rowsOf[y].ca
                            \/ rowsOf[x].ca = rowsOf[y].ca /\ x < y
<1>1. x \in Nat /\ rowsOf[x] \in [ca : Nat, kind : EntryKind]
  BY QueryAssumption DEF RowsOK
<1>2. rowsOf[x].ca \in Nat
  BY <1>1, SMT
<1>3. /\ Position(x)[1] = rowsOf[x].ca /\ Position(x)[2] = x
      /\ Position(y)[1] = rowsOf[y].ca /\ Position(y)[2] = y
  BY SMT DEF Position
<1> QED BY <1>1, <1>2, <1>3 DEF Above, Before

LEMMA AboveOrder ==
  ASSUME RowsOK, NEW x \in DOMAIN rowsOf, NEW y \in DOMAIN rowsOf, NEW z \in DOMAIN rowsOf
  PROVE  /\ ~Above(x, x)
         /\ Above(x, y) /\ Above(y, z) => Above(x, z)
         /\ x = y \/ Above(x, y) \/ Above(y, x)
<1>1. PICK a, b, c : a = rowsOf[x].ca /\ b = rowsOf[y].ca /\ c = rowsOf[z].ca
  OBVIOUS
<1>2. /\ x \in Nat /\ y \in Nat /\ z \in Nat /\ a \in Nat /\ b \in Nat /\ c \in Nat
      /\ Above(x, x) <=> (a < a \/ (a = a /\ x < x))
      /\ Above(x, y) <=> (a < b \/ (a = b /\ x < y))
      /\ Above(y, x) <=> (b < a \/ (b = a /\ y < x))
      /\ Above(y, z) <=> (b < c \/ (b = c /\ y < z))
      /\ Above(x, z) <=> (a < c \/ (a = c /\ x < z))
  BY <1>1, AboveIs
<1> QED BY <1>2, SMT

\* The last row of a list.
LEMMA LowestRow ==
  ASSUME RowsOK, NEW S, S \subseteq DOMAIN rowsOf, S # {}
  PROVE  \E m \in S : \A x \in S \ {m} : Above(m, x)
<1>1. PICK T : T = {rowsOf[x].ca : x \in S}
  OBVIOUS
<1>2. T \in SUBSET Nat /\ T # {}
  <2>1. \A x \in S : rowsOf[x].ca \in Nat
    BY AboveIs
  <2> QED BY <1>1, <2>1
<1>3. PICK c \in T : \A d \in T : c <= d
  BY <1>2, LeastNat
<1>4. PICK U : U = {x \in S : rowsOf[x].ca = c}
  OBVIOUS
<1>5. U \in SUBSET Nat /\ U # {}
  BY <1>1, <1>3, <1>4, AboveIs
<1>6. PICK m \in U : \A x \in U : m <= x
  BY <1>5, LeastNat
<1>7. ASSUME NEW x \in S \ {m} PROVE Above(m, x)
  <2>1. PICK d : d = rowsOf[x].ca
    OBVIOUS
  <2>2. d \in Nat /\ c \in Nat /\ c <= d /\ x \in Nat /\ m \in Nat /\ m # x
    BY <1>1, <1>2, <1>3, <1>5, <2>1, AboveIs
  <2>3. d = c => m <= x
    BY <1>4, <1>6, <2>1
  <2>4. c < d \/ (c = d /\ m < x)
    BY <2>2, <2>3, SMT
  <2>5. m \in S /\ rowsOf[m].ca = c
    BY <1>4, <1>6
  <2> QED BY <2>1, <2>4, <2>5, AboveIs
<1>8. m \in S
  BY <1>4, <1>6
<1> QED BY <1>7, <1>8

LEMMA AboveShrinks ==
  ASSUME RowsOK, NEW S, S \subseteq DOMAIN rowsOf, IsFiniteSet(S),
         NEW x \in S, NEW y \in S, Above(x, y)
  PROVE  /\ AllAbove(S, y) \subseteq AllAbove(S, x)
         /\ Cardinality(AllAbove(S, y)) < Cardinality(AllAbove(S, x))
         /\ Cardinality(AllAbove(S, x)) \in Nat /\ Cardinality(AllAbove(S, y)) \in Nat
<1>1. PICK A, B : A = AllAbove(S, x) /\ B = AllAbove(S, y)
  OBVIOUS
<1>2. B \subseteq A
  BY <1>1, AboveOrder DEF AllAbove
<1>3. y \in A /\ y \notin B
  BY <1>1, AboveOrder DEF AllAbove
<1>4. A \in SUBSET S /\ B \in SUBSET A
  BY <1>1, <1>2 DEF AllAbove
<1>5. IsFiniteSet(A)
  BY <1>4, FS_Subset
<1>6. IsFiniteSet(B) /\ Cardinality(B) <= Cardinality(A) /\ Cardinality(A) # Cardinality(B)
  BY <1>3, <1>4, <1>5, FS_Subset
<1>7. Cardinality(A) \in Nat /\ Cardinality(B) \in Nat
  BY <1>5, <1>6, FS_CardinalityType
<1>8. PICK a, b : a = Cardinality(A) /\ b = Cardinality(B)
  OBVIOUS
<1>9. b < a
  BY <1>6, <1>7, <1>8, SMT
<1> QED BY <1>1, <1>2, <1>7, <1>8, <1>9

\* The first row of a list: nothing is above it.
LEMMA HighestRow ==
  ASSUME RowsOK, NEW S, S \subseteq DOMAIN rowsOf, IsFiniteSet(S), NEW X, X \subseteq S, X # {}
  PROVE  \E m \in X : \A x \in X : ~Above(m, x)
<1>1. PICK T : T = {Cardinality(AllAbove(S, x)) : x \in X}
  OBVIOUS
<1>2. ASSUME NEW x \in X PROVE Cardinality(AllAbove(S, x)) \in Nat
  <2>1. AllAbove(S, x) \in SUBSET S
    BY DEF AllAbove
  <2> QED BY <2>1, FS_Subset, FS_CardinalityType
<1>3. T \in SUBSET Nat /\ T # {}
  BY <1>1, <1>2
<1>4. PICK c \in T : \A d \in T : c <= d
  BY <1>3, LeastNat
<1>5. PICK m \in X : c = Cardinality(AllAbove(S, m))
  BY <1>1, <1>4
<1>6. ASSUME NEW x \in X, Above(m, x) PROVE FALSE
  <2>1. PICK d : d = Cardinality(AllAbove(S, x))
    OBVIOUS
  <2>2. d < c /\ c \in Nat /\ d \in Nat
    BY <1>5, <1>6, <2>1, AboveShrinks
  <2>3. c <= d
    BY <1>1, <1>4, <2>1
  <2> QED BY <2>2, <2>3, SMT
<1> QED BY <1>6

-----------------------------------------------------------------------------
(* Sorting.                                                                *)

Descends(s) == \A i, j \in DOMAIN s : i < j => Above(s[j], s[i])
Sorts(S, s) == s \in [1..Cardinality(S) -> S] /\ Descends(s)

\* A list with a row below all of it.
LEMMA SortsOneMore ==
  ASSUME NEW S, NEW m \in S, NEW n \in Nat, Cardinality(S) = n, n # 0,
         \A x \in S \ {m} : Above(m, x), Cardinality(S \ {m}) = n - 1,
         NEW r, Sorts(S \ {m}, r)
  PROVE  \E s : Sorts(S, s)
<1>1. r \in [1..(n - 1) -> S \ {m}] /\ Descends(r)
  BY DEF Sorts
<1>2. PICK s : s = [i \in 1..n |-> IF i = n THEN m ELSE r[i]]
  OBVIOUS
<1>3. ASSUME NEW i \in 1..n, i # n PROVE i \in 1..(n - 1)
  BY <1>3, SMT
<1>4. ASSUME NEW i \in 1..n PROVE s[i] \in S /\ (i # n => s[i] = r[i] /\ r[i] \in S \ {m})
  <2>1. CASE i = n
    BY <1>2, <2>1
  <2>2. CASE i # n
    <3>1. r[i] \in S \ {m}
      BY <1>1, <1>3, <2>2
    <3> QED BY <1>2, <2>2, <3>1
  <2> QED BY <2>1, <2>2
<1>5. s \in [1..n -> S] /\ DOMAIN s = 1..n
  BY <1>2, <1>4
<1>6. ASSUME NEW i \in 1..n, NEW j \in 1..n, i < j PROVE Above(s[j], s[i])
  <2>1. i # n
    BY <1>6, SMT
  <2>2. CASE j = n
    BY <1>2, <1>4, <2>1, <2>2
  <2>3. CASE j # n
    <3>1. i \in 1..(n - 1) /\ j \in 1..(n - 1)
      BY <1>3, <2>1, <2>3
    <3>2. Above(r[j], r[i])
      BY <1>1, <1>6, <3>1 DEF Descends
    <3> QED BY <1>4, <2>1, <2>3, <3>2
  <2> QED BY <2>2, <2>3
<1> QED BY <1>5, <1>6 DEF Sorts, Descends

LEMMA SortExists ==
  ASSUME RowsOK, NEW S0, S0 \subseteq DOMAIN rowsOf, IsFiniteSet(S0)
  PROVE  \E s : Sorts(S0, s)
<1>1. PICK T : T = {n \in Nat : \E S \in SUBSET S0 : Cardinality(S) = n /\ ~ \E s : Sorts(S, s)}
  OBVIOUS
<1>2. SUFFICES ASSUME T # {} PROVE FALSE
  <2>1. Cardinality(S0) \in Nat
    BY FS_CardinalityType
  <2> QED BY <1>1, <1>2, <2>1
<1>3. T \in SUBSET Nat
  BY <1>1
<1>4. PICK n \in T : \A k \in T : n <= k
  BY <1>2, <1>3, LeastNat
<1>5. PICK S \in SUBSET S0 : Cardinality(S) = n /\ ~ \E s : Sorts(S, s)
  BY <1>1, <1>4
<1>6. n \in Nat /\ IsFiniteSet(S)
  BY <1>3, <1>4, <1>5, FS_Subset
<1>7. CASE n = 0
  <2>1. S = {}
    BY <1>5, <1>6, <1>7, FS_EmptySet
  <2>2. PICK s : s = [i \in 1..0 |-> i]
    OBVIOUS
  <2>3. 1..0 = {}
    BY SMT
  <2>4. s \in [1..0 -> S] /\ DOMAIN s = {}
    BY <2>2, <2>3
  <2>5. Sorts(S, s)
    BY <1>5, <1>7, <2>4 DEF Sorts, Descends
  <2> QED BY <1>5, <2>5
<1>8. CASE n # 0
  <2>1. S # {}
    BY <1>5, <1>6, <1>8, FS_EmptySet
  <2>2. PICK m \in S : \A x \in S \ {m} : Above(m, x)
    BY <2>1, LowestRow
  <2>3. Cardinality(S \ {m}) = n - 1
    BY <1>5, <1>6, FS_RemoveElement
  <2>4. PICK k : k = n - 1
    OBVIOUS
  <2>5. k \in Nat /\ ~(n <= k)
    BY <1>6, <1>8, <2>4, SMT
  <2>6. k \notin T
    BY <1>4, <2>5
  <2>7. S \ {m} \in SUBSET S0
    OBVIOUS
  <2>8. PICK r : Sorts(S \ {m}, r)
    BY <1>1, <2>3, <2>4, <2>5, <2>6, <2>7
  <2> QED BY <1>5, <1>6, <1>8, <2>2, <2>3, <2>8, SortsOneMore
<1> QED BY <1>7, <1>8

\* ORDER BY: every row of the set, once, from the highest to the lowest.
LEMMA SortedIs ==
  ASSUME RowsOK, NEW S, S \subseteq DOMAIN rowsOf, IsFiniteSet(S)
  PROVE  /\ Sorted(S) \in [1..Cardinality(S) -> S] /\ Cardinality(S) \in Nat
         /\ Descends(Sorted(S))
         /\ \A i, j \in 1..Cardinality(S) : i # j => Sorted(S)[i] # Sorted(S)[j]
         /\ \A x \in S : \E i \in 1..Cardinality(S) : Sorted(S)[i] = x
<1>1. PICK n : n = Cardinality(S)
  OBVIOUS
<1>2. n \in Nat
  BY <1>1, FS_CardinalityType
<1>3. PICK s : s = Sorted(S)
  OBVIOUS
<1>4. \E r \in [1..n -> S] : \A i, j \in DOMAIN r : i < j => Before(Position(r[j]), Position(r[i]))
  BY <1>1, SortExists DEF Sorts, Descends, Above
<1>5. s \in [1..n -> S] /\ \A i, j \in DOMAIN s : i < j => Before(Position(s[j]), Position(s[i]))
  BY <1>1, <1>3, <1>4 DEF Sorted
<1>6. Descends(s)
  BY <1>5 DEF Descends, Above
<1>7. ASSUME NEW i \in 1..n, NEW j \in 1..n, i # j PROVE s[i] # s[j]
  <2>1. i < j \/ j < i
    BY <1>7, SMT
  <2>2. Above(s[j], s[i]) \/ Above(s[i], s[j])
    BY <1>5, <1>6, <2>1 DEF Descends
  <2>3. s[i] \in DOMAIN rowsOf /\ s[j] \in DOMAIN rowsOf
    BY <1>5
  <2> QED BY <2>2, <2>3, AboveOrder
<1>8. s \in Injection(1..n, S)
  BY <1>5, <1>7 DEF Injection, IsInjective
<1>9. Cardinality(1..n) = n
  BY <1>2, FS_Interval, SMT
<1>10. s \in Surjection(1..n, S)
  BY <1>1, <1>8, <1>9, FS_Injection
<1>11. \A x \in S : \E i \in 1..n : s[i] = x
  BY <1>10 DEF Surjection
<1> QED BY <1>1, <1>2, <1>3, <1>5, <1>6, <1>7, <1>11

-----------------------------------------------------------------------------
(* LIMIT.                                                                  *)

LEMMA TopIs ==
  ASSUME NEW S, NEW n PROVE Top(S, n) = {x \in S : Cardinality(AllAbove(S, x)) < n}
BY DEF Top, AllAbove, Above

\* What is above a row of the first n is one of them too.
LEMMA TopIsUp ==
  ASSUME RowsOK, NEW S, S \subseteq DOMAIN rowsOf, IsFiniteSet(S), NEW n \in Nat,
         NEW x \in Top(S, n), NEW y \in S, Above(x, y)
  PROVE  y \in Top(S, n)
<1>1. PICK a, b : a = Cardinality(AllAbove(S, x)) /\ b = Cardinality(AllAbove(S, y))
  OBVIOUS
<1>2. x \in S /\ a < n
  BY <1>1, TopIs
<1>3. b < a /\ a \in Nat /\ b \in Nat
  BY <1>1, <1>2, AboveShrinks
<1>4. b < n
  BY <1>2, <1>3, SMT
<1> QED BY <1>1, <1>4, TopIs

\* So a row that is not among the first n comes below all of them.
LEMMA BelowTop ==
  ASSUME RowsOK, NEW S, S \subseteq DOMAIN rowsOf, IsFiniteSet(S), NEW n \in Nat,
         NEW x \in Top(S, n), NEW y \in S, y \notin Top(S, n)
  PROVE  Above(y, x)
<1>1. x \in S /\ x # y
  BY TopIs
<1>2. ~Above(x, y)
  BY TopIsUp
<1> QED BY <1>1, <1>2, AboveOrder

\* Fewer than n rows are all there are.
LEMMA TopIsAll ==
  ASSUME RowsOK, NEW S, S \subseteq DOMAIN rowsOf, IsFiniteSet(S), NEW n \in Nat,
         Cardinality(Top(S, n + 1)) <= n
  PROVE  Top(S, n + 1) = S
<1>1. PICK m : m = n + 1
  OBVIOUS
<1>2. PICK X : X = S \ Top(S, m)
  OBVIOUS
<1>3. SUFFICES ASSUME X # {} PROVE FALSE
  <2>1. Top(S, m) \subseteq S
    BY TopIs
  <2> QED BY <1>1, <1>2, <1>3, <2>1
<1>4. PICK x \in X : \A y \in X : ~Above(x, y)
  BY <1>2, <1>3, HighestRow
<1>5. PICK A : A = AllAbove(S, x)
  OBVIOUS
<1>6. PICK P : P = Top(S, m)
  OBVIOUS
<1>7. A \in SUBSET P
  BY <1>2, <1>4, <1>5, <1>6 DEF AllAbove
<1>8. P \in SUBSET S
  BY <1>6, TopIs
<1>9. IsFiniteSet(P)
  BY <1>8, FS_Subset
<1>10. IsFiniteSet(A) /\ Cardinality(A) <= Cardinality(P)
  BY <1>7, <1>9, FS_Subset
<1>11. Cardinality(A) \in Nat /\ Cardinality(P) \in Nat
  BY <1>9, <1>10, FS_CardinalityType
<1>12. ~(Cardinality(A) < m) /\ Cardinality(P) <= n
  BY <1>1, <1>2, <1>4, <1>5, <1>6, TopIs
<1>13. PICK a, q : a = Cardinality(A) /\ q = Cardinality(P)
  OBVIOUS
<1> QED BY <1>1, <1>10, <1>11, <1>12, <1>13, SMT

\* The highest row is among the first, however few.
LEMMA TopNotEmpty ==
  ASSUME RowsOK, NEW S, S \subseteq DOMAIN rowsOf, IsFiniteSet(S), S # {},
         NEW n \in Nat, n # 0
  PROVE  Top(S, n) # {}
<1>1. PICK m \in S : \A x \in S : ~Above(m, x)
  BY HighestRow
<1>2. AllAbove(S, m) = {}
  BY <1>1 DEF AllAbove
<1>3. Cardinality(AllAbove(S, m)) = 0
  BY <1>2, FS_EmptySet
<1>4. 0 < n
  BY SMT
<1> QED BY <1>1, <1>3, <1>4, TopIs

-----------------------------------------------------------------------------
(* A page.                                                                 *)

Limit == ParseLimit(query.limit)
HasMore == Cardinality(Fetch) > Limit
Listed == IF HasMore THEN Top(Fetch, Limit) ELSE Fetch

LEMMA LimitType == ASSUME query \in Query PROVE Limit \in Nat /\ Limit # 0
<1>1. PICK r : r = query.limit
  OBVIOUS
<1>2. r \in Nat /\ MaxLimit \in Nat /\ DefaultLimit \in 1..MaxLimit
  BY <1>1, QueryAssumption
<1>3. /\ Limit = (IF r = 0 THEN DefaultLimit ELSE IF r > MaxLimit THEN MaxLimit ELSE r)
  BY <1>1 DEF Limit, ParseLimit
<1>4. PICK l : l = Limit
  OBVIOUS
<1>5. l \in Nat /\ l # 0
  BY <1>2, <1>3, <1>4, SMT
<1> QED BY <1>4, <1>5

LEMMA HitsFinite == ASSUME RowsOK PROVE Hits \subseteq DOMAIN rowsOf /\ IsFiniteSet(Hits)
<1>1. Hits \subseteq DOMAIN rowsOf
  BY DEF Hits
<1>2. Hits \in SUBSET Id
  BY <1>1 DEF RowsOK
<1> QED BY <1>1, <1>2, QueryAssumption, FS_Subset

\* A page is rows that match and come after the cursor.  Without a next page it is all
\* of them; with one, it is not empty and the others come below all of it.
LEMMA PageIs ==
  ASSUME RowsOK, query \in Query
  PROVE  /\ Listed \subseteq Hits /\ IsFiniteSet(Listed)
         /\ ~HasMore => Listed = Hits
         /\ HasMore => /\ Listed # {}
                       /\ \A x \in Listed, y \in Hits \ Listed : Above(y, x)
<1>1. PICK l : l = Limit
  OBVIOUS
<1>2. l \in Nat /\ l # 0 /\ l + 1 \in Nat
  <2>1. l \in Nat /\ l # 0
    BY <1>1, LimitType
  <2> QED BY <2>1, SMT
<1>3. PICK H, F : H = Hits /\ F = Top(H, l + 1)
  OBVIOUS
<1>4. Fetch = F
  BY <1>1, <1>3 DEF Fetch, Limit
<1>5. H \subseteq DOMAIN rowsOf /\ IsFiniteSet(H)
  BY <1>3, HitsFinite
<1>6. F \in SUBSET H
  BY <1>3, TopIs
<1>7. F \subseteq DOMAIN rowsOf /\ IsFiniteSet(F)
  BY <1>5, <1>6, FS_Subset
<1>8. Cardinality(F) \in Nat
  BY <1>7, FS_CardinalityType
<1>9. CASE ~HasMore
  <2>1. ~(Cardinality(F) > l)
    BY <1>1, <1>4, <1>9 DEF HasMore
  <2>2. Cardinality(F) <= l
    BY <1>2, <1>8, <2>1, SMT
  <2>3. F = H
    BY <1>2, <1>3, <1>5, <2>2, TopIsAll
  <2>4. Listed = F
    BY <1>4, <1>9 DEF Listed
  <2> QED BY <1>3, <1>5, <1>9, <2>3, <2>4
<1>10. CASE HasMore
  <2>1. PICK P : P = Top(F, l)
    OBVIOUS
  <2>2. Listed = P
    BY <1>1, <1>4, <1>10, <2>1 DEF Listed
  <2>3. P \in SUBSET F
    BY <2>1, TopIs
  <2>4. IsFiniteSet(P)
    BY <1>7, <2>3, FS_Subset
  <2>5. Cardinality(F) > l
    BY <1>1, <1>4, <1>10 DEF HasMore
  <2>6. Cardinality(F) # 0
    BY <1>2, <1>8, <2>5, SMT
  <2>7. F # {}
    BY <1>7, <2>6, FS_EmptySet
  <2>8. P # {}
    BY <1>2, <1>7, <2>1, <2>7, TopNotEmpty
  <2>9. ASSUME NEW x \in P, NEW y \in H, y \notin P PROVE Above(y, x)
    <3>1. CASE y \in F
      BY <1>2, <1>7, <2>1, <2>9, <3>1, BelowTop
    <3>2. CASE y \notin F
      BY <1>2, <1>3, <1>5, <2>3, <2>9, <3>2, BelowTop
    <3> QED BY <3>1, <3>2
  <2> QED BY <1>3, <1>6, <1>10, <2>2, <2>3, <2>4, <2>8, <2>9
<1> QED BY <1>9, <1>10

-----------------------------------------------------------------------------
(* Tags.                                                                   *)

\* As many rows of file_tags as predicates: each predicate has its row.
LEMMA TagsAreCounted ==
  ASSUME NEW P, IsFiniteSet(P), \A p \in P : p = <<p[1], p[2]>>, NEW t
  PROVE  Cardinality({k \in DOMAIN t : <<k, t[k]>> \in P}) = Cardinality(P)
           <=> \A p \in P : p[1] \in DOMAIN t /\ t[p[1]] = p[2]
<1>1. PICK K : K = {k \in DOMAIN t : <<k, t[k]>> \in P}
  OBVIOUS
<1>2. PICK f : f = [k \in K |-> <<k, t[k]>>]
  OBVIOUS
<1>3. f \in [K -> P]
  BY <1>1, <1>2
<1>4. ASSUME NEW a \in K, NEW b \in K, f[a] = f[b] PROVE a = b
  <2>1. <<a, t[a]>> = <<b, t[b]>>
    BY <1>2, <1>4
  <2> QED BY <2>1, SMT
<1>5. f \in Injection(K, P)
  BY <1>3, <1>4 DEF Injection, IsInjective
<1>6. Cardinality(K) = Cardinality(P) <=> f \in Surjection(K, P)
  BY <1>5, FS_Injection
<1>7. ASSUME f \in Surjection(K, P), NEW p \in P PROVE p[1] \in DOMAIN t /\ t[p[1]] = p[2]
  <2>1. PICK k \in K : f[k] = p
    BY <1>7 DEF Surjection
  <2>2. p = <<k, t[k]>>
    BY <1>2, <2>1
  <2>3. p[1] = k /\ p[2] = t[k]
    BY <2>2, SMT
  <2> QED BY <1>1, <2>3
<1>8. ASSUME \A p \in P : p[1] \in DOMAIN t /\ t[p[1]] = p[2] PROVE f \in Surjection(K, P)
  <2>1. ASSUME NEW p \in P PROVE \E k \in K : f[k] = p
    <3>1. PICK k, v : k = p[1] /\ v = p[2]
      OBVIOUS
    <3>2. p = <<k, t[k]>> /\ k \in DOMAIN t
      BY <1>8, <3>1
    <3> QED BY <1>1, <1>2, <3>2
  <2> QED BY <1>3, <2>1 DEF Surjection
<1> QED BY <1>1, <1>6, <1>7, <1>8

-----------------------------------------------------------------------------
(* The inductive invariant: the cursor is at a row; what was given is at or  *)
(* above it, once; what matched all along was given or is below it.         *)

Asked == step \in {"page", "count", "done"}
Matching == {i \in DOMAIN rowsOf : Matches(rowsOf[i].kind, query)}

QueryTypes ==
  /\ RowsOK /\ edits \in Nat /\ query \in Query /\ more \in BOOLEAN /\ got \in Seq(Id)
  /\ step \in {"start", "page", "count", "done", "refused"}
  /\ cursor = <<>> \/ \E m \in DOMAIN rowsOf : cursor = Position(m)
GotOnce ==
  /\ Range2(got) \subseteq DOMAIN rowsOf
  /\ \A i, j \in DOMAIN got : i # j => got[i] # got[j]
  /\ more => \A x \in Range2(got) : ~AfterCursor(x)
StayedOK ==
  Asked => /\ stayed \subseteq DOMAIN rowsOf /\ ~Refused(query)
           /\ \A i \in stayed : /\ Matches(rowsOf[i].kind, query)
                                /\ i \in Range2(got) \/ (more /\ AfterCursor(i))
StillOK ==
  Asked /\ edits = 0 => /\ stayed = Matching /\ Range2(got) \subseteq stayed
                        /\ step = "done" => total = Cardinality(stayed)
PlaceInList ==
  /\ step = "start" => got = <<>> /\ cursor = <<>> /\ more
  /\ step = "done" => ~more

QueryInv == QueryTypes /\ GotOnce /\ StayedOK /\ StillOK /\ PlaceInList

LEMMA EmptyGot == ASSUME NEW g, g = <<>> PROVE Range2(g) = {} /\ DOMAIN g = {} /\ g \in Seq(Id)
<1>1. g \in Seq(Id) /\ DOMAIN g = {}
  BY SMT
<1> QED BY <1>1 DEF Range2

LEMMA QueryInitInv == ASSUME QueryInit PROVE QueryInv
<1>1. PICK D \in SUBSET Id : rowsOf \in [D -> [ca : Created, kind : EntryKind]]
  BY DEF QueryInit, Entries
<1>2. ASSUME NEW x \in D PROVE rowsOf[x] \in [ca : Nat, kind : EntryKind]
  <2>1. rowsOf[x] \in [ca : Created, kind : EntryKind]
    BY <1>1
  <2> QED BY <2>1, QueryAssumption, SMT
<1>3. RowsOK
  BY <1>1, <1>2 DEF RowsOK
<1>4. got = <<>> /\ Range2(got) = {} /\ DOMAIN got = {} /\ got \in Seq(Id) /\ 0 \in Nat
  <2>1. 0 \in Nat
    BY SMT
  <2> QED BY <2>1, EmptyGot DEF QueryInit
<1>5. QueryTypes
  BY <1>3, <1>4 DEF QueryInit, QueryTypes
<1>6. GotOnce
  BY <1>4 DEF GotOnce
<1> QED BY <1>5, <1>6 DEF QueryInit, QueryInv, StayedOK, StillOK, PlaceInList, Asked

LEMMA AskFirstStep == ASSUME QueryInv, AskFirst PROVE QueryInv'
<1>1. /\ step = "start" /\ step' \in {"refused", "page"}
      /\ step' = "page" => ~Refused(query) /\ stayed' = Matching
      /\ UNCHANGED <<rowsOf, edits, query, more, total, cursor, got>>
  BY DEF AskFirst, Matching
<1>2. cursor = <<>> /\ more /\ Range2(got) = {}
  BY <1>1, EmptyGot DEF QueryInv, PlaceInList
<1>3. QueryTypes' /\ GotOnce'
  BY <1>1 DEF QueryInv, QueryTypes, RowsOK, Position, GotOnce, AfterCursor
<1>4. PlaceInList'
  BY <1>1 DEF PlaceInList
<1>5. ~Refused(query)' <=> ~Refused(query)
  BY <1>1
<1>6. StayedOK' /\ StillOK'
  <2>1. CASE step' = "refused"
    BY <2>1 DEF StayedOK, StillOK, Asked
  <2>2. CASE step' = "page"
    <3>1. stayed' = Matching /\ Matching' = Matching
      BY <1>1, <2>2 DEF Matching
    <3>2. \A i : AfterCursor(i)'
      BY <1>1, <1>2 DEF AfterCursor
    <3>3. Range2(got)' = {}
      BY <1>1, <1>2
    <3> QED BY <1>1, <1>2, <2>2, <3>1, <3>2, <3>3 DEF StayedOK, StillOK, Matching, Asked
  <2> QED BY <1>1, <2>1, <2>2
<1> QED BY <1>3, <1>4, <1>6 DEF QueryInv

-----------------------------------------------------------------------------
(* Reading a page.                                                         *)

\* What comes behind a sequence that repeats nothing, being elsewhere and repeating nothing.
Once(s) == \A i, j \in DOMAIN s : i # j => s[i] # s[j]

LEMMA JoinedOnce ==
  ASSUME NEW g \in Seq(Id), NEW n \in Nat, NEW p \in [1..n -> Id], Once(g), Once(p),
         Range2(g) \cap Range2(p) = {}
  PROVE  g \o p \in Seq(Id) /\ Range2(g \o p) = Range2(g) \cup Range2(p) /\ Once(g \o p)
<1> PICK h : h = g \o p
  OBVIOUS
<1>1. PICK m : m = Len(g)
  OBVIOUS
<1>2. /\ h \in Seq(Id) /\ DOMAIN g = 1..m /\ m \in Nat /\ DOMAIN h = 1..(m + n)
      /\ \A i \in 1..m : h[i] = g[i]
      /\ \A i \in 1..n : h[m + i] = p[i]
  <2>1. p \in Seq(Id) /\ Len(p) = n /\ m \in Nat /\ DOMAIN g = 1..m
    BY <1>1, SMT
  <2>2. h \in Seq(Id)
    BY <2>1, SMT
  <2>3. Len(h) = m + n
    <3>1. \A q \in Seq(Id) : Len(g \o q) = Len(g) + Len(q)
      BY SMT
    <3> QED BY <1>1, <2>1, <3>1
  <2>4. DOMAIN h = 1..(m + n)
    BY <2>2, <2>3, SMT
  <2>5. \A i \in 1..m : h[i] = g[i]
    BY <1>1, <2>1, SMT
  <2>6. ASSUME NEW i \in 1..n PROVE h[m + i] = p[i]
    BY <1>1, <2>1, SMT
  <2> QED BY <2>1, <2>2, <2>4, <2>5, <2>6
<1>3. ASSUME NEW i \in 1..(m + n) PROVE i \in 1..m \/ \E k \in 1..n : i = m + k
  <2>1. i \in 1..m \/ (i - m \in 1..n /\ i = m + (i - m))
    BY <1>2, SMT
  <2> QED BY <2>1
<1>4. \A i \in 1..m : i \in 1..(m + n)
  BY <1>2, SMT
<1>5. \A k \in 1..n : m + k \in 1..(m + n)
  BY <1>2, SMT
<1>6. DOMAIN p = 1..n
  OBVIOUS
<1>7. Range2(h) = Range2(g) \cup Range2(p)
  <2>1. ASSUME NEW x \in Range2(h) PROVE x \in Range2(g) \cup Range2(p)
    <3>1. PICK i \in 1..(m + n) : x = h[i]
      BY <1>2 DEF Range2
    <3>2. CASE i \in 1..m
      BY <1>2, <3>1, <3>2 DEF Range2
    <3>3. CASE \E k \in 1..n : i = m + k
      <4>1. PICK k \in 1..n : i = m + k
        BY <3>3
      <4> QED BY <1>2, <1>6, <3>1, <4>1 DEF Range2
    <3> QED BY <1>3, <3>2, <3>3
  <2>2. ASSUME NEW x \in Range2(g) PROVE x \in Range2(h)
    <3>1. PICK k \in 1..m : x = g[k]
      BY <1>2 DEF Range2
    <3> QED BY <1>2, <1>4, <3>1 DEF Range2
  <2>3. ASSUME NEW x \in Range2(p) PROVE x \in Range2(h)
    <3>1. PICK k \in 1..n : x = p[k]
      BY <1>6 DEF Range2
    <3> QED BY <1>2, <1>5, <3>1 DEF Range2
  <2> QED BY <2>1, <2>2, <2>3
<1>8. ASSUME NEW i \in DOMAIN h, NEW j \in DOMAIN h, i # j PROVE h[i] # h[j]
  <2>1. i \in 1..(m + n) /\ j \in 1..(m + n)
    BY <1>2
  <2>2. CASE i \in 1..m /\ j \in 1..m
    BY <1>2, <1>8, <2>2 DEF Once
  <2>3. CASE i \in 1..m /\ \E k \in 1..n : j = m + k
    <3>1. PICK k \in 1..n : j = m + k
      BY <2>3
    <3>2. h[i] \in Range2(g) /\ h[j] \in Range2(p)
      BY <1>2, <1>6, <2>3, <3>1 DEF Range2
    <3> QED BY <3>2
  <2>4. CASE j \in 1..m /\ \E k \in 1..n : i = m + k
    <3>1. PICK k \in 1..n : i = m + k
      BY <2>4
    <3>2. h[j] \in Range2(g) /\ h[i] \in Range2(p)
      BY <1>2, <1>6, <2>4, <3>1 DEF Range2
    <3> QED BY <3>2
  <2>5. CASE (\E k \in 1..n : i = m + k) /\ \E k \in 1..n : j = m + k
    <3>1. PICK k \in 1..n : i = m + k
      BY <2>5
    <3>2. PICK l \in 1..n : j = m + l
      BY <2>5
    <3>3. k # l
      BY <1>8, <3>1, <3>2
    <3>4. h[i] = p[k] /\ h[j] = p[l]
      BY <1>2, <3>1, <3>2
    <3> QED BY <1>6, <3>3, <3>4 DEF Once
  <2> QED BY <1>3, <2>1, <2>2, <2>3, <2>4, <2>5
<1> QED BY <1>2, <1>7, <1>8 DEF Once

LEMMA ReadPageStep == ASSUME QueryInv, ReadPage PROVE QueryInv'
<1>1. PICK page : page = Sorted(Listed)
  OBVIOUS
<1>2. /\ step = "page" /\ more /\ got' = got \o page /\ more' = HasMore /\ step' = "count"
      /\ cursor' = IF HasMore THEN Position(page[Len(page)]) ELSE cursor
      /\ UNCHANGED <<rowsOf, edits, query, total, stayed>>
  BY <1>1 DEF ReadPage, Listed, HasMore, Limit
<1>3. RowsOK /\ query \in Query /\ edits \in Nat /\ got \in Seq(Id)
  BY DEF QueryInv, QueryTypes
<1>4. /\ Listed \subseteq Hits /\ IsFiniteSet(Listed)
      /\ ~HasMore => Listed = Hits
      /\ HasMore => /\ Listed # {} /\ \A x \in Listed, y \in Hits \ Listed : Above(y, x)
  BY <1>3, PageIs
<1>5. Hits \subseteq DOMAIN rowsOf /\ DOMAIN rowsOf \subseteq Id
  BY <1>3, HitsFinite DEF RowsOK
<1>6. PICK n : n = Cardinality(Listed)
  OBVIOUS
<1>7. /\ page \in [1..n -> Listed] /\ n \in Nat /\ Descends(page)
      /\ \A i, j \in 1..n : i # j => page[i] # page[j]
      /\ \A x \in Listed : \E i \in 1..n : page[i] = x
  BY <1>1, <1>3, <1>4, <1>5, <1>6, SortedIs
<1>8. page \in [1..n -> Id] /\ DOMAIN page = 1..n /\ Range2(page) = Listed
  <2>1. DOMAIN page = 1..n /\ \A i \in 1..n : page[i] \in Listed
    BY <1>7
  <2>2. Range2(page) = {page[i] : i \in 1..n}
    BY <2>1 DEF Range2
  <2>3. Range2(page) = Listed
    <3>1. ASSUME NEW x \in Listed PROVE x \in Range2(page)
      <4>1. \E i \in 1..n : page[i] = x
        BY <1>7
      <4> QED BY <2>2, <4>1
    <3>2. ASSUME NEW x \in Range2(page) PROVE x \in Listed
      BY <2>1, <2>2
    <3> QED BY <3>1, <3>2
  <2>4. Listed \subseteq Id
    BY <1>4, <1>5
  <2> QED BY <1>7, <2>1, <2>3, <2>4
<1>9. \A x \in Hits : AfterCursor(x) /\ Matches(rowsOf[x].kind, query)
  BY DEF Hits
<1>10. /\ Range2(got) \subseteq DOMAIN rowsOf /\ \A x \in Range2(got) : ~AfterCursor(x)
       /\ \A i, j \in DOMAIN got : i # j => got[i] # got[j]
  BY <1>2 DEF QueryInv, GotOnce
<1>12. PICK h : h = got \o page
  OBVIOUS
<1>13. /\ h \in Seq(Id) /\ Range2(h) = Range2(got) \cup Listed
       /\ \A i, j \in DOMAIN h : i # j => h[i] # h[j]
  <2>1. PICK g : g = got
    OBVIOUS
  <2>2. Once(g) /\ Once(page) /\ g \in Seq(Id) /\ h = g \o page
    BY <1>3, <1>7, <1>8, <1>10, <1>12, <2>1 DEF Once
  <2>3. Range2(g) \cap Range2(page) = {}
    <3>1. \A x \in Listed : x \notin Range2(g)
      BY <1>4, <1>9, <1>10, <2>1
    <3> QED BY <1>8, <3>1
  <2>4. h \in Seq(Id) /\ Range2(h) = Range2(g) \cup Range2(page) /\ Once(h)
    BY <1>7, <1>8, <2>2, <2>3, JoinedOnce
  <2> QED BY <1>8, <2>1, <2>4 DEF Once
<1>14. got' = h /\ Range2(got)' = Range2(got) \cup Listed
  BY <1>2, <1>12, <1>13 DEF Range2
<1>15. ASSUME HasMore
       PROVE  \E m \in Listed : /\ cursor' = Position(m) /\ \A x \in Listed : ~Above(x, m)
                                /\ \A y \in Hits \ Listed : Above(y, m)
  <2>1. n # 0
    <3>1. PICK x \in Listed : TRUE
      BY <1>4, <1>15
    <3>2. PICK i \in 1..n : TRUE
      BY <1>7, <3>1
    <3> QED BY <1>7, <3>2, SMT
  <2>2. Len(page) = n /\ n \in 1..n
    BY <1>7, <2>1, SMT
  <2>3. PICK m : m = page[n]
    OBVIOUS
  <2>4. m \in Listed /\ cursor' = Position(m)
    BY <1>2, <1>7, <1>15, <2>2, <2>3
  <2>5. ASSUME NEW x \in Listed, Above(x, m) PROVE FALSE
    <3>1. PICK i \in 1..n : page[i] = x
      BY <1>7
    <3>2. i < n \/ i = n
      BY <1>7, SMT
    <3>3. x = m \/ Above(m, x)
      BY <1>7, <1>8, <2>2, <2>3, <3>1, <3>2 DEF Descends
    <3>4. x \in DOMAIN rowsOf /\ m \in DOMAIN rowsOf
      BY <1>4, <1>5, <2>4
    <3> QED BY <1>3, <2>5, <3>3, <3>4, AboveOrder
  <2> QED BY <1>4, <1>15, <2>4, <2>5
<1>16. \A x : Position(x)' = Position(x)
  BY <1>2 DEF Position
<1>17. QueryTypes'
  <2>1. RowsOK'
    BY <1>2, <1>3 DEF RowsOK
  <2>2. cursor' = <<>> \/ \E m \in DOMAIN rowsOf' : cursor' = Position(m)'
    <3>1. CASE HasMore
      BY <1>2, <1>4, <1>5, <1>15, <1>16, <3>1
    <3>2. CASE ~HasMore
      BY <1>2, <1>16, <3>2 DEF QueryInv, QueryTypes
    <3> QED BY <3>1, <3>2
  <2>3. more' \in BOOLEAN
    <3>1. HasMore \in BOOLEAN
      BY SMT DEF HasMore
    <3> QED BY <1>2, <3>1
  <2> QED BY <1>2, <1>3, <1>13, <1>14, <2>1, <2>2, <2>3 DEF QueryTypes
<1>18. ASSUME HasMore, NEW m \in Listed, cursor' = Position(m)
       PROVE  \A x : AfterCursor(x)' <=> Above(x, m)
  <2>1. cursor' # <<>>
    <3>1. PICK a, b : Position(m) = <<a, b>>
      BY DEF Position
    <3>2. <<a, b>> # <<>>
      BY SMT
    <3> QED BY <1>18, <3>1, <3>2
  <2> QED BY <1>16, <1>18, <2>1 DEF AfterCursor, Above
<1>19. GotOnce'
  <2>1. ASSUME HasMore, NEW x \in Range2(got)' PROVE ~AfterCursor(x)'
    <3>1. PICK m \in Listed : cursor' = Position(m) /\ \A y \in Listed : ~Above(y, m)
      BY <1>15, <2>1
    <3>2. CASE x \in Listed
      BY <1>18, <2>1, <3>1, <3>2
    <3>3. CASE x \in Range2(got)
      <4>1. ~AfterCursor(x) /\ AfterCursor(m)
        BY <1>4, <1>9, <1>10, <3>3
      <4>2. PICK c \in DOMAIN rowsOf : cursor = Position(c)
        BY <4>1 DEF QueryInv, QueryTypes, AfterCursor
      <4>3. ~Above(x, c) /\ Above(m, c)
        BY <4>1, <4>2 DEF AfterCursor, Above
      <4>4. x \in DOMAIN rowsOf /\ m \in DOMAIN rowsOf
        BY <1>4, <1>5, <1>10, <3>3
      <4>5. ~Above(x, m)
        BY <1>3, <4>2, <4>3, <4>4, AboveOrder
      <4> QED BY <1>18, <2>1, <3>1, <4>5
    <3> QED BY <1>14, <2>1, <3>2, <3>3
  <2>2. Range2(got)' \subseteq DOMAIN rowsOf'
    BY <1>2, <1>4, <1>5, <1>10, <1>14
  <2> QED BY <1>2, <1>13, <1>14, <2>1, <2>2 DEF GotOnce
<1>20. StayedOK'
  <2>1. stayed \subseteq DOMAIN rowsOf /\ ~Refused(query)
    BY <1>2 DEF QueryInv, StayedOK, Asked
  <2>2. ASSUME NEW i \in stayed
        PROVE  /\ Matches(rowsOf[i].kind, query) /\ (i \in Range2(got)' \/ (more' /\ AfterCursor(i)'))
    <3>1. Matches(rowsOf[i].kind, query) /\ (i \in Range2(got) \/ AfterCursor(i))
      BY <1>2 DEF QueryInv, StayedOK, Asked
    <3>2. CASE i \in Range2(got) \/ i \in Listed
      BY <1>14, <3>1, <3>2
    <3>3. CASE AfterCursor(i) /\ i \notin Listed
      <4>1. i \in Hits
        BY <2>1, <3>1, <3>3 DEF Hits
      <4>2. HasMore
        BY <1>4, <3>3, <4>1
      <4>3. PICK m \in Listed : cursor' = Position(m) /\ \A y \in Hits \ Listed : Above(y, m)
        BY <1>15, <4>2
      <4>4. AfterCursor(i)'
        BY <1>18, <3>3, <4>1, <4>2, <4>3
      <4> QED BY <1>2, <3>1, <4>2, <4>4
    <3> QED BY <3>1, <3>2, <3>3
  <2>3. Refused(query)' <=> Refused(query)
    BY <1>2
  <2>4. \A i \in stayed : Matches(rowsOf[i].kind, query)' <=> Matches(rowsOf[i].kind, query)
    BY <1>2
  <2> QED BY <1>2, <2>1, <2>2, <2>3, <2>4 DEF StayedOK
<1>21. StillOK'
  <2>1. ASSUME edits = 0 PROVE stayed = Matching /\ Range2(got) \subseteq stayed
    BY <1>2, <2>1 DEF QueryInv, StillOK, Asked
  <2>2. Listed \subseteq Matching
    BY <1>4, <1>5, <1>9 DEF Matching
  <2>3. Matching' = Matching
    BY <1>2 DEF Matching
  <2> QED BY <1>2, <1>14, <2>1, <2>2, <2>3 DEF StillOK
<1> QED BY <1>2, <1>17, <1>19, <1>20, <1>21 DEF QueryInv, PlaceInList

-----------------------------------------------------------------------------
(* The total.                                                              *)

LEMMA AnsweredStep ==
  ASSUME QueryInv, step = "count", NEW c, Answered(c),
         edits = 0 => c = Cardinality(Matching)
  PROVE  QueryInv'
<1>1. /\ total' = c /\ step' = (IF more THEN "page" ELSE "done")
      /\ UNCHANGED <<rowsOf, edits, query, more, cursor, got, stayed>>
  BY DEF Answered
<1>2. Asked /\ step' \in {"page", "done"} /\ more \in BOOLEAN
  BY <1>1 DEF Asked, QueryInv, QueryTypes
<1>3. QueryTypes' /\ GotOnce'
  BY <1>1, <1>2 DEF QueryInv, QueryTypes, RowsOK, Position, GotOnce, AfterCursor
<1>4. StayedOK'
  <2>1. \A i \in stayed : AfterCursor(i)' <=> AfterCursor(i)
    BY <1>1 DEF AfterCursor, Position
  <2>2. Refused(query)' <=> Refused(query)
    BY <1>1
  <2>3. \A i \in stayed : Matches(rowsOf[i].kind, query)' <=> Matches(rowsOf[i].kind, query)
    BY <1>1
  <2> QED BY <1>1, <1>2, <2>1, <2>2, <2>3 DEF QueryInv, StayedOK
<1>5. StillOK'
  <2>1. Matching' = Matching
    BY <1>1 DEF Matching
  <2> QED BY <1>1, <1>2, <2>1 DEF QueryInv, StillOK
<1>6. PlaceInList'
  BY <1>1 DEF PlaceInList
<1> QED BY <1>3, <1>4, <1>5, <1>6 DEF QueryInv

LEMMA FilesListStep == ASSUME QueryInv, FilesList PROVE QueryInv'
<1>1. {i \in DOMAIN rowsOf : CountsFile(rowsOf[i].kind, query)} = Matching
  <2>1. \A i \in DOMAIN rowsOf : CountsFile(rowsOf[i].kind, query) <=> Matches(rowsOf[i].kind, query)
    BY DEF FilesList, CountsFile, Matches
  <2> QED BY <2>1 DEF Matching
<1> QED BY <1>1, AnsweredStep DEF FilesList

LEMMA UploadLogsListStep == ASSUME QueryInv, UploadLogsList PROVE QueryInv'
<1>1. {i \in DOMAIN rowsOf : CountsLog(rowsOf[i].kind, query)} = Matching
  <2>1. \A i \in DOMAIN rowsOf : CountsLog(rowsOf[i].kind, query) <=> Matches(rowsOf[i].kind, query)
    BY DEF UploadLogsList, CountsLog, Matches
  <2> QED BY <2>1 DEF Matching
<1> QED BY <1>1, AnsweredStep DEF UploadLogsList

\* No filter but the agent of the path, which is one.
LEMMA AgentListUploadLogsStep == ASSUME QueryInv, AgentListUploadLogs PROVE QueryInv'
<1>1. PICK q : q = [query EXCEPT !.status = "any"]
  OBVIOUS
<1>2. query \in Query /\ ~Refused(query) /\ query.list = "agentLogs"
  BY DEF QueryInv, QueryTypes, StayedOK, Asked, AgentListUploadLogs
<1>3. query.owner # "any" /\ query.owner # "malformed"
  BY <1>2, QueryAssumption DEF Refused
<1>4. q.owner = query.owner /\ q.status = "any"
  BY <1>1, <1>2, QueryAssumption
<1>5. \A k : LogMatches(k, q) <=> k.owner = query.owner
  BY <1>3, <1>4 DEF LogMatches
<1>6. \A k : Matches(k, query) <=> k.owner = query.owner
  BY <1>2 DEF Matches, OwnerMatches
<1>7. {i \in DOMAIN rowsOf : CountsLog(rowsOf[i].kind, q)} = Matching
  BY <1>5, <1>6 DEF CountsLog, Matching
<1> QED BY <1>1, <1>7, AnsweredStep DEF AgentListUploadLogs

LEMMA ListDeliveriesStep == ASSUME QueryInv, ListDeliveries PROVE QueryInv'
<1>1. {i \in DOMAIN rowsOf : rowsOf[i].kind.owner = query.owner} = Matching
  <2>1. \A k : Matches(k, query) <=> k.owner = query.owner
    BY DEF ListDeliveries, Matches, OwnerMatches
  <2> QED BY <2>1 DEF Matching
<1> QED BY <1>1, AnsweredStep DEF ListDeliveries

-----------------------------------------------------------------------------
(* Meanwhile: the rows there are keep their place.                          *)

LEMMA EditKeeps ==
  ASSUME QueryInv, RowsOK', DOMAIN rowsOf \subseteq DOMAIN rowsOf',
         \A x \in DOMAIN rowsOf : rowsOf'[x].ca = rowsOf[x].ca,
         step \in {"page", "count"}, edits' = edits + 1,
         UNCHANGED <<query, step, more, total, cursor, got>>,
         stayed' \subseteq stayed,
         \A i \in stayed' : Matches(rowsOf'[i].kind, query)
  PROVE  QueryInv'
<1>1. \A x \in DOMAIN rowsOf : Position(x)' = Position(x)
  BY DEF Position
<1>2. edits' \in Nat /\ edits' # 0
  <2>1. edits \in Nat
    BY DEF QueryInv, QueryTypes
  <2> QED BY <2>1, SMT
<1>3. QueryTypes'
  BY <1>1, <1>2 DEF QueryInv, QueryTypes
<1>4. \A x \in DOMAIN rowsOf : AfterCursor(x)' <=> AfterCursor(x)
  BY <1>1 DEF AfterCursor
<1>5. GotOnce'
  BY <1>4 DEF QueryInv, GotOnce
<1>6. StayedOK'
  <2>1. Asked /\ (Refused(query)' <=> Refused(query))
    BY DEF Asked
  <2>2. \A i \in stayed' : Matches(rowsOf[i].kind, query)'
    OBVIOUS
  <2> QED BY <1>4, <2>1, <2>2 DEF QueryInv, StayedOK
<1>7. StillOK' /\ PlaceInList'
  BY <1>2 DEF QueryInv, StillOK, PlaceInList
<1> QED BY <1>3, <1>5, <1>6, <1>7 DEF QueryInv

LEMMA InsertedStep == ASSUME QueryInv, Inserted PROVE QueryInv'
<1>1. PICK i \in Id \ DOMAIN rowsOf, c \in LateCreated, k \in EntryKind :
         rowsOf' = [j \in DOMAIN rowsOf \cup {i} |->
                     IF j = i THEN [ca |-> c, kind |-> k] ELSE rowsOf[j]]
  BY DEF Inserted
<1>2. RowsOK /\ step \in {"page", "count"} /\ stayed' = stayed /\ edits' = edits + 1
  BY DEF Inserted, QueryInv, QueryTypes
<1>3. DOMAIN rowsOf' = DOMAIN rowsOf \cup {i} /\ \A j \in DOMAIN rowsOf : rowsOf'[j] = rowsOf[j]
  BY <1>1
<1>4. c \in Nat
  BY QueryAssumption
<1>5. [ca |-> c, kind |-> k] \in [ca : Nat, kind : EntryKind]
  BY <1>4
<1>6. RowsOK'
  <2>1. \A j \in DOMAIN rowsOf : rowsOf[j] \in [ca : Nat, kind : EntryKind]
    BY <1>2 DEF RowsOK
  <2>2. rowsOf' \in [DOMAIN rowsOf \cup {i} -> [ca : Nat, kind : EntryKind]]
    BY <1>1, <1>5, <2>1
  <2> QED BY <1>2, <1>3, <2>2 DEF RowsOK
<1>7. \A j \in stayed : j \in DOMAIN rowsOf /\ Matches(rowsOf'[j].kind, query)
  BY <1>2, <1>3 DEF QueryInv, StayedOK, Asked
<1> QED BY <1>2, <1>3, <1>6, <1>7, EditKeeps DEF Inserted

LEMMA EditedStep == ASSUME QueryInv, Edited PROVE QueryInv'
<1>1. PICK i \in DOMAIN rowsOf, k \in EntryKind :
         /\ rowsOf' = [rowsOf EXCEPT ![i].kind = k]
         /\ stayed' = IF Matches(k, query) THEN stayed ELSE stayed \ {i}
  BY DEF Edited
<1>2. RowsOK /\ step \in {"page", "count"} /\ edits' = edits + 1
  BY DEF Edited, QueryInv, QueryTypes
<1>3. \A j \in DOMAIN rowsOf : rowsOf[j] \in [ca : Nat, kind : EntryKind]
  BY <1>2 DEF RowsOK
<1>4. PICK r : r = [rowsOf[i] EXCEPT !.kind = k]
  OBVIOUS
<1>5. r \in [ca : Nat, kind : EntryKind] /\ r.ca = rowsOf[i].ca /\ r.kind = k
  <2>1. PICK o : o = rowsOf[i]
    OBVIOUS
  <2>2. o \in [ca : Nat, kind : EntryKind] /\ r = [o EXCEPT !.kind = k]
    BY <1>3, <1>4, <2>1
  <2>3. r \in [ca : Nat, kind : EntryKind] /\ r.ca = o.ca /\ r.kind = k
    BY <2>2, SMT
  <2> QED BY <2>1, <2>3
<1>6. /\ DOMAIN rowsOf' = DOMAIN rowsOf /\ rowsOf'[i] = r
      /\ \A j \in DOMAIN rowsOf : j # i => rowsOf'[j] = rowsOf[j]
  BY <1>1, <1>4
<1>7. rowsOf' \in [DOMAIN rowsOf -> [ca : Nat, kind : EntryKind]]
  BY <1>1, <1>3, <1>4, <1>5
<1>8. RowsOK'
  BY <1>2, <1>6, <1>7 DEF RowsOK
<1>9. \A j \in DOMAIN rowsOf : rowsOf'[j].ca = rowsOf[j].ca
  BY <1>5, <1>6
<1>10. \A j \in stayed : j \in DOMAIN rowsOf /\ Matches(rowsOf[j].kind, query)
  BY <1>2 DEF QueryInv, StayedOK, Asked
<1>11. ASSUME NEW j \in stayed' PROVE j \in stayed /\ Matches(rowsOf'[j].kind, query)
  BY <1>1, <1>5, <1>6, <1>10, <1>11
<1> QED BY <1>2, <1>6, <1>8, <1>9, <1>11, EditKeeps DEF Edited

-----------------------------------------------------------------------------
\* The inductive invariant holds in every state.
LEMMA QueryInductive == QuerySpec => []QueryInv
<1>1. QueryInv /\ [QueryNext]_fqVars => QueryInv'
  <2>1. ASSUME QueryInv, UNCHANGED fqVars PROVE QueryInv'
    BY <2>1 DEF fqVars, QueryInv, QueryTypes, RowsOK, Position, GotOnce, AfterCursor, StayedOK,
                StillOK, PlaceInList, Asked, Matching
  <2> QED BY <2>1, AskFirstStep, ReadPageStep, FilesListStep, UploadLogsListStep,
             AgentListUploadLogsStep, ListDeliveriesStep, InsertedStep, EditedStep DEF QueryNext
<1> QED BY <1>1, QueryInitInv, PTL DEF QuerySpec

LEMMA QueryInvExact == ASSUME QueryInv PROVE ListsAreExact
<1>1. WalkExact
  BY DEF QueryInv, GotOnce, StayedOK, PlaceInList, Asked, WalkExact
<1>2. TotalIsOfList
  <2>1. SUFFICES ASSUME step = "done", edits = 0 PROVE total = Len(got)
    BY DEF TotalIsOfList
  <2>2. /\ total = Cardinality(stayed) /\ Range2(got) \subseteq stayed
        /\ stayed \subseteq Range2(got) /\ got \in Seq(Id)
    BY <1>1, <2>1 DEF QueryInv, QueryTypes, StillOK, Asked, WalkExact
  <2>3. PICK n, g : n = Len(got) /\ g = got
    OBVIOUS
  <2>4. n \in Nat /\ DOMAIN g = 1..n /\ g \in [1..n -> Id]
    BY <2>2, <2>3, SMT
  <2>5. stayed = {g[i] : i \in 1..n}
    BY <2>2, <2>3, <2>4 DEF Range2
  <2>6. g \in [1..n -> stayed]
    BY <2>4, <2>5
  <2>7. g \in Surjection(1..n, stayed)
    BY <2>5, <2>6 DEF Surjection
  <2>8. g \in Injection(1..n, stayed)
    BY <1>1, <2>3, <2>4, <2>6 DEF WalkExact, Injection, IsInjective
  <2>9. IsFiniteSet(1..n) /\ Cardinality(1..n) = n
    BY <2>4, FS_Interval, SMT
  <2>10. Cardinality(stayed) = n
    BY <2>7, <2>8, <2>9, FS_Surjection
  <2> QED BY <2>2, <2>3, <2>10
<1>3. TagsAreAnd
  <2>1. query \in Query
    BY DEF QueryInv, QueryTypes
  <2>2. PICK P : P = Range2(query.tag)
    OBVIOUS
  <2>3. IsFiniteSet(P) /\ \A p \in P : p = <<p[1], p[2]>>
    BY <2>1, <2>2, QueryAssumption
  <2>4. \A t : Cardinality({k \in DOMAIN t : <<k, t[k]>> \in P}) = Cardinality(P)
                 <=> \A p \in P : p[1] \in DOMAIN t /\ t[p[1]] = p[2]
    BY <2>3, TagsAreCounted
  <2> QED BY <2>2, <2>4 DEF TagsAreAnd, HasTags, Predicates
<1> QED BY <1>1, <1>2, <1>3 DEF ListsAreExact

\* The lists of files, logs and deliveries: whatever is inserted or changed between two
\* pages, a walk gives no row twice and none that matched all along is missing; while
\* nothing changes the total of a page is the length of the walk; tags are a conjunction.
THEOREM ListsAlwaysExact == QuerySpec => []ListsAreExact
BY QueryInductive, QueryInvExact, PTL
=============================================================================
