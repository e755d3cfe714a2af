--------------------------- MODULE RuleSyncProofs ---------------------------
(***************************************************************************)
(* Proofs about RuleSync, for any number of rules, streams and entries.    *)
(* An entry counts its users, and who lists the rules holds it; while no   *)
(* entry is retired in use there is one for everybody.  So no edit is sent *)
(* between the list and the snapshot made of it, and what the current      *)
(* stream carries ends in the rules of the database.  The sessions that    *)
(* come over the same stream (Credentials) follow.                         *)
(***************************************************************************)
EXTENDS RuleSync, Credentials, FiniteSetTheorems, TLAPS

USE Zenon

\* The rules of an agent, and what its channel carries.
Rules == [Rule -> Content \cup {Off, None}]
Message == [kind : {"rule"}, rule : Rule, to : Content \cup {Off, None}]
           \cup [kind : {"snapshot"}, rules : Rules]
\* The records of the processes and of the lock entries.
SyncType ==
  [pc : {"free", "registered", "acquired", "listed", "live", "returned", "release"},
   entry : Entry \cup {None}, snap : Rules, degraded : BOOLEAN]
EditType == [pc : {"idle", "check", "acquire", "send"}, entry : Entry \cup {None}]
LockType == [users : Nat, dead : BOOLEAN, held : BOOLEAN]

RuleTypes ==
  /\ table \in Rules /\ running \in [Rule -> Content \cup {None}]
  /\ current \in Stream \cup {None} /\ sync \in [Stream -> SyncType]
  /\ chan \in Seq(Message)
  /\ entries \in Entry \cup {None} /\ lock \in [Entry -> LockType]
  /\ edit \in [Rule -> EditType] /\ lost \in BOOLEAN /\ retiredInUse \in BOOLEAN

\* Who uses an entry: the edits that send under it and the streams that synchronise.
Editors(e) == {r \in Rule : edit[r].entry = e}
Syncers(e) == {s \in Stream : sync[s].entry = e}

\* The count of an entry is the number of its users; an entry in use is the one of the
\* map or retired, and none is retired in use unless the ghost says so.
Counted(e) ==
  /\ IsFiniteSet(Editors(e)) /\ IsFiniteSet(Syncers(e))
  /\ lock[e].users = Cardinality(Editors(e)) + Cardinality(Syncers(e))
  /\ lock[e].users > 0 => entries = e \/ lock[e].dead
  /\ lock[e].dead => lock[e].users > 0 /\ retiredInUse

\* A process knows an entry just when it uses one.
HasEntry ==
  /\ \A r \in Rule : edit[r].entry # None <=> edit[r].pc = "send"
  /\ \A s \in Stream : sync[s].entry # None <=> sync[s].pc \in {"acquired", "listed"}

\* A stream that has listed the rules holds its entry, so no other has.
Listing ==
  /\ \A s \in Stream : sync[s].pc = "listed" => lock[sync[s].entry].held
  /\ \A s, t \in Stream :
       sync[s].pc = "listed" /\ sync[t].pc = "listed" /\ sync[s].entry = sync[t].entry => s = t

\* The current stream is not over, and while it delivers no other stream has listed.
CurrentOK ==
  /\ Len(chan) <= Cap /\ (current = None => chan = << >>)
  /\ current # None =>
       /\ sync[current].pc \in {"registered", "acquired", "listed", "live", "returned"}
       /\ ~retiredInUse /\ sync[current].pc \in {"listed", "live"} =>
            \A s \in Stream : sync[s].pc = "listed" => s = current

\* What a message does to a rule.
Concerns(m, r) == m.kind = "snapshot" \/ m.rule = r
Gives(m, r) == IF m.kind = "snapshot" THEN Runs(m.rules[r]) ELSE Runs(m.to)

\* Once the agent has applied the channel, the rule is v.
Ends(r, v) ==
  \/ running[r] = v /\ \A i \in DOMAIN chan : ~Concerns(chan[i], r)
  \/ \E i \in DOMAIN chan : 
        /\ Concerns(chan[i], r) /\ Gives(chan[i], r) = v
        /\ \A j \in DOMAIN chan : j > i => ~Concerns(chan[j], r)

\* What the current stream listed is still what the database holds, edits under way aside.
SnapOK ==
  current # None /\ ~lost /\ ~retiredInUse /\ sync[current].pc = "listed" =>
    \A r \in Rule : edit[r].pc = "idle" => sync[current].snap[r] = table[r]

\* What the current stream carries ends in the rules of the database.
EndsOK ==
  Synced /\ ~lost /\ ~retiredInUse =>
    \A r \in Rule : edit[r].pc = "idle" => Ends(r, Runs(table[r]))

\* The inductive invariant.
RSInv ==
  /\ RuleTypes /\ (\A e \in Entry : Counted(e)) /\ HasEntry /\ Listing /\ CurrentOK
  /\ SnapOK /\ EndsOK

\* The constants, as the leaves need them.
LEMMA RuleConstants ==
  /\ Cap \in Nat \ {0} /\ None \notin Stream /\ None \notin Entry /\ None \notin Content
  /\ Off \notin Content /\ Off # None
BY RuleSyncAssumption

\* What an agent runs for a row.
LEMMA RunsType == \A v : Runs(v) \in Content \cup {None}
BY DEF Runs

\* acquire: the count goes up by one, and a fresh entry was nobody's.
LEMMA AcquireFacts ==
  ASSUME lock \in [Entry -> LockType], entries \in Entry \cup {None}, NEW e \in Entry, Acquire(e)
  PROVE  /\ entries' = e /\ lock' \in [Entry -> LockType]
         /\ \A f \in Entry : f # e => lock'[f] = lock[f]
         /\ lock'[e].users = lock[e].users + 1 /\ ~lock'[e].dead
         /\ lock'[e].held <=> e = entries /\ lock[e].held
         /\ e # entries => lock[e].users = 0 /\ (entries = None \/ lock[entries].dead)
<1>1. CASE e = entries
  <2>1. e # None /\ ~lock[e].dead
    BY <1>1, RuleConstants DEF Acquire, FreshEntry, NoUser
  <2>2. PICK u \in Nat, d \in BOOLEAN, h \in BOOLEAN : lock[e] = [users |-> u, dead |-> d, held |-> h]
    BY DEF LockType
  <2>a. lock' = [lock EXCEPT ![e] = [lock[e] EXCEPT !.users = lock[e].users + 1]]
    BY <1>1 DEF Acquire
  <2>b. [lock[e] EXCEPT !.users = lock[e].users + 1] = [users |-> u + 1, dead |-> d, held |-> h]
    BY <2>2, SMT
  <2>3. lock' = [lock EXCEPT ![e] = [users |-> u + 1, dead |-> d, held |-> h]]
    BY <2>a, <2>b
  <2>4. [users |-> u + 1, dead |-> d, held |-> h] \in LockType
    BY SMT DEF LockType
  <2> QED BY <1>1, <2>1, <2>2, <2>3, <2>4, SMT DEF Acquire
<1>2. CASE e # entries
  <2>1. lock[e].users = 0 /\ (entries = None \/ lock[entries].dead)
    BY <1>2 DEF Acquire, FreshEntry, NoUser
  <2>a. lock' = [lock EXCEPT ![e] = [NoLock EXCEPT !.users = 1]]
    BY <1>2 DEF Acquire
  <2>2. PICK w : w = [NoLock EXCEPT !.users = 1]
    OBVIOUS
  <2>3. w \in LockType /\ w.users = 1 /\ w.dead = FALSE /\ w.held = FALSE
    BY <2>2 DEF LockType, NoLock
  <2>4. lock'[e] = w /\ lock' \in [Entry -> LockType]
        /\ \A f \in Entry : f # e => lock'[f] = lock[f]
    BY <2>a, <2>2, <2>3
  <2>5. entries' = e
    BY DEF Acquire
  <2> QED BY <1>2, <2>1, <2>3, <2>4, <2>5, SMT
<1> QED BY <1>1, <1>2

\* release: the count goes down by one, and only the last user takes the entry away.
LEMMA ReleaseFacts ==
  ASSUME lock \in [Entry -> LockType], entries \in Entry \cup {None}, NEW e \in Entry,
         lock[e].users > 0, Release(e)
  PROVE  /\ entries' \in Entry \cup {None} /\ lock' \in [Entry -> LockType]
         /\ \A f \in Entry : f # e => lock'[f] = lock[f]
         /\ lock'[e].users = lock[e].users - 1
         /\ lock'[e].dead <=> lock[e].dead /\ lock[e].users # 1
         /\ entries' = entries \/ (entries = e /\ lock[e].users = 1)
<1>1. PICK u \in Nat, d \in BOOLEAN, h \in BOOLEAN : lock[e] = [users |-> u, dead |-> d, held |-> h]
  BY DEF LockType
<1>2. u > 0
  BY <1>1, SMT
<1>3. CASE u = 1 /\ d
  <2>1. lock' = [lock EXCEPT ![e] = NoLock] /\ entries' = IF entries = e THEN None ELSE entries
    BY <1>1, <1>3, SMT DEF Release
  <2>2. NoLock \in LockType /\ NoLock.users = 0 /\ ~NoLock.dead
    BY DEF LockType, NoLock
  <2> QED BY <1>1, <1>3, <2>1, <2>2, SMT
<1>4. CASE ~(u = 1 /\ d)
  <2>0. ~(lock[e].users = 1 /\ lock[e].dead)
    BY <1>1, <1>4, SMT
  <2>a. lock' = [lock EXCEPT ![e] = [lock[e] EXCEPT !.users = lock[e].users - 1, !.held = FALSE]]
        /\ entries' = entries
    BY <2>0 DEF Release
  <2>1. PICK w : w = [lock[e] EXCEPT !.users = lock[e].users - 1]
    OBVIOUS
  <2>2. w \in LockType /\ w.users = u - 1 /\ w.dead = d
    BY <1>1, <1>2, <2>1, SMT DEF LockType
  <2>3. PICK x : x = [w EXCEPT !.held = FALSE]
    OBVIOUS
  <2>4. x \in LockType /\ x.users = u - 1 /\ x.dead = d
    BY <2>2, <2>3 DEF LockType
  <2>5. lock' = [lock EXCEPT ![e] = x]
    BY <2>a, <2>1, <2>3
  <2>6. lock'[e] = x /\ lock' \in [Entry -> LockType]
        /\ \A f \in Entry : f # e => lock'[f] = lock[f]
    BY <2>4, <2>5
  <2> QED BY <1>1, <1>4, <2>a, <2>4, <2>6, SMT
<1> QED BY <1>3, <1>4

-----------------------------------------------------------------------------
\* Counting the users of an entry.

\* Adding a member, and taking one away.
LEMMA OneMore ==
  ASSUME NEW S, NEW x, IsFiniteSet(S), x \notin S
  PROVE  IsFiniteSet(S \cup {x}) /\ Cardinality(S \cup {x}) = Cardinality(S) + 1
         /\ Cardinality(S) \in Nat
BY FS_AddElement, FS_CardinalityType

LEMMA OneLess ==
  ASSUME NEW S, NEW x, IsFiniteSet(S), x \in S
  PROVE  /\ IsFiniteSet(S \ {x}) /\ Cardinality(S \ {x}) = Cardinality(S) - 1
         /\ Cardinality(S) \in Nat /\ Cardinality(S) > 0
<1>1. IsFiniteSet(S \ {x}) /\ Cardinality(S \ {x}) = Cardinality(S) - 1
  BY FS_RemoveElement
<1>2. Cardinality(S) \in Nat /\ Cardinality(S \ {x}) \in Nat
  BY <1>1, FS_CardinalityType
<1> QED BY <1>1, <1>2, SMT

\* Who has an entry in hand is counted.
LEMMA InUse ==
  ASSUME NEW e \in Entry, Counted(e)
  PROVE  /\ \A r \in Rule : edit[r].entry = e => lock[e].users > 0
         /\ \A s \in Stream : sync[s].entry = e => lock[e].users > 0
<1>0. Cardinality(Editors(e)) \in Nat /\ Cardinality(Syncers(e)) \in Nat
  BY FS_CardinalityType DEF Counted
<1>1. ASSUME NEW r \in Rule, edit[r].entry = e PROVE lock[e].users > 0
  <2>1. r \in Editors(e)
    BY <1>1 DEF Editors
  <2>2. Cardinality(Editors(e)) > 0
    BY <2>1, OneLess DEF Counted
  <2> QED BY <1>0, <2>2, SMT DEF Counted
<1>2. ASSUME NEW s \in Stream, sync[s].entry = e PROVE lock[e].users > 0
  <2>1. s \in Syncers(e)
    BY <1>2 DEF Syncers
  <2>2. Cardinality(Syncers(e)) > 0
    BY <2>1, OneLess DEF Counted
  <2> QED BY <1>0, <2>2, SMT DEF Counted
<1> QED BY <1>1, <1>2

\* While no entry was retired in use, there is one entry for everybody.
LEMMA OneEntry ==
  ASSUME \A e \in Entry : Counted(e), ~retiredInUse, NEW e \in Entry, lock[e].users > 0
  PROVE  e = entries
BY DEF Counted

\* Acquire keeps the count right when exactly one user is added.
LEMMA CountAcquire ==
  ASSUME lock \in [Entry -> LockType], entries \in Entry \cup {None}, NEW e \in Entry, Acquire(e),
         \A f \in Entry : Counted(f), retiredInUse' = retiredInUse,
         \A f \in Entry : f # e => Editors(f)' = Editors(f) /\ Syncers(f)' = Syncers(f),
         \/ Syncers(e)' = Syncers(e) /\ \E r : r \notin Editors(e) /\ Editors(e)' = Editors(e) \cup {r}
         \/ Editors(e)' = Editors(e) /\ \E s : s \notin Syncers(e) /\ Syncers(e)' = Syncers(e) \cup {s}
  PROVE  \A f \in Entry : Counted(f)'
<1> DEFINE E == Editors(e)
           S == Syncers(e)
<1>1. IsFiniteSet(E) /\ IsFiniteSet(S) /\ Cardinality(E) \in Nat /\ Cardinality(S) \in Nat
      /\ lock[e].users = Cardinality(E) + Cardinality(S)
  BY FS_CardinalityType DEF Counted
<1>2. /\ IsFiniteSet(E') /\ IsFiniteSet(S')
      /\ Cardinality(E') + Cardinality(S') = Cardinality(E) + Cardinality(S) + 1
  <2>1. CASE S' = S /\ \E r : r \notin E /\ E' = E \cup {r}
    <3>1. PICK r : r \notin E /\ E' = E \cup {r}
      BY <2>1
    <3> HIDE DEF E, S
    <3>2. IsFiniteSet(E') /\ Cardinality(E') = Cardinality(E) + 1
      BY <1>1, <3>1, OneMore
    <3> QED BY <1>1, <2>1, <3>2, SMT
  <2>2. CASE E' = E /\ \E s : s \notin S /\ S' = S \cup {s}
    <3>1. PICK s : s \notin S /\ S' = S \cup {s}
      BY <2>2
    <3> HIDE DEF E, S
    <3>2. IsFiniteSet(S') /\ Cardinality(S') = Cardinality(S) + 1
      BY <1>1, <3>1, OneMore
    <3> QED BY <1>1, <2>2, <3>2, SMT
  <2> QED BY <2>1, <2>2
<1>3. Counted(e)'
  BY <1>1, <1>2, AcquireFacts DEF Counted
<1>4. ASSUME NEW f \in Entry, f # e PROVE Counted(f)'
  <2>1. lock'[f] = lock[f] /\ entries' = e /\ (e # entries => entries = None \/ lock[entries].dead)
    BY <1>4, AcquireFacts
  <2> QED BY <1>4, <2>1, RuleConstants DEF Counted
<1> QED BY <1>3, <1>4

\* Release keeps the count right when exactly one user goes.
LEMMA CountRelease ==
  ASSUME lock \in [Entry -> LockType], entries \in Entry \cup {None}, NEW e \in Entry, Release(e),
         \A f \in Entry : Counted(f), retiredInUse' = retiredInUse,
         \A f \in Entry : f # e => Editors(f)' = Editors(f) /\ Syncers(f)' = Syncers(f),
         \/ Syncers(e)' = Syncers(e) /\ \E r : r \in Editors(e) /\ Editors(e)' = Editors(e) \ {r}
         \/ Editors(e)' = Editors(e) /\ \E s : s \in Syncers(e) /\ Syncers(e)' = Syncers(e) \ {s}
  PROVE  lock[e].users > 0 /\ \A f \in Entry : Counted(f)'
<1> DEFINE E == Editors(e)
           S == Syncers(e)
<1>1. IsFiniteSet(E) /\ IsFiniteSet(S) /\ Cardinality(E) \in Nat /\ Cardinality(S) \in Nat
      /\ lock[e].users = Cardinality(E) + Cardinality(S)
  BY FS_CardinalityType DEF Counted
<1>2. /\ IsFiniteSet(E') /\ IsFiniteSet(S') /\ Cardinality(E) + Cardinality(S) > 0
      /\ Cardinality(E') + Cardinality(S') = Cardinality(E) + Cardinality(S) - 1
  <2>1. CASE S' = S /\ \E r : r \in E /\ E' = E \ {r}
    <3>1. PICK r : r \in E /\ E' = E \ {r}
      BY <2>1
    <3> HIDE DEF E, S
    <3>2. IsFiniteSet(E') /\ Cardinality(E') = Cardinality(E) - 1 /\ Cardinality(E) > 0
      BY <1>1, <3>1, OneLess
    <3> QED BY <1>1, <2>1, <3>2, SMT
  <2>2. CASE E' = E /\ \E s : s \in S /\ S' = S \ {s}
    <3>1. PICK s : s \in S /\ S' = S \ {s}
      BY <2>2
    <3> HIDE DEF E, S
    <3>2. IsFiniteSet(S') /\ Cardinality(S') = Cardinality(S) - 1 /\ Cardinality(S) > 0
      BY <1>1, <3>1, OneLess
    <3> QED BY <1>1, <2>2, <3>2, SMT
  <2> QED BY <2>1, <2>2
<1>3. lock[e].users > 0
  BY <1>1, <1>2
<1>4. Counted(e)'
  <2>1. lock'[e].users = lock[e].users - 1 /\ (lock'[e].dead <=> lock[e].dead /\ lock[e].users # 1)
        /\ (entries' = entries \/ (entries = e /\ lock[e].users = 1))
    BY <1>3, ReleaseFacts
  <2> QED BY <1>1, <1>2, <1>3, <2>1, SMT DEF Counted
<1>5. ASSUME NEW f \in Entry, f # e PROVE Counted(f)'
  BY <1>3, <1>5, ReleaseFacts DEF Counted
<1> QED BY <1>3, <1>4, <1>5

-----------------------------------------------------------------------------
\* What the agent will run once it has read its channel.

\* A message put on the channel decides the rules it concerns and no other.
LEMMA EndsAppend ==
  ASSUME chan \in Seq(Message), NEW m \in Message, chan' = Append(chan, m), running' = running,
         NEW r, NEW v
  PROVE  /\ Concerns(m, r) /\ v = Gives(m, r) => Ends(r, v)'
         /\ ~Concerns(m, r) /\ Ends(r, v) => Ends(r, v)'
<1>1. /\ DOMAIN chan = 1..Len(chan) /\ DOMAIN chan' = 1..Len(chan) + 1 /\ Len(chan) \in Nat
      /\ \A i \in 1..Len(chan) : chan'[i] = chan[i]
      /\ chan'[Len(chan) + 1] = m
  BY SMT
<1>2. ASSUME Concerns(m, r), v = Gives(m, r) PROVE Ends(r, v)'
  <2>1. Len(chan) + 1 \in DOMAIN chan' /\ \A j \in DOMAIN chan' : ~(j > Len(chan) + 1)
    BY <1>1, SMT
  <2>2. Concerns(chan'[Len(chan) + 1], r) /\ Gives(chan'[Len(chan) + 1], r) = v
    BY <1>1, <1>2
  <2> QED BY <2>1, <2>2 DEF Ends, Concerns, Gives
<1>3. ASSUME ~Concerns(m, r), Ends(r, v) PROVE Ends(r, v)'
  <2>1. \A j \in DOMAIN chan' : j \in DOMAIN chan \/ ~Concerns(chan'[j], r)
    BY <1>1, <1>3, SMT
  <2>2. \A j \in DOMAIN chan : j \in DOMAIN chan' /\ chan'[j] = chan[j]
    BY <1>1, SMT
  <2> QED BY <1>3, <2>1, <2>2, SMT DEF Ends, Concerns, Gives
<1> QED BY <1>2, <1>3

\* Applying the head of the channel does not change what the channel ends in.
LEMMA EndsApply ==
  ASSUME chan \in Seq(Message), running \in [Rule -> Content \cup {None}], AgentApplies,
         NEW r \in Rule, NEW v, Ends(r, v)
  PROVE  Ends(r, v)'
<1> DEFINE m == Head(chan)
<1>1. /\ DOMAIN chan = 1..Len(chan) /\ Len(chan) \in Nat /\ Len(chan) > 0 /\ m = chan[1]
      /\ DOMAIN chan' = 1..Len(chan) - 1
      /\ \A i \in 1..Len(chan) - 1 : chan'[i] = chan[i + 1]
  BY SMT DEF AgentApplies
<1>2. running'[r] = IF Concerns(m, r) THEN Gives(m, r) ELSE running[r]
  BY DEF AgentApplies, Concerns, Gives, ApplySnapshot
<1> HIDE DEF m
<1>3. CASE \A i \in DOMAIN chan : ~Concerns(chan[i], r)
  <2>1. running'[r] = v
    BY <1>1, <1>2, <1>3, SMT DEF Ends
  <2>2. \A i \in DOMAIN chan' : ~Concerns(chan'[i], r)
    BY <1>1, <1>3, SMT
  <2> QED BY <2>1, <2>2 DEF Ends, Concerns
<1>4. CASE \E i \in DOMAIN chan : Concerns(chan[i], r)
  <2>1. PICK i \in DOMAIN chan : /\ Concerns(chan[i], r) /\ Gives(chan[i], r) = v
                                 /\ \A j \in DOMAIN chan : j > i => ~Concerns(chan[j], r)
    BY <1>4 DEF Ends
  <2>2. CASE i = 1
    <3>1. running'[r] = v
      BY <1>1, <1>2, <2>1, <2>2
    <3>2. \A j \in DOMAIN chan' : ~Concerns(chan'[j], r)
      BY <1>1, <2>1, <2>2, SMT
    <3> QED BY <3>1, <3>2 DEF Ends, Concerns
  <2>3. CASE i # 1
    <3>1. i - 1 \in DOMAIN chan' /\ chan'[i - 1] = chan[i]
      BY <1>1, <2>1, <2>3, SMT
    <3>2. \A j \in DOMAIN chan' : j > i - 1 => ~Concerns(chan'[j], r)
      BY <1>1, <2>1, SMT
    <3> QED BY <2>1, <3>1, <3>2 DEF Ends, Concerns, Gives
  <2> QED BY <2>2, <2>3
<1> QED BY <1>3, <1>4

-----------------------------------------------------------------------------
\* Replacing one record of a function of them.
LEMMA EditSet ==
  ASSUME edit \in [Rule -> EditType], NEW r \in Rule, NEW w \in EditType,
         edit' = [edit EXCEPT ![r] = w]
  PROVE  edit' \in [Rule -> EditType] /\ edit'[r] = w /\ \A q \in Rule : q # r => edit'[q] = edit[q]
OBVIOUS

LEMMA SyncSet ==
  ASSUME sync \in [Stream -> SyncType], NEW s \in Stream, NEW w \in SyncType,
         sync' = [sync EXCEPT ![s] = w]
  PROVE  sync' \in [Stream -> SyncType] /\ sync'[s] = w
         /\ \A t \in Stream : t # s => sync'[t] = sync[t]
OBVIOUS

\* The initial records.
LEMMA FreshRecords ==
  /\ NoEdit \in EditType /\ NoEdit.pc = "idle" /\ NoEdit.entry = None
  /\ NoSync \in SyncType /\ NoSync.pc = "free" /\ NoSync.entry = None
  /\ NoLock \in LockType /\ NoLock.users = 0 /\ NoLock.dead = FALSE
<1>1. [r \in Rule |-> None] \in Rules
  BY DEF Rules
<1> QED BY <1>1 DEF NoEdit, EditType, NoSync, SyncType, NoLock, LockType

\* A step that leaves who uses which entry alone.
LEMMA CountQuiet ==
  ASSUME \A f \in Entry : Counted(f), retiredInUse' = retiredInUse, entries' = entries,
         \A f \in Entry : lock'[f].users = lock[f].users /\ lock'[f].dead = lock[f].dead,
         \A r \in Rule : edit'[r].entry = edit[r].entry,
         \A s \in Stream : sync'[s].entry = sync[s].entry
  PROVE  \A f \in Entry : Counted(f)'
<1> TAKE f \in Entry
<1>1. Editors(f)' = Editors(f) /\ Syncers(f)' = Syncers(f)
  BY DEF Editors, Syncers
<1> QED BY <1>1 DEF Counted

-----------------------------------------------------------------------------
(* The edits.                                                              *)

\* An edit moves on without touching its entry; it becomes idle only when no stream is
\* current or the change is on record as lost.
LEMMA EditQuiet ==
  ASSUME RSInv, NEW r \in Rule, NEW w \in EditType, edit' = [edit EXCEPT ![r] = w],
         w.entry = edit[r].entry, w.entry # None <=> w.pc = "send",
         UNCHANGED <<running, current, sync, chan, lock, entries, retiredInUse>>,
         table' \in Rules, \A q \in Rule : q # r => table'[q] = table[q],
         lost' \in BOOLEAN, lost => lost',
         w.pc = "idle" => current = None \/ lost'
  PROVE  RSInv'
<1>1. edit' \in [Rule -> EditType] /\ edit'[r] = w /\ \A q \in Rule : q # r => edit'[q] = edit[q]
  BY EditSet DEF RSInv, RuleTypes
<1>2. RuleTypes'
  BY <1>1 DEF RSInv, RuleTypes
<1>3. \A f \in Entry : Counted(f)'
  <2>1. \A q \in Rule : edit'[q].entry = edit[q].entry
    BY <1>1
  <2> QED BY <2>1, CountQuiet DEF RSInv
<1>4. HasEntry' /\ Listing' /\ CurrentOK'
  BY <1>1, SMT DEF RSInv, HasEntry, Listing, CurrentOK
<1>5. SnapOK'
  BY <1>1 DEF RSInv, SnapOK
<1>6. EndsOK'
  <2> SUFFICES ASSUME Synced, ~lost, ~lost', ~retiredInUse, NEW q \in Rule, edit'[q].pc = "idle"
               PROVE  Ends(q, Runs(table[q]))'
    BY DEF EndsOK, Synced
  <2>1. q # r
    BY <1>1 DEF Synced
  <2>2. PICK v : v = Runs(table[q])
    OBVIOUS
  <2>3. table'[q] = table[q] /\ Ends(q, v)
    BY <1>1, <2>1, <2>2 DEF RSInv, EndsOK
  <2>4. Ends(q, v)' /\ v = Runs(table'[q])
    BY <2>2, <2>3 DEF Ends
  <2> QED BY <2>4 DEF Ends, Runs
<1> QED BY <1>2, <1>3, <1>4, <1>5, <1>6 DEF RSInv

\* The steps of an edit that touch no lock.
LEMMA EditQuietSteps ==
  ASSUME RSInv, NEW r \in Rule, EditWrites(r) \/ EditChecks(r) \/ EditNotSent(r)
  PROVE  RSInv'
<1>0. edit \in [Rule -> EditType] /\ table \in Rules /\ lost \in BOOLEAN
      /\ (edit[r].entry # None <=> edit[r].pc = "send")
  BY DEF RSInv, RuleTypes, HasEntry
<1>1. CASE EditWrites(r)
  <2>1. PICK v \in Content \cup {Off, None} : table' = [table EXCEPT ![r] = v]
    BY <1>1 DEF EditWrites
  <2>2. table' \in Rules /\ \A q \in Rule : q # r => table'[q] = table[q]
    BY <1>0, <2>1 DEF Rules
  <2>3. PICK w : w = [edit[r] EXCEPT !.pc = "check"]
    OBVIOUS
  <2>4. w \in EditType /\ w.pc = "check" /\ w.entry = edit[r].entry
    BY <1>0, <2>3 DEF EditType
  <2>5. edit' = [edit EXCEPT ![r] = w] /\ edit[r].pc = "idle"
    BY <1>1, <2>3 DEF EditWrites
  <2>6. /\ UNCHANGED <<running, current, sync, chan, lock, entries, retiredInUse>>
        /\ lost' = lost
    BY <1>1, SMT DEF EditWrites, lockVars, ghosts
  <2>7. w.pc # "send" /\ w.pc # "idle" /\ w.entry = None
    BY <1>0, <2>4, <2>5, SMT
  <2> QED BY <1>0, <2>2, <2>4, <2>5, <2>6, <2>7, EditQuiet
<1>2. CASE EditChecks(r)
  <2>1. PICK p : p = IF current = None THEN "idle" ELSE "acquire"
    OBVIOUS
  <2>2. PICK w : w = [edit[r] EXCEPT !.pc = p]
    OBVIOUS
  <2>3. w \in EditType /\ w.pc = p /\ w.entry = edit[r].entry /\ p # "send"
        /\ (p = "idle" => current = None)
    BY <1>0, <2>1, <2>2 DEF EditType
  <2>4. edit' = [edit EXCEPT ![r] = w] /\ edit[r].pc = "check"
    BY <1>2, <2>1, <2>2 DEF EditChecks
  <2>5. /\ UNCHANGED <<running, current, sync, chan, lock, entries, retiredInUse>>
        /\ lost' = lost /\ table' = table
    BY <1>2, SMT DEF EditChecks, lockVars, ghosts
  <2>6. w.pc # "send" /\ w.entry = None
    BY <1>0, <2>3, <2>4, SMT
  <2> QED BY <1>0, <2>3, <2>4, <2>5, <2>6, EditQuiet
<1>3. CASE EditNotSent(r)
  <2>1. edit' = [edit EXCEPT ![r] = NoEdit] /\ edit[r].entry = None
    BY <1>0, <1>3 DEF EditNotSent
  <2>2. lost' \in BOOLEAN /\ (lost => lost') /\ (current = None \/ lost')
    BY <1>0, <1>3 DEF EditNotSent
  <2> QED BY <1>0, <1>3, <2>1, <2>2, FreshRecords, EditQuiet DEF EditNotSent, lockVars
<1> QED BY <1>1, <1>2, <1>3

\* A new user of an entry disturbs nobody who holds it.
LEMMA HeldAcquire ==
  ASSUME RSInv, NEW e \in Entry, Acquire(e), NEW s \in Stream, sync[s].pc = "listed"
  PROVE  lock'[sync[s].entry].held
<1>1. sync[s].entry \in Entry /\ lock[sync[s].entry].held /\ lock[sync[s].entry].users > 0
  BY InUse DEF RSInv, RuleTypes, HasEntry, Listing, SyncType
<1>2. lock \in [Entry -> LockType] /\ entries \in Entry \cup {None}
  BY DEF RSInv, RuleTypes
<1>3. CASE sync[s].entry = e
  BY <1>1, <1>2, <1>3, AcquireFacts, SMT
<1>4. CASE sync[s].entry # e
  BY <1>1, <1>2, <1>4, AcquireFacts
<1> QED BY <1>3, <1>4

\* An edit acquires its entry.
LEMMA EditAcquiresStep ==
  ASSUME RSInv, NEW r \in Rule, EditAcquires(r)
  PROVE  RSInv'
<1>1. PICK e \in Entry : Acquire(e) /\ edit' = [edit EXCEPT ![r] = [pc |-> "send", entry |-> e]]
  BY DEF EditAcquires
<1>2. PICK w : w = [pc |-> "send", entry |-> e]
  OBVIOUS
<1>3. w \in EditType /\ w.pc = "send" /\ w.entry = e /\ edit' = [edit EXCEPT ![r] = w]
  BY <1>1, <1>2 DEF EditType
<1>4. edit' \in [Rule -> EditType] /\ edit'[r] = w /\ \A q \in Rule : q # r => edit'[q] = edit[q]
  BY <1>3, EditSet DEF RSInv, RuleTypes
<1>5. edit[r].entry = None /\ e # None /\ edit[r].pc = "acquire"
  BY RuleConstants DEF RSInv, HasEntry, EditAcquires
<1>6. lock \in [Entry -> LockType] /\ entries \in Entry \cup {None}
  BY DEF RSInv, RuleTypes
<1>7. RuleTypes'
  BY <1>1, <1>4, <1>6, AcquireFacts DEF RSInv, RuleTypes, EditAcquires, ghosts
<1>8. \A f \in Entry : Counted(f)'
  <2>1. Syncers(e)' = Syncers(e) /\ r \notin Editors(e) /\ Editors(e)' = Editors(e) \cup {r}
    BY <1>3, <1>4, <1>5 DEF Editors, Syncers, EditAcquires
  <2>2. \A f \in Entry : f # e => Editors(f)' = Editors(f) /\ Syncers(f)' = Syncers(f)
    BY <1>3, <1>4, <1>5, RuleConstants DEF Editors, Syncers, EditAcquires
  <2>3. retiredInUse' = retiredInUse
    BY DEF EditAcquires, ghosts
  <2> QED BY <1>1, <1>6, <2>1, <2>2, <2>3, CountAcquire DEF RSInv
<1>9. HasEntry' /\ CurrentOK'
  BY <1>3, <1>4, <1>5 DEF RSInv, HasEntry, CurrentOK, EditAcquires, ghosts
<1>10. Listing'
  BY <1>1, HeldAcquire DEF RSInv, Listing, EditAcquires
<1>11. SnapOK' /\ EndsOK'
  BY <1>3, <1>4 DEF RSInv, SnapOK, EndsOK, Synced, Ends, EditAcquires, ghosts
<1> QED BY <1>7, <1>8, <1>9, <1>10, <1>11 DEF RSInv

\* An edit sends: the stream gets the rule as the database has it now, or the change is lost.
LEMMA EditSendsStep ==
  ASSUME RSInv, NEW r \in Rule, EditSends(r)
  PROVE  RSInv'
<1> DEFINE m == [kind |-> "rule", rule |-> r, to |-> table[r]]
<1>1. PICK e : e = edit[r].entry
  OBVIOUS
<1>2. e \in Entry /\ ~lock[e].held /\ Release(e) /\ lock[e].users > 0
  <2>1. e \in Entry
    BY <1>1 DEF RSInv, RuleTypes, HasEntry, EditType, EditSends
  <2> QED BY <1>1, <2>1, InUse DEF RSInv, EditSends
<1>3. edit' \in [Rule -> EditType] /\ edit'[r] = NoEdit /\ \A q \in Rule : q # r => edit'[q] = edit[q]
  BY FreshRecords, EditSet DEF RSInv, RuleTypes, EditSends
<1>4. lock \in [Entry -> LockType] /\ entries \in Entry \cup {None}
  BY DEF RSInv, RuleTypes
<1>5. /\ m \in Message /\ Concerns(m, r) /\ \A q \in Rule : q # r => ~Concerns(m, q)
      /\ Gives(m, r) = Runs(table[r])
  BY DEF RSInv, RuleTypes, Rules, Message, Concerns, Gives
<1> HIDE DEF m
<1>6. chan \in Seq(Message) /\ chan' = (IF CanSend THEN Append(chan, m) ELSE chan)
  BY DEF RSInv, RuleTypes, EditSends, SendIfRoom, m
<1>7. RuleTypes'
  <2>1. chan' \in Seq(Message)
    BY <1>5, <1>6, SMT
  <2> QED BY <1>2, <1>3, <1>4, <2>1, ReleaseFacts DEF RSInv, RuleTypes, EditSends
<1>8. \A f \in Entry : Counted(f)'
  <2>1. Syncers(e)' = Syncers(e) /\ r \in Editors(e) /\ Editors(e)' = Editors(e) \ {r}
    BY <1>1, <1>2, <1>3, FreshRecords, RuleConstants DEF Editors, Syncers, EditSends
  <2>2. \A f \in Entry : f # e => Editors(f)' = Editors(f) /\ Syncers(f)' = Syncers(f)
    BY <1>1, <1>3, FreshRecords, RuleConstants DEF Editors, Syncers, EditSends
  <2>3. retiredInUse' = retiredInUse
    BY DEF EditSends
  <2> QED BY <1>2, <1>4, <2>1, <2>2, <2>3, CountRelease DEF RSInv
<1>9. HasEntry'
  BY <1>3, FreshRecords DEF RSInv, HasEntry, EditSends
<1>10. CurrentOK'
  <2>1. Len(chan') <= Cap /\ (current = None => chan' = << >>)
    BY <1>5, <1>6, RuleConstants, SMT DEF RSInv, CurrentOK, CanSend
  <2> QED BY <2>1 DEF RSInv, CurrentOK, EditSends
<1>11. Listing'
  <2>1. ASSUME NEW s \in Stream, sync[s].pc = "listed" PROVE lock'[sync[s].entry].held
    <3>1. sync[s].entry \in Entry /\ lock[sync[s].entry].held
      BY <2>1 DEF RSInv, RuleTypes, HasEntry, Listing, SyncType
    <3> QED BY <1>2, <1>4, <3>1, ReleaseFacts
  <2> QED BY <2>1 DEF RSInv, Listing, EditSends
<1>12. SnapOK'
  <2> SUFFICES ASSUME current # None, ~retiredInUse, sync[current].pc = "listed" PROVE FALSE
    BY DEF SnapOK, EditSends
  <2>1. PICK f : f = sync[current].entry
    OBVIOUS
  <2>2. current \in Stream /\ f \in Entry /\ lock[f].held
    BY <2>1 DEF RSInv, RuleTypes, HasEntry, Listing, SyncType
  <2>3. lock[f].users > 0
    BY <2>1, <2>2, InUse DEF RSInv
  <2>4. f = entries /\ e = entries
    BY <1>2, <2>2, <2>3, OneEntry DEF RSInv
  <2> QED BY <1>2, <2>2, <2>4
<1>13. EndsOK'
  <2> SUFFICES ASSUME Synced, ~lost', ~retiredInUse, NEW q \in Rule, edit'[q].pc = "idle"
               PROVE  Ends(q, Runs(table[q]))'
    BY DEF EndsOK, Synced, EditSends
  <2>1. CanSend /\ ~lost /\ chan' = Append(chan, m) /\ table' = table /\ running' = running
    BY <1>6 DEF Synced, EditSends
  <2>2. PICK v : v = Runs(table[q])
    OBVIOUS
  <2>3. CASE q = r
    <3>1. Ends(q, v)'
      BY <1>5, <1>6, <2>1, <2>2, <2>3, EndsAppend
    <3> QED BY <2>1, <2>2, <3>1 DEF Ends, Runs
  <2>4. CASE q # r
    <3>1. Ends(q, v)
      BY <1>3, <2>1, <2>2, <2>4 DEF RSInv, EndsOK
    <3>2. Ends(q, v)'
      BY <1>5, <1>6, <2>1, <2>4, <3>1, EndsAppend
    <3> QED BY <2>1, <2>2, <3>2 DEF Ends, Runs
  <2> QED BY <2>3, <2>4
<1> QED BY <1>7, <1>8, <1>9, <1>10, <1>11, <1>12, <1>13 DEF RSInv

-----------------------------------------------------------------------------
(* The streams.                                                            *)

\* A stream is registered and takes the place of the current one, with an empty channel.
LEMMA ConnectStep ==
  ASSUME RSInv, NEW s \in Stream, Connect(s)
  PROVE  RSInv'
<1>1. PICK w : w = [sync[s] EXCEPT !.pc = "registered"]
  OBVIOUS
<1>2. w \in SyncType /\ w.pc = "registered" /\ w.entry = sync[s].entry
  BY <1>1 DEF RSInv, RuleTypes, SyncType
<1>3. sync' = [sync EXCEPT ![s] = w]
  BY <1>1 DEF Connect
<1>4. sync' \in [Stream -> SyncType] /\ sync'[s] = w /\ \A t \in Stream : t # s => sync'[t] = sync[t]
  BY <1>2, <1>3, SyncSet DEF RSInv, RuleTypes
<1>5. RuleTypes'
  <2>1. chan' \in Seq(Message)
    BY SMT DEF Connect
  <2>2. lost' \in BOOLEAN /\ retiredInUse' \in BOOLEAN
    BY DEF Connect
  <2> QED BY <1>4, <2>1, <2>2 DEF RSInv, RuleTypes, Connect, lockVars
<1>6. \A f \in Entry : Counted(f)'
  <2> TAKE f \in Entry
  <2>1. Editors(f)' = Editors(f) /\ Syncers(f)' = Syncers(f)
    BY <1>2, <1>4 DEF Editors, Syncers, Connect
  <2>2. lock[f].dead => retiredInUse'
    BY DEF RSInv, Counted, Connect
  <2> QED BY <2>1, <2>2 DEF RSInv, Counted, Connect, lockVars
<1>7. HasEntry' /\ Listing'
  BY <1>2, <1>4, SMT DEF RSInv, HasEntry, Listing, Connect, lockVars
<1>8. CurrentOK'
  <2>1. Len(chan') <= Cap
    BY RuleConstants, SMT DEF Connect
  <2> QED BY <1>2, <1>4, <2>1, RuleConstants DEF CurrentOK, Connect
<1>9. SnapOK' /\ EndsOK'
  BY <1>2, <1>4 DEF SnapOK, EndsOK, Synced, Connect
<1> QED BY <1>5, <1>6, <1>7, <1>8, <1>9 DEF RSInv

\* A stream acquires the entry of its agent.
LEMMA SyncAcquiresStep ==
  ASSUME RSInv, NEW s \in Stream, SyncAcquires(s)
  PROVE  RSInv'
<1>1. PICK e \in Entry : Acquire(e) /\ sync' = [sync EXCEPT ![s].pc = "acquired", ![s].entry = e]
  BY DEF SyncAcquires
<1>2. PICK u : u = [sync[s] EXCEPT !.pc = "acquired"]
  OBVIOUS
<1>3. u \in SyncType /\ u.pc = "acquired" /\ sync[s].entry = None
  BY <1>2 DEF RSInv, RuleTypes, SyncType, HasEntry, SyncAcquires
<1>4. PICK w : w = [u EXCEPT !.entry = e]
  OBVIOUS
<1>5. w \in SyncType /\ w.pc = "acquired" /\ w.entry = e /\ e # None
  BY <1>3, <1>4, RuleConstants DEF SyncType
<1>6. sync' = [sync EXCEPT ![s] = w]
  BY <1>1, <1>2, <1>4 DEF RSInv, RuleTypes
<1>7. sync' \in [Stream -> SyncType] /\ sync'[s] = w /\ \A t \in Stream : t # s => sync'[t] = sync[t]
  BY <1>5, <1>6, SyncSet DEF RSInv, RuleTypes
<1>8. lock \in [Entry -> LockType] /\ entries \in Entry \cup {None}
  BY DEF RSInv, RuleTypes
<1>9. RuleTypes'
  BY <1>1, <1>7, <1>8, AcquireFacts DEF RSInv, RuleTypes, SyncAcquires, ghosts
<1>10. \A f \in Entry : Counted(f)'
  <2>1. Editors(e)' = Editors(e) /\ s \notin Syncers(e) /\ Syncers(e)' = Syncers(e) \cup {s}
    BY <1>3, <1>5, <1>7 DEF Editors, Syncers, SyncAcquires
  <2>a. \A f \in Entry : f # e => \A t \in Stream : sync'[t].entry = f <=> sync[t].entry = f
    BY <1>3, <1>5, <1>7, RuleConstants
  <2>2. \A f \in Entry : f # e => Editors(f)' = Editors(f) /\ Syncers(f)' = Syncers(f)
    BY <2>a DEF Editors, Syncers, SyncAcquires
  <2>3. retiredInUse' = retiredInUse
    BY DEF SyncAcquires, ghosts
  <2> QED BY <1>1, <1>8, <2>1, <2>2, <2>3, CountAcquire DEF RSInv
<1>11. HasEntry' /\ CurrentOK'
  <2>1. HasEntry'
    BY <1>5, <1>7 DEF RSInv, HasEntry, SyncAcquires
  <2>2. CurrentOK'
    BY <1>5, <1>7 DEF RSInv, RuleTypes, CurrentOK, SyncAcquires, ghosts
  <2> QED BY <2>1, <2>2
<1>12. Listing'
  BY <1>1, <1>5, <1>7, HeldAcquire, SMT DEF RSInv, Listing, SyncAcquires
<1>13. SnapOK' /\ EndsOK'
  BY <1>5, <1>7 DEF RSInv, RuleTypes, SnapOK, EndsOK, Synced, Ends, SyncAcquires, ghosts
<1> QED BY <1>9, <1>10, <1>11, <1>12, <1>13 DEF RSInv

\* A stream lists the rules: it is alone with its entry, so the list is the database.
LEMMA SyncListsStep ==
  ASSUME RSInv, NEW s \in Stream, SyncLists(s)
  PROVE  RSInv'
<1>1. PICK e : e = sync[s].entry
  OBVIOUS
<1>2. e \in Entry /\ ~lock[e].held /\ current = s /\ e # None
  BY <1>1, RuleConstants DEF RSInv, RuleTypes, HasEntry, SyncType, SyncLists
<1>3. PICK u : u = [sync[s] EXCEPT !.pc = "listed"]
  OBVIOUS
<1>4. u \in SyncType /\ u.pc = "listed" /\ u.entry = e
  BY <1>1, <1>3 DEF RSInv, RuleTypes, SyncType
<1>5. PICK w : w = [u EXCEPT !.snap = table]
  OBVIOUS
<1>6. w \in SyncType /\ w.pc = "listed" /\ w.entry = e /\ w.snap = table
  BY <1>4, <1>5 DEF RSInv, RuleTypes, SyncType
<1>7. sync' = [sync EXCEPT ![s] = w]
  BY <1>3, <1>5 DEF RSInv, RuleTypes, SyncLists
<1>8. sync' \in [Stream -> SyncType] /\ sync'[s] = w /\ \A t \in Stream : t # s => sync'[t] = sync[t]
  BY <1>6, <1>7, SyncSet DEF RSInv, RuleTypes
<1>9. PICK x : x = [lock[e] EXCEPT !.held = TRUE]
  OBVIOUS
<1>10. x \in LockType /\ x.users = lock[e].users /\ x.dead = lock[e].dead /\ x.held
  BY <1>2, <1>9 DEF RSInv, RuleTypes, LockType
<1>11. lock' = [lock EXCEPT ![e] = x]
  BY <1>1, <1>9 DEF SyncLists
<1>12. /\ lock' \in [Entry -> LockType] /\ lock'[e] = x
       /\ \A f \in Entry : f # e => lock'[f] = lock[f]
  BY <1>2, <1>10, <1>11 DEF RSInv, RuleTypes
<1>13. RuleTypes'
  BY <1>8, <1>12 DEF RSInv, RuleTypes, SyncLists, ghosts
<1>14. \A f \in Entry : Counted(f)'
  <2>1. \A f \in Entry : lock'[f].users = lock[f].users /\ lock'[f].dead = lock[f].dead
    BY <1>10, <1>12
  <2>2. \A t \in Stream : sync'[t].entry = sync[t].entry
    BY <1>1, <1>6, <1>8
  <2> QED BY <2>1, <2>2, CountQuiet DEF RSInv, SyncLists, ghosts
<1>15. HasEntry'
  BY <1>2, <1>6, <1>8 DEF RSInv, HasEntry, SyncLists
<1>16. ASSUME NEW t \in Stream, t # s, sync[t].pc = "listed"
       PROVE  sync[t].entry \in Entry /\ lock[sync[t].entry].held /\ sync[t].entry # e
              /\ retiredInUse
  <2>1. PICK f : f = sync[t].entry
    OBVIOUS
  <2>2. f \in Entry /\ lock[f].held
    BY <1>16, <2>1 DEF RSInv, RuleTypes, HasEntry, Listing, SyncType
  <2>3. lock[f].users > 0 /\ lock[e].users > 0
    BY <1>1, <1>2, <2>1, <2>2, InUse DEF RSInv
  <2>4. f # e
    BY <1>2, <2>2
  <2>5. retiredInUse
    <3>1. ~retiredInUse => f = entries /\ e = entries
      BY <1>2, <2>2, <2>3, OneEntry DEF RSInv
    <3> QED BY <2>4, <3>1
  <2> QED BY <2>1, <2>2, <2>4, <2>5
<1>17. Listing'
  BY <1>6, <1>8, <1>10, <1>12, <1>16, SMT DEF RSInv, Listing
<1>18. CurrentOK'
  BY <1>2, <1>6, <1>8, <1>16 DEF RSInv, CurrentOK, SyncLists, ghosts
<1>19. SnapOK' /\ EndsOK'
  BY <1>2, <1>6, <1>8 DEF SnapOK, EndsOK, Synced, SyncLists
<1> QED BY <1>13, <1>14, <1>15, <1>17, <1>18, <1>19 DEF RSInv

\* A handler gives its entry back.
LEMMA SyncLeaves ==
  ASSUME RSInv, NEW s \in Stream, NEW w \in SyncType, w.entry = None, w.pc \in {"live", "returned"},
         sync' = [sync EXCEPT ![s] = w], Release(sync[s].entry),
         \/ sync[s].pc = "listed"
         \/ sync[s].pc = "acquired" /\ ~lock[sync[s].entry].held,
         UNCHANGED <<table, running, current, edit, lost, retiredInUse>>, chan' \in Seq(Message)
  PROVE  /\ RuleTypes' /\ (\A f \in Entry : Counted(f)') /\ HasEntry' /\ Listing'
         /\ sync'[s] = w /\ \A t \in Stream : t # s => sync'[t] = sync[t]
<1>1. PICK e : e = sync[s].entry
  OBVIOUS
<1>2. e \in Entry /\ e # None
  BY <1>1, RuleConstants DEF RSInv, RuleTypes, HasEntry, SyncType
<1>3. Release(e) /\ lock[e].users > 0
  BY <1>1, <1>2, InUse DEF RSInv
<1>4. lock \in [Entry -> LockType] /\ entries \in Entry \cup {None}
  BY DEF RSInv, RuleTypes
<1>5. sync' \in [Stream -> SyncType] /\ sync'[s] = w /\ \A t \in Stream : t # s => sync'[t] = sync[t]
  BY SyncSet DEF RSInv, RuleTypes
<1>6. RuleTypes'
  BY <1>2, <1>3, <1>4, <1>5, ReleaseFacts DEF RSInv, RuleTypes
<1>7. \A f \in Entry : Counted(f)'
  <2>1. Editors(e)' = Editors(e) /\ s \in Syncers(e) /\ Syncers(e)' = Syncers(e) \ {s}
    BY <1>1, <1>2, <1>5 DEF Editors, Syncers
  <2>2. \A f \in Entry : f # e => Editors(f)' = Editors(f) /\ Syncers(f)' = Syncers(f)
    BY <1>1, <1>5, RuleConstants DEF Editors, Syncers
  <2> QED BY <1>2, <1>3, <1>4, <2>1, <2>2, CountRelease DEF RSInv
<1>8. HasEntry'
  BY <1>5 DEF RSInv, HasEntry
<1>9. Listing'
  <2>1. ASSUME NEW t \in Stream, t # s, sync[t].pc = "listed" PROVE lock'[sync[t].entry].held
    <3>1. sync[t].entry \in Entry /\ lock[sync[t].entry].held
      BY <2>1 DEF RSInv, RuleTypes, HasEntry, Listing, SyncType
    <3>2. sync[t].entry # e
      BY <1>1, <2>1, <3>1 DEF RSInv, Listing
    <3> QED BY <1>2, <1>3, <1>4, <3>1, <3>2, ReleaseFacts
  <2> QED BY <1>5, <2>1 DEF RSInv, Listing
<1> QED BY <1>5, <1>6, <1>7, <1>8, <1>9

\* The snapshot goes out under the lock; no edit was sent since the list.
LEMMA SyncSendsStep ==
  ASSUME RSInv, NEW s \in Stream, SyncSends(s)
  PROVE  RSInv'
<1> DEFINE m == [kind |-> "snapshot", rules |-> sync[s].snap]
<1>0. (Size(sync[s].snap) > Budget) \in BOOLEAN
  BY SMT
<1>1. PICK d \in BOOLEAN : d = (Size(sync[s].snap) > Budget)
  BY <1>0
<1>2. PICK p : p = IF d \/ CanSend THEN "live" ELSE "returned"
  OBVIOUS
<1>3. PICK w : w = [NoSync EXCEPT !.degraded = d, !.pc = p]
  OBVIOUS
<1>4. w \in SyncType /\ w.pc = p /\ w.entry = None /\ w.degraded = d
      /\ p \in {"live", "returned"} /\ (p = "live" => d \/ CanSend)
  <2>1. PICK u : u = [NoSync EXCEPT !.degraded = d]
    OBVIOUS
  <2>2. u \in SyncType /\ u.entry = None /\ u.degraded = d
    BY <2>1, FreshRecords DEF SyncType
  <2>3. w = [u EXCEPT !.pc = p] /\ p \in {"live", "returned"} /\ (p = "live" => d \/ CanSend)
    BY <1>2, <1>3, <2>1
  <2> QED BY <2>2, <2>3 DEF SyncType
<1>5. sync' = [sync EXCEPT ![s] = w] /\ sync[s].pc = "listed" /\ Release(sync[s].entry)
  BY <1>1, <1>2, <1>3 DEF SyncSends
<1>6. /\ m \in Message /\ \A q : Concerns(m, q) /\ Gives(m, q) = Runs(sync[s].snap[q])
  BY DEF RSInv, RuleTypes, SyncType, Message, Concerns, Gives
<1> HIDE DEF m
<1>7. chan \in Seq(Message) /\ chan' = (IF ~d /\ CanSend THEN Append(chan, m) ELSE chan)
  BY <1>1 DEF RSInv, RuleTypes, SyncSends, SendIfRoom, m
<1>8. chan' \in Seq(Message) /\ Len(chan') <= Cap /\ (current = None => chan' = << >>)
  BY <1>6, <1>7, RuleConstants, SMT DEF RSInv, CurrentOK, CanSend
<1>9. UNCHANGED <<table, running, current, edit, lost, retiredInUse>>
  BY DEF SyncSends, ghosts
<1>10. /\ RuleTypes' /\ (\A f \in Entry : Counted(f)') /\ HasEntry' /\ Listing'
       /\ sync'[s] = w /\ \A t \in Stream : t # s => sync'[t] = sync[t]
  BY <1>4, <1>5, <1>8, <1>9, SyncLeaves
<1>11. current # None => current \in Stream
  BY DEF RSInv, RuleTypes
<1>12. CurrentOK'
  BY <1>4, <1>5, <1>8, <1>9, <1>10, <1>11 DEF RSInv, CurrentOK
<1>13. SnapOK'
  BY <1>4, <1>5, <1>9, <1>10, <1>11 DEF RSInv, CurrentOK, SnapOK
<1>14. EndsOK'
  <2> SUFFICES ASSUME Synced', ~lost, ~retiredInUse, NEW q \in Rule, edit[q].pc = "idle"
               PROVE  Ends(q, Runs(table[q]))'
    BY <1>9 DEF EndsOK
  <2>1. current = s /\ current # None
    BY <1>5, <1>9, <1>10, <1>11 DEF RSInv, CurrentOK, Synced
  <2>2. ~d /\ CanSend
    BY <1>4, <1>9, <1>10, <2>1 DEF Synced
  <2>3. sync[s].snap[q] = table[q]
    BY <1>5, <2>1 DEF RSInv, SnapOK
  <2>4. PICK v : v = Runs(table[q])
    OBVIOUS
  <2>5. Ends(q, v)'
    BY <1>6, <1>7, <1>9, <2>2, <2>3, <2>4, EndsAppend
  <2> QED BY <1>9, <2>4, <2>5 DEF Ends, Runs
<1> QED BY <1>10, <1>12, <1>13, <1>14 DEF RSInv

\* A stream that returns is no longer live.
LEMMA Returned ==
  ASSUME NEW p \in {"returned", "release"}
  PROVE  /\ [NoSync EXCEPT !.pc = p] \in SyncType /\ [NoSync EXCEPT !.pc = p].pc = p
         /\ [NoSync EXCEPT !.pc = p].entry = None
BY FreshRecords DEF SyncType

\* A synchronisation fails before its snapshot is sent.
LEMMA SyncFailsStep ==
  ASSUME RSInv, NEW s \in Stream, SyncFails(s)
  PROVE  RSInv'
<1>1. PICK w : w = [NoSync EXCEPT !.pc = "returned"]
  OBVIOUS
<1>2. w \in SyncType /\ w.pc = "returned" /\ w.entry = None
  BY <1>1, Returned
<1>3. sync' = [sync EXCEPT ![s] = w] /\ Release(sync[s].entry)
  BY <1>1 DEF SyncFails
<1>4. UNCHANGED <<table, running, current, edit, lost, retiredInUse, chan>> /\ chan' \in Seq(Message)
  BY DEF SyncFails, ghosts, RSInv, RuleTypes
<1>5. sync[s].pc = "listed" \/ (sync[s].pc = "acquired" /\ ~lock[sync[s].entry].held)
  BY DEF SyncFails
<1>6. /\ RuleTypes' /\ (\A f \in Entry : Counted(f)') /\ HasEntry' /\ Listing'
      /\ sync'[s] = w /\ \A t \in Stream : t # s => sync'[t] = sync[t]
  BY <1>2, <1>3, <1>4, <1>5, SyncLeaves
<1>7. current # None => current \in Stream
  BY DEF RSInv, RuleTypes
<1>8. CurrentOK' /\ SnapOK' /\ EndsOK'
  <2>1. CurrentOK'
    BY <1>2, <1>4, <1>6, <1>7 DEF RSInv, CurrentOK
  <2>2. SnapOK'
    BY <1>2, <1>4, <1>6, <1>7 DEF RSInv, SnapOK
  <2>3. EndsOK'
    BY <1>2, <1>4, <1>6, <1>7 DEF RSInv, EndsOK, Synced, Ends
  <2> QED BY <2>1, <2>2, <2>3
<1> QED BY <1>6, <1>8 DEF RSInv

\* A handler that has no entry goes on.
LEMMA SyncQuiet ==
  ASSUME RSInv, NEW s \in Stream, NEW w \in SyncType, w.entry = None, sync[s].entry = None,
         w.pc \in {"free", "returned", "release"}, sync' = [sync EXCEPT ![s] = w],
         UNCHANGED <<table, running, edit, lost>>
  PROVE  /\ sync' \in [Stream -> SyncType] /\ HasEntry'
         /\ sync'[s] = w /\ (\A t \in Stream : t # s => sync'[t] = sync[t])
         /\ \A t \in Stream : sync'[t].entry = sync[t].entry
<1>1. sync' \in [Stream -> SyncType] /\ sync'[s] = w /\ \A t \in Stream : t # s => sync'[t] = sync[t]
  BY SyncSet DEF RSInv, RuleTypes
<1> QED BY <1>1 DEF RSInv, HasEntry

\* A stream ends.
LEMMA StreamEndsStep ==
  ASSUME RSInv, NEW s \in Stream, StreamEnds(s)
  PROVE  RSInv'
<1>1. PICK w : w = [NoSync EXCEPT !.pc = "returned"]
  OBVIOUS
<1>2. w \in SyncType /\ w.pc = "returned" /\ w.entry = None
  BY <1>1, Returned
<1>3. sync' = [sync EXCEPT ![s] = w] /\ sync[s].entry = None
  BY <1>1 DEF StreamEnds, RSInv, HasEntry
<1>4. UNCHANGED <<table, running, current, edit, chan, lock, entries, lost, retiredInUse>>
  BY DEF StreamEnds, ghosts, lockVars
<1>5. /\ sync' \in [Stream -> SyncType] /\ HasEntry'
      /\ sync'[s] = w /\ (\A t \in Stream : t # s => sync'[t] = sync[t])
      /\ \A t \in Stream : sync'[t].entry = sync[t].entry
  BY <1>2, <1>3, <1>4, SyncQuiet
<1>6. RuleTypes'
  BY <1>4, <1>5 DEF RSInv, RuleTypes
<1>7. \A f \in Entry : Counted(f)'
  BY <1>4, <1>5, CountQuiet DEF RSInv
<1>8. Listing'
  BY <1>2, <1>4, <1>5, SMT DEF RSInv, Listing
<1>9. current # None => current \in Stream
  BY DEF RSInv, RuleTypes
<1>10. CurrentOK'
  BY <1>2, <1>4, <1>5, <1>9 DEF RSInv, CurrentOK
<1>11. SnapOK' /\ EndsOK'
  BY <1>2, <1>4, <1>5, <1>9 DEF RSInv, SnapOK, EndsOK, Synced, Ends
<1> QED BY <1>5, <1>6, <1>7, <1>8, <1>10, <1>11 DEF RSInv

\* A stream is unregistered, if it is still the current one.
LEMMA CleanUnregisterStep ==
  ASSUME RSInv, NEW s \in Stream, CleanUnregister(s)
  PROVE  RSInv'
<1>0. sync[s].entry = None /\ sync[s].pc = "returned"
  BY DEF CleanUnregister, RSInv, HasEntry
<1>1. UNCHANGED <<table, running, edit, lock, entries, lost, retiredInUse>>
  BY DEF CleanUnregister, ghosts, lockVars
<1>2. PICK w \in SyncType :
        /\ w.entry = None /\ w.pc \in {"free", "release"} /\ sync' = [sync EXCEPT ![s] = w]
  BY Returned, FreshRecords DEF CleanUnregister
<1>3. /\ sync' \in [Stream -> SyncType] /\ HasEntry'
      /\ sync'[s] = w /\ (\A t \in Stream : t # s => sync'[t] = sync[t])
      /\ \A t \in Stream : sync'[t].entry = sync[t].entry
  BY <1>0, <1>1, <1>2, SyncQuiet
<1>4. \/ current = s /\ current' = None /\ chan' = << >>
      \/ current # s /\ current' = current /\ chan' = chan
  BY DEF CleanUnregister
<1>5. RuleTypes'
  <2>1. << >> \in Seq(Message)
    BY SMT
  <2> QED BY <1>1, <1>3, <1>4, <2>1 DEF RSInv, RuleTypes
<1>6. \A f \in Entry : Counted(f)'
  BY <1>1, <1>3, CountQuiet DEF RSInv
<1>7. Listing'
  BY <1>1, <1>2, <1>3, SMT DEF RSInv, Listing
<1>8. current # None => current \in Stream
  BY DEF RSInv, RuleTypes
<1>9. CurrentOK'
  <2>1. Len(<< >>) <= Cap
    BY RuleConstants, SMT
  <2> QED BY <1>1, <1>2, <1>3, <1>4, <1>8, <2>1 DEF RSInv, CurrentOK
<1>10. SnapOK' /\ EndsOK'
  BY <1>1, <1>3, <1>4, <1>8, SMT DEF RSInv, SnapOK, EndsOK, Synced, Ends
<1> QED BY <1>3, <1>5, <1>6, <1>7, <1>9, <1>10 DEF RSInv

\* The entry of an agent is retired.
LEMMA ReleaseAgentStep ==
  ASSUME RSInv, NEW s \in Stream, ReleaseAgent(s)
  PROVE  RSInv'
<1>0. sync[s].entry = None /\ sync[s].pc = "release" /\ current # s
      /\ (current # None => current \in Stream)
  <2>1. current # None => current \in Stream
    BY DEF RSInv, RuleTypes
  <2>2. sync[s].pc = "release" /\ sync[s].entry = None
    BY DEF ReleaseAgent, RSInv, HasEntry
  <2>3. current # s
    BY <2>1, <2>2, RuleConstants DEF RSInv, CurrentOK
  <2> QED BY <2>1, <2>2, <2>3
<1>1. UNCHANGED <<table, running, current, chan, edit, lost>> /\ sync' = [sync EXCEPT ![s] = NoSync]
  BY DEF ReleaseAgent
<1>2. /\ sync' \in [Stream -> SyncType] /\ HasEntry'
      /\ sync'[s] = NoSync /\ (\A t \in Stream : t # s => sync'[t] = sync[t])
      /\ \A t \in Stream : sync'[t].entry = sync[t].entry
  BY <1>0, <1>1, FreshRecords, SyncQuiet
<1>3. \A f \in Entry : Editors(f)' = Editors(f) /\ Syncers(f)' = Syncers(f)
  BY <1>1, <1>2 DEF Editors, Syncers
<1>4. /\ entries' \in Entry \cup {None} /\ lock' \in [Entry -> LockType]
      /\ retiredInUse' \in BOOLEAN /\ (retiredInUse => retiredInUse')
      /\ \A f \in Entry :
           /\ lock'[f].users = lock[f].users
           /\ lock[f].users > 0 => lock'[f].held = lock[f].held
           /\ lock'[f].dead => lock[f].users > 0 /\ (lock[f].dead \/ retiredInUse')
           /\ lock[f].users > 0 /\ entries = f => entries' = f
           /\ lock[f].dead => lock'[f].dead
  <2>0. lock \in [Entry -> LockType] /\ entries \in Entry \cup {None} /\ retiredInUse \in BOOLEAN
        /\ \A f \in Entry : lock[f].dead => lock[f].users > 0
    BY DEF RSInv, RuleTypes, Counted
  <2>1. CASE entries = None
    BY <2>0, <2>1, RuleConstants DEF ReleaseAgent, Retire
  <2>2. CASE entries # None /\ lock[entries].users = 0
    <3>1. PICK e \in Entry : e = entries
      BY <2>0, <2>2
    <3>2. lock' = [lock EXCEPT ![e] = NoLock] /\ entries' = None /\ retiredInUse' = retiredInUse
      BY <2>0, <2>2, <3>1, SMT DEF ReleaseAgent, Retire
    <3>3. lock'[e] = NoLock /\ lock' \in [Entry -> LockType]
          /\ \A f \in Entry : f # e => lock'[f] = lock[f]
      BY <2>0, <3>1, <3>2, FreshRecords
    <3> QED BY <2>0, <2>2, <3>1, <3>2, <3>3, FreshRecords, SMT
  <2>3. CASE entries # None /\ lock[entries].users # 0
    <3>1. PICK e \in Entry : e = entries
      BY <2>0, <2>3
    <3>2. PICK w : w = [lock[e] EXCEPT !.dead = TRUE]
      OBVIOUS
    <3>3. w \in LockType /\ w.users = lock[e].users /\ w.held = lock[e].held /\ w.dead
          /\ lock[e].users > 0
      <4>1. lock[e] \in LockType /\ lock[e].users # 0
        BY <2>0, <2>3, <3>1
      <4>2. PICK x \in LockType : x = lock[e]
        BY <4>1
      <4>3. w = [x EXCEPT !.dead = TRUE] /\ x.users # 0
        BY <3>2, <4>1, <4>2
      <4>4. w \in LockType /\ w.users = x.users /\ w.held = x.held /\ w.dead
        BY <4>3 DEF LockType
      <4>5. x.users > 0
        BY <4>3, SMT DEF LockType
      <4> QED BY <4>2, <4>4, <4>5
    <3>4. lock' = [lock EXCEPT ![e] = w] /\ entries' = entries /\ retiredInUse'
      BY <2>3, <3>1, <3>2, <3>3 DEF ReleaseAgent, Retire
    <3>5. retiredInUse' \in BOOLEAN
      BY <2>3 DEF ReleaseAgent, Retire
    <3>6. lock'[e] = w /\ lock' \in [Entry -> LockType]
          /\ \A f \in Entry : f # e => lock'[f] = lock[f]
      BY <2>0, <3>1, <3>3, <3>4
    <3> QED BY <2>0, <3>1, <3>3, <3>4, <3>5, <3>6
  <2> QED BY <2>1, <2>2, <2>3
<1>5. RuleTypes'
  BY <1>1, <1>2, <1>4 DEF RSInv, RuleTypes
<1>6. \A f \in Entry : Counted(f)'
  BY <1>3, <1>4 DEF RSInv, Counted
<1>7. Listing'
  <2>1. ASSUME NEW t \in Stream, t # s, sync[t].pc = "listed" PROVE lock'[sync[t].entry].held
    <3>1. PICK f : f = sync[t].entry
      OBVIOUS
    <3>2. f \in Entry /\ lock[f].held
      BY <2>1, <3>1 DEF RSInv, RuleTypes, HasEntry, Listing, SyncType
    <3>3. lock[f].users > 0
      BY <3>1, <3>2, InUse DEF RSInv
    <3> QED BY <1>4, <3>1, <3>2, <3>3
  <2> QED BY <1>2, <2>1, FreshRecords, SMT DEF RSInv, Listing
<1>8. CurrentOK'
  BY <1>0, <1>1, <1>2, <1>4, FreshRecords DEF RSInv, CurrentOK
<1>9. SnapOK' /\ EndsOK'
  BY <1>0, <1>1, <1>2, <1>4 DEF RSInv, SnapOK, EndsOK, Synced, Ends
<1> QED BY <1>2, <1>5, <1>6, <1>7, <1>8, <1>9 DEF RSInv

-----------------------------------------------------------------------------
(* The agent.                                                              *)

\* The agent applies a message, or restarts with nothing.
LEMMA AgentSteps ==
  ASSUME RSInv, AgentApplies \/ AgentRestarts
  PROVE  RSInv'
<1>1. UNCHANGED <<table, current, sync, lock, entries, edit, lost, retiredInUse>>
  BY DEF AgentApplies, AgentRestarts, ghosts, lockVars
<1>2. chan \in Seq(Message) /\ running \in [Rule -> Content \cup {None}]
  BY DEF RSInv, RuleTypes
<1>3. running' \in [Rule -> Content \cup {None}] /\ chan' \in Seq(Message) /\ Len(chan') <= Len(chan)
      /\ (chan = << >> => chan' = << >>)
  <2>1. CASE AgentApplies
    <3>1. chan' \in Seq(Message) /\ Len(chan') <= Len(chan) /\ chan # << >>
      BY <1>2, <2>1, SMT DEF AgentApplies
    <3>2. running' \in [Rule -> Content \cup {None}]
      BY <1>2, <2>1, RunsType DEF AgentApplies, ApplySnapshot
    <3> QED BY <3>1, <3>2
  <2>2. CASE AgentRestarts
    BY <1>2, <2>2, SMT DEF AgentRestarts
  <2> QED BY <2>1, <2>2
<1>4. RuleTypes'
  BY <1>1, <1>3 DEF RSInv, RuleTypes
<1>5. \A f \in Entry : Counted(f)'
  BY <1>1, CountQuiet DEF RSInv
<1>6. HasEntry' /\ Listing' /\ SnapOK'
  BY <1>1 DEF RSInv, HasEntry, Listing, SnapOK
<1>7. CurrentOK'
  <2>1. Len(chan') <= Cap
    BY <1>2, <1>3, RuleConstants, SMT DEF RSInv, CurrentOK
  <2> QED BY <1>1, <1>3, <2>1 DEF RSInv, CurrentOK
<1>8. EndsOK'
  <2> SUFFICES ASSUME Synced, ~lost, ~retiredInUse, NEW q \in Rule, edit[q].pc = "idle"
               PROVE  Ends(q, Runs(table[q]))'
    BY <1>1 DEF EndsOK, Synced
  <2>1. AgentApplies
    BY DEF Synced, AgentRestarts
  <2>2. PICK v : v = Runs(table[q])
    OBVIOUS
  <2>3. Ends(q, v)
    BY <2>2 DEF RSInv, EndsOK
  <2>4. Ends(q, v)'
    BY <1>2, <2>1, <2>3, EndsApply
  <2> QED BY <1>1, <2>2, <2>4 DEF Ends, Runs
<1> QED BY <1>4, <1>5, <1>6, <1>7, <1>8 DEF RSInv

-----------------------------------------------------------------------------
\* The invariant holds at the start, and every step keeps it.
LEMMA InitRSInv == RuleInit => RSInv
<1> SUFFICES ASSUME RuleInit PROVE RSInv
  OBVIOUS
<1>1. RuleTypes
  <2>1. << >> \in Seq(Message)
    BY SMT
  <2> QED BY <2>1, FreshRecords DEF RuleInit, RuleTypes, Rules
<1>2. \A e \in Entry : Counted(e)
  <2> TAKE e \in Entry
  <2>1. Editors(e) = {} /\ Syncers(e) = {}
    BY FreshRecords, RuleConstants DEF RuleInit, Editors, Syncers
  <2>2. lock[e].users = 0 /\ ~lock[e].dead
    BY FreshRecords DEF RuleInit
  <2> QED BY <2>1, <2>2, FS_EmptySet, SMT DEF Counted
<1>3. HasEntry /\ Listing
  BY FreshRecords DEF RuleInit, HasEntry, Listing
<1>4. CurrentOK
  <2>1. Len(<< >>) <= Cap
    BY RuleConstants, SMT
  <2> QED BY <2>1 DEF RuleInit, CurrentOK
<1>5. SnapOK /\ EndsOK
  BY DEF RuleInit, SnapOK, EndsOK, Synced
<1> QED BY <1>1, <1>2, <1>3, <1>4, <1>5 DEF RSInv

LEMMA StepRSInv == RSInv /\ [RuleNext]_ruleVars => RSInv'
<1> SUFFICES ASSUME RSInv, [RuleNext]_ruleVars PROVE RSInv'
  OBVIOUS
<1>1. CASE \E r \in Rule : \/ EditWrites(r) \/ EditChecks(r) \/ EditAcquires(r)
                           \/ EditSends(r) \/ EditNotSent(r)
  BY <1>1, EditQuietSteps, EditAcquiresStep, EditSendsStep
<1>2. CASE \E s \in Stream :
             \/ Connect(s) \/ SyncAcquires(s) \/ SyncLists(s) \/ SyncSends(s)
             \/ SyncFails(s) \/ StreamEnds(s) \/ CleanUnregister(s) \/ ReleaseAgent(s)
  BY <1>2, ConnectStep, SyncAcquiresStep, SyncListsStep, SyncSendsStep, SyncFailsStep,
     StreamEndsStep, CleanUnregisterStep, ReleaseAgentStep
<1>3. CASE AgentApplies \/ AgentRestarts
  BY <1>3, AgentSteps
<1>4. CASE UNCHANGED ruleVars
  <2>1. UNCHANGED <<table, running, current, sync, chan, entries, lock, edit, lost, retiredInUse>>
    BY <1>4 DEF ruleVars
  <2>2. \A f \in Entry : Counted(f)'
    BY <2>1, CountQuiet DEF RSInv
  <2> QED BY <2>1, <2>2 DEF RSInv, RuleTypes, HasEntry, Listing, CurrentOK, SnapOK, EndsOK,
                            Synced, Ends
<1> QED BY <1>1, <1>2, <1>3, <1>4 DEF RuleNext

\* Lock entries are counted exactly, and once a stream is synchronised and nothing is on
\* its way the agent runs what the database says.
THEOREM RulesAlwaysInForce == RuleSpec => []RulesInForce
<1>1. RSInv => RulesInForce
  <2> SUFFICES ASSUME RSInv PROVE RuleTypeOK /\ RulesAgree
    BY DEF RulesInForce
  <2>1. RuleTypeOK
    BY DEF RSInv, RuleTypes, Rules, RuleTypeOK, CurrentOK, Counted, Users, Editors, Syncers
  <2>2. RulesAgree
    <3>1. chan = << >> => DOMAIN chan = {}
      BY SMT
    <3> QED BY <3>1 DEF RSInv, EndsOK, Ends, RulesAgree, Settled
  <2> QED BY <2>1, <2>2
<1> QED BY <1>1, InitRSInv, StepRSInv, PTL DEF RuleSpec

-----------------------------------------------------------------------------
(* Credentials.  Who publishes a session holds the lock and its generation. *)

CallOK(r) == DOMAIN r = {"pc", "gen", "sess"} /\ r.gen \in Nat
PairOK(p) == DOMAIN p = {"sess", "gen"} /\ p.gen \in Nat
TryOK(u) ==
  /\ DOMAIN u = {"pc", "attempt", "sess", "before", "used", "asked"}
  /\ u.attempt \in Nat /\ u.used \in Nat /\ u.asked \in Nat

StoresOK ==
  /\ PairOK(sts) /\ PairOK(holder) /\ credGen \in Nat /\ SessionsAgree
  /\ applying \in Refresher \cup {"nobody"}

\* A refresh: who publishes is the one that has the lock and the generation of the
\* session store, and what was applied is no newer than that.
WriterOK(w) ==
  /\ CallOK(rpc[w]) /\ rpc[w].gen <= credGen
  /\ rpc[w].pc = "publish" <=> applying = w
  /\ rpc[w].pc = "applied" => rpc[w].gen <= sts.gen
  /\ applying = w => /\ rpc[w].gen = sts.gen /\ holder.gen < sts.gen
                     /\ sts.sess \in {rpc[w].sess, "none"}

\* An upload: after its refresh it uses only what is no older than that.
UploadOK(t) ==
  /\ TryOK(upload[t])
  /\ rpc[t].pc # "idle" => upload[t].pc = "refresh" /\ rpc[t].gen = upload[t].asked
  /\ upload[t].pc = "read" /\ upload[t].attempt # 0 => upload[t].asked <= holder.gen
  /\ upload[t].pc = "put" /\ upload[t].attempt \notin {0, 1}
       => upload[t].asked <= holder.gen /\ upload[t].asked <= upload[t].used
  /\ upload[t].pc = "terminal" => upload[t].asked <= upload[t].used

\* The inductive invariant.
CredInv ==
  /\ StoresOK /\ DOMAIN rpc = Refresher /\ DOMAIN upload = Task
  /\ \A w \in Refresher : WriterOK(w)
  /\ \A t \in Task : UploadOK(t)

\* What NewestStays says of one step.
Forward == holder' # holder => holder'.gen > holder.gen

-----------------------------------------------------------------------------
LEMMA NoRpcFields == CallOK(NoRpc) /\ NoRpc.pc = "idle" /\ NoRpc.gen = 0
BY SMT DEF NoRpc, CallOK

LEMMA NoUploadFields == TryOK(NoUpload) /\ NoUpload.pc = "idle" /\ NoUpload.attempt = 0
BY SMT DEF NoUpload, TryOK

LEMMA NewPair ==
  ASSUME NEW g \in Nat, NEW s, NEW p, p = [sess |-> s, gen |-> g]
  PROVE  PairOK(p) /\ p.gen = g /\ p.sess = s
BY SMT DEF PairOK

LEMMA CallMoves ==
  ASSUME NEW w \in Refresher, DOMAIN rpc = Refresher, CallOK(rpc[w]), NEW p,
         rpc' = [rpc EXCEPT ![w].pc = p]
  PROVE  /\ DOMAIN rpc' = Refresher /\ \A v \in Refresher : v # w => rpc'[v] = rpc[v]
         /\ CallOK(rpc'[w]) /\ rpc'[w].pc = p /\ rpc'[w].gen = rpc[w].gen /\ rpc'[w].sess = rpc[w].sess
<1>1. PICK r : r = [rpc[w] EXCEPT !.pc = p]
  OBVIOUS
<1>2. rpc' = [rpc EXCEPT ![w] = r]
  BY <1>1
<1>3. DOMAIN r = {"pc", "gen", "sess"} /\ r.pc = p /\ r.gen = rpc[w].gen /\ r.sess = rpc[w].sess
  BY <1>1 DEF CallOK
<1> QED BY <1>2, <1>3 DEF CallOK

LEMMA OtherCalls ==
  ASSUME NEW w \in Refresher, DOMAIN rpc = Refresher, NEW r, rpc' = [rpc EXCEPT ![w] = r]
  PROVE  DOMAIN rpc' = Refresher /\ rpc'[w] = r /\ \A v \in Refresher : v # w => rpc'[v] = rpc[v]
OBVIOUS

LEMMA OtherUploads ==
  ASSUME NEW t \in Task, DOMAIN upload = Task, NEW u, upload' = [upload EXCEPT ![t] = u]
  PROVE  DOMAIN upload' = Task /\ upload'[t] = u /\ \A x \in Task : x # t => upload'[x] = upload[x]
OBVIOUS

LEMMA Trans == ASSUME NEW a \in Nat, NEW b \in Nat, NEW c \in Nat, a <= b, b <= c PROVE a <= c
BY SMT

LEMMA NextGen ==
  ASSUME NEW n \in Nat PROVE n + 1 \in Nat /\ n <= n + 1 /\ n < n + 1 /\ n + 1 <= n + 1
BY SMT

\* A refresh that a step does not touch, while the generations grow.
LEMMA WriterKept ==
  ASSUME NEW v, WriterOK(v), StoresOK, StoresOK', rpc'[v] = rpc[v],
         credGen <= credGen', sts.gen <= sts'.gen, applying' = v <=> applying = v,
         applying = v => sts'.gen = sts.gen /\ holder' = holder /\ sts'.sess \in {sts.sess, "none"}
  PROVE  WriterOK(v)'
<1>1. /\ rpc[v].gen \in Nat /\ credGen \in Nat /\ credGen' \in Nat
      /\ sts.gen \in Nat /\ sts'.gen \in Nat
  BY DEF WriterOK, CallOK, StoresOK, PairOK
<1>2. rpc'[v].gen <= credGen'
  BY <1>1, Trans DEF WriterOK
<1>3. rpc'[v].pc = "applied" => rpc'[v].gen <= sts'.gen
  BY <1>1, Trans DEF WriterOK
<1> QED BY <1>2, <1>3 DEF WriterOK

\* An upload that a step does not touch, while the generation held grows.
LEMMA UploadKept ==
  ASSUME NEW t, UploadOK(t), StoresOK, StoresOK', upload'[t] = upload[t],
         rpc'[t] = rpc[t] \/ (rpc'[t].pc # "idle" => rpc[t].pc # "idle" /\ rpc'[t].gen = rpc[t].gen),
         holder.gen <= holder'.gen
  PROVE  UploadOK(t)'
<1>1. upload[t].asked \in Nat /\ holder.gen \in Nat /\ holder'.gen \in Nat
  BY DEF UploadOK, TryOK, StoresOK, PairOK
<1>2. upload[t].asked <= holder.gen => upload'[t].asked <= holder'.gen
  BY <1>1, Trans
<1> QED BY <1>2 DEF UploadOK

\* Nothing that matters changes.
LEMMA CredSame ==
  ASSUME CredInv, UNCHANGED <<credGen, rpc, sts, holder, applying, upload>>
  PROVE  CredInv' /\ Forward
BY DEF CredInv, StoresOK, SessionsAgree, WriterOK, UploadOK, Forward

\* Only one upload changes; it has no refresh under way.
LEMMA UploadOnly ==
  ASSUME CredInv, NEW t \in Task, NEW u, Go(t, u), TryOK(u), upload[t].pc # "refresh",
         UNCHANGED <<credGen, rpc, sts, holder, applying>>,
         u.pc = "read" /\ u.attempt # 0 => u.asked <= holder.gen,
         u.pc = "put" /\ u.attempt \notin {0, 1} => u.asked <= holder.gen /\ u.asked <= u.used,
         u.pc = "terminal" => u.asked <= u.used
  PROVE  CredInv' /\ Forward
<1>1. DOMAIN upload' = Task /\ upload'[t] = u /\ \A x \in Task : x # t => upload'[x] = upload[x]
  BY OtherUploads DEF Go, CredInv
<1>2. rpc[t].pc = "idle"
  BY DEF CredInv, UploadOK
<1>3. UploadOK(t)'
  BY <1>1, <1>2 DEF UploadOK
<1>4. ASSUME NEW x \in Task, x # t PROVE UploadOK(x)'
  <2>1. upload'[x] = upload[x] /\ UploadOK(x)
    BY <1>1, <1>4 DEF CredInv
  <2> QED BY <2>1 DEF UploadOK
<1>5. \A w \in Refresher : WriterOK(w)'
  BY DEF CredInv, WriterOK
<1>6. StoresOK'
  BY DEF CredInv, StoresOK, SessionsAgree
<1>7. \A x \in Task : UploadOK(x)'
  BY <1>3, <1>4
<1> QED BY <1>1, <1>5, <1>6, <1>7 DEF CredInv, Forward

-----------------------------------------------------------------------------
(* The writers.                                                            *)

LEMMA ReceiveStep ==
  ASSUME CredInv, ReceivePush
  PROVE  CredInv' /\ Forward
<1>1. credGen \in Nat /\ sts.gen \in Nat /\ holder.gen \in Nat /\ sts.gen <= credGen /\ holder.gen <= sts.gen
  BY DEF CredInv, StoresOK, PairOK, SessionsAgree
<1>2. PICK g : g = credGen + 1
  OBVIOUS
<1>3. g \in Nat /\ sts.gen <= g /\ holder.gen <= g /\ holder.gen < g /\ credGen <= g /\ g <= g
  BY <1>1, <1>2, SMT
<1>4. /\ credGen' = g /\ sts' = [sess |-> Head(pushed), gen |-> g] /\ holder' = sts'
      /\ applying = "nobody" /\ UNCHANGED <<rpc, applying, upload>>
  BY <1>2 DEF ReceivePush
<1>5. PairOK(sts') /\ sts'.gen = g
  BY <1>3, <1>4, NewPair
<1>6. StoresOK'
  BY <1>3, <1>4, <1>5 DEF CredInv, StoresOK, SessionsAgree
<1>7. ASSUME NEW w \in Refresher PROVE WriterOK(w)'
  <2>1. applying # w
    BY <1>4, CredAssumption DEF Refresher
  <2> QED BY <2>1, <1>3, <1>4, <1>5, <1>6, WriterKept DEF CredInv
<1>8. ASSUME NEW t \in Task PROVE UploadOK(t)'
  BY <1>3, <1>4, <1>5, <1>6, UploadKept DEF CredInv
<1>9. Forward
  BY <1>1, <1>3, <1>4, <1>5, SMT DEF Forward
<1> QED BY <1>4, <1>6, <1>7, <1>8, <1>9 DEF CredInv

\* A refresh is asked for by someone that has none under way.
LEMMA AskStep ==
  ASSUME CredInv, NEW w \in Refresher, rpc[w].pc = "idle", Ask(w)
  PROVE  /\ DOMAIN rpc' = Refresher /\ \A v \in Refresher : v # w => rpc'[v] = rpc[v]
         /\ credGen' \in Nat /\ credGen' = credGen + 1 /\ credGen <= credGen' /\ sts.gen <= credGen'
         /\ CallOK(rpc'[w]) /\ rpc'[w].pc = "asked" /\ rpc'[w].gen = credGen' /\ applying # w
<1>1. credGen \in Nat /\ sts.gen \in Nat /\ sts.gen <= credGen /\ DOMAIN rpc = Refresher
  BY DEF CredInv, StoresOK, PairOK, SessionsAgree
<1>2. PICK g : g = credGen + 1
  OBVIOUS
<1>3. g \in Nat /\ credGen <= g /\ sts.gen <= g
  BY <1>1, <1>2, SMT
<1>4. PICK r : r = [pc |-> "asked", gen |-> g, sess |-> "none"]
  OBVIOUS
<1>5. CallOK(r) /\ r.pc = "asked" /\ r.gen = g
  BY <1>3, <1>4, SMT DEF CallOK
<1>6. credGen' = g /\ rpc' = [rpc EXCEPT ![w] = r]
  BY <1>2, <1>4 DEF Ask
<1>7. applying # w
  BY DEF CredInv, WriterOK
<1> QED BY <1>1, <1>2, <1>3, <1>5, <1>6, <1>7, OtherCalls

LEMMA TickerAsksStep ==
  ASSUME CredInv, TickerAsks
  PROVE  CredInv' /\ Forward
<1>1. /\ Ticker \in Refresher /\ rpc[Ticker].pc = "idle" /\ Ask(Ticker)
      /\ UNCHANGED <<sts, holder, applying, upload>>
  BY DEF TickerAsks, Refresher
<1>2. /\ DOMAIN rpc' = Refresher /\ \A v \in Refresher : v # Ticker => rpc'[v] = rpc[v]
      /\ credGen' \in Nat /\ credGen <= credGen' /\ sts.gen <= credGen'
      /\ CallOK(rpc'[Ticker]) /\ rpc'[Ticker].pc = "asked" /\ rpc'[Ticker].gen = credGen'
      /\ applying # Ticker
  BY <1>1, AskStep
<1>3. sts.gen \in Nat /\ holder.gen \in Nat
  BY DEF CredInv, StoresOK, PairOK
<1>4. sts.gen <= sts.gen /\ holder.gen <= holder.gen /\ credGen' <= credGen'
  BY <1>2, <1>3, SMT
<1>5. StoresOK'
  BY <1>1, <1>2 DEF CredInv, StoresOK, SessionsAgree
<1>6. WriterOK(Ticker)'
  BY <1>1, <1>2, <1>4 DEF WriterOK
<1>7. ASSUME NEW v \in Refresher, v # Ticker PROVE WriterOK(v)'
  BY <1>1, <1>2, <1>4, <1>5, <1>7, WriterKept DEF CredInv
<1>8. ASSUME NEW t \in Task PROVE UploadOK(t)'
  <2>1. t \in Refresher /\ t # Ticker
    BY CredAssumption DEF Refresher
  <2> QED BY <2>1, <1>1, <1>2, <1>4, <1>5, UploadKept DEF CredInv
<1>9. \A v \in Refresher : WriterOK(v)'
  BY <1>6, <1>7
<1> QED BY <1>1, <1>2, <1>5, <1>8, <1>9 DEF CredInv, Forward

\* A refresh ends, or moves on, without touching the sessions.
LEMMA CallOnly ==
  ASSUME CredInv, NEW w \in Refresher, UNCHANGED <<credGen, sts, holder, applying>>,
         DOMAIN rpc' = Refresher, \A v \in Refresher : v # w => rpc'[v] = rpc[v],
         CallOK(rpc'[w]), rpc'[w].gen <= credGen, rpc'[w].pc # "publish", applying # w,
         rpc'[w].pc = "applied" => rpc'[w].gen <= sts.gen,
         DOMAIN upload' = Task, \A x \in Task : x # w => upload'[x] = upload[x],
         w \in Task => UploadOK(w)'
  PROVE  CredInv' /\ Forward
<1>1. sts.gen \in Nat /\ holder.gen \in Nat /\ credGen \in Nat
  BY DEF CredInv, StoresOK, PairOK
<1>2. sts.gen <= sts'.gen /\ holder.gen <= holder'.gen /\ credGen <= credGen'
  BY <1>1, SMT
<1>3. StoresOK'
  BY DEF CredInv, StoresOK, SessionsAgree
<1>4. WriterOK(w)'
  BY DEF WriterOK
<1>5. ASSUME NEW v \in Refresher, v # w PROVE WriterOK(v)'
  BY <1>2, <1>3, <1>5, WriterKept DEF CredInv
<1>6. ASSUME NEW t \in Task, t # w PROVE UploadOK(t)'
  <2>1. t \in Refresher
    BY DEF Refresher
  <2> QED BY <2>1, <1>2, <1>3, <1>6, UploadKept DEF CredInv
<1>7. (\A v \in Refresher : WriterOK(v)') /\ (\A t \in Task : UploadOK(t)')
  BY <1>4, <1>5, <1>6
<1> QED BY <1>3, <1>7 DEF CredInv, Forward

LEMMA TickerEndsStep ==
  ASSUME CredInv, TickerEnds
  PROVE  CredInv' /\ Forward
<1>1. /\ Ticker \in Refresher /\ Ticker \notin Task /\ rpc[Ticker].pc = "applied"
      /\ rpc' = [rpc EXCEPT ![Ticker] = NoRpc] /\ DOMAIN rpc = Refresher
      /\ UNCHANGED <<credGen, sts, holder, applying, upload>>
  BY CredAssumption DEF TickerEnds, Refresher, CredInv
<1>2. DOMAIN rpc' = Refresher /\ rpc'[Ticker] = NoRpc /\ \A v \in Refresher : v # Ticker => rpc'[v] = rpc[v]
  BY <1>1, OtherCalls
<1>3. applying # Ticker
  BY <1>1 DEF CredInv, WriterOK
<1>4. credGen \in Nat /\ 0 <= credGen
  <2>1. credGen \in Nat
    BY DEF CredInv, StoresOK
  <2> QED BY <2>1, SMT
<1>5. DOMAIN upload' = Task /\ \A x \in Task : upload'[x] = upload[x]
  BY <1>1 DEF CredInv
<1> QED BY <1>1, <1>2, <1>3, <1>4, <1>5, NoRpcFields, CallOnly

LEMMA MintsStep ==
  ASSUME CredInv, NEW w \in Refresher, RefreshMints(w)
  PROVE  CredInv' /\ Forward
<1>1. /\ rpc[w].pc = "asked" /\ DOMAIN rpc = Refresher /\ WriterOK(w)
      /\ UNCHANGED <<credGen, sts, holder, applying, upload>>
  BY DEF RefreshMints, CredInv
<1>2. PICK r : r = [rpc[w] EXCEPT !.pc = "minted", !.sess = Minted]
  OBVIOUS
<1>3. rpc' = [rpc EXCEPT ![w] = r]
  BY <1>2 DEF RefreshMints
<1>4. CallOK(r) /\ r.pc = "minted" /\ r.gen = rpc[w].gen
  <2>1. PICK c : c = rpc[w]
    OBVIOUS
  <2>2. CallOK(c) /\ r = [c EXCEPT !.pc = "minted", !.sess = Minted]
    BY <2>1, <1>1, <1>2 DEF WriterOK
  <2>3. DOMAIN r = {"pc", "gen", "sess"} /\ r.pc = "minted" /\ r.gen = c.gen
    BY <2>2 DEF CallOK
  <2> QED BY <2>1, <2>2, <2>3 DEF CallOK
<1>5. DOMAIN rpc' = Refresher /\ rpc'[w] = r /\ \A v \in Refresher : v # w => rpc'[v] = rpc[v]
  BY <1>1, <1>3, OtherCalls
<1>6. applying # w /\ rpc[w].gen <= credGen
  BY <1>1 DEF WriterOK
<1>7. ASSUME w \in Task PROVE UploadOK(w)'
  BY <1>1, <1>4, <1>5, <1>7 DEF CredInv, UploadOK
<1>8. DOMAIN upload' = Task /\ \A x \in Task : upload'[x] = upload[x]
  BY <1>1 DEF CredInv
<1> QED BY <1>1, <1>4, <1>5, <1>6, <1>7, <1>8, CallOnly

LEMMA ApplyStep ==
  ASSUME CredInv, NEW w \in Refresher, Apply(w)
  PROVE  CredInv' /\ Forward
<1>1. /\ rpc[w].pc = "minted" /\ applying = "nobody" /\ DOMAIN rpc = Refresher /\ WriterOK(w)
      /\ UNCHANGED <<credGen, holder, upload>> /\ SetSTS(rpc[w].sess, rpc[w].gen)
      /\ CallOK(rpc[w]) /\ rpc[w].gen <= credGen /\ w # "nobody"
  BY CredAssumption DEF Apply, CredInv, WriterOK, Refresher
<1>2. /\ rpc[w].gen \in Nat /\ sts.gen \in Nat /\ holder.gen \in Nat /\ credGen \in Nat
      /\ holder.gen <= sts.gen
  BY <1>1 DEF CredInv, StoresOK, PairOK, CallOK, SessionsAgree
<1>3. DOMAIN upload' = Task /\ \A x \in Task : upload'[x] = upload[x]
  BY <1>1 DEF CredInv
<1>4. CASE ~Newer(rpc[w].gen)
  <2>1. rpc' = [rpc EXCEPT ![w].pc = "applied"] /\ UNCHANGED <<applying, sts>>
    BY <1>1, <1>4 DEF Apply, SetSTS
  <2>2. /\ DOMAIN rpc' = Refresher /\ \A v \in Refresher : v # w => rpc'[v] = rpc[v]
        /\ CallOK(rpc'[w]) /\ rpc'[w].pc = "applied" /\ rpc'[w].gen = rpc[w].gen
    BY <1>1, <2>1, CallMoves
  <2>3. rpc[w].gen <= sts.gen
    BY <1>2, <1>4, SMT DEF Newer
  <2>4. ASSUME w \in Task PROVE UploadOK(w)'
    BY <1>1, <2>2, <2>4 DEF CredInv, UploadOK
  <2> QED BY <1>1, <1>3, <2>1, <2>2, <2>3, <2>4, CallOnly
<1>5. CASE Newer(rpc[w].gen)
  <2>1. /\ rpc' = [rpc EXCEPT ![w].pc = "publish"] /\ applying' = w
        /\ sts' = [sess |-> rpc[w].sess, gen |-> rpc[w].gen]
    BY <1>1, <1>5 DEF Apply, SetSTS
  <2>2. /\ DOMAIN rpc' = Refresher /\ \A v \in Refresher : v # w => rpc'[v] = rpc[v]
        /\ CallOK(rpc'[w]) /\ rpc'[w].pc = "publish" /\ rpc'[w].gen = rpc[w].gen
        /\ rpc'[w].sess = rpc[w].sess
    BY <1>1, <2>1, CallMoves
  <2>3. PairOK(sts') /\ sts'.gen = rpc[w].gen /\ sts'.sess = rpc[w].sess
    BY <1>2, <2>1, SMT DEF PairOK
  <2>4. /\ sts.gen <= rpc[w].gen /\ holder.gen < rpc[w].gen /\ holder.gen <= rpc[w].gen
        /\ holder.gen # rpc[w].gen /\ holder.gen <= holder.gen /\ credGen <= credGen
    BY <1>2, <1>5, SMT DEF Newer
  <2>5. StoresOK'
    BY <1>1, <2>1, <2>3, <2>4 DEF CredInv, StoresOK, SessionsAgree
  <2>6. WriterOK(w)'
    BY <1>1, <2>1, <2>2, <2>3, <2>4 DEF WriterOK
  <2>7. ASSUME NEW v \in Refresher, v # w PROVE WriterOK(v)'
    <3>1. v # "nobody"
      BY CredAssumption DEF Refresher
    <3>2. /\ WriterOK(v) /\ StoresOK /\ rpc'[v] = rpc[v] /\ credGen <= credGen' /\ sts.gen <= sts'.gen
          /\ applying # v /\ applying' # v
      BY <3>1, <1>1, <2>1, <2>2, <2>3, <2>4, <2>7 DEF CredInv
    <3> QED BY <3>2, <2>5, WriterKept
  <2>8. ASSUME NEW t \in Task PROVE UploadOK(t)'
    <3>1. t \in Refresher
      BY DEF Refresher
    <3>2. rpc'[t] = rpc[t] \/ (rpc'[t].pc # "idle" => rpc[t].pc # "idle" /\ rpc'[t].gen = rpc[t].gen)
      BY <3>1, <1>1, <2>2
    <3>3. UploadOK(t) /\ StoresOK /\ upload'[t] = upload[t] /\ holder.gen <= holder'.gen
      BY <1>1, <2>4 DEF CredInv
    <3> QED BY <3>2, <3>3, <2>5, UploadKept
  <2>9. \A v \in Refresher : WriterOK(v)'
    BY <2>6, <2>7
  <2> QED BY <1>1, <1>3, <2>2, <2>5, <2>8, <2>9 DEF CredInv, Forward
<1> QED BY <1>4, <1>5

LEMMA PublishStep ==
  ASSUME CredInv, NEW w \in Refresher, Publish(w)
  PROVE  CredInv' /\ Forward
<1>1. /\ rpc[w].pc = "publish" /\ DOMAIN rpc = Refresher /\ WriterOK(w) /\ CallOK(rpc[w])
      /\ rpc' = [rpc EXCEPT ![w].pc = "applied"] /\ applying' = "nobody"
      /\ holder' = [sess |-> rpc[w].sess, gen |-> rpc[w].gen]
      /\ UNCHANGED <<credGen, sts, upload>> /\ w # "nobody"
  BY CredAssumption DEF Publish, CredInv, WriterOK, Refresher
<1>2. /\ applying = w /\ rpc[w].gen = sts.gen /\ holder.gen < sts.gen /\ rpc[w].gen <= credGen
      /\ sts.sess \in {rpc[w].sess, "none"}
  BY <1>1 DEF WriterOK
<1>3. rpc[w].gen \in Nat /\ sts.gen \in Nat /\ holder.gen \in Nat /\ credGen \in Nat
  BY <1>1 DEF CredInv, StoresOK, PairOK, CallOK
<1>4. PairOK(holder') /\ holder'.gen = sts.gen /\ holder'.sess = rpc[w].sess
  BY <1>1, <1>2, <1>3, SMT DEF PairOK
<1>5. holder.gen <= holder'.gen /\ holder'.gen > holder.gen /\ sts.gen <= sts.gen /\ credGen <= credGen
  BY <1>2, <1>3, <1>4, SMT
<1>6. /\ DOMAIN rpc' = Refresher /\ \A v \in Refresher : v # w => rpc'[v] = rpc[v]
      /\ CallOK(rpc'[w]) /\ rpc'[w].pc = "applied" /\ rpc'[w].gen = rpc[w].gen
  BY <1>1, CallMoves
<1>7. StoresOK'
  BY <1>1, <1>2, <1>4, <1>5 DEF CredInv, StoresOK, SessionsAgree
<1>8. WriterOK(w)'
  BY <1>1, <1>2, <1>5, <1>6 DEF WriterOK
<1>9. ASSUME NEW v \in Refresher, v # w PROVE WriterOK(v)'
  <2>1. v # "nobody"
    BY CredAssumption DEF Refresher
  <2>2. /\ WriterOK(v) /\ StoresOK /\ rpc'[v] = rpc[v] /\ credGen <= credGen' /\ sts.gen <= sts'.gen
        /\ applying # v /\ applying' # v
    BY <2>1, <1>1, <1>2, <1>5, <1>6, <1>9 DEF CredInv
  <2> QED BY <2>2, <1>7, WriterKept
<1>10. ASSUME NEW t \in Task PROVE UploadOK(t)'
  <2>1. t \in Refresher
    BY DEF Refresher
  <2>2. rpc'[t] = rpc[t] \/ (rpc'[t].pc # "idle" => rpc[t].pc # "idle" /\ rpc'[t].gen = rpc[t].gen)
    BY <2>1, <1>1, <1>6
  <2>3. UploadOK(t) /\ StoresOK /\ upload'[t] = upload[t] /\ holder.gen <= holder'.gen
    BY <1>1, <1>5 DEF CredInv
  <2> QED BY <2>2, <2>3, <1>7, UploadKept
<1>11. \A v \in Refresher : WriterOK(v)'
  BY <1>8, <1>9
<1>12. DOMAIN upload' = Task
  BY <1>1 DEF CredInv
<1> QED BY <1>5, <1>6, <1>7, <1>10, <1>11, <1>12 DEF CredInv, Forward

LEMMA RefreshFailsStep ==
  ASSUME CredInv, NEW w \in Refresher, RefreshFails(w)
  PROVE  CredInv' /\ Forward
<1>1. /\ rpc[w].pc = "asked" /\ DOMAIN rpc = Refresher /\ DOMAIN upload = Task
      /\ rpc' = [rpc EXCEPT ![w] = NoRpc]
      /\ upload' = IF w = Ticker THEN upload ELSE [upload EXCEPT ![w] = NoUpload]
      /\ UNCHANGED <<credGen, sts, holder, applying>>
  BY DEF RefreshFails, CredInv
<1>2. DOMAIN rpc' = Refresher /\ rpc'[w] = NoRpc /\ \A v \in Refresher : v # w => rpc'[v] = rpc[v]
  BY <1>1, OtherCalls
<1>3. DOMAIN upload' = Task /\ (\A x \in Task : x # w => upload'[x] = upload[x])
  BY <1>1
<1>4. ASSUME w \in Task PROVE UploadOK(w)'
  <2>1. upload'[w] = NoUpload
    BY <1>1, <1>4, CredAssumption
  <2> QED BY <2>1, <1>2, NoRpcFields, NoUploadFields DEF UploadOK
<1>5. applying # w
  BY <1>1 DEF CredInv, WriterOK
<1>6. credGen \in Nat /\ 0 <= credGen
  <2>1. credGen \in Nat
    BY DEF CredInv, StoresOK
  <2> QED BY <2>1, SMT
<1> QED BY <1>1, <1>2, <1>3, <1>4, <1>5, <1>6, NoRpcFields, CallOnly

-----------------------------------------------------------------------------
(* The uploads.                                                            *)

LEMMA UploadStartsStep ==
  ASSUME CredInv, NEW t \in Task, UploadStarts(t)
  PROVE  CredInv' /\ Forward
<1>1. PICK u : u = [NoUpload EXCEPT !.pc = "read"]
  OBVIOUS
<1>2. TryOK(u) /\ u.pc = "read" /\ u.attempt = 0
  BY <1>1, SMT DEF NoUpload, TryOK
<1>3. /\ upload[t].pc = "idle" /\ Go(t, u)
      /\ UNCHANGED <<credGen, rpc, sts, holder, applying>>
  BY <1>1 DEF UploadStarts
<1> QED BY <1>2, <1>3, UploadOnly

LEMMA AttemptReadsStep ==
  ASSUME CredInv, NEW t \in Task, AttemptReads(t)
  PROVE  CredInv' /\ Forward
<1>1. PICK c : c = upload[t]
  OBVIOUS
<1>2. PICK u : u = [c EXCEPT !.pc = "put", !.attempt = @ + 1, !.sess = holder.sess,
                             !.used = holder.gen]
  OBVIOUS
<1>3. /\ c.pc = "read" /\ Go(t, u) /\ TryOK(c)
      /\ UNCHANGED <<credGen, rpc, sts, holder, applying>>
      /\ c.attempt # 0 => c.asked <= holder.gen
  BY <1>1, <1>2 DEF AttemptReads, CredInv, UploadOK
<1>4. holder.gen \in Nat
  BY DEF CredInv, StoresOK, PairOK
<1>5. TryOK(u) /\ u.pc = "put" /\ u.attempt = c.attempt + 1 /\ u.used = holder.gen /\ u.asked = c.asked
  BY <1>2, <1>3, <1>4, SMT DEF TryOK
<1>6. u.attempt \notin {0, 1} => c.attempt # 0
  BY <1>3, <1>5, SMT DEF TryOK
<1>7. u.attempt \notin {0, 1} => u.asked <= holder.gen /\ u.asked <= u.used
  BY <1>3, <1>5, <1>6
<1> QED BY <1>1, <1>3, <1>5, <1>7, UploadOnly

LEMMA UploadEndsStep ==
  ASSUME CredInv, NEW t \in Task, AttemptNoSession(t) \/ AttemptStored(t)
  PROVE  CredInv' /\ Forward
<1>1. /\ upload[t].pc # "refresh" /\ Go(t, NoUpload)
      /\ UNCHANGED <<credGen, rpc, sts, holder, applying>>
  BY DEF AttemptNoSession, AttemptStored
<1> QED BY <1>1, NoUploadFields, UploadOnly

LEMMA SecondDeniedStep ==
  ASSUME CredInv, NEW t \in Task, SecondDenied(t)
  PROVE  CredInv' /\ Forward
<1>1. PICK c : c = upload[t]
  OBVIOUS
<1>2. PICK p : p = IF holder.gen = c.before THEN "terminal" ELSE "read"
  OBVIOUS
<1>3. PICK u : u = [c EXCEPT !.pc = p]
  OBVIOUS
<1>4. /\ c.pc = "put" /\ c.attempt = 2 /\ Go(t, u) /\ TryOK(c)
      /\ UNCHANGED <<credGen, rpc, sts, holder, applying>>
      /\ c.attempt \notin {0, 1} => c.asked <= holder.gen /\ c.asked <= c.used
  BY <1>1, <1>2, <1>3 DEF SecondDenied, CredInv, UploadOK
<1>5. c.asked <= holder.gen /\ c.asked <= c.used
  BY <1>4, SMT
<1>6. TryOK(u) /\ u.pc = p /\ u.used = c.used /\ u.asked = c.asked
  BY <1>3, <1>4, SMT DEF TryOK
<1>7. p # "put"
  BY <1>2
<1> QED BY <1>1, <1>4, <1>5, <1>6, <1>7, UploadOnly

LEMMA ThirdDeniedStep ==
  ASSUME CredInv, NEW t \in Task, ThirdDenied(t)
  PROVE  CredInv' /\ Forward
<1>1. PICK c : c = upload[t]
  OBVIOUS
<1>2. PICK u : u = [c EXCEPT !.pc = "terminal"]
  OBVIOUS
<1>3. /\ c.pc = "put" /\ c.attempt = 3 /\ Go(t, u) /\ TryOK(c)
      /\ UNCHANGED <<credGen, rpc, sts, holder, applying>>
      /\ c.attempt \notin {0, 1} => c.asked <= holder.gen /\ c.asked <= c.used
  BY <1>1, <1>2 DEF ThirdDenied, CredInv, UploadOK
<1>4. c.asked <= c.used
  BY <1>3, SMT
<1>5. TryOK(u) /\ u.pc = "terminal" /\ u.used = c.used /\ u.asked = c.asked
  BY <1>2, <1>3, SMT DEF TryOK
<1> QED BY <1>1, <1>3, <1>4, <1>5, UploadOnly

LEMMA FirstDeniedStep ==
  ASSUME CredInv, NEW t \in Task, FirstDenied(t)
  PROVE  CredInv' /\ Forward
<1>1. PICK c : c = upload[t]
  OBVIOUS
<1>2. PICK u : u = [c EXCEPT !.pc = "refresh", !.asked = credGen + 1]
  OBVIOUS
<1>3. /\ c.pc = "put" /\ Go(t, u) /\ TryOK(c) /\ Ask(t) /\ sts' = [sts EXCEPT !.sess = "none"]
      /\ UNCHANGED <<holder, applying>> /\ t \in Refresher /\ rpc[t].pc = "idle"
  BY <1>1, <1>2 DEF FirstDenied, CredInv, UploadOK, Refresher
<1>4. /\ DOMAIN rpc' = Refresher /\ \A v \in Refresher : v # t => rpc'[v] = rpc[v]
      /\ credGen' \in Nat /\ credGen' = credGen + 1 /\ credGen <= credGen' /\ sts.gen <= credGen'
      /\ CallOK(rpc'[t]) /\ rpc'[t].pc = "asked" /\ rpc'[t].gen = credGen' /\ applying # t
  BY <1>3, AskStep
<1>5. TryOK(u) /\ u.pc = "refresh" /\ u.asked = credGen'
  BY <1>2, <1>3, <1>4, SMT DEF TryOK
<1>6. DOMAIN upload' = Task /\ upload'[t] = u /\ \A x \in Task : x # t => upload'[x] = upload[x]
  BY <1>3, OtherUploads DEF Go, CredInv
<1>7. PairOK(sts') /\ sts'.gen = sts.gen /\ sts'.sess = "none"
  BY <1>3, SMT DEF CredInv, StoresOK, PairOK
<1>8. sts.gen \in Nat /\ holder.gen \in Nat
  BY DEF CredInv, StoresOK, PairOK
<1>9. sts.gen <= sts'.gen /\ holder.gen <= holder'.gen /\ credGen' <= credGen'
  BY <1>3, <1>4, <1>7, <1>8, SMT
<1>10. StoresOK'
  BY <1>3, <1>4, <1>7 DEF CredInv, StoresOK, SessionsAgree
<1>11. WriterOK(t)'
  BY <1>3, <1>4, <1>9 DEF WriterOK
<1>12. ASSUME NEW v \in Refresher, v # t PROVE WriterOK(v)'
  <2>1. /\ WriterOK(v) /\ StoresOK /\ rpc'[v] = rpc[v] /\ credGen <= credGen' /\ sts.gen <= sts'.gen
        /\ applying' = applying /\ sts'.gen = sts.gen /\ holder' = holder
        /\ sts'.sess \in {sts.sess, "none"}
    BY <1>3, <1>4, <1>7, <1>9, <1>12 DEF CredInv
  <2> QED BY <2>1, <1>10, WriterKept
<1>13. UploadOK(t)'
  BY <1>4, <1>5, <1>6 DEF UploadOK
<1>14. ASSUME NEW x \in Task, x # t PROVE UploadOK(x)'
  <2>1. x \in Refresher
    BY DEF Refresher
  <2> QED BY <2>1, <1>4, <1>6, <1>9, <1>10, <1>14, UploadKept DEF CredInv
<1>15. (\A v \in Refresher : WriterOK(v)') /\ (\A x \in Task : UploadOK(x)')
  BY <1>11, <1>12, <1>13, <1>14
<1> QED BY <1>3, <1>4, <1>6, <1>10, <1>15 DEF CredInv, Forward

LEMMA RefreshReturnsStep ==
  ASSUME CredInv, NEW t \in Task, RefreshReturns(t)
  PROVE  CredInv' /\ Forward
<1>1. PICK c : c = upload[t]
  OBVIOUS
<1>2. PICK u : u = [c EXCEPT !.pc = "read", !.before = holder.gen]
  OBVIOUS
<1>3. /\ rpc[t].pc = "applied" /\ Go(t, u) /\ TryOK(c) /\ rpc' = [rpc EXCEPT ![t] = NoRpc]
      /\ applying = "nobody" /\ UNCHANGED <<credGen, sts, holder, applying>>
      /\ t \in Refresher /\ DOMAIN rpc = Refresher
  BY <1>1, <1>2 DEF RefreshReturns, CredInv, UploadOK, Refresher
<1>4. applying # t /\ rpc[t].gen <= sts.gen /\ holder.gen = sts.gen /\ c.asked = rpc[t].gen
  BY <1>1, <1>3 DEF CredInv, WriterOK, UploadOK, StoresOK, SessionsAgree
<1>5. c.asked <= holder.gen
  BY <1>4
<1>6. TryOK(u) /\ u.pc = "read" /\ u.asked = c.asked
  BY <1>2, <1>3, SMT DEF TryOK
<1>7. DOMAIN upload' = Task /\ upload'[t] = u /\ \A x \in Task : x # t => upload'[x] = upload[x]
  BY <1>3, OtherUploads DEF Go, CredInv
<1>8. DOMAIN rpc' = Refresher /\ rpc'[t] = NoRpc /\ \A v \in Refresher : v # t => rpc'[v] = rpc[v]
  BY <1>3, OtherCalls
<1>9. UploadOK(t)'
  BY <1>3, <1>5, <1>6, <1>7, <1>8, NoRpcFields DEF UploadOK
<1>10. credGen \in Nat /\ 0 <= credGen
  <2>1. credGen \in Nat
    BY DEF CredInv, StoresOK
  <2> QED BY <2>1, SMT
<1> QED BY <1>3, <1>4, <1>7, <1>8, <1>9, <1>10, NoRpcFields, CallOnly

-----------------------------------------------------------------------------
LEMMA CredInitInv == CredInit => CredInv
<1> SUFFICES ASSUME CredInit PROVE CredInv
  OBVIOUS
<1>1. PairOK(Nothing) /\ Nothing.gen = 0 /\ 0 <= 0 /\ 0 \in Nat
  BY SMT DEF Nothing, PairOK
<1>2. StoresOK
  BY <1>1 DEF CredInit, StoresOK, SessionsAgree
<1>3. ASSUME NEW w \in Refresher PROVE WriterOK(w)
  <2>1. rpc[w] = NoRpc /\ applying # w
    BY CredAssumption DEF CredInit, Refresher
  <2> QED BY <2>1, <1>1, NoRpcFields DEF WriterOK, CredInit
<1>4. ASSUME NEW t \in Task PROVE UploadOK(t)
  <2>1. rpc[t] = NoRpc /\ upload[t] = NoUpload
    BY DEF CredInit, Refresher
  <2> QED BY <2>1, NoRpcFields, NoUploadFields DEF UploadOK
<1> QED BY <1>2, <1>3, <1>4 DEF CredInv, CredInit

LEMMA CredNextInv == CredInv /\ [CredNext]_credVars => CredInv' /\ Forward
<1> SUFFICES ASSUME CredInv, [CredNext]_credVars PROVE CredInv' /\ Forward
  OBVIOUS
<1>1. CASE EditRules \/ PushLists \/ PushSends \/ PushFails
  <2>1. UNCHANGED <<credGen, rpc, sts, holder, applying, upload>>
    BY <1>1 DEF EditRules, PushLists, PushSends, PushFails
  <2> QED BY <2>1, CredSame
<1>2. CASE ReceivePush
  BY <1>2, ReceiveStep
<1>3. CASE TickerAsks
  BY <1>3, TickerAsksStep
<1>4. CASE TickerEnds
  BY <1>4, TickerEndsStep
<1>5. ASSUME NEW w \in Refresher, Writer(w) PROVE CredInv' /\ Forward
  BY <1>5, MintsStep, ApplyStep, PublishStep, RefreshFailsStep DEF Writer
<1>6. ASSUME NEW t \in Task, UploadStarts(t) \/ Attempt(t) PROVE CredInv' /\ Forward
  BY <1>6, UploadStartsStep, AttemptReadsStep, UploadEndsStep, FirstDeniedStep,
     RefreshReturnsStep, SecondDeniedStep, ThirdDeniedStep DEF Attempt
<1>7. CASE UNCHANGED credVars
  <2>1. UNCHANGED <<credGen, rpc, sts, holder, applying, upload>>
    BY <1>7 DEF credVars
  <2> QED BY <2>1, CredSame
<1> QED BY <1>1, <1>2, <1>3, <1>4, <1>5, <1>6, <1>7 DEF CredNext

LEMMA CredInvVerdict == CredInv => SessionsAgree /\ VerdictOnRefreshed
<1> SUFFICES ASSUME CredInv PROVE SessionsAgree /\ VerdictOnRefreshed
  OBVIOUS
<1>1. SessionsAgree
  BY DEF CredInv, StoresOK
<1>2. ASSUME NEW t \in Task, upload[t].pc = "terminal" PROVE upload[t].used >= upload[t].asked
  <2>1. upload[t].used \in Nat /\ upload[t].asked \in Nat /\ upload[t].asked <= upload[t].used
    BY <1>2 DEF CredInv, UploadOK, TryOK
  <2> QED BY <2>1, SMT
<1> QED BY <1>1, <1>2 DEF VerdictOnRefreshed

\* For every set of uploads and every bound on pushes: outside a publication the session
\* store and the uploader hold one generation, what an upload uses only moves forward
\* however late a response arrives, and a file is given up only on a session that is no
\* older than the refresh its own denial asked for.
THEOREM SessionsOnlyAdvance == CredSpec => []SessionsAgree /\ []VerdictOnRefreshed /\ NewestStays
<1>1. CredInv /\ [CredNext]_credVars => CredInv' /\ [Forward]_credVars
  BY CredNextInv
<1> QED BY <1>1, CredInitInv, CredInvVerdict, PTL DEF CredSpec, NewestStays, Forward
=============================================================================
