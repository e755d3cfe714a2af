------------------------------ MODULE RuleSync ------------------------------
(***************************************************************************)
(* How one agent learns its collection rules: REST edits that write the    *)
(* database and then push or cancel a rule on the agent's stream, and the  *)
(* full snapshot that every new stream starts with.  The dispatcher orders *)
(* the two kinds of traffic with a lock entry per agent, which the end of  *)
(* a stream retires.                                                       *)
(*                                                                         *)
(* Edits of one rule follow one another; edits of different rules overlap. *)
(***************************************************************************)
EXTENDS Integers, Sequences, FiniteSetsExt

CONSTANTS
  Rule,
  Content,      \* what an active rule may say
  Off,          \* an inactive rule
  SizeOf,       \* the bytes of a rule in the snapshot
  Budget,       \* MaxRulesSnapshotBytes, also the gate of rule creation
  Stream,       \* Connect handlers that may run at the same time
  Entry,        \* lock entries
  None,         \* no stream, no entry, no rule
  Cap           \* capacity of a stream's send channel

ASSUME RuleSyncAssumption ==
  /\ Stream \subseteq Nat /\ Entry \subseteq Nat
  /\ None \notin Stream \cup Entry /\ None \notin Content \cup {Off} /\ Off \notin Content
  /\ SizeOf \in [Content \cup {Off} -> Nat] /\ Budget \in Nat /\ Cap \in Nat \ {0}

VARIABLES
  table,        \* collection_rules: content, Off, or None
  running,      \* ruleHandles of the agent: the content it runs
  current,      \* the registered stream
  sync,         \* the Connect handlers
  chan,         \* messages on the way to the agent, of the current stream
  entries,      \* agentLocks.entries of the agent
  lock,         \* every agentLockEntry
  edit,         \* the REST request that edits a rule
  lost,         \* the current stream dropped a message
  retiredInUse  \* an entry was retired while somebody used it (until all are idle again)

ruleVars == <<table, running, current, sync, chan, entries, lock, edit, lost, retiredInUse>>
lockVars == <<entries, lock>>
ghosts == <<lost, retiredInUse>>

NoSync == [pc |-> "free", entry |-> None, snap |-> [r \in Rule |-> None], degraded |-> FALSE]
NoLock == [users |-> 0, dead |-> FALSE, held |-> FALSE]
NoEdit == [pc |-> "idle", entry |-> None]

RuleInit ==
  /\ table = [r \in Rule |-> None] /\ running = [r \in Rule |-> None]
  /\ current = None /\ sync = [s \in Stream |-> NoSync] /\ chan = << >>
  /\ entries = None /\ lock = [e \in Entry |-> NoLock]
  /\ edit = [r \in Rule |-> NoEdit]
  /\ lost = FALSE /\ retiredInUse = FALSE

-----------------------------------------------------------------------------
(* agentLocks.                                                             *)

\* A new entry: nobody uses it.
NoUser(e) == e # entries /\ lock[e].users = 0
FreshEntry(e) == NoUser(e) /\ \A f \in Entry : NoUser(f) => e <= f

Acquire(e) ==
  /\ IF entries = None \/ lock[entries].dead THEN FreshEntry(e) ELSE e = entries
  /\ entries' = e
  /\ lock' = [lock EXCEPT ![e] = IF e = entries THEN [lock[e] EXCEPT !.users = lock[e].users + 1]
                                                ELSE [NoLock EXCEPT !.users = 1]]

Release(e) ==
  LET idle == lock[e].users = 1 IN
  /\ entries' = IF idle /\ lock[e].dead /\ entries = e THEN None ELSE entries
  /\ lock' = [lock EXCEPT ![e] = IF idle /\ lock[e].dead THEN NoLock
                                 ELSE [lock[e] EXCEPT !.users = lock[e].users - 1, !.held = FALSE]]

\* retire, by agent id.
Retire ==
  IF entries = None THEN UNCHANGED <<entries, lock, retiredInUse>>
  ELSE /\ entries' = IF lock[entries].users = 0 THEN None ELSE entries
       /\ lock' = [lock EXCEPT ![entries] = IF @.users = 0 THEN NoLock ELSE [@ EXCEPT !.dead = TRUE]]
       /\ retiredInUse' = (retiredInUse \/ lock[entries].users > 0)

\* Registry.SendIfRoom: to the registered stream, if its channel has room.
CanSend == current # None /\ Len(chan) < Cap
SendIfRoom(m) == chan' = IF CanSend THEN Append(chan, m) ELSE chan

-----------------------------------------------------------------------------
(* The REST handlers.                                                      *)

Size(rules) == MapThenSumSet(LAMBDA r : IF rules[r] = None THEN 0 ELSE SizeOf[rules[r]], Rule)

\* CreateRule, UpdateRule and DeleteRule up to the database write.  Only creation
\* checks the size of the snapshot.
EditWrites(r) ==
  /\ edit[r].pc = "idle"
  /\ \E v \in Content \cup {Off, None} :
       /\ v # table[r]
       /\ table[r] = None => Size(table) + SizeOf[v] <= Budget
       /\ table' = [table EXCEPT ![r] = v]
  /\ edit' = [edit EXCEPT ![r].pc = "check"]
  /\ UNCHANGED <<running, current, sync, chan, lockVars, ghosts>>

\* IsOnline: an agent without a stream will have the rule from its snapshot.
EditChecks(r) ==
  /\ edit[r].pc = "check"
  /\ edit' = [edit EXCEPT ![r].pc = IF current = None THEN "idle" ELSE "acquire"]
  /\ UNCHANGED <<table, running, current, sync, chan, lockVars, ghosts>>

EditAcquires(r) ==
  /\ edit[r].pc = "acquire"
  /\ \E e \in Entry : Acquire(e) /\ edit' = [edit EXCEPT ![r] = [pc |-> "send", entry |-> e]]
  /\ UNCHANGED <<table, running, current, sync, chan, ghosts>>

\* e.mu is held for the send alone, so taking and leaving it are one step.
EditSendsAtOnce(r) ==
  /\ edit[r].pc = "send"
  /\ SendIfRoom([kind |-> "rule", rule |-> r, to |-> table[r]])
  /\ lost' = (lost \/ (current # None /\ ~CanSend))
  /\ Release(edit[r].entry)
  /\ edit' = [edit EXCEPT ![r] = NoEdit]
  /\ UNCHANGED <<table, running, current, sync, retiredInUse>>

\* DispatchRule for an active rule, DispatchRuleCancel for the others.
EditSends(r) ==
  /\ edit[r].pc = "send" /\ ~lock[edit[r].entry].held
  /\ SendIfRoom([kind |-> "rule", rule |-> r, to |-> table[r]])
  /\ lost' = (lost \/ (current # None /\ ~CanSend))
  /\ Release(edit[r].entry)
  /\ edit' = [edit EXCEPT ![r] = NoEdit]
  /\ UNCHANGED <<table, running, current, sync, retiredInUse>>

\* The dispatch lock or the bucket lookup fails: the edit is not sent.
EditNotSent(r) ==
  /\ edit[r].pc = "acquire"
  /\ edit' = [edit EXCEPT ![r] = NoEdit]
  /\ lost' = (lost \/ current # None)
  /\ UNCHANGED <<table, running, current, sync, chan, lockVars, retiredInUse>>

-----------------------------------------------------------------------------
(* Connect.                                                                *)

\* Register: the agent reads the new stream, and what the old one held is gone.
Connect(s) ==
  /\ sync[s].pc = "free" /\ \A t \in Stream : sync[t].pc = "free" => s <= t
  /\ sync' = [sync EXCEPT ![s].pc = "registered"]
  /\ current' = s /\ chan' = << >> /\ lost' = FALSE
  /\ retiredInUse' = (retiredInUse /\ \E e \in Entry : lock[e].users > 0)
  /\ UNCHANGED <<table, running, lockVars, edit>>

SyncAcquires(s) ==
  /\ sync[s].pc = "registered"
  /\ \E e \in Entry : Acquire(e) /\ sync' = [sync EXCEPT ![s].pc = "acquired", ![s].entry = e]
  /\ UNCHANGED <<table, running, current, chan, edit, ghosts>>

\* e.mu.Lock, then ListCollectionRulesByAgent.  A displaced handler is cancelled.
SyncLists(s) ==
  LET e == sync[s].entry IN
  /\ sync[s].pc = "acquired" /\ ~lock[e].held /\ current = s
  /\ lock' = [lock EXCEPT ![e].held = TRUE]
  /\ sync' = [sync EXCEPT ![s].pc = "listed", ![s].snap = table]
  /\ UNCHANGED <<table, running, current, chan, entries, edit, ghosts>>

\* A snapshot above the budget is not sent; one that cannot be sent ends the stream.
\* SendIfRoom finds the stream by agent id: a displaced handler reaches the newer stream.
SyncSends(s) ==
  LET degraded == Size(sync[s].snap) > Budget IN
  /\ sync[s].pc = "listed"
  /\ IF degraded THEN UNCHANGED chan ELSE SendIfRoom([kind |-> "snapshot", rules |-> sync[s].snap])
  /\ Release(sync[s].entry)
  /\ sync' = [sync EXCEPT ![s] = [NoSync EXCEPT !.degraded = degraded,
                !.pc = IF degraded \/ CanSend THEN "live" ELSE "returned"]]
  /\ UNCHANGED <<table, running, current, edit, ghosts>>

\* The list or a bucket lookup fails, as everything does under a cancelled context.
SyncFails(s) ==
  /\ \/ sync[s].pc = "listed"
     \/ sync[s].pc = "acquired" /\ ~lock[sync[s].entry].held
  /\ Release(sync[s].entry)
  /\ sync' = [sync EXCEPT ![s] = [NoSync EXCEPT !.pc = "returned"]]
  /\ UNCHANGED <<table, running, current, chan, edit, ghosts>>

StreamEnds(s) ==
  /\ sync[s].pc = "live"
  /\ sync' = [sync EXCEPT ![s] = [NoSync EXCEPT !.pc = "returned"]]
  /\ UNCHANGED <<table, running, current, chan, lockVars, edit, ghosts>>

CleanUnregister(s) ==
  /\ sync[s].pc = "returned"
  /\ IF current = s
     THEN /\ current' = None /\ chan' = << >>
          /\ sync' = [sync EXCEPT ![s] = [NoSync EXCEPT !.pc = "release"]]
     ELSE UNCHANGED <<current, chan>> /\ sync' = [sync EXCEPT ![s] = NoSync]
  /\ UNCHANGED <<table, running, lockVars, edit, ghosts>>

ReleaseAgent(s) ==
  /\ sync[s].pc = "release" /\ Retire
  /\ sync' = [sync EXCEPT ![s] = NoSync]
  /\ UNCHANGED <<table, running, current, chan, edit, lost>>

-----------------------------------------------------------------------------
(* The agent.                                                              *)

Runs(v) == IF v \in Content THEN v ELSE None

\* applyRulesSnapshot: stop what the snapshot does not name, apply what it does.
ApplySnapshot(rules) == [r \in Rule |-> Runs(rules[r])]

\* applyRule, stopRule and applyRulesSnapshot, in the order of the stream.
AgentApplies ==
  /\ chan # << >>
  /\ LET m == Head(chan) IN
       running' = IF m.kind = "snapshot" THEN ApplySnapshot(m.rules)
                                         ELSE [running EXCEPT ![m.rule] = Runs(m.to)]
  /\ chan' = Tail(chan)
  /\ UNCHANGED <<table, current, sync, lockVars, edit, ghosts>>

\* A restarted agent runs nothing until it connects.
AgentRestarts ==
  /\ current = None
  /\ running' = [r \in Rule |-> None] /\ running # running'
  /\ UNCHANGED <<table, current, sync, chan, lockVars, edit, ghosts>>

RuleNext ==
  \/ \E r \in Rule : \/ EditWrites(r) \/ EditChecks(r) \/ EditAcquires(r)
                     \/ EditSends(r) \/ EditNotSent(r)
  \/ \E s \in Stream : \/ Connect(s) \/ SyncAcquires(s) \/ SyncLists(s) \/ SyncSends(s)
                       \/ SyncFails(s) \/ StreamEnds(s) \/ CleanUnregister(s) \/ ReleaseAgent(s)
  \/ AgentApplies \/ AgentRestarts

RuleSpec == RuleInit /\ [][RuleNext]_ruleVars

-----------------------------------------------------------------------------
(* Properties.                                                             *)

Users(e) == Cardinality({r \in Rule : edit[r].entry = e})
            + Cardinality({s \in Stream : sync[s].entry = e})

\* An entry counts its users exactly, so it is never reclaimed under one of them.
RuleTypeOK ==
  /\ table \in [Rule -> Content \cup {Off, None}]
  /\ running \in [Rule -> Content \cup {None}]
  /\ Len(chan) <= Cap /\ (current = None => chan = << >>)
  /\ \A e \in Entry : lock[e].users = Users(e)
  /\ \A e \in Entry : lock[e].users > 0 => entries = e \/ lock[e].dead

\* The current stream has had its snapshot, and the agent has taken in all it was sent.
Synced == current # None /\ sync[current].pc = "live" /\ ~sync[current].degraded
Settled == Synced /\ chan = << >>

\* Once a stream is synchronised and nothing is on its way, the agent runs what the
\* database says of every rule that is not being edited, whatever edits overlapped the
\* snapshot and whatever displaced streams still do.  (Excepted: a message the stream
\* dropped, and an entry retired in use.)
RulesAgree ==
  Settled /\ ~lost /\ ~retiredInUse =>
    \A r \in Rule : edit[r].pc = "idle" => running[r] = Runs(table[r])

\* Lock entries are counted exactly, and what they are for holds: once all is quiet
\* the agent runs the rules of the database.
RulesInForce == RuleTypeOK /\ RulesAgree
=============================================================================
