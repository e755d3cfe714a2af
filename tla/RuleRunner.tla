----------------------------- MODULE RuleRunner -----------------------------
(***************************************************************************)
(* How the agent runs its collection rules: the message handler that       *)
(* applies, replaces and stops rules (applyRule, stopRule and              *)
(* applyRulesSnapshot in agent/cmd/agent/main.go), the cron scheduler      *)
(* (agent/internal/scheduler) and the directory walks and watch loops that *)
(* submit files to the upload queue.                                       *)
(*                                                                         *)
(* One goroutine handles server messages, one after the other; what it     *)
(* still has to do for the current message is the sequence script.  Cron   *)
(* fires every walk in a goroutine of its own and never waits for the      *)
(* previous one, and cancelling a rule does not stop a walk: an ended     *)
(* walk goes on over the tree and only its queue calls fail.  A version is *)
(* one application of a rule and stands for the context made for it.       *)
(***************************************************************************)
EXTENDS Naturals, Sequences, FiniteSets

CONSTANTS
    Rule,        \* rule identifiers
    Variant,     \* the shapes a rule is pushed in
    NFile,       \* files 1..NFile, in the order WalkDir visits them
    MaxVersion,  \* bound: how many times rules are applied
    MaxStamp,    \* bound: how many times a file is rewritten
    MaxWalk      \* bound: cron walks running at once

ASSUME RunAssumption ==
    /\ NFile \in Nat /\ MaxVersion \in Nat /\ MaxStamp \in Nat /\ MaxWalk \in Nat
    /\ \A x \in Variant : x.rule \in Rule

VARIABLES
    script,     \* what the message handler has left to do
    shape,      \* version -> the pushed rule
    handles,    \* rule -> version in ruleHandles, 0 when absent
    entries,    \* rule -> version in Scheduler.entries, 0 when absent
    cron,       \* versions in the table of the cron library
    ended,  \* versions whose context is ended
    walks,      \* slot -> the walk it runs; slot 0 is the handler's own
    loops,      \* versions whose watch loop runs
    watching,   \* version -> files its watcher has yet to report
    stamp,      \* file -> size and modification time
    tasks,      \* upload tasks pending or running
    processed,  \* rule -> file -> the stamp of its last upload
    uploaded,   \* (history) rule, file and stamp of every upload
    process     \* "up", "stopping", "down"

runVars == <<script, shape, handles, entries, cron, ended, walks,
             loops, watching, stamp, tasks, processed, uploaded, process>>

Files == 1..NFile
Versions == 1..MaxVersion
Slots == 0..MaxWalk
Applied == DOMAIN shape

\* An idle slot; and a walk of version v that visits file at next.  seen is
\* the stamp read from the directory once the file passed IsProcessed.
NoWalk == [ver |-> 0, at |-> 0, seen |-> 0]
WalkOf(v) == [ver |-> v, at |-> 1, seen |-> 0]

RunInit ==
    /\ script = <<>>
    /\ shape = <<>>
    /\ handles = [r \in Rule |-> 0]
    /\ entries = [r \in Rule |-> 0]
    /\ cron = {}
    /\ ended = {}
    /\ walks = [s \in Slots |-> NoWalk]
    /\ loops = {}
    /\ watching = [v \in Versions |-> {}]
    /\ stamp = [f \in Files |-> 1]
    /\ tasks = {}
    /\ processed = [r \in Rule |-> [f \in Files |-> 0]]
    /\ uploaded = {}
    /\ process = "up"

-----------------------------------------------------------------------------
(* Messages of the control plane.                                          *)

\* The two halves of stopRule.
StopOps(r) == <<[op |-> "remove", rule |-> r, ver |-> 0],
                [op |-> "cancel", rule |-> r, ver |-> 0]>>

\* applyRule: stop what runs under the identifier, then start the version.
ApplyOps(r, v) == StopOps(r) \o <<[op |-> "start", rule |-> r, ver |-> v]>>

NextVersion == Len(shape) + 1

\* A pushed rule.  A dry run is no application and is left out here.
PushRule ==
    /\ process = "up" /\ script = <<>> /\ NextVersion \in Versions
    /\ \E x \in Variant :
         /\ shape' = Append(shape, x)
         /\ script' = ApplyOps(x.rule, NextVersion)
    /\ UNCHANGED <<handles, entries, cron, ended, walks, loops, watching, stamp,
                   tasks, processed, uploaded, process>>

\* A CancelRule command.
CancelRule ==
    /\ process = "up" /\ script = <<>>
    /\ \E r \in Rule : script' = StopOps(r)
    /\ UNCHANGED <<shape, handles, entries, cron, ended, walks, loops, watching,
                   stamp, tasks, processed, uploaded, process>>

\* stopRulesOutsideSync: the rules held but absent from the set are still to stop.
StopEach(R) == IF R = {} THEN <<>> ELSE <<[op |-> "outside", rules |-> R]>>

\* applyRulesSnapshot with the complete set of rules: here at most one.
RulesSync ==
    /\ process = "up" /\ script = <<>>
    /\ LET held == {r \in Rule : handles[r] # 0} IN
       \/ /\ script' = StopEach(held)
          /\ UNCHANGED shape
       \/ /\ NextVersion \in Versions
          /\ \E x \in Variant :
               /\ shape' = Append(shape, x)
               /\ script' = StopEach(held \ {x.rule}) \o ApplyOps(x.rule, NextVersion)
    /\ UNCHANGED <<handles, entries, cron, ended, walks, loops, watching, stamp,
                   tasks, processed, uploaded, process>>

-----------------------------------------------------------------------------
(* The handler's steps.                                                    *)

NextOp(o) == script # <<>> /\ Head(script).op = o
Op == Head(script)

\* The loop of stopRulesOutsideSync, in the order of a Go map: any.
StopOutside ==
    /\ NextOp("outside")
    /\ \E r \in Op.rules :
         script' = StopOps(r) \o StopEach(Op.rules \ {r}) \o Tail(script)
    /\ UNCHANGED <<shape, handles, entries, cron, ended, walks, loops, watching, stamp,
                   tasks, processed, uploaded, process>>

\* Scheduler.RemoveRule.
RemoveRule ==
    /\ NextOp("remove")
    /\ cron' = cron \ {entries[Op.rule]}
    /\ entries' = [entries EXCEPT ![Op.rule] = 0]
    /\ script' = Tail(script)
    /\ UNCHANGED <<shape, handles, ended, walks, loops, watching, stamp, tasks,
                   processed, uploaded, process>>

\* The second half of stopRule: cancel the context, forget the handle.
CancelHandle ==
    /\ NextOp("cancel")
    /\ ended' = ended \cup ({handles[Op.rule]} \ {0})
    /\ handles' = [handles EXCEPT ![Op.rule] = 0]
    /\ script' = Tail(script)
    /\ UNCHANGED <<shape, entries, cron, walks, loops, watching, stamp, tasks,
                   processed, uploaded, process>>

\* The context of version v is done: ended, or the process's context is.
Stopped(v) == v \in ended \/ process # "up"

\* The rest of applyRule: nothing for a paused rule, a watch goroutine, a cron
\* rule handed to AddRule, and nothing for an unknown mode.
StartRule ==
    /\ NextOp("start")
    /\ LET v == Op.ver
           x == shape[v]
           add == [op |-> "add", rule |-> Op.rule, ver |-> v]
           walk == [op |-> "walk", rule |-> Op.rule, ver |-> v]
       IN  /\ handles' = IF x.enabled /\ x.mode \in {"watch", "cron"}
                         THEN [handles EXCEPT ![Op.rule] = v] ELSE handles
           /\ loops' = IF x.enabled /\ x.mode = "watch"
                       THEN loops \cup {v} ELSE loops
           /\ watching' = IF x.enabled /\ x.mode = "watch"
                          THEN [watching EXCEPT ![v] = Files] ELSE watching
           /\ ended' = IF x.enabled /\ x.mode \notin {"watch", "cron"}
                           THEN ended \cup {v} ELSE ended
           /\ script' = (IF x.enabled /\ x.mode = "cron"
                         THEN (IF x.once THEN <<walk, add>> ELSE <<add>>)
                         ELSE <<>>) \o Tail(script)
           /\ walks' = IF x.enabled /\ x.mode = "cron" /\ x.once
                       THEN [walks EXCEPT ![0] = WalkOf(v)] ELSE walks
    /\ UNCHANGED <<shape, entries, cron, stamp, tasks, processed, uploaded, process>>

\* AddRule calls the callback itself when RunOnceOnStart is set: the handler
\* waits for the whole walk.
RunOnceEnds ==
    /\ NextOp("walk") /\ walks[0] = NoWalk
    /\ script' = Tail(script)
    /\ UNCHANGED <<shape, handles, entries, cron, ended, walks, loops, watching,
                   stamp, tasks, processed, uploaded, process>>

\* The rest of AddRule: an invalid expression is an error that only logs; an
\* empty one makes an entry without a job.
AddRule ==
    /\ NextOp("add")
    /\ LET v == Op.ver
           expr == shape[v].expr
       IN  /\ cron' = IF expr = "valid" THEN cron \cup {v} ELSE cron
           /\ entries' = IF expr = "bad" THEN entries
                         ELSE [entries EXCEPT ![Op.rule] = v]
    /\ script' = Tail(script)
    /\ UNCHANGED <<shape, handles, ended, walks, loops, watching, stamp, tasks,
                   processed, uploaded, process>>

CommandHandler == StopOutside \/ RemoveRule \/ CancelHandle \/ StartRule \/ RunOnceEnds \/ AddRule

-----------------------------------------------------------------------------
(* Walks and watch loops.                                                  *)

\* Cron starts a walk whether or not the previous one has ended.
Fires(v) ==
    /\ process \in {"up", "stopping"} /\ v \in cron
    /\ \E s \in Slots \ {0} :
         /\ walks[s] = NoWalk
         /\ \A u \in Slots \ {0} : walks[u] = NoWalk => s <= u
         /\ walks' = [walks EXCEPT ![s] = WalkOf(v)]
    /\ UNCHANGED <<script, shape, handles, entries, cron, ended, loops, watching,
                   stamp, tasks, processed, uploaded, process>>

\* Mutant: a path once uploaded counts as processed whatever it holds now.
IsProcessedByPath(v, f, t) == ~Stopped(v) /\ processed[shape[v].rule][f] # 0

\* IsProcessed under the version's context: a cancelled one errs, which
\* submitFile logs and takes for "not processed".
IsProcessed(v, f, t) == ~Stopped(v) /\ processed[shape[v].rule][f] = t

\* buildStoragePath refuses the file when the template cannot be resolved.
Resolves(v) == shape[v].template

\* Mutant: the queue call does not carry the rule's context.
EnqueueDetached(v, f, t) ==
    IF \E k \in tasks : k.rule = shape[v].rule /\ k.file = f /\ k.stamp = t
    THEN tasks
    ELSE tasks \cup {[rule |-> shape[v].rule, file |-> f, stamp |-> t, ver |-> v]}

\* EnqueueIfNoActive: one statement, under the version's context.
EnqueueIfNoActive(v, f, t) ==
    IF Stopped(v) \/ \E k \in tasks : k.rule = shape[v].rule /\ k.file = f
                                   /\ k.stamp = t
    THEN tasks
    ELSE tasks \cup {[rule |-> shape[v].rule, file |-> f, stamp |-> t, ver |-> v]}

\* The next position of a walk, or its end.
Onward(w) == IF w.at = NFile THEN NoWalk
             ELSE [w EXCEPT !.at = @ + 1, !.seen = 0]

\* submitFile up to the queue call: unmatched, processed and unresolvable
\* files are passed over.
WalkChecks(s) ==
    LET w == walks[s]
        t == stamp[w.at]
    IN  /\ process # "down" /\ w # NoWalk /\ w.seen = 0
        /\ walks' = [walks EXCEPT ![s] =
             IF w.at \notin shape[w.ver].match \/ IsProcessed(w.ver, w.at, t)
                \/ ~Resolves(w.ver)
             THEN Onward(w) ELSE [w EXCEPT !.seen = t]]
        /\ UNCHANGED <<script, shape, handles, entries, cron, ended,
                       loops, watching, stamp, tasks, processed, uploaded, process>>

\* submitFile's Submit with the stamp read before.
WalkSubmits(s) ==
    LET w == walks[s]
    IN  /\ process # "down" /\ w # NoWalk /\ w.seen # 0
        /\ tasks' = EnqueueIfNoActive(w.ver, w.at, w.seen)
        /\ walks' = [walks EXCEPT ![s] = Onward(w)]
        /\ UNCHANGED <<script, shape, handles, entries, cron, ended,
                       loops, watching, stamp, processed, uploaded, process>>

\* runWatcher receives the event of file f.  The select may take an event
\* even when the context is done as well.
WatchSubmits(v, f) ==
    /\ process # "down" /\ v \in loops /\ f \in watching[v]
    /\ watching' = [watching EXCEPT ![v] = @ \ {f}]
    /\ tasks' = IF f \in shape[v].match /\ Resolves(v)
                   /\ ~IsProcessed(v, f, stamp[f])
                THEN EnqueueIfNoActive(v, f, stamp[f]) ELSE tasks
    /\ UNCHANGED <<script, shape, handles, entries, cron, ended, walks,
                   loops, stamp, processed, uploaded, process>>

\* runWatcher returns when its context is done.
WatchEnds(v) ==
    /\ process # "down" /\ v \in loops /\ Stopped(v)
    /\ loops' = loops \ {v}
    /\ watching' = [watching EXCEPT ![v] = {}]
    /\ UNCHANGED <<script, shape, handles, entries, cron, ended, walks, stamp,
                   tasks, processed, uploaded, process>>

\* A program rewrites file f; every running watcher will report it (the
\* module Watcher has the detail).
Rewrite(f) ==
    /\ process = "up" /\ stamp[f] < MaxStamp
    /\ stamp' = [stamp EXCEPT ![f] = @ + 1]
    /\ watching' = [v \in Versions |->
                      IF v \in loops THEN watching[v] \cup {f} ELSE watching[v]]
    /\ UNCHANGED <<script, shape, handles, entries, cron, ended, walks,
                   loops, tasks, processed, uploaded, process>>

\* An upload worker completes a task (the module AgentQueue has the detail).
Complete ==
    /\ process = "up"
    /\ \E k \in tasks :
         /\ tasks' = tasks \ {k}
         /\ processed' = [processed EXCEPT ![k.rule][k.file] = k.stamp]
         /\ uploaded' = uploaded \cup {<<k.rule, k.file, k.stamp>>}
    /\ UNCHANGED <<script, shape, handles, entries, cron, ended, walks,
                   loops, watching, stamp, process>>

-----------------------------------------------------------------------------
(* Shutdown.                                                               *)

\* SIGTERM cancels the context all rule contexts derive from.
Terminate ==
    /\ process = "up" /\ process' = "stopping"
    /\ UNCHANGED <<script, shape, handles, entries, cron, ended, walks,
                   loops, watching, stamp, tasks, processed, uploaded>>

\* Scheduler.Stop: no further firing once it is called.
StopScheduler ==
    /\ process = "stopping" /\ process' = "draining"
    /\ UNCHANGED <<script, shape, handles, entries, cron, ended, walks,
                   loops, watching, stamp, tasks, processed, uploaded>>

\* ... and it waits for the walks that cron started, not for the handler.
Exit ==
    /\ process = "draining"
    /\ \A s \in Slots \ {0} : walks[s] = NoWalk
    /\ process' = "down"
    /\ UNCHANGED <<script, shape, handles, entries, cron, ended, walks,
                   loops, watching, stamp, tasks, processed, uploaded>>

RunNext ==
    \/ PushRule \/ CancelRule \/ RulesSync
    \/ process # "down" /\ CommandHandler
    \/ \E v \in Versions : Fires(v) \/ WatchEnds(v)
    \/ \E s \in Slots : WalkChecks(s) \/ WalkSubmits(s)
    \/ \E v \in Versions, f \in Files : WatchSubmits(v, f)
    \/ \E f \in Files : Rewrite(f)
    \/ Complete
    \/ Terminate \/ StopScheduler \/ Exit

RunSpec == RunInit /\ [][RunNext]_runVars

(* Properties.                                                             *)

RunTypeOK ==
    /\ shape \in Seq(Variant) /\ Len(shape) <= MaxVersion
    /\ handles \in [Rule -> 0..Len(shape)]
    /\ entries \in [Rule -> 0..Len(shape)]
    /\ cron \subseteq Applied /\ ended \subseteq Applied
    /\ \A s \in Slots : walks[s] = NoWalk \/ walks[s].ver \in Applied
    /\ \A v \in Versions : watching[v] \subseteq Files
    /\ \A k, l \in tasks : k # l => <<k.rule, k.file, k.stamp>>
                                      # <<l.rule, l.file, l.stamp>>
    /\ process \in {"up", "stopping", "draining", "down"}

\* Between two messages the cron library fires only rules the agent still
\* holds, under the version it holds: applyRule and stopRule leave no job of
\* a replaced or deleted rule behind.
NoLeakedJob ==
    script = <<>> => /\ cron \subseteq {handles[r] : r \in Rule}
                     /\ \A r \in Rule : entries[r] \in {0, handles[r]}

\* Once stopRule has cancelled a version, none of the walks and watch loops
\* still running for it adds a task to the queue.
CancelledAddsNothing ==
    [][\A k \in tasks' \ tasks : ~Stopped(k.ver)]_runVars

\* The version runs and its rule is one that can collect f.
Collects(r, v, f) ==
    /\ process = "up" /\ v \in Applied /\ handles[r] = v
    /\ shape[v].template /\ f \in shape[v].match
    /\ shape[v].mode = "watch" \/ shape[v].expr = "valid"

\* A file that matches a rule in force is queued or uploaded as it now is,
\* unless the rule is replaced first: overlapping walks, rewrites during a
\* walk and earlier versions still running lose no file.
FileCollected ==
    \A r \in Rule, v \in Versions, f \in Files :
        []<>(Collects(r, v, f) =>
            \/ <<r, f, stamp[f]>> \in uploaded
            \/ \E k \in tasks : k.rule = r /\ k.file = f /\ k.stamp = stamp[f])

\* Whatever ran for a cancelled version ends, and a terminated agent exits.
StoppedEnds ==
    /\ \A v \in Versions :
         <>[](v \in ended => \/ process = "down"
                             \/ v \notin loops /\ \A s \in Slots : walks[s].ver # v)
    /\ []<>(process # "stopping")

\* The goroutines are scheduled, cron keeps firing and the walk ends.
RunFair ==
    /\ WF_runVars(process # "down" /\ CommandHandler)
    /\ \A v \in Versions : WF_runVars(Fires(v)) /\ WF_runVars(WatchEnds(v))
    /\ \A s \in Slots : WF_runVars(WalkChecks(s) \/ WalkSubmits(s))
    /\ \A v \in Versions, f \in Files : WF_runVars(WatchSubmits(v, f))
    /\ WF_runVars(StopScheduler \/ Exit)

RunFairSpec == RunSpec /\ RunFair

\* A rule that was stopped or replaced is gone: no job is left in the scheduler, what
\* still runs for it adds nothing, and it ends.
RuleStops == []RunTypeOK /\ []NoLeakedJob /\ CancelledAddsNothing /\ StoppedEnds
=============================================================================
