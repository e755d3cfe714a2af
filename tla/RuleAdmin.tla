----------------------------- MODULE RuleAdmin ------------------------------
(***************************************************************************)
(* The REST handlers for collection rules: create, enable or disable, full *)
(* edit and delete, as several administrators call them at once.  A create *)
(* lists, checks and inserts; a delete reads, deletes and cancels; every   *)
(* change ends with a push or a cancel for the agent, which RuleSync takes *)
(* from there.  A rule that has uploaded something can no longer be        *)
(* deleted: files and logs refer to it.                                    *)
(***************************************************************************)
EXTENDS Naturals, FiniteSetsExt

CONSTANTS
  RuleKey,            \* rule ids, numbered: a new rule gets one never used before
  RuleAgent,          \* agents
  RuleCall,           \* requests that may be handled at the same time
  RuleBody,           \* request bodies: append, mode, size, enabled
  TailSpelling,       \* the spellings of append_mode=tail: any case, any blanks
  MaxRulesPerAgent,
  SnapshotBytes       \* MaxRulesSnapshotBytes

ASSUME AdmAssumption ==
  /\ RuleKey \subseteq Nat /\ MaxRulesPerAgent \in Nat \ {0} /\ SnapshotBytes \in Nat
  /\ "none" \notin RuleAgent /\ IsFiniteSet(RuleCall)
  /\ \A b \in RuleBody : b.size \in Nat /\ b.enabled \in BOOLEAN

VARIABLES
  rules,      \* collection_rules
  calls,      \* the handlers
  order,      \* the latest dispatch: to whom, which rule, push or cancel
  owner,      \* the agent each rule was created for (history)
  off,        \* rules that were disabled or deleted at some time (history)
  referred    \* rules with uploads

admVars == <<rules, calls, order, owner, off, referred>>

NoRule == [agent |-> "none"]
NoRuleCall == [pc |-> "idle"]

AdmInit ==
  /\ rules = [r \in RuleKey |-> NoRule] /\ calls = [c \in RuleCall |-> NoRuleCall]
  /\ order = NoRuleCall /\ owner = [r \in RuleKey |-> "none"] /\ off = {} /\ referred = {}

-----------------------------------------------------------------------------
(* The queries.                                                            *)

ListCollectionRulesByAgent(a) == {r \in RuleKey : rules[r].agent = a}

InScopeOfRow(r, a) == rules[r] # NoRule

\* Scoped by agent: another agent's rule is not found.
InScope(r, a) == rules[r].agent = a

RowOf(a, b) == [agent |-> a, append |-> b.append, size |-> b.size,
                status |-> IF b.enabled THEN "active" ELSE "inactive"]

CreateCollectionRule(r, a, b) ==
  /\ rules' = [rules EXCEPT ![r] = RowOf(a, b)]
  /\ owner' = [owner EXCEPT ![r] = a]
  /\ off' = IF b.enabled THEN off ELSE off \cup {r}

UpdateCollectionRule(r, b) ==
  /\ rules' = [rules EXCEPT ![r] = RowOf(@.agent, b)]
  /\ off' = IF b.enabled THEN off ELSE off \cup {r}

UpdateCollectionRuleStatus(r, s) ==
  /\ rules' = [rules EXCEPT ![r].status = s]
  /\ off' = IF s = "active" THEN off ELSE off \cup {r}

DeleteCollectionRule(r) ==
  /\ rules' = [rules EXCEPT ![r] = NoRule] /\ off' = off \cup {r}

-----------------------------------------------------------------------------
(* The checks.                                                             *)

RejectTailAppendMode(b) == b.append \in TailSpelling

RoomForRule(a) == Cardinality(ListCollectionRulesByAgent(a)) < MaxRulesPerAgent

\* The snapshot with the new rule in it.
EstimatedRuleBytes(a, b) ==
  b.size + MapThenSumSet(LAMBDA r : rules[r].size, ListCollectionRulesByAgent(a))

-----------------------------------------------------------------------------
(* CreateRule.                                                             *)

\* The count, the bytes and the append mode, in that order; a refused request ends.
CreateChecks(c) ==
  /\ calls[c].pc = "idle"
  /\ \E a \in RuleAgent, b \in RuleBody :
       /\ RoomForRule(a)
       /\ EstimatedRuleBytes(a, b) <= SnapshotBytes
       /\ ~RejectTailAppendMode(b)
       /\ calls' = [calls EXCEPT ![c] = [pc |-> "insert", agent |-> a, body |-> b]]
  /\ UNCHANGED <<rules, order, owner, off, referred>>

NewKey(r) == owner[r] = "none" /\ \A k \in RuleKey : owner[k] = "none" => r <= k

\* The mode column is an enumeration, which refuses what the handler let pass.
CreateInserts(c) ==
  /\ calls[c].pc = "insert" /\ calls[c].body.mode \in {"watch", "scheduled"}
  /\ \E r \in RuleKey :
       /\ NewKey(r)
       /\ CreateCollectionRule(r, calls[c].agent, calls[c].body)
       /\ calls' = [calls EXCEPT ![c] = [pc |-> "send", agent |-> @.agent, rule |-> r,
                                         kind |-> "push"]]
  /\ UNCHANGED <<order, referred>>

CreateFails(c) ==
  /\ calls[c].pc = "insert"
  /\ calls' = [calls EXCEPT ![c] = NoRuleCall]
  /\ UNCHANGED <<rules, order, owner, off, referred>>

-----------------------------------------------------------------------------
(* UpdateRule.                                                             *)

KindOf(s) == IF s = "active" THEN "push" ELSE "cancel"

UpdateRuleStatus(c) ==
  /\ calls[c].pc = "idle"
  /\ \E a \in RuleAgent, r \in RuleKey, s \in {"active", "inactive"} :
       /\ InScope(r, a)
       /\ UpdateCollectionRuleStatus(r, s)
       /\ calls' = [calls EXCEPT ![c] = [pc |-> "send", agent |-> a, rule |-> r,
                                         kind |-> KindOf(s)]]
  /\ UNCHANGED <<order, owner, referred>>

\* The status follows the body's enabled flag.
UpdateRuleFull(c) ==
  /\ calls[c].pc = "idle"
  /\ \E a \in RuleAgent, r \in RuleKey, b \in RuleBody :
       /\ b.mode \in {"watch", "scheduled"} /\ ~RejectTailAppendMode(b)
       /\ InScope(r, a)
       /\ UpdateCollectionRule(r, b)
       /\ calls' = [calls EXCEPT ![c] = [pc |-> "send", agent |-> a, rule |-> r,
                                         kind |-> KindOf(RowOf(a, b).status)]]
  /\ UNCHANGED <<order, owner, referred>>

-----------------------------------------------------------------------------
(* DeleteRule.                                                             *)

DeleteReads(c) ==
  /\ calls[c].pc = "idle"
  /\ \E a \in RuleAgent, r \in RuleKey :
       /\ rules[r] # NoRule
       /\ calls' = [calls EXCEPT ![c] = [pc |-> "delete", agent |-> a, rule |-> r,
                                         owner |-> rules[r].agent]]
  /\ UNCHANGED <<rules, order, owner, off, referred>>

CancelOf(call) == [pc |-> "send", agent |-> call.owner, rule |-> call.rule, kind |-> "cancel"]

\* No row deleted, because it is gone or another agent's, means no cancel either.
DeleteDeletes(c) ==
  /\ calls[c].pc = "delete" /\ calls[c].rule \notin referred
  /\ IF InScope(calls[c].rule, calls[c].agent)
     THEN DeleteCollectionRule(calls[c].rule) /\ calls' = [calls EXCEPT ![c] = CancelOf(@)]
     ELSE calls' = [calls EXCEPT ![c] = NoRuleCall] /\ UNCHANGED <<rules, off>>
  /\ UNCHANGED <<order, owner, referred>>

\* The database refuses, because something refers to the rule or for another reason.
DeleteFails(c) ==
  /\ calls[c].pc = "delete"
  /\ calls' = [calls EXCEPT ![c] = NoRuleCall]
  /\ UNCHANGED <<rules, order, owner, off, referred>>

-----------------------------------------------------------------------------
\* DispatchRule or DispatchRuleCancel, to the agent of the row; then the response.
RedispatchRule(c) ==
  /\ calls[c].pc = "send"
  /\ order' = [to |-> calls[c].agent, rule |-> calls[c].rule, kind |-> calls[c].kind]
  /\ calls' = [calls EXCEPT ![c] = NoRuleCall]
  /\ UNCHANGED <<rules, owner, off, referred>>

RuleUploads(r) ==
  /\ rules[r] # NoRule /\ r \notin referred /\ referred' = referred \cup {r}
  /\ UNCHANGED <<rules, calls, order, owner, off>>

AdmNext ==
  \/ \E c \in RuleCall :
       \/ CreateChecks(c) \/ CreateInserts(c) \/ CreateFails(c)
       \/ UpdateRuleStatus(c) \/ UpdateRuleFull(c)
       \/ DeleteReads(c) \/ DeleteDeletes(c) \/ DeleteFails(c) \/ RedispatchRule(c)
  \/ \E r \in RuleKey : RuleUploads(r)

AdmSpec == AdmInit /\ [][AdmNext]_admVars

-----------------------------------------------------------------------------
(* Properties.                                                             *)

\* Whatever the administrators send, and in whatever order, no rule is stored with
\* append_mode=tail, in any spelling: neither creation nor an edit lets it in.
NoTailRule == \A r \in RuleKey : rules[r] # NoRule => rules[r].append \notin TailSpelling

\* Creations that overlap may each see room for one more rule, but the rules stored
\* and those about to be pass the limit of CreateRule by fewer than the requests
\* that overlap.
Inserting(a) == {c \in RuleCall : calls[c].pc = "insert" /\ calls[c].agent = a}
RulesBounded ==
  \A a \in RuleAgent :
    Cardinality(ListCollectionRulesByAgent(a)) + Cardinality(Inserting(a))
      < MaxRulesPerAgent + Cardinality(RuleCall)

\* A cancel goes to the agent the rule belongs to, and only for a rule that was
\* really disabled or deleted: a delete that found nothing cancels nothing.
CancelIsEarned ==
  order # NoRuleCall =>
    order.to = owner[order.rule] /\ (order.kind = "cancel" => order.rule \in off)

\* A request changes or deletes rules of the agent in its URL only, whatever rule id
\* it gives; and a rule with uploads is never removed.
ScopedWrites ==
  [][\A r \in RuleKey : (rules[r] # NoRule /\ rules'[r] # rules[r]) =>
       /\ \E c \in RuleCall : calls'[c] # calls[c] /\ "rule" \in DOMAIN calls'[c]
            /\ (IF calls[c].pc = "delete" THEN calls[c] ELSE calls'[c]).agent = rules[r].agent
       /\ rules'[r] = NoRule => r \notin referred]_admVars

\* Overlapping requests keep the rules of an agent within limits and scope, and an
\* agent is told to cancel only what is gone.
RulesGuarded == []NoTailRule /\ []RulesBounded /\ []CancelIsEarned /\ ScopedWrites
=============================================================================
