---------------------------- MODULE AdminProofs -----------------------------
(***************************************************************************)
(* Proofs about the administration of the control plane, for any number of *)
(* administrators: the rules of an agent (RuleAdmin), the figures of the   *)
(* dashboard (Dashboard), the enrolment of an agent (AgentEnrolment), what *)
(* is known of its presence and its revocation (AgentPresence), and the    *)
(* catalogue (Catalog).                                                    *)
(***************************************************************************)
EXTENDS RuleAdmin, Dashboard, AgentEnrolment, AgentPresence, Catalog, FiniteSetTheorems, TLAPS

USE Zenon

-----------------------------------------------------------------------------
(* RuleAdmin.  A stored rule and what the handlers carry name the agent    *)
(* the rule was created for; a creation that found room leaves room for    *)
(* the others that overlap with it.                                        *)

\* A row of collection_rules.
RowType == [agent : RuleAgent, append : {b.append : b \in RuleBody}, size : Nat,
            status : {"active", "inactive"}]

\* A stored rule belongs to the agent it was created for, and is no tail rule.
RowIsRight(r) ==
  \/ rules[r] = NoRule
  \/ rules[r] \in RowType /\ rules[r].agent = owner[r] /\ rules[r].append \notin TailSpelling

\* What a handler carries from one statement to the next.
CallIsRight(c) ==
  /\ calls[c].pc \in {"idle", "insert", "delete", "send"}
  /\ calls[c].pc = "insert" =>
       calls[c].agent \in RuleAgent /\ calls[c].body \in RuleBody
       /\ calls[c].body.append \notin TailSpelling
  /\ calls[c].pc = "delete" =>
       calls[c].rule \in RuleKey /\ calls[c].owner \in RuleAgent /\ calls[c].agent \in RuleAgent
       /\ calls[c].owner = owner[calls[c].rule]
  /\ calls[c].pc = "send" =>
       calls[c].rule \in RuleKey /\ calls[c].agent \in RuleAgent
       /\ calls[c].agent = owner[calls[c].rule]
       /\ (calls[c].kind = "cancel" => calls[c].rule \in off)

\* The latest dispatch.
OrderIsRight ==
  order # NoRuleCall =>
    order.rule \in RuleKey /\ order.to \in RuleAgent /\ order.to = owner[order.rule]
    /\ (order.kind = "cancel" => order.rule \in off)

\* RulesBounded for one agent, with the sets it counts.
Bounded(a) ==
  /\ IsFiniteSet(ListCollectionRulesByAgent(a)) /\ IsFiniteSet(Inserting(a))
  /\ Cardinality(ListCollectionRulesByAgent(a)) + Cardinality(Inserting(a))
       < MaxRulesPerAgent + Cardinality(RuleCall)

\* The inductive invariant.
AdmInv ==
  /\ DOMAIN rules = RuleKey /\ DOMAIN calls = RuleCall /\ DOMAIN owner = RuleKey
  /\ \A r \in RuleKey : RowIsRight(r)
  /\ \A c \in RuleCall : CallIsRight(c)
  /\ OrderIsRight
  /\ \A a \in RuleAgent : Bounded(a)

\* The constants, as the leaves need them.
LEMMA AdmConstants ==
  /\ MaxRulesPerAgent \in Nat /\ MaxRulesPerAgent > 0 /\ "none" \notin RuleAgent
  /\ IsFiniteSet(RuleCall) /\ Cardinality(RuleCall) \in Nat
  /\ \A b \in RuleBody : b.size \in Nat /\ b.enabled \in BOOLEAN
<1>1. MaxRulesPerAgent \in Nat /\ MaxRulesPerAgent > 0
  BY AdmAssumption, SMT
<1> QED BY <1>1, AdmAssumption, FS_CardinalityType

\* A row that is stored has its agent.
LEMMA RowFacts ==
  /\ NoRule.agent = "none" /\ NoRuleCall.pc = "idle"
  /\ \A w \in RowType : w.agent \in RuleAgent /\ w # NoRule
  /\ \A a \in RuleAgent, b \in RuleBody :
       RowOf(a, b) \in RowType /\ RowOf(a, b).agent = a /\ RowOf(a, b).append = b.append
<1>1. NoRule.agent = "none" /\ NoRuleCall.pc = "idle"
  BY DEF NoRule, NoRuleCall
<1>2. \A w \in RowType : w.agent \in RuleAgent
  BY DEF RowType
<1>3. \A a \in RuleAgent, b \in RuleBody :
        RowOf(a, b) \in RowType /\ RowOf(a, b).agent = a /\ RowOf(a, b).append = b.append
  BY AdmConstants DEF RowOf, RowType
<1>4. ASSUME NEW w \in RowType PROVE w # NoRule
  BY <1>1, <1>2, AdmConstants
<1> QED BY <1>1, <1>2, <1>3, <1>4

\* The agent of no rule, and a handler at rest.
LEMMA NoAgent == NoRule.agent \notin RuleAgent /\ NoRuleCall.pc # "insert"
BY RowFacts, AdmConstants

\* The handlers other than c.
LEMMA OneCall ==
  ASSUME DOMAIN calls = RuleCall, NEW c \in RuleCall, NEW w, calls' = [calls EXCEPT ![c] = w]
  PROVE  DOMAIN calls' = RuleCall /\ calls'[c] = w /\ \A d \in RuleCall : d # c => calls'[d] = calls[d]
OBVIOUS

\* The rules other than r.
LEMMA OneRule ==
  ASSUME DOMAIN rules = RuleKey, NEW r \in RuleKey, NEW w, rules' = [rules EXCEPT ![r] = w]
  PROVE  DOMAIN rules' = RuleKey /\ rules'[r] = w /\ \A q \in RuleKey : q # r => rules'[q] = rules[q]
OBVIOUS

\* The set of those about to insert for an agent.
LEMMA InsertingFinite ==
  ASSUME NEW a
  PROVE  /\ IsFiniteSet(Inserting(a)) /\ Cardinality(Inserting(a)) \in Nat
         /\ Cardinality(Inserting(a)) <= Cardinality(RuleCall)
BY AdmConstants, FS_Subset, FS_CardinalityType DEF Inserting

\* Fewer rules, and fewer about to be.
LEMMA BoundShrinks ==
  ASSUME NEW a, Bounded(a),
         ListCollectionRulesByAgent(a)' \subseteq ListCollectionRulesByAgent(a),
         Inserting(a)' \subseteq Inserting(a)
  PROVE  Bounded(a)'
<1>1. PICK L, M, I, J : /\ L = ListCollectionRulesByAgent(a) /\ M = ListCollectionRulesByAgent(a)'
                        /\ I = Inserting(a) /\ J = Inserting(a)'
  OBVIOUS
<1>2. IsFiniteSet(L) /\ IsFiniteSet(I) /\ M \subseteq L /\ J \subseteq I
  BY <1>1 DEF Bounded
<1>3. /\ IsFiniteSet(M) /\ Cardinality(M) <= Cardinality(L)
      /\ IsFiniteSet(J) /\ Cardinality(J) <= Cardinality(I)
  BY <1>2, FS_Subset
<1>4. /\ Cardinality(M) \in Nat /\ Cardinality(L) \in Nat
      /\ Cardinality(J) \in Nat /\ Cardinality(I) \in Nat
  BY <1>2, <1>3, FS_CardinalityType
<1>5. Cardinality(L) + Cardinality(I) < MaxRulesPerAgent + Cardinality(RuleCall)
  BY <1>1 DEF Bounded
<1>6. Cardinality(M) + Cardinality(J) < MaxRulesPerAgent + Cardinality(RuleCall)
  BY <1>3, <1>4, <1>5, AdmConstants, SMT
<1> QED BY <1>1, <1>3, <1>6 DEF Bounded

\* A creation that found room: those about to insert are never more than the requests.
LEMMA BoundChecked ==
  ASSUME NEW a, Bounded(a), RoomForRule(a),
         ListCollectionRulesByAgent(a)' = ListCollectionRulesByAgent(a)
  PROVE  Bounded(a)'
<1>1. PICK L, J : L = ListCollectionRulesByAgent(a) /\ J = Inserting(a)'
  OBVIOUS
<1>2. IsFiniteSet(L) /\ Cardinality(L) < MaxRulesPerAgent
  BY <1>1 DEF Bounded, RoomForRule
<1>3. J \subseteq RuleCall
  BY <1>1 DEF Inserting
<1>4. IsFiniteSet(J) /\ Cardinality(J) <= Cardinality(RuleCall)
  BY <1>3, AdmConstants, FS_Subset
<1>5. Cardinality(L) \in Nat /\ Cardinality(J) \in Nat
  BY <1>2, <1>4, FS_CardinalityType
<1>6. Cardinality(L) + Cardinality(J) < MaxRulesPerAgent + Cardinality(RuleCall)
  BY <1>2, <1>4, <1>5, AdmConstants, SMT
<1> QED BY <1>1, <1>2, <1>4, <1>6 DEF Bounded

\* An insert: one more rule, one less about to be.
LEMMA BoundInserted ==
  ASSUME NEW a, Bounded(a), NEW r, NEW c, c \in Inserting(a), r \notin ListCollectionRulesByAgent(a),
         ListCollectionRulesByAgent(a)' = ListCollectionRulesByAgent(a) \cup {r},
         Inserting(a)' = Inserting(a) \ {c}
  PROVE  Bounded(a)'
<1>1. PICK L, I : L = ListCollectionRulesByAgent(a) /\ I = Inserting(a)
  OBVIOUS
<1>2. IsFiniteSet(L) /\ IsFiniteSet(I) /\ r \notin L /\ c \in I
  BY <1>1 DEF Bounded
<1>3. /\ IsFiniteSet(L \cup {r}) /\ Cardinality(L \cup {r}) = Cardinality(L) + 1
      /\ IsFiniteSet(I \ {c}) /\ Cardinality(I \ {c}) = Cardinality(I) - 1
  BY <1>2, FS_AddElement, FS_RemoveElement
<1>4. Cardinality(L) \in Nat /\ Cardinality(I) \in Nat
  BY <1>2, FS_CardinalityType
<1>5. Cardinality(L) + Cardinality(I) < MaxRulesPerAgent + Cardinality(RuleCall)
  BY <1>1 DEF Bounded
<1>6. Cardinality(L \cup {r}) + Cardinality(I \ {c}) < MaxRulesPerAgent + Cardinality(RuleCall)
  BY <1>3, <1>4, <1>5, AdmConstants, SMT
<1> QED BY <1>1, <1>3, <1>6 DEF Bounded

\* A rule keeps its owner, and what was disabled once stays on record.
LEMMA OthersRight ==
  ASSUME AdmInv, off \subseteq off', \A q \in RuleKey : owner[q] # "none" => owner'[q] = owner[q]
  PROVE  /\ order' = order => OrderIsRight'
         /\ \A d \in RuleCall : calls'[d] = calls[d] => CallIsRight(d)'
<1>1. \A q \in RuleKey : owner[q] \in RuleAgent => owner'[q] = owner[q]
  BY AdmConstants
<1>2. order' = order => OrderIsRight'
  BY <1>1 DEF AdmInv, OrderIsRight
<1>3. ASSUME NEW d \in RuleCall, calls'[d] = calls[d] PROVE CallIsRight(d)'
  <2>1. CallIsRight(d)
    BY DEF AdmInv
  <2> QED BY <1>1, <1>3, <2>1 DEF CallIsRight
<1> QED BY <1>2, <1>3

\* What ScopedWrites says of one step.
Scoped ==
  \A r \in RuleKey : (rules[r] # NoRule /\ rules'[r] # rules[r]) =>
       /\ \E c \in RuleCall : calls'[c] # calls[c] /\ "rule" \in DOMAIN calls'[c]
            /\ (IF calls[c].pc = "delete" THEN calls[c] ELSE calls'[c]).agent = rules[r].agent
       /\ rules'[r] = NoRule => r \notin referred

\* A handler goes on and the database stays as it is.
LEMMA CallGoesOn ==
  ASSUME AdmInv, NEW c \in RuleCall, NEW w, calls' = [calls EXCEPT ![c] = w],
         UNCHANGED <<rules, order, owner, off>>, CallIsRight(c)', w.pc # "insert"
  PROVE  AdmInv' /\ Scoped
<1>1. /\ DOMAIN calls' = RuleCall /\ calls'[c] = w
      /\ \A d \in RuleCall : d # c => calls'[d] = calls[d]
  BY OneCall DEF AdmInv
<1>2. OrderIsRight' /\ \A d \in RuleCall : CallIsRight(d)'
  BY <1>1, OthersRight
<1>3. ASSUME NEW a \in RuleAgent PROVE Bounded(a)'
  <2>1. ListCollectionRulesByAgent(a)' \subseteq ListCollectionRulesByAgent(a)
    BY DEF ListCollectionRulesByAgent
  <2>2. Inserting(a)' \subseteq Inserting(a)
    BY <1>1 DEF Inserting
  <2> QED BY <2>1, <2>2, BoundShrinks DEF AdmInv
<1>4. \A r \in RuleKey : RowIsRight(r)'
  BY DEF AdmInv, RowIsRight
<1> QED BY <1>1, <1>2, <1>3, <1>4 DEF AdmInv, Scoped

\* A creation passes its checks.
LEMMA CreateChecksStep ==
  ASSUME AdmInv, NEW c \in RuleCall, CreateChecks(c)
  PROVE  AdmInv' /\ Scoped
<1>1. PICK a \in RuleAgent, b \in RuleBody :
        /\ RoomForRule(a) /\ ~RejectTailAppendMode(b)
        /\ calls' = [calls EXCEPT ![c] = [pc |-> "insert", agent |-> a, body |-> b]]
  BY DEF CreateChecks
<1>2. PICK w : w = [pc |-> "insert", agent |-> a, body |-> b]
  OBVIOUS
<1>3. w.pc = "insert" /\ w.agent = a /\ w.body = b
  BY <1>2
<1>4. UNCHANGED <<rules, order, owner, off>>
  BY DEF CreateChecks
<1>5. /\ DOMAIN calls' = RuleCall /\ calls'[c] = w
      /\ \A d \in RuleCall : d # c => calls'[d] = calls[d]
  BY <1>1, <1>2, OneCall DEF AdmInv
<1>6. CallIsRight(c)'
  BY <1>1, <1>3, <1>5 DEF CallIsRight, RejectTailAppendMode
<1>7. OrderIsRight' /\ \A d \in RuleCall : CallIsRight(d)'
  BY <1>4, <1>5, <1>6, OthersRight
<1>8. ASSUME NEW x \in RuleAgent PROVE Bounded(x)'
  <2>0. ListCollectionRulesByAgent(x)' = ListCollectionRulesByAgent(x) /\ Bounded(x)
    BY <1>4 DEF ListCollectionRulesByAgent, AdmInv
  <2>1. CASE x = a
    BY <1>1, <2>0, <2>1, BoundChecked
  <2>2. CASE x # a
    <3>1. Inserting(x)' \subseteq Inserting(x)
      BY <1>3, <1>5, <2>2 DEF Inserting
    <3> QED BY <2>0, <3>1, BoundShrinks
  <2> QED BY <2>1, <2>2
<1>9. \A r \in RuleKey : RowIsRight(r)'
  BY <1>4 DEF AdmInv, RowIsRight
<1> QED BY <1>4, <1>5, <1>7, <1>8, <1>9 DEF AdmInv, Scoped

\* A creation inserts, under a key nobody had.
LEMMA CreateInsertsStep ==
  ASSUME AdmInv, NEW c \in RuleCall, CreateInserts(c)
  PROVE  AdmInv' /\ Scoped
<1>1. PICK r \in RuleKey :
        /\ NewKey(r) /\ CreateCollectionRule(r, calls[c].agent, calls[c].body)
        /\ calls' = [calls EXCEPT ![c] = [pc |-> "send", agent |-> calls[c].agent, rule |-> r,
                                          kind |-> "push"]]
  BY DEF CreateInserts
<1>2. PICK a, b : a = calls[c].agent /\ b = calls[c].body
  OBVIOUS
<1>3. /\ calls[c].pc = "insert" /\ a \in RuleAgent /\ b \in RuleBody
      /\ b.append \notin TailSpelling
  BY <1>2 DEF CreateInserts, AdmInv, CallIsRight
<1>4. PICK w : w = [pc |-> "send", agent |-> a, rule |-> r, kind |-> "push"]
  OBVIOUS
<1>5. w.pc = "send" /\ w.agent = a /\ w.rule = r /\ w.kind = "push"
  BY <1>4
<1>6. /\ DOMAIN calls' = RuleCall /\ calls'[c] = w
      /\ \A d \in RuleCall : d # c => calls'[d] = calls[d]
  BY <1>1, <1>2, <1>4, OneCall DEF AdmInv
<1>7. PICK stored : stored = RowOf(a, b)
  OBVIOUS
<1>8. stored \in RowType /\ stored.agent = a /\ stored.append = b.append
  BY <1>3, <1>7, RowFacts
<1>9. /\ DOMAIN rules' = RuleKey /\ rules'[r] = stored
      /\ \A q \in RuleKey : q # r => rules'[q] = rules[q]
  BY <1>1, <1>2, <1>7, OneRule DEF CreateCollectionRule, AdmInv
<1>10. /\ DOMAIN owner' = RuleKey /\ owner'[r] = a /\ owner[r] = "none"
       /\ \A q \in RuleKey : q # r => owner'[q] = owner[q]
  BY <1>1, <1>2 DEF CreateCollectionRule, AdmInv, NewKey
<1>11. off \subseteq off' /\ order' = order
  BY <1>1 DEF CreateCollectionRule, CreateInserts
<1>12. CallIsRight(c)'
  BY <1>3, <1>5, <1>6, <1>10 DEF CallIsRight
<1>13. OrderIsRight' /\ \A d \in RuleCall : CallIsRight(d)'
  BY <1>6, <1>10, <1>11, <1>12, OthersRight
<1>14. rules[r] = NoRule
  <2>1. rules[r] \in RowType => rules[r].agent \in RuleAgent
    BY RowFacts
  <2> QED BY <1>10, <2>1, AdmConstants DEF AdmInv, RowIsRight
<1>15. ASSUME NEW q \in RuleKey PROVE RowIsRight(q)'
  <2>1. CASE q = r
    BY <1>3, <1>8, <1>9, <1>10, <2>1 DEF RowIsRight
  <2>2. CASE q # r
    BY <1>9, <1>10, <2>2 DEF RowIsRight, AdmInv
  <2> QED BY <2>1, <2>2
<1>16. ASSUME NEW x \in RuleAgent PROVE Bounded(x)'
  <2>0. Bounded(x)
    BY DEF AdmInv
  <2>1. CASE x = a
    <3>1. r \notin ListCollectionRulesByAgent(x) /\ c \in Inserting(x)
      BY <1>2, <1>3, <1>14, <2>1, RowFacts, AdmConstants DEF ListCollectionRulesByAgent, Inserting
    <3>2. ListCollectionRulesByAgent(x)' = ListCollectionRulesByAgent(x) \cup {r}
      BY <1>8, <1>9, <2>1 DEF ListCollectionRulesByAgent
    <3>3. Inserting(x)' = Inserting(x) \ {c}
      BY <1>5, <1>6 DEF Inserting
    <3> QED BY <2>0, <3>1, <3>2, <3>3, BoundInserted
  <2>2. CASE x # a
    <3>1. ListCollectionRulesByAgent(x)' \subseteq ListCollectionRulesByAgent(x)
      BY <1>8, <1>9, <2>2 DEF ListCollectionRulesByAgent
    <3>2. Inserting(x)' \subseteq Inserting(x)
      BY <1>5, <1>6 DEF Inserting
    <3> QED BY <2>0, <3>1, <3>2, BoundShrinks
  <2> QED BY <2>1, <2>2
<1> QED BY <1>6, <1>9, <1>10, <1>13, <1>14, <1>15, <1>16 DEF AdmInv, Scoped

\* A handler changes or removes a rule that is there.
LEMMA RuleWritten ==
  ASSUME AdmInv, NEW c \in RuleCall, NEW r \in RuleKey, NEW stored, NEW w,
         rules' = [rules EXCEPT ![r] = stored], rules[r] # NoRule,
         stored = NoRule \/ (stored \in RowType /\ stored.agent = owner[r] /\ stored.append \notin TailSpelling),
         stored = NoRule => r \notin referred,
         calls' = [calls EXCEPT ![c] = w], w.pc # "insert", CallIsRight(c)', w # calls[c],
         "rule" \in DOMAIN w,
         (IF calls[c].pc = "delete" THEN calls[c] ELSE w).agent = rules[r].agent,
         off \subseteq off', UNCHANGED <<owner, order>>
  PROVE  AdmInv' /\ Scoped
<1>1. /\ DOMAIN calls' = RuleCall /\ calls'[c] = w
      /\ \A d \in RuleCall : d # c => calls'[d] = calls[d]
  BY OneCall DEF AdmInv
<1>2. /\ DOMAIN rules' = RuleKey /\ rules'[r] = stored
      /\ \A q \in RuleKey : q # r => rules'[q] = rules[q]
  BY OneRule DEF AdmInv
<1>3. OrderIsRight' /\ \A d \in RuleCall : CallIsRight(d)'
  BY <1>1, OthersRight
<1>4. ASSUME NEW q \in RuleKey PROVE RowIsRight(q)'
  <2>1. CASE q = r
    BY <1>2, <2>1 DEF RowIsRight
  <2>2. CASE q # r
    BY <1>2, <2>2 DEF RowIsRight, AdmInv
  <2> QED BY <2>1, <2>2
<1>5. ASSUME NEW a \in RuleAgent PROVE Bounded(a)'
  <2>1. rules[r].agent = owner[r]
    BY DEF AdmInv, RowIsRight
  <2>2. stored.agent = a => rules[r].agent = a
    BY <2>1, RowFacts, AdmConstants
  <2>3. ListCollectionRulesByAgent(a)' \subseteq ListCollectionRulesByAgent(a)
    BY <1>2, <2>2 DEF ListCollectionRulesByAgent
  <2>4. Inserting(a)' \subseteq Inserting(a)
    BY <1>1 DEF Inserting
  <2> QED BY <2>3, <2>4, BoundShrinks DEF AdmInv
<1>6. Scoped
  <2> SUFFICES ASSUME NEW q \in RuleKey, rules[q] # NoRule, rules'[q] # rules[q]
               PROVE  /\ \E d \in RuleCall : calls'[d] # calls[d] /\ "rule" \in DOMAIN calls'[d]
                           /\ (IF calls[d].pc = "delete" THEN calls[d] ELSE calls'[d]).agent
                              = rules[q].agent
                      /\ rules'[q] = NoRule => q \notin referred
    BY DEF Scoped
  <2>1. q = r
    BY <1>2
  <2>2. /\ calls'[c] # calls[c] /\ "rule" \in DOMAIN calls'[c]
        /\ (IF calls[c].pc = "delete" THEN calls[c] ELSE calls'[c]).agent = rules[q].agent
    BY <1>1, <2>1
  <2> QED BY <1>2, <2>1, <2>2
<1> QED BY <1>1, <1>2, <1>3, <1>4, <1>5, <1>6 DEF AdmInv

\* What a handler sends at the end.
LEMMA SendRecord ==
  ASSUME NEW a, NEW r, NEW k, NEW w, w = [pc |-> "send", agent |-> a, rule |-> r, kind |-> k]
  PROVE  w.pc = "send" /\ w.agent = a /\ w.rule = r /\ w.kind = k /\ "rule" \in DOMAIN w
BY SMT

\* A rule is enabled or disabled.
LEMMA UpdateStatusStep ==
  ASSUME AdmInv, NEW c \in RuleCall, UpdateRuleStatus(c)
  PROVE  AdmInv' /\ Scoped
<1>1. PICK a \in RuleAgent, r \in RuleKey, s \in {"active", "inactive"} :
        /\ InScope(r, a) /\ UpdateCollectionRuleStatus(r, s)
        /\ calls' = [calls EXCEPT ![c] = [pc |-> "send", agent |-> a, rule |-> r, kind |-> KindOf(s)]]
  BY DEF UpdateRuleStatus
<1>2. PICK w : w = [pc |-> "send", agent |-> a, rule |-> r, kind |-> KindOf(s)]
  OBVIOUS
<1>3. w.pc = "send" /\ w.agent = a /\ w.rule = r /\ w.kind = KindOf(s) /\ "rule" \in DOMAIN w
  BY <1>2, SendRecord
<1>4. rules[r] # NoRule /\ rules[r].agent = a
  <2>1. rules[r].agent = a
    BY <1>1 DEF InScope
  <2> QED BY <2>1, NoAgent
<1>5. rules[r] \in RowType /\ owner[r] = a /\ rules[r].append \notin TailSpelling
  BY <1>4 DEF AdmInv, RowIsRight
<1>6. PICK stored : stored = [rules[r] EXCEPT !.status = s]
  OBVIOUS
<1>7. stored \in RowType /\ stored.agent = a /\ stored.append = rules[r].append
  BY <1>4, <1>5, <1>6 DEF RowType
<1>8. rules' = [rules EXCEPT ![r] = stored]
  BY <1>1, <1>6 DEF UpdateCollectionRuleStatus
<1>9. stored # NoRule
  BY <1>7, RowFacts
<1>10. /\ off \subseteq off' /\ UNCHANGED <<owner, order>> /\ calls[c].pc = "idle"
       /\ KindOf(s) = "cancel" => r \in off'
  BY <1>1 DEF UpdateRuleStatus, UpdateCollectionRuleStatus, KindOf
<1>11. calls' = [calls EXCEPT ![c] = w] /\ calls'[c] = w
  BY <1>1, <1>2 DEF AdmInv
<1>12. CallIsRight(c)'
  BY <1>3, <1>5, <1>10, <1>11 DEF CallIsRight
<1>13. w # calls[c] /\ (IF calls[c].pc = "delete" THEN calls[c] ELSE w).agent = rules[r].agent
  BY <1>3, <1>4, <1>10
<1> QED BY <1>3, <1>4, <1>5, <1>7, <1>8, <1>9, <1>10, <1>11, <1>12, <1>13, RuleWritten

\* A rule is edited.
LEMMA UpdateFullStep ==
  ASSUME AdmInv, NEW c \in RuleCall, UpdateRuleFull(c)
  PROVE  AdmInv' /\ Scoped
<1>1. PICK a \in RuleAgent, r \in RuleKey, b \in RuleBody :
        /\ ~RejectTailAppendMode(b) /\ InScope(r, a) /\ UpdateCollectionRule(r, b)
        /\ calls' = [calls EXCEPT ![c] = [pc |-> "send", agent |-> a, rule |-> r,
                                          kind |-> KindOf(RowOf(a, b).status)]]
  BY DEF UpdateRuleFull
<1>2. PICK w : w = [pc |-> "send", agent |-> a, rule |-> r, kind |-> KindOf(RowOf(a, b).status)]
  OBVIOUS
<1>3. /\ w.pc = "send" /\ w.agent = a /\ w.rule = r /\ w.kind = KindOf(RowOf(a, b).status)
      /\ "rule" \in DOMAIN w
  BY <1>2, SendRecord
<1>4. rules[r] # NoRule /\ rules[r].agent = a
  <2>1. rules[r].agent = a
    BY <1>1 DEF InScope
  <2> QED BY <2>1, NoAgent
<1>5. owner[r] = a
  BY <1>4 DEF AdmInv, RowIsRight
<1>6. PICK stored : stored = RowOf(a, b)
  OBVIOUS
<1>7. stored \in RowType /\ stored.agent = a /\ stored.append \notin TailSpelling
  BY <1>1, <1>6, RowFacts DEF RejectTailAppendMode
<1>8. rules' = [rules EXCEPT ![r] = stored]
  BY <1>1, <1>4, <1>6 DEF UpdateCollectionRule
<1>9. stored # NoRule
  BY <1>7, RowFacts
<1>10. off \subseteq off' /\ UNCHANGED <<owner, order>> /\ calls[c].pc = "idle"
  BY <1>1 DEF UpdateRuleFull, UpdateCollectionRule
<1>11. w.kind = "cancel" => r \in off'
  BY <1>1, <1>3 DEF UpdateCollectionRule, KindOf, RowOf
<1>12. calls' = [calls EXCEPT ![c] = w] /\ calls'[c] = w
  BY <1>1, <1>2 DEF AdmInv
<1>13. CallIsRight(c)'
  BY <1>3, <1>5, <1>10, <1>11, <1>12 DEF CallIsRight
<1>14. w # calls[c] /\ (IF calls[c].pc = "delete" THEN calls[c] ELSE w).agent = rules[r].agent
  BY <1>3, <1>4, <1>10
<1> QED BY <1>3, <1>4, <1>5, <1>7, <1>8, <1>9, <1>10, <1>12, <1>13, <1>14, RuleWritten

\* A rule is deleted, or was not there.
LEMMA DeleteStep ==
  ASSUME AdmInv, NEW c \in RuleCall, DeleteDeletes(c)
  PROVE  AdmInv' /\ Scoped
<1>1. PICK r : r = calls[c].rule
  OBVIOUS
<1>2. /\ calls[c].pc = "delete" /\ r \in RuleKey /\ r \notin referred
      /\ calls[c].owner \in RuleAgent /\ calls[c].owner = owner[r] /\ calls[c].agent \in RuleAgent
  BY <1>1 DEF DeleteDeletes, AdmInv, CallIsRight
<1>3. CASE ~InScope(r, calls[c].agent)
  <2>1. calls' = [calls EXCEPT ![c] = NoRuleCall] /\ UNCHANGED <<rules, order, owner, off>>
    BY <1>1, <1>3 DEF DeleteDeletes
  <2>2. CallIsRight(c)'
    BY <2>1, RowFacts DEF CallIsRight, AdmInv
  <2> QED BY <2>1, <2>2, RowFacts, CallGoesOn
<1>4. CASE InScope(r, calls[c].agent) /\ rules[r] # NoRule
  <2>1. PICK w : w = [pc |-> "send", agent |-> calls[c].owner, rule |-> r, kind |-> "cancel"]
    OBVIOUS
  <2>2. w.pc = "send" /\ w.agent = owner[r] /\ w.rule = r /\ "rule" \in DOMAIN w
    BY <1>2, <2>1, SendRecord
  <2>3. calls' = [calls EXCEPT ![c] = w] /\ calls'[c] = w
    BY <1>1, <1>4, <2>1 DEF DeleteDeletes, CancelOf, AdmInv
  <2>4. /\ rules' = [rules EXCEPT ![r] = NoRule] /\ off \subseteq off' /\ r \in off'
        /\ UNCHANGED <<owner, order>>
    BY <1>1, <1>4 DEF DeleteDeletes, DeleteCollectionRule
  <2>5. CallIsRight(c)'
    BY <1>2, <2>2, <2>3, <2>4 DEF CallIsRight
  <2>6. /\ w # calls[c]
        /\ (IF calls[c].pc = "delete" THEN calls[c] ELSE w).agent = rules[r].agent
    BY <1>2, <1>4, <2>2 DEF InScope
  <2> QED BY <1>2, <1>4, <2>2, <2>3, <2>4, <2>5, <2>6, RuleWritten
<1>5. rules[r] = NoRule => ~InScope(r, calls[c].agent)
  BY <1>2, RowFacts, AdmConstants DEF InScope
<1> QED BY <1>3, <1>4, <1>5

\* A delete reads the rule.
LEMMA DeleteReadsStep ==
  ASSUME AdmInv, NEW c \in RuleCall, DeleteReads(c)
  PROVE  AdmInv' /\ Scoped
<1>1. PICK a \in RuleAgent, r \in RuleKey :
        /\ rules[r] # NoRule
        /\ calls' = [calls EXCEPT ![c] = [pc |-> "delete", agent |-> a, rule |-> r,
                                          owner |-> rules[r].agent]]
  BY DEF DeleteReads
<1>2. PICK w : w = [pc |-> "delete", agent |-> a, rule |-> r, owner |-> rules[r].agent]
  OBVIOUS
<1>3. w.pc = "delete" /\ w.agent = a /\ w.rule = r /\ w.owner = rules[r].agent
  BY <1>2
<1>4. rules[r].agent = owner[r] /\ owner[r] \in RuleAgent
  <2>1. rules[r] \in RowType /\ rules[r].agent = owner[r]
    BY <1>1 DEF AdmInv, RowIsRight
  <2> QED BY <2>1, RowFacts
<1>5. UNCHANGED <<rules, order, owner, off>>
  BY DEF DeleteReads
<1>6. calls' = [calls EXCEPT ![c] = w] /\ calls'[c] = w
  BY <1>1, <1>2 DEF AdmInv
<1>7. CallIsRight(c)'
  BY <1>3, <1>4, <1>5, <1>6 DEF CallIsRight
<1> QED BY <1>3, <1>5, <1>6, <1>7, CallGoesOn

\* A statement fails.
LEMMA CallFailsStep ==
  ASSUME AdmInv, NEW c \in RuleCall, CreateFails(c) \/ DeleteFails(c)
  PROVE  AdmInv' /\ Scoped
<1>1. calls' = [calls EXCEPT ![c] = NoRuleCall] /\ UNCHANGED <<rules, order, owner, off>>
  BY DEF CreateFails, DeleteFails
<1>2. CallIsRight(c)'
  BY <1>1, RowFacts DEF CallIsRight, AdmInv
<1> QED BY <1>1, <1>2, RowFacts, CallGoesOn

\* A push or a cancel goes out.
LEMMA RedispatchStep ==
  ASSUME AdmInv, NEW c \in RuleCall, RedispatchRule(c)
  PROVE  AdmInv' /\ Scoped
<1>1. PICK o : o = [to |-> calls[c].agent, rule |-> calls[c].rule, kind |-> calls[c].kind]
  OBVIOUS
<1>2. o.to = calls[c].agent /\ o.rule = calls[c].rule /\ o.kind = calls[c].kind
  BY <1>1
<1>3. /\ order' = o /\ calls[c].pc = "send" /\ calls' = [calls EXCEPT ![c] = NoRuleCall]
      /\ UNCHANGED <<rules, owner, off>>
  BY <1>1 DEF RedispatchRule
<1>4. OrderIsRight'
  BY <1>2, <1>3 DEF OrderIsRight, AdmInv, CallIsRight
<1>5. /\ DOMAIN calls' = RuleCall /\ calls'[c] = NoRuleCall
      /\ \A d \in RuleCall : d # c => calls'[d] = calls[d]
  BY <1>3, OneCall DEF AdmInv
<1>6. \A d \in RuleCall : CallIsRight(d)'
  <2>1. CallIsRight(c)'
    BY <1>5, RowFacts DEF CallIsRight
  <2> QED BY <1>3, <1>5, <2>1, OthersRight
<1>7. ASSUME NEW a \in RuleAgent PROVE Bounded(a)'
  <2>1. ListCollectionRulesByAgent(a)' \subseteq ListCollectionRulesByAgent(a)
    BY <1>3 DEF ListCollectionRulesByAgent
  <2>2. Inserting(a)' \subseteq Inserting(a)
    BY <1>5, RowFacts DEF Inserting
  <2> QED BY <2>1, <2>2, BoundShrinks DEF AdmInv
<1>8. \A r \in RuleKey : RowIsRight(r)'
  BY <1>3 DEF AdmInv, RowIsRight
<1> QED BY <1>3, <1>4, <1>5, <1>6, <1>7, <1>8 DEF AdmInv, Scoped

\* Nothing the invariant speaks of changes.
LEMMA AdmQuiet ==
  ASSUME AdmInv, UNCHANGED <<rules, calls, order, owner, off>>
  PROVE  AdmInv' /\ Scoped
<1>1. \A a \in RuleAgent : Bounded(a)'
  BY DEF AdmInv, Bounded, ListCollectionRulesByAgent, Inserting
<1>2. OrderIsRight' /\ \A c \in RuleCall : CallIsRight(c)'
  BY DEF AdmInv, OrderIsRight, CallIsRight
<1>3. \A r \in RuleKey : RowIsRight(r)'
  BY DEF AdmInv, RowIsRight
<1> QED BY <1>1, <1>2, <1>3 DEF AdmInv, Scoped

\* Every step keeps the invariant and is scoped.
LEMMA AdmStep == AdmInv /\ [AdmNext]_admVars => AdmInv' /\ Scoped
<1> SUFFICES ASSUME AdmInv, [AdmNext]_admVars PROVE AdmInv' /\ Scoped
  OBVIOUS
<1>1. ASSUME NEW c \in RuleCall,
             \/ CreateChecks(c) \/ CreateInserts(c) \/ CreateFails(c)
             \/ UpdateRuleStatus(c) \/ UpdateRuleFull(c)
             \/ DeleteReads(c) \/ DeleteDeletes(c) \/ DeleteFails(c) \/ RedispatchRule(c)
      PROVE  AdmInv' /\ Scoped
  BY <1>1, CreateChecksStep, CreateInsertsStep, CallFailsStep, UpdateStatusStep, UpdateFullStep,
     DeleteReadsStep, DeleteStep, RedispatchStep
<1>2. ASSUME NEW r \in RuleKey, RuleUploads(r) PROVE AdmInv' /\ Scoped
  BY <1>2, AdmQuiet DEF RuleUploads
<1>3. CASE UNCHANGED admVars
  BY <1>3, AdmQuiet DEF admVars
<1> QED BY <1>1, <1>2, <1>3 DEF AdmNext

\* The invariant holds at the start.
LEMMA AdmStarts == AdmInit => AdmInv
<1> SUFFICES ASSUME AdmInit PROVE AdmInv
  OBVIOUS
<1>1. /\ DOMAIN rules = RuleKey /\ DOMAIN calls = RuleCall /\ DOMAIN owner = RuleKey
      /\ \A r \in RuleKey : rules[r] = NoRule
      /\ \A c \in RuleCall : calls[c] = NoRuleCall
      /\ order = NoRuleCall
  BY DEF AdmInit
<1>2. \A c \in RuleCall : CallIsRight(c)
  BY <1>1, RowFacts DEF CallIsRight
<1>3. ASSUME NEW a \in RuleAgent PROVE Bounded(a)
  <2>1. ListCollectionRulesByAgent(a) = {} /\ Inserting(a) = {}
    BY <1>1, NoAgent DEF ListCollectionRulesByAgent, Inserting
  <2>2. IsFiniteSet({}) /\ Cardinality({}) = 0
    BY FS_EmptySet
  <2>3. 0 + 0 < MaxRulesPerAgent + Cardinality(RuleCall)
    BY AdmConstants, SMT
  <2> QED BY <2>1, <2>2, <2>3 DEF Bounded
<1> QED BY <1>1, <1>2, <1>3 DEF AdmInv, RowIsRight, OrderIsRight

\* No tail rule, no agent past its limit by as many rules as requests overlap, no cancel
\* that was not earned, and no write outside the agent of the URL, for any number of
\* administrators, agents, rules and bodies.
THEOREM RulesAlwaysGuarded == AdmSpec => RulesGuarded
<1>1. AdmInv => NoTailRule
  BY DEF AdmInv, RowIsRight, NoTailRule
<1>2. AdmInv => RulesBounded
  BY DEF AdmInv, Bounded, RulesBounded
<1>3. AdmInv => CancelIsEarned
  BY DEF AdmInv, OrderIsRight, CancelIsEarned
<1>4. AdmInv /\ [AdmNext]_admVars =>
        [\A r \in RuleKey : (rules[r] # NoRule /\ rules'[r] # rules[r]) =>
           /\ \E c \in RuleCall : calls'[c] # calls[c] /\ "rule" \in DOMAIN calls'[c]
                /\ (IF calls[c].pc = "delete" THEN calls[c] ELSE calls'[c]).agent = rules[r].agent
           /\ rules'[r] = NoRule => r \notin referred]_admVars
  BY AdmStep DEF Scoped
<1> QED BY <1>1, <1>2, <1>3, <1>4, AdmStarts, AdmStep, PTL DEF AdmSpec, RulesGuarded, ScopedWrites

-----------------------------------------------------------------------------
(* Dashboard.  While no file is indexed the figures read so far are those  *)
(* of the files there are, and a day of the trend holds the files since    *)
(* its start that are not since the next one's.                            *)

\* Whole days, as SMT knows them.
LEMMA DivMod ==
  ASSUME NEW t \in Int, NEW n \in Nat \ {0}
  PROVE  t \div n \in Int /\ (t \div n) * n <= t /\ t < (t \div n) * n + n
BY SMT

\* Products distribute.
LEMMA Distributes ==
  ASSUME NEW a \in Int, NEW b \in Int, NEW n \in Int
  PROVE  /\ (a + b) * n = a * n + b * n /\ (a - b) * n = a * n - b * n
         /\ a * n \in Int
BY SMT

\* Whole multiples of a positive length keep their order.
LEMMA Cancels ==
  ASSUME NEW a \in Int, NEW b \in Int, NEW n \in Nat \ {0}, a * n < b * n + n
  PROVE  a <= b
BY SMT

\* A day is the instants between its start and the next one's.
LEMMA DayBounds ==
  ASSUME NEW t \in Int, NEW k \in Int
  PROVE  DayOf(t) = k <=> k * DayLen <= t /\ t < k * DayLen + DayLen
<1> DEFINE q == t \div DayLen
<1>0. DayLen \in Nat \ {0} /\ DayLen \in Int
  BY DashAssumption, SMT
<1>1. q \in Int /\ q * DayLen <= t /\ t < q * DayLen + DayLen
  BY <1>0, DivMod
<1>2. ASSUME k * DayLen <= t, t < k * DayLen + DayLen PROVE q = k
  <2> HIDE DEF q
  <2>0. q * DayLen \in Int /\ k * DayLen \in Int
    BY <1>0, <1>1, Distributes
  <2>1. q * DayLen < k * DayLen + DayLen /\ k * DayLen < q * DayLen + DayLen
    BY <1>0, <1>1, <1>2, <2>0, SMT
  <2>2. q <= k /\ k <= q
    BY <1>0, <1>1, <2>1, Cancels
  <2> QED BY <1>1, <2>2, SMT
<1> QED BY <1>1, <1>2 DEF DayOf

\* The window begins at the start of a day.
LEMMA WindowDays ==
  ASSUME NEW i \in Int, dash.now \in Int
  PROVE  /\ TrendStart \in Int /\ TodayStart \in Int /\ DayOf(TrendStart) \in Int
         /\ (DayOf(TrendStart) + i - 1) * DayLen = TrendStart + (i - 1) * DayLen
         /\ TrendStart + (i - 1) * DayLen + DayLen = TrendStart + i * DayLen
         /\ TrendStart + (TrendDays - 1) * DayLen = TodayStart
         /\ TrendStart + TrendDays * DayLen = TodayStart + DayLen
<1>0. DayLen \in Nat \ {0} /\ DayLen \in Int /\ TrendDays \in Int /\ TrendDays - 1 \in Int
  BY DashAssumption, SMT
<1>1. PICK d : d = DayOf(dash.now)
  OBVIOUS
<1>2. d \in Int
  BY <1>0, <1>1, DivMod DEF DayOf
<1>3. PICK k : k = d - (TrendDays - 1)
  OBVIOUS
<1>4. k \in Int
  BY <1>0, <1>2, <1>3, SMT
<1>5. TodayStart = d * DayLen /\ TrendStart = d * DayLen - (TrendDays - 1) * DayLen
  BY <1>1 DEF TodayStart, TrendStart
<1>6. TrendStart = k * DayLen
  <2>1. PICK e \in Int : e = TrendDays - 1
    BY <1>0
  <2>a. e \in Int
    BY <2>1
  <2>2. (d - e) * DayLen = d * DayLen - e * DayLen
    BY <1>0, <1>2, <2>a, SMT
  <2> QED BY <1>3, <1>5, <2>1, <2>2
<1>7. TrendStart \in Int /\ TodayStart \in Int
  <2>1. d * DayLen \in Int /\ k * DayLen \in Int
    BY <1>0, <1>2, <1>4, SMT
  <2> QED BY <1>5, <1>6, <2>1
<1>8. DayOf(TrendStart) = k
  <2>1. k * DayLen <= TrendStart /\ TrendStart < k * DayLen + DayLen
    BY <1>0, <1>6, <1>7, SMT
  <2> QED BY <1>4, <1>7, <2>1, DayBounds
<1>9. (i - 1) * DayLen \in Int /\ i * DayLen \in Int /\ (i - 1) * DayLen = i * DayLen - DayLen
      /\ (k + i - 1) * DayLen = k * DayLen + (i - 1) * DayLen
  BY <1>0, <1>4, SMT
<1>10. /\ (TrendDays - 1) * DayLen \in Int /\ TrendDays * DayLen \in Int
       /\ (TrendDays - 1) * DayLen = TrendDays * DayLen - DayLen
  BY <1>0, SMT
<1>11. TrendStart + (TrendDays - 1) * DayLen = TodayStart
  BY <1>5, <1>7, <1>10, SMT
<1>12. TrendStart + TrendDays * DayLen = TodayStart + DayLen
  BY <1>0, <1>7, <1>10, <1>11, SMT
<1>13. TrendStart + (i - 1) * DayLen + DayLen = TrendStart + i * DayLen
  BY <1>0, <1>7, <1>9, SMT
<1> QED BY <1>4, <1>6, <1>7, <1>8, <1>9, <1>11, <1>12, <1>13

\* A request.
DashType ==
  [pc : {"none", "files", "today", "trend", "done"}, now : 0..Horizon, files : Nat, today : Nat,
   trend : {<< >>} \cup [1..TrendDays -> Nat], calm : BOOLEAN]

\* What a day of the trend counts.
Bucket(i) == {f \in Since(TrendStart) : BucketDay(f) = DayOf(TrendStart) + i - 1}

\* The inductive invariant: the figures read so far are those of the files there are,
\* when none was indexed since the request came in.
DashInv ==
  /\ clock \in 0..Horizon /\ dash \in DashType /\ IsFiniteSet(DOMAIN uploadedAt)
  /\ \A f \in DOMAIN uploadedAt : uploadedAt[f] \in 0..Horizon
  /\ dash.calm =>
       /\ dash.pc \in {"today", "trend", "done"} => dash.files = Cardinality(DOMAIN uploadedAt)
       /\ dash.pc \in {"trend", "done"} => dash.today = Cardinality(Since(TodayStart))
       /\ dash.pc = "done" => dash.trend = [i \in 1..TrendDays |-> Cardinality(Bucket(i))]

\* The files since an instant are finitely many.
LEMMA SinceFinite ==
  ASSUME IsFiniteSet(DOMAIN uploadedAt), NEW t
  PROVE  /\ IsFiniteSet(Since(t)) /\ Cardinality(Since(t)) \in Nat
         /\ Cardinality(DOMAIN uploadedAt) \in Nat
         /\ Cardinality(Since(t)) <= Cardinality(DOMAIN uploadedAt)
BY FS_Subset, FS_CardinalityType DEF Since

\* The files of a day are those since its start that are not since the next.
LEMMA BucketCounts ==
  ASSUME DashInv, NEW i \in 1..TrendDays
  PROVE  /\ Cardinality(Bucket(i)) \in Nat
         /\ Cardinality(Bucket(i)) = Cardinality(Since(TrendStart + (i - 1) * DayLen))
                                     - Cardinality(Since(TrendStart + i * DayLen))
<1>0. /\ DayLen \in Nat \ {0} /\ i \in Int /\ i - 1 \in Nat /\ dash.now \in Int
      /\ \A f \in DOMAIN uploadedAt : uploadedAt[f] \in Int
  BY DashAssumption, SMT DEF DashInv, DashType
<1>1. PICK a \in Int, b \in Int, k \in Int :
        /\ a = TrendStart + (i - 1) * DayLen /\ b = TrendStart + i * DayLen
        /\ k = DayOf(TrendStart) + i - 1 /\ k * DayLen = a /\ a + DayLen = b
        /\ TrendStart \in Int /\ TrendStart <= a
  <2>1. /\ (i - 1) * DayLen \in Nat /\ i * DayLen \in Int
    BY <1>0, SMT
  <2>2. /\ TrendStart \in Int /\ TodayStart \in Int /\ DayOf(TrendStart) \in Int
        /\ (DayOf(TrendStart) + i - 1) * DayLen = TrendStart + (i - 1) * DayLen
        /\ TrendStart + (i - 1) * DayLen + DayLen = TrendStart + i * DayLen
    BY <1>0, WindowDays
  <2>3. /\ TrendStart + (i - 1) * DayLen \in Int /\ TrendStart + i * DayLen \in Int
        /\ DayOf(TrendStart) + i - 1 \in Int /\ TrendStart <= TrendStart + (i - 1) * DayLen
    BY <1>0, <2>1, <2>2, SMT
  <2> QED BY <2>2, <2>3
<1>2. \A f \in DOMAIN uploadedAt : BucketDay(f) = k <=> a <= uploadedAt[f] /\ uploadedAt[f] < b
  <2> SUFFICES ASSUME NEW f \in DOMAIN uploadedAt
               PROVE  BucketDay(f) = k <=> a <= uploadedAt[f] /\ uploadedAt[f] < b
    OBVIOUS
  <2>1. uploadedAt[f] \in Int
    BY <1>0
  <2>2. DayOf(uploadedAt[f]) = k
          <=> k * DayLen <= uploadedAt[f] /\ uploadedAt[f] < k * DayLen + DayLen
    BY <1>1, <2>1, DayBounds
  <2> QED BY <1>1, <2>2 DEF BucketDay
<1>3. Bucket(i) = Since(a) \ Since(b)
  <2>1. \A f \in DOMAIN uploadedAt :
          (uploadedAt[f] >= TrendStart /\ a <= uploadedAt[f] /\ uploadedAt[f] < b)
            <=> (uploadedAt[f] >= a /\ ~(uploadedAt[f] >= b))
    BY <1>0, <1>1, SMT
  <2> QED BY <1>1, <1>2, <2>1 DEF Bucket, Since
<1>4. Since(a) \cap Since(b) = Since(b)
  <2>1. \A f \in DOMAIN uploadedAt : uploadedAt[f] >= b => uploadedAt[f] >= a
    BY <1>0, <1>1, SMT
  <2> QED BY <2>1 DEF Since
<1>5. IsFiniteSet(Since(a))
  BY SinceFinite DEF DashInv
<1>6. /\ IsFiniteSet(Since(a) \ Since(b))
      /\ Cardinality(Since(a) \ Since(b)) = Cardinality(Since(a)) - Cardinality(Since(a) \cap Since(b))
  BY <1>5, FS_Difference
<1>7. Cardinality(Bucket(i)) \in Nat
  BY <1>3, <1>6, FS_CardinalityType
<1> QED BY <1>1, <1>3, <1>4, <1>6, <1>7

\* The invariant holds at the start.
LEMMA DashStarts == DashInit => DashInv
<1> SUFFICES ASSUME DashInit PROVE DashInv
  OBVIOUS
<1>1. clock \in 0..Horizon /\ dash \in DashType
  BY DashAssumption, SMT DEF DashInit, NoStats, DashType
<1>2. DOMAIN uploadedAt = {}
  BY SMT DEF DashInit
<1>3. dash.pc = "none"
  BY DEF DashInit, NoStats
<1> QED BY <1>1, <1>2, <1>3, FS_EmptySet DEF DashInv

\* The steps of the request: the files stay as they are.
LEMMA RequestStep ==
  ASSUME DashInv,
         \/ Dashboard \/ CountFiles \/ CountToday \/ UploadTrend \/ QueryFails \/ StatsAnswered
  PROVE  DashInv'
<1>1. UNCHANGED <<clock, uploadedAt>>
  BY DEF Dashboard, CountFiles, CountToday, UploadTrend, QueryFails, StatsAnswered
<1>2. /\ IsFiniteSet(DOMAIN uploadedAt) /\ Cardinality(DOMAIN uploadedAt) \in Nat
      /\ \A t : Cardinality(Since(t)) \in Nat
  BY SinceFinite DEF DashInv
<1>3. NoStats \in DashType /\ NoStats.pc = "none"
  BY DashAssumption, SMT DEF NoStats, DashType
<1>4. CASE Dashboard
  <2>1. PICK w : w = [NoStats EXCEPT !.pc = "files"]
    OBVIOUS
  <2>2. w \in DashType /\ w.pc = "files"
    BY <1>3, <2>1 DEF DashType
  <2>3. dash' = [w EXCEPT !.now = clock]
    BY <1>4, <2>1, SMT DEF Dashboard, NoStats
  <2>4. dash' \in DashType /\ dash'.pc = "files"
    BY <2>2, <2>3 DEF DashType, DashInv
  <2> QED BY <1>1, <2>4 DEF DashInv
<1>5. CASE CountFiles
  <2>1. PICK w : w = [dash EXCEPT !.pc = "today"]
    OBVIOUS
  <2>2. w \in DashType /\ w.pc = "today" /\ w.calm = dash.calm
    BY <2>1 DEF DashType, DashInv
  <2>3. dash' = [w EXCEPT !.files = Cardinality(DOMAIN uploadedAt)]
    BY <1>5, <2>1, SMT DEF CountFiles, DashInv, DashType
  <2>4. /\ dash' \in DashType /\ dash'.pc = "today" /\ dash'.calm = dash.calm
        /\ dash'.files = Cardinality(DOMAIN uploadedAt)
    BY <1>2, <2>2, <2>3 DEF DashType
  <2> QED BY <1>1, <2>4 DEF DashInv
<1>6. CASE CountToday
  <2>1. PICK w : w = [dash EXCEPT !.pc = "trend"]
    OBVIOUS
  <2>2. w \in DashType /\ w.pc = "trend" /\ w.calm = dash.calm /\ w.files = dash.files
        /\ w.now = dash.now
    BY <2>1 DEF DashType, DashInv
  <2>3. dash' = [w EXCEPT !.today = Cardinality(Since(TodayStart))]
    BY <1>6, <2>1, SMT DEF CountToday, DashInv, DashType
  <2>4. /\ dash' \in DashType /\ dash'.pc = "trend" /\ dash'.calm = dash.calm
        /\ dash'.files = dash.files /\ dash'.today = Cardinality(Since(TodayStart))
        /\ dash'.now = dash.now
    BY <1>2, <2>2, <2>3 DEF DashType
  <2>5. Since(TodayStart)' = Since(TodayStart)
    BY <1>1, <2>4 DEF Since, TodayStart
  <2> QED BY <1>1, <1>6, <2>4, <2>5 DEF DashInv, CountToday
<1>7. CASE UploadTrend
  <2>1. PICK w : w = [dash EXCEPT !.pc = "done"]
    OBVIOUS
  <2>2. w \in DashType /\ w.pc = "done" /\ w.calm = dash.calm /\ w.files = dash.files
        /\ w.now = dash.now /\ w.today = dash.today
    BY <2>1 DEF DashType, DashInv
  <2>3. PICK tr : tr = [i \in 1..TrendDays |-> Cardinality(Bucket(i))]
    OBVIOUS
  <2>4. tr \in [1..TrendDays -> Nat]
    BY <2>3, BucketCounts
  <2>5. dash' = [w EXCEPT !.trend = tr]
    BY <1>7, <2>1, <2>3, SMT DEF UploadTrend, Bucket, DashInv, DashType
  <2>6. /\ dash' \in DashType /\ dash'.pc = "done" /\ dash'.calm = dash.calm
        /\ dash'.files = dash.files /\ dash'.today = dash.today
        /\ dash'.now = dash.now /\ dash'.trend = tr
    BY <2>2, <2>4, <2>5 DEF DashType
  <2>7. Since(TodayStart)' = Since(TodayStart) /\ \A i \in 1..TrendDays : Bucket(i)' = Bucket(i)
    BY <1>1, <2>6 DEF Since, TodayStart, Bucket, TrendStart, BucketDay
  <2>8. dash'.trend = [i \in 1..TrendDays |-> Cardinality(Bucket(i)')]
    BY <2>3, <2>6, <2>7
  <2> QED BY <1>1, <1>7, <2>6, <2>7, <2>8 DEF DashInv, UploadTrend
<1>8. CASE QueryFails \/ StatsAnswered
  <2>1. dash' = NoStats
    BY <1>8 DEF QueryFails, StatsAnswered
  <2> QED BY <1>1, <1>3, <2>1 DEF DashInv
<1> QED BY <1>4, <1>5, <1>6, <1>7, <1>8

\* A file is indexed: the request under way is disturbed.
LEMMA IndexedStep ==
  ASSUME DashInv, NEW f \in StatFile, FileIndexed(f)
  PROVE  DashInv'
<1>1. PICK t \in 0..Horizon :
        uploadedAt' = [g \in DOMAIN uploadedAt \cup {f} |-> IF g = f THEN t ELSE uploadedAt[g]]
  BY DEF FileIndexed
<1>2. DOMAIN uploadedAt' = DOMAIN uploadedAt \cup {f}
  BY <1>1
<1>3. IsFiniteSet(DOMAIN uploadedAt')
  <2>1. PICK S : S = DOMAIN uploadedAt
    OBVIOUS
  <2>2. IsFiniteSet(S)
    BY <2>1 DEF DashInv
  <2>3. IsFiniteSet(S \cup {f})
    BY <2>2, FS_AddElement
  <2> QED BY <1>2, <2>1, <2>3
<1>4. \A g \in DOMAIN uploadedAt' : uploadedAt'[g] \in 0..Horizon
  BY <1>1 DEF DashInv
<1>5. PICK c \in BOOLEAN : c = (dash.pc = "none")
  OBVIOUS
<1>6. dash' = [dash EXCEPT !.calm = c] /\ clock' = clock
  BY <1>5 DEF FileIndexed
<1>7. dash' \in DashType /\ dash'.calm = c /\ dash'.pc = dash.pc
  BY <1>6 DEF DashInv, DashType
<1> QED BY <1>3, <1>4, <1>5, <1>6, <1>7 DEF DashInv

\* Every step keeps it.
LEMMA DashStep == DashInv /\ [DashNext]_dashVars => DashInv'
<1> SUFFICES ASSUME DashInv, [DashNext]_dashVars PROVE DashInv'
  OBVIOUS
<1>1. CASE UNCHANGED <<uploadedAt, dash>> /\ clock' \in 0..Horizon
  <2>1. /\ Since(TodayStart)' = Since(TodayStart)
        /\ \A i \in 1..TrendDays : Bucket(i)' = Bucket(i)
    BY <1>1 DEF Since, TodayStart, Bucket, TrendStart, BucketDay
  <2>2. [i \in 1..TrendDays |-> Cardinality(Bucket(i)')]
        = [i \in 1..TrendDays |-> Cardinality(Bucket(i))]
    BY <2>1
  <2> QED BY <1>1, <2>1, <2>2 DEF DashInv
<1>2. CASE HourPasses
  <2>1. clock' \in 0..Horizon
    BY <1>2, DashAssumption, SMT DEF HourPasses, DashInv
  <2> QED BY <1>1, <1>2, <2>1 DEF HourPasses
<1>3. CASE UNCHANGED dashVars
  BY <1>1, <1>3 DEF dashVars, DashInv
<1> QED BY <1>2, <1>3, RequestStep, IndexedStep DEF DashNext

\* The trend, today's number and the number of files agree, for every length of the day and
\* of the window, every offset of the session and however late the queries run.
THEOREM FiguresAlwaysAgree == DashSpec => []FiguresAgree
<1>1. DashInv => FiguresAgree
  <2> SUFFICES ASSUME DashInv, dash.pc = "done", dash.calm
               PROVE  /\ dash.today = dash.trend[TrendDays] + Cardinality(Since(TodayStart + DayLen))
                      /\ \A i \in 1..TrendDays :
                           dash.trend[i] = Cardinality(Since(TrendStart + (i - 1) * DayLen))
                                           - Cardinality(Since(TrendStart + i * DayLen))
                      /\ dash.files >= dash.today
    BY DEF FiguresAgree
  <2>1. \A i \in 1..TrendDays : dash.trend[i] = Cardinality(Bucket(i))
    BY DEF DashInv
  <2>2. TrendDays \in 1..TrendDays /\ dash.now \in Int
    BY DashAssumption, SMT DEF DashInv, DashType
  <2>3. /\ TrendStart + (TrendDays - 1) * DayLen = TodayStart
        /\ TrendStart + TrendDays * DayLen = TodayStart + DayLen
    BY <2>2, WindowDays, SMT
  <2>4. dash.trend[TrendDays] = Cardinality(Since(TodayStart)) - Cardinality(Since(TodayStart + DayLen))
    BY <2>1, <2>2, <2>3, BucketCounts
  <2>5. /\ dash.files = Cardinality(DOMAIN uploadedAt) /\ dash.today = Cardinality(Since(TodayStart))
        /\ IsFiniteSet(DOMAIN uploadedAt)
    BY DEF DashInv
  <2>6. dash.today = dash.trend[TrendDays] + Cardinality(Since(TodayStart + DayLen))
    <3>1. Cardinality(Since(TodayStart)) \in Nat /\ Cardinality(Since(TodayStart + DayLen)) \in Nat
      BY <2>5, SinceFinite
    <3> QED BY <2>4, <2>5, <3>1, SMT
  <2>7. dash.files >= dash.today
    <3>1. /\ Cardinality(Since(TodayStart)) \in Nat /\ Cardinality(DOMAIN uploadedAt) \in Nat
          /\ Cardinality(Since(TodayStart)) <= Cardinality(DOMAIN uploadedAt)
      BY <2>5, SinceFinite
    <3> QED BY <2>5, <3>1, SMT
  <2> QED BY <2>1, <2>6, <2>7, BucketCounts
<1> QED BY <1>1, DashStarts, DashStep, PTL DEF DashSpec

-----------------------------------------------------------------------------
(* AgentEnrolment: the token, the name and the decisions.                  *)

EnrRow == [status: UsableRow \cup {"none", "pending", "revoked"}, name: AgentName \cup {"none"}]
Running == {"run", "reauth", "connected"}
Enrolled == {"poll", "run", "reauth", "connected"}

\* The inductive invariant: besides the types, every token there is names the agent,
\* and there is one only when the agent has a row.
EnrInv ==
  /\ row \in EnrRow /\ memory \in EnrToken /\ file \in EnrToken /\ reply \in EnrToken
  /\ agent \in {"down", "register"} \cup Enrolled
  /\ reply # NoToken => agent \in {"poll", "reauth"} /\ reply.name \in AgentName
  /\ file # NoToken => Registered /\ file.name \in AgentName
  /\ Registered => row.name \in AgentName
  /\ agent \in Enrolled => Registered
  /\ agent \in Running => memory # NoToken /\ label \in AgentName

\* What DecisionStands says of one step.
Stands ==
  row.status \notin {"none", "pending"} =>
    /\ row'.status \notin {"none", "pending"}
    /\ row'.name # row.name => agent' = agent

-----------------------------------------------------------------------------
LEMMA NoTokenIs == NoToken \in EnrToken /\ NoToken.age = "none"
BY SMT DEF NoToken, EnrToken

LEMMA FreshIsSome ==
  ASSUME NEW t \in EnrToken, t.age # "none" PROVE t # NoToken
BY NoTokenIs

LEMMA AgedIs ==
  ASSUME NEW t \in EnrToken, NEW a \in {"fresh", "aging"}, NEW b \in {"aging", "expired"}
  PROVE  /\ Aged(t, a, b) \in EnrToken
         /\ t = NoToken <=> Aged(t, a, b) = NoToken
         /\ Aged(t, a, b).name = t.name
<1>1. CASE t.age # a
  BY <1>1 DEF Aged
<1>2. CASE t.age = a
  <2>1. PICK u : u = [t EXCEPT !.age = b]
    OBVIOUS
  <2>2. u \in EnrToken /\ u.age = b /\ u.name = t.name
    BY <2>1, SMT DEF EnrToken
  <2>3. t.age # "none" /\ u.age # "none" /\ Aged(t, a, b) = u
    BY <1>2, <2>1, <2>2 DEF Aged
  <2> QED BY <2>2, <2>3, FreshIsSome
<1> QED BY <1>1, <1>2

LEMMA StatusSet ==
  ASSUME NEW s \in UsableRow \cup {"pending", "revoked"}, row \in EnrRow, UpdateAgentStatus(s)
  PROVE  row' \in EnrRow /\ row'.status = s /\ row'.name = row.name
BY SMT DEF UpdateAgentStatus, EnrRow, UsableRow

LEMMA OfflineIs ==
  ASSUME row \in EnrRow, GoesOffline
  PROVE  /\ row' \in EnrRow /\ row'.name = row.name
         /\ row'.status = row.status \/ (row.status = "online" /\ row'.status = "offline")
<1>1. CASE row.status = "online"
  <2>1. UpdateAgentStatus("offline") /\ "offline" \in UsableRow \cup {"pending", "revoked"}
    BY <1>1 DEF GoesOffline, UsableRow
  <2> QED BY <1>1, <2>1, StatusSet
<1>2. CASE row.status # "online"
  BY <1>2 DEF GoesOffline
<1> QED BY <1>1, <1>2

\* The administrator changes the status of a registered agent.
LEMMA StatusStep ==
  ASSUME EnrInv, Registered, NEW s \in UsableRow \cup {"revoked"}, UpdateAgentStatus(s),
         UNCHANGED <<agent, memory, file, reply, label>>
  PROVE  EnrInv' /\ Stands
<1>1. row' \in EnrRow /\ row'.status = s /\ row'.name = row.name
  BY StatusSet DEF EnrInv
<1>2. s \notin {"none", "pending"}
  BY DEF UsableRow
<1> QED BY <1>1, <1>2 DEF EnrInv, Registered, Stands

LEMMA RenameStep ==
  ASSUME EnrInv, AdminRenames
  PROVE  EnrInv' /\ Stands
<1>1. PICK n \in AgentName : row' = [row EXCEPT !.name = n]
  BY DEF AdminRenames, UpdateAgentName
<1>2. row' \in EnrRow /\ row'.status = row.status /\ row'.name = n
  BY <1>1, SMT DEF EnrInv, EnrRow
<1>3. UNCHANGED <<agent, memory, file, reply, label>>
  BY DEF AdminRenames
<1> QED BY <1>2, <1>3 DEF EnrInv, Registered, Stands

LEMMA StartsStep ==
  ASSUME EnrInv, AgentStarts
  PROVE  EnrInv' /\ Stands
<1>1. UNCHANGED <<row, file, reply>> /\ agent = "down"
  BY DEF AgentStarts
<1>2. CASE file.age = "fresh"
  <2>1. agent' = "run" /\ memory' = file /\ label' = file.name
    BY <1>2 DEF AgentStarts
  <2>2. file # NoToken
    BY <1>2, FreshIsSome DEF EnrInv
  <2> QED BY <1>1, <2>1, <2>2 DEF EnrInv, Registered, Stands, Enrolled, Running
<1>3. CASE file.age # "fresh"
  BY <1>1, <1>3 DEF AgentStarts, EnrInv, Registered, Stands, Enrolled, Running
<1> QED BY <1>2, <1>3

LEMMA RegistersStep ==
  ASSUME EnrInv, AgentRegisters
  PROVE  EnrInv' /\ Stands
<1>1. /\ UNCHANGED <<memory, file, reply>> /\ agent = "register" /\ agent' = "poll"
      /\ IF Registered THEN UNCHANGED row ELSE CreateAgent
  BY DEF AgentRegisters
<1>2. CASE Registered
  BY <1>1, <1>2 DEF EnrInv, Registered, Stands, Enrolled, Running
<1>3. CASE ~Registered
  <2>1. row' = [status |-> "pending", name |-> Hostname]
    BY <1>1, <1>3 DEF CreateAgent
  <2>2. row' \in EnrRow /\ row'.status = "pending" /\ row'.name \in AgentName
    BY <2>1, EnrAssumption, SMT DEF EnrRow
  <2> QED BY <1>1, <1>3, <2>2 DEF EnrInv, Registered, Stands, Enrolled, Running
<1> QED BY <1>2, <1>3

LEMMA PollStep ==
  ASSUME EnrInv, PollAnswered \/ PollFails
  PROVE  EnrInv' /\ Stands
<1>1. /\ UNCHANGED <<row, memory, file, label>> /\ agent \in {"poll", "reauth"}
      /\ agent' \in {agent, IF agent = "poll" THEN "poll" ELSE "run"}
  BY DEF PollAnswered, PollFails
<1>2. /\ agent' \in Enrolled /\ agent' \in Running => agent \in Running
  BY <1>1 DEF Enrolled, Running
<1>3. reply' \in EnrToken /\ (reply' # NoToken => agent' \in {"poll", "reauth"} /\ reply'.name \in AgentName)
  <2>1. CASE PollFails \/ ~Mints
    BY <1>1, <2>1, NoTokenIs DEF PollAnswered, PollFails, EnrInv
  <2>2. CASE PollAnswered /\ Mints
    <3>1. reply' = [age |-> "fresh", name |-> row.name] /\ agent' = agent
      BY <2>2 DEF PollAnswered, TokenMinted
    <3>2. row.name \in AgentName
      BY <2>2 DEF Mints, EnrInv, Registered
    <3>3. reply' \in EnrToken /\ reply'.name = row.name
      BY <3>1, <3>2, SMT DEF EnrToken
    <3> QED BY <1>1, <3>1, <3>2, <3>3
  <2> QED BY <2>1, <2>2
<1>4. Registered
  BY <1>1 DEF EnrInv, Enrolled
<1>5. Stands
  BY <1>1 DEF Stands
<1> QED BY <1>1, <1>2, <1>3, <1>4, <1>5 DEF EnrInv, Registered, Enrolled

LEMMA SavedStep ==
  ASSUME EnrInv, TokenSaved
  PROVE  EnrInv' /\ Stands
<1>1. /\ reply # NoToken /\ agent \in {"poll", "reauth"} /\ UNCHANGED row
      /\ memory' = reply /\ file' = reply /\ reply' = NoToken /\ agent' = "run"
      /\ label' = IF agent = "poll" THEN reply.name ELSE label
  BY DEF TokenSaved
<1>2. label' \in AgentName
  BY <1>1 DEF EnrInv, Running
<1> QED BY <1>1, <1>2, NoTokenIs DEF EnrInv, Registered, Stands, Enrolled, Running

LEMMA NotSavedStep ==
  ASSUME EnrInv, TokenNotSaved
  PROVE  EnrInv' /\ Stands
<1>1. /\ reply # NoToken /\ agent \in {"poll", "reauth"} /\ UNCHANGED <<row, file>> /\ reply' = NoToken
  BY DEF TokenNotSaved
<1>2. \/ agent' = "down" /\ UNCHANGED memory
      \/ agent = "reauth" /\ agent' = "run" /\ memory' = reply /\ UNCHANGED label
  BY <1>1 DEF TokenNotSaved
<1> QED BY <1>1, <1>2, NoTokenIs DEF EnrInv, Registered, Stands, Enrolled, Running

LEMMA AcceptedStep ==
  ASSUME EnrInv, StreamAccepted
  PROVE  EnrInv' /\ Stands
<1>1. /\ agent = "run" /\ row.status \in UsableRow /\ agent' = "connected" /\ UpdateAgentStatus("online")
      /\ UNCHANGED <<memory, file, reply, label>>
  BY DEF StreamAccepted
<1>2. row' \in EnrRow /\ row'.status = "online" /\ row'.name = row.name
  BY <1>1, StatusSet DEF EnrInv, UsableRow
<1>3. Registered
  BY <1>1 DEF Registered, UsableRow
<1> QED BY <1>1, <1>2, <1>3 DEF EnrInv, Registered, Stands, Enrolled, Running

LEMMA RefusedStep ==
  ASSUME EnrInv, StreamUnauthenticated
  PROVE  EnrInv' /\ Stands
BY DEF StreamUnauthenticated, EnrInv, Registered, Stands, Enrolled, Running

LEMMA RevokeDeliveredStep ==
  ASSUME EnrInv, RevokeDelivered
  PROVE  EnrInv' /\ Stands
BY NoTokenIs DEF RevokeDelivered, EnrInv, Registered, Stands, Enrolled, Running

LEMMA LostStep ==
  ASSUME EnrInv, StreamLost \/ AgentCrashes
  PROVE  EnrInv' /\ Stands
<1>1. /\ row' \in EnrRow /\ row'.name = row.name
      /\ row'.status = row.status \/ (row.status = "online" /\ row'.status = "offline")
  BY OfflineIs DEF EnrInv, StreamLost, AgentCrashes
<1>2. (Registered' <=> Registered) /\ Stands
  BY <1>1 DEF Registered, Stands
<1>3. CASE StreamLost
  BY <1>1, <1>2, <1>3 DEF EnrInv, StreamLost, Enrolled, Running
<1>4. CASE AgentCrashes
  BY <1>1, <1>2, <1>4, NoTokenIs DEF EnrInv, AgentCrashes, Enrolled, Running
<1> QED BY <1>3, <1>4

LEMMA AgesStep ==
  ASSUME EnrInv, TokenAges
  PROVE  EnrInv' /\ Stands
<1>1. PICK a, b \in {"fresh", "aging", "expired"} :
        /\ <<a, b>> \in {<<"fresh", "aging">>, <<"aging", "expired">>}
        /\ memory' = Aged(memory, a, b) /\ file' = Aged(file, a, b)
  BY DEF TokenAges
<1>2. a \in {"fresh", "aging"} /\ b \in {"aging", "expired"}
  BY <1>1
<1>3. /\ memory' \in EnrToken /\ (memory = NoToken <=> memory' = NoToken)
      /\ file' \in EnrToken /\ (file = NoToken <=> file' = NoToken) /\ file'.name = file.name
  BY <1>1, <1>2, AgedIs DEF EnrInv
<1>4. UNCHANGED <<row, agent, reply, label>>
  BY DEF TokenAges
<1> QED BY <1>3, <1>4 DEF EnrInv, Registered, Stands

-----------------------------------------------------------------------------
LEMMA EnrInitInv == EnrInit => EnrInv
<1>1. ASSUME row = [status |-> "none", name |-> "none"] PROVE row \in EnrRow /\ row.status = "none"
  BY <1>1, SMT DEF EnrRow
<1> QED BY <1>1, NoTokenIs DEF EnrInit, EnrInv, Registered, Enrolled, Running

LEMMA EnrNextInv == EnrInv /\ [EnrNext]_enrVars => EnrInv' /\ Stands
<1> SUFFICES ASSUME EnrInv, [EnrNext]_enrVars PROVE EnrInv' /\ Stands
  OBVIOUS
<1>1. CASE AgentStep
  BY <1>1, StartsStep, RegistersStep, PollStep, SavedStep, AcceptedStep, RefusedStep DEF AgentStep
<1>2. CASE AdminApproves \/ AdminRevokes
  <2>1. "approved" \in UsableRow \cup {"revoked"} /\ "revoked" \in UsableRow \cup {"revoked"}
    BY DEF UsableRow
  <2> QED BY <1>2, <2>1, StatusStep DEF AdminApproves, AdminRevokes
<1>3. CASE UNCHANGED enrVars
  BY <1>3 DEF enrVars, EnrInv, Registered, Stands
<1> QED BY <1>1, <1>2, <1>3, PollStep, NotSavedStep, RenameStep, RevokeDeliveredStep, LostStep,
           AgesStep DEF EnrNext

LEMMA EnrInvHolds == EnrInv => EnrTypeOK /\ IdentityKnown
BY DEF EnrInv, EnrTypeOK, IdentityKnown, EnrRow, Enrolled, Running

\* For every set of names: an agent past registration always has a token to send and
\* knows its name, over restarts, lost answers and failed saves, and registering again
\* never undoes what the administrator decided on its status or its name.
THEOREM EnrolmentSafe == EnrSpec => []EnrTypeOK /\ []IdentityKnown /\ DecisionStands
<1>1. EnrInv /\ [EnrNext]_enrVars => EnrInv' /\ [Stands]_enrVars
  BY EnrNextInv
<1> QED BY <1>1, EnrInitInv, EnrInvHolds, PTL DEF EnrSpec, DecisionStands, Stands

-----------------------------------------------------------------------------
(* AgentPresence: the marker and the revocation.                           *)

\* Between Register and Unregister: the handler owns the entry, or was cancelled by
\* the one that does.
Connected == {"setkey", "mark", "sync", "live", "heal"}
Fields == {"pc", "end", "degraded", "unmarked"}

HandlerOK(s) ==
  /\ DOMAIN handler[s] = Fields
  /\ handler[s].pc \in Connected => current = s \/ Cancelled(s)
  /\ Serving(s) /\ current = s /\ ~handler[s].degraded => ~degradedKey

HandlersOK ==
  /\ DOMAIN handler = Stream /\ current \in Stream \cup {NoStream}
  /\ current # NoStream => handler[current].pc \in Connected \cup {"returned"}
  /\ \A s \in Stream : HandlerOK(s)

\* The inductive invariant.
PrsInv ==
  /\ status \in Usable \cup {"revoked"}
  /\ onlineKey \in BOOLEAN /\ degradedKey \in BOOLEAN
  /\ HandlersOK

\* What RevokedStays says of one step.
Stays == status = "revoked" => status' \in {"revoked", "approved"}

LEMMA NoHandlerFields ==
  DOMAIN NoHandler = Fields /\ NoHandler.pc = "free" /\ NoHandler.pc \notin Connected
<1>1. DOMAIN NoHandler = Fields /\ NoHandler.pc = "free"
  BY SMT DEF NoHandler, Fields
<1> QED BY <1>1 DEF Connected

LEMMA ServingIsConnected == \A s : Serving(s) => handler[s].pc \in Connected
BY DEF Serving, Connected

\* The three conditional updates leave a revoked agent revoked.
LEMMA StatusUpdates ==
  ASSUME status \in Usable \cup {"revoked"},
         \/ MarkAgentOnlineIfUsable \/ MarkAgentOnlineIfOffline \/ MarkAgentOfflineIfOnline
         \/ UNCHANGED status
  PROVE  status' \in Usable \cup {"revoked"} /\ Stays
BY DEF MarkAgentOnlineIfUsable, MarkAgentOnlineIfOffline, MarkAgentOfflineIfOnline, Usable, Stays

\* A handler gets another record, and owns the entry or not as before.
LEMMA OneHandler ==
  ASSUME PrsInv, NEW s \in Stream, NEW h, handler' = [handler EXCEPT ![s] = h],
         DOMAIN h = Fields,
         h.pc \in Connected => handler[s].pc \in Connected /\ h.end = handler[s].end,
         current' = current,
         current = s => h.pc \in Connected \cup {"returned"},
         degradedKey' \in BOOLEAN,
         degradedKey' => degradedKey \/ (current = s /\ h.degraded),
         h.pc \in {"live", "heal"} /\ current = s /\ ~h.degraded => ~degradedKey'
  PROVE  HandlersOK'
<1>1. DOMAIN handler' = Stream /\ handler'[s] = h
  BY DEF PrsInv, HandlersOK
<1>2. \A t \in Stream : t # s => handler'[t] = handler[t]
  BY DEF PrsInv, HandlersOK
<1>3. current' # NoStream => handler'[current'].pc \in Connected \cup {"returned"}
  BY <1>1, <1>2 DEF PrsInv, HandlersOK
<1>4. ASSUME NEW t \in Stream PROVE HandlerOK(t)'
  <2>0. HandlerOK(t)
    BY DEF PrsInv, HandlersOK
  <2>1. CASE t = s
    <3>1. handler'[t] = h
      BY <1>1, <2>1
    <3>2. h.pc \in Connected => current' = t \/ h.end = "cancel"
      BY <2>0, <2>1 DEF HandlerOK, Cancelled
    <3>3. h.pc \in {"live", "heal"} /\ current' = t /\ ~h.degraded => ~degradedKey'
      BY <2>1
    <3> QED BY <3>1, <3>2, <3>3 DEF HandlerOK, Cancelled, Serving
  <2>2. CASE t # s
    <3>1. handler'[t] = handler[t]
      BY <1>2, <2>2
    <3>2. handler[t].pc \in {"live", "heal"} /\ current' = t /\ ~handler[t].degraded => ~degradedKey'
      BY <2>0, <2>2 DEF HandlerOK, Serving
    <3> QED BY <2>0, <3>1, <3>2 DEF HandlerOK, Cancelled, Serving
  <2> QED BY <2>1, <2>2
<1> QED BY <1>1, <1>3, <1>4 DEF PrsInv, HandlersOK

\* Only the program counter of a connected handler changes.
LEMMA Stepped ==
  ASSUME PrsInv, NEW s \in Stream, NEW p, Step(s, p), handler[s].pc \in Connected, p \in Connected,
         current' = current, degradedKey' \in BOOLEAN,
         degradedKey' => degradedKey \/ (current = s /\ handler[s].degraded),
         p \in {"live", "heal"} /\ current = s /\ ~handler[s].degraded => ~degradedKey'
  PROVE  HandlersOK'
<1>1. PICK h : h = [handler[s] EXCEPT !.pc = p]
  OBVIOUS
<1>2. handler' = [handler EXCEPT ![s] = h]
  BY <1>1 DEF Step
<1>3. DOMAIN handler[s] = Fields
  BY DEF PrsInv, HandlersOK, HandlerOK
<1>4. DOMAIN h = Fields /\ h.pc = p /\ h.end = handler[s].end /\ h.degraded = handler[s].degraded
  BY <1>1, <1>3 DEF Fields
<1> QED BY <1>2, <1>4, OneHandler

\* A handler that returned, or is free again, owns nothing it could claim.
LEMMA Left ==
  ASSUME PrsInv, NEW s \in Stream,
         \/ Return(s) /\ handler[s].pc \in Connected
         \/ Done(s) /\ current # s,
         UNCHANGED current, degradedKey' = degradedKey
  PROVE  HandlersOK'
<1>1. CASE Return(s)
  <2>1. PICK h : h = [NoHandler EXCEPT !.pc = "returned"]
    OBVIOUS
  <2>2. handler' = [handler EXCEPT ![s] = h]
    BY <1>1, <2>1 DEF Return
  <2>3. DOMAIN h = Fields /\ h.pc = "returned" /\ h.pc \notin Connected
    BY <2>1, NoHandlerFields DEF Fields, Connected
  <2> QED BY <2>2, <2>3, OneHandler DEF PrsInv, HandlersOK
<1>2. CASE Done(s) /\ current # s
  <2>1. handler' = [handler EXCEPT ![s] = NoHandler]
    BY <1>2 DEF Done
  <2>2. PICK h : h = NoHandler
    OBVIOUS
  <2>3. DOMAIN h = Fields /\ h.pc \notin Connected /\ h.pc = "free"
    BY <2>2, NoHandlerFields
  <2> QED BY <1>2, <2>1, <2>2, <2>3, OneHandler DEF PrsInv, HandlersOK
<1> QED BY <1>1, <1>2

\* A handler outside the connection moves on.
LEMMA Apart ==
  ASSUME PrsInv, NEW s \in Stream, NEW p, Step(s, p), p \notin Connected,
         handler[s].pc \notin Connected \cup {"returned"},
         UNCHANGED current, degradedKey' \in BOOLEAN, degradedKey' => degradedKey
  PROVE  HandlersOK' /\ current # s
<1>1. PICK h : h = [handler[s] EXCEPT !.pc = p]
  OBVIOUS
<1>2. handler' = [handler EXCEPT ![s] = h]
  BY <1>1 DEF Step
<1>3. DOMAIN handler[s] = Fields /\ current # s
  BY PresenceAssumption DEF PrsInv, HandlersOK, HandlerOK
<1>4. DOMAIN h = Fields /\ h.pc = p
  BY <1>1, <1>3 DEF Fields
<1>5. h.pc \notin {"live", "heal"}
  BY <1>4 DEF Connected
<1> QED BY <1>2, <1>3, <1>4, <1>5, OneHandler

\* Nothing of the handlers changes, and the marker does not appear.
LEMMA HandlersSame ==
  ASSUME PrsInv, UNCHANGED <<handler, current>>, degradedKey' => degradedKey
  PROVE  HandlersOK'
BY DEF PrsInv, HandlersOK, HandlerOK, Serving, Cancelled

\* The new connection owns the entry and cancels the one that did.
LEMMA RegisterStreamStep ==
  ASSUME PrsInv, NEW s \in Stream, RegisterStream(s)
  PROVE  HandlersOK'
<1>1. /\ handler[s].pc = "register" /\ current' = s /\ degradedKey' = degradedKey
      /\ DOMAIN handler' = Stream
  BY DEF RegisterStream, At, cacheVars
<1>2. current # s
  BY <1>1, PresenceAssumption DEF PrsInv, HandlersOK, Connected
<1>3. handler'[s].pc = "setkey" /\ DOMAIN handler'[s] = Fields
  <2>1. PICK h : h = [handler[s] EXCEPT !.pc = "setkey"]
    OBVIOUS
  <2>2. handler'[s] = h
    BY <1>2, <2>1 DEF RegisterStream
  <2>3. DOMAIN handler[s] = Fields
    BY DEF PrsInv, HandlersOK, HandlerOK
  <2> QED BY <2>1, <2>2, <2>3 DEF Fields
<1>4. ASSUME NEW t \in Stream, t # s
      PROVE  /\ DOMAIN handler'[t] = Fields
             /\ handler'[t].pc \in Connected => handler'[t].end = "cancel"
  <2>0. HandlerOK(t)
    BY DEF PrsInv, HandlersOK
  <2>1. CASE t = current /\ ~At(t, "returned")
    <3>1. PICK h : h = [handler[t] EXCEPT !.end = "cancel"]
      OBVIOUS
    <3>2. handler'[t] = h
      BY <1>4, <2>1, <3>1 DEF RegisterStream
    <3>3. DOMAIN h = Fields /\ h.end = "cancel"
      BY <2>0, <3>1 DEF HandlerOK, Fields
    <3> QED BY <3>2, <3>3
  <2>2. CASE ~(t = current /\ ~At(t, "returned"))
    <3>1. handler'[t] = handler[t]
      BY <1>4, <2>2 DEF RegisterStream
    <3>2. handler[t].pc \in Connected => handler[t].end = "cancel"
      BY <2>0, <2>2 DEF HandlerOK, At, Cancelled, Connected
    <3> QED BY <2>0, <3>1, <3>2 DEF HandlerOK
  <2> QED BY <2>1, <2>2
<1>5. handler'[s].pc \in Connected /\ handler'[s].pc \notin {"live", "heal"}
  BY <1>3 DEF Connected
<1>6. ASSUME NEW t \in Stream PROVE HandlerOK(t)'
  <2>1. CASE t = s
    BY <1>1, <1>3, <1>5, <2>1 DEF HandlerOK, Serving
  <2>2. CASE t # s
    BY <1>1, <1>4, <2>2 DEF HandlerOK, Serving, Cancelled
  <2> QED BY <2>1, <2>2
<1> QED BY <1>1, <1>5, <1>6 DEF HandlersOK

LEMMA SetupStep ==
  ASSUME PrsInv, NEW s \in Stream, Setup(s)
  PROVE  PrsInv' /\ Stays
<1>0. status \in Usable \cup {"revoked"} /\ onlineKey \in BOOLEAN /\ degradedKey \in BOOLEAN
  BY DEF PrsInv
<1>00. /\ "setkey" \in Connected /\ "mark" \in Connected /\ "sync" \in Connected
       /\ "live" \in Connected /\ "heal" \in Connected
  BY DEF Connected
<1>000. handler[s].pc \in Connected /\ ~Cancelled(s) => current = s
  BY DEF PrsInv, HandlersOK, HandlerOK
<1>1. CASE RegisterStream(s)
  <2>1. UNCHANGED <<status, onlineKey, degradedKey>>
    BY <1>1 DEF RegisterStream, cacheVars
  <2> QED BY <1>0, <1>1, <2>1, RegisterStreamStep, StatusUpdates DEF PrsInv
<1>2. CASE SetOnlineKey(s)
  <2>1. /\ UNCHANGED <<status, degradedKey, current>> /\ onlineKey' \in BOOLEAN
        /\ handler[s].pc = "setkey" /\ Step(s, "mark")
    BY <1>0, <1>2 DEF SetOnlineKey, At, Cancelled
  <2>2. HandlersOK'
    BY <1>0, <1>00, <2>1, Stepped
  <2> QED BY <1>0, <2>1, <2>2, StatusUpdates DEF PrsInv
<1>3. CASE MarkConnected(s)
  <2>1. UNCHANGED <<onlineKey, degradedKey, current>> /\ handler[s].pc = "mark" /\ MarkAgentOnlineIfUsable
    BY <1>3 DEF MarkConnected, At, cacheVars
  <2>2. Step(s, "sync") \/ Return(s)
    BY <1>3 DEF MarkConnected
  <2>3. HandlersOK'
    BY <1>0, <1>00, <2>1, <2>2, Stepped, Left
  <2> QED BY <1>0, <2>1, <2>3, StatusUpdates DEF PrsInv
<1>4. CASE MarkConnectedFails(s)
  <2>1. UNCHANGED <<status, onlineKey, degradedKey, current>> /\ handler[s].pc = "mark"
    BY <1>4 DEF MarkConnectedFails, At, cacheVars
  <2>2. PICK h : h = [handler[s] EXCEPT !.pc = "sync", !.unmarked = TRUE]
    OBVIOUS
  <2>3. handler' = [handler EXCEPT ![s] = h]
    BY <1>4, <2>2 DEF MarkConnectedFails
  <2>4. DOMAIN handler[s] = Fields
    BY DEF PrsInv, HandlersOK, HandlerOK
  <2>5. DOMAIN h = Fields /\ h.pc = "sync" /\ h.end = handler[s].end
    BY <2>2, <2>4, SMT DEF Fields
  <2>6. HandlersOK'
    BY <1>0, <1>00, <2>1, <2>3, <2>5, OneHandler
  <2> QED BY <1>0, <2>1, <2>6, StatusUpdates DEF PrsInv
<1>5. CASE SyncComplete(s)
  <2>1. /\ UNCHANGED <<status, onlineKey, current>> /\ degradedKey' = FALSE
        /\ handler[s].pc = "sync" /\ Step(s, "live")
    BY <1>5 DEF SyncComplete, At
  <2>2. HandlersOK'
    BY <1>00, <2>1, Stepped
  <2> QED BY <1>0, <2>1, <2>2, StatusUpdates DEF PrsInv
<1>6. CASE SyncDegraded(s)
  <2>1. UNCHANGED <<status, onlineKey, current>> /\ degradedKey' = TRUE /\ handler[s].pc = "sync"
    BY <1>6 DEF SyncDegraded, At
  <2>2. current = s
    BY <1>00, <1>000, <1>6, <2>1 DEF SyncDegraded
  <2>3. PICK h : h = [handler[s] EXCEPT !.pc = "live", !.degraded = TRUE]
    OBVIOUS
  <2>4. handler' = [handler EXCEPT ![s] = h]
    BY <1>6, <2>3 DEF SyncDegraded
  <2>5. DOMAIN handler[s] = Fields
    BY DEF PrsInv, HandlersOK, HandlerOK
  <2>6. DOMAIN h = Fields /\ h.pc = "live" /\ h.end = handler[s].end /\ h.degraded
    BY <2>3, <2>5, SMT DEF Fields
  <2>7. HandlersOK'
    BY <1>00, <2>1, <2>2, <2>4, <2>6, OneHandler
  <2> QED BY <1>0, <2>1, <2>7, StatusUpdates DEF PrsInv
<1>7. CASE SyncFails(s)
  <2>1. UNCHANGED <<status, onlineKey, degradedKey, current>> /\ handler[s].pc = "sync" /\ Return(s)
    BY <1>7 DEF SyncFails, At, cacheVars
  <2>2. HandlersOK'
    BY <1>00, <2>1, Left
  <2> QED BY <1>0, <2>1, <2>2, StatusUpdates DEF PrsInv
<1> QED BY <1>1, <1>2, <1>3, <1>4, <1>5, <1>6, <1>7 DEF Setup

LEMMA LiveStep ==
  ASSUME PrsInv, NEW s \in Stream,
         Heartbeat(s) \/ HeartbeatHeals(s) \/ StreamEnds(s) \/ StreamBreaks(s)
  PROVE  PrsInv' /\ Stays
<1>0. status \in Usable \cup {"revoked"} /\ onlineKey \in BOOLEAN /\ degradedKey \in BOOLEAN
  BY DEF PrsInv
<1>00. "live" \in Connected /\ "heal" \in Connected
  BY DEF Connected
<1>000. /\ handler[s].pc \in Connected /\ ~Cancelled(s) => current = s
        /\ Serving(s) /\ current = s /\ ~handler[s].degraded => ~degradedKey
  BY DEF PrsInv, HandlersOK, HandlerOK
<1>1. CASE Heartbeat(s)
  <2>1. /\ UNCHANGED <<status, current>> /\ handler[s].pc = "live" /\ Step(s, "heal")
        /\ onlineKey' \in BOOLEAN
        /\ degradedKey' = (degradedKey \/ (handler[s].degraded /\ ~Cancelled(s)))
    BY <1>0, <1>1 DEF Heartbeat, At, Cancelled
  <2>2. /\ degradedKey' \in BOOLEAN /\ (degradedKey' => degradedKey \/ (current = s /\ handler[s].degraded))
        /\ current = s /\ ~handler[s].degraded => ~degradedKey'
    BY <1>0, <1>00, <1>000, <2>1 DEF Serving
  <2>3. HandlersOK'
    BY <1>00, <2>1, <2>2, Stepped
  <2> QED BY <1>0, <2>1, <2>2, <2>3, StatusUpdates DEF PrsInv
<1>2. CASE HeartbeatHeals(s)
  <2>1. /\ UNCHANGED <<onlineKey, degradedKey, current>> /\ handler[s].pc = "heal" /\ Step(s, "live")
        /\ UNCHANGED status \/ MarkAgentOnlineIfOffline
    BY <1>2 DEF HeartbeatHeals, At, cacheVars
  <2>2. HandlersOK'
    BY <1>0, <1>00, <1>000, <2>1, Stepped DEF Serving
  <2> QED BY <1>0, <2>1, <2>2, StatusUpdates DEF PrsInv
<1>3. CASE StreamEnds(s) \/ StreamBreaks(s)
  <2>1. UNCHANGED <<status, onlineKey, degradedKey, current>> /\ handler[s].pc = "live" /\ Return(s)
    BY <1>3 DEF StreamEnds, StreamBreaks, At, cacheVars
  <2>2. HandlersOK'
    BY <1>00, <2>1, Left
  <2> QED BY <1>0, <2>1, <2>2, StatusUpdates DEF PrsInv
<1> QED BY <1>1, <1>2, <1>3

LEMMA CleanUpStep ==
  ASSUME PrsInv, NEW s \in Stream, CleanUp(s)
  PROVE  PrsInv' /\ Stays
<1>0. status \in Usable \cup {"revoked"} /\ onlineKey \in BOOLEAN /\ degradedKey \in BOOLEAN
  BY DEF PrsInv
<1>00. /\ "delonline" \notin Connected \cup {"returned"} /\ "deldegraded" \notin Connected \cup {"returned"}
       /\ "offline" \notin Connected \cup {"returned"}
  BY DEF Connected
<1>1. CASE CleanUnregister(s)
  <2>1. UNCHANGED <<status, onlineKey, degradedKey>> /\ handler[s].pc = "returned"
    BY <1>1 DEF CleanUnregister, At, cacheVars
  <2>2. CASE current = s
    <3>1. current' = NoStream /\ handler' = [handler EXCEPT ![s].pc = "delonline"]
      BY <1>1, <2>2 DEF CleanUnregister, Step
    <3>2. DOMAIN handler' = Stream /\ \A t \in Stream : t # s => handler'[t] = handler[t]
      BY <3>1 DEF PrsInv, HandlersOK
    <3>3. DOMAIN handler[s] = Fields
      BY DEF PrsInv, HandlersOK, HandlerOK
    <3>4. handler'[s].pc = "delonline" /\ DOMAIN handler'[s] = Fields
      BY <3>1, <3>3 DEF PrsInv, HandlersOK, Fields
    <3>5. ASSUME NEW t \in Stream PROVE HandlerOK(t)'
      <4>1. current' # t
        BY <3>1, PresenceAssumption
      <4>2. CASE t = s
        BY <1>00, <3>4, <4>1, <4>2 DEF HandlerOK
      <4>3. CASE t # s
        <5>1. HandlerOK(t) /\ handler'[t] = handler[t]
          BY <3>2, <4>3 DEF PrsInv, HandlersOK
        <5> QED BY <2>2, <4>1, <4>3, <5>1 DEF HandlerOK, Cancelled
      <4> QED BY <4>2, <4>3
    <3>6. HandlersOK'
      BY <3>1, <3>2, <3>5 DEF HandlersOK
    <3> QED BY <1>0, <2>1, <3>6, StatusUpdates DEF PrsInv
  <2>3. CASE current # s
    <3>1. Done(s) /\ UNCHANGED current
      BY <1>1, <2>3 DEF CleanUnregister
    <3>2. HandlersOK'
      BY <2>1, <2>3, <3>1, Left
    <3> QED BY <1>0, <2>1, <3>2, StatusUpdates DEF PrsInv
  <2> QED BY <2>2, <2>3
<1>2. CASE CleanOnlineKey(s)
  <2>1. /\ UNCHANGED <<status, degradedKey, current>> /\ onlineKey' = FALSE
        /\ handler[s].pc = "delonline" /\ Step(s, "deldegraded")
    BY <1>2 DEF CleanOnlineKey, At
  <2>2. HandlersOK'
    BY <1>0, <1>00, <2>1, Apart
  <2> QED BY <1>0, <2>1, <2>2, StatusUpdates DEF PrsInv
<1>3. CASE CleanDegradedKey(s)
  <2>1. /\ UNCHANGED <<status, onlineKey, current>> /\ degradedKey' = FALSE
        /\ handler[s].pc = "deldegraded" /\ Step(s, "offline")
    BY <1>3 DEF CleanDegradedKey, At
  <2>2. HandlersOK'
    BY <1>0, <1>00, <2>1, Apart
  <2> QED BY <1>0, <2>1, <2>2, StatusUpdates DEF PrsInv
<1>4. CASE MarkOfflineOnDisconnect(s) \/ MarkOfflineFails(s)
  <2>1. /\ UNCHANGED <<onlineKey, degradedKey, current>> /\ handler[s].pc = "offline" /\ Done(s)
        /\ MarkAgentOfflineIfOnline \/ UNCHANGED status
    BY <1>4 DEF MarkOfflineOnDisconnect, MarkOfflineFails, At, cacheVars
  <2>2. current # s
    BY <1>00, <2>1, PresenceAssumption DEF PrsInv, HandlersOK
  <2>3. HandlersOK'
    BY <2>1, <2>2, Left
  <2> QED BY <1>0, <2>1, <2>3, StatusUpdates DEF PrsInv
<1> QED BY <1>1, <1>2, <1>3, <1>4 DEF CleanUp

LEMMA RevokeCutsStep ==
  ASSUME PrsInv, RevokeCuts
  PROVE  HandlersOK'
<1>0. current' = current /\ degradedKey' = degradedKey
  BY DEF RevokeCuts, cacheVars
<1>1. CASE UNCHANGED handler
  BY <1>0, <1>1, HandlersSame
<1>2. CASE ~UNCHANGED handler
  <2>1. current # NoStream /\ ~At(current, "returned")
    BY <1>2 DEF RevokeCuts
  <2>2. PICK how \in {"stop", "cancel"} :
          handler' = [handler EXCEPT ![current].end = IF Cancelled(current) THEN "cancel" ELSE how]
    BY <1>2, <2>1 DEF RevokeCuts
  <2>3. PICK s \in Stream : s = current
    BY <2>1 DEF PrsInv, HandlersOK
  <2>4. PICK e : e = IF Cancelled(current) THEN "cancel" ELSE how
    OBVIOUS
  <2>5. PICK h : h = [handler[s] EXCEPT !.end = e]
    OBVIOUS
  <2>6. handler' = [handler EXCEPT ![s] = h]
    BY <2>2, <2>3, <2>4, <2>5
  <2>7. DOMAIN handler' = Stream /\ handler'[s] = h /\ \A t \in Stream : t # s => handler'[t] = handler[t]
    BY <2>6 DEF PrsInv, HandlersOK
  <2>8. DOMAIN handler[s] = Fields
    BY DEF PrsInv, HandlersOK, HandlerOK
  <2>9. DOMAIN h = Fields /\ h.pc = handler[s].pc /\ h.degraded = handler[s].degraded
    BY <2>5, <2>8 DEF Fields
  <2>10. ASSUME NEW t \in Stream PROVE HandlerOK(t)'
    <3>1. HandlerOK(t)
      BY DEF PrsInv, HandlersOK
    <3>2. CASE t = s
      BY <1>0, <2>3, <2>7, <2>9, <3>1, <3>2 DEF HandlerOK, Serving
    <3>3. CASE t # s
      BY <1>0, <2>7, <3>1, <3>3 DEF HandlerOK, Serving, Cancelled
    <3> QED BY <3>2, <3>3
  <2>11. handler'[current'].pc = handler[current].pc
    BY <1>0, <2>3, <2>7, <2>9
  <2> QED BY <1>0, <2>7, <2>10, <2>11 DEF PrsInv, HandlersOK
<1> QED BY <1>1, <1>2

LEMMA PrsStep == PrsInv /\ [PrsNext]_prsVars => PrsInv' /\ Stays
<1> SUFFICES ASSUME PrsInv, [PrsNext]_prsVars PROVE PrsInv' /\ Stays
  OBVIOUS
<1>0. status \in Usable \cup {"revoked"} /\ onlineKey \in BOOLEAN /\ degradedKey \in BOOLEAN
  BY DEF PrsInv
<1>1. ASSUME NEW s \in Stream, Gate(s) PROVE PrsInv' /\ Stays
  <2>1. UNCHANGED <<status, onlineKey, degradedKey, current>> /\ handler[s].pc = "free" /\ Step(s, "register")
    BY <1>1 DEF Gate, At, cacheVars
  <2>2. "free" \notin Connected \cup {"returned"} /\ "register" \notin Connected
    BY DEF Connected
  <2>3. HandlersOK'
    BY <1>0, <2>1, <2>2, Apart
  <2> QED BY <1>0, <2>1, <2>3, StatusUpdates DEF PrsInv
<1>2. CASE Sweep
  <2>1. UNCHANGED <<onlineKey, degradedKey, current, handler>> /\ (UNCHANGED status \/ MarkAgentOfflineIfOnline)
    BY <1>2 DEF Sweep, SweepChecks, SweepMarks, cacheVars
  <2> QED BY <1>0, <2>1, HandlersSame, StatusUpdates DEF PrsInv
<1>3. CASE Approve
  <2>1. UNCHANGED <<onlineKey, degradedKey, current, handler>> /\ status' = "approved"
    BY <1>3 DEF Approve, cacheVars
  <2> QED BY <1>0, <2>1, HandlersSame DEF PrsInv, Stays, Usable
<1>4. CASE RevokeAgent
  <2>1. UNCHANGED <<degradedKey, current, handler>> /\ status' = "revoked" /\ onlineKey' = FALSE
    BY <1>4 DEF RevokeAgent
  <2> QED BY <1>0, <2>1, HandlersSame DEF PrsInv, Stays, Usable
<1>5. CASE RevokeCuts
  <2>1. UNCHANGED <<status, onlineKey, degradedKey>>
    BY <1>5 DEF RevokeCuts, cacheVars
  <2> QED BY <1>0, <1>5, <2>1, RevokeCutsStep, StatusUpdates DEF PrsInv
<1>6. CASE ExpireOnline
  <2>1. UNCHANGED <<status, degradedKey, current, handler>> /\ onlineKey' = FALSE
    BY <1>6 DEF ExpireOnline
  <2> QED BY <1>0, <2>1, HandlersSame, StatusUpdates DEF PrsInv
<1>7. CASE ExpireDegraded
  <2>1. UNCHANGED <<status, onlineKey, current, handler>> /\ degradedKey' = FALSE
    BY <1>7 DEF ExpireDegraded
  <2> QED BY <1>0, <2>1, HandlersSame, StatusUpdates DEF PrsInv
<1>8. CASE ServerCrash
  <2>1. UNCHANGED <<status, onlineKey, degradedKey>> /\ current' = NoStream /\ handler' = [s \in Stream |-> NoHandler]
    BY <1>8 DEF ServerCrash, cacheVars
  <2>2. ASSUME NEW t \in Stream PROVE HandlerOK(t)'
    <3>1. handler'[t] = NoHandler /\ current' # t
      BY <2>1, PresenceAssumption
    <3> QED BY <3>1, NoHandlerFields DEF HandlerOK
  <2>3. HandlersOK'
    BY <2>1, <2>2 DEF HandlersOK
  <2> QED BY <1>0, <2>1, <2>3, StatusUpdates DEF PrsInv
<1>9. CASE UNCHANGED prsVars
  BY <1>0, <1>9, HandlersSame, StatusUpdates DEF prsVars, PrsInv
<1> QED BY <1>1, <1>2, <1>3, <1>4, <1>5, <1>6, <1>7, <1>8, <1>9, SetupStep, LiveStep, CleanUpStep DEF PrsNext

\* Neither a handler, nor a clean-up, nor the sweeper revives a revoked agent; every
\* stream but the registered one is cancelled, and no marker is left of an earlier one.
\* For any number of streams.
THEOREM PresenceSafe == PrsSpec => []PrsTypeOK /\ []MarkerNotStale /\ RevokedStays
<1>1. PrsInit => PrsInv
  <2> SUFFICES ASSUME PrsInit PROVE PrsInv
    OBVIOUS
  <2>1. ASSUME NEW t \in Stream PROVE HandlerOK(t)
    <3>1. handler[t] = NoHandler
      BY DEF PrsInit
    <3>2. ~Serving(t)
      BY <3>1, NoHandlerFields, ServingIsConnected
    <3> QED BY <3>1, <3>2, NoHandlerFields DEF HandlerOK
  <2> QED BY <2>1 DEF PrsInit, PrsInv, HandlersOK, Usable
<1>2. PrsInv => PrsTypeOK /\ MarkerNotStale
  BY ServingIsConnected DEF PrsInv, HandlersOK, HandlerOK, PrsTypeOK, MarkerNotStale, Connected
<1>3. PrsInv /\ [PrsNext]_prsVars => [status = "revoked" => status' \in {"revoked", "approved"}]_prsVars
  BY PrsStep DEF Stays
<1> QED BY <1>1, <1>2, <1>3, PrsStep, PTL DEF PrsSpec, RevokedStays

-----------------------------------------------------------------------------
(* Catalog: buckets, event rules and file types.                           *)

\* A creator between its row and its answer still has the row, and one answered with
\* 201 has the bucket too.
CreatorOK(c) ==
  /\ DOMAIN creator[c] = {"pc", "reply"}
  /\ creator[c].pc = "make" => c \in bucketRow
  /\ creator[c].reply = "Created" => creator[c].pc = "end" /\ c \in bucketRow /\ physical # {}
BucketsOK == DOMAIN creator = Creator /\ \A c \in Creator : CreatorOK(c)

EventsOK ==
  /\ evDelivery \subseteq DOMAIN evRule
  /\ \A i \in DOMAIN evRule : ValidateEventAction(evRule[i])

\* The declared type, from the lookup on, is the type the entry is to get.
TypesOK ==
  /\ DOMAIN typing = {"pc", "declared", "type", "sure"}
  /\ typing.pc \in {"declared", "glob"} => typing.sure = NoType
  /\ typing.pc = "insert" /\ typing.sure # NoType => typing.type = typing.sure
  /\ typing.pc = "done" /\ typing.sure # NoType => entryType = typing.sure

\* The inductive invariant.
CatInv == BucketsOK /\ EventsOK /\ TypesOK

-----------------------------------------------------------------------------
(* Buckets.                                                                *)

LEMMA CreatorMoves ==
  ASSUME NEW c \in Creator, BucketsOK, NEW p, creator' = [creator EXCEPT ![c].pc = p]
  PROVE  /\ DOMAIN creator' = Creator /\ \A d \in Creator : d # c => creator'[d] = creator[d]
         /\ DOMAIN creator'[c] = {"pc", "reply"}
         /\ creator'[c].pc = p /\ creator'[c].reply = creator[c].reply
<1>1. PICK r : r = [creator[c] EXCEPT !.pc = p]
  OBVIOUS
<1>2. creator' = [creator EXCEPT ![c] = r] /\ DOMAIN creator = Creator
  BY <1>1 DEF BucketsOK
<1>3. DOMAIN r = {"pc", "reply"} /\ r.pc = p /\ r.reply = creator[c].reply
  BY <1>1 DEF BucketsOK, CreatorOK
<1> QED BY <1>2, <1>3

LEMMA CreatorReplies ==
  ASSUME NEW c \in Creator, BucketsOK, NEW code, Replies(c, code)
  PROVE  /\ DOMAIN creator' = Creator /\ \A d \in Creator : d # c => creator'[d] = creator[d]
         /\ DOMAIN creator'[c] = {"pc", "reply"}
         /\ creator'[c].pc = "end" /\ creator'[c].reply = code
<1>1. PICK r : r = [pc |-> "end", reply |-> code]
  OBVIOUS
<1>2. creator' = [creator EXCEPT ![c] = r] /\ DOMAIN creator = Creator
  BY <1>1 DEF BucketsOK, Replies
<1>3. DOMAIN r = {"pc", "reply"} /\ r.pc = "end" /\ r.reply = code
  BY <1>1, SMT
<1> QED BY <1>2, <1>3

\* The creators a step does not touch keep what they have.
LEMMA OtherCreators ==
  ASSUME BucketsOK, NEW c \in Creator, DOMAIN creator' = Creator,
         \A d \in Creator : d # c => creator'[d] = creator[d],
         bucketRow \ {c} \subseteq bucketRow', physical # {} => physical' # {}, CreatorOK(c)'
  PROVE  BucketsOK'
<1>1. ASSUME NEW d \in Creator, d # c PROVE CreatorOK(d)'
  BY <1>1 DEF BucketsOK, CreatorOK
<1> QED BY <1>1 DEF BucketsOK

LEMMA InsertRowStep ==
  ASSUME BucketsOK, NEW c \in Creator, InsertBucketRow(c)
  PROVE  BucketsOK'
<1>1. creator[c].pc = "new" /\ physical' = physical
  BY DEF InsertBucketRow, CreatorAt
<1>2. CASE bucketRow = {}
  <2>1. bucketRow' = {c} /\ creator' = [creator EXCEPT ![c].pc = "make"]
    BY <1>2 DEF InsertBucketRow
  <2>2. /\ DOMAIN creator' = Creator /\ \A d \in Creator : d # c => creator'[d] = creator[d]
        /\ DOMAIN creator'[c] = {"pc", "reply"}
        /\ creator'[c].pc = "make" /\ creator'[c].reply = creator[c].reply
    BY <2>1, CreatorMoves
  <2>3. CreatorOK(c)'
    BY <1>1, <2>1, <2>2 DEF BucketsOK, CreatorOK
  <2> QED BY <1>1, <1>2, <2>1, <2>2, <2>3, OtherCreators
<1>3. CASE bucketRow # {}
  <2>1. Replies(c, "INTERNAL_ERROR") /\ bucketRow' = bucketRow
    BY <1>3 DEF InsertBucketRow
  <2>2. /\ DOMAIN creator' = Creator /\ \A d \in Creator : d # c => creator'[d] = creator[d]
        /\ DOMAIN creator'[c] = {"pc", "reply"}
        /\ creator'[c].pc = "end" /\ creator'[c].reply = "INTERNAL_ERROR"
    BY <2>1, CreatorReplies
  <2>3. CreatorOK(c)'
    BY <2>2 DEF CreatorOK
  <2> QED BY <1>1, <2>1, <2>2, <2>3, OtherCreators
<1> QED BY <1>2, <1>3

LEMMA MakeStep ==
  ASSUME BucketsOK, NEW c \in Creator, MakeBucket(c)
  PROVE  BucketsOK'
<1>1. creator[c].pc = "make" /\ bucketRow' = bucketRow /\ c \in bucketRow
  BY DEF MakeBucket, CreatorAt, BucketsOK, CreatorOK
<1>2. CASE physical' = {c} /\ Replies(c, "Created")
  <2>1. /\ DOMAIN creator' = Creator /\ \A d \in Creator : d # c => creator'[d] = creator[d]
        /\ DOMAIN creator'[c] = {"pc", "reply"}
        /\ creator'[c].pc = "end" /\ creator'[c].reply = "Created"
    BY <1>2, CreatorReplies
  <2>2. CreatorOK(c)'
    BY <1>1, <1>2, <2>1 DEF CreatorOK
  <2> QED BY <1>1, <1>2, <2>1, <2>2, OtherCreators
<1>3. CASE /\ physical' \in {physical, IF physical = {} THEN {c} ELSE physical}
           /\ creator' = [creator EXCEPT ![c].pc = "rollback"]
  <2>1. /\ DOMAIN creator' = Creator /\ \A d \in Creator : d # c => creator'[d] = creator[d]
        /\ DOMAIN creator'[c] = {"pc", "reply"}
        /\ creator'[c].pc = "rollback" /\ creator'[c].reply = creator[c].reply
    BY <1>3, CreatorMoves
  <2>2. creator[c].reply # "Created"
    BY <1>1 DEF BucketsOK, CreatorOK
  <2>3. CreatorOK(c)'
    BY <2>1, <2>2 DEF CreatorOK
  <2>4. physical # {} => physical' # {}
    BY <1>3
  <2> QED BY <1>1, <2>1, <2>3, <2>4, OtherCreators
<1> QED BY <1>2, <1>3 DEF MakeBucket

LEMMA RollbackStep ==
  ASSUME BucketsOK, NEW c \in Creator, DeleteBucketRow(c)
  PROVE  BucketsOK'
<1>1. Replies(c, "MINIO_ERROR") /\ physical' = physical /\ bucketRow \ {c} \subseteq bucketRow'
  BY DEF DeleteBucketRow
<1>2. /\ DOMAIN creator' = Creator /\ \A d \in Creator : d # c => creator'[d] = creator[d]
      /\ DOMAIN creator'[c] = {"pc", "reply"}
      /\ creator'[c].pc = "end" /\ creator'[c].reply = "MINIO_ERROR"
  BY <1>1, CreatorReplies
<1>3. CreatorOK(c)'
  BY <1>2 DEF CreatorOK
<1> QED BY <1>1, <1>2, <1>3, OtherCreators

-----------------------------------------------------------------------------
(* Event rules.                                                            *)

\* A row that validates is put.
LEMMA PutStep ==
  ASSUME EventsOK, NEW i, NEW r, ValidateEventAction(r), evRule' = Put2(evRule, i, r),
         evDelivery' = evDelivery
  PROVE  EventsOK'
<1>1. /\ DOMAIN evRule' = DOMAIN evRule \cup {i}
      /\ \A x \in DOMAIN evRule' : evRule'[x] = IF x = i THEN r ELSE evRule[x]
  BY DEF Put2
<1>2. ASSUME NEW x \in DOMAIN evRule' PROVE ValidateEventAction(evRule'[x])
  <2>1. CASE x = i
    BY <1>1, <2>1
  <2>2. CASE x # i
    BY <1>1, <2>2 DEF EventsOK
  <2> QED BY <2>1, <2>2
<1> QED BY <1>1, <1>2 DEF EventsOK

LEMMA RemoveStep ==
  ASSUME EventsOK, NEW i, EvRemove(i), evDelivery' = evDelivery
  PROVE  EventsOK'
<1>1. /\ DOMAIN evRule' = DOMAIN evRule \ {i} /\ i \notin evDelivery
      /\ \A x \in DOMAIN evRule' : evRule'[x] = evRule[x]
  BY DEF EvRemove
<1> QED BY <1>1 DEF EventsOK

LEMMA EventStepInv == EventsOK /\ EventStep => EventsOK'
<1> SUFFICES ASSUME EventsOK, EventStep PROVE EventsOK'
  OBVIOUS
<1>1. PICK i \in RuleId :
        \/ \E r \in EvRow : CreateEventRule(i, r) \/ UpdateEventRule(i, r)
        \/ DeleteEventRule(i) \/ EngineMatches(i) \/ EngineInserts(i)
  BY DEF EventStep
<1>2. ASSUME NEW r \in EvRow, CreateEventRule(i, r) \/ UpdateEventRule(i, r) PROVE EventsOK'
  <2>1. ValidateEventAction(r) /\ evRule' = Put2(evRule, i, r) /\ evDelivery' = evDelivery
    BY <1>2 DEF CreateEventRule, UpdateEventRule, EvInsert, EvReplace
  <2> QED BY <2>1, PutStep
<1>3. CASE DeleteEventRule(i)
  BY <1>3, RemoveStep DEF DeleteEventRule
<1>4. CASE EngineMatches(i)
  BY <1>4 DEF EngineMatches, EventsOK
<1>5. CASE EngineInserts(i)
  BY <1>5 DEF EngineInserts, EventsOK
<1> QED BY <1>1, <1>2, <1>3, <1>4, <1>5

-----------------------------------------------------------------------------
(* File types.                                                             *)

LEMMA DeleteTypeStep ==
  ASSUME TypesOK, NEW i, DeleteFileType(i)
  PROVE  TypesOK'
<1>1. PICK s : s = IF typing.sure = i THEN NoType ELSE typing.sure
  OBVIOUS
<1>2. typing' = [typing EXCEPT !.sure = s] /\ entryType' = entryType
  BY <1>1 DEF DeleteFileType
<1>3. /\ DOMAIN typing' = DOMAIN typing /\ typing'.sure = s
      /\ typing'.pc = typing.pc /\ typing'.type = typing.type
  BY <1>2 DEF TypesOK
<1>4. s # NoType => s = typing.sure
  BY <1>1
<1> QED BY <1>2, <1>3, <1>4 DEF TypesOK

LEMMA ResolveStep ==
  ASSUME TypesOK, ResolveDeclared
  PROVE  TypesOK'
<1>1. PICK found : typing' = IF found # NoType
                   THEN [typing EXCEPT !.pc = "insert", !.type = found, !.sure = found]
                   ELSE [typing EXCEPT !.pc = "glob"]
  BY DEF ResolveDeclared
<1>2. typing.pc = "declared" /\ DOMAIN typing = {"pc", "declared", "type", "sure"} /\ typing.sure = NoType
  BY DEF ResolveDeclared, TypesOK
<1>3. CASE found # NoType
  <2>1. typing' = [typing EXCEPT !.pc = "insert", !.type = found, !.sure = found]
    BY <1>1, <1>3
  <2>2. /\ DOMAIN typing' = {"pc", "declared", "type", "sure"} /\ typing'.pc = "insert"
        /\ typing'.type = found /\ typing'.sure = found
    BY <2>1, <1>2
  <2> QED BY <2>2 DEF TypesOK
<1>4. CASE found = NoType
  <2>1. typing' = [typing EXCEPT !.pc = "glob"]
    BY <1>1, <1>4
  <2>2. DOMAIN typing' = {"pc", "declared", "type", "sure"} /\ typing'.pc = "glob" /\ typing'.sure = NoType
    BY <2>1, <1>2
  <2> QED BY <2>2 DEF TypesOK
<1> QED BY <1>3, <1>4

LEMMA ClassifyStep ==
  ASSUME TypesOK, Classify
  PROVE  TypesOK'
<1>1. typing.pc = "glob" /\ DOMAIN typing = {"pc", "declared", "type", "sure"} /\ typing.sure = NoType
  BY DEF Classify, TypesOK
<1>2. ASSUME NEW i, typing' = [typing EXCEPT !.pc = "insert", !.type = i] PROVE TypesOK'
  <2>1. DOMAIN typing' = {"pc", "declared", "type", "sure"} /\ typing'.pc = "insert" /\ typing'.sure = NoType
    BY <1>1, <1>2
  <2> QED BY <2>1 DEF TypesOK
<1>3. CASE typing' = [typing EXCEPT !.pc = "insert"]
  <2>1. DOMAIN typing' = {"pc", "declared", "type", "sure"} /\ typing'.pc = "insert" /\ typing'.sure = NoType
    BY <1>1, <1>3
  <2> QED BY <2>1 DEF TypesOK
<1> QED BY <1>2, <1>3 DEF Classify

LEMMA InsertEntryStep ==
  ASSUME TypesOK, InsertEntry
  PROVE  TypesOK'
<1>1. typing.pc = "insert" /\ DOMAIN typing = {"pc", "declared", "type", "sure"}
  BY DEF InsertEntry, TypesOK
<1>2. CASE typing' = [typing EXCEPT !.pc = "done"] /\ entryType' = typing.type
  <2>1. DOMAIN typing' = {"pc", "declared", "type", "sure"} /\ typing'.pc = "done" /\ typing'.sure = typing.sure
    BY <1>1, <1>2
  <2> QED BY <1>1, <1>2, <2>1 DEF TypesOK
<1>3. CASE typing' = [typing EXCEPT !.pc = "declared", !.type = NoType, !.sure = NoType]
  <2>1. DOMAIN typing' = {"pc", "declared", "type", "sure"} /\ typing'.pc = "declared" /\ typing'.sure = NoType
    BY <1>1, <1>3
  <2> QED BY <2>1 DEF TypesOK
<1> QED BY <1>2, <1>3 DEF InsertEntry

LEMMA TypeStepInv == TypesOK /\ TypeStep => TypesOK'
<1> SUFFICES ASSUME TypesOK, TypeStep PROVE TypesOK'
  OBVIOUS
<1>1. ASSUME NEW i, NEW n, CreateFileType(i, n) \/ UpdateFileType(i, n) PROVE TypesOK'
  <2>1. UNCHANGED <<typing, entryType>>
    BY <1>1 DEF CreateFileType, UpdateFileType
  <2> QED BY <2>1 DEF TypesOK
<1> QED BY <1>1, DeleteTypeStep, ResolveStep, ClassifyStep, InsertEntryStep DEF TypeStep, Indexing

-----------------------------------------------------------------------------
LEMMA CatInitInv == CatInit => CatInv
<1> SUFFICES ASSUME CatInit PROVE CatInv
  OBVIOUS
<1>1. ASSUME NEW c \in Creator PROVE CreatorOK(c)
  <2>1. creator[c] = [pc |-> "new", reply |-> "none"]
    BY DEF CatInit
  <2>2. DOMAIN creator[c] = {"pc", "reply"} /\ creator[c].pc = "new" /\ creator[c].reply = "none"
    BY <2>1, SMT
  <2> QED BY <2>2 DEF CreatorOK
<1>2. BucketsOK
  BY <1>1 DEF BucketsOK, CatInit
<1>3. EventsOK
  <2>1. DOMAIN evRule = {} /\ evDelivery = {}
    BY SMT DEF CatInit
  <2> QED BY <2>1 DEF EventsOK
<1>4. TypesOK
  <2>1. typing \in [pc : {"declared"}, declared : TypeName \cup {Undeclared}, type : {NoType}, sure : {NoType}]
    BY DEF CatInit
  <2>2. DOMAIN typing = {"pc", "declared", "type", "sure"} /\ typing.pc = "declared" /\ typing.sure = NoType
    BY <2>1, SMT
  <2> QED BY <2>2 DEF TypesOK
<1> QED BY <1>2, <1>3, <1>4 DEF CatInv

LEMMA CatNextInv == CatInv /\ [CatNext]_catVars => CatInv'
<1> SUFFICES ASSUME CatInv, [CatNext]_catVars PROVE CatInv'
  OBVIOUS
<1>1. UNCHANGED bucketVars => BucketsOK'
  BY DEF CatInv, BucketsOK, CreatorOK, bucketVars
<1>2. UNCHANGED evVars => EventsOK'
  BY DEF CatInv, EventsOK, evVars
<1>3. UNCHANGED typeVars => TypesOK'
  BY DEF CatInv, TypesOK, typeVars
<1>4. CASE BucketStep
  <2>1. ASSUME NEW c \in Creator, RuleUsesBucket(c) PROVE BucketsOK'
    BY <2>1 DEF RuleUsesBucket, CatInv, BucketsOK, CreatorOK
  <2>2. BucketsOK'
    BY <1>4, <2>1, InsertRowStep, MakeStep, RollbackStep DEF BucketStep, CatInv
  <2> QED BY <1>2, <1>3, <1>4, <2>2 DEF BucketStep, CatInv
<1>5. CASE EventStep
  BY <1>1, <1>3, <1>5, EventStepInv DEF EventStep, CatInv
<1>6. CASE TypeStep
  BY <1>1, <1>2, <1>6, TypeStepInv DEF TypeStep, CatInv
<1>7. CASE UNCHANGED catVars
  BY <1>1, <1>2, <1>3, <1>7 DEF catVars, CatInv
<1> QED BY <1>4, <1>5, <1>6, <1>7 DEF CatNext

LEMMA CatInvTrue == CatInv => CreatedIsReal /\ RetryFindsRule /\ DeclaredWins
BY DEF CatInv, BucketsOK, CreatorOK, EventsOK, TypesOK, CreatedIsReal, RetryFindsRule, DeclaredWins

\* For any number of requests, event rules and file types: a bucket answered with 201 is
\* in the table and in the object store, the rule of every delivery is there and one the
\* engine can run, and a file whose declared type was there gets that type.
THEOREM CatalogSafe == CatSpec => []CreatedIsReal /\ []RetryFindsRule /\ []DeclaredWins
BY CatInitInv, CatNextInv, CatInvTrue, PTL DEF CatSpec
=============================================================================
