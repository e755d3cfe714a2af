------------------------------ MODULE TagKeys -------------------------------
(***************************************************************************)
(* The administration of one tag key and its values, by several requests   *)
(* at once.  An update reads the row, lays the fields of the request over  *)
(* it and writes all of them back; creating or deleting a value, and       *)
(* deleting the key, first look the key up.  A key that is deleted and     *)
(* created again is another row.  What files carry is TagReview's.         *)
(***************************************************************************)
EXTENDS Naturals

CONSTANTS
  Flag,         \* the columns an update may change
  DefaultOf,    \* what a column is when the creating request leaves it out
  KeyCall,      \* requests handled at the same time
  KeyValue,     \* values
  MaxKey        \* bound on the rows of tag_keys created

ASSUME KeysAssumption == DefaultOf \in [Flag -> BOOLEAN] /\ MaxKey \in Nat

VARIABLES
  tagKey,       \* the tag_keys row
  tagValues,    \* tag_values: the key's id and the value
  lastKey,      \* the last id handed out
  keyCalls      \* the handlers

keysVars == <<tagKey, tagValues, lastKey, keyCalls>>

NoKey == [id |-> 0, flags |-> DefaultOf]
IdleKeyCall == [pc |-> "idle"]

\* The fields of a body; the others are nil.
Patches == UNION {[S -> BOOLEAN] : S \in SUBSET Flag}

KeysInit ==
  /\ tagKey = NoKey /\ tagValues = {} /\ lastKey = 0
  /\ keyCalls = [c \in KeyCall |-> IdleKeyCall]

-----------------------------------------------------------------------------
(* The queries.                                                            *)

\* Every request under way learns that the row is no longer the one it read.
Disturbs ==
  keyCalls' = [c \in KeyCall |-> IF keyCalls[c].pc = "patch" THEN [keyCalls[c] EXCEPT !.alone = FALSE]
                                                             ELSE keyCalls[c]]

GetTagKey == tagKey.id # 0

BoolOr(p, f, other) == IF f \in DOMAIN p THEN p[f] ELSE other[f]

CreateTagKey(p) ==
  tagKey' = [id |-> lastKey + 1, flags |-> [f \in Flag |-> BoolOr(p, f, DefaultOf)]]

PatchedOverDefaults(call) == [f \in Flag |-> BoolOr(call.set, f, DefaultOf)]

\* The row as it was read, with the fields of the request.
Patched(call) == [f \in Flag |-> BoolOr(call.set, f, call.row)]

\* By organisation and key, so a key created again meanwhile is written too.
UpdateTagKey(flags) == tagKey' = [tagKey EXCEPT !.flags = flags]

\* The key's id is a foreign key of the value.
CreateTagValue(id, v) ==
  tagValues' = IF GetTagKey /\ tagKey.id = id
               THEN tagValues \cup {[key |-> id, seen |-> id, value |-> v]} ELSE tagValues

DeleteTagValue(id, v) ==
  tagValues' = {x \in tagValues : x.key # id \/ x.value # v}

\* The values go with the key.
DeleteTagKey == tagKey' = NoKey /\ tagValues' = {}

-----------------------------------------------------------------------------
(* The handlers.                                                           *)

Ends(c) == keyCalls' = [keyCalls EXCEPT ![c] = IdleKeyCall]

\* A key that is there already is a conflict.
KeyCreate ==
  /\ ~GetTagKey /\ lastKey < MaxKey /\ lastKey' = lastKey + 1
  /\ \E p \in Patches : CreateTagKey(p)
  /\ Disturbs /\ UNCHANGED tagValues

PatchReads(c) ==
  /\ keyCalls[c].pc = "idle" /\ GetTagKey
  /\ \E p \in Patches :
       keyCalls' = [keyCalls EXCEPT ![c] = [pc |-> "patch", row |-> tagKey.flags, set |-> p,
                                            alone |-> TRUE]]
  /\ UNCHANGED <<tagKey, tagValues, lastKey>>

\* The row may have gone between the read and the write.
PatchWrites(c) ==
  /\ keyCalls[c].pc = "patch"
  /\ IF GetTagKey THEN UpdateTagKey(Patched(keyCalls[c])) ELSE UNCHANGED tagKey
  /\ keyCalls' = [d \in KeyCall |->
                    IF d = c THEN IdleKeyCall
                    ELSE IF keyCalls[d].pc = "patch" THEN [keyCalls[d] EXCEPT !.alone = FALSE]
                    ELSE keyCalls[d]]
  /\ UNCHANGED <<tagValues, lastKey>>

\* resolveKey, for a value to create, a value to delete, or the key itself.
ResolveKey(c) ==
  /\ keyCalls[c].pc = "idle" /\ GetTagKey
  /\ \E op \in {"create", "delete"}, v \in KeyValue :
       keyCalls' = [keyCalls EXCEPT ![c] = [pc |-> op, id |-> tagKey.id, value |-> v]]
  /\ UNCHANGED <<tagKey, tagValues, lastKey>>

ValueCreated(c) ==
  /\ keyCalls[c].pc = "create" /\ CreateTagValue(keyCalls[c].id, keyCalls[c].value)
  /\ Ends(c) /\ UNCHANGED <<tagKey, lastKey>>

ValueDeleted(c) ==
  /\ keyCalls[c].pc = "delete" /\ DeleteTagValue(keyCalls[c].id, keyCalls[c].value)
  /\ Ends(c) /\ UNCHANGED <<tagKey, lastKey>>

\* A reserved key is refused; the flag never changes, so reading it and deleting are
\* one step.
KeyDelete ==
  /\ GetTagKey /\ DeleteTagKey /\ Disturbs /\ UNCHANGED lastKey

KeysNext ==
  \/ KeyCreate \/ KeyDelete
  \/ \E c \in KeyCall :
       PatchReads(c) \/ PatchWrites(c) \/ ResolveKey(c) \/ ValueCreated(c) \/ ValueDeleted(c)

KeysSpec == KeysInit /\ [][KeysNext]_keysVars

-----------------------------------------------------------------------------
(* Properties.                                                             *)

\* What the write of a patch may do to the row: change the fields it names.
NamesOnly(call) ==
  GetTagKey =>
    tagKey'.flags = [f \in Flag |-> BoolOr(call.set, f, tagKey.flags)]

\* An update of which no other update or re-creation got in the way changes exactly
\* the fields it names and leaves the others as they are, not as the defaults are.
PatchExact ==
  [][\A c \in KeyCall : PatchWrites(c) /\ keyCalls[c].alone => NamesOnly(keyCalls[c])]_keysVars

\* A value only ever belongs to the key its request had looked up, never to one that
\* took the name over meanwhile, and no value outlives its key.
ValueOfItsKey ==
  \A x \in tagValues : x.key = tagKey.id /\ x.seen = x.key

\* Requests act on the key they looked up and on the fields they name.
KeysHold == []ValueOfItsKey /\ PatchExact
=============================================================================
