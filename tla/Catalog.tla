------------------------------- MODULE Catalog -------------------------------
(***************************************************************************)
(* The catalogue the REST API keeps beside the agents: buckets, which also  *)
(* exist in the object store, file types, by which the indexer classifies   *)
(* files, and event rules, which the deliveries of the event engine refer   *)
(* to.  Every handler writes one row; what may go wrong lies between two    *)
(* handlers, or between a row and the object store.                         *)
(***************************************************************************)
EXTENDS Naturals, FiniteSets

CONSTANTS Creator,   \* requests to create the bucket, one after the other
          RuleId,    \* ids of event rules
          TypeId, TypeName,  \* of file types; ids are numbers above 0
          MaxTypeEdit  \* bound: changes of the file types

ASSUME CatalogAssumption == MaxTypeEdit \in Nat /\ TypeId \subseteq Nat \ {0}

VARIABLES
  shelf,     \* which of the three the behaviour is about
  bucketRow, \* the creators whose row of the bucket is in the table: at most one
  physical,  \* the creators whose MakeBucket made the bucket: at most one
  creator,   \* per creator: [pc, reply]
  bucketUse, \* creators whose row a collection rule refers to
  evRule,    \* event rules: id -> [action, config, enabled]; absent ids are not rows
  evMatched, \* rules the engine has read for an event
  evDelivery,\* rules that have a row in event_deliveries
  types,     \* file types: id -> name
  typeGlob,  \* the types with a file_type_rule for the file
  typing,    \* the file being indexed: [pc, declared (a name), type, sure]; sure is the
             \* type of the declared name, as long as it is there
  entryType, \* file_type_id of its entry
  typeEdits

bucketVars == <<bucketRow, physical, creator, bucketUse>>
evVars == <<evRule, evMatched, evDelivery>>
typeVars == <<types, typeGlob, typing, entryType, typeEdits>>
catVars == <<shelf, bucketVars, evVars, typeVars>>

NoType == 0
Undeclared == "undeclared"
EvRow == [action : {"webhook", "nats_publish", "kafka_publish"}, config : BOOLEAN, enabled : BOOLEAN]

CatInit ==
  /\ shelf \in {"buckets", "events", "types"}
  /\ bucketRow = {} /\ physical = {} /\ creator = [c \in Creator |-> [pc |-> "new", reply |-> "none"]]
  /\ bucketUse = {}
  /\ evRule = <<>> /\ evMatched = {} /\ evDelivery = {}
  /\ types \in UNION {[S -> TypeName] : S \in SUBSET TypeId}
  /\ \A i, j \in DOMAIN types : types[i] = types[j] => i = j
  /\ typeGlob \in SUBSET DOMAIN types
  /\ typing \in [pc : {"declared"}, declared : TypeName \cup {Undeclared}, type : {NoType}, sure : {NoType}]
  /\ entryType = NoType /\ typeEdits = 0
  /\ shelf # "types" => types = <<>> /\ typing.declared = Undeclared

-----------------------------------------------------------------------------
(* Buckets.                                                                 *)

CreatorAt(c, pc) == shelf = "buckets" /\ creator[c].pc = pc
Replies(c, code) == creator' = [creator EXCEPT ![c] = [pc |-> "end", reply |-> code]]

\* CreateBucket: the name is unique.
InsertBucketRow(c) ==
  /\ CreatorAt(c, "new")
  /\ IF bucketRow = {}
       THEN bucketRow' = {c} /\ creator' = [creator EXCEPT ![c].pc = "make"]
       ELSE Replies(c, "INTERNAL_ERROR") /\ UNCHANGED bucketRow
  /\ UNCHANGED <<physical, bucketUse>>

\* MakeBucket: an error when the bucket exists; the answer may be lost.
MakeBucket(c) ==
  /\ CreatorAt(c, "make")
  /\ \/ physical = {} /\ physical' = {c} /\ Replies(c, "Created")
     \/ /\ physical' \in {physical, IF physical = {} THEN {c} ELSE physical}
        /\ creator' = [creator EXCEPT ![c].pc = "rollback"]
  /\ UNCHANGED <<bucketRow, bucketUse>>

\* The rollback, refused while something refers to the row, and otherwise
\* not certain either.
DeleteBucketRow(c) ==
  /\ CreatorAt(c, "rollback")
  /\ \/ c \notin bucketUse /\ bucketRow' = bucketRow \ {c}
     \/ UNCHANGED bucketRow
  /\ Replies(c, "MINIO_ERROR")
  /\ UNCHANGED <<physical, bucketUse>>

\* Meanwhile a rule for the bucket is created: its row is all that is looked at.
RuleUsesBucket(c) ==
  /\ shelf = "buckets" /\ c \in bucketRow \ bucketUse
  /\ bucketUse' = bucketUse \cup {c}
  /\ UNCHANGED <<bucketRow, physical, creator>>

BucketStep ==
  /\ \E c \in Creator :
       \/ InsertBucketRow(c) \/ MakeBucket(c) \/ DeleteBucketRow(c) \/ RuleUsesBucket(c)
  /\ UNCHANGED <<shelf, evVars, typeVars>>

-----------------------------------------------------------------------------
(* Event rules.                                                             *)

\* kafka_publish is in the enum and has no implementation.
ValidateEventAction(r) == r.action \in {"webhook", "nats_publish"} /\ r.config

Put2(f, k, v) == [x \in DOMAIN f \cup {k} |-> IF x = k THEN v ELSE f[x]]

\* The table: a new id; every column but the id is replaced; a foreign key of
\* event_deliveries.
EvInsert(i, r) == i \notin DOMAIN evRule /\ evRule' = Put2(evRule, i, r)
EvReplace(i, r) == i \in DOMAIN evRule /\ evRule' = Put2(evRule, i, r)
EvRemove(i) ==
  /\ i \in DOMAIN evRule /\ i \notin evDelivery
  /\ evRule' = [x \in DOMAIN evRule \ {i} |-> evRule[x]]

CreateEventRule(i, r) ==
  /\ ValidateEventAction(r) /\ EvInsert(i, r)
  /\ UNCHANGED <<evMatched, evDelivery>>

UpdateEventRule(i, r) ==
  /\ ValidateEventAction(r) /\ EvReplace(i, r)
  /\ UNCHANGED <<evMatched, evDelivery>>

DeleteEventRule(i) ==
  /\ EvRemove(i)
  /\ UNCHANGED <<evMatched, evDelivery>>

\* ListEnabledEventRules, for an event.
EngineMatches(i) ==
  /\ i \in DOMAIN evRule \ evMatched /\ evRule[i].enabled
  /\ evMatched' = evMatched \cup {i}
  /\ UNCHANGED <<evRule, evDelivery>>

\* CreateEventDelivery: an error when the rule is gone.
EngineInserts(i) ==
  /\ i \in evMatched
  /\ evMatched' = evMatched \ {i}
  /\ evDelivery' = IF i \in DOMAIN evRule THEN evDelivery \cup {i} ELSE evDelivery
  /\ UNCHANGED evRule

EventStep ==
  /\ shelf = "events"
  /\ \E i \in RuleId :
       \/ \E r \in EvRow : CreateEventRule(i, r) \/ UpdateEventRule(i, r)
       \/ DeleteEventRule(i) \/ EngineMatches(i) \/ EngineInserts(i)
  /\ UNCHANGED <<shelf, bucketVars, typeVars>>

-----------------------------------------------------------------------------
(* File types.                                                              *)

TypeEdit == shelf = "types" /\ typeEdits < MaxTypeEdit /\ typeEdits' = typeEdits + 1
Names == {types[i] : i \in DOMAIN types}

\* The table: names are unique, an entry's type is kept, the rules of a type go
\* with it.
TypeInsert(i, n) ==
  i \notin DOMAIN types /\ n \notin Names /\ types' = Put2(types, i, n)
TypeRename(i, n) ==
  i \in DOMAIN types /\ n \notin Names /\ types' = Put2(types, i, n)
TypeRemove(i) ==
  /\ i \in DOMAIN types /\ entryType # i
  /\ types' = [j \in DOMAIN types \ {i} |-> types[j]] /\ typeGlob' = typeGlob \ {i}

CreateFileType(i, n) ==
  /\ TypeEdit /\ TypeInsert(i, n)
  /\ UNCHANGED <<typeGlob, typing, entryType>>

DeleteFileType(i) ==
  /\ TypeEdit /\ TypeRemove(i)
  /\ typing' = [typing EXCEPT !.sure = IF @ = i THEN NoType ELSE @]
  /\ UNCHANGED entryType

UpdateFileType(i, n) ==
  /\ TypeEdit /\ TypeRename(i, n)
  /\ UNCHANGED <<typeGlob, typing, entryType>>

\* GetFileTypeIDByName
Named(n) == IF n \in Names THEN CHOOSE i \in DOMAIN types : types[i] = n ELSE NoType

\* classifyFileType: a declared name that is not there, or cannot be looked up,
\* falls back to the globs.
ResolveDeclared ==
  /\ shelf = "types" /\ typing.pc = "declared"
  /\ \E found \in {Named(typing.declared), NoType} :
       typing' = IF found # NoType
                   THEN [typing EXCEPT !.pc = "insert", !.type = found, !.sure = found]
                   ELSE [typing EXCEPT !.pc = "glob"]
  /\ UNCHANGED <<types, typeGlob, entryType, typeEdits>>

\* Classify: the matching rule of the highest priority (the priorities are in the
\* order of the ids), or none; none also when the rules cannot be read.
Classify ==
  /\ shelf = "types" /\ typing.pc = "glob"
  /\ \/ \E i \in typeGlob : /\ \A j \in typeGlob : j <= i
                           /\ typing' = [typing EXCEPT !.pc = "insert", !.type = i]
     \/ typing' = [typing EXCEPT !.pc = "insert"]
  /\ UNCHANGED <<types, typeGlob, entryType, typeEdits>>

InsertGivesUp ==
  /\ shelf = "types" /\ typing.pc = "insert"
  /\ typing.type \in DOMAIN types \cup {NoType}
  /\ entryType' = typing.type /\ typing' = [typing EXCEPT !.pc = "done"]
  /\ UNCHANGED <<types, typeGlob, typeEdits>>

\* The entry's row: an error when its type is gone, and the report comes again.
InsertEntry ==
  /\ shelf = "types" /\ typing.pc = "insert"
  /\ IF typing.type \in DOMAIN types \cup {NoType}
       THEN entryType' = typing.type /\ typing' = [typing EXCEPT !.pc = "done"]
       ELSE typing' = [typing EXCEPT !.pc = "declared", !.type = NoType, !.sure = NoType]
            /\ UNCHANGED entryType
  /\ UNCHANGED <<types, typeGlob, typeEdits>>

Indexing == ResolveDeclared \/ Classify \/ InsertEntry

TypeStep ==
  /\ \/ \E i \in TypeId : DeleteFileType(i) \/ \E n \in TypeName : CreateFileType(i, n) \/ UpdateFileType(i, n)
     \/ Indexing
  /\ UNCHANGED <<shelf, bucketVars, evVars>>

-----------------------------------------------------------------------------
CatNext == BucketStep \/ EventStep \/ TypeStep

CatSpec == CatInit /\ [][CatNext]_catVars

\* A report that failed is sent again by the agent.
CatFair == WF_catVars(Indexing /\ UNCHANGED <<shelf, bucketVars, evVars>>)
CatFairSpec == CatSpec /\ CatFair

-----------------------------------------------------------------------------
(* A bucket whose creation was answered with 201 is in the table and in the *)
(* object store, and stays there, whatever other requests for the same name *)
(* roll back.                                                               *)
CreatedIsReal ==
  \A c \in Creator : creator[c].reply = "Created" => c \in bucketRow /\ physical # {}

(* A delivery can always be retried: its rule is in the table, and it is    *)
(* one the engine can run, through every edit and deletion of rules between *)
(* the match, the insert and the retry.                                     *)
RetryFindsRule ==
  \A i \in evDelivery : i \in DOMAIN evRule /\ ValidateEventAction(evRule[i])

(* A file whose rule declares its type gets that type, and not one a glob   *)
(* gives, when the type was there from the lookup to the insert.            *)
DeclaredWins ==
  typing.pc = "done" /\ typing.sure # NoType => entryType = typing.sure

(* A file is indexed in the end, though its type is deleted between the     *)
(* classification and the insert.                                           *)
FileIsIndexed == []<>(shelf = "types" => typing.pc = "done")

\* What the catalogue says is so, however requests overlap: an answered creation, the
\* rule of a delivery, the type of a file; and a vanished type holds no file up.
CatalogHolds ==
  []CreatedIsReal /\ []RetryFindsRule /\ []DeclaredWins /\ FileIsIndexed
=============================================================================
