------------------------------- MODULE MCFiles --------------------------------
(* The index of the stored files: how a file gets in, how it is tagged, and    *)
(* how it is listed and counted.  The components share no variable: `part'     *)
(* says which one a behaviour is about, the others stay where they start.      *)
EXTENDS FileIndex, StorageWebhook, TagReview, TagKeys, FileQueries, Dashboard,
        SeaweedTranslate, TLC

CONSTANTS b1, b3, b4, e1, e2, e3

VARIABLE part

MCRecords == (b1 :> <<e1, e2, e3>>) @@ (b3 :> <<>>) @@ (b4 :> <<>>)

MCKind(a, t, s) == [owner |-> a, tags |-> t, status |-> s]
MCEntryKind == {MCKind("a", [k1 |-> "v", k2 |-> "v"], "uploaded"),
                MCKind("a", [k1 |-> "v"], "uploaded"),
                MCKind("b", [k1 |-> "w", k2 |-> "v"], "deleted")}
MCTagFilter == {<<>>, <<<<"k1", "v">>, <<"k1", "v">>>>, <<<<"k1", "v">>, <<"k2", "v">>>>,
                <<<<"k1", "v">>, <<"k1", "w">>>>}
MCPlainQuery == [list |-> "files", owner |-> "any", tag |-> <<>>, status |-> "any", limit |-> 1]
MCQuery ==
  [list : {"files"}, owner : {"any"}, tag : MCTagFilter, status : {"any"}, limit : {0, 1, 9}]
  \cup [list : {"files", "logs"}, owner : {"b", "malformed"}, tag : {<<>>}, status : {"uploaded"},
        limit : {1}]
  \cup [list : {"agentLogs", "deliveries"}, owner : {"a", "malformed"}, tag : {<<>>},
        status : {"any"}, limit : {1}]

MCDefaultOf == [f \in Flag |-> f = "allow_path_var"]

MCZone == {-1, 0, 1}

MCIn(names) == <<"buckets", "b">> \o names
MCPath == {MCIn(<<>>), MCIn(<<"a">>), MCIn(<<"a", "c">>), MCIn(<<".uploads", "u">>),
           <<"buckets", ".system", "x">>}
MCDir == {MCIn(<<>>)}

\* A component with several initial states has one of them where it is not the part.
FilesInit ==
  /\ part \in {"index", "webhook", "review", "keys", "queries", "dashboard", "filer"}
  /\ IdxInit /\ WebInit /\ ReviewInit /\ KeysInit /\ QueryInit /\ DashInit /\ TransInit
  /\ part # "queries" => rowsOf = <<>> /\ query = MCPlainQuery
  /\ part # "dashboard" => zone = 0

FilesNext ==
  /\ UNCHANGED part
  /\ \/ part = "index" /\ IdxNext
        /\ UNCHANGED <<webVars, reviewVars, keysVars, fqVars, dashVars, transVars>>
     \/ part = "webhook" /\ WebNext
        /\ UNCHANGED <<idxVars, reviewVars, keysVars, fqVars, dashVars, transVars>>
     \/ part = "review" /\ ReviewNext
        /\ UNCHANGED <<idxVars, webVars, keysVars, fqVars, dashVars, transVars>>
     \/ part = "keys" /\ KeysNext
        /\ UNCHANGED <<idxVars, webVars, reviewVars, fqVars, dashVars, transVars>>
     \/ part = "queries" /\ QueryNext
        /\ UNCHANGED <<idxVars, webVars, reviewVars, keysVars, dashVars, transVars>>
     \/ part = "dashboard" /\ DashNext
        /\ UNCHANGED <<idxVars, webVars, reviewVars, keysVars, fqVars, transVars>>
     \/ part = "filer" /\ TransNext
        /\ UNCHANGED <<idxVars, webVars, reviewVars, keysVars, fqVars, dashVars>>


FilesSpec ==
  /\ FilesInit /\ [][FilesNext]_<<part, idxVars, webVars, reviewVars, keysVars, fqVars, dashVars, transVars>>
===============================================================================
