-------------------------- MODULE SeaweedTranslate --------------------------
(***************************************************************************)
(* Which changes of the filer's namespace reach the index                   *)
(* (controlplane/internal/storage/seaweedfs/translate.go): the filer logs    *)
(* what happens to its entries, and Translate tells from the log alone       *)
(* which S3 objects to read back.  A path is the sequence of its names.      *)
(* SeaweedSource models the stream, its cursor and failures, and takes the   *)
(* subject of an entry as given; here every response is handled at once.     *)
(***************************************************************************)
EXTENDS Naturals, Sequences

LOCAL INSTANCE SequencesExt

CONSTANTS
  FPath,     \* the paths of the filer
  FDir,      \* those that are directories at the start
  DotName,   \* the names that start with a dot
  S3Bucket,  \* the names of the buckets of the S3 API
  MaxOp,     \* bound on the notifications there are
  MaxBacklog \* bound on those that wait for delivery

VARIABLES
  tree,      \* the filer's entry of every path
  log,       \* notifications that are not delivered yet
  opCount,   \* how many there have been
  claimed,   \* a heartbeat has declared the log delivered as it is
  indexed,   \* what the last read-back of a path found, 0 for nothing
  told,      \* the objects that exist going by the kinds of the changes
  incidents  \* the buckets with a bucket_removed mark

transVars == <<tree, log, opCount, claimed, indexed, told, incidents>>

NoNode == [is |-> "none", ver |-> 0]
PlainDir == [is |-> "dir", ver |-> 0]

TransInit ==
  /\ tree = [p \in FPath |-> IF p \in FDir THEN PlainDir ELSE NoNode]
  /\ log = <<>> /\ opCount = 0 /\ claimed = FALSE
  /\ indexed = [p \in FPath |-> 0] /\ told = {} /\ incidents = {}

-----------------------------------------------------------------------------
(* The filer: external, with the notifications that translate.go and its    *)
(* tests record of SeaweedFS 4.48.                                          *)

\* The S3 object of a path.
S3Key(p) == Len(p) > 2 /\ p[1] = "buckets" /\ p[2] \in S3Bucket /\ p[3] # ".uploads"
S3Object(p) == IF S3Key(p) /\ tree[p].is \in {"file", "prefix"} THEN tree[p].ver ELSE 0

IsOpen(d) == \A q \in FPath : IsPrefix(q, d) => tree[q].is \in {"dir", "prefix"}
Below(d) == {p \in FPath : IsStrictPrefix(d, p)}
Childless(p) == \A q \in Below(p) : tree[q] = NoNode

\* The entries of the paths in `to' are replaced, and one notification is opCount.
Logs(to, n) ==
  /\ opCount < MaxOp /\ opCount' = opCount + 1 /\ Len(log) < MaxBacklog
  /\ tree' = [p \in FPath |-> IF p \in DOMAIN to THEN to[p] ELSE tree[p]]
  /\ log' = Append(log, [dir |-> Front(n.at), oldName |-> Last(n.at), old |-> n.old,
                         parent |-> IF n.at = n.to /\ n.old # NoNode THEN <<>> ELSE Front(n.to),
                         newName |-> Last(n.to), new |-> n.new])
  /\ claimed' = FALSE
  /\ UNCHANGED <<indexed, told, incidents>>

One(p, e) == [q \in {p} |-> e]

\* An entry appears, disappears or is replaced in place.
Replaces(p, old, new) == Logs(One(p, new), [at |-> p, to |-> p, old |-> old, new |-> new])

\* A file is written; onto a directory it becomes a directory with the marker.
PutEntry(p) ==
  /\ IsOpen(Front(p))
  /\ LET is == IF tree[p].is \in {"none", "file"} THEN "file" ELSE "prefix"
     IN  Replaces(p, tree[p], [is |-> is, ver |-> opCount + 1])

MkDir(p) == IsOpen(Front(p)) /\ tree[p] = NoNode /\ Replaces(p, NoNode, PlainDir)

\* A file gets a child: it turns into a marked directory, opCount as a creation.
Promote(p) ==
  /\ tree[p].is = "file" /\ Below(p) # {}
  /\ Replaces(p, NoNode, [tree[p] EXCEPT !.is = "prefix"])

\* An object with children is demoted to a plain directory.
DeleteEntry(p) ==
  /\ tree[p].is \in {"file", "prefix"}
  /\ Replaces(p, tree[p], IF Childless(p) THEN NoNode ELSE PlainDir)

RmDir(p) ==
  /\ tree[p] = PlainDir /\ Childless(p) /\ Len(p) > 2 /\ Replaces(p, PlainDir, NoNode)

\* leveldb3 deletes a bucket as a whole, with one notification.
RemoveBucketDir(p) ==
  /\ Len(p) = 2 /\ tree[p] = PlainDir
  /\ Logs([q \in {p} \cup Below(p) |-> NoNode],
          [at |-> p, to |-> p, old |-> PlainDir, new |-> NoNode])

RenameEntry(p, q) ==
  /\ tree[p] # NoNode /\ Childless(p) /\ Len(p) > 2
  /\ tree[q] = NoNode /\ IsOpen(Front(q)) /\ q \notin Below(p)
  /\ Logs([r \in {p, q} |-> IF r = p THEN NoNode ELSE tree[p]],
          [at |-> p, to |-> q, old |-> tree[p], new |-> tree[p]])

-----------------------------------------------------------------------------
(* translate.go.                                                            *)

IsPrefixObject(e) == e.is = "prefix"

RepresentsObject(e) == e.is = "file" \/ IsPrefixObject(e)

IsHidden(b) == b \in DotName

IsUploadsStaging(p) == p[3] = ".uploads"

\* splitObjectPath and bucketRoot.
IsObjectPath(p) ==
  Len(p) > 2 /\ p[1] = "buckets" /\ ~IsHidden(p[2]) /\ ~IsUploadsStaging(p)

IsBucketRoot(p) == Len(p) = 2 /\ p[1] = "buckets" /\ ~IsHidden(p[2])

JoinPath(dir, name) == Append(dir, name)

NewDir(n) == IF n.parent # <<>> THEN n.parent ELSE n.dir

Hint(kind, p) == IF IsObjectPath(p) THEN <<[kind |-> kind, path |-> p]>> ELSE <<>>

\* appendOne: the changes of one notification.
AppendOne(n) ==
  LET oldFull == JoinPath(n.dir, n.oldName)
      newFull == JoinPath(NewDir(n), n.newName)
      wasObject == RepresentsObject(n.old)
      isObject == RepresentsObject(n.new)
  IN  CASE n.old = NoNode -> IF isObject THEN Hint("created", newFull) ELSE <<>>
        [] n.old # NoNode /\ n.new = NoNode ->
             IF wasObject THEN Hint("removed", oldFull)
             ELSE IF IsBucketRoot(oldFull) THEN <<[kind |-> "bucket", path |-> oldFull]>>
             ELSE <<>>
        [] n.old # NoNode /\ n.new # NoNode /\ oldFull = newFull ->
             IF isObject THEN Hint("created", newFull)
             ELSE IF wasObject THEN Hint("removed", newFull) ELSE <<>>
        [] OTHER -> (IF wasObject THEN Hint("removed", oldFull) ELSE <<>>)
                    \o (IF isObject THEN Hint("created", newFull) ELSE <<>>)

\* A response is its envelope and the members of its batch; `ts' is positive unless it
\* is a flush report.
Translate(resp) == FlattenSeq([i \in 1..Len(resp.batch) |-> AppendOne(resp.batch[i])])

AnyTimeIsHeartbeat(resp) == resp.ts > 0

IsIdleHeartbeat(resp) == resp.batch = <<>> /\ resp.ts > 0

\* processChange, reading the object as it is now, whatever the kind says.
Realized(was, change) ==
  IF change.kind = "bucket"
  THEN [was EXCEPT !.marks = @ \cup {change.path[2]}]
  ELSE [was EXCEPT !.rows[change.path] = S3Object(change.path),
                   !.told = IF change.kind = "created" THEN @ \cup {change.path}
                                                       ELSE @ \ {change.path}]

\* The body of the receive loop.
Receive(resp) ==
  IF IsIdleHeartbeat(resp)
  THEN /\ claimed' = TRUE /\ UNCHANGED <<indexed, told, incidents>>
  ELSE LET now == FoldLeft(Realized, [rows |-> indexed, told |-> told, marks |-> incidents],
                           Translate(resp))
       IN  /\ indexed' = now.rows /\ told' = now.told /\ incidents' = now.marks
           /\ UNCHANGED claimed

\* A backlog batch: the first notification is the envelope, the others its members.
DeliverBatch ==
  \E k \in 1..Len(log) :
    /\ Receive([batch |-> SubSeq(log, 1, k), ts |-> 1])
    /\ log' = SubSeq(log, k + 1, Len(log)) /\ UNCHANGED <<tree, opCount>>

\* An idle heartbeat, or a flush report, which has no time of its own and may come at
\* any moment.
DeliverEmpty ==
  \E ts \in {0, 1} : /\ ts = 1 => log = <<>>
                     /\ Receive([batch |-> <<>>, ts |-> ts])
                     /\ UNCHANGED <<tree, log, opCount>>

TransNext ==
  \/ \E p \in FPath : PutEntry(p) \/ MkDir(p) \/ Promote(p) \/ DeleteEntry(p) \/ RmDir(p)
                      \/ RemoveBucketDir(p)
  \/ \E p, q \in FPath : RenameEntry(p, q)
  \/ DeliverBatch \/ DeliverEmpty

TransSpec == TransInit /\ [][TransNext]_transVars

-----------------------------------------------------------------------------
(* Properties.                                                             *)

\* The object went with its bucket, and the bucket is marked.
GoneWithBucket(p) == S3Object(p) = 0 /\ p[2] \in incidents

\* When a heartbeat is taken for the claim that everything is delivered, every object
\* that was written or removed has been read back since, whatever operation of the
\* filer did it; a bucket that was removed is marked instead.
ClaimIsComplete ==
  claimed => \A p \in FPath : indexed[p] = S3Object(p) \/ GoneWithBucket(p)

\* The kinds say what happened: a reader of the changes alone ends up with the objects
\* that exist, through promotions, demotions and renames, and with no path that is not
\* an object's (staged parts, the gateway's own files, plain directories).
KindsAgree ==
  log = <<>> => \A p \in FPath : S3Object(p) # 0 <=> p \in told /\ ~GoneWithBucket(p)

\* The changes drawn from the log are complete and say what happened.
TranslationIsFaithful == ClaimIsComplete /\ KindsAgree
=============================================================================
