------------------------------ MODULE Multipart ------------------------------
(***************************************************************************)
(* One upload task of the agent at the level of parts: the file it reads,   *)
(* which other programs rewrite at any time, the multipart upload it        *)
(* resumes or starts, the digest it feeds and the object the store          *)
(* assembles.  Attempts fail and are repeated, the agent crashes, the abort *)
(* worker removes uploads on record.  The queue around it is AgentQueue.    *)
(***************************************************************************)
EXTENDS Naturals, Sequences, FiniteSets

CONSTANTS Content,     \* contents of the file: sequences of units
          PartSize, Threshold,
          MpUpload,    \* identifiers of multipart uploads, numbers above 0
          MaxEdits, MaxErrors   \* bounds: rewrites of the file; failures and crashes

ASSUME MultipartAssumption ==
  /\ PartSize \in Nat \ {0} /\ Threshold \in Nat /\ MaxEdits \in Nat /\ MaxErrors \in Nat
  /\ MpUpload \subseteq Nat \ {0}

VARIABLES
  disk,    \* the file: [data, mtime]
  record,  \* the task's row: [upload, snap], snap is the version of the parts
  remote,  \* the store's multipart uploads: id -> part number -> bytes
  aborts,  \* multipart_abort_outbox
  comparable, \* whether the store's ETags are MD5 digests
  run,     \* the attempt
  outcome, \* of the task: [sha, size, object]
  edits, errors

mpVars == <<disk, record, remote, aborts, comparable, run, outcome, edits, errors>>

NoMpUpload == 0
NoSnap == [mtime |-> 0, size |-> 0]
Mtime == 1..2

Version == [mtime |-> disk.mtime, size |-> Len(disk.data)]
NoRun == [pc |-> "idle", upload |-> NoMpUpload, fv |-> NoSnap, done |-> <<>>, part |-> 0,
         sha |-> <<>>, list |-> <<>>, retried |-> FALSE]
NoOutcome == [sha |-> <<>>, size |-> 0, object |-> <<>>]

Size == run.fv.size
TotalParts(size) == (size + PartSize - 1) \div PartSize

-----------------------------------------------------------------------------
(* Ranges of the file and ETags.                                            *)

Less2(a, b) == IF a < b THEN a ELSE b

\* partRange: where part p lies in an object of the given size.
InLayout(p, size) == (p - 1) * PartSize < size
PartLen(p, size) == Less2(PartSize, size - (p - 1) * PartSize)

\* What a limited read of the range gives now: shorter when the file shrank.
ReadRange(p, size) ==
  LET first == (p - 1) * PartSize + 1
      last == Less2((p - 1) * PartSize + PartLen(p, size), Len(disk.data))
  IN SubSeq(disk.data, first, last)

FullRead(p, size) == Len(ReadRange(p, size)) = PartLen(p, size)

\* A skipped part is trusted when its ETag is the MD5 of the bytes read.
EtagMatches(p, bytes) == comparable /\ run.done[p] = bytes

-----------------------------------------------------------------------------
MpInit ==
  /\ disk \in [data : Content, mtime : {1}]
  /\ record = [upload |-> NoMpUpload, snap |-> NoSnap]
  /\ remote = <<>> /\ aborts = {} /\ comparable \in BOOLEAN
  /\ run = NoRun /\ outcome = NoOutcome /\ edits = 0 /\ errors = 0

Error == errors < MaxErrors /\ errors' = errors + 1

Fails == run' = NoRun

Without(u) == [v \in DOMAIN remote \ {u} |-> remote[v]]

IsMultipart == Len(disk.data) > Threshold

\* canResumeParts, with the stat that UploadFile has just done.
CanResumeParts ==
  /\ record.snap # NoSnap
  /\ Version = record.snap
  /\ IsMultipart

\* UploadFile: stat, the gate, and the strategy.
UploadFile ==
  /\ run.pc = "idle" /\ outcome = NoOutcome
  /\ LET start(pc, u) == run' = [NoRun EXCEPT !.pc = pc, !.upload = u, !.fv = Version]
     IN IF record.upload # NoMpUpload /\ ~CanResumeParts
          THEN start("discard", record.upload)
          ELSE IF IsMultipart
            THEN start(IF record.upload = NoMpUpload THEN "init" ELSE "verify", record.upload)
            ELSE start("put", NoMpUpload)
  /\ UNCHANGED <<disk, record, remote, aborts, comparable, outcome, edits, errors>>

\* discardStaleUpload: the intent to abort first; without it the attempt fails.
DiscardStaleUpload ==
  /\ run.pc = "discard"
  /\ \/ /\ aborts' = aborts \cup {run.upload}
        /\ run' = [run EXCEPT !.pc = "abort"]
        /\ UNCHANGED errors
     \/ Error /\ Fails /\ UNCHANGED aborts
  /\ UNCHANGED <<disk, record, remote, comparable, outcome, edits>>

\* The abort, or its failure, which leaves the record to the abort worker.
AbortStaleUpload ==
  /\ run.pc = "abort"
  /\ \/ /\ remote' = Without(run.upload) /\ aborts' = aborts \ {run.upload}
        /\ UNCHANGED errors
     \/ Error /\ UNCHANGED <<remote, aborts>>
  /\ run' = [NoRun EXCEPT !.pc = IF Size > Threshold THEN "init" ELSE "put",
                         !.fv = run.fv, !.retried = run.retried]
  /\ UNCHANGED <<disk, record, comparable, outcome, edits>>

VerifyRemotePartsStrict ==
  /\ run.pc = "verify"
  /\ \/ /\ run.upload \in DOMAIN remote
        /\ run' = [run EXCEPT !.pc = "precheck", !.done = remote[run.upload]]
        /\ UNCHANGED errors
     \/ run.upload \notin DOMAIN remote /\ Fails /\ UNCHANGED errors
     \/ Error /\ Fails
  /\ UNCHANGED <<disk, record, remote, aborts, comparable, outcome, edits>>

\* verifyRemoteParts: the store's list replaces the recorded one.
VerifyRemoteParts ==
  /\ run.pc = "verify"
  /\ \/ /\ run.upload \in DOMAIN remote
        /\ run' = [run EXCEPT !.pc = "precheck", !.done = remote[run.upload]]
        /\ UNCHANGED errors
     \/ /\ run.upload \notin DOMAIN remote       \* NoSuchUpload
        /\ run' = [run EXCEPT !.pc = "init", !.upload = NoMpUpload]
        /\ UNCHANGED errors
     \/ Error /\ Fails
  /\ UNCHANGED <<disk, record, remote, aborts, comparable, outcome, edits>>

\* errStaleRemoteParts: UploadFile discards and begins again, once.
Stale(r) == IF r.retried THEN NoRun ELSE [r EXCEPT !.pc = "discard", !.retried = TRUE]

\* verifyResumePartETag of every part that is there, before anything is sent.
VerifyResumePartETags ==
  /\ run.pc = "precheck"
  /\ run' =
       IF \A p \in DOMAIN run.done :
            InLayout(p, Size) /\ FullRead(p, Size) /\ EtagMatches(p, ReadRange(p, Size))
         THEN [run EXCEPT !.pc = "loop", !.part = 1] ELSE Stale(run)
  /\ UNCHANGED <<disk, record, remote, aborts, comparable, outcome, edits, errors>>

\* The store never gives an identifier that something still refers to.
FreshUploads == MpUpload \ (DOMAIN remote \cup aborts \cup {record.upload})

NewMultipartUpload ==
  /\ run.pc = "init"
  /\ \/ /\ FreshUploads # {}
        /\ LET u == CHOOSE v \in FreshUploads : \A x \in FreshUploads : v <= x
           IN /\ remote' = [v \in DOMAIN remote \cup {u} |-> IF v = u THEN <<>> ELSE remote[v]]
              /\ run' = [run EXCEPT !.pc = "persist", !.upload = u]
        /\ UNCHANGED errors
     \/ Error /\ Fails /\ UNCHANGED remote
  /\ UNCHANGED <<disk, record, aborts, comparable, outcome, edits>>

\* The first SaveMultipartProgress; when it fails the fresh upload is aborted.
PersistInitiation ==
  /\ run.pc = "persist"
  /\ \/ /\ record' = [upload |-> run.upload, snap |-> run.fv]
        /\ run' = [run EXCEPT !.pc = "loop", !.part = 1]
        /\ UNCHANGED <<remote, errors>>
     \/ Error /\ Fails /\ remote' = Without(run.upload) /\ UNCHANGED record
  /\ UNCHANGED <<disk, aborts, comparable, outcome, edits>>

-----------------------------------------------------------------------------
(* The loop over the parts.                                                 *)

InLoop == run.pc = "loop" /\ run.part <= TotalParts(Size)

Delivered(bytes) ==
  [run EXCEPT !.part = @ + 1, !.sha = @ \o bytes, !.list = Append(@, <<run.part, bytes>>)]

\* hashResumePartChecked: the read that feeds the digest is the one compared.
HashResumePart(p) ==
  IF FullRead(p, Size) /\ EtagMatches(p, ReadRange(p, Size))
    THEN Delivered(ReadRange(p, Size)) ELSE Stale(run)

SkipPart ==
  /\ InLoop /\ run.part \in DOMAIN run.done
  /\ run' = HashResumePart(run.part)
  /\ UNCHANGED <<disk, record, remote, aborts, comparable, outcome, edits, errors>>

\* PutObjectPart: one read feeds the store and the digest.  The answer may be
\* lost after the store has the part.
PutObjectPart ==
  /\ InLoop /\ run.part \notin DOMAIN run.done
  /\ LET bytes == ReadRange(run.part, Size)
         has == [p \in DOMAIN remote[run.upload] \cup {run.part} |->
                   IF p = run.part THEN bytes ELSE remote[run.upload][p]]
     IN \/ /\ FullRead(run.part, Size) /\ run.upload \in DOMAIN remote
           /\ remote' = [remote EXCEPT ![run.upload] = has]
           /\ \/ run' = Delivered(bytes) /\ UNCHANGED errors
              \/ Error /\ Fails
        \/ /\ ~FullRead(run.part, Size) \/ run.upload \notin DOMAIN remote
           /\ Fails /\ UNCHANGED <<remote, errors>>
  /\ UNCHANGED <<disk, record, aborts, comparable, outcome, edits>>

\* The store concatenates the parts of the list, in the list's order.
Assembled(list) ==
  LET cat[i \in 0..Len(list)] == IF i = 0 THEN <<>> ELSE cat[i - 1] \o remote[run.upload][list[i][1]]
  IN cat[Len(list)]

StoreAccepts ==
  /\ run.upload \in DOMAIN remote
  /\ \A i \in DOMAIN run.list :
       /\ run.list[i][1] \in DOMAIN remote[run.upload]
       /\ remote[run.upload][run.list[i][1]] = run.list[i][2]

\* CompleteMultipartUpload, refused for an upload that is gone; again the
\* answer may be lost.
CompleteMultipartUpload ==
  /\ run.pc = "loop" /\ run.part > TotalParts(Size)
  /\ IF Len(run.sha) = Size /\ StoreAccepts
       THEN /\ remote' = Without(run.upload)
            /\ \/ /\ outcome' = [sha |-> run.sha, size |-> Len(run.sha), object |-> Assembled(run.list)]
                  /\ UNCHANGED errors
               \/ Error /\ UNCHANGED outcome
       ELSE UNCHANGED <<remote, outcome, errors>>
  /\ Fails
  /\ UNCHANGED <<disk, record, aborts, comparable, edits>>

\* singlePartUpload: at most the stat'ed size is read, less is an error.
SinglePartUpload ==
  /\ run.pc = "put"
  /\ \/ /\ Len(disk.data) >= Size
        /\ LET bytes == SubSeq(disk.data, 1, Size)
           IN outcome' = [sha |-> bytes, size |-> Size, object |-> bytes]
        /\ UNCHANGED errors
     \/ Len(disk.data) < Size /\ UNCHANGED <<outcome, errors>>
     \/ Error /\ UNCHANGED outcome
  /\ Fails
  /\ UNCHANGED <<disk, record, remote, aborts, comparable, edits>>

-----------------------------------------------------------------------------
(* The abort worker, the other programs, the crash.                         *)

DrainAbortOutbox ==
  /\ \E u \in aborts : aborts' = aborts \ {u} /\ remote' = Without(u)
  /\ UNCHANGED <<disk, record, comparable, run, outcome, edits, errors>>

\* A rewrite may keep the size, and even restore the modification time.
Rewritten ==
  /\ edits < MaxEdits /\ edits' = edits + 1 /\ outcome = NoOutcome
  /\ disk' \in [data : Content \ {disk.data}, mtime : Mtime]
  /\ UNCHANGED <<record, remote, aborts, comparable, run, outcome, errors>>

AgentCrash ==
  /\ Error /\ run # NoRun /\ Fails
  /\ UNCHANGED <<disk, record, remote, aborts, comparable, outcome, edits>>

MpAttempt ==
  \/ UploadFile \/ DiscardStaleUpload \/ AbortStaleUpload \/ VerifyRemoteParts
  \/ VerifyResumePartETags \/ NewMultipartUpload \/ PersistInitiation
  \/ SkipPart \/ PutObjectPart \/ CompleteMultipartUpload \/ SinglePartUpload

MpNext == MpAttempt \/ DrainAbortOutbox \/ Rewritten \/ AgentCrash

MpSpec == MpInit /\ [][MpNext]_mpVars

\* The executor retries the task, and the abort worker polls.
MpFair == WF_mpVars(MpAttempt) /\ WF_mpVars(DrainAbortOutbox)
MpFairSpec == MpSpec /\ MpFair

-----------------------------------------------------------------------------
MpTypeOK ==
  /\ disk \in [data : Content, mtime : Mtime]
  /\ record.upload \in MpUpload \cup {NoMpUpload}
  /\ (record.upload = NoMpUpload) <=> (record.snap = NoSnap)
  /\ DOMAIN remote \subseteq MpUpload /\ aborts \subseteq MpUpload
  /\ run.part \in 0..(TotalParts(Size) + 1)
  /\ \A i \in DOMAIN run.list : run.list[i][1] = i

(* The digest and the size that a finished upload reports are of the very   *)
(* object the store assembled, whatever happened to the file between the    *)
(* reads and in whichever attempt a part was sent.                          *)
DigestOfObject ==
  outcome # NoOutcome => outcome.sha = outcome.object /\ outcome.size = Len(outcome.object)
=============================================================================
