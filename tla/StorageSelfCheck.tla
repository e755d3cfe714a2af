-------------------------- MODULE StorageSelfCheck --------------------------
(***************************************************************************)
(* The storage self-check of the control plane (startupcheck.Run): an S3    *)
(* probe and an STS probe, repeated with a growing pause until both pass,   *)
(* the window closes or the process is told to stop.  The storage changes   *)
(* meanwhile: buckets and identities appear when the init script runs.      *)
(***************************************************************************)
Item == {"s3", "sts"}

\* What a probe may come back with.  "slow" is a deadline: the window's own, or a
\* shorter one of the HTTP client (stsProbeTimeout, the transport's timeouts).
Answer == {"ok", "missing", "denied", "unready", "foreign", "odd", "slow", "cancelled"}

NoFailure == [item |-> "none", answer |-> "ok"]

VARIABLES
  cancelled,   \* the parent context is done (SIGTERM, or the shutdown of run)
  window,      \* the derived context: "open" or "expired"
  check,       \* where Run is: "off", "s3", "sts", "judge", "pause", "done"
  last,        \* the failure of the latest attempt
  substantive, \* lastS3Substantive and lastSTSSubstantive
  verdict,     \* what Run returned: "none", "passed", "failure", "aborted"
  reported,    \* the *Failure it returned
  advice       \* the class and the hint it was logged with

checkVars == <<cancelled, window, check, last, substantive, verdict, reported, advice>>
outcome == <<verdict, reported, advice>>

CheckInit ==
  /\ cancelled = FALSE
  /\ window = "open" /\ check = "off" /\ last = NoFailure
  /\ substantive = [i \in Item |-> NoFailure]
  /\ verdict = "none" /\ reported = NoFailure /\ advice = <<>>

-----------------------------------------------------------------------------
(* diagnose and FixHint: what the operator is told about a failure.         *)

Diagnose(f) ==
  CASE f.answer \in {"slow", "unready", "cancelled"} -> "network"
    [] f.answer = "denied" -> "auth"
    [] f.answer \in {"missing", "foreign"} -> "config"
    [] OTHER -> "unknown"

FixHint(f) ==
  CASE f.item = "s3" /\ f.answer = "foreign" -> "endpoint is not the S3 API"
    [] f.item = "s3" /\ f.answer = "missing" -> "run the init script"
    [] f.item = "s3" -> "check the identity"
    [] OTHER -> "check the role"

-----------------------------------------------------------------------------
IsDeadlineCut(f) == f.answer = "slow"

\* ProbeS3.ListMultipartUploads and AssumeRoleSTS.AssumeRole.  A cancelled context
\* surfaces as a cancellation from S3; the STS call does not see it once it is made.
ProbeAnswers(i) ==
  {a \in Answer : /\ a = "cancelled" => i = "s3" /\ cancelled
                  /\ i = "sts" => a \notin {"missing", "foreign"}}

BeginCheck ==
  /\ check = "off" /\ check' = "s3"
  /\ UNCHANGED <<cancelled, window, last, substantive, outcome>>

\* attemptOnce: S3 first, STS only when S3 passed.
ProbeS3 ==
  /\ check = "s3"
  /\ \E a \in ProbeAnswers("s3") :
       IF a = "ok"
         THEN check' = "sts" /\ last' = NoFailure
         ELSE check' = "judge" /\ last' = [item |-> "s3", answer |-> a]
  /\ UNCHANGED <<cancelled, window, substantive, outcome>>

ProbeSTS ==
  /\ check = "sts" /\ check' = "judge"
  /\ \E a \in ProbeAnswers("sts") :
       last' = IF a = "ok" THEN NoFailure ELSE [item |-> "sts", answer |-> a]
  /\ UNCHANGED <<cancelled, window, substantive, outcome>>

\* The records after an attempt: a cut adds nothing, and an STS failure that is not
\* a cut shows that S3 passed.
Recorded ==
  IF last = NoFailure \/ IsDeadlineCut(last) THEN substantive
  ELSE IF last.item = "s3" THEN [substantive EXCEPT !["s3"] = last]
  ELSE [s3 |-> NoFailure, sts |-> last]

TerminalAny(f) ==
  IF IsDeadlineCut(f) /\ Recorded["s3"] # NoFailure THEN Recorded["s3"] ELSE f

\* terminalFailure: a cut is replaced by the record of the same item, if any.
TerminalFailure(f) ==
  IF IsDeadlineCut(f) /\ Recorded[f.item] # NoFailure THEN Recorded[f.item] ELSE f

Return(v, f) ==
  /\ check' = "done" /\ verdict' = v /\ reported' = f
  /\ advice' = IF v = "failure" THEN <<Diagnose(f), FixHint(f)>> ELSE <<>>

\* The rest of the loop's body.  The parent context is looked at first, then the
\* window; a success that came after the window does not count.
Judge ==
  /\ check = "judge"
  /\ substantive' = Recorded
  /\ CASE cancelled -> Return("aborted", NoFailure)
       [] ~cancelled /\ window = "expired" ->
            Return("failure", IF last = NoFailure THEN [item |-> "s3", answer |-> "slow"]
                              ELSE TerminalFailure(last))
       [] ~cancelled /\ window = "open" /\ last = NoFailure -> Return("passed", NoFailure)
       [] OTHER -> check' = "pause" /\ UNCHANGED outcome
  /\ UNCHANGED <<cancelled, window, last>>

\* The pause, no longer than what is left of the window, and the look at the parent
\* context at the top of the loop.
Pause ==
  /\ check = "pause"
  /\ CASE cancelled -> Return("aborted", NoFailure)
       [] ~cancelled /\ window = "expired" -> Return("failure", TerminalFailure(last))
       [] OTHER -> check' = "s3" /\ UNCHANGED outcome
  /\ UNCHANGED <<cancelled, window, last, substantive>>

WindowExpires ==
  /\ window = "open" /\ check \notin {"off", "done"}
  /\ window' = "expired"
  /\ UNCHANGED <<cancelled, check, last, substantive, outcome>>

ParentCancelled ==
  /\ ~cancelled /\ cancelled' = TRUE
  /\ UNCHANGED <<window, check, last, substantive, outcome>>

CheckStep == BeginCheck \/ ProbeS3 \/ ProbeSTS \/ Judge \/ Pause \/ WindowExpires

CheckSpec == CheckInit /\ [][CheckStep \/ ParentCancelled]_checkVars

-----------------------------------------------------------------------------
(* The verdict agrees with how the check ended: it passes only inside the   *)
(* window, it never turns a shutdown into a failure, and the failure it     *)
(* reports is that of the probe the last attempt stopped at, so a probe     *)
(* that blocks now is never hidden by one that blocked before.              *)
VerdictIsJust ==
  [][verdict' # verdict =>
       /\ verdict' = "passed" => window = "open" /\ last = NoFailure
       /\ verdict' = "failure" =>
            /\ ~cancelled /\ window = "expired"
            /\ last # NoFailure => reported'.item = last.item
            /\ advice'[2] = "check the role" <=> last.item = "sts"
       /\ verdict' = "aborted" => cancelled]_outcome

=============================================================================
