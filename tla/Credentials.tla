---------------------------- MODULE Credentials ----------------------------
(***************************************************************************)
(* The upload credentials of an agent.  The control plane mints a session  *)
(* for the buckets of the agent's active rules, and pushes it or answers a *)
(* refresh; on the agent the stream, the periodic refresh and an upload    *)
(* that was denied all write the one session the uploads use.              *)
(*                                                                         *)
(* One bucket that a rule adds and removes; the agent's other buckets stay *)
(* covered.                                                                *)
(***************************************************************************)
EXTENDS Naturals, Sequences, FiniteSets

CONSTANTS
  Task,         \* uploads to the bucket
  Ticker,       \* the periodic refresh goroutine
  MaxGen,       \* bound on the generations that pushes and the ticker take
  MaxPush       \* bound on pushes under way

ASSUME CredAssumption ==
  /\ Ticker \notin Task /\ "nobody" \notin Task \cup {Ticker}
  /\ MaxGen \in Nat /\ MaxPush \in Nat

Refresher == Task \cup {Ticker}
Session == {"with", "without"}      \* does it cover the bucket?

VARIABLES
  covered,      \* an active rule targets the bucket
  credGen,      \* the last generation given out
  minting,      \* sessions being minted for a push, in no particular order
  pushed,       \* sessions on the agent's stream
  rpc,          \* refresh calls
  sts,          \* STSManager: session and generation
  holder,       \* credentialHolder: the published pair
  applying,     \* who is inside credentialHolder.Apply
  upload        \* uploadWithAccessDeniedRetry

credVars == <<covered, credGen, minting, pushed, rpc, sts, holder, applying, upload>>

Gen == 0..(MaxGen + Cardinality(Task))
Held == [sess : Session \cup {"none"}, gen : Gen]
Nothing == [sess |-> "none", gen |-> 0]
NoRpc == [pc |-> "idle", gen |-> 0, sess |-> "none"]
NoUpload == [pc |-> "idle", attempt |-> 0, sess |-> "none", before |-> 0, used |-> 0,
             asked |-> 0]

CredInit ==
  /\ covered \in BOOLEAN /\ credGen = 0 /\ minting = << >> /\ pushed = << >>
  /\ rpc = [w \in Refresher |-> NoRpc]
  /\ sts = Nothing /\ holder = Nothing /\ applying = "nobody"
  /\ upload = [t \in Task |-> NoUpload]

Minted == IF covered THEN "with" ELSE "without"

-----------------------------------------------------------------------------
(* The control plane.                                                      *)

EditRules ==
  /\ covered' = ~covered
  /\ UNCHANGED <<upload, credGen, minting, pushed, rpc, sts, holder, applying>>

\* bucketsForAgent: the buckets are listed before the session is minted.
PushLists ==
  /\ Len(minting) + Len(pushed) < MaxPush
  /\ minting' = Append(minting, Minted)
  /\ UNCHANGED <<covered, credGen, pushed, rpc, sts, holder, applying, upload>>

\* Pushes mint side by side and are sent in the order they finish.
PushSends ==
  /\ \E i \in 1..Len(minting) :
       /\ pushed' = Append(pushed, minting[i])
       /\ minting' = SubSeq(minting, 1, i - 1) \o SubSeq(minting, i + 1, Len(minting))
  /\ UNCHANGED <<covered, credGen, rpc, sts, holder, applying, upload>>

\* No session, or no room on the stream.
PushFails ==
  /\ minting # << >> /\ minting' = Tail(minting)
  /\ UNCHANGED <<covered, credGen, pushed, rpc, sts, holder, applying, upload>>

RefreshMints(w) ==
  /\ rpc[w].pc = "asked"
  /\ rpc' = [rpc EXCEPT ![w] = [rpc[w] EXCEPT !.pc = "minted", !.sess = Minted]]
  /\ UNCHANGED <<covered, credGen, minting, pushed, sts, holder, applying, upload>>

-----------------------------------------------------------------------------
(* credentialHolder.Apply: the generation check, the session and the       *)
(* uploader's configuration change in one critical section.                *)

Newer(g) == g > sts.gen

SetSTS(s, g) == sts' = IF Newer(g) THEN [sess |-> s, gen |-> g] ELSE sts

Apply(w) ==
  /\ rpc[w].pc = "minted" /\ applying = "nobody"
  /\ SetSTS(rpc[w].sess, rpc[w].gen)
  /\ IF Newer(rpc[w].gen) THEN applying' = w /\ rpc' = [rpc EXCEPT ![w].pc = "publish"]
                          ELSE UNCHANGED applying /\ rpc' = [rpc EXCEPT ![w].pc = "applied"]
  /\ UNCHANGED <<covered, credGen, minting, pushed, holder, upload>>

Publish(w) ==
  /\ rpc[w].pc = "publish"
  /\ holder' = [sess |-> rpc[w].sess, gen |-> rpc[w].gen]
  /\ applying' = "nobody" /\ rpc' = [rpc EXCEPT ![w].pc = "applied"]
  /\ UNCHANGED <<covered, credGen, minting, pushed, sts, upload>>

\* A pushed session takes its generation when it is received.
ReceivePush ==
  /\ pushed # << >> /\ applying = "nobody" /\ credGen < MaxGen
  /\ credGen' = credGen + 1
  /\ sts' = [sess |-> Head(pushed), gen |-> credGen + 1] /\ holder' = sts'
  /\ pushed' = Tail(pushed)
  /\ UNCHANGED <<covered, minting, rpc, applying, upload>>

-----------------------------------------------------------------------------
(* Refreshes.  The generation is taken when the request starts.            *)

Ask(w) ==
  /\ credGen' = credGen + 1
  /\ rpc' = [rpc EXCEPT ![w] = [pc |-> "asked", gen |-> credGen + 1, sess |-> "none"]]

TickerAsks ==
  /\ rpc[Ticker].pc = "idle" /\ credGen < MaxGen /\ Ask(Ticker)
  /\ UNCHANGED <<covered, minting, pushed, sts, holder, applying, upload>>

TickerEnds ==
  /\ rpc[Ticker].pc = "applied" /\ rpc' = [rpc EXCEPT ![Ticker] = NoRpc]
  /\ UNCHANGED <<covered, credGen, minting, pushed, sts, holder, applying, upload>>

RefreshFails(w) ==
  /\ rpc[w].pc = "asked" /\ rpc' = [rpc EXCEPT ![w] = NoRpc]
  /\ upload' = IF w = Ticker THEN upload ELSE [upload EXCEPT ![w] = NoUpload]
  /\ UNCHANGED <<covered, credGen, minting, pushed, sts, holder, applying>>

-----------------------------------------------------------------------------
(* One upload: up to three attempts, each with the session then held.      *)

Go(t, r) == upload' = [upload EXCEPT ![t] = r]

\* A rule submits the file.
UploadStarts(t) ==
  /\ upload[t].pc = "idle" /\ covered /\ credGen < MaxGen
  /\ Go(t, [NoUpload EXCEPT !.pc = "read"])
  /\ UNCHANGED <<covered, credGen, minting, pushed, rpc, sts, holder, applying>>

\* genBefore is read ahead of the second attempt; Current waits for a writer.
AttemptReads(t) ==
  /\ upload[t].pc = "read" /\ applying = "nobody" /\ holder.sess # "none"
  /\ Go(t, [upload[t] EXCEPT !.pc = "put", !.attempt = @ + 1, !.sess = holder.sess,
                             !.used = holder.gen])
  /\ UNCHANGED <<covered, credGen, minting, pushed, rpc, sts, holder, applying>>

\* No credentials yet: the executor backs off.
AttemptNoSession(t) ==
  /\ upload[t].pc = "read" /\ holder.sess = "none"
  /\ Go(t, NoUpload)
  /\ UNCHANGED <<covered, credGen, minting, pushed, rpc, sts, holder, applying>>

AttemptStored(t) ==
  /\ upload[t].pc = "put" /\ upload[t].sess = "with"
  /\ Go(t, NoUpload)
  /\ UNCHANGED <<covered, credGen, minting, pushed, rpc, sts, holder, applying>>

\* First denial: clear the session, keep the watermark, ask for a new one.
FirstDenied(t) ==
  /\ upload[t].pc = "put" /\ upload[t].sess = "without" /\ upload[t].attempt = 1
  /\ Ask(t) /\ sts' = [sts EXCEPT !.sess = "none"]
  /\ Go(t, [upload[t] EXCEPT !.pc = "refresh", !.asked = credGen + 1])
  /\ UNCHANGED <<covered, minting, pushed, holder, applying>>

RefreshReturns(t) ==
  /\ upload[t].pc = "refresh" /\ rpc[t].pc = "applied" /\ applying = "nobody"
  /\ rpc' = [rpc EXCEPT ![t] = NoRpc]
  /\ Go(t, [upload[t] EXCEPT !.pc = "read", !.before = holder.gen])
  /\ UNCHANGED <<covered, credGen, minting, pushed, sts, holder, applying>>

\* Second denial: terminal if the generation held, one more attempt otherwise.
SecondDenied(t) ==
  /\ upload[t].pc = "put" /\ upload[t].sess = "without" /\ upload[t].attempt = 2
  /\ applying = "nobody"
  /\ Go(t, [upload[t] EXCEPT !.pc = IF holder.gen = upload[t].before THEN "terminal" ELSE "read"])
  /\ UNCHANGED <<covered, credGen, minting, pushed, rpc, sts, holder, applying>>

ThirdDeniedRetries(t) ==
  /\ upload[t].pc = "put" /\ upload[t].sess = "without" /\ upload[t].attempt = 3
  /\ Go(t, [upload[t] EXCEPT !.pc = "read", !.attempt = 2])
  /\ UNCHANGED <<covered, credGen, minting, pushed, rpc, sts, holder, applying>>

ThirdDenied(t) ==
  /\ upload[t].pc = "put" /\ upload[t].sess = "without" /\ upload[t].attempt = 3
  /\ Go(t, [upload[t] EXCEPT !.pc = "terminal"])
  /\ UNCHANGED <<covered, credGen, minting, pushed, rpc, sts, holder, applying>>

Writer(w) == RefreshMints(w) \/ Apply(w) \/ Publish(w) \/ RefreshFails(w)
Attempt(t) ==
  \/ AttemptReads(t) \/ AttemptNoSession(t) \/ AttemptStored(t)
  \/ FirstDenied(t) \/ RefreshReturns(t) \/ SecondDenied(t) \/ ThirdDenied(t)

CredNext ==
  \/ EditRules \/ PushLists \/ PushSends \/ PushFails \/ ReceivePush
  \/ TickerAsks \/ TickerEnds
  \/ \E w \in Refresher : Writer(w)
  \/ \E t \in Task : UploadStarts(t) \/ Attempt(t)

CredSpec == CredInit /\ [][CredNext]_credVars
CredFair == /\ \A w \in Refresher : WF_credVars(Writer(w))
            /\ \A t \in Task : WF_credVars(Attempt(t))
CredFairSpec == CredSpec /\ CredFair

-----------------------------------------------------------------------------
(* Properties.                                                             *)

\* Outside a publication the session store and the uploader's configuration are
\* the same generation, and no generation exceeds the counter.
SessionsAgree ==
  /\ holder.gen <= sts.gen /\ sts.gen <= credGen
  /\ applying = "nobody" => holder.gen = sts.gen
  /\ holder.gen = sts.gen => sts.sess \in {holder.sess, "none"}

\* The two hold a session or none, of a generation that was given out.
CredTypeOK == sts \in Held /\ holder \in Held /\ credGen \in Gen /\ SessionsAgree

\* What an upload uses only moves forward: no response replaces the session of an
\* acquisition that started after it, however late it arrives.
NewestStays == [][holder' # holder => holder'.gen > holder.gen]_credVars

\* A file is given up only on a session acquired no earlier than the refresh that its
\* own denial asked for.
VerdictOnRefreshed ==
  \A t \in Task : upload[t].pc = "terminal" => upload[t].used >= upload[t].asked

\* A denied file is given up after at most three attempts, or goes back to the
\* executor; it never loops on refreshes.
UploadEnds ==
  \A t \in Task : []<>(upload[t].pc \in {"idle", "terminal"})

\* Uploads use the newest session there is, and a denial is settled on a session that
\* was asked for after it.
CredentialsServe == []CredTypeOK /\ []VerdictOnRefreshed /\ NewestStays /\ UploadEnds
=============================================================================
