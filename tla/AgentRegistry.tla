--------------------------- MODULE AgentRegistry ---------------------------
(***************************************************************************)
(* The registry of agent streams (controlplane/internal/grpcserver):       *)
(* one entry per agent, replaced by a reconnect; a bounded send channel    *)
(* with one writer goroutine per connection; and revoke handlers, which    *)
(* enqueue a command, wait a bounded time until it is written and then end *)
(* the connection they captured.                                           *)
(*                                                                         *)
(* One agent id: the entries of different agents share nothing.            *)
(***************************************************************************)
EXTENDS Naturals, Sequences

CONSTANTS
  Conn,         \* connections, numbered; a number is used again once its goroutines are gone
  Revoker,      \* concurrent RevokeConn calls
  Other,        \* the sender of everything that nobody waits for
  NoConn,
  SendCap,      \* sendChCapacity
  MaxQueued     \* bound on the messages of one connection

ASSUME RegistryAssumption ==
  /\ Conn \subseteq Nat /\ NoConn \notin Conn /\ Other \notin Revoker
  /\ SendCap \in Nat \ {0} /\ MaxQueued \in Nat

VARIABLES
  conns,        \* AgentRegistry.conns of the agent
  link,         \* every AgentConn
  revoke        \* every RevokeConn call

regVars == <<conns, link, revoke>>

\* ch: SendCh, as the senders of its messages.  busy: the sender of the message
\* the writer holds in stream.Send.  wrote: whose commands were written.
Fresh == [phase |-> "free", ch |-> << >>, closed |-> FALSE, queued |-> 0, sent |-> 0,
          writer |-> "none", busy |-> Other, wrote |-> {}, writerDone |-> FALSE,
          cancelled |-> FALSE, stopped |-> FALSE]
Idle == [pc |-> "idle", conn |-> NoConn, seq |-> 0]

RegInit ==
  /\ conns = NoConn
  /\ link = [c \in Conn |-> Fresh]
  /\ revoke = [k \in Revoker |-> Idle]

Put(c, r) == link' = [link EXCEPT ![c] = r]
Goto(k, r) == revoke' = [revoke EXCEPT ![k] = r]

-----------------------------------------------------------------------------
(* The life of a connection.                                               *)

Unused(c) == link[c].phase = "free" /\ \A d \in Conn : link[d].phase = "free" => c <= d

\* A reconnect displaces the entry and cancels the connection it displaces.
Register(c) ==
  /\ Unused(c)
  /\ link' = [d \in Conn |-> CASE d = c -> [link[d] EXCEPT !.phase = "open"]
                               [] d = conns /\ d # c -> [link[d] EXCEPT !.cancelled = TRUE]
                               [] OTHER -> link[d]]
  /\ conns' = c /\ UNCHANGED revoke

\* Connect ends before its writer starts: the agent left the usable states.
Refuse(c) ==
  /\ link[c].phase = "open" /\ link[c].writer = "none"
  /\ Put(c, [link[c] EXCEPT !.phase = "returned"])
  /\ UNCHANGED <<conns, revoke>>

StartWriter(c) ==
  /\ link[c].phase = "open" /\ link[c].writer = "none"
  /\ Put(c, [link[c] EXCEPT !.writer = "idle"])
  /\ UNCHANGED <<conns, revoke>>

\* stopCh or ctx.Done: the handler returns, waits for nobody and reads stopCh no more.
HandlerEnds(c) ==
  /\ link[c].phase = "open" /\ link[c].writer # "none"
  /\ link[c].stopped \/ link[c].cancelled
  /\ Put(c, [link[c] EXCEPT !.phase = "returned", !.stopped = FALSE])
  /\ UNCHANGED <<conns, revoke>>

\* Recv fails: the context is cancelled, except when a graceful stop is under way.
RecvFails(c) ==
  /\ link[c].phase = "open" /\ link[c].writer # "none"
  /\ Put(c, [link[c] EXCEPT !.phase = "returned", !.stopped = FALSE,
                            !.cancelled = @ \/ ~link[c].stopped])
  /\ UNCHANGED <<conns, revoke>>

\* Only the connection that owns the entry removes it.  Returning ended the RPC,
\* whose context is the parent of the connection's, so what the channel still holds is
\* never written.
Unregister(c) ==
  /\ link[c].phase = "returned"
  /\ LET gone == [link[c] EXCEPT !.phase = "gone", !.cancelled = TRUE, !.ch = << >>]
     IN IF conns = c
        THEN /\ conns' = NoConn
             /\ Put(c, [gone EXCEPT !.closed = TRUE, !.writerDone = TRUE])
        ELSE UNCHANGED conns /\ Put(c, gone)
  /\ UNCHANGED revoke

Recycle(c) ==
  /\ link[c].phase = "gone" /\ link[c].writer \in {"none", "stopped"}
  /\ \A k \in Revoker : revoke[k].conn # c
  /\ Put(c, Fresh) /\ UNCHANGED <<conns, revoke>>

-----------------------------------------------------------------------------
(* The send goroutine of Connect.                                          *)

WriterTakes(c) ==
  /\ link[c].writer = "idle" /\ link[c].ch # << >>
  /\ Put(c, [link[c] EXCEPT !.ch = Tail(@), !.busy = Head(link[c].ch), !.writer = "sending"])
  /\ UNCHANGED <<conns, revoke>>

\* stream.Send returned, then noteWritten.
WriterWrote(c) ==
  /\ link[c].writer = "sending" /\ link[c].phase # "gone"
  /\ Put(c, [link[c] EXCEPT !.writer = "idle", !.sent = @ + 1,
                            !.wrote = @ \cup ({link[c].busy} \cap Revoker), !.busy = Other])
  /\ UNCHANGED <<conns, revoke>>

\* stream.Send fails once the RPC has ended; ctx.Done and the closed channel are
\* seen only between two sends.
WriterStops(c) ==
  /\ \/ link[c].writer = "sending" /\ link[c].phase \in {"returned", "gone"}
     \/ link[c].writer = "idle" /\ link[c].cancelled
     \/ link[c].writer = "idle" /\ link[c].closed /\ link[c].ch = << >>
  /\ Put(c, [link[c] EXCEPT !.writer = "stopped", !.writerDone = TRUE, !.busy = Other])
  /\ UNCHANGED <<conns, revoke>>

-----------------------------------------------------------------------------
(* Senders.                                                                *)

CanQueue(c) == Len(link[c].ch) < SendCap /\ link[c].queued < MaxQueued

EnqueueUnnumbered(c, who) ==
  [link[c] EXCEPT !.ch = Append(@, who), !.queued = IF who = Other THEN @ ELSE @ + 1]

\* A message takes the next sequence number; the caller holds r.mu.
Enqueue(c, who) ==
  [link[c] EXCEPT !.ch = Append(@, who), !.queued = @ + 1]

\* Send: to whichever connection is registered; a full channel drops the message.
Send ==
  /\ conns # NoConn /\ CanQueue(conns)
  /\ Put(conns, Enqueue(conns, Other))
  /\ UNCHANGED <<conns, revoke>>

\* RevokeConn looks the connection up once and keeps to it.
RevokeConn(k) ==
  /\ revoke[k].pc = "idle" /\ conns # NoConn
  /\ Goto(k, [pc |-> "captured", conn |-> conns, seq |-> 0])
  /\ UNCHANGED <<conns, link>>

\* sendSync: the identity check and the enqueue are one critical section.
SendSync(k) ==
  LET c == revoke[k].conn IN
  /\ revoke[k].pc = "captured"
  /\ IF conns = c /\ CanQueue(c)
     THEN Put(c, Enqueue(c, k)) /\ Goto(k, [revoke[k] EXCEPT !.pc = "wait", !.seq = link[c].queued + 1])
     ELSE UNCHANGED link /\ Goto(k, [revoke[k] EXCEPT !.pc = "refused", !.seq = 0])
  /\ UNCHANGED conns

\* waitForWrite: written; or the writer is done, or the timer fires, either of
\* which the select may prefer to progress made meanwhile.
WaitConfirms(k) ==
  /\ revoke[k].pc = "wait" /\ link[revoke[k].conn].sent >= revoke[k].seq
  /\ Goto(k, [revoke[k] EXCEPT !.pc = "confirmed", !.seq = 0])
  /\ UNCHANGED <<conns, link>>

WaitWriterDone(k) ==
  /\ revoke[k].pc = "wait" /\ link[revoke[k].conn].writerDone
  /\ Goto(k, [revoke[k] EXCEPT !.pc = "refused", !.seq = 0])
  /\ UNCHANGED <<conns, link>>

WaitTimesOut(k) ==
  /\ revoke[k].pc = "wait"
  /\ Goto(k, [revoke[k] EXCEPT !.pc = "refused", !.seq = 0])
  /\ UNCHANGED <<conns, link>>

\* The teardown by id that RevokeConn replaced.
RevokeEndsById(k) ==
  LET c == conns IN
  /\ revoke[k].pc \in {"confirmed", "refused"}
  /\ IF c = NoConn THEN UNCHANGED link
     ELSE Put(c, IF revoke[k].pc = "confirmed" THEN [link[c] EXCEPT !.stopped = link[c].phase = "open"]
                                               ELSE [link[c] EXCEPT !.cancelled = TRUE])
  /\ Goto(k, Idle) /\ UNCHANGED conns

\* Graceful when confirmed (stopConn), forced otherwise (disconnectConn).
RevokeEnds(k) ==
  LET c == revoke[k].conn IN
  /\ revoke[k].pc \in {"confirmed", "refused"}
  /\ Put(c, IF revoke[k].pc = "confirmed" THEN [link[c] EXCEPT !.stopped = link[c].phase = "open"]
                                          ELSE [link[c] EXCEPT !.cancelled = TRUE])
  /\ Goto(k, Idle) /\ UNCHANGED conns

RegNext ==
  \/ \E c \in Conn : \/ Register(c) \/ Refuse(c) \/ StartWriter(c) \/ HandlerEnds(c)
                     \/ RecvFails(c) \/ Unregister(c) \/ Recycle(c)
                     \/ WriterTakes(c) \/ WriterWrote(c) \/ WriterStops(c)
  \/ Send
  \/ \E k \in Revoker : \/ RevokeConn(k) \/ SendSync(k) \/ WaitConfirms(k)
                        \/ WaitWriterDone(k) \/ WaitTimesOut(k) \/ RevokeEnds(k)

\* The handler, its defer and a revoke call are goroutines that nothing blocks.
\* The writer waits for the agent to read, so a write is never assumed.
RegFair ==
  /\ \A c \in Conn : /\ WF_regVars(StartWriter(c) \/ Refuse(c))
                     /\ WF_regVars(HandlerEnds(c))
                     /\ WF_regVars(Unregister(c))
  /\ \A k \in Revoker : /\ WF_regVars(SendSync(k))
                        /\ WF_regVars(RevokeEnds(k))
                        /\ WF_regVars(WaitConfirms(k) \/ WaitTimesOut(k))

RegSpec == RegInit /\ [][RegNext]_regVars
RegFairSpec == RegSpec /\ RegFair

-----------------------------------------------------------------------------
(* Properties.                                                             *)

\* The registry holds an open or a returning connection, a channel is closed only
\* by the connection's own Unregister, and sequence numbers stay within bounds.
RegTypeOK ==
  /\ conns \in Conn \cup {NoConn}
  /\ conns # NoConn => link[conns].phase \in {"open", "returned"} /\ ~link[conns].closed
  /\ \A c \in Conn :
       /\ link[c].phase \in {"free", "open", "returned", "gone"}
       /\ link[c].writer \in {"none", "idle", "sending", "stopped"}
       /\ Len(link[c].ch) <= SendCap /\ link[c].queued \in 0..MaxQueued
       /\ link[c].sent \in 0..link[c].queued
       /\ link[c].closed => link[c].phase = "gone"
  /\ \A k \in Revoker : revoke[k].pc \in {"idle", "captured", "wait", "confirmed", "refused"}

\* No message is put on a closed channel, which would panic the control plane: the
\* enqueue of a captured connection fails once Unregister has run.
NoSendOnClosed ==
  [][\A c \in Conn : Len(link'[c].ch) > Len(link[c].ch) => ~link[c].closed]_regVars

\* sentSeq >= seq says that the caller's own command was written, whoever else
\* was sending: FIFO order is sequence order.
ConfirmedIsWritten ==
  \A k \in Revoker : revoke[k].pc = "confirmed" => k \in link[revoke[k].conn].wrote

\* No stream outlives its registry entry: whatever serves the agent without being
\* the registered connection is already cancelled.
NoStrayStream ==
  \A c \in Conn : link[c].phase = "open" /\ conns # c => link[c].cancelled

\* A reconnect that registers while a revoke waits is not what the revoke cuts: the
\* registered connection is ended only by a call that captured that connection.
ReplacementSurvives ==
  [][\A c \in Conn :
       (/\ conns' = c /\ link'[c].phase = "open"
        /\ \/ link'[c].stopped /\ ~link[c].stopped
           \/ link'[c].cancelled /\ ~link[c].cancelled)
       => \E k \in Revoker : revoke[k].conn = c]_regVars

\* A revoke ends the connection it captured, confirmed or not, whether or not the
\* agent reads its stream or reconnects meanwhile: the call comes to its end, it does
\* not end without having told an open connection to stop, and one that was told
\* does not stay open.
RevokedConnEnds ==
  /\ \A k \in Revoker : []<>(revoke[k] = Idle)
  /\ [][\A k \in Revoker : revoke[k] # Idle /\ revoke'[k] = Idle =>
         LET r == link'[revoke[k].conn] IN r.phase = "open" => r.stopped \/ r.cancelled]_regVars
  /\ \A c \in Conn :
       []<>(link[c].phase = "open" => ~link[c].stopped /\ ~link[c].cancelled)

\* The registry tells the truth about streams: sentSeq confirms only what was written,
\* and no stream runs on beside the registered one.
RegistrySound == RegTypeOK /\ ConfirmedIsWritten /\ NoStrayStream

\* A revoke ends the connection it captured, and nothing else: not a replacement, and
\* not the control plane by a send on a closed channel.
RevokeIsExact == NoSendOnClosed /\ ReplacementSurvives /\ RevokedConnEnds
=============================================================================
