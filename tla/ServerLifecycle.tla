-------------------------- MODULE ServerLifecycle --------------------------
(***************************************************************************)
(* run() of the control plane: the boot sequence, the listeners and the     *)
(* storage event source it starts, the self-check it runs in the            *)
(* background, and the shutdown, which a signal, a failed self-check or a   *)
(* dead listener may ask for, in any order and at the same time.  The       *)
(* process may crash and is started again.                                  *)
(***************************************************************************)
EXTENDS Naturals

CONSTANTS DefaultBucket   \* defaultBucketList

VARIABLES
  cancelled, \* the context of the workers is done
  verdict,   \* what startupcheck.Run returned:
             \* "none", "passed", "failure", "aborted", "refused"
  at,        \* where run() is
  conf,      \* the configuration in effect
  schema,    \* "old", "partial" (a migration failed half-way), "current"
  admin,     \* the first account: "none", "lost" (nobody has its password), "known"
  buckets,   \* rows of the buckets table
  listener,  \* "grpc" and "http": "off", "up", "sending" its error, "gone"
  source,    \* the storage event source: "off", "up", "gone"
  fatal,     \* errors in the serveFatal channel
  failed,    \* errors in the selfCheckFailed channel
  delivered, \* the self-check goroutine is done
  code,      \* the exit code
  sinkUp,    \* the dead-letter table can be written
  sinkReady  \* what /healthz says of it

mainVars == <<at, conf, schema, admin, buckets, listener, source, fatal, failed, delivered,
              code, sinkUp, sinkReady>>
srvVars == <<cancelled, verdict, mainVars>>

Listener == {"grpc", "http"}
Started == {"await", "drain", "shutdown", "join"}
NoListener == [l \in Listener |-> "off"]

\* What the environment may hold, of what the rest of run() depends on.
RawConf == [window : {"unset", "malformed", "zero", "good"},
            source : {"unset", "filer", "typo"}, addr : BOOLEAN, insecure : BOOLEAN,
            reset : BOOLEAN, password : BOOLEAN]

\* config.Load: a duration that does not parse falls back to its default, but not the
\* self-check's window; unset values take their defaults.
Loads(raw) == raw.window # "malformed"
Load(raw) == [raw EXCEPT !.window = IF @ = "unset" THEN "good" ELSE @,
                         !.source = IF @ = "unset" THEN "webhook" ELSE @]

\* Config.Validate
Validate(c) ==
  /\ c.window # "zero"
  /\ c.reset => c.password
  /\ c.source = "webhook" \/ (c.source = "filer" /\ c.addr /\ c.insecure)

NoConf == [window |-> "good", source |-> "webhook", reset |-> FALSE, password |-> FALSE]
InEffect(c) == [window |-> c.window, source |-> c.source, reset |-> c.reset,
                password |-> c.password]

SrvInit ==
  /\ at = "down" /\ conf = NoConf /\ schema = "old" /\ admin = "none" /\ buckets = {}
  /\ sinkUp = TRUE /\ cancelled = FALSE /\ verdict = "none"
  /\ listener = NoListener /\ source = "off" /\ fatal = 0 /\ failed = 0
  /\ delivered = FALSE /\ code = 0 /\ sinkReady = FALSE

\* A process that ended, by itself or in a crash, leaves what the database holds.
Ended ==
  /\ at' = "down" /\ conf' = NoConf /\ cancelled' = FALSE /\ verdict' = "none"
  /\ listener' = NoListener /\ source' = "off" /\ fatal' = 0 /\ failed' = 0
  /\ delivered' = FALSE /\ code' = 0 /\ sinkReady' = FALSE

-----------------------------------------------------------------------------
(* Boot: every step that fails returns 1.                                   *)

Exit1 == at' = "exited" /\ code' = 1

\* The first steps of run(): an environment that does not load or validate ends it.
Configure ==
  /\ at = "down"
  /\ \E raw \in RawConf :
       IF Loads(raw) /\ Validate(Load(raw))
         THEN at' = "migrate" /\ conf' = InEffect(Load(raw)) /\ UNCHANGED code
         ELSE Exit1 /\ UNCHANGED conf
  /\ UNCHANGED <<cancelled, verdict, schema, admin, buckets, listener, source, fatal,
                 failed, delivered, sinkUp, sinkReady>>

\* db.Migrate.  A migration that failed half-way marks the schema, and the next start
\* refuses it too, until an operator has repaired it.
Migrate ==
  /\ at = "migrate"
  /\ \/ schema # "partial" /\ schema' = "current" /\ at' = "connect" /\ UNCHANGED code
     \/ schema = "old" /\ schema' = "partial" /\ Exit1
     \/ schema = "partial" /\ UNCHANGED schema /\ Exit1
  /\ UNCHANGED <<cancelled, verdict, conf, admin, buckets, listener, source, fatal, failed,
                 delivered, sinkUp, sinkReady>>

SchemaRepaired ==
  /\ at \in {"down", "exited"} /\ schema = "partial" /\ schema' = "old"
  /\ UNCHANGED <<cancelled, verdict, at, conf, admin, buckets, listener, source, fatal,
                 failed, delivered, code, sinkUp, sinkReady>>

\* db.Open with its ping, cache.New and the NATS connection.
ConnectAll ==
  /\ at = "connect" /\ at' = "admin"
  /\ UNCHANGED <<cancelled, verdict, conf, schema, admin, buckets, listener, source, fatal,
                 failed, delivered, code, sinkUp, sinkReady>>

BootFails ==
  /\ at \in {"migrate", "connect", "admin", "credentials", "buckets", "grpc"} /\ Exit1
  /\ UNCHANGED <<cancelled, verdict, conf, schema, admin, buckets, listener, source, fatal,
                 failed, delivered, sinkUp, sinkReady>>

\* EnsureAdminAccount.  A configured password is known to the operator; a generated
\* one only to this process, until the credentials file is written.
EnsureAdminAccount ==
  /\ at = "admin"
  /\ \/ /\ admin = "none"
        /\ admin' = (IF conf.password THEN "known" ELSE "lost") /\ at' = "credentials"
     \/ /\ admin # "none"
        /\ IF conf.reset THEN admin' = "known" /\ at' = "credentials"
           ELSE UNCHANGED admin /\ at' = "buckets"
  /\ UNCHANGED <<cancelled, verdict, conf, schema, buckets, listener, source, fatal, failed,
                 delivered, code, sinkUp, sinkReady>>

WriteBootstrapCredentials ==
  /\ at = "credentials" /\ at' = "buckets" /\ admin' = "known"
  /\ UNCHANGED <<cancelled, verdict, conf, schema, buckets, listener, source, fatal, failed,
                 delivered, code, sinkUp, sinkReady>>

\* EnsureDefaultBuckets creates the missing rows one by one.
EnsureDefaultBuckets ==
  /\ at = "buckets"
  /\ IF DefaultBucket \subseteq buckets
       THEN at' = "grpc" /\ UNCHANGED buckets
       ELSE \E b \in DefaultBucket \ buckets : buckets' = buckets \cup {b} /\ UNCHANGED at
  /\ UNCHANGED <<cancelled, verdict, conf, schema, admin, listener, source, fatal, failed,
                 delivered, code, sinkUp, sinkReady>>

\* The engine, the gRPC listener, the workers, and the first probe of the sink.
StartGRPC ==
  /\ at = "grpc" /\ at' = "source"
  /\ listener' = [listener EXCEPT !["grpc"] = "up"]
  /\ sinkReady' = sinkUp
  /\ UNCHANGED <<cancelled, verdict, conf, schema, admin, buckets, source, fatal, failed,
                 delivered, code, sinkUp>>

FatalCap == 2

\* startSeaweedfsEventSource, when configured.  An error of it is sent by run()
\* itself, before anybody reads the channel.
StartEventSource ==
  /\ at = "source"
  /\ \/ conf.source = "webhook" /\ at' = "http" /\ UNCHANGED source
     \/ conf.source = "filer" /\ at' = "http" /\ source' = "up"
     \/ conf.source = "filer" /\ at' = "sourceFailed" /\ UNCHANGED source
  /\ UNCHANGED <<cancelled, verdict, conf, schema, admin, buckets, listener, fatal, failed,
                 delivered, code, sinkUp, sinkReady>>

SourceErrorSent ==
  /\ at = "sourceFailed" /\ fatal < FatalCap
  /\ at' = "http" /\ fatal' = fatal + 1
  /\ UNCHANGED <<cancelled, verdict, conf, schema, admin, buckets, listener, source, failed,
                 delivered, code, sinkUp, sinkReady>>

StartHTTP ==
  /\ at = "http" /\ at' = "await"
  /\ listener' = [listener EXCEPT !["http"] = "up"]
  /\ UNCHANGED <<cancelled, verdict, conf, schema, admin, buckets, source, fatal, failed,
                 delivered, code, sinkUp, sinkReady>>

-----------------------------------------------------------------------------
(* The goroutines.                                                          *)

ListenerDies(l) ==
  /\ listener[l] = "up"
  /\ listener' = [listener EXCEPT ![l] = "sending"]
  /\ UNCHANGED <<cancelled, verdict, conf, schema, at, admin, buckets, source, fatal, failed,
                 delivered, code, sinkUp, sinkReady>>

ListenerErrorSent(l) ==
  /\ listener[l] = "sending" /\ fatal < FatalCap
  /\ listener' = [listener EXCEPT ![l] = "gone"] /\ fatal' = fatal + 1
  /\ UNCHANGED <<cancelled, verdict, conf, schema, at, admin, buckets, source, failed,
                 delivered, code, sinkUp, sinkReady>>

SourceStops ==
  /\ source = "up" /\ cancelled /\ source' = "gone"
  /\ UNCHANGED <<cancelled, verdict, conf, schema, at, admin, buckets, listener, fatal,
                 failed, delivered, code, sinkUp, sinkReady>>

\* startupcheck.Run, as StorageSelfCheck shows it: a shutdown aborts it, and only
\* without one may it fail.  A window that is not positive is an error of its own,
\* which nobody looks at.
SelfCheckEnds ==
  /\ at \in Started /\ verdict = "none"
  /\ verdict' \in CASE conf.window = "zero" -> {"refused"}
                    [] conf.window # "zero" /\ cancelled -> {"aborted"}
                    [] OTHER -> {"passed", "failure"}
  /\ UNCHANGED <<cancelled, mainVars>>

\* Only a *Failure is handed over; a check aborted by a shutdown sends nothing.
DeliverVerdict ==
  /\ verdict # "none" /\ ~delivered /\ delivered' = TRUE
  /\ failed' = IF verdict = "failure" THEN failed + 1 ELSE failed
  /\ UNCHANGED <<cancelled, verdict, conf, schema, at, admin, buckets, listener, source,
                 fatal, code, sinkUp, sinkReady>>

\* The loop that probes the dead-letter sink again, until the context is done.
ProbeSink ==
  /\ at \in Started /\ ~cancelled /\ sinkReady' = sinkUp
  /\ UNCHANGED <<cancelled, verdict, conf, schema, at, admin, buckets, listener, source,
                 fatal, failed, delivered, code, sinkUp>>

SinkChanges ==
  /\ at = "await" /\ sinkUp' = ~sinkUp
  /\ UNCHANGED <<cancelled, verdict, conf, schema, at, admin, buckets, listener, source,
                 fatal, failed, delivered, code, sinkReady>>

Signal ==
  /\ at \notin {"down", "exited"} /\ ~cancelled /\ cancelled' = TRUE
  /\ UNCHANGED <<verdict, mainVars>>

-----------------------------------------------------------------------------
(* awaitShutdownOrSelfCheckFailure and the rest of run().                   *)

\* The select: any of the inputs that are ready.
Await ==
  /\ at = "await" /\ at' = "drain"
  /\ \/ cancelled /\ code' = 0 /\ UNCHANGED <<failed, fatal>>
     \/ failed > 0 /\ code' = 1 /\ failed' = failed - 1 /\ UNCHANGED fatal
     \/ fatal > 0 /\ code' = 1 /\ fatal' = fatal - 1 /\ UNCHANGED failed
  /\ UNCHANGED <<cancelled, verdict, conf, schema, admin, buckets, listener, source,
                 delivered, sinkUp, sinkReady>>

DrainNothing ==
  /\ at = "drain" /\ at' = "shutdown" /\ UNCHANGED code
  /\ UNCHANGED <<cancelled, verdict, conf, schema, admin, buckets, listener, source, fatal,
                 failed, delivered, sinkUp, sinkReady>>

\* The tie-break: a failure that is there makes the exit a failure.
DrainStartupCheckFailure ==
  /\ at = "drain" /\ at' = "shutdown"
  /\ IF failed > 0 THEN failed' = failed - 1 /\ code' = 1 ELSE UNCHANGED <<failed, code>>
  /\ UNCHANGED <<cancelled, verdict, conf, schema, admin, buckets, listener, source, fatal,
                 delivered, sinkUp, sinkReady>>

\* stop() cancels the workers' context; then the HTTP server is shut down.
Shutdown ==
  /\ at = "shutdown" /\ at' = "join"
  /\ cancelled' = TRUE
  /\ listener' = [listener EXCEPT !["http"] = "gone"]
  /\ UNCHANGED <<verdict, conf, schema, admin, buckets, source, fatal, failed, delivered,
                 code, sinkUp, sinkReady>>

\* awaitEventSourceStop; the ten seconds that bound it are for a wedged call.
JoinEventSource ==
  /\ at = "join" /\ source # "up" /\ at' = "exited"
  /\ UNCHANGED <<cancelled, verdict, conf, schema, admin, buckets, listener, source, fatal,
                 failed, delivered, code, sinkUp, sinkReady>>

\* The supervisor starts the process again.
Restarted ==
  /\ at = "exited" /\ Ended /\ UNCHANGED <<schema, admin, buckets, sinkUp>>

ServerDies ==
  /\ at \notin {"down", "exited"} /\ Ended
  /\ schema' \in IF at = "migrate" /\ schema = "old" THEN {"old", "partial"} ELSE {schema}
  /\ UNCHANGED <<admin, buckets, sinkUp>>

MainStep ==
  \/ Configure \/ Migrate \/ ConnectAll \/ BootFails
  \/ EnsureAdminAccount \/ WriteBootstrapCredentials
  \/ EnsureDefaultBuckets \/ StartGRPC \/ StartEventSource \/ SourceErrorSent \/ StartHTTP
  \/ Await \/ DrainStartupCheckFailure \/ Shutdown \/ JoinEventSource

SrvNext ==
  \/ MainStep \/ SelfCheckEnds \/ DeliverVerdict \/ ProbeSink \/ SourceStops
  \/ \E l \in Listener : ListenerDies(l) \/ ListenerErrorSent(l)
  \/ SinkChanges \/ SchemaRepaired \/ Signal \/ Restarted \/ ServerDies

SrvSpec == SrvInit /\ [][SrvNext]_srvVars

(* Every goroutine runs; listeners, signals, crashes and the storage keep    *)
(* their freedom.                                                           *)
SrvFair ==
  /\ WF_srvVars(MainStep) /\ WF_srvVars(SelfCheckEnds)
  /\ WF_srvVars(DeliverVerdict) /\ WF_srvVars(ProbeSink)
  /\ WF_srvVars(SourceStops)
  /\ \A l \in Listener : WF_srvVars(ListenerErrorSent(l))

SrvFairSpec == SrvSpec /\ SrvFair

-----------------------------------------------------------------------------
(* Types; and nothing is served on a schema that is not complete, before     *)
(* every default bucket has its row, although the process may have died     *)
(* between creating two of them, or with a self-check that refused to run.  *)
SrvTypeOK ==
  /\ admin \in {"none", "lost", "known"} /\ buckets \subseteq DefaultBucket
  /\ fatal \in 0..FatalCap /\ failed \in 0..1 /\ code \in 0..1
  /\ listener["grpc"] # "off" =>
       schema = "current" /\ buckets = DefaultBucket /\ admin # "none"
  /\ verdict # "refused"

(* A self-check that failed before run() chose its exit code is never        *)
(* swallowed by a signal, and a check that the shutdown aborted never turns  *)
(* a clean exit into a failure.                                             *)
FailureDecides ==
  [][at = "drain" /\ at' = "shutdown" =>
       /\ failed > 0 => code' = 1
       /\ failed > 0 => verdict = "failure"]_<<at, code, failed>>

(* A process that has to end does: after a dead listener, an event source    *)
(* that did not start, a failed self-check or a signal, run() returns, or   *)
(* the process crashes first.                                               *)
ProcessEnds ==
  []<>(/\ at \notin {"sourceFailed", "drain", "shutdown", "join"}
       /\ at = "await" => ~cancelled /\ fatal = 0 /\ failed = 0)

(* What /healthz says of the dead-letter sink follows the sink, both ways.   *)
HealthFollows ==
  \A v \in BOOLEAN : <>[](at = "await" /\ sinkUp = v) => <>[](sinkReady = v \/ cancelled)

\* The process ends when it has to, with the exit code of what went wrong, and reports
\* its health truly until then.
ExitIsRight == []SrvTypeOK /\ FailureDecides /\ ProcessEnds /\ HealthFollows
=============================================================================
