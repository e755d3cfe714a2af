------------------------------ MODULE MCServices ------------------------------
(* Collecting and uploading files in the agent, and the services of the        *)
(* control plane that promise progress.  The components share no variable:     *)
(* `part' says which one a behaviour is about, the others stay where they      *)
(* start, and the fairness of each is that of its own specification.           *)
EXTENDS Multipart, RuleRunner, RetagJobs, RateLimit, Catalog, StorageWebhook,
        ServerLifecycle, TLC

CONSTANTS b1, b2, b3, e1, e2

VARIABLE part

MCContent == {<<"a", "a", "a", "a", "a">>, <<"b", "b", "a", "a", "b">>, <<"a", "a", "b">>,
              <<"a">>}
MCShape(m, e, x, o, t) == [rule |-> "r1", mode |-> m, enabled |-> e, expr |-> x, once |-> o,
                           template |-> t, match |-> {1}]
MCVariant == {MCShape("cron", TRUE, "valid", FALSE, TRUE), MCShape("cron", TRUE, "bad", TRUE, TRUE),
              MCShape("cron", TRUE, "valid", TRUE, FALSE), MCShape("watch", TRUE, "none", FALSE, TRUE),
              MCShape("cron", FALSE, "valid", FALSE, TRUE), MCShape("other", TRUE, "valid", FALSE, TRUE)}
MCRecords == (b1 :> <<e1>>) @@ (b2 :> <<e2>>) @@ (b3 :> <<>>)

\* A component with several initial states has one of them where it is not the part.
ServicesInit ==
  /\ part \in {"multipart", "rules", "jobs", "limit", "catalog", "webhook", "server"}
  /\ MpInit /\ RunInit /\ JobsInit /\ RateInit /\ CatInit /\ WebInit /\ SrvInit
  /\ part # "multipart" => disk.data = <<"a">> /\ comparable
  /\ part # "catalog" => shelf = "buckets"

ServicesNext ==
  /\ UNCHANGED part
  /\ \/ part = "multipart" /\ MpNext
        /\ UNCHANGED <<runVars, jobVars, rateVars, catVars, webVars, srvVars>>
     \/ part = "rules" /\ RunNext
        /\ UNCHANGED <<mpVars, jobVars, rateVars, catVars, webVars, srvVars>>
     \/ part = "jobs" /\ JobsNext
        /\ UNCHANGED <<mpVars, runVars, rateVars, catVars, webVars, srvVars>>
     \/ part = "limit" /\ RateNext
        /\ UNCHANGED <<mpVars, runVars, jobVars, catVars, webVars, srvVars>>
     \/ part = "catalog" /\ CatNext
        /\ UNCHANGED <<mpVars, runVars, jobVars, rateVars, webVars, srvVars>>
     \/ part = "webhook" /\ WebNext
        /\ UNCHANGED <<mpVars, runVars, jobVars, rateVars, catVars, srvVars>>
     \/ part = "server" /\ SrvNext
        /\ UNCHANGED <<mpVars, runVars, jobVars, rateVars, catVars, webVars>>

Uploading == part = "multipart"
Collecting == part = "rules"
Retagging == part = "jobs"
Limiting == part = "limit"
Cataloguing == part = "catalog"
Notified == part = "webhook"
Hosting == part = "server"

ServicesSpec ==
  /\ ServicesInit /\ [][ServicesNext]_<<part, mpVars, runVars, jobVars, rateVars, catVars, webVars, srvVars>>
  /\ WF_mpVars(Uploading /\ MpAttempt) /\ WF_mpVars(Uploading /\ DrainAbortOutbox)
  /\ WF_runVars(Collecting /\ process # "down" /\ CommandHandler)
  /\ \A v \in Versions : /\ WF_runVars(Collecting /\ Fires(v))
                         /\ WF_runVars(Collecting /\ WatchEnds(v))
  /\ \A s \in Slots : WF_runVars(Collecting /\ (WalkChecks(s) \/ WalkSubmits(s)))
  /\ \A v \in Versions, f \in Files : WF_runVars(Collecting /\ WatchSubmits(v, f))
  /\ WF_runVars(Collecting /\ (StopScheduler \/ Exit))
  /\ WF_jobVars(Retagging /\ WorkerStep) /\ <>[][~Restart]_jobVars
  /\ WF_rateVars(Limiting /\ MinuteTick)
  /\ WF_catVars(Cataloguing /\ Indexing /\ UNCHANGED <<shelf, bucketVars, evVars>>)
  /\ \A h \in Handler : /\ WF_webVars(Notified /\ Post(h))
                        /\ WF_webVars(Notified /\ HandlerStep(h))
  /\ <>[][WebCrash => \E h \in Handler : Respond(h)]_webVars
  /\ <>[][\A h \in Handler : /\ ~StoreGivesUp(h) /\ ~CounterUnavailable(h)
                              /\ ~PersistFails(h) /\ ~ClearFails(h)]_webVars
  /\ WF_srvVars(Hosting /\ MainStep) /\ WF_srvVars(Hosting /\ SelfCheckEnds)
  /\ WF_srvVars(Hosting /\ DeliverVerdict) /\ WF_srvVars(Hosting /\ ProbeSink)
  /\ WF_srvVars(Hosting /\ SourceStops)
  /\ \A l \in Listener : WF_srvVars(Hosting /\ ListenerErrorSent(l))

\* Once the file is left alone and the store and the agent stop failing, the task is
\* uploaded (UploadFile and its resumption).
UploadCompletes == []<>(Uploading => outcome # NoOutcome)

\* A file is uploaded in the end, and what is reported of it is true of the object.
UploadIsFaithful == []MpTypeOK /\ []DigestOfObject /\ UploadCompletes
===============================================================================
