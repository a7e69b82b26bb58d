---------------------------- MODULE WebhookPipeline ----------------------------
(***************************************************************************)
(* From an authenticated WooCommerce delivery to its projected effect:     *)
(*   - the HTTP handler that persists a WebhookEvent, enqueues its job and *)
(*     acknowledges the delivery                                           *)
(*     (backend/src/webhooks/woocommerce-webhook-ingestion.service.ts);    *)
(*   - the worker that claims the event under a 30 second database lease,  *)
(*     projects it, schedules its notifications and settles it             *)
(*     (backend/src/queue/woocommerce-webhook.processor.ts);               *)
(*   - the "failed" listener that dead-letters it (queue-runtime.service). *)
(*                                                                         *)
(* Every await is a step of its own, so requests and workers interleave at *)
(* each database or Redis call.  Handlers and workers die between two      *)
(* steps, database calls fail, jobs stall while their worker still runs.   *)
(* Time is the order of events only: claims[d] numbers the successive      *)
(* claims of an event (the Date claimedAt that fences them) and lapsed[d]  *)
(* is the last claim whose lease is over; leases end in claim order.       *)
(***************************************************************************)
EXTENDS OperationsQueue, FiniteSets

CONSTANTS Deliveries,     \* delivery ids of one Store: the event dedupe keys
          Requests,       \* HTTP requests the shop (re)delivers them with
          NoDelivery,
          MaxCrashes,     \* worker processes that die (bound of the model)
          MaxDbFaults,    \* database calls that throw (bound of the model)
          LocksHold       \* TRUE: no job is handed out again while its worker
                          \* lives or while the lease of its claim runs

ASSUME PipelineAssumption ==
    /\ NoDelivery \notin Deliveries
    /\ MaxCrashes \in Nat
    /\ MaxDbFaults \in Nat
    /\ LocksHold \in BOOLEAN

VARIABLES
    storeActive,  \* Store.status = ACTIVE and neither it nor its tenant deleted
    status,       \* WebhookEvent.status, "absent" before the row exists
    startedAt,    \* WebhookEvent.processingStartedAt: a claim, 0 for null
    claims,       \* WebhookEvent.processingAttemptCount
    lapsed,       \* the claims numbered 1..lapsed[d] are older than the lease
    projected,    \* events whose projection is committed
    scheduled,    \* events whose notifications are scheduled
    job,          \* the BullMQ job of each event
    listeners,    \* <<w, d>>: w's process runs handleFailed for d's job
    wpc, wjob, wclaim,  \* each worker: next step, its event, its claim
    rpc, rfor,          \* each request: next step, its delivery
    acked,        \* deliveries answered with 200
    crashes, dbFaults   \* faults so far

eventVars  == <<status, startedAt, claims, lapsed>>
effectVars == <<projected, scheduled>>
queueVars  == <<job, listeners>>
workerVars == <<wpc, wjob, wclaim>>
requestVars == <<rpc, rfor, acked>>
faultVars  == <<crashes, dbFaults>>
vars == <<storeActive, eventVars, effectVars, queueVars, workerVars,
          requestVars, faultVars>>

EventStatus == {"absent", "RECEIVED", "QUEUED", "PROCESSING", "COMPLETED",
                "FAILED"}
Open    == {"RECEIVED", "QUEUED", "PROCESSING"}
Settled == {"COMPLETED", "FAILED"}

\* The steps of a worker that has claimed its event.
Holding == {"load", "project", "schedule", "complete", "release", "fail"}
WorkerStep  == {"idle", "claim", "resolve"} \cup Holding
RequestStep == {"new", "persist", "enqueue", "markQueued", "done"}

TypeOK ==
    /\ storeActive \in BOOLEAN
    /\ status \in [Deliveries -> EventStatus]
    /\ startedAt \in [Deliveries -> Nat]
    /\ claims \in [Deliveries -> Nat]
    /\ lapsed \in [Deliveries -> Nat]
    /\ projected \in SUBSET Deliveries
    /\ scheduled \in SUBSET Deliveries
    /\ job \in [Deliveries -> Job]
    /\ listeners \in SUBSET (Workers \X Deliveries)
    /\ wpc \in [Workers -> WorkerStep]
    /\ wjob \in [Workers -> Deliveries \cup {NoDelivery}]
    /\ wclaim \in [Workers -> Nat]
    /\ \A w \in Workers : wpc[w] # "idle" => wjob[w] \in Deliveries
    /\ rpc \in [Requests -> RequestStep]
    /\ rfor \in [Requests -> Deliveries \cup {NoDelivery}]
    /\ \A r \in Requests :
          rpc[r] \in {"persist", "enqueue", "markQueued"} => rfor[r] \in Deliveries
    /\ acked \in SUBSET Deliveries
    /\ crashes \in 0..MaxCrashes
    /\ dbFaults \in 0..MaxDbFaults

Init ==
    /\ storeActive = TRUE
    /\ status = [d \in Deliveries |-> "absent"]
    /\ startedAt = [d \in Deliveries |-> 0]
    /\ claims = [d \in Deliveries |-> 0]
    /\ lapsed = [d \in Deliveries |-> 0]
    /\ projected = {} /\ scheduled = {}
    /\ job = [d \in Deliveries |-> UnknownJob("absent")]
    /\ listeners = {}
    /\ wpc = [w \in Workers |-> "idle"]
    /\ wjob = [w \in Workers |-> NoDelivery]
    /\ wclaim = [w \in Workers |-> 0]
    /\ rpc = [r \in Requests |-> "new"]
    /\ rfor = [r \in Requests |-> NoDelivery]
    /\ acked = {}
    /\ crashes = 0 /\ dbFaults = 0

-----------------------------------------------------------------------------
(* The HTTP handler.                                                       *)

RequestGoes(r, step) == rpc' = [rpc EXCEPT ![r] = step]

\* resolveStore and the signature check: the Store is read before anything
\* is written, so a disconnect may overtake the request.
ResolveStore(r, d) ==
    /\ rpc[r] = "new"
    /\ storeActive
    /\ RequestGoes(r, "persist")
    /\ rfor' = [rfor EXCEPT ![r] = d]
    /\ UNCHANGED <<storeActive, eventVars, effectVars, queueVars, workerVars,
                   acked, faultVars>>

\* Mutant: every known event counts as a duplicate, RECEIVED ones included.
PersistOrFindAcksAny(r) ==
    /\ rpc[r] = "persist"
    /\ LET d == rfor[r] IN
         IF status[d] = "absent"
         THEN /\ status' = [status EXCEPT ![d] = "RECEIVED"]
              /\ RequestGoes(r, "enqueue")
              /\ UNCHANGED acked
         ELSE /\ RequestGoes(r, "done")
              /\ acked' = acked \cup {d}
              /\ UNCHANGED status
    /\ UNCHANGED <<storeActive, startedAt, claims, lapsed, effectVars,
                   queueVars, workerVars, rfor, faultVars>>

\* persistOrFind, then the early 200 for an event that is past RECEIVED.
PersistOrFind(r) ==
    /\ rpc[r] = "persist"
    /\ LET d == rfor[r] IN
         \/ /\ status[d] = "absent"
            /\ status' = [status EXCEPT ![d] = "RECEIVED"]
            /\ RequestGoes(r, "enqueue")
            /\ UNCHANGED acked
         \/ /\ status[d] = "RECEIVED"
            /\ RequestGoes(r, "enqueue")
            /\ UNCHANGED <<status, acked>>
         \/ /\ status[d] \notin {"absent", "RECEIVED"}
            /\ RequestGoes(r, "done")
            /\ acked' = acked \cup {d}
            /\ UNCHANGED status
    /\ UNCHANGED <<storeActive, startedAt, claims, lapsed, effectVars,
                   queueVars, workerVars, rfor, faultVars>>

Enqueue(r) ==
    /\ rpc[r] = "enqueue"
    /\ job' = [job EXCEPT ![rfor[r]] = Added(@)]
    /\ RequestGoes(r, "markQueued")
    /\ UNCHANGED <<storeActive, eventVars, effectVars, listeners, workerVars,
                   rfor, acked, faultVars>>

\* The job may have run already: only a RECEIVED event becomes QUEUED.
MarkQueued(r) ==
    /\ rpc[r] = "markQueued"
    /\ LET d == rfor[r] IN
         /\ status' = IF status[d] = "RECEIVED"
                      THEN [status EXCEPT ![d] = "QUEUED"] ELSE status
         /\ acked' = acked \cup {d}
    /\ RequestGoes(r, "done")
    /\ UNCHANGED <<storeActive, startedAt, claims, lapsed, effectVars,
                   queueVars, workerVars, rfor, faultVars>>

\* Any call of the handler throws or its process dies: no 200 is sent.
RequestFails(r) ==
    /\ rpc[r] \in {"persist", "enqueue", "markQueued"}
    /\ RequestGoes(r, "done")
    /\ UNCHANGED <<storeActive, eventVars, effectVars, queueVars, workerVars,
                   rfor, acked, faultVars>>

-----------------------------------------------------------------------------
(* The worker.  d's claim lives while it is not older than the lease.      *)

LiveClaim(d) == status[d] = "PROCESSING" /\ startedAt[d] > lapsed[d]

WorkerGoes(w, step) == wpc' = [wpc EXCEPT ![w] = step]

\* w lets go of its job and reports j as the job's new state.  A worker that
\* lost the lock reports nothing; a job that failed calls the listener.
JobEnds(w, j) ==
    LET d == wjob[w] IN
    /\ wpc' = [wpc EXCEPT ![w] = "idle"]
    /\ wjob' = [wjob EXCEPT ![w] = NoDelivery]
    /\ wclaim' = [wclaim EXCEPT ![w] = 0]
    /\ IF job[d].owner = w
       THEN /\ job' = [job EXCEPT ![d] = j]
            /\ listeners' = IF j.state = "failed"
                            THEN listeners \cup {<<w, d>>} ELSE listeners
       ELSE UNCHANGED queueVars

Fetch(w, d) ==
    /\ wpc[w] = "idle"
    /\ job[d].state = "waiting" /\ ~Exhausted(job[d])
    /\ job' = [job EXCEPT ![d] = Fetched(@, w)]
    /\ WorkerGoes(w, "claim")
    /\ wjob' = [wjob EXCEPT ![w] = d]
    /\ UNCHANGED <<storeActive, eventVars, effectVars, listeners, wclaim,
                   requestVars, faultVars>>

\* A job that stalled too often fails without its processor being called.
BuryExhausted(w, d) ==
    /\ wpc[w] = "idle"
    /\ job[d].state = "waiting" /\ Exhausted(job[d])
    /\ job' = [job EXCEPT ![d] = Buried(@)]
    /\ listeners' = listeners \cup {<<w, d>>}
    /\ UNCHANGED <<storeActive, eventVars, effectVars, workerVars, requestVars,
                   faultVars>>

\* Mutant: a PROCESSING event is claimed without a look at its lease.
ClaimableAlways(d) == storeActive /\ status[d] \in Open

\* The states in which the claiming updateMany finds its row.
Claimable(d) ==
    /\ storeActive
    /\ \/ status[d] \in {"RECEIVED", "QUEUED"}
       \/ status[d] = "PROCESSING" /\ ~LiveClaim(d)

Claim(w) ==
    /\ wpc[w] = "claim"
    /\ LET d == wjob[w] IN
         \/ /\ Claimable(d)
            /\ status' = [status EXCEPT ![d] = "PROCESSING"]
            /\ claims' = [claims EXCEPT ![d] = @ + 1]
            /\ startedAt' = [startedAt EXCEPT ![d] = claims[d] + 1]
            /\ wclaim' = [wclaim EXCEPT ![w] = claims[d] + 1]
            /\ WorkerGoes(w, "load")
         \/ /\ ~Claimable(d)
            /\ WorkerGoes(w, "resolve")
            /\ UNCHANGED <<status, claims, startedAt, wclaim>>
    /\ UNCHANGED <<storeActive, lapsed, effectVars, queueVars, wjob,
                   requestVars, faultVars>>

\* resolveUnclaimed: another attempt owns or settled the event, or it is lost.
Resolve(w) ==
    /\ wpc[w] = "resolve"
    /\ LET d == wjob[w] IN
         JobEnds(w, IF status[d] = "COMPLETED" \/ LiveClaim(d)
                    THEN Finished(job[d])
                    ELSE IF status[d] = "RECEIVED" THEN Retried(job[d])
                    ELSE Buried(job[d]))
    /\ UNCHANGED <<storeActive, eventVars, effectVars, requestVars, faultVars>>

\* loadClaimedEvent and the stillActive count that follows the claim.
Load(w) ==
    /\ wpc[w] = "load"
    /\ WorkerGoes(w, IF storeActive THEN "project" ELSE "fail")
    /\ UNCHANGED <<storeActive, eventVars, effectVars, queueVars, wjob, wclaim,
                   requestVars, faultVars>>

\* The projection commits its own transaction, or throws a failure that the
\* projection classes call retryable or not.
Project(w) ==
    /\ wpc[w] = "project"
    /\ \/ projected' = projected \cup {wjob[w]} /\ WorkerGoes(w, "schedule")
       \/ \E step \in {"release", "fail"} :
             WorkerGoes(w, step) /\ UNCHANGED projected
    /\ UNCHANGED <<storeActive, eventVars, scheduled, queueVars, wjob, wclaim,
                   requestVars, faultVars>>

\* Mutant: an error of the scheduler is swallowed.
ScheduleSwallows(w) ==
    /\ wpc[w] = "schedule"
    /\ scheduled' \in {scheduled, scheduled \cup {wjob[w]}}
    /\ WorkerGoes(w, "complete")
    /\ UNCHANGED <<storeActive, eventVars, projected, queueVars, wjob, wclaim,
                   requestVars, faultVars>>

\* Every error of the schedulers counts as retryable.
Schedule(w) ==
    /\ wpc[w] = "schedule"
    /\ \/ scheduled' = scheduled \cup {wjob[w]} /\ WorkerGoes(w, "complete")
       \/ WorkerGoes(w, "release") /\ UNCHANGED scheduled
    /\ UNCHANGED <<storeActive, eventVars, projected, queueVars, wjob, wclaim,
                   requestVars, faultVars>>

\* Mutant: the updates are not fenced.
FencedNever(w) == wjob[w] \in Deliveries

\* Does the row still carry the claim w made?  (where status, claimedAt)
Fenced(w) ==
    status[wjob[w]] = "PROCESSING" /\ startedAt[wjob[w]] = wclaim[w]

\* The fenced updateMany of a worker: a row that lost the claim is left alone.
SetIfFenced(w, s) ==
    /\ status' = IF Fenced(w) THEN [status EXCEPT ![wjob[w]] = s] ELSE status
    /\ startedAt' = IF Fenced(w) THEN [startedAt EXCEPT ![wjob[w]] = 0]
                    ELSE startedAt
    /\ UNCHANGED <<claims, lapsed>>

\* Mutant: the job is retried with the event left under its lease.
ReleaseForRetryKeepsLease(w) ==
    /\ wpc[w] = "release"
    /\ JobEnds(w, Retried(job[wjob[w]]))
    /\ UNCHANGED <<storeActive, eventVars, effectVars, requestVars, faultVars>>

ReleaseForRetry(w) ==
    /\ wpc[w] = "release"
    /\ SetIfFenced(w, "QUEUED")
    /\ JobEnds(w, Retried(job[wjob[w]]))
    /\ UNCHANGED <<storeActive, effectVars, requestVars, faultVars>>

FailClaimed(w) ==
    /\ wpc[w] = "fail"
    /\ SetIfFenced(w, "FAILED")
    /\ JobEnds(w, Buried(job[wjob[w]]))
    /\ UNCHANGED <<storeActive, effectVars, requestVars, faultVars>>

\* Only here does the processor look at the count: a lost claim is an Error.
Complete(w) ==
    /\ wpc[w] = "complete"
    /\ SetIfFenced(w, "COMPLETED")
    /\ LET j == job[wjob[w]] IN
         JobEnds(w, IF Fenced(w) THEN Finished(j) ELSE Retried(j))
    /\ UNCHANGED <<storeActive, effectVars, requestVars, faultVars>>

\* A database call outside process()'s try block throws: the error reaches
\* the queue as it is and the row keeps what it had.
DbFault(w) ==
    /\ dbFaults < MaxDbFaults
    /\ wpc[w] \in {"claim", "resolve", "load", "release", "fail", "complete"}
    /\ JobEnds(w, Retried(job[wjob[w]]))
    /\ dbFaults' = dbFaults + 1
    /\ UNCHANGED <<storeActive, eventVars, effectVars, requestVars, crashes>>

\* w's process dies and restarts: its job stays active, its listeners are lost.
Crash(w) ==
    /\ crashes < MaxCrashes
    /\ wpc[w] # "idle" \/ \E d \in Deliveries : <<w, d>> \in listeners
    /\ wpc' = [wpc EXCEPT ![w] = "idle"]
    /\ wjob' = [wjob EXCEPT ![w] = NoDelivery]
    /\ wclaim' = [wclaim EXCEPT ![w] = 0]
    /\ listeners' = {l \in listeners : l[1] # w}
    /\ crashes' = crashes + 1
    /\ UNCHANGED <<storeActive, eventVars, effectVars, job, requestVars,
                   dbFaults>>

-----------------------------------------------------------------------------
(* The queue, the clock, the "failed" listener and the operator.           *)

\* The lock of an active job expires and the job is handed out again.
Stall(d) ==
    /\ job[d].state = "active"
    /\ LocksHold => /\ wjob[job[d].owner] # d
                    /\ ~LiveClaim(d)
    /\ job' = [job EXCEPT ![d] = Stalled(@)]
    /\ UNCHANGED <<storeActive, eventVars, effectVars, listeners, workerVars,
                   requestVars, faultVars>>

LeaseLapses(d) ==
    /\ lapsed[d] < claims[d]
    /\ lapsed' = [lapsed EXCEPT ![d] = @ + 1]
    /\ UNCHANGED <<storeActive, status, startedAt, claims, effectVars,
                   queueVars, workerVars, requestVars, faultVars>>

\* Mutant: only an event still under a claim is dead-lettered.
MarkFailedProcessingOnly(w, d) ==
    /\ <<w, d>> \in listeners
    /\ listeners' = listeners \ {<<w, d>>}
    /\ IF status[d] = "PROCESSING"
       THEN /\ status' = [status EXCEPT ![d] = "FAILED"]
            /\ startedAt' = [startedAt EXCEPT ![d] = 0]
       ELSE UNCHANGED <<status, startedAt>>
    /\ UNCHANGED <<storeActive, claims, lapsed, effectVars, job, workerVars,
                   requestVars, faultVars>>

\* handleFailed of a job that will not run again: fenced by nothing.
MarkFailed(w, d) ==
    /\ <<w, d>> \in listeners
    /\ listeners' = listeners \ {<<w, d>>}
    /\ IF status[d] \in Open
       THEN /\ status' = [status EXCEPT ![d] = "FAILED"]
            /\ startedAt' = [startedAt EXCEPT ![d] = 0]
       ELSE UNCHANGED <<status, startedAt>>
    /\ UNCHANGED <<storeActive, claims, lapsed, effectVars, job, workerVars,
                   requestVars, faultVars>>

\* handleFailed catches and logs an error of markFailed: nobody tries again.
MarkFailedFault(w, d) ==
    /\ <<w, d>> \in listeners
    /\ dbFaults < MaxDbFaults
    /\ listeners' = listeners \ {<<w, d>>}
    /\ dbFaults' = dbFaults + 1
    /\ UNCHANGED <<storeActive, eventVars, effectVars, job, workerVars,
                   requestVars, crashes>>

\* enforceRetention and removeOnComplete / removeOnFail.
EnforceRetention(d) ==
    /\ job[d].state \in {"completed", "failed"}
    /\ job' = [job EXCEPT ![d] = Forgotten(@)]
    /\ UNCHANGED <<storeActive, eventVars, effectVars, listeners, workerVars,
                   requestVars, faultVars>>

\* The operator disconnects the Store: its open events fail with it.
Disconnect ==
    /\ storeActive
    /\ storeActive' = FALSE
    /\ status' = [d \in Deliveries |->
                     IF status[d] \in Open THEN "FAILED" ELSE status[d]]
    /\ startedAt' = [d \in Deliveries |->
                        IF status[d] \in Open THEN 0 ELSE startedAt[d]]
    /\ UNCHANGED <<claims, lapsed, effectVars, queueVars, workerVars,
                   requestVars, faultVars>>

-----------------------------------------------------------------------------
RequestStepOf(r) ==
    \/ \E d \in Deliveries : ResolveStore(r, d)
    \/ PersistOrFind(r) \/ Enqueue(r) \/ MarkQueued(r) \/ RequestFails(r)

\* What worker w does by itself: its process runs as long as it lives.
WorkerRuns(w) ==
    \/ \E d \in Deliveries : Fetch(w, d) \/ BuryExhausted(w, d)
    \/ Claim(w) \/ Resolve(w) \/ Load(w) \/ Project(w) \/ Schedule(w)
    \/ ReleaseForRetry(w) \/ FailClaimed(w) \/ Complete(w)

ListenerRuns == \E w \in Workers, d \in Deliveries : MarkFailed(w, d)

WorkerBreaks(w) ==
    \/ DbFault(w) \/ Crash(w)
    \/ \E d \in Deliveries : MarkFailedFault(w, d)

Environment ==
    \/ \E d \in Deliveries : Stall(d) \/ LeaseLapses(d) \/ EnforceRetention(d)
    \/ Disconnect

Next ==
    \/ \E r \in Requests : RequestStepOf(r)
    \/ \E w \in Workers : WorkerRuns(w) \/ WorkerBreaks(w)
    \/ ListenerRuns
    \/ Environment

Spec == Init /\ [][Next]_vars

\* Node runs every pending callback and BullMQ hands out every waiting job, so
\* workers and listeners go on; nothing is assumed of shops, locks and clocks.
FairSpec ==
    /\ Spec
    /\ \A w \in Workers : WF_vars(WorkerRuns(w))
    /\ WF_vars(ListenerRuns)

-----------------------------------------------------------------------------
(* Properties.                                                             *)

\* At most one worker works under a claim of an event whose lease is still
\* running, however often the job was handed out: the lease of the claiming
\* updateMany (processor, process) keeps projections of one event apart.
OneLiveProjector ==
    \A v, w \in Workers :
        /\ wpc[v] \in Holding /\ wpc[w] \in Holding
        /\ wjob[v] = wjob[w]
        /\ wclaim[v] > lapsed[wjob[v]] /\ wclaim[w] > lapsed[wjob[w]]
        => v = w

\* An event is COMPLETED only once its projection and its notifications are
\* committed, although a worker that lost its lease may complete late and
\* retries restart from the projection.
CompletedHasEffect ==
    \A d \in Deliveries :
        status[d] = "COMPLETED" => d \in projected /\ d \in scheduled

\* A delivery the shop got a 200 for was handed to the queue, or the
\* disconnect of its Store had failed it before (receive, lines 95-145).
AckedIsPublished ==
    \A d \in acked : \/ status[d] = "FAILED"
                     \/ status[d] \notin {"absent", "RECEIVED"}
                        /\ job[d].state # "absent"

\* COMPLETED and FAILED are final: no late worker, listener or redelivery
\* revives or overwrites an event ("exhausted failures remain FAILED").
SettledIsFinal ==
    [][\A d \in Deliveries : status[d] \in Settled => status'[d] = status[d]]_vars

\* A job ends as completed only when its event is settled: otherwise nobody
\* is left to process the event.  Holds while database calls succeed.
CompletedJobSettled ==
    \A d \in Deliveries : job[d].state = "completed" => status[d] \in Settled

\* The event of a job that failed for good is FAILED or COMPLETED, or the
\* listener that dead-letters it is still to run.
FailedJobDeadLettered ==
    \A d \in Deliveries :
        job[d].state = "failed" =>
            \/ status[d] \in Settled
            \/ \E w \in Workers : <<w, d>> \in listeners

\* Every delivery the shop got a 200 for is eventually settled, as long as no
\* process dies and no database call fails.
AckedSettles ==
    \A d \in Deliveries : d \in acked ~> status[d] \in Settled
=============================================================================
