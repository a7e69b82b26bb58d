------------------------ MODULE WebhookPipelineProofs ------------------------
(***************************************************************************)
(* Proofs about WebhookPipeline, for any number of workers, deliveries,    *)
(* requests, attempts, stalls, crashes and database faults:                *)
(*   - type correctness;                                                   *)
(*   - OneLiveProjector, from the claim numbers the leases are fenced by;  *)
(*   - CompletedHasEffect, from what each step of a worker has behind it;  *)
(*   - AckedIsPublished, from the order of persist, enqueue and ack;       *)
(*   - SettledIsFinal, from the guards of every write of an event;         *)
(*   - CompletedJobSettled while locks hold and no database call fails;    *)
(*   - FailedJobDeadLettered while no process dies and no database call    *)
(*     fails.                                                              *)
(***************************************************************************)
EXTENDS WebhookPipeline, TLAPS

-----------------------------------------------------------------------------
(* The job operators.                                                      *)

\* A job nobody works on is a job.
LEMMA UnknownJobIsJob == \A s \in JobState : UnknownJob(s) \in Job
  BY DEF UnknownJob, Job

\* Every operator of OperationsQueue takes a job to a job.
LEMMA JobOperators ==
    ASSUME NEW j \in Job
    PROVE  /\ Added(j) \in Job
           /\ \A w \in Workers : Fetched(j, w) \in Job
           /\ Finished(j) \in Job /\ Retried(j) \in Job
           /\ Buried(j) \in Job /\ Stalled(j) \in Job /\ Forgotten(j) \in Job
  <1>1. /\ \A s \in JobState : Released(j, s) \in Job /\ UnknownJob(s) \in Job
        /\ \A w \in Workers : Fetched(j, w) \in Job
    BY DEF Released, UnknownJob, Fetched, Job, JobState
  <1>2. /\ j.attempts + 1 \in Nat /\ j.stalls + 1 \in Nat
        /\ {"waiting", "failed", "completed", "removed"} \subseteq JobState
    BY DEF Job, JobState
  <1>3. /\ Finished(j) \in Job /\ Forgotten(j) \in Job /\ Added(j) \in Job
    BY <1>1, <1>2 DEF Finished, Forgotten, Added
  <1>4. Retried(j) \in Job
    BY <1>1, <1>2 DEF Retried, Job
  <1>5. Buried(j) \in Job /\ Stalled(j) \in Job
    BY <1>1, <1>2 DEF Buried, Stalled, Job
  <1> QED
    BY <1>1, <1>3, <1>4, <1>5

\* None of them makes a known job absent again.
LEMMA JobsStayKnown ==
    ASSUME NEW j \in Job
    PROVE  /\ Added(j).state # "absent"
           /\ \A w \in Workers : Fetched(j, w).state # "absent"
           /\ Finished(j).state # "absent" /\ Retried(j).state # "absent"
           /\ Buried(j).state # "absent" /\ Stalled(j).state # "absent"
           /\ Forgotten(j).state # "absent"
  <1>1. \A s : Released(j, s).state = s /\ UnknownJob(s).state = s
    BY DEF Released, UnknownJob, Job
  <1>2. \A s : Released(j, s) \in [state : {s}, attempts : Nat, stalls : Nat,
                                   owner : {NoWorker}]
    BY DEF Released, Job
  <1>3. Retried(j).state # "absent" /\ Buried(j).state # "absent"
        /\ Stalled(j).state # "absent"
    BY <1>2 DEF Retried, Buried, Stalled
  <1> QED
    BY <1>1, <1>3 DEF Added, Fetched, Finished, Forgotten, Job

-----------------------------------------------------------------------------
(* Type correctness.                                                       *)

LEMMA TypeInit == Init => TypeOK
  <1>1. UnknownJob("absent") \in Job
    BY DEF UnknownJob, Job, JobState
  <1> QED
    BY <1>1, PipelineAssumption
    DEF Init, TypeOK, EventStatus, WorkerStep, RequestStep, Holding

\* The end of a job, whatever the job becomes, keeps the worker and the queue
\* well typed.
LEMMA JobEndsType ==
    ASSUME TypeOK, NEW w \in Workers, wpc[w] # "idle", NEW j \in Job,
           JobEnds(w, j)
    PROVE  /\ job' \in [Deliveries -> Job]
           /\ listeners' \in SUBSET (Workers \X Deliveries)
           /\ wpc' \in [Workers -> WorkerStep]
           /\ wjob' \in [Workers -> Deliveries \cup {NoDelivery}]
           /\ wclaim' \in [Workers -> Nat]
           /\ \A v \in Workers : wpc'[v] # "idle" => wjob'[v] \in Deliveries
  BY DEF TypeOK, JobEnds, WorkerStep, queueVars

LEMMA TypeNext == TypeOK /\ [Next]_vars => TypeOK'
  <1> SUFFICES ASSUME TypeOK, [Next]_vars
               PROVE  TypeOK'
    OBVIOUS
  <1> USE DEF TypeOK, eventVars, effectVars, queueVars, workerVars,
              requestVars, faultVars
  <1>1. ASSUME NEW r \in Requests, RequestStepOf(r)
        PROVE  TypeOK'
    <2>1. ASSUME NEW d \in Deliveries, ResolveStore(r, d)
          PROVE  TypeOK'
      BY <2>1 DEF ResolveStore, RequestGoes, RequestStep
    <2>2. CASE PersistOrFind(r)
      BY <2>2 DEF PersistOrFind, RequestGoes, RequestStep, EventStatus
    <2>3. CASE Enqueue(r)
      <3>1. Added(job[rfor[r]]) \in Job
        BY <2>3, JobOperators DEF Enqueue
      <3> QED
        BY <2>3, <3>1 DEF Enqueue, RequestGoes, RequestStep
    <2>4. CASE MarkQueued(r)
      BY <2>4 DEF MarkQueued, RequestGoes, RequestStep, EventStatus
    <2>5. CASE RequestFails(r)
      BY <2>5 DEF RequestFails, RequestGoes, RequestStep
    <2> QED
      BY <1>1, <2>1, <2>2, <2>3, <2>4, <2>5 DEF RequestStepOf
  <1>2. ASSUME NEW w \in Workers, WorkerRuns(w)
        PROVE  TypeOK'
    <2> DEFINE j == job[wjob[w]]
    <2>1. ASSUME NEW d \in Deliveries, Fetch(w, d)
          PROVE  TypeOK'
      <3>1. Fetched(job[d], w) \in Job
        BY JobOperators
      <3> QED
        BY <2>1, <3>1 DEF Fetch, WorkerGoes, WorkerStep
    <2>2. ASSUME NEW d \in Deliveries, BuryExhausted(w, d)
          PROVE  TypeOK'
      <3>1. Buried(job[d]) \in Job
        BY JobOperators
      <3> QED
        BY <2>2, <3>1 DEF BuryExhausted
    <2>3. CASE Claim(w)
      BY <2>3 DEF Claim, WorkerGoes, WorkerStep, Holding, EventStatus
    <2>4. CASE Load(w)
      BY <2>4 DEF Load, WorkerGoes, WorkerStep, Holding
    <2>5. CASE Project(w)
      BY <2>5 DEF Project, WorkerGoes, WorkerStep, Holding
    <2>6. CASE Schedule(w)
      BY <2>6 DEF Schedule, WorkerGoes, WorkerStep, Holding
    <2>7. ASSUME wpc[w] # "idle"
          PROVE  j \in Job /\ Finished(j) \in Job /\ Retried(j) \in Job
                 /\ Buried(j) \in Job
      BY <2>7, JobOperators
    <2>8. CASE Resolve(w)
      <3>1. PICK k \in Job : JobEnds(w, k)
        BY <2>7, <2>8 DEF Resolve
      <3> QED
        BY <2>8, <3>1, JobEndsType DEF Resolve
    <2>9. ASSUME wpc[w] # "idle", NEW s \in EventStatus, SetIfFenced(w, s)
          PROVE  /\ status' \in [Deliveries -> EventStatus]
                 /\ startedAt' \in [Deliveries -> Nat]
                 /\ claims' = claims /\ lapsed' = lapsed
      BY <2>9 DEF SetIfFenced
    <2>10. CASE ReleaseForRetry(w)
      <3>1. PICK k \in Job : JobEnds(w, k)
        BY <2>7, <2>10 DEF ReleaseForRetry
      <3>2. SetIfFenced(w, "QUEUED") /\ "QUEUED" \in EventStatus
        BY <2>10 DEF ReleaseForRetry, EventStatus
      <3> QED
        BY <2>9, <2>10, <3>1, <3>2, JobEndsType DEF ReleaseForRetry
    <2>11. CASE FailClaimed(w)
      <3>1. PICK k \in Job : JobEnds(w, k)
        BY <2>7, <2>11 DEF FailClaimed
      <3>2. SetIfFenced(w, "FAILED") /\ "FAILED" \in EventStatus
        BY <2>11 DEF FailClaimed, EventStatus
      <3> QED
        BY <2>9, <2>11, <3>1, <3>2, JobEndsType DEF FailClaimed
    <2>12. CASE Complete(w)
      <3>1. PICK k \in Job : JobEnds(w, k)
        BY <2>7, <2>12 DEF Complete
      <3>2. SetIfFenced(w, "COMPLETED") /\ "COMPLETED" \in EventStatus
        BY <2>12 DEF Complete, EventStatus
      <3> QED
        BY <2>9, <2>12, <3>1, <3>2, JobEndsType DEF Complete
    <2> QED
      BY <1>2, <2>1, <2>2, <2>3, <2>4, <2>5, <2>6, <2>8, <2>10, <2>11, <2>12
      DEF WorkerRuns
  <1>3. ASSUME NEW w \in Workers, WorkerBreaks(w)
        PROVE  TypeOK'
    <2>1. CASE DbFault(w)
      <3>1. PICK k \in Job : JobEnds(w, k)
        BY <2>1, JobOperators DEF DbFault
      <3> QED
        BY <2>1, <3>1, JobEndsType, PipelineAssumption DEF DbFault
    <2>2. CASE Crash(w)
      BY <2>2, PipelineAssumption DEF Crash, WorkerStep
    <2>3. ASSUME NEW d \in Deliveries, MarkFailedFault(w, d)
          PROVE  TypeOK'
      BY <2>3, PipelineAssumption DEF MarkFailedFault
    <2> QED
      BY <1>3, <2>1, <2>2, <2>3 DEF WorkerBreaks
  <1>4. ASSUME NEW w \in Workers, NEW d \in Deliveries, MarkFailed(w, d)
        PROVE  TypeOK'
    BY <1>4 DEF MarkFailed, EventStatus
  <1>5. ASSUME NEW d \in Deliveries, Stall(d) \/ EnforceRetention(d)
        PROVE  TypeOK'
    <2>1. Stalled(job[d]) \in Job /\ Forgotten(job[d]) \in Job
      BY JobOperators
    <2> QED
      BY <1>5, <2>1 DEF Stall, EnforceRetention
  <1>6. ASSUME NEW d \in Deliveries, LeaseLapses(d)
        PROVE  TypeOK'
    BY <1>6 DEF LeaseLapses
  <1>7. CASE Disconnect
    BY <1>7 DEF Disconnect, EventStatus
  <1>8. CASE UNCHANGED vars
    BY <1>8 DEF vars
  <1> QED
    BY <1>1, <1>2, <1>3, <1>4, <1>5, <1>6, <1>7, <1>8
    DEF Next, ListenerRuns, Environment

\* Every variable keeps its type (WebhookEvent row, job, worker, request).
THEOREM TypeCorrect == Spec => []TypeOK
  BY TypeInit, TypeNext, PTL DEF Spec

-----------------------------------------------------------------------------
(* One live projector per event.  The lease alone is not inductive: that   *)
(* the claiming update refuses an event under a live claim helps only      *)
(* because the row still carries the claim of whoever is live, which in    *)
(* turn holds because every other worker's claim number differs.           *)

HoldsJob(w) == wpc[w] \in Holding
Live(w) == HoldsJob(w) /\ wclaim[w] > lapsed[wjob[w]]

ClaimsNumbered == \A w \in Workers : HoldsJob(w) => wclaim[w] <= claims[wjob[w]]

ClaimsDistinct ==
    \A v, w \in Workers :
        HoldsJob(v) /\ HoldsJob(w) /\ wjob[v] = wjob[w] /\ wclaim[v] = wclaim[w]
        => v = w

LiveIsFenced ==
    \A w \in Workers : Live(w) => Fenced(w) \/ status[wjob[w]] = "FAILED"

LeaseInv ==
    TypeOK /\ ClaimsNumbered /\ ClaimsDistinct /\ LiveIsFenced /\ OneLiveProjector

\* A worker keeps what it holds, or is not holding anything any more.
KeepsClaim(w) ==
    wpc'[w] \in Holding =>
        wpc[w] \in Holding /\ wjob'[w] = wjob[w] /\ wclaim'[w] = wclaim[w]

\* Steps that neither write an event nor claim it cannot break the lease.
LEMMA LeaseFrame ==
    ASSUME LeaseInv, TypeOK', UNCHANGED eventVars,
           \A w \in Workers : KeepsClaim(w)
    PROVE  LeaseInv'
  BY DEF LeaseInv, ClaimsNumbered, ClaimsDistinct, LiveIsFenced, HoldsJob, Live,
         OneLiveProjector, Fenced, KeepsClaim, eventVars

LEMMA JobEndsKeepsClaim ==
    ASSUME TypeOK, NEW w \in Workers, NEW j, JobEnds(w, j)
    PROVE  /\ \A v \in Workers : KeepsClaim(v)
           /\ wpc'[w] \notin Holding
           /\ \A v \in Workers \ {w} : /\ wpc'[v] = wpc[v]
                                       /\ wjob'[v] = wjob[v]
                                       /\ wclaim'[v] = wclaim[v]
  BY DEF JobEnds, KeepsClaim, TypeOK, Holding

\* A worker that settles its event and leaves cannot touch a live claim of
\* another one.
LEMMA LeaseSettle ==
    ASSUME LeaseInv, TypeOK', NEW w \in Workers, HoldsJob(w), NEW s, NEW j,
           SetIfFenced(w, s), JobEnds(w, j)
    PROVE  LeaseInv'
  <1> USE DEF LeaseInv, HoldsJob, Live
  <1>1. /\ wpc'[w] \notin Holding
        /\ \A v \in Workers \ {w} : /\ wpc'[v] = wpc[v]
                                    /\ wjob'[v] = wjob[v]
                                    /\ wclaim'[v] = wclaim[v]
    BY JobEndsKeepsClaim
  <1>2. claims' = claims /\ lapsed' = lapsed
    BY DEF SetIfFenced
  <1>3. ClaimsNumbered' /\ ClaimsDistinct' /\ OneLiveProjector'
    BY <1>1, <1>2 DEF ClaimsNumbered, ClaimsDistinct, OneLiveProjector
  <1>4. ASSUME NEW v \in Workers, Live(v)'
        PROVE  (Fenced(v) \/ status[wjob[v]] = "FAILED")'
    <2>1. v # w /\ Live(v)
      BY <1>1, <1>2, <1>4
    <2>2. CASE status[wjob[v]] = "FAILED"
      BY <2>1, <2>2, <1>1 DEF SetIfFenced, Fenced
    <2>3. CASE Fenced(v)
      <3>1. wjob[v] = wjob[w] => wclaim[v] # wclaim[w]
        BY <2>1 DEF ClaimsDistinct
      <3>2. status'[wjob[v]] = status[wjob[v]]
            /\ startedAt'[wjob[v]] = startedAt[wjob[v]]
        BY <2>3, <3>1 DEF SetIfFenced, Fenced, TypeOK
      <3> QED
        BY <2>1, <2>3, <3>2, <1>1 DEF Fenced
    <2> QED
      BY <2>1, <2>2, <2>3 DEF LiveIsFenced
  <1> QED
    BY <1>3, <1>4 DEF LiveIsFenced

\* The claim: nobody live holds the event, and the new number is new.
LEMMA LeaseClaim ==
    ASSUME LeaseInv, TypeOK', NEW w \in Workers, Claim(w)
    PROVE  LeaseInv'
  <1> DEFINE d == wjob[w]
  <1> USE DEF LeaseInv, HoldsJob, Live
  <1>1. d \in Deliveries /\ wpc[w] = "claim"
    BY DEF Claim, TypeOK
  <1>2. CASE ~Claimable(d)
    <2>1. UNCHANGED eventVars /\ \A v \in Workers : KeepsClaim(v)
      BY <1>1, <1>2 DEF Claim, WorkerGoes, KeepsClaim, TypeOK, Holding, eventVars
    <2> QED
      BY <2>1, LeaseFrame
  <1>3. CASE Claimable(d)
    <2>1. /\ status' = [status EXCEPT ![d] = "PROCESSING"]
          /\ claims' = [claims EXCEPT ![d] = @ + 1]
          /\ startedAt' = [startedAt EXCEPT ![d] = claims[d] + 1]
          /\ wclaim' = [wclaim EXCEPT ![w] = claims[d] + 1]
          /\ wpc' = [wpc EXCEPT ![w] = "load"]
          /\ wjob' = wjob /\ lapsed' = lapsed
      BY <1>3 DEF Claim, WorkerGoes
    <2>2. \A v \in Workers : v # w /\ wjob[v] = d => ~Live(v)
      BY <1>1, <1>3 DEF LiveIsFenced, Fenced, Claimable, LiveClaim, TypeOK
    <2>3. /\ \A v \in Workers : HoldsJob(v)' /\ v # w =>
                HoldsJob(v) /\ wclaim'[v] = wclaim[v]
          /\ wclaim'[w] = claims[d] + 1 /\ claims'[d] = claims[d] + 1
          /\ \A e \in Deliveries : e # d => claims'[e] = claims[e]
          /\ \A v \in Workers : HoldsJob(v) => wjob[v] \in Deliveries
      BY <1>1, <2>1 DEF TypeOK, Holding
    <2>4. ClaimsNumbered'
      BY <1>1, <2>1, <2>3 DEF ClaimsNumbered, TypeOK
    <2>5. ClaimsDistinct'
      BY <1>1, <2>1, <2>3 DEF ClaimsDistinct, ClaimsNumbered, TypeOK
    <2>6. LiveIsFenced'
      BY <1>1, <2>1, <2>2, <2>3 DEF LiveIsFenced, Fenced, TypeOK
    <2>7. OneLiveProjector'
      BY <1>1, <2>1, <2>2, <2>3 DEF OneLiveProjector, TypeOK
    <2> QED
      BY <2>4, <2>5, <2>6, <2>7
  <1> QED
    BY <1>2, <1>3

LEMMA LeaseNext == LeaseInv /\ [Next]_vars => LeaseInv'
  <1> SUFFICES ASSUME LeaseInv, [Next]_vars
               PROVE  LeaseInv'
    OBVIOUS
  <1>0. TypeOK /\ TypeOK'
    BY TypeNext DEF LeaseInv
  <1>1. ASSUME NEW r \in Requests, RequestStepOf(r)
        PROVE  LeaseInv'
    <2>1. ASSUME UNCHANGED eventVars, UNCHANGED workerVars
          PROVE  LeaseInv'
      BY <1>0, <2>1, LeaseFrame DEF KeepsClaim, workerVars
    <2>2. ASSUME UNCHANGED <<startedAt, claims, lapsed, workerVars>>,
                 NEW d \in Deliveries, status[d] \in {"absent", "RECEIVED"},
                 NEW s \in EventStatus, status' = [status EXCEPT ![d] = s]
          PROVE  LeaseInv'
      <3>1. \A w \in Workers : Live(w) => wjob[w] # d
        BY <2>2 DEF LeaseInv, LiveIsFenced, Fenced
      <3> QED
        BY <1>0, <2>2, <3>1
        DEF LeaseInv, ClaimsNumbered, ClaimsDistinct, LiveIsFenced, Fenced,
            OneLiveProjector, Live, HoldsJob, workerVars, TypeOK
    <2>3. CASE PersistOrFind(r)
      <3>1. rfor[r] \in Deliveries
        BY <1>0, <2>3 DEF PersistOrFind, TypeOK
      <3>2. CASE status[rfor[r]] = "absent"
        <4>1. status' = [status EXCEPT ![rfor[r]] = "RECEIVED"]
              /\ "RECEIVED" \in EventStatus
          BY <2>3, <3>2 DEF PersistOrFind, EventStatus
        <4> QED
          BY <2>2, <2>3, <3>1, <3>2, <4>1 DEF PersistOrFind
      <3>3. CASE status[rfor[r]] # "absent"
        BY <2>1, <2>3, <3>3 DEF PersistOrFind, eventVars
      <3> QED
        BY <3>2, <3>3
    <2>4. CASE MarkQueued(r)
      <3>1. rfor[r] \in Deliveries
        BY <1>0, <2>4 DEF MarkQueued, TypeOK
      <3>2. CASE status[rfor[r]] = "RECEIVED"
        <4>1. status' = [status EXCEPT ![rfor[r]] = "QUEUED"]
              /\ "QUEUED" \in EventStatus
          BY <2>4, <3>2 DEF MarkQueued, EventStatus
        <4> QED
          BY <2>2, <2>4, <3>1, <3>2, <4>1 DEF MarkQueued
      <3>3. CASE status[rfor[r]] # "RECEIVED"
        BY <2>1, <2>4, <3>3 DEF MarkQueued, eventVars
      <3> QED
        BY <3>2, <3>3
    <2> QED
      BY <1>1, <2>1, <2>3, <2>4
      DEF RequestStepOf, ResolveStore, Enqueue, RequestFails
  <1>2. ASSUME NEW w \in Workers, WorkerRuns(w)
        PROVE  LeaseInv'
    <2>1. ASSUME NEW d \in Deliveries, Fetch(w, d) \/ BuryExhausted(w, d)
          PROVE  LeaseInv'
      <3>1. UNCHANGED eventVars /\ \A v \in Workers : KeepsClaim(v)
        BY <1>0, <2>1
        DEF Fetch, BuryExhausted, WorkerGoes, KeepsClaim, workerVars, TypeOK,
            Holding
      <3> QED
        BY <1>0, <3>1, LeaseFrame
    <2>2. CASE Resolve(w) \/ Load(w) \/ Project(w) \/ Schedule(w)
      <3>1. UNCHANGED eventVars
        BY <2>2 DEF Resolve, Load, Project, Schedule
      <3>2. CASE Resolve(w)
        BY <1>0, <3>1, <3>2, JobEndsKeepsClaim, LeaseFrame DEF Resolve
      <3>3. CASE Load(w) \/ Project(w) \/ Schedule(w)
        <4>1. \A v \in Workers : KeepsClaim(v)
          BY <1>0, <3>3
          DEF Load, Project, Schedule, WorkerGoes, KeepsClaim, TypeOK, Holding
        <4> QED
          BY <1>0, <3>1, <4>1, LeaseFrame
      <3> QED
        BY <2>2, <3>2, <3>3
    <2>3. CASE ReleaseForRetry(w) \/ FailClaimed(w) \/ Complete(w)
      <3>1. HoldsJob(w) /\ \E s, j : SetIfFenced(w, s) /\ JobEnds(w, j)
        BY <2>3 DEF ReleaseForRetry, FailClaimed, Complete, HoldsJob, Holding
      <3> QED
        BY <1>0, <3>1, LeaseSettle
    <2> QED
      BY <1>0, <1>2, <2>1, <2>2, <2>3, LeaseClaim DEF WorkerRuns
  <1>3. ASSUME NEW w \in Workers, WorkerBreaks(w)
        PROVE  LeaseInv'
    <2>1. UNCHANGED eventVars
      BY <1>3 DEF WorkerBreaks, DbFault, Crash, MarkFailedFault
    <2>2. \A v \in Workers : KeepsClaim(v)
      <3>1. CASE DbFault(w)
        BY <1>0, <3>1, JobEndsKeepsClaim DEF DbFault
      <3>2. CASE Crash(w)
        BY <1>0, <3>2 DEF Crash, KeepsClaim, TypeOK, Holding
      <3>3. CASE \E d \in Deliveries : MarkFailedFault(w, d)
        BY <3>3 DEF MarkFailedFault, KeepsClaim, workerVars
      <3> QED
        BY <1>3, <3>1, <3>2, <3>3 DEF WorkerBreaks
    <2> QED
      BY <1>0, <2>1, <2>2, LeaseFrame
  <1>4. ASSUME UNCHANGED <<claims, lapsed, workerVars>>,
               \A d \in Deliveries :
                  status'[d] # "FAILED" => status'[d] = status[d]
                                           /\ startedAt'[d] = startedAt[d]
        PROVE  LeaseInv'
    BY <1>0, <1>4
    DEF LeaseInv, ClaimsNumbered, ClaimsDistinct, LiveIsFenced, Fenced,
        OneLiveProjector, Live, HoldsJob, workerVars, TypeOK, Holding
  <1>5. ASSUME NEW w \in Workers, NEW d \in Deliveries, MarkFailed(w, d)
        PROVE  LeaseInv'
    BY <1>0, <1>4, <1>5 DEF MarkFailed, TypeOK
  <1>6. ASSUME NEW d \in Deliveries, Stall(d) \/ EnforceRetention(d)
        PROVE  LeaseInv'
    BY <1>0, <1>6, LeaseFrame DEF Stall, EnforceRetention, KeepsClaim, workerVars
  <1>7. ASSUME NEW d \in Deliveries, LeaseLapses(d)
        PROVE  LeaseInv'
    BY <1>0, <1>7
    DEF LeaseLapses, LeaseInv, ClaimsNumbered, ClaimsDistinct, LiveIsFenced,
        Fenced, OneLiveProjector, Live, HoldsJob, workerVars, TypeOK, Holding
  <1>8. CASE Disconnect
    BY <1>0, <1>4, <1>8 DEF Disconnect, TypeOK
  <1>9. CASE UNCHANGED vars
    BY <1>0, <1>9, LeaseFrame DEF vars, KeepsClaim, workerVars
  <1> QED
    BY <1>1, <1>2, <1>3, <1>5, <1>6, <1>7, <1>8, <1>9
    DEF Next, ListenerRuns, Environment

\* No two workers project one event under claims that both still run, for any
\* number of workers and whatever stalls, crashes or faults.
THEOREM LeaseExcludes == Spec => []OneLiveProjector
  <1>1. Init => LeaseInv
    BY TypeInit
    DEF Init, LeaseInv, ClaimsNumbered, ClaimsDistinct, LiveIsFenced,
        OneLiveProjector, Live, HoldsJob, Holding
  <1>2. LeaseInv => OneLiveProjector
    BY DEF LeaseInv
  <1> QED
    BY <1>1, <1>2, LeaseNext, PTL DEF Spec

-----------------------------------------------------------------------------
(* What a completed event has behind it.                                   *)

\* A worker about to complete has projected and scheduled its event, whether
\* or not it still has the lease.
EffectInv ==
    /\ TypeOK
    /\ \A w \in Workers :
          /\ wpc[w] \in {"schedule", "complete"} => wjob[w] \in projected
          /\ wpc[w] = "complete" => wjob[w] \in scheduled
    /\ CompletedHasEffect

LEMMA EffectNext == EffectInv /\ [Next]_vars => EffectInv'
  <1> SUFFICES ASSUME EffectInv, [Next]_vars
               PROVE  EffectInv'
    OBVIOUS
  <1>0. TypeOK /\ TypeOK'
    BY TypeNext DEF EffectInv
  <1> USE <1>0 DEF EffectInv, CompletedHasEffect
  <1>1. ASSUME UNCHANGED effectVars,
               \A w \in Workers :
                  wpc'[w] \in {"schedule", "complete"} =>
                     wpc'[w] = wpc[w] /\ wjob'[w] = wjob[w],
               \A d \in Deliveries :
                  status'[d] = "COMPLETED" =>
                     \/ status[d] = "COMPLETED"
                     \/ \E w \in Workers : wpc[w] = "complete" /\ wjob[w] = d
        PROVE  EffectInv'
    BY <1>1 DEF effectVars
  <1>2. ASSUME NEW r \in Requests, RequestStepOf(r)
        PROVE  EffectInv'
    BY <1>1, <1>2
    DEF RequestStepOf, ResolveStore, PersistOrFind, Enqueue, MarkQueued,
        RequestFails, eventVars, workerVars, TypeOK
  <1>3. ASSUME NEW w \in Workers, WorkerRuns(w)
        PROVE  EffectInv'
    <2>1. CASE \E d \in Deliveries : Fetch(w, d) \/ BuryExhausted(w, d)
      BY <1>1, <2>1
      DEF Fetch, BuryExhausted, WorkerGoes, eventVars, workerVars, TypeOK
    <2>2. CASE Claim(w) \/ Load(w)
      BY <1>1, <2>2 DEF Claim, Load, WorkerGoes, eventVars, TypeOK
    <2>3. CASE Project(w) \/ Schedule(w)
      BY <2>3 DEF Project, Schedule, WorkerGoes, eventVars, effectVars, TypeOK
    <2>4. ASSUME NEW j, JobEnds(w, j)
          PROVE  \A v \in Workers : wpc'[v] \in {"schedule", "complete"} =>
                    wpc'[v] = wpc[v] /\ wjob'[v] = wjob[v]
      BY <2>4 DEF JobEnds, TypeOK
    <2>5. CASE Resolve(w)
      BY <1>1, <2>4, <2>5 DEF Resolve, eventVars
    <2>6. CASE ReleaseForRetry(w) \/ FailClaimed(w)
      <3>1. \A d \in Deliveries :
               status'[d] = "COMPLETED" => status[d] = "COMPLETED"
        BY <2>6 DEF ReleaseForRetry, FailClaimed, SetIfFenced, TypeOK
      <3> QED
        BY <1>1, <2>4, <2>6, <3>1 DEF ReleaseForRetry, FailClaimed
    <2>7. CASE Complete(w)
      <3>1. \A d \in Deliveries :
               status'[d] = "COMPLETED" => status[d] = "COMPLETED" \/ wjob[w] = d
        BY <2>7 DEF Complete, SetIfFenced, TypeOK
      <3> QED
        BY <1>1, <2>4, <2>7, <3>1 DEF Complete
    <2> QED
      BY <1>3, <2>1, <2>2, <2>3, <2>5, <2>6, <2>7 DEF WorkerRuns
  <1>4. ASSUME NEW w \in Workers, WorkerBreaks(w)
        PROVE  EffectInv'
    BY <1>1, <1>4
    DEF WorkerBreaks, DbFault, Crash, MarkFailedFault, JobEnds, eventVars,
        workerVars, TypeOK
  <1>5. ASSUME NEW w \in Workers, NEW d \in Deliveries, MarkFailed(w, d)
        PROVE  EffectInv'
    BY <1>1, <1>5 DEF MarkFailed, workerVars, TypeOK
  <1>6. CASE Environment
    BY <1>1, <1>6
    DEF Environment, Stall, LeaseLapses, EnforceRetention, Disconnect,
        eventVars, workerVars, TypeOK
  <1>7. CASE UNCHANGED vars
    BY <1>1, <1>7 DEF vars, eventVars, workerVars
  <1> QED
    BY <1>2, <1>3, <1>4, <1>5, <1>6, <1>7 DEF Next, ListenerRuns

\* No event is COMPLETED without its projection and its notifications.
THEOREM CompletionIsEarned == Spec => []CompletedHasEffect
  <1>1. Init => EffectInv
    BY TypeInit DEF Init, EffectInv, CompletedHasEffect
  <1>2. EffectInv => CompletedHasEffect
    BY DEF EffectInv
  <1> QED
    BY <1>1, <1>2, EffectNext, PTL DEF Spec

-----------------------------------------------------------------------------
(* What a 200 promises.                                                    *)

\* Persist, enqueue, mark, answer: at each step the earlier ones are done, and
\* no event leaves RECEIVED for anything but FAILED unless its job was added.
PublishedInv ==
    /\ TypeOK
    /\ \A r \in Requests :
          /\ rpc[r] \in {"enqueue", "markQueued"} => status[rfor[r]] # "absent"
          /\ rpc[r] = "markQueued" => job[rfor[r]].state # "absent"
    /\ \A w \in Workers : wpc[w] # "idle" => job[wjob[w]].state # "absent"
    /\ \A d \in Deliveries :
          status[d] \in {"QUEUED", "PROCESSING", "COMPLETED"}
             => job[d].state # "absent"
    /\ \A d \in acked : status[d] \notin {"absent", "RECEIVED"}

LEMMA PublishedNext == PublishedInv /\ [Next]_vars => PublishedInv'
  <1> SUFFICES ASSUME PublishedInv, [Next]_vars
               PROVE  PublishedInv'
    OBVIOUS
  <1>0. TypeOK /\ TypeOK'
    BY TypeNext DEF PublishedInv
  <1> USE <1>0 DEF PublishedInv
  <1>1. ASSUME UNCHANGED requestVars,
               \A d \in Deliveries :
                  job[d].state # "absent" => job'[d].state # "absent",
               \A w \in Workers :
                  wpc'[w] # "idle" =>
                     \/ wpc[w] # "idle" /\ wjob'[w] = wjob[w]
                     \/ job'[wjob'[w]].state # "absent",
               \A d \in Deliveries :
                  \/ status'[d] = status[d]
                  \/ status'[d] = "FAILED"
                  \/ /\ status'[d] \in {"QUEUED", "PROCESSING", "COMPLETED"}
                     /\ job[d].state # "absent"
        PROVE  PublishedInv'
    BY <1>1 DEF requestVars, TypeOK
  <1>2. ASSUME NEW r \in Requests, RequestStepOf(r)
        PROVE  PublishedInv'
    <2>1. ASSUME NEW d \in Deliveries, ResolveStore(r, d)
          PROVE  PublishedInv'
      BY <2>1
      DEF ResolveStore, RequestGoes, eventVars, queueVars, workerVars, TypeOK
    <2>2. CASE PersistOrFind(r)
      BY <2>2 DEF PersistOrFind, RequestGoes, queueVars, workerVars, TypeOK,
                  EventStatus
    <2>3. CASE Enqueue(r)
      <3>1. Added(job[rfor[r]]).state # "absent"
        BY <2>3, JobsStayKnown DEF Enqueue, TypeOK
      <3> QED
        BY <2>3, <3>1 DEF Enqueue, RequestGoes, eventVars, workerVars, TypeOK
    <2>4. CASE MarkQueued(r)
      BY <2>4 DEF MarkQueued, RequestGoes, queueVars, workerVars, TypeOK
    <2>5. CASE RequestFails(r)
      BY <2>5 DEF RequestFails, RequestGoes, eventVars, queueVars, workerVars,
                  TypeOK
    <2> QED
      BY <1>2, <2>1, <2>2, <2>3, <2>4, <2>5 DEF RequestStepOf
  <1>3. ASSUME NEW w \in Workers, wpc[w] # "idle", NEW k, k.state # "absent",
               JobEnds(w, k)
        PROVE  /\ \A d \in Deliveries :
                     job[d].state # "absent" => job'[d].state # "absent"
               /\ \A v \in Workers :
                     wpc'[v] # "idle" => wpc[v] # "idle" /\ wjob'[v] = wjob[v]
    BY <1>3 DEF JobEnds, queueVars, TypeOK
  <1>4. ASSUME NEW w \in Workers, wpc[w] # "idle"
        PROVE  LET j == job[wjob[w]] IN
               /\ Finished(j).state # "absent" /\ Retried(j).state # "absent"
               /\ Buried(j).state # "absent"
    BY <1>4, JobsStayKnown DEF TypeOK
  <1>5. ASSUME NEW w \in Workers, WorkerRuns(w)
        PROVE  PublishedInv'
    <2>1. ASSUME NEW d \in Deliveries, Fetch(w, d)
          PROVE  PublishedInv'
      <3>1. Fetched(job[d], w).state # "absent"
        BY JobsStayKnown DEF TypeOK
      <3> QED
        BY <1>1, <2>1, <3>1 DEF Fetch, WorkerGoes, eventVars, TypeOK
    <2>2. ASSUME NEW d \in Deliveries, BuryExhausted(w, d)
          PROVE  PublishedInv'
      <3>1. Buried(job[d]).state # "absent"
        BY JobsStayKnown DEF TypeOK
      <3> QED
        BY <1>1, <2>2, <3>1 DEF BuryExhausted, eventVars, workerVars, TypeOK
    <2>3. CASE Claim(w)
      BY <1>1, <2>3 DEF Claim, WorkerGoes, queueVars, TypeOK
    <2>4. CASE Load(w) \/ Project(w) \/ Schedule(w)
      BY <1>1, <2>4
      DEF Load, Project, Schedule, WorkerGoes, eventVars, queueVars, TypeOK
    <2>5. CASE Resolve(w)
      <3>1. \E k : k.state # "absent" /\ JobEnds(w, k)
        BY <1>4, <2>5 DEF Resolve
      <3> QED
        BY <1>1, <1>3, <2>5, <3>1 DEF Resolve, eventVars
    <2>6. CASE ReleaseForRetry(w) \/ FailClaimed(w) \/ Complete(w)
      <3>1. /\ wpc[w] # "idle" /\ UNCHANGED requestVars
            /\ \E k : k.state # "absent" /\ JobEnds(w, k)
        BY <1>4, <2>6 DEF ReleaseForRetry, FailClaimed, Complete
      <3>2. \E s \in {"QUEUED", "FAILED", "COMPLETED"} : SetIfFenced(w, s)
        BY <2>6 DEF ReleaseForRetry, FailClaimed, Complete
      <3> QED
        BY <1>1, <1>3, <3>1, <3>2 DEF SetIfFenced, TypeOK
    <2> QED
      BY <1>5, <2>1, <2>2, <2>3, <2>4, <2>5, <2>6 DEF WorkerRuns
  <1>6. ASSUME NEW w \in Workers, WorkerBreaks(w)
        PROVE  PublishedInv'
    <2>1. CASE DbFault(w)
      <3>1. wpc[w] # "idle" /\ \E k : k.state # "absent" /\ JobEnds(w, k)
        BY <1>4, <2>1 DEF DbFault
      <3> QED
        BY <1>1, <1>3, <2>1, <3>1 DEF DbFault, eventVars
    <2>2. CASE Crash(w)
      BY <1>1, <2>2 DEF Crash, eventVars, TypeOK
    <2>3. CASE \E d \in Deliveries : MarkFailedFault(w, d)
      BY <1>1, <2>3 DEF MarkFailedFault, eventVars, workerVars
    <2> QED
      BY <1>6, <2>1, <2>2, <2>3 DEF WorkerBreaks
  <1>7. ASSUME NEW w \in Workers, NEW d \in Deliveries, MarkFailed(w, d)
        PROVE  PublishedInv'
    BY <1>1, <1>7 DEF MarkFailed, workerVars, TypeOK
  <1>8. CASE Environment
    <2>1. ASSUME NEW d \in Deliveries, Stall(d) \/ EnforceRetention(d)
          PROVE  PublishedInv'
      <3>1. Stalled(job[d]).state # "absent" /\ Forgotten(job[d]).state # "absent"
        BY JobsStayKnown DEF TypeOK
      <3> QED
        BY <1>1, <2>1, <3>1
        DEF Stall, EnforceRetention, eventVars, workerVars, TypeOK
    <2>2. ASSUME NEW d \in Deliveries, LeaseLapses(d)
          PROVE  PublishedInv'
      BY <1>1, <2>2 DEF LeaseLapses, queueVars, workerVars
    <2>3. CASE Disconnect
      BY <1>1, <2>3 DEF Disconnect, queueVars, workerVars
    <2> QED
      BY <1>8, <2>1, <2>2, <2>3 DEF Environment
  <1>9. CASE UNCHANGED vars
    BY <1>1, <1>9 DEF vars, eventVars, queueVars, workerVars
  <1> QED
    BY <1>2, <1>5, <1>6, <1>7, <1>8, <1>9 DEF Next, ListenerRuns

\* Every delivery answered with 200 was published or had failed already.
THEOREM AckMeansPublished == Spec => []AckedIsPublished
  <1>1. Init => PublishedInv
    BY TypeInit DEF Init, PublishedInv
  <1>2. PublishedInv => AckedIsPublished
    BY DEF PublishedInv, AckedIsPublished, TypeOK, EventStatus
  <1> QED
    BY <1>1, <1>2, PublishedNext, PTL DEF Spec

-----------------------------------------------------------------------------
(* Settled events stay as they are.                                        *)

LEMMA SettledStep ==
    TypeOK /\ [Next]_vars =>
       \A d \in Deliveries : status[d] \in Settled => status'[d] = status[d]
  <1> SUFFICES ASSUME TypeOK, [Next]_vars,
                      NEW d \in Deliveries, status[d] \in Settled
               PROVE  status'[d] = status[d]
    OBVIOUS
  <1> USE DEF Settled, TypeOK
  <1>1. ASSUME NEW r \in Requests, RequestStepOf(r)
        PROVE  status'[d] = status[d]
    BY <1>1 DEF RequestStepOf, ResolveStore, PersistOrFind, Enqueue, MarkQueued,
                RequestFails, eventVars
  <1>2. ASSUME NEW w \in Workers, WorkerRuns(w)
        PROVE  status'[d] = status[d]
    <2>1. ASSUME NEW s, SetIfFenced(w, s)
          PROVE  status'[d] = status[d]
      BY <2>1 DEF SetIfFenced, Fenced
    <2>2. CASE Claim(w)
      BY <2>2 DEF Claim, Claimable, LiveClaim
    <2>3. CASE \/ ReleaseForRetry(w) \/ FailClaimed(w) \/ Complete(w)
      BY <2>1, <2>3 DEF ReleaseForRetry, FailClaimed, Complete
    <2>4. CASE UNCHANGED eventVars
      BY <2>4 DEF eventVars
    <2> QED
      BY <1>2, <2>2, <2>3, <2>4
      DEF WorkerRuns, Fetch, BuryExhausted, Resolve, Load, Project, Schedule
  <1>3. ASSUME NEW w \in Workers, WorkerBreaks(w)
        PROVE  status'[d] = status[d]
    BY <1>3 DEF WorkerBreaks, DbFault, Crash, MarkFailedFault, eventVars
  <1>4. CASE ListenerRuns
    BY <1>4 DEF ListenerRuns, MarkFailed, Open
  <1>5. CASE Environment
    BY <1>5 DEF Environment, Stall, LeaseLapses, EnforceRetention, Disconnect,
                Open, eventVars
  <1>6. CASE UNCHANGED vars
    BY <1>6 DEF vars, eventVars
  <1> QED
    BY <1>1, <1>2, <1>3, <1>4, <1>5, <1>6 DEF Next

\* COMPLETED and FAILED are final, whoever writes late.
THEOREM SettledStays == Spec => SettledIsFinal
  <1>1. TypeOK /\ [Next]_vars =>
           [\A d \in Deliveries :
               status[d] \in Settled => status'[d] = status[d]]_vars
    BY SettledStep
  <1> QED
    BY <1>1, TypeCorrect, PTL DEF Spec, SettledIsFinal
-----------------------------------------------------------------------------
(* Jobs that end.  While locks hold, the worker of an event is the one that *)
(* has the lock of its job; while no database call fails, an event under a *)
(* live claim has an active job, that of the claimer, alive or dead.  A    *)
(* worker that comes to resolveUnclaimed with the lock finds no live claim,*)
(* so that it completes the job of a COMPLETED event only.                 *)

LockInv ==
    \A w \in Workers :
        wpc[w] # "idle" => job[wjob[w]].state = "active" /\ job[wjob[w]].owner = w

HolderInv ==
    \A w \in Workers : wpc[w] \in Holding /\ status[wjob[w]] = "PROCESSING" => Fenced(w)

LiveJobInv ==
    \A d \in Deliveries :
        LiveClaim(d) =>
            /\ job[d].state = "active"
            /\ \A w \in Workers :
                  wpc[w] # "idle" /\ wjob[w] = d => wpc[w] \in Holding

SettleInv == TypeOK /\ LockInv /\ HolderInv /\ LiveJobInv /\ CompletedJobSettled

LEMMA OperatorStates ==
    ASSUME NEW j \in Job
    PROVE  /\ \A w \in Workers : Fetched(j, w).state = "active" /\ Fetched(j, w).owner = w
           /\ Finished(j).state = "completed" /\ Buried(j).state = "failed"
           /\ Retried(j).state \in {"waiting", "failed"}
           /\ Stalled(j).state = "waiting" /\ Forgotten(j).state = "removed"
           /\ j.state \notin {"absent", "removed"} => Added(j) = j
           /\ j.state \in {"absent", "removed"} => Added(j).state = "waiting"
  <1>1. \A s : Released(j, s) \in [state : {s}, attempts : Nat, stalls : Nat,
                                   owner : {NoWorker}]
    BY DEF Released, Job
  <1>2. Retried(j).state \in {"waiting", "failed"} /\ Buried(j).state = "failed"
        /\ Stalled(j).state = "waiting" /\ Finished(j).state = "completed"
    BY <1>1 DEF Retried, Buried, Stalled, Finished
  <1>3. Forgotten(j).state = "removed"
    BY DEF Forgotten, UnknownJob
  <1>4. \A w \in Workers : Fetched(j, w).state = "active" /\ Fetched(j, w).owner = w
    BY DEF Fetched, Job
  <1> QED
    BY <1>2, <1>3, <1>4 DEF Added, UnknownJob

\* Two workers never have one event, and a job that waits or has ended has none.
LEMMA OneWorker ==
    ASSUME TypeOK, LockInv
    PROVE  /\ \A v, w \in Workers :
                 wpc[v] # "idle" /\ wpc[w] # "idle" /\ wjob[v] = wjob[w] => v = w
           /\ \A w \in Workers, d \in Deliveries :
                 wpc[w] # "idle" /\ job[d].state # "active" => wjob[w] # d
  BY DEF LockInv

\* Steps of requests, listeners, the clock and the operator: an event may leave
\* PROCESSING, a claim may lapse, and a job without a worker may change.
LEMMA SettleFrame ==
    ASSUME SettleInv, TypeOK', UNCHANGED workerVars,
           \A d \in Deliveries :
              /\ status'[d] = "PROCESSING" =>
                    status[d] = "PROCESSING" /\ startedAt'[d] = startedAt[d]
              /\ lapsed'[d] >= lapsed[d]
              /\ status[d] \in Settled => status'[d] \in Settled
              /\ \/ job'[d] = job[d]
                 \/ /\ ~LiveClaim(d) /\ job'[d].state # "completed"
                    /\ \A w \in Workers : wpc[w] # "idle" => wjob[w] # d
    PROVE  SettleInv'
  <1> USE DEF SettleInv, workerVars
  <1>1. LockInv'
    BY DEF LockInv, TypeOK
  <1>2. HolderInv'
    BY DEF HolderInv, Fenced, TypeOK, Holding
  <1>3. LiveJobInv'
    BY DEF LiveJobInv, LiveClaim, TypeOK
  <1>4. CompletedJobSettled'
    BY DEF CompletedJobSettled
  <1> QED
    BY <1>1, <1>2, <1>3, <1>4

\* A worker goes on with the event it has.
LEMMA SettleGoes ==
    ASSUME SettleInv, TypeOK', UNCHANGED <<eventVars, queueVars, wjob, wclaim>>,
           NEW w \in Workers, NEW step, wpc' = [wpc EXCEPT ![w] = step],
           \/ wpc[w] \in Holding /\ step \in Holding
           \/ wpc[w] = "claim" /\ step = "resolve" /\ ~LiveClaim(wjob[w])
    PROVE  SettleInv'
  <1> USE DEF SettleInv, eventVars, queueVars
  <1>1. LockInv'
    BY DEF LockInv, TypeOK, Holding
  <1>2. HolderInv'
    BY DEF HolderInv, Fenced, TypeOK, Holding
  <1>3. LiveJobInv'
    BY DEF LiveJobInv, LiveClaim, TypeOK, Holding
  <1>4. CompletedJobSettled'
    BY DEF CompletedJobSettled
  <1> QED
    BY <1>1, <1>2, <1>3, <1>4

\* A worker that ends its job leaves no live claim behind, and completes the job
\* of a settled event only.
LEMMA SettleEnds ==
    ASSUME SettleInv, TypeOK', NEW w \in Workers, wpc[w] # "idle",
           NEW k \in Job, JobEnds(w, k), lapsed' = lapsed,
           k.state = "completed" => status'[wjob[w]] \in Settled,
           \A d \in Deliveries :
              d # wjob[w] => status'[d] = status[d] /\ startedAt'[d] = startedAt[d],
           status[wjob[w]] \in Settled => status'[wjob[w]] \in Settled,
           status'[wjob[w]] = "PROCESSING" => ~LiveClaim(wjob[w]) /\ UNCHANGED eventVars
    PROVE  SettleInv'
  <1> USE DEF SettleInv, JobEnds
  <1>0. /\ wjob[w] \in Deliveries /\ job[wjob[w]].owner = w
        /\ job' = [job EXCEPT ![wjob[w]] = k]
        /\ \A v \in Workers : wpc'[v] # "idle" =>
              v # w /\ wpc'[v] = wpc[v] /\ wjob'[v] = wjob[v] /\ wclaim'[v] = wclaim[v]
              /\ wjob[v] # wjob[w]
    BY OneWorker DEF LockInv, TypeOK
  <1>1. LockInv'
    BY <1>0 DEF LockInv, TypeOK
  <1>2. HolderInv'
    BY <1>0 DEF HolderInv, Fenced, TypeOK, Holding
  <1>3. LiveJobInv'
    BY <1>0 DEF LiveJobInv, LiveClaim, TypeOK, eventVars
  <1>4. CompletedJobSettled'
    BY <1>0 DEF CompletedJobSettled, TypeOK
  <1> QED
    BY <1>1, <1>2, <1>3, <1>4
LEMMA SettleNext ==
    ASSUME LocksHold, MaxDbFaults = 0
    PROVE  SettleInv /\ [Next]_vars => SettleInv'
  <1> SUFFICES ASSUME SettleInv, [Next]_vars
               PROVE  SettleInv'
    OBVIOUS
  <1>0. TypeOK /\ TypeOK'
    BY TypeNext DEF SettleInv
  <1>1. \A d \in Deliveries : status[d] \in Settled => status'[d] = status[d]
    BY <1>0, SettledStep
  <1>2. ASSUME NEW r \in Requests, RequestStepOf(r)
        PROVE  SettleInv'
    <2>1. UNCHANGED <<workerVars, startedAt, lapsed>>
          /\ \A d \in Deliveries : status'[d] = "PROCESSING" => status[d] = "PROCESSING"
      BY <1>0, <1>2
      DEF RequestStepOf, ResolveStore, PersistOrFind, Enqueue, MarkQueued,
          RequestFails, eventVars, workerVars, TypeOK
    <2>2. \A d \in Deliveries :
             \/ job'[d] = job[d]
             \/ /\ ~LiveClaim(d) /\ job'[d].state # "completed"
                /\ \A w \in Workers : wpc[w] # "idle" => wjob[w] # d
      <3>1. CASE Enqueue(r)
        <4>1. job' = [job EXCEPT ![rfor[r]] = Added(@)] /\ rfor[r] \in Deliveries
          BY <1>0, <3>1 DEF Enqueue, TypeOK
        <4>2. CASE job[rfor[r]].state \in {"absent", "removed"}
          BY <1>0, <4>1, <4>2, OneWorker, OperatorStates
          DEF SettleInv, LiveJobInv, TypeOK
        <4>3. CASE job[rfor[r]].state \notin {"absent", "removed"}
          BY <1>0, <4>1, <4>3, OperatorStates DEF TypeOK
        <4> QED
          BY <4>2, <4>3
      <3>2. CASE ~Enqueue(r)
        BY <1>2, <3>2
        DEF RequestStepOf, ResolveStore, PersistOrFind, MarkQueued, RequestFails,
            queueVars
      <3> QED
        BY <3>1, <3>2
    <2> QED
      BY <1>0, <1>1, <2>1, <2>2, SettleFrame DEF TypeOK
  <1>3. ASSUME NEW w \in Workers, WorkerRuns(w)
        PROVE  SettleInv'
    <2>1. ASSUME NEW d \in Deliveries, Fetch(w, d)
          PROVE  SettleInv'
      <3>1. /\ Fetched(job[d], w).state = "active" /\ Fetched(job[d], w).owner = w
            /\ job' = [job EXCEPT ![d] = Fetched(@, w)]
            /\ wpc' = [wpc EXCEPT ![w] = "claim"] /\ wjob' = [wjob EXCEPT ![w] = d]
            /\ wclaim' = wclaim /\ UNCHANGED eventVars
            /\ wpc[w] = "idle" /\ job[d].state = "waiting"
        BY <1>0, <2>1, OperatorStates DEF Fetch, WorkerGoes, TypeOK
      <3>2. ~LiveClaim(d) /\ \A v \in Workers : wpc[v] # "idle" => wjob[v] # d
        BY <1>0, <3>1, OneWorker DEF SettleInv, LiveJobInv
      <3>3. LockInv'
        BY <1>0, <3>1, <3>2 DEF SettleInv, LockInv, TypeOK
      <3>4. HolderInv'
        BY <1>0, <3>1 DEF SettleInv, HolderInv, Fenced, TypeOK, Holding, eventVars
      <3>5. LiveJobInv'
        BY <1>0, <3>1, <3>2 DEF SettleInv, LiveJobInv, LiveClaim, TypeOK, eventVars
      <3>6. CompletedJobSettled'
        BY <1>0, <3>1 DEF SettleInv, CompletedJobSettled, TypeOK, eventVars
      <3> QED
        BY <1>0, <3>3, <3>4, <3>5, <3>6 DEF SettleInv
    <2>2. ASSUME NEW d \in Deliveries, BuryExhausted(w, d)
          PROVE  SettleInv'
      <3>1. job[d].state = "waiting" /\ Buried(job[d]).state = "failed"
        BY <1>0, <2>2, OperatorStates DEF BuryExhausted, TypeOK
      <3>2. ~LiveClaim(d) /\ \A v \in Workers : wpc[v] # "idle" => wjob[v] # d
        BY <1>0, <3>1, OneWorker DEF SettleInv, LiveJobInv
      <3> QED
        BY <1>0, <2>2, <3>1, <3>2, SettleFrame DEF BuryExhausted, eventVars, TypeOK
    <2>3. CASE Claim(w)
      <3> DEFINE d == wjob[w]
      <3>1. d \in Deliveries /\ wpc[w] = "claim"
        BY <1>0, <2>3 DEF Claim, TypeOK
      <3>2. CASE ~Claimable(d)
        <4>1. /\ wpc' = [wpc EXCEPT ![w] = "resolve"]
              /\ UNCHANGED <<eventVars, queueVars, wjob, wclaim>>
          BY <2>3, <3>2 DEF Claim, WorkerGoes, eventVars
        <4>2. ~LiveClaim(d)
          BY <3>1 DEF SettleInv, LiveJobInv, Holding
        <4> QED
          BY <1>0, <3>1, <4>1, <4>2, SettleGoes
      <3>3. CASE Claimable(d)
        <4>1. /\ status' = [status EXCEPT ![d] = "PROCESSING"]
              /\ startedAt' = [startedAt EXCEPT ![d] = claims[d] + 1]
              /\ wclaim' = [wclaim EXCEPT ![w] = claims[d] + 1]
              /\ wpc' = [wpc EXCEPT ![w] = "load"]
              /\ UNCHANGED <<wjob, lapsed, job>>
          BY <2>3, <3>3 DEF Claim, WorkerGoes, queueVars
        <4>2. \A v \in Workers : v # w /\ wpc[v] # "idle" => wjob[v] # d
          BY <1>0, <3>1, OneWorker DEF SettleInv
        <4>3. status[d] \in Open
          BY <3>3 DEF Claimable, Open
        <4>4. LockInv'
          BY <1>0, <3>1, <4>1 DEF SettleInv, LockInv, TypeOK
        <4>5. HolderInv'
          BY <1>0, <3>1, <4>1, <4>2 DEF SettleInv, HolderInv, Fenced, TypeOK, Holding
        <4>6. LiveJobInv'
          BY <1>0, <3>1, <4>1, <4>2
          DEF SettleInv, LockInv, LiveJobInv, LiveClaim, TypeOK, Holding
        <4>7. CompletedJobSettled'
          BY <1>0, <1>1, <4>1 DEF SettleInv, CompletedJobSettled
        <4> QED
          BY <1>0, <4>4, <4>5, <4>6, <4>7 DEF SettleInv
      <3> QED
        BY <3>2, <3>3
    <2>4. CASE Load(w) \/ Project(w) \/ Schedule(w)
      <3>1. PICK step \in Holding : wpc' = [wpc EXCEPT ![w] = step]
        BY <2>4 DEF Load, Project, Schedule, WorkerGoes, Holding
      <3>2. wpc[w] \in Holding /\ UNCHANGED <<eventVars, queueVars, wjob, wclaim>>
        BY <2>4 DEF Load, Project, Schedule, Holding
      <3> QED
        BY <1>0, <3>1, <3>2, SettleGoes
    <2>5. CASE Resolve(w)
      <3> DEFINE d == wjob[w]
      <3>1. wpc[w] = "resolve" /\ d \in Deliveries /\ UNCHANGED eventVars
        BY <1>0, <2>5 DEF Resolve, TypeOK
      <3>2. ~LiveClaim(d)
        BY <3>1 DEF SettleInv, LiveJobInv, Holding
      <3>3. /\ Finished(job[d]) \in Job /\ Retried(job[d]) \in Job
            /\ Buried(job[d]) \in Job
            /\ Retried(job[d]).state # "completed" /\ Buried(job[d]).state # "completed"
        <4>1. job[d] \in Job
          BY <1>0, <3>1 DEF TypeOK
        <4>2. /\ Finished(job[d]) \in Job /\ Retried(job[d]) \in Job
              /\ Buried(job[d]) \in Job
          BY <4>1, JobOperators
        <4>3. Retried(job[d]).state # "completed" /\ Buried(job[d]).state # "completed"
          BY <4>1, OperatorStates
        <4> QED
          BY <4>2, <4>3
      <3>4. PICK k \in Job : /\ JobEnds(w, k)
                             /\ k.state = "completed" => status[d] = "COMPLETED"
        BY <2>5, <3>2, <3>3 DEF Resolve
      <3> QED
        BY <1>0, <3>1, <3>2, <3>4, SettleEnds DEF eventVars, Settled
    <2>6. CASE ReleaseForRetry(w) \/ FailClaimed(w) \/ Complete(w)
      <3> DEFINE d == wjob[w]
      <3>1. wpc[w] \in Holding /\ wpc[w] # "idle" /\ d \in Deliveries
        BY <1>0, <2>6 DEF ReleaseForRetry, FailClaimed, Complete, Holding, TypeOK
      <3>2. /\ Finished(job[d]) \in Job /\ Retried(job[d]) \in Job
            /\ Buried(job[d]) \in Job
            /\ Retried(job[d]).state # "completed" /\ Buried(job[d]).state # "completed"
        <4>1. job[d] \in Job
          BY <1>0, <3>1 DEF TypeOK
        <4>2. /\ Finished(job[d]) \in Job /\ Retried(job[d]) \in Job
              /\ Buried(job[d]) \in Job
          BY <4>1, JobOperators
        <4>3. Retried(job[d]).state # "completed" /\ Buried(job[d]).state # "completed"
          BY <4>1, OperatorStates
        <4> QED
          BY <4>2, <4>3
      <3>3. PICK s \in {"QUEUED", "FAILED", "COMPLETED"}, k \in Job :
               /\ SetIfFenced(w, s) /\ JobEnds(w, k)
               /\ k.state = "completed" => s = "COMPLETED" /\ Fenced(w)
        BY <2>6, <3>2 DEF ReleaseForRetry, FailClaimed, Complete
      <3>4. status'[d] # "PROCESSING"
        BY <1>0, <3>1, <3>3 DEF SettleInv, HolderInv, SetIfFenced, TypeOK
      <3>5. k.state = "completed" => status'[d] \in Settled
        BY <1>0, <3>1, <3>3 DEF SetIfFenced, Settled, TypeOK
      <3>6. /\ lapsed' = lapsed
            /\ \A e \in Deliveries :
                  e # d => status'[e] = status[e] /\ startedAt'[e] = startedAt[e]
        BY <1>0, <3>1, <3>3 DEF SetIfFenced, TypeOK
      <3> QED
        BY <1>0, <1>1, <3>1, <3>3, <3>4, <3>5, <3>6, SettleEnds
    <2> QED
      BY <1>3, <2>1, <2>2, <2>3, <2>4, <2>5, <2>6 DEF WorkerRuns
  <1>4. ASSUME NEW w \in Workers, WorkerBreaks(w)
        PROVE  SettleInv'
    <2>1. ~(dbFaults < MaxDbFaults)
      BY <1>0 DEF TypeOK
    <2>2. Crash(w)
      BY <1>4, <2>1 DEF WorkerBreaks, DbFault, MarkFailedFault
    <2>3. /\ UNCHANGED <<eventVars, job>>
          /\ \A v \in Workers : wpc'[v] # "idle" =>
                wpc'[v] = wpc[v] /\ wjob'[v] = wjob[v] /\ wclaim'[v] = wclaim[v]
      BY <1>0, <2>2 DEF Crash, TypeOK
    <2>4. LockInv'
      BY <2>3 DEF SettleInv, LockInv
    <2>5. HolderInv'
      BY <2>3 DEF SettleInv, HolderInv, Fenced, Holding, eventVars
    <2>6. LiveJobInv' /\ CompletedJobSettled'
      BY <2>3 DEF SettleInv, LiveJobInv, LiveClaim, CompletedJobSettled, eventVars
    <2> QED
      BY <1>0, <2>4, <2>5, <2>6 DEF SettleInv
  <1>5. ASSUME NEW w \in Workers, NEW d \in Deliveries, MarkFailed(w, d)
        PROVE  SettleInv'
    BY <1>0, <1>1, <1>5, SettleFrame DEF MarkFailed, workerVars, TypeOK
  <1>6. ASSUME NEW d \in Deliveries, Stall(d) \/ EnforceRetention(d)
        PROVE  SettleInv'
    <2>1. Stalled(job[d]).state = "waiting" /\ Forgotten(job[d]).state = "removed"
      BY <1>0, OperatorStates DEF TypeOK
    <2>2. ~LiveClaim(d) /\ \A w \in Workers : wpc[w] # "idle" => wjob[w] # d
      <3>1. CASE Stall(d)
        BY <1>0, <3>1 DEF Stall, SettleInv, LockInv
      <3>2. CASE EnforceRetention(d)
        BY <1>0, <3>2, OneWorker DEF EnforceRetention, SettleInv, LiveJobInv
      <3> QED
        BY <1>6, <3>1, <3>2
    <2>3. /\ UNCHANGED <<eventVars, workerVars>>
          /\ \A e \in Deliveries : \/ job'[e] = job[e]
                                   \/ e = d /\ job'[e].state # "completed"
      BY <1>0, <1>6, <2>1 DEF Stall, EnforceRetention, TypeOK
    <2> QED
      BY <1>0, <2>2, <2>3, SettleFrame DEF eventVars, TypeOK
  <1>7. ASSUME NEW d \in Deliveries, LeaseLapses(d)
        PROVE  SettleInv'
    BY <1>0, <1>7, SettleFrame DEF LeaseLapses, queueVars, TypeOK
  <1>8. CASE Disconnect
    BY <1>0, <1>1, <1>8, SettleFrame DEF Disconnect, queueVars, TypeOK
  <1>9. CASE UNCHANGED vars
    BY <1>0, <1>9, SettleFrame DEF vars, eventVars, queueVars, TypeOK
  <1> QED
    BY <1>2, <1>3, <1>4, <1>5, <1>6, <1>7, <1>8, <1>9
    DEF Next, ListenerRuns, Environment

\* While locks hold and database calls succeed, no job completes before its event
\* is settled, for any number of workers, crashes, attempts and stalls.
THEOREM CompletionsSettle ==
    ASSUME LocksHold, MaxDbFaults = 0
    PROVE  Spec => []CompletedJobSettled
  <1>1. Init => SettleInv
    BY TypeInit
    DEF Init, SettleInv, LockInv, HolderInv, LiveJobInv, LiveClaim,
        CompletedJobSettled, Holding, UnknownJob
  <1>2. SettleInv => CompletedJobSettled
    BY DEF SettleInv
  <1>3. SettleInv /\ [Next]_vars => SettleInv'
    BY SettleNext
  <1> QED
    BY <1>1, <1>2, <1>3, PTL DEF Spec

-----------------------------------------------------------------------------
(* Jobs that fail.  A job has an event, and a failed one whose event is    *)
(* open still has its listener, unless a process dies or the listener's    *)
(* database call fails.                                                    *)

BuriedInv ==
    /\ PublishedInv
    /\ \A d \in Deliveries : job[d].state # "absent" => status[d] # "absent"
    /\ FailedJobDeadLettered

\* An event stays, a job is added for an event that is there, and a job that fails
\* brings a listener, which settles the event when it is done.
LEMMA BuriedFrame ==
    ASSUME BuriedInv, PublishedInv', status' \in [Deliveries -> EventStatus],
           \A d \in Deliveries :
              /\ status[d] # "absent" => status'[d] # "absent"
              /\ status[d] \in Settled => status'[d] = status[d]
              /\ job'[d].state # "absent" =>
                    job[d].state # "absent" \/ status[d] # "absent"
              /\ job'[d].state = "failed" =>
                    \/ job[d].state = "failed"
                    \/ \E w \in Workers : <<w, d>> \in listeners'
              /\ \A w \in Workers :
                    <<w, d>> \in listeners =>
                       <<w, d>> \in listeners' \/ status'[d] \notin Open
    PROVE  BuriedInv'
  <1> USE DEF BuriedInv
  <1>1. \A d \in Deliveries : job'[d].state # "absent" => status'[d] # "absent"
    OBVIOUS
  <1>2. FailedJobDeadLettered'
    BY DEF FailedJobDeadLettered, EventStatus, Open, Settled
  <1> QED
    BY <1>1, <1>2

LEMMA BuriedNext ==
    ASSUME MaxCrashes = 0, MaxDbFaults = 0
    PROVE  BuriedInv /\ [Next]_vars => BuriedInv'
  <1> SUFFICES ASSUME BuriedInv, [Next]_vars
               PROVE  BuriedInv'
    OBVIOUS
  <1>0. TypeOK /\ TypeOK' /\ PublishedInv /\ PublishedInv'
    BY PublishedNext DEF BuriedInv, PublishedInv
  <1>1. /\ \A d \in Deliveries : status[d] \in Settled => status'[d] = status[d]
        /\ status' \in [Deliveries -> EventStatus]
    BY <1>0, SettledStep DEF TypeOK
  <1>2. ASSUME \A d \in Deliveries :
                  /\ status[d] # "absent" => status'[d] # "absent"
                  /\ job'[d].state # "absent" =>
                        job[d].state # "absent" \/ status[d] # "absent"
                  /\ job'[d].state = "failed" =>
                        \/ job[d].state = "failed"
                        \/ \E w \in Workers : <<w, d>> \in listeners',
               listeners \subseteq listeners'
        PROVE  BuriedInv'
    BY <1>0, <1>1, <1>2, BuriedFrame
  <1>3. ASSUME NEW r \in Requests, RequestStepOf(r)
        PROVE  BuriedInv'
    <2>1. listeners' = listeners
          /\ \A d \in Deliveries : status[d] # "absent" => status'[d] # "absent"
      BY <1>0, <1>3
      DEF RequestStepOf, ResolveStore, PersistOrFind, Enqueue, MarkQueued,
          RequestFails, eventVars, queueVars, TypeOK
    <2>2. CASE Enqueue(r)
      <3>1. /\ job' = [job EXCEPT ![rfor[r]] = Added(@)] /\ rfor[r] \in Deliveries
            /\ status[rfor[r]] # "absent"
        BY <1>0, <2>2 DEF Enqueue, TypeOK, PublishedInv
      <3>2. Added(job[rfor[r]]).state = "failed" => job[rfor[r]].state = "failed"
        BY <1>0, <3>1, OperatorStates DEF TypeOK
      <3> QED
        BY <1>0, <1>2, <2>1, <3>1, <3>2 DEF TypeOK
    <2>3. CASE job' = job
      BY <1>2, <2>1, <2>3
    <2> QED
      BY <1>3, <2>2, <2>3
      DEF RequestStepOf, ResolveStore, PersistOrFind, MarkQueued, RequestFails, queueVars
  <1>4. ASSUME NEW w \in Workers, wpc[w] # "idle", NEW k, JobEnds(w, k)
        PROVE  /\ listeners \subseteq listeners'
               /\ \A d \in Deliveries :
                     /\ job'[d].state # "absent" => job[d].state # "absent"
                     /\ job'[d].state = "failed" =>
                           \/ job[d].state = "failed"
                           \/ \E v \in Workers : <<v, d>> \in listeners'
    BY <1>0, <1>4 DEF JobEnds, queueVars, PublishedInv, TypeOK
  <1>5. ASSUME NEW w \in Workers, WorkerRuns(w)
        PROVE  BuriedInv'
    <2>1. ASSUME NEW d \in Deliveries, Fetch(w, d)
          PROVE  BuriedInv'
      <3>1. Fetched(job[d], w).state = "active"
        BY <1>0, OperatorStates DEF TypeOK
      <3> QED
        BY <1>0, <1>2, <2>1, <3>1 DEF Fetch, eventVars, TypeOK
    <2>2. ASSUME NEW d \in Deliveries, BuryExhausted(w, d)
          PROVE  BuriedInv'
      BY <1>0, <1>2, <2>2 DEF BuryExhausted, eventVars, TypeOK
    <2>3. CASE Claim(w) \/ Load(w) \/ Project(w) \/ Schedule(w)
      BY <1>0, <1>2, <2>3
      DEF Claim, Load, Project, Schedule, eventVars, queueVars, TypeOK
    <2>4. CASE Resolve(w)
      <3>1. wpc[w] # "idle" /\ UNCHANGED eventVars /\ \E k : JobEnds(w, k)
        BY <2>4 DEF Resolve
      <3> QED
        BY <1>2, <1>4, <3>1 DEF eventVars
    <2>5. CASE ReleaseForRetry(w) \/ FailClaimed(w) \/ Complete(w)
      <3>1. wpc[w] # "idle" /\ \E k : JobEnds(w, k)
        BY <2>5 DEF ReleaseForRetry, FailClaimed, Complete
      <3>2. \E s \in {"QUEUED", "FAILED", "COMPLETED"} : SetIfFenced(w, s)
        BY <2>5 DEF ReleaseForRetry, FailClaimed, Complete
      <3>3. \A d \in Deliveries : status[d] # "absent" => status'[d] # "absent"
        BY <1>0, <3>2 DEF SetIfFenced, TypeOK
      <3> QED
        BY <1>2, <1>4, <3>1, <3>3
    <2> QED
      BY <1>5, <2>1, <2>2, <2>3, <2>4, <2>5 DEF WorkerRuns
  <1>6. ASSUME NEW w \in Workers, WorkerBreaks(w)
        PROVE  FALSE
    <2>1. ~(dbFaults < MaxDbFaults) /\ ~(crashes < MaxCrashes)
      BY <1>0 DEF TypeOK
    <2> QED
      BY <1>6, <2>1 DEF WorkerBreaks, DbFault, Crash, MarkFailedFault
  <1>7. ASSUME NEW w \in Workers, NEW d \in Deliveries, MarkFailed(w, d)
        PROVE  BuriedInv'
    <2>1. \A e \in Deliveries, v \in Workers :
             <<v, e>> \in listeners => <<v, e>> \in listeners' \/ status'[e] \notin Open
      BY <1>0, <1>7 DEF MarkFailed, Open, TypeOK
    <2>2. job' = job
          /\ \A e \in Deliveries : status[e] # "absent" => status'[e] # "absent"
      BY <1>0, <1>7 DEF MarkFailed, TypeOK
    <2> QED
      BY <1>0, <1>1, <2>1, <2>2, BuriedFrame
  <1>8. ASSUME NEW d \in Deliveries, Stall(d) \/ EnforceRetention(d)
        PROVE  BuriedInv'
    <2>1. Stalled(job[d]).state = "waiting" /\ Forgotten(job[d]).state = "removed"
      BY <1>0, OperatorStates DEF TypeOK
    <2> QED
      BY <1>0, <1>2, <1>8, <2>1 DEF Stall, EnforceRetention, eventVars, TypeOK
  <1>9. ASSUME NEW d \in Deliveries, LeaseLapses(d)
        PROVE  BuriedInv'
    BY <1>2, <1>9 DEF LeaseLapses, queueVars
  <1>10. CASE Disconnect
    BY <1>0, <1>2, <1>10 DEF Disconnect, queueVars, TypeOK
  <1>11. CASE UNCHANGED vars
    BY <1>2, <1>11 DEF vars, eventVars, queueVars
  <1> QED
    BY <1>3, <1>5, <1>6, <1>7, <1>8, <1>9, <1>10, <1>11
    DEF Next, ListenerRuns, Environment

\* While no process dies and no database call fails, the event of a job that failed
\* for good is settled or about to be, whatever stalls.
THEOREM FailuresAreDeadLettered ==
    ASSUME MaxCrashes = 0, MaxDbFaults = 0
    PROVE  Spec => []FailedJobDeadLettered
  <1>1. Init => BuriedInv
    BY TypeInit DEF Init, BuriedInv, PublishedInv, FailedJobDeadLettered, UnknownJob
  <1>2. BuriedInv => FailedJobDeadLettered
    BY DEF BuriedInv
  <1>3. BuriedInv /\ [Next]_vars => BuriedInv'
    BY BuriedNext
  <1> QED
    BY <1>1, <1>2, <1>3, PTL DEF Spec
=============================================================================
