-------------------------- MODULE OrderDeliveryProofs --------------------------
(***************************************************************************)
(* Proofs about OrderDelivery, for any number of recipients, events,       *)
(* workers, attempts and faults:                                           *)
(*   - type correctness;                                                   *)
(*   - AtMostOneMessage;                                                   *)
(*   - OrderDelivery implements NotificationPromise.                       *)
(* The two last ones follow from one inductive invariant, DispatchInv: a   *)
(* record has at most one attempt, POST or message at any time, and the    *)
(* states that allow another attempt exclude all three.                    *)
(***************************************************************************)
EXTENDS OrderDelivery, FiniteSetTheorems, TLAPS

-----------------------------------------------------------------------------
(* Type correctness.                                                       *)

\* A job nobody works on is a job.
LEMMA UnknownJobIsJob == \A s \in JobState : UnknownJob(s) \in Job
  BY DEF UnknownJob, Job

\* Every operator of OperationsQueue takes a job to a job.
LEMMA JobOperators ==
    ASSUME NEW j \in Job
    PROVE  /\ Added(j) \in Job
           /\ \A w \in Workers : Fetched(j, w) \in Job
           /\ Finished(j) \in Job /\ Retried(j) \in Job
           /\ Buried(j) \in Job /\ Stalled(j) \in Job /\ Forgotten(j) \in Job
  <1>1. \A s \in JobState : Released(j, s) \in Job
    BY DEF Released, Job
  <1>2. /\ j.attempts + 1 \in Nat /\ j.stalls + 1 \in Nat
        /\ {"waiting", "failed", "completed", "removed"} \subseteq JobState
    BY DEF Job, JobState
  <1>3. /\ Finished(j) \in Job /\ Forgotten(j) \in Job /\ Added(j) \in Job
        /\ \A w \in Workers : Fetched(j, w) \in Job
    BY <1>1, <1>2, UnknownJobIsJob DEF Finished, Forgotten, Added, Fetched, Job,
       JobState
  <1>4. Retried(j) \in Job /\ Buried(j) \in Job /\ Stalled(j) \in Job
    BY <1>1, <1>2 DEF Retried, Buried, Stalled, Job
  <1> QED
    BY <1>3, <1>4

LEMMA TypeInit == Init => TypeOK
  <1>1. UnknownJob("absent") \in Job
    BY UnknownJobIsJob DEF JobState
  <1> QED
    BY <1>1, DeliveryAssumption
    DEF Init, TypeOK, RecordsTypeOK, SchedulersTypeOK, DeliveryState, Final, WorkerStep, Armed, Outcome

LEMMA JobEndsType ==
    ASSUME RecordsTypeOK, NEW w \in Workers, wpc[w] # "idle", NEW j \in Job,
           JobEnds(w, j)
    PROVE  /\ job' \in [Recipients -> Job]
           /\ listeners' \in SUBSET (Workers \X Recipients)
           /\ wpc' \in [Workers -> WorkerStep]
           /\ wjob' \in [Workers -> Recipients \cup {NoRecipient}]
           /\ wclaim' \in [Workers -> Nat]
           /\ \A v \in Workers : wpc'[v] # "idle" => wjob'[v] \in Recipients
  BY DEF RecordsTypeOK, JobEnds, WorkerStep, queueVars

\* Persisting an outcome settles the job and at most the record's state.
LEMMA PersistType ==
    ASSUME RecordsTypeOK, NEW w \in Workers, wpc[w] # "idle", NEW s \in DeliveryState,
           NEW j \in Job, Persist(w, s, j)
    PROVE  RecordsTypeOK'
  <1>1. Retried(job[wjob[w]]) \in Job
    BY JobOperators DEF RecordsTypeOK
  <1>2. PICK k \in Job : JobEnds(w, k)
    BY <1>1 DEF Persist
  <1> QED
    BY <1>2, JobEndsType
    DEF Persist, RecordsTypeOK, policyVars, schedulerVars, botVars

\* What a worker does keeps the types of the records, whatever schedules them.
LEMMA WorkerTypes ==
    ASSUME RecordsTypeOK, NEW w \in Workers, WorkerRuns(w)
    PROVE  RecordsTypeOK'
  <1> USE DEF RecordsTypeOK, policyVars, recordVars, queueVars, schedulerVars,
              workerVars, botVars
  <1>1. ASSUME NEW d \in Recipients, Fetch(w, d) \/ BuryExhausted(w, d)
        PROVE  RecordsTypeOK'
    <2>1. Fetched(job[d], w) \in Job /\ Buried(job[d]) \in Job
      BY JobOperators
    <2> QED
      BY <1>1, <2>1 DEF Fetch, BuryExhausted, WorkerGoes, WorkerStep
  <1>2. CASE Claim(w)
    BY <1>2 DEF Claim, WorkerGoes, WorkerStep, Armed, DeliveryState
  <1>3. ASSUME wpc[w] # "idle"
        PROVE  LET j == job[wjob[w]] IN
               Finished(j) \in Job /\ Retried(j) \in Job /\ Buried(j) \in Job
    BY <1>3, JobOperators
  <1>4. CASE Resolve(w)
    <2>1. CASE state[wjob[w]] = "IN_FLIGHT"
      BY <1>4, <2>1 DEF Resolve, WorkerGoes, WorkerStep
    <2>2. CASE state[wjob[w]] # "IN_FLIGHT"
      <3>1. PICK k \in Job : JobEnds(w, k)
        BY <1>3, <1>4, <2>2 DEF Resolve
      <3> QED
        BY <1>4, <3>1, JobEndsType DEF Resolve
    <2> QED
      BY <2>1, <2>2
  <1>5. CASE Check(w) \/ Recheck(w) \/ Send(w) \/ GiveUp(w)
    BY <1>5 DEF Check, Recheck, Revalidate, Send, GiveUp, WorkerGoes,
                WorkerStep, Armed, Outcome
  <1>8. CASE Prepare(w)
    <2>1. CASE \E holds : Revalidate(w, "prepare", holds, "recheck")
      BY <2>1 DEF Revalidate, WorkerGoes, WorkerStep, Armed, Outcome
    <2>2. CASE /\ wpc[w] = "prepare" /\ JobEnds(w, Retried(job[wjob[w]]))
               /\ UNCHANGED <<policyVars, recordVars, schedulerVars, botVars,
                              faults>>
      <3>1. PICK k \in Job : JobEnds(w, k)
        BY <1>3, <2>2
      <3> QED
        BY <2>2, <3>1, JobEndsType
    <2> QED
      BY <1>8, <2>1, <2>2 DEF Prepare
  <1>6. CASE PersistDelivered(w)
    <2>1. PICK k \in Job : JobEnds(w, k)
      BY <1>3, <1>6 DEF PersistDelivered
    <2> QED
      BY <1>6, <2>1, JobEndsType DEF PersistDelivered, DeliveryState, Final
  <1>7. CASE PersistRetryable(w) \/ PersistTerminal(w) \/ PersistAmbiguous(w)
    <2>1. {"RETRYABLE_FAILURE", "TERMINAL_FAILURE", "AMBIGUOUS"}
             \subseteq DeliveryState
      BY DEF DeliveryState, Final
    <2> QED
      BY <1>3, <1>7, <2>1, PersistType
      DEF PersistRetryable, PersistTerminal, PersistAmbiguous
  <1> QED
    BY <1>1, <1>2, <1>4, <1>5, <1>6, <1>7, <1>8 DEF WorkerRuns

LEMMA FaultTypes ==
    ASSUME RecordsTypeOK, NEW w \in Workers, DbFault(w) \/ Crash(w)
    PROVE  RecordsTypeOK'
  <1> USE DEF RecordsTypeOK, policyVars, recordVars, queueVars, schedulerVars,
              workerVars, botVars
  <1>1. CASE DbFault(w)
    <2>1. PICK k \in Job : JobEnds(w, k)
      BY <1>1, JobOperators DEF DbFault
    <2> QED
      BY <1>1, <2>1, JobEndsType, DeliveryAssumption DEF DbFault
  <1>2. CASE Crash(w)
    BY <1>2, DeliveryAssumption DEF Crash, WorkerStep
  <1> QED
    BY <1>1, <1>2

LEMMA ListenerTypes ==
    ASSUME RecordsTypeOK, ListenerRuns
    PROVE  RecordsTypeOK'
  BY DEF ListenerRuns, MarkFailed, RecordsTypeOK, DeliveryState, Final, policyVars,
         schedulerVars, workerVars, botVars

LEMMA BotTypes ==
    ASSUME RecordsTypeOK, BotRuns
    PROVE  RecordsTypeOK'
  BY DEF BotRuns, BotDelivers, BotRefuses, Answers, RecordsTypeOK, WorkerStep, Outcome,
         policyVars, recordVars, queueVars, schedulerVars

LEMMA EnvironmentTypes ==
    ASSUME RecordsTypeOK, Environment
    PROVE  RecordsTypeOK'
  <1> USE DEF RecordsTypeOK, policyVars, recordVars, queueVars, schedulerVars,
              workerVars, botVars
  <1>1. ASSUME NEW d \in Recipients, Stall(d) \/ EnforceRetention(d)
        PROVE  RecordsTypeOK'
    <2>1. Stalled(job[d]) \in Job /\ Forgotten(job[d]) \in Job
      BY JobOperators
    <2> QED
      BY <1>1, <2>1 DEF Stall, EnforceRetention
  <1>2. CASE EntitlementChanges
    <2>1. entitled' \in BOOLEAN
      BY <1>2, Zenon DEF EntitlementChanges
    <2>2. entitlementChanges' \in 0..MaxEntitlementChanges
      BY <1>2, DeliveryAssumption DEF EntitlementChanges
    <2> QED
      BY <1>2, <2>1, <2>2 DEF EntitlementChanges
  <1>3. CASE AuthorizationLost
    BY <1>3 DEF AuthorizationLost
  <1> QED
    BY <1>1, <1>2, <1>3 DEF Environment

LEMMA TypeNext == TypeOK /\ [Next]_vars => TypeOK'
  <1> SUFFICES ASSUME TypeOK, [Next]_vars
               PROVE  TypeOK'
    OBVIOUS
  <1>1. ASSUME NEW e \in Events, SchedulerRuns(e) \/ ScheduleFails(e)
        PROVE  TypeOK'
    <2> USE DEF TypeOK, RecordsTypeOK, SchedulersTypeOK, policyVars, recordVars,
                queueVars, schedulerVars, workerVars, botVars
    <2>1. CASE Select(e)
      BY <2>1 DEF Select
    <2>2. CASE Upsert(e)
      BY <2>2 DEF Upsert, DeliveryState
    <2>3. CASE EnqueueJob(e)
      <3>1. Added(job[eat[e]]) \in Job
        BY <2>3, JobOperators DEF EnqueueJob
      <3> QED
        BY <2>3, <3>1 DEF EnqueueJob
    <2>4. CASE ScheduleFails(e)
      BY <2>4, DeliveryAssumption DEF ScheduleFails
    <2> QED
      BY <1>1, <2>1, <2>2, <2>3, <2>4 DEF SchedulerRuns
  <1>2. CASE UNCHANGED vars
    BY <1>2 DEF vars, TypeOK, RecordsTypeOK, SchedulersTypeOK, policyVars, recordVars,
            queueVars, schedulerVars, workerVars, botVars
  <1>3. ASSUME UNCHANGED schedulerVars PROVE SchedulersTypeOK'
    BY <1>3 DEF TypeOK, SchedulersTypeOK, schedulerVars
  <1>4. ASSUME NEW w \in Workers, WorkerRuns(w) PROVE UNCHANGED schedulerVars
    BY <1>4
    DEF WorkerRuns, Fetch, BuryExhausted, Claim, Resolve, Check, Prepare, Recheck,
        Revalidate, Send, GiveUp, PersistDelivered, PersistRetryable, PersistTerminal,
        PersistAmbiguous, Persist
  <1>5. ASSUME NEW w \in Workers, DbFault(w) \/ Crash(w) PROVE UNCHANGED schedulerVars
    BY <1>5 DEF DbFault, Crash
  <1>6. CASE ListenerRuns \/ BotRuns \/ Environment
    <2>1. UNCHANGED schedulerVars
      BY <1>6 DEF ListenerRuns, MarkFailed, BotRuns, BotDelivers, BotRefuses, Environment,
                  Stall, EnforceRetention, EntitlementChanges, AuthorizationLost
    <2> QED
      BY <1>3, <1>6, <2>1, ListenerTypes, BotTypes, EnvironmentTypes DEF TypeOK
  <1> QED
    BY <1>1, <1>2, <1>3, <1>4, <1>5, <1>6, WorkerTypes, FaultTypes DEF Next, TypeOK

\* Every variable keeps its type (delivery record, job, worker, POST).
THEOREM TypeCorrect == Spec => []TypeOK
  BY TypeInit, TypeNext, PTL DEF Spec

-----------------------------------------------------------------------------
(* One attempt, one POST, one message.                                     *)

\* w is somewhere between its claim of d and the end of its attempt.
Attempting(w, d) == wpc[w] \in Armed \cup {"await"} \cup Outcome /\ wjob[w] = d

\* d has no message and no POST that could still bring one.
Unsent(d) == messages[d] = 0 /\ \A p \in posts : p[1] # d

OneAttempt ==
    \A d \in Recipients, v, w \in Workers :
        Attempting(v, d) /\ Attempting(w, d) => v = w

\* While an attempt lasts, the only other writer is one that gives it up.
AttemptKeepsRecord ==
    \A d \in Recipients, w \in Workers :
        Attempting(w, d) => state[d] \in {"IN_FLIGHT", "AMBIGUOUS"}

\* What an attempt knows before its POST and after its answer.
AttemptKnows ==
    \A d \in Recipients, w \in Workers :
        /\ Attempting(w, d) /\ wpc[w] \in Armed \cup {"retryable", "terminal"}
              => Unsent(d)
        /\ Attempting(w, d) /\ wpc[w] = "delivered"
              => messages[d] = 1 /\ \A p \in posts : p[1] # d

\* What the record's state says of the message.
StateTells ==
    \A d \in Recipients :
        /\ state[d] \in {"absent", "PENDING", "RETRYABLE_FAILURE",
                         "TERMINAL_FAILURE"} => Unsent(d)
        /\ state[d] = "DELIVERED"
              => messages[d] = 1 /\ \A p \in posts : p[1] # d

OneMessage ==
    \A d \in Recipients :
        /\ messages[d] \in {0, 1}
        /\ \A p, q \in posts : p[1] = d /\ q[1] = d => p = q
        /\ (\E p \in posts : p[1] = d) => messages[d] = 0

DispatchInv ==
    RecordsTypeOK /\ OneAttempt /\ AttemptKeepsRecord /\ AttemptKnows /\ StateTells
        /\ OneMessage

\* A step that starts no attempt, answers none, and leaves the record, its
\* POSTs and its messages alone.
Bystander ==
    /\ UNCHANGED <<state, posts, messages>>
    /\ \A w \in Workers, d \in Recipients :
          Attempting(w, d)' =>
             /\ Attempting(w, d)
             /\ \/ wpc'[w] = wpc[w] \/ wpc'[w] = "ambiguous"
                \/ wpc[w] \in Armed /\ wpc'[w] \in Armed \cup {"terminal"}

LEMMA BystanderKeeps ==
    ASSUME DispatchInv, RecordsTypeOK', Bystander
    PROVE  DispatchInv'
  BY DEF DispatchInv, Bystander, OneAttempt, AttemptKeepsRecord, AttemptKnows,
         StateTells, OneMessage, Unsent, Armed, Outcome, Attempting

LEMMA JobEndsAttempts ==
    ASSUME RecordsTypeOK, NEW w \in Workers, NEW j, JobEnds(w, j)
    PROVE  /\ \A d \in Recipients : ~Attempting(w, d)'
           /\ \A v \in Workers \ {w} : wpc'[v] = wpc[v] /\ wjob'[v] = wjob[v]
  BY DEF JobEnds, Attempting, RecordsTypeOK, Armed, Outcome

\* The outcome of w's attempt, or of an attempt w gives up, is persisted.
LEMMA PersistKeeps ==
    ASSUME DispatchInv, RecordsTypeOK', NEW w \in Workers, wpc[w] # "idle",
           NEW s, NEW j, JobEnds(w, j), UNCHANGED <<posts, messages>>,
           \/ state' = state
           \/ /\ InFlight(wjob[w]) /\ state' = [state EXCEPT ![wjob[w]] = s]
              /\ \/ s = "AMBIGUOUS"
                 \/ wpc[w] = "delivered" /\ s = "DELIVERED"
                 \/ wpc[w] = "retryable" /\ s = "RETRYABLE_FAILURE"
                 \/ wpc[w] = "terminal" /\ s = "TERMINAL_FAILURE"
    PROVE  DispatchInv'
  <1> USE DEF DispatchInv
  <1>1. /\ \A d \in Recipients : ~Attempting(w, d)'
        /\ \A v \in Workers, d \in Recipients :
              Attempting(v, d)' => v # w /\ Attempting(v, d) /\ wpc'[v] = wpc[v]
    BY JobEndsAttempts DEF Attempting
  <1>2. CASE state' = state
    <2>1. Bystander
      BY <1>1, <1>2 DEF Bystander
    <2> QED
      BY <2>1, BystanderKeeps
  <1>3. CASE state' # state
    <2> DEFINE d == wjob[w]
    <2>1. d \in Recipients /\ state' = [state EXCEPT ![d] = s]
      BY <1>3 DEF RecordsTypeOK
    <2>2. OneAttempt' /\ AttemptKnows' /\ OneMessage'
      BY <1>1 DEF OneAttempt, AttemptKnows, OneMessage, Unsent
    <2>3. s # "AMBIGUOUS" => Attempting(w, d)
      BY <1>3 DEF Attempting, Outcome
    <2>4. AttemptKeepsRecord'
      BY <1>1, <2>1, <2>3 DEF AttemptKeepsRecord, OneAttempt, RecordsTypeOK
    <2>5. StateTells'
      BY <1>3, <2>1, <2>3
      DEF StateTells, AttemptKnows, Unsent, RecordsTypeOK, Armed
    <2> QED
      BY <2>2, <2>4, <2>5
  <1> QED
    BY <1>2, <1>3

\* A claim finds neither an attempt nor a POST nor a message of its record.
LEMMA ClaimKeeps ==
    ASSUME DispatchInv, RecordsTypeOK', NEW w \in Workers, Claim(w)
    PROVE  DispatchInv'
  <1> DEFINE d == wjob[w]
  <1> USE DEF DispatchInv
  <1>1. d \in Recipients /\ wpc[w] = "claim"
    BY DEF Claim, RecordsTypeOK
  <1>2. CASE ~Claimable(d)
    <2>1. Bystander
      BY <1>1, <1>2
      DEF Claim, WorkerGoes, Bystander, Attempting, recordVars, botVars, RecordsTypeOK,
          Armed, Outcome
    <2> QED
      BY <2>1, BystanderKeeps
  <1>3. CASE Claimable(d)
    <2>1. /\ state' = [state EXCEPT ![d] = "IN_FLIGHT"]
          /\ wpc' = [wpc EXCEPT ![w] = "check"] /\ wjob' = wjob
          /\ posts' = posts /\ messages' = messages
      BY <1>3 DEF Claim, WorkerGoes, botVars
    <2>2. Unsent(d) /\ \A v \in Workers : ~Attempting(v, d)
      BY <1>1, <1>3 DEF Claimable, StateTells, AttemptKeepsRecord
    <2>3. \A v \in Workers, e \in Recipients :
             Attempting(v, e)' => /\ v = w => e = d /\ wpc'[v] = "check"
                                  /\ v # w => Attempting(v, e) /\ wpc'[v] = wpc[v]
      BY <1>1, <2>1 DEF Attempting, RecordsTypeOK
    <2>4. OneAttempt'
      BY <2>2, <2>3 DEF OneAttempt
    <2>5. AttemptKeepsRecord'
      BY <1>1, <2>1, <2>3 DEF AttemptKeepsRecord, RecordsTypeOK
    <2>6. AttemptKnows'
      BY <2>1, <2>2, <2>3 DEF AttemptKnows, Unsent, Armed
    <2>7. StateTells' /\ OneMessage'
      BY <2>1 DEF StateTells, OneMessage, Unsent, RecordsTypeOK
    <2> QED
      BY <2>4, <2>5, <2>6, <2>7
  <1> QED
    BY <1>2, <1>3

\* The POST of an attempt is the only one of its record.
LEMMA SendKeeps ==
    ASSUME DispatchInv, RecordsTypeOK', NEW w \in Workers, Send(w)
    PROVE  DispatchInv'
  <1> DEFINE d == wjob[w]
             p == <<d, wclaim[w]>>
  <1> USE DEF DispatchInv
  <1>1. /\ d \in Recipients /\ Attempting(w, d) /\ Unsent(d)
        /\ state[d] \in {"IN_FLIGHT", "AMBIGUOUS"}
    BY DEF Send, RecordsTypeOK, Attempting, AttemptKnows, AttemptKeepsRecord, Armed
  <1>2. /\ posts' = posts \cup {p} /\ p[1] = d
        /\ wpc' = [wpc EXCEPT ![w] = "await"] /\ wjob' = wjob
        /\ state' = state /\ messages' = messages
    BY DEF Send, WorkerGoes, recordVars
  <1>3. \A v \in Workers, e \in Recipients :
           Attempting(v, e)' => Attempting(v, e) /\
              (IF v = w THEN wpc'[v] = "await" ELSE wpc'[v] = wpc[v])
    BY <1>1, <1>2 DEF Attempting, RecordsTypeOK
  <1>4. OneAttempt' /\ AttemptKeepsRecord'
    BY <1>2, <1>3 DEF OneAttempt, AttemptKeepsRecord
  <1>5. AttemptKnows'
    BY <1>1, <1>2, <1>3 DEF AttemptKnows, OneAttempt, Unsent, Armed
  <1>6. StateTells'
    BY <1>1, <1>2 DEF StateTells, Unsent
  <1>7. OneMessage'
    BY <1>1, <1>2 DEF OneMessage, Unsent
  <1> QED
    BY <1>4, <1>5, <1>6, <1>7

\* The bot acts on a POST: its record has no message yet and no other POST.
LEMMA BotKeeps ==
    ASSUME DispatchInv, RecordsTypeOK', BotRuns
    PROVE  DispatchInv'
  <1>1. PICK p \in posts : BotDelivers(p) \/ BotRefuses(p)
    BY DEF BotRuns
  <1> DEFINE d == p[1]
  <1> USE DEF DispatchInv
  <1>2. /\ d \in Recipients /\ messages[d] = 0
        /\ \A q \in posts \ {p} : q[1] # d
    BY DEF RecordsTypeOK, OneMessage
  <1>3. /\ posts' = posts \ {p} /\ state' = state /\ wjob' = wjob
        /\ \A e \in Recipients : e # d => messages'[e] = messages[e]
        /\ \/ BotDelivers(p) /\ messages'[d] = 1
           \/ BotRefuses(p) /\ messages'[d] = 0
    BY <1>1, <1>2 DEF BotDelivers, BotRefuses, recordVars, RecordsTypeOK
  <1>4. \A v \in Workers, e \in Recipients :
           Attempting(v, e)' => /\ Attempting(v, e)
                                /\ \/ wpc'[v] = wpc[v]
                                   \/ e = d /\ wpc'[v] \in Outcome
    BY <1>1, <1>2 DEF BotDelivers, BotRefuses, Answers, Attempting, RecordsTypeOK, Outcome
  <1>5. \A v \in Workers :
           Attempting(v, d)' =>
              /\ wpc'[v] = "delivered" => BotDelivers(p)
              /\ wpc'[v] \in Armed \cup {"retryable", "terminal"} => BotRefuses(p)
    <2>1. \A v \in Workers : Attempting(v, d) =>
             wpc[v] \notin Armed \cup {"retryable", "terminal", "delivered"}
      BY <1>2 DEF AttemptKnows, Unsent
    <2> QED
      BY <1>1, <1>2, <1>4, <2>1
      DEF BotDelivers, BotRefuses, Answers, Attempting, RecordsTypeOK, Outcome, Armed
  <1>6. OneAttempt' /\ AttemptKeepsRecord'
    BY <1>3, <1>4 DEF OneAttempt, AttemptKeepsRecord
  <1>7. state[d] \in {"IN_FLIGHT", "AMBIGUOUS"}
    BY <1>2 DEF StateTells, Unsent, RecordsTypeOK, DeliveryState, Final
  <1>8. BotDelivers(p) => ~BotRefuses(p)
    BY <1>2 DEF BotDelivers, BotRefuses, RecordsTypeOK
  <1>9. \A e \in Recipients : e # d =>
           /\ messages'[e] = messages[e] /\ (Unsent(e) => Unsent(e)')
           /\ (\A q \in posts : q[1] # e) => \A q \in posts' : q[1] # e
    BY <1>3 DEF Unsent
  <1>10. /\ \A q \in posts' : q[1] # d
         /\ BotRefuses(p) => Unsent(d)'
         /\ BotDelivers(p) => messages'[d] = 1
    BY <1>2, <1>3, <1>8 DEF Unsent
  <1>11. AttemptKnows'
    BY <1>4, <1>5, <1>9, <1>10 DEF AttemptKnows, Outcome
  <1>12. StateTells'
    BY <1>3, <1>7, <1>9 DEF StateTells
  <1>13. OneMessage'
    BY <1>2, <1>3 DEF OneMessage
  <1> QED
    BY <1>6, <1>11, <1>12, <1>13

\* Records are made: one, or all that are new.
LEMMA RecordedKeeps ==
    ASSUME DispatchInv, RecordsTypeOK', NEW new \in SUBSET Recipients,
           \A d \in new : state[d] = "absent",
           state' = [d \in Recipients |-> IF d \in new THEN "PENDING" ELSE state[d]],
           UNCHANGED <<wpc, wjob, posts, messages>>
    PROVE  DispatchInv'
  <1>1. \A w \in Workers, d \in Recipients :
           Attempting(w, d)' => Attempting(w, d) /\ d \notin new
    BY DEF DispatchInv, AttemptKeepsRecord, Attempting
  <1>2. OneAttempt' /\ AttemptKeepsRecord' /\ AttemptKnows' /\ OneMessage'
    BY <1>1 DEF DispatchInv, OneAttempt, AttemptKeepsRecord, AttemptKnows, OneMessage,
                Unsent
  <1>3. StateTells'
    BY DEF DispatchInv, StateTells, Unsent
  <1> QED
    BY <1>2, <1>3 DEF DispatchInv

\* A record is dead-lettered in passing.
LEMMA DeadLetterKeeps ==
    ASSUME DispatchInv, RecordsTypeOK', NEW d \in Recipients,
           state[d] = "RETRYABLE_FAILURE",
           state' = [state EXCEPT ![d] = "TERMINAL_FAILURE"],
           UNCHANGED <<wpc, wjob, posts, messages>>
    PROVE  DispatchInv'
  BY DEF DispatchInv, OneAttempt, AttemptKeepsRecord, AttemptKnows, StateTells,
         OneMessage, Unsent, Attempting, RecordsTypeOK

LEMMA NothingKeeps ==
    ASSUME DispatchInv, RecordsTypeOK', UNCHANGED <<state, posts, messages, wpc, wjob>>
    PROVE  DispatchInv'
  <1>1. Bystander
    BY DEF Bystander, Attempting
  <1> QED
    BY <1>1, BystanderKeeps

\* What a worker does keeps one attempt, one POST and one message per record.
LEMMA WorkerKeeps ==
    ASSUME DispatchInv, NEW w \in Workers, WorkerRuns(w)
    PROVE  DispatchInv'
  <1>0. RecordsTypeOK /\ RecordsTypeOK'
    BY WorkerTypes DEF DispatchInv
  <1>1. ASSUME NEW d \in Recipients, Fetch(w, d) \/ BuryExhausted(w, d)
        PROVE  DispatchInv'
    <2>1. Bystander
      BY <1>0, <1>1
      DEF Fetch, BuryExhausted, WorkerGoes, Bystander, Attempting, recordVars,
          workerVars, botVars, RecordsTypeOK, Armed, Outcome
    <2> QED
      BY <1>0, <2>1, BystanderKeeps
  <1>2. CASE Resolve(w)
    <2>1. CASE InFlight(wjob[w])
      <3>1. Bystander
        BY <1>0, <1>2, <2>1
        DEF Resolve, InFlight, WorkerGoes, Bystander, Attempting, recordVars,
            botVars, RecordsTypeOK, Armed, Outcome
      <3> QED
        BY <1>0, <3>1, BystanderKeeps
    <2>2. CASE ~InFlight(wjob[w])
      BY <1>0, <1>2, <2>2, PersistKeeps
      DEF Resolve, InFlight, recordVars, botVars
    <2> QED
      BY <2>1, <2>2
  <1>3. CASE Check(w) \/ Prepare(w) \/ Recheck(w) \/ GiveUp(w)
    <2>1. Bystander
      BY <1>0, <1>3
      DEF Check, Prepare, Recheck, GiveUp, Revalidate, WorkerGoes, JobEnds,
          Bystander, Attempting, recordVars, botVars, RecordsTypeOK, Armed, Outcome
    <2> QED
      BY <1>0, <2>1, BystanderKeeps
  <1>4. CASE \/ PersistDelivered(w) \/ PersistRetryable(w)
             \/ PersistTerminal(w) \/ PersistAmbiguous(w)
    <2>1. wpc[w] # "idle" /\ UNCHANGED <<posts, messages>>
          /\ \E j : JobEnds(w, j)
      BY <1>4
      DEF PersistDelivered, PersistRetryable, PersistTerminal,
          PersistAmbiguous, Persist, botVars
    <2>2. \/ state' = state
          \/ \E s :
              /\ InFlight(wjob[w]) /\ state' = [state EXCEPT ![wjob[w]] = s]
              /\ \/ s = "AMBIGUOUS"
                 \/ wpc[w] = "delivered" /\ s = "DELIVERED"
                 \/ wpc[w] = "retryable" /\ s = "RETRYABLE_FAILURE"
                 \/ wpc[w] = "terminal" /\ s = "TERMINAL_FAILURE"
      BY <1>4
      DEF PersistDelivered, PersistRetryable, PersistTerminal,
          PersistAmbiguous, Persist
    <2> QED
      BY <1>0, <2>1, <2>2, PersistKeeps
  <1> QED
    BY <1>0, <1>1, <1>2, <1>3, <1>4, ClaimKeeps, SendKeeps DEF WorkerRuns

LEMMA FaultKeeps ==
    ASSUME DispatchInv, NEW w \in Workers, DbFault(w) \/ Crash(w)
    PROVE  DispatchInv'
  <1>0. RecordsTypeOK /\ RecordsTypeOK'
    BY FaultTypes DEF DispatchInv
  <1>1. Bystander
    BY <1>0
    DEF DbFault, Crash, JobEnds, Bystander, Attempting, recordVars, botVars,
        RecordsTypeOK, Armed, Outcome
  <1> QED
    BY <1>0, <1>1, BystanderKeeps

LEMMA ListenerKeeps ==
    ASSUME DispatchInv, ListenerRuns
    PROVE  DispatchInv'
  <1>0. RecordsTypeOK /\ RecordsTypeOK'
    BY ListenerTypes DEF DispatchInv
  <1>1. CASE state' = state
    BY <1>0, <1>1, NothingKeeps DEF ListenerRuns, MarkFailed, workerVars, botVars
  <1>2. CASE state' # state
    BY <1>0, <1>2, DeadLetterKeeps DEF ListenerRuns, MarkFailed, workerVars, botVars
  <1> QED
    BY <1>1, <1>2

LEMMA EnvironmentKeeps ==
    ASSUME DispatchInv, Environment
    PROVE  DispatchInv'
  <1>0. RecordsTypeOK'
    BY EnvironmentTypes DEF DispatchInv
  <1> QED
    BY <1>0, NothingKeeps
    DEF Environment, Stall, EnforceRetention, EntitlementChanges, AuthorizationLost,
        recordVars, workerVars, botVars

LEMMA DispatchNext == TypeOK /\ DispatchInv /\ [Next]_vars => DispatchInv'
  <1> SUFFICES ASSUME TypeOK, DispatchInv, [Next]_vars
               PROVE  DispatchInv'
    OBVIOUS
  <1>0. RecordsTypeOK /\ RecordsTypeOK'
    BY TypeNext DEF TypeOK
  <1>1. ASSUME UNCHANGED <<state, posts, messages, wpc, wjob>>
        PROVE  DispatchInv'
    BY <1>0, <1>1, NothingKeeps
  <1>2. ASSUME NEW e \in Events, SchedulerRuns(e) \/ ScheduleFails(e)
        PROVE  DispatchInv'
    <2>1. CASE Upsert(e)
      <3>1. CASE state' = state
        BY <1>1, <2>1, <3>1 DEF Upsert, workerVars, botVars
      <3>2. CASE state' # state
        <4>1. PICK d \in Recipients : /\ state[d] = "absent"
                                      /\ state' = [state EXCEPT ![d] = "PENDING"]
          BY <1>0, <2>1, <3>2 DEF Upsert, RecordsTypeOK
        <4>2. state' = [r \in Recipients |-> IF r \in {d} THEN "PENDING" ELSE state[r]]
          BY <1>0, <4>1 DEF RecordsTypeOK
        <4> QED
          BY <1>0, <2>1, <4>1, <4>2, RecordedKeeps DEF Upsert, workerVars, botVars
      <3> QED
        BY <3>1, <3>2
    <2>2. CASE Select(e) \/ EnqueueJob(e) \/ ScheduleFails(e)
      BY <1>1, <2>2
      DEF Select, EnqueueJob, ScheduleFails, recordVars, workerVars, botVars
    <2> QED
      BY <1>2, <2>1, <2>2 DEF SchedulerRuns
  <1>3. CASE BotRuns
    BY <1>0, <1>3, BotKeeps
  <1>4. CASE UNCHANGED vars
    BY <1>1, <1>4 DEF vars, recordVars, workerVars, botVars
  <1> QED
    BY <1>2, <1>3, <1>4, WorkerKeeps, FaultKeeps, ListenerKeeps, EnvironmentKeeps DEF Next

LEMMA DispatchInit == Init => DispatchInv
  BY TypeInit
  DEF Init, TypeOK, DispatchInv, OneAttempt, AttemptKeepsRecord, AttemptKnows,
      StateTells, OneMessage, Unsent, Attempting, Armed, Outcome

THEOREM DispatchAlways == Spec => []DispatchInv
  BY DispatchInit, DispatchNext, TypeCorrect, PTL DEF Spec

LEMMA AtMostOne == DispatchInv => AtMostOneMessage
  <1> SUFFICES ASSUME DispatchInv, NEW d \in Recipients
               PROVE  messages[d] + Cardinality({p \in posts : p[1] = d}) <= 1
    BY DEF AtMostOneMessage
  <1> DEFINE S == {p \in posts : p[1] = d}
  <1>1. CASE S = {}
    BY <1>1, FS_EmptySet DEF DispatchInv, OneMessage
  <1>2. CASE S # {}
    <2>1. PICK p \in S : S = {p}
      BY <1>2 DEF DispatchInv, OneMessage
    <2>2. Cardinality(S) = 1
      BY <2>1, FS_Singleton
    <2>3. messages[d] = 0
      BY <2>1 DEF DispatchInv, OneMessage
    <2> QED
      BY <2>2, <2>3
  <1> QED
    BY <1>1, <1>2

\* No recipient gets an Order's message twice, for any number of workers and
\* events, and however late a POST takes effect.
THEOREM MessagesAtMostOnce == Spec => []AtMostOneMessage
  BY AtMostOne, DispatchAlways, PTL

-----------------------------------------------------------------------------
(* OrderDelivery implements NotificationPromise.                           *)

\* The verdict of each state, without the CASE of VerdictOf.
LEMMA Verdicts ==
    ASSUME RecordsTypeOK
    PROVE  /\ VerdictOf \in [Recipients -> Promise!Verdict]
           /\ \A d \in Recipients :
                 /\ state[d] = "absent" => VerdictOf[d] = "none"
                 /\ state[d] \in {"PENDING", "IN_FLIGHT", "RETRYABLE_FAILURE"}
                       => VerdictOf[d] = "undecided"
                 /\ state[d] = "DELIVERED" => VerdictOf[d] = "delivered"
                 /\ state[d] = "TERMINAL_FAILURE" => VerdictOf[d] = "failed"
                 /\ state[d] = "AMBIGUOUS" => VerdictOf[d] = "unknown"
  BY DEF VerdictOf, Promise!Verdict, RecordsTypeOK, DeliveryState, Final

\* Records are made.
LEMMA RecordedStep ==
    ASSUME RecordsTypeOK, NEW new \in SUBSET Recipients,
           \A d \in new : state[d] = "absent",
           state' = [d \in Recipients |-> IF d \in new THEN "PENDING" ELSE state[d]],
           messages' = messages
    PROVE  [Promise!PromiseNext]_(Promise!promiseVars)
  <1>1. \A d \in new : VerdictOf[d] = "none"
    BY Verdicts
  <1>2. VerdictOf' = [d \in Recipients |-> IF d \in new THEN "undecided"
                                                     ELSE VerdictOf[d]]
    BY DEF VerdictOf
  <1> QED
    BY <1>1, <1>2 DEF Promise!PromiseNext, Promise!Record

\* A record whose state changes by itself concludes, or the change is none to the
\* promise.
LEMMA StateStep ==
    ASSUME DispatchInv, RecordsTypeOK', NEW d \in Recipients, NEW s,
           state' = [state EXCEPT ![d] = s], messages' = messages,
           \/ state[d] \in {"PENDING", "RETRYABLE_FAILURE"} /\ s = "IN_FLIGHT"
           \/ state[d] = "IN_FLIGHT" /\ s \in {"RETRYABLE_FAILURE", "AMBIGUOUS"}
           \/ state[d] \in {"IN_FLIGHT", "RETRYABLE_FAILURE"}
                 /\ s = "TERMINAL_FAILURE" /\ messages[d] = 0
           \/ state[d] = "IN_FLIGHT" /\ s = "DELIVERED" /\ messages[d] = 1
    PROVE  [Promise!PromiseNext]_(Promise!promiseVars)
  <1> DEFINE V == VerdictOf
  <1>0. RecordsTypeOK
    BY DEF DispatchInv
  <1>1. /\ state'[d] = s
        /\ \A e \in Recipients : e # d => state'[e] = state[e]
    BY <1>0 DEF RecordsTypeOK
  <1>2. \A e \in Recipients : e # d => V'[e] = V[e]
    BY <1>1 DEF VerdictOf
  <1>3. /\ V \in [Recipients -> Promise!Verdict]
        /\ V' \in [Recipients -> Promise!Verdict]
        /\ V'[d] = (IF s \in {"IN_FLIGHT", "RETRYABLE_FAILURE"}
                    THEN "undecided"
                    ELSE IF s = "DELIVERED" THEN "delivered"
                    ELSE IF s = "TERMINAL_FAILURE" THEN "failed"
                    ELSE "unknown")
        /\ V[d] = "undecided"
    BY <1>1 DEF VerdictOf, Promise!Verdict, RecordsTypeOK, DeliveryState, Final,
                DispatchInv
  <1>4. V' = [V EXCEPT ![d] = V'[d]]
    BY <1>2, <1>3
  <1>5. CASE V'[d] = "undecided"
    <2>1. V' = V
      BY <1>3, <1>4, <1>5
    <2> QED
      BY <2>1 DEF Promise!promiseVars
  <1>6. CASE V'[d] # "undecided"
    <2>1. V'[d] \in {"delivered", "failed", "unknown"}
      BY <1>3, <1>6
    <2>2. Promise!Conclude(d, V'[d])
      BY <1>3, <1>4, <1>6 DEF Promise!Conclude
    <2> QED
      BY <2>1, <2>2 DEF Promise!PromiseNext
  <1> QED
    BY <1>5, <1>6

\* A step of no record and no message is none of the promise.
LEMMA NothingStep ==
    ASSUME UNCHANGED <<state, messages>>
    PROVE  [Promise!PromiseNext]_(Promise!promiseVars)
  BY DEF VerdictOf, Promise!promiseVars

\* What a worker does is a step of the promise, or none.
LEMMA WorkerStepIsPromised ==
    ASSUME DispatchInv, RecordsTypeOK', NEW w \in Workers, WorkerRuns(w)
    PROVE  [Promise!PromiseNext]_(Promise!promiseVars)
  <1>0. RecordsTypeOK /\ RecordsTypeOK'
    BY DEF DispatchInv
  <1>1. ASSUME UNCHANGED <<state, messages>>
        PROVE  [Promise!PromiseNext]_(Promise!promiseVars)
    BY <1>1, NothingStep
  <1>2. CASE Claim(w) /\ Claimable(wjob[w])
    <2>1. /\ wjob[w] \in Recipients
          /\ state' = [state EXCEPT ![wjob[w]] = "IN_FLIGHT"]
          /\ messages' = messages
      BY <1>0, <1>2 DEF Claim, RecordsTypeOK, botVars
    <2> QED
      BY <1>0, <1>2, <2>1, StateStep DEF Claimable
  <1>3. ASSUME wpc[w] \in Outcome \cup {"orphan"}, NEW s, messages' = messages,
               \/ UNCHANGED state
               \/ /\ InFlight(wjob[w])
                  /\ state' = [state EXCEPT ![wjob[w]] = s],
               \/ s = "AMBIGUOUS"
               \/ wpc[w] = "delivered" /\ s = "DELIVERED"
               \/ wpc[w] = "retryable" /\ s = "RETRYABLE_FAILURE"
               \/ wpc[w] = "terminal" /\ s = "TERMINAL_FAILURE"
        PROVE  [Promise!PromiseNext]_(Promise!promiseVars)
    <2>1. wjob[w] \in Recipients
      BY <1>0, <1>3 DEF RecordsTypeOK, Outcome
    <2>2. /\ wpc[w] = "terminal" => messages[wjob[w]] = 0
          /\ wpc[w] = "delivered" => messages[wjob[w]] = 1
      BY <2>1 DEF DispatchInv, AttemptKnows, Attempting, Unsent, Outcome
    <2>3. CASE UNCHANGED state
      BY <1>1, <1>3, <2>3
    <2>4. CASE state' # state
      BY <1>0, <1>3, <2>1, <2>2, <2>4, StateStep DEF InFlight
    <2> QED
      BY <2>3, <2>4
  <1>4. CASE PersistDelivered(w)
    <2>1. /\ wpc[w] = "delivered" /\ messages' = messages
          /\ \/ UNCHANGED state
             \/ /\ InFlight(wjob[w])
                /\ state' = [state EXCEPT ![wjob[w]] = "DELIVERED"]
      BY <1>4 DEF PersistDelivered, botVars
    <2> QED
      BY <1>3, <2>1 DEF Outcome
  <1>5. CASE PersistRetryable(w)
    <2>1. /\ wpc[w] = "retryable" /\ messages' = messages
          /\ \/ UNCHANGED state
             \/ /\ InFlight(wjob[w])
                /\ state' = [state EXCEPT ![wjob[w]] = "RETRYABLE_FAILURE"]
      BY <1>5 DEF PersistRetryable, Persist, botVars
    <2> QED
      BY <1>3, <2>1 DEF Outcome
  <1>6. CASE PersistTerminal(w)
    <2>1. /\ wpc[w] = "terminal" /\ messages' = messages
          /\ \/ UNCHANGED state
             \/ /\ InFlight(wjob[w])
                /\ state' = [state EXCEPT ![wjob[w]] = "TERMINAL_FAILURE"]
      BY <1>6 DEF PersistTerminal, Persist, botVars
    <2> QED
      BY <1>3, <2>1 DEF Outcome
  <1>7. CASE PersistAmbiguous(w)
    <2>1. /\ wpc[w] \in {"ambiguous", "orphan"} /\ messages' = messages
          /\ \/ UNCHANGED state
             \/ /\ InFlight(wjob[w])
                /\ state' = [state EXCEPT ![wjob[w]] = "AMBIGUOUS"]
      BY <1>7 DEF PersistAmbiguous, Persist, botVars
    <2> QED
      BY <1>3, <2>1 DEF Outcome
  <1>8. CASE UNCHANGED <<state, messages>>
    BY <1>1, <1>8
  <1>9. \/ Claim(w) /\ Claimable(wjob[w])
        \/ PersistDelivered(w) \/ PersistRetryable(w)
        \/ PersistTerminal(w) \/ PersistAmbiguous(w)
        \/ UNCHANGED <<state, messages>>
    BY DEF WorkerRuns, Fetch, BuryExhausted, Claim, Resolve, Check, Prepare,
        Recheck, Revalidate, Send, GiveUp, recordVars, botVars
  <1> QED
    BY <1>2, <1>4, <1>5, <1>6, <1>7, <1>8, <1>9

\* What the bot does is: the message arrives, or nothing happens.
LEMMA BotStepIsPromised ==
    ASSUME DispatchInv, RecordsTypeOK', BotRuns
    PROVE  [Promise!PromiseNext]_(Promise!promiseVars)
  <1>0. RecordsTypeOK /\ RecordsTypeOK'
    BY DEF DispatchInv
  <1>1. ASSUME UNCHANGED <<state, messages>>
        PROVE  [Promise!PromiseNext]_(Promise!promiseVars)
    BY <1>1, NothingStep
  <1>2. PICK p \in posts : BotDelivers(p) \/ BotRefuses(p)
    BY DEF BotRuns
  <1>3. CASE BotRefuses(p)
    BY <1>1, <1>3 DEF BotRefuses, recordVars
  <1>4. CASE BotDelivers(p)
    <2>1. /\ p[1] \in Recipients /\ messages[p[1]] = 0
          /\ state[p[1]] \in {"IN_FLIGHT", "AMBIGUOUS"}
      BY <1>0 DEF DispatchInv, OneMessage, StateTells, Unsent, RecordsTypeOK,
                  DeliveryState, Final
    <2>2. VerdictOf[p[1]] \in {"undecided", "unknown"} /\ VerdictOf' = VerdictOf
      BY <1>0, <1>4, <2>1, Verdicts DEF BotDelivers, recordVars, VerdictOf
    <2>3. messages' = [messages EXCEPT ![p[1]] = 1]
      BY <1>0, <1>4, <2>1 DEF BotDelivers, RecordsTypeOK
    <2> QED
      BY <2>1, <2>2, <2>3 DEF Promise!PromiseNext, Promise!Arrive
  <1> QED
    BY <1>2, <1>3, <1>4

\* The listener's verdict: the record's attempts are over, without a message.
LEMMA ListenerStepIsPromised ==
    ASSUME DispatchInv, RecordsTypeOK', ListenerRuns
    PROVE  [Promise!PromiseNext]_(Promise!promiseVars)
  <1>0. PICK w \in Workers, d \in Recipients : MarkFailed(w, d)
    BY DEF ListenerRuns
  <1>1. messages' = messages
    BY <1>0 DEF MarkFailed, botVars
  <1>2. CASE state[d] = "RETRYABLE_FAILURE"
    <2>1. messages[d] = 0
      BY <1>2 DEF DispatchInv, StateTells, Unsent
    <2> QED
      BY <1>0, <1>1, <1>2, <2>1, StateStep DEF MarkFailed
  <1>3. CASE state[d] # "RETRYABLE_FAILURE"
    BY <1>0, <1>1, <1>3, NothingStep DEF MarkFailed
  <1> QED
    BY <1>2, <1>3

\* Every step of the delivery is a step of the promise, or none.
LEMMA PromiseStep ==
    DispatchInv /\ DispatchInv' /\ [Next]_vars
       => [Promise!PromiseNext]_(Promise!promiseVars)
  <1> SUFFICES ASSUME DispatchInv, DispatchInv', [Next]_vars
               PROVE  [Promise!PromiseNext]_(Promise!promiseVars)
    OBVIOUS
  <1>0. RecordsTypeOK /\ RecordsTypeOK'
    BY DEF DispatchInv
  <1>1. ASSUME NEW e \in Events, Upsert(e)
        PROVE  [Promise!PromiseNext]_(Promise!promiseVars)
    <2>1. CASE state' = state
      BY <1>1, <2>1, NothingStep DEF Upsert, botVars
    <2>2. CASE state' # state
      <3>1. PICK d \in Recipients : /\ state[d] = "absent"
                                    /\ state' = [state EXCEPT ![d] = "PENDING"]
        BY <1>0, <1>1, <2>2 DEF Upsert, RecordsTypeOK
      <3>2. state' = [r \in Recipients |-> IF r \in {d} THEN "PENDING" ELSE state[r]]
        BY <1>0, <3>1 DEF RecordsTypeOK
      <3> QED
        BY <1>0, <1>1, <3>1, <3>2, RecordedStep DEF Upsert, botVars
    <2> QED
      BY <2>1, <2>2
  <1>2. ASSUME NEW e \in Events, Select(e) \/ EnqueueJob(e) \/ ScheduleFails(e)
        PROVE  [Promise!PromiseNext]_(Promise!promiseVars)
    BY <1>2, NothingStep DEF Select, EnqueueJob, ScheduleFails, recordVars, botVars
  <1>3. ASSUME NEW w \in Workers, DbFault(w) \/ Crash(w)
        PROVE  [Promise!PromiseNext]_(Promise!promiseVars)
    BY <1>3, NothingStep DEF DbFault, Crash, recordVars, botVars
  <1>4. CASE Environment \/ UNCHANGED vars
    BY <1>4, NothingStep
    DEF Environment, Stall, EnforceRetention, EntitlementChanges, AuthorizationLost,
        vars, recordVars, botVars
  <1>5. ASSUME NEW w \in Workers, WorkerRuns(w)
        PROVE  [Promise!PromiseNext]_(Promise!promiseVars)
    BY <1>0, <1>5, WorkerStepIsPromised
  <1>6. CASE BotRuns \/ ListenerRuns
    BY <1>0, <1>6, BotStepIsPromised, ListenerStepIsPromised
  <1> QED
    BY <1>1, <1>2, <1>3, <1>4, <1>5, <1>6 DEF Next, SchedulerRuns

\* The delivery of an Order's notifications keeps the promise: at most one
\* message, final verdicts, and no verdict that lies about the message.
THEOREM DeliveryKeepsPromise == Spec => KeepsPromise
  <1>1. Init => Promise!PromiseInit
    BY DEF Init, Promise!PromiseInit, VerdictOf
  <1> QED
    BY <1>1, DispatchAlways, PromiseStep, PTL
    DEF Spec, KeepsPromise, Promise!PromiseSpec
=============================================================================
