----------------------------- MODULE OrderDelivery -----------------------------
(***************************************************************************)
(* The notifications of one new Order, from the projected order.created    *)
(* event to the Telegram message:                                          *)
(*   - the scheduler that upserts one delivery record per recipient and    *)
(*     enqueues its job (backend/src/queue/order-notification.scheduler);  *)
(*   - the worker that claims the record, revalidates it, posts it to the  *)
(*     bot and persists the outcome                                        *)
(*     (backend/src/queue/order-notification.processor.ts);                *)
(*   - the POST to the bot with its timeout                                *)
(*     (backend/src/telegram/telegram-delivery.client.ts) and the bot's    *)
(*     call of Telegram (telegram-bot/src/internal-delivery.server.ts).    *)
(*                                                                         *)
(* A record carries no lease: whoever finds it IN_FLIGHT without having    *)
(* claimed it gives it up as AMBIGUOUS.  A POST outlives the worker that   *)
(* made it, so that its message may arrive after a timeout, a crash or a   *)
(* verdict.  A Telegram answer of 429 or 5xx means that no message was     *)
(* sent, which is how the bot reads it.                                    *)
(***************************************************************************)
EXTENDS OperationsQueue, FiniteSets

CONSTANTS Recipients,        \* chat authorizations: one record each
          Events,            \* order.created events of the Order
          NoRecipient,
          MaxFaults,         \* crashes and database errors (bound)
          MaxEntitlementChanges,  \* switches of the entitlement (bound)
          Revocable,         \* recipients that may lose their authorization
          MaxScheduleFaults, \* scheduling attempts that fail (bound)
          LocksHold          \* TRUE: only the jobs of dead workers stall

ASSUME DeliveryAssumption ==
    /\ NoRecipient \notin Recipients
    /\ MaxFaults \in Nat
    /\ MaxEntitlementChanges \in Nat
    /\ MaxScheduleFaults \in Nat
    /\ LocksHold \in BOOLEAN

VARIABLES
    entitled,     \* the tenant's entitlement is active
    authorized,   \* recipients whose link, role, settings and Order permit it
    state,        \* TelegramOrderNotificationDelivery.state, "absent" if none
    attempts,     \* its attemptCount; numbers the claims lastAttemptAt fences
    job, listeners,       \* the job of each record, pending handleFailed calls
    epc, etodo, eat,      \* each event's scheduler: step, recipients, current
    wpc, wjob, wclaim,    \* each worker: next step, its record, its claim
    posts,        \* <<recipient, claim>> the bot has yet to act on
    messages,     \* Telegram messages each recipient got
    faults, entitlementChanges, scheduleFaults

policyVars == <<entitled, authorized, entitlementChanges>>
recordVars == <<state, attempts>>
queueVars  == <<job, listeners>>
schedulerVars == <<epc, etodo, eat, scheduleFaults>>
workerVars == <<wpc, wjob, wclaim>>
botVars    == <<posts, messages>>
vars == <<policyVars, recordVars, queueVars, schedulerVars, workerVars,
          botVars, faults>>

Final == {"DELIVERED", "TERMINAL_FAILURE", "AMBIGUOUS"}
DeliveryState == {"absent", "PENDING", "IN_FLIGHT", "RETRYABLE_FAILURE"}
                    \cup Final

\* The worker's steps: those of an attempt before its POST, and the outcome it
\* is about to persist after it.
Armed == {"check", "prepare", "recheck", "send"}
Outcome == {"delivered", "retryable", "terminal", "ambiguous"}
WorkerStep ==
    {"idle", "claim", "resolve", "orphan", "await"} \cup Armed \cup Outcome

\* Of the records and of those who work on them, whichever scheduler made them.
RecordsTypeOK ==
    /\ entitled \in BOOLEAN
    /\ authorized \in SUBSET Recipients
    /\ state \in [Recipients -> DeliveryState]
    /\ attempts \in [Recipients -> Nat]
    /\ job \in [Recipients -> Job]
    /\ listeners \in SUBSET (Workers \X Recipients)
    /\ wpc \in [Workers -> WorkerStep]
    /\ wjob \in [Workers -> Recipients \cup {NoRecipient}]
    /\ wclaim \in [Workers -> Nat]
    /\ \A w \in Workers : wpc[w] # "idle" => wjob[w] \in Recipients
    /\ posts \in SUBSET (Recipients \X Nat)
    /\ messages \in [Recipients -> Nat]
    /\ faults \in 0..MaxFaults
    /\ entitlementChanges \in 0..MaxEntitlementChanges

SchedulersTypeOK ==
    /\ epc \in [Events -> {"new", "upsert", "enqueue", "done"}]
    /\ etodo \in [Events -> SUBSET Recipients]
    /\ eat \in [Events -> Recipients \cup {NoRecipient}]
    /\ \A e \in Events : epc[e] = "enqueue" => eat[e] \in Recipients
    /\ scheduleFaults \in 0..MaxScheduleFaults

TypeOK == RecordsTypeOK /\ SchedulersTypeOK

Init ==
    /\ entitled = TRUE /\ authorized = Recipients /\ entitlementChanges = 0
    /\ state = [d \in Recipients |-> "absent"]
    /\ attempts = [d \in Recipients |-> 0]
    /\ job = [d \in Recipients |-> UnknownJob("absent")] /\ listeners = {}
    /\ epc = [e \in Events |-> "new"]
    /\ etodo = [e \in Events |-> {}]
    /\ eat = [e \in Events |-> NoRecipient]
    /\ wpc = [w \in Workers |-> "idle"]
    /\ wjob = [w \in Workers |-> NoRecipient]
    /\ wclaim = [w \in Workers |-> 0]
    /\ posts = {} /\ messages = [d \in Recipients |-> 0]
    /\ faults = 0 /\ scheduleFaults = 0

-----------------------------------------------------------------------------
(* The scheduler, a step of the event's webhook job.                       *)

\* Entitlement, settings, Order and eligible recipients are read, one after
\* the other, before the first record is written.
Select(e) ==
    /\ epc[e] = "new"
    /\ \/ /\ entitled
          /\ \E chosen \in SUBSET authorized :
                etodo' = [etodo EXCEPT ![e] = chosen]
          /\ epc' = [epc EXCEPT ![e] = "upsert"]
       \/ /\ ~entitled
          /\ epc' = [epc EXCEPT ![e] = "done"]
          /\ UNCHANGED etodo
    /\ UNCHANGED <<policyVars, recordVars, queueVars, eat, scheduleFaults,
                   workerVars, botVars, faults>>

\* upsert ... update: {}: a record that exists stays as it is.
Upsert(e) ==
    /\ epc[e] = "upsert"
    /\ \/ \E d \in etodo[e] :
             /\ state' = IF state[d] = "absent"
                         THEN [state EXCEPT ![d] = "PENDING"] ELSE state
             /\ etodo' = [etodo EXCEPT ![e] = @ \ {d}]
             /\ eat' = [eat EXCEPT ![e] = d]
             /\ epc' = [epc EXCEPT ![e] = "enqueue"]
       \/ /\ etodo[e] = {}
          /\ epc' = [epc EXCEPT ![e] = "done"]
          /\ UNCHANGED <<state, etodo, eat>>
    /\ UNCHANGED <<policyVars, attempts, queueVars, scheduleFaults, workerVars,
                   botVars, faults>>

EnqueueJob(e) ==
    /\ epc[e] = "enqueue"
    /\ job' = [job EXCEPT ![eat[e]] = Added(@)]
    /\ epc' = [epc EXCEPT ![e] = "upsert"]
    /\ UNCHANGED <<policyVars, recordVars, listeners, etodo, eat,
                   scheduleFaults, workerVars, botVars, faults>>

\* A call fails or the process dies: the webhook job starts over.
ScheduleFails(e) ==
    /\ scheduleFaults < MaxScheduleFaults
    /\ epc[e] \in {"upsert", "enqueue"}
    /\ epc' = [epc EXCEPT ![e] = "new"]
    /\ scheduleFaults' = scheduleFaults + 1
    /\ UNCHANGED <<policyVars, recordVars, queueVars, etodo, eat, workerVars,
                   botVars, faults>>

-----------------------------------------------------------------------------
(* The worker.                                                             *)

WorkerGoes(w, step) == wpc' = [wpc EXCEPT ![w] = step]

\* w lets go of its job and reports j, if it still has the job's lock.
JobEnds(w, j) ==
    LET d == wjob[w] IN
    /\ wpc' = [wpc EXCEPT ![w] = "idle"]
    /\ wjob' = [wjob EXCEPT ![w] = NoRecipient]
    /\ wclaim' = [wclaim EXCEPT ![w] = 0]
    /\ IF job[d].owner = w
       THEN /\ job' = [job EXCEPT ![d] = j]
            /\ listeners' = IF j.state = "failed"
                            THEN listeners \cup {<<w, d>>} ELSE listeners
       ELSE UNCHANGED queueVars

Fetch(w, d) ==
    /\ wpc[w] = "idle"
    /\ job[d].state = "waiting" /\ ~Exhausted(job[d])
    /\ job' = [job EXCEPT ![d] = Fetched(@, w)]
    /\ WorkerGoes(w, "claim")
    /\ wjob' = [wjob EXCEPT ![w] = d]
    /\ UNCHANGED <<policyVars, recordVars, listeners, schedulerVars, wclaim,
                   botVars, faults>>

BuryExhausted(w, d) ==
    /\ wpc[w] = "idle"
    /\ job[d].state = "waiting" /\ Exhausted(job[d])
    /\ job' = [job EXCEPT ![d] = Buried(@)]
    /\ listeners' = listeners \cup {<<w, d>>}
    /\ UNCHANGED <<policyVars, recordVars, schedulerVars, workerVars, botVars,
                   faults>>

InFlight(d) == state[d] = "IN_FLIGHT"

\* Mutant: an IN_FLIGHT record is claimed again, as if it were under a lease.
ClaimableInFlight(d) ==
    state[d] \in {"PENDING", "RETRYABLE_FAILURE", "IN_FLIGHT"}

Claimable(d) == state[d] \in {"PENDING", "RETRYABLE_FAILURE"}

Claim(w) ==
    /\ wpc[w] = "claim"
    /\ LET d == wjob[w] IN
         \/ /\ Claimable(d)
            /\ state' = [state EXCEPT ![d] = "IN_FLIGHT"]
            /\ attempts' = [attempts EXCEPT ![d] = @ + 1]
            /\ wclaim' = [wclaim EXCEPT ![w] = attempts[d] + 1]
            /\ WorkerGoes(w, "check")
         \/ /\ ~Claimable(d)
            /\ WorkerGoes(w, "resolve")
            /\ UNCHANGED <<recordVars, wclaim>>
    /\ UNCHANGED <<policyVars, queueVars, schedulerVars, wjob, botVars, faults>>

\* resolveUnclaimed reads the record; an IN_FLIGHT one has lost its attempt.
Resolve(w) ==
    /\ wpc[w] = "resolve"
    /\ LET d == wjob[w] IN
         \/ /\ state[d] = "IN_FLIGHT"
            /\ WorkerGoes(w, "orphan")
            /\ UNCHANGED <<queueVars, wjob, wclaim>>
         \/ /\ state[d] # "IN_FLIGHT"
            /\ JobEnds(w, IF state[d] \in Final THEN Finished(job[d])
                          ELSE Retried(job[d]))
    /\ UNCHANGED <<policyVars, recordVars, schedulerVars, botVars, faults>>

\* Three looks at the policy before the POST.
Revalidate(w, step, holds, next) ==
    /\ wpc[w] = step
    /\ WorkerGoes(w, IF holds THEN next ELSE "terminal")
    /\ UNCHANGED <<policyVars, recordVars, queueVars, schedulerVars, wjob,
                   wclaim, botVars, faults>>

Check(w) == Revalidate(w, "check", entitled, "prepare")

\* The second look loads the record, then prepares the message for its
\* recipient: the link and role first, then the entitlement, whose failure
\* here throws (assertActive), then the settings and the Order.
Prepare(w) ==
    /\ wpc[w] = "prepare"
    /\ LET d == wjob[w]
           permitted == InFlight(d) /\ d \in authorized
       IN  \/ /\ entitled \/ ~permitted
              /\ Revalidate(w, "prepare", permitted, "recheck")
           \/ /\ InFlight(d) /\ ~entitled
              /\ JobEnds(w, Retried(job[d]))
              /\ UNCHANGED <<policyVars, recordVars, schedulerVars, botVars,
                             faults>>

Recheck(w) == Revalidate(w, "recheck", entitled, "send")

\* The POST leaves; its record and its policy are not looked at again.
Send(w) ==
    /\ wpc[w] = "send"
    /\ posts' = posts \cup {<<wjob[w], wclaim[w]>>}
    /\ WorkerGoes(w, "await")
    /\ UNCHANGED <<policyVars, recordVars, queueVars, schedulerVars, wjob,
                   wclaim, messages, faults>>

\* deliveryTimeoutMs is over, the answer is not understood, or there is none.
GiveUp(w) ==
    /\ wpc[w] = "await"
    /\ WorkerGoes(w, "ambiguous")
    /\ UNCHANGED <<policyVars, recordVars, queueVars, schedulerVars, wjob,
                   wclaim, botVars, faults>>

-----------------------------------------------------------------------------
(* The bot.  Nothing ties a POST to the fate of the worker that made it.   *)

\* The worker that still waits for p's answer, if any, gets it.
Answers(p, outcome) ==
    wpc' = [w \in Workers |->
               IF wpc[w] = "await" /\ <<wjob[w], wclaim[w]>> = p
               THEN outcome ELSE wpc[w]]

\* Telegram sends the message.  The answer says so, or is lost on its way
\* from Telegram (HttpError: "ambiguous") or from the bot (no answer).
BotDelivers(p) ==
    /\ p \in posts
    /\ posts' = posts \ {p}
    /\ messages' = [messages EXCEPT ![p[1]] = @ + 1]
    /\ \/ \E outcome \in {"delivered", "ambiguous"} : Answers(p, outcome)
       \/ UNCHANGED wpc
    /\ UNCHANGED <<policyVars, recordVars, queueVars, schedulerVars, wjob,
                   wclaim, faults>>

\* No message: Telegram refuses for now (429, 5xx) or for good, the bot
\* refuses the request (400, 401, 403), or nobody ever acts on it.
BotRefuses(p) ==
    /\ p \in posts
    /\ posts' = posts \ {p}
    /\ \/ \E outcome \in {"retryable", "terminal", "ambiguous"} :
             Answers(p, outcome)
       \/ UNCHANGED wpc
    /\ UNCHANGED <<policyVars, recordVars, queueVars, schedulerVars, wjob,
                   wclaim, messages, faults>>

-----------------------------------------------------------------------------
(* The outcome.                                                            *)

\* persistState: any IN_FLIGHT record will do, an attempt's own or not.  An
\* update that finds none is an Error.
Persist(w, s, then) ==
    LET d == wjob[w] IN
    /\ state' = IF InFlight(d) THEN [state EXCEPT ![d] = s] ELSE state
    /\ JobEnds(w, IF InFlight(d) THEN then ELSE Retried(job[d]))
    /\ UNCHANGED <<policyVars, attempts, schedulerVars, botVars, faults>>

\* Only this update is fenced by the claim (lastAttemptAt = claimedAt).
PersistDelivered(w) ==
    /\ wpc[w] = "delivered"
    /\ LET d == wjob[w]
           mine == InFlight(d) /\ attempts[d] = wclaim[w]
       IN  /\ state' = IF mine THEN [state EXCEPT ![d] = "DELIVERED"] ELSE state
           /\ JobEnds(w, IF mine THEN Finished(job[d]) ELSE Retried(job[d]))
    /\ UNCHANGED <<policyVars, attempts, schedulerVars, botVars, faults>>

PersistRetryable(w) ==
    /\ wpc[w] = "retryable"
    /\ Persist(w, "RETRYABLE_FAILURE", Retried(job[wjob[w]]))

PersistTerminal(w) ==
    /\ wpc[w] = "terminal"
    /\ Persist(w, "TERMINAL_FAILURE", Finished(job[wjob[w]]))

\* Mutant: a record found IN_FLIGHT counts as failed.
PersistAmbiguousFails(w) ==
    /\ wpc[w] \in {"ambiguous", "orphan"}
    /\ Persist(w, "TERMINAL_FAILURE", Finished(job[wjob[w]]))

\* The outcome is unknown: the bot's answer was, or the record was found
\* IN_FLIGHT by a worker that had not claimed it.
PersistAmbiguous(w) ==
    /\ wpc[w] \in {"ambiguous", "orphan"}
    /\ Persist(w, "AMBIGUOUS", Finished(job[wjob[w]]))

\* A database call throws: the queue sees an Error, the record stays.
DbFault(w) ==
    /\ faults < MaxFaults
    /\ wpc[w] \notin {"idle", "send", "await"}
    /\ JobEnds(w, Retried(job[wjob[w]]))
    /\ faults' = faults + 1
    /\ UNCHANGED <<policyVars, recordVars, schedulerVars, botVars>>

\* w's process dies and restarts; its POST, if any, is under way.
Crash(w) ==
    /\ faults < MaxFaults
    /\ wpc[w] # "idle" \/ \E d \in Recipients : <<w, d>> \in listeners
    /\ wpc' = [wpc EXCEPT ![w] = "idle"]
    /\ wjob' = [wjob EXCEPT ![w] = NoRecipient]
    /\ wclaim' = [wclaim EXCEPT ![w] = 0]
    /\ listeners' = {l \in listeners : l[1] # w}
    /\ faults' = faults + 1
    /\ UNCHANGED <<policyVars, recordVars, job, schedulerVars, botVars>>

-----------------------------------------------------------------------------
(* The queue, the listener and the tenant's policy.                        *)

Stall(d) ==
    /\ job[d].state = "active"
    /\ LocksHold => wjob[job[d].owner] # d
    /\ job' = [job EXCEPT ![d] = Stalled(@)]
    /\ UNCHANGED <<policyVars, recordVars, listeners, schedulerVars,
                   workerVars, botVars, faults>>

\* Mutant: only a record that was never retried is dead-lettered.
MarkFailedPendingOnly(w, d) ==
    /\ <<w, d>> \in listeners
    /\ listeners' = listeners \ {<<w, d>>}
    /\ state' = IF state[d] = "PENDING"
                THEN [state EXCEPT ![d] = "TERMINAL_FAILURE"] ELSE state
    /\ UNCHANGED <<policyVars, attempts, job, schedulerVars, workerVars,
                   botVars, faults>>

\* handleFailed, then markFailed: a retryable record has had its attempts.
MarkFailed(w, d) ==
    /\ <<w, d>> \in listeners
    /\ listeners' = listeners \ {<<w, d>>}
    /\ state' = IF state[d] = "RETRYABLE_FAILURE"
                THEN [state EXCEPT ![d] = "TERMINAL_FAILURE"] ELSE state
    /\ UNCHANGED <<policyVars, attempts, job, schedulerVars, workerVars,
                   botVars, faults>>

EnforceRetention(d) ==
    /\ job[d].state \in {"completed", "failed"}
    /\ job' = [job EXCEPT ![d] = Forgotten(@)]
    /\ UNCHANGED <<policyVars, recordVars, listeners, schedulerVars,
                   workerVars, botVars, faults>>

EntitlementChanges ==
    /\ entitlementChanges < MaxEntitlementChanges
    /\ entitlementChanges' = entitlementChanges + 1
    /\ entitled' = ~entitled
    /\ UNCHANGED <<authorized, recordVars, queueVars, schedulerVars, workerVars,
                   botVars, faults>>

\* A recipient loses its link, its role or its place in the settings, or the
\* Order is deleted.  Linking again is a new authorization.
AuthorizationLost ==
    /\ \E d \in authorized \cap Revocable : authorized' = authorized \ {d}
    /\ UNCHANGED <<entitled, entitlementChanges, recordVars, queueVars,
                   schedulerVars, workerVars, botVars, faults>>

-----------------------------------------------------------------------------
SchedulerRuns(e) == Select(e) \/ Upsert(e) \/ EnqueueJob(e)

WorkerRuns(w) ==
    \/ \E d \in Recipients : Fetch(w, d) \/ BuryExhausted(w, d)
    \/ Claim(w) \/ Resolve(w)
    \/ Check(w) \/ Prepare(w) \/ Recheck(w) \/ Send(w) \/ GiveUp(w)
    \/ PersistDelivered(w) \/ PersistRetryable(w)
    \/ PersistTerminal(w) \/ PersistAmbiguous(w)

ListenerRuns == \E w \in Workers, d \in Recipients : MarkFailed(w, d)

BotRuns == \E p \in posts : BotDelivers(p) \/ BotRefuses(p)

Environment ==
    \/ \E d \in Recipients : Stall(d) \/ EnforceRetention(d)
    \/ EntitlementChanges \/ AuthorizationLost

Next ==
    \/ \E e \in Events : SchedulerRuns(e) \/ ScheduleFails(e)
    \/ \E w \in Workers : WorkerRuns(w) \/ DbFault(w) \/ Crash(w)
    \/ ListenerRuns \/ BotRuns \/ Environment

Spec == Init /\ [][Next]_vars

\* Schedulers, workers (whose wait for the bot is bounded by GiveUp) and
\* listeners run on; the bot, the locks and the tenant need not.
FairSpec ==
    /\ Spec
    /\ \A e \in Events : WF_vars(SchedulerRuns(e))
    /\ \A w \in Workers : WF_vars(WorkerRuns(w))
    /\ WF_vars(ListenerRuns)

-----------------------------------------------------------------------------
(* Properties.                                                             *)

\* No recipient gets the message of an Order twice, whatever the number of
\* events, retries, crashes and stalled workers, and however late a POST takes
\* effect: a message and the POSTs still under way are at most one together.
AtMostOneMessage ==
    \A d \in Recipients :
        messages[d] + Cardinality({p \in posts : p[1] = d}) <= 1

VerdictOf ==
    [d \in Recipients |->
        CASE state[d] = "absent"           -> "none"
          [] state[d] = "DELIVERED"        -> "delivered"
          [] state[d] = "TERMINAL_FAILURE" -> "failed"
          [] state[d] = "AMBIGUOUS"        -> "unknown"
          [] OTHER                         -> "undecided"]

Promise == INSTANCE NotificationPromise
               WITH Records <- Recipients, verdict <- VerdictOf

\* The delivery implements its promise: one message at most, final verdicts,
\* and DELIVERED / TERMINAL_FAILURE records that never lie.
KeepsPromise == Promise!PromiseSpec

\* No process has died, no call has failed, the entitlement has not changed, and
\* no job was taken for stalled.
Undisturbed(d) ==
    /\ faults = 0 /\ scheduleFaults = 0 /\ entitlementChanges = 0
    /\ job[d].stalls = 0

\* Every record gets a verdict if nothing of the kind ever happens, even if the bot
\* never answers and recipients unlink.
EveryRecordConcludes ==
    \A d \in Recipients :
        []Undisturbed(d) => (state[d] # "absent" ~> state[d] \in Final)
=============================================================================
