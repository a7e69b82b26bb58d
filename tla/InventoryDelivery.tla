--------------------------- MODULE InventoryDelivery ---------------------------
(***************************************************************************)
(* The alerts of one incident level of one InventoryItem, from the event   *)
(* that raised it to the Telegram messages:                                *)
(*   - the scheduler that chooses recipients, captures them in one         *)
(*     transaction and enqueues their jobs                                 *)
(*     (backend/src/queue/inventory-notification.scheduler.ts);            *)
(*   - the worker (backend/src/queue/inventory-notification.processor.ts), *)
(*     whose claim, looks at the entitlement, POST and outcomes are those  *)
(*     of OrderDelivery, line for line, on records of its own;             *)
(*   - the revalidation of a record against the link, the settings and the *)
(*     item (prepareNotification, telegram-inventory.service.ts);          *)
(*   - the merchants, who meanwhile change the settings or unlink and link *)
(*     again, and the stock, which recovers.                               *)
(*                                                                         *)
(* A recipient is a chat authorization and its one membership.  The two    *)
(* timestamps that tell whether it was linked again after its record was   *)
(* made (updatedAt > createdAt) are a counter of its links.                *)
(***************************************************************************)
EXTENDS OrderDelivery, NotificationPolicy

CONSTANTS MaxPolicyChanges,  \* changes of the settings (bound)
          MaxLinks           \* times a recipient links again (bound)

ASSUME AlertAssumption ==
    /\ Members = Recipients
    /\ {MaxPolicyChanges, MaxLinks} \subseteq Nat

VARIABLES
    policy,       \* the Store's settings
    policyChanges,
    link,         \* how often each authorization was (re)written: updatedAt
    level,        \* where the item is: "at" the level, "off" it, "over"
    happened,     \* events that have raised the alert
    source,       \* the last of them, lowAlertSource or outAlertSource...Id
    captured,     \* the alert's recipients are captured
    chosen,       \* what each scheduler read: recipients, version of the policy
    record,       \* a record's policyVersion, source, and the link it was made
                  \* under
    void          \* history: what the captured alert was meant for is gone

alertVars == <<policy, policyChanges, link, level, happened, source, captured,
               chosen, record, void>>
allAlertVars == <<vars, alertVars>>

\* Of the alert's own state; the records are typed as in OrderDelivery.
AlertTypeOK ==
    /\ RecordsTypeOK
    /\ epc \in [Events -> {"new", "capture", "upsert", "next", "done"}]
    /\ etodo \in [Events -> SUBSET Recipients]
    /\ policy \in Settings /\ policyChanges \in 0..MaxPolicyChanges
    /\ link \in [Recipients -> 0..MaxLinks]
    /\ level \in {"at", "off", "over"}
    /\ happened \in SUBSET Events /\ source \in happened
    /\ captured \in BOOLEAN
    /\ chosen \in [Events -> [told : SUBSET Recipients, version : Nat]]
    /\ record \in [Recipients -> [version : Nat, link : Nat, source : Events]]
    /\ void \in [Recipients -> BOOLEAN]

NoChoice == [told |-> {}, version |-> 0]

AlertInit ==
    /\ Init
    /\ policy = Applied(DefaultSettings, [setting |-> "category", value |-> "on",
                                          of |-> "LOW_STOCK"])
    /\ policyChanges = 0
    /\ link = [d \in Recipients |-> 0]
    /\ \E e \in Events : source = e /\ happened = {e}
    /\ level = "at" /\ captured = FALSE
    /\ chosen = [e \in Events |-> NoChoice]
    /\ record = [d \in Recipients |-> [version |-> 0, link |-> 0, source |-> source]]
    /\ void = [d \in Recipients |-> FALSE]

-----------------------------------------------------------------------------
(* InventoryNotificationScheduler.schedule.                                *)

SchedulerGoes(e, step) == epc' = [epc EXCEPT ![e] = step]

\* Is the item still in the incident, and the alert that of this event?
Raised(e) == level # "over" /\ source = e

\* The entitlement, then what was captured before, then the policy and whoever
\* it names among the eligible.
ChooseRecipients(e) ==
    /\ epc[e] = "new" /\ e \in happened
    /\ \/ /\ ~Raised(e) \/ (~entitled /\ captured)
          /\ SchedulerGoes(e, "done") /\ UNCHANGED chosen
       \/ /\ Raised(e) /\ entitled /\ captured
          /\ SchedulerGoes(e, "upsert") /\ UNCHANGED chosen
       \/ /\ Raised(e) /\ ~entitled /\ ~captured
          /\ SchedulerGoes(e, "capture")
          /\ chosen' = [chosen EXCEPT ![e] = NoChoice]
       \/ /\ Raised(e) /\ entitled /\ ~captured
          /\ SchedulerGoes(e, "capture")
          /\ chosen' = [chosen EXCEPT ![e] =
                [told |-> Told(policy) \cap authorized, version |-> policy.version]]
    /\ UNCHANGED <<policyVars, recordVars, queueVars, etodo, eat, scheduleFaults,
                   workerVars, botVars, faults, policy, policyChanges, link, level,
                   happened, source, captured, record, void>>

Captures(e, version) ==
    /\ epc[e] = "capture"
    /\ SchedulerGoes(e, "upsert")
    /\ chosen' = [chosen EXCEPT ![e] = NoChoice]
    /\ \/ /\ Raised(e) /\ ~captured
          /\ captured' = TRUE
          /\ LET new == {d \in chosen[e].told : state[d] = "absent"} IN
             /\ state' = [d \in Recipients |->
                             IF d \in new THEN "PENDING" ELSE state[d]]
             /\ record' = [d \in Recipients |->
                             IF d \in new
                             THEN [version |-> version, link |-> link[d], source |-> e]
                             ELSE record[d]]
             /\ void' = [d \in Recipients |->
                             IF d \in new
                             THEN chosen[e].version # policy.version \/ d \notin authorized
                             ELSE void[d]]
       \/ /\ ~Raised(e) \/ captured
          /\ UNCHANGED <<captured, state, record, void>>
    /\ UNCHANGED <<policyVars, attempts, queueVars, etodo, eat, scheduleFaults,
                   workerVars, botVars, faults, policy, policyChanges, link, level,
                   happened, source>>

\* Mutant: the record says which policy there is, not which one chose it.
CaptureRecipientsNow(e) == Captures(e, policy.version)

\* captureRecipients: one transaction, guarded by the alert being uncaptured.
CaptureRecipients(e) == Captures(e, chosen[e].version)

\* The records that still want a job are listed, then enqueued one by one.
ListRecords(e) ==
    /\ epc[e] = "upsert"
    /\ etodo' = [etodo EXCEPT ![e] = {d \in Recipients :
                                      Claimable(d) /\ record[d].source = e}]
    /\ SchedulerGoes(e, "next")
    /\ UNCHANGED <<policyVars, recordVars, queueVars, eat, scheduleFaults,
                   workerVars, botVars, faults, alertVars>>

NextRecord(e) ==
    /\ epc[e] = "next"
    /\ \/ \E d \in etodo[e] :
             /\ job' = [job EXCEPT ![d] = Added(@)]
             /\ etodo' = [etodo EXCEPT ![e] = @ \ {d}]
             /\ UNCHANGED epc
       \/ /\ etodo[e] = {}
          /\ SchedulerGoes(e, "done")
          /\ UNCHANGED <<job, etodo>>
    /\ UNCHANGED <<policyVars, recordVars, listeners, eat, scheduleFaults,
                   workerVars, botVars, faults, alertVars>>

\* A call fails or the process dies: the webhook job starts over.
AlertScheduleFails(e) ==
    /\ faults < MaxFaults
    /\ epc[e] \notin {"new", "done"}
    /\ SchedulerGoes(e, "new")
    /\ faults' = faults + 1
    /\ UNCHANGED <<policyVars, recordVars, queueVars, etodo, eat, scheduleFaults,
                   workerVars, botVars, alertVars>>

-----------------------------------------------------------------------------
(* The worker.                                                             *)

\* Mutant: any link that stands will do.
SameLinkAny(d) == d \in authorized

\* The processor's look at the authorization, prepareNotification's at the
\* context, the policy and the item; each is read in turn, within one step.
SameLink(d) == d \in authorized /\ link[d] = record[d].link

\* Mutant: who is told now is told of what happened before.
SamePolicyTells(d) == Tells(policy, d)

SamePolicy(d) == Tells(policy, d) /\ policy.version = record[d].version

SameIncident(d) == level = "at"

PrepareAlert(w) ==
    /\ wpc[w] = "prepare"
    /\ LET d == wjob[w]
           linked == InFlight(d) /\ SameLink(d)
           permitted == linked /\ SamePolicy(d) /\ SameIncident(d)
       IN  \/ /\ entitled \/ ~linked
              /\ Revalidate(w, "prepare", permitted, "recheck")
           \/ /\ linked /\ ~entitled
              /\ JobEnds(w, Retried(job[d]))
              /\ UNCHANGED <<policyVars, recordVars, schedulerVars, botVars,
                             faults>>
    /\ UNCHANGED alertVars

\* Claim to POST, with the unclaimed records.
AlertAttempts(w) ==
    /\ \/ \E d \in Recipients : Fetch(w, d) \/ BuryExhausted(w, d)
       \/ Claim(w) \/ Check(w) \/ Recheck(w) \/ Send(w) \/ GiveUp(w)
    /\ UNCHANGED alertVars

AlertConcludes(w) ==
    /\ \/ PersistDelivered(w) \/ PersistRetryable(w) \/ PersistTerminal(w)
    /\ UNCHANGED alertVars

AlertUnclaimed(w) ==
    /\ Resolve(w) \/ PersistAmbiguous(w)
    /\ UNCHANGED alertVars

AlertMarkFailed ==
    /\ \E w \in Workers, d \in Recipients : MarkFailed(w, d)
    /\ UNCHANGED alertVars

\* That finished jobs are forgotten is left to OrderDelivery.
AlertFaults ==
    /\ \/ \E w \in Workers : DbFault(w) \/ Crash(w)
       \/ \E d \in Recipients : Stall(d)
       \/ EntitlementChanges
    /\ UNCHANGED alertVars

BotActs == BotRuns /\ UNCHANGED alertVars

-----------------------------------------------------------------------------
(* Merchants and stock.                                                    *)

\* Records made before are void now: of the change, as of the new link.
Voided(set) == [d \in Recipients |->
                   void[d] \/ (d \in set /\ state[d] # "absent")]

\* TelegramSettings applies a reference; only what alerts depend on, here.
ChangePolicy ==
    /\ policyChanges < MaxPolicyChanges
    /\ policyChanges' = policyChanges + 1
    /\ \E want \in Desires :
          /\ \/ want.setting \in {"mode", "recipient"}
             \/ want.setting = "category" /\ want.of = "LOW_STOCK"
          /\ Changes(policy, want)
          /\ policy' = Applied(policy, want)
          /\ void' = IF policy'.version = policy.version
                        /\ Told(policy') = Told(policy)
                     THEN void ELSE Voided(Recipients)
    /\ UNCHANGED <<vars, link, level, happened, source, captured, chosen, record>>

Unlink(d) ==
    /\ d \in authorized \cap Revocable
    /\ authorized' = authorized \ {d}
    /\ void' = Voided({d})
    /\ UNCHANGED <<entitled, entitlementChanges, recordVars, queueVars,
                   schedulerVars, workerVars, botVars, faults, policy,
                   policyChanges, link, level, happened, source, captured,
                   chosen, record>>

\* The same chat is linked again: the authorization is the same record.
LinkAgain(d) ==
    /\ d \notin authorized /\ link[d] < MaxLinks
    /\ authorized' = authorized \cup {d}
    /\ link' = [link EXCEPT ![d] = @ + 1]
    /\ UNCHANGED <<entitled, entitlementChanges, recordVars, queueVars,
                   schedulerVars, workerVars, botVars, faults, policy,
                   policyChanges, level, happened, source, captured, chosen,
                   record, void>>

\* A partial recovery or an escalation leaves the level, within the incident;
\* a recovery, a deletion and a change of the threshold end it.
StockLeaves ==
    /\ level # "over"
    /\ level' \in {"off", "over"} \ {level}
    /\ void' = IF level' = "over" THEN Voided(Recipients) ELSE void
    /\ UNCHANGED <<vars, policy, policyChanges, link, happened, source, captured,
                   chosen, record>>

\* A partial recovery comes back to LOW_STOCK with the alert it had; a second
\* escalation to OUT_OF_STOCK arms the alert again, for another event.
StockReturns ==
    /\ level = "off" /\ level' = "at"
    /\ \/ UNCHANGED <<happened, source, captured>>
       \/ \E e \in Events \ happened :
             source' = e /\ happened' = happened \cup {e} /\ captured' = FALSE
    /\ UNCHANGED <<vars, policy, policyChanges, link, chosen, record, void>>

-----------------------------------------------------------------------------
AlertNext ==
    \/ \E e \in Events :
          \/ ChooseRecipients(e) \/ CaptureRecipients(e) \/ ListRecords(e)
          \/ NextRecord(e) \/ AlertScheduleFails(e)
    \/ \E w \in Workers :
          \/ PrepareAlert(w) \/ AlertAttempts(w) \/ AlertConcludes(w)
          \/ AlertUnclaimed(w)
    \/ AlertMarkFailed \/ AlertFaults \/ BotActs
    \/ ChangePolicy \/ StockLeaves \/ StockReturns
    \/ \E d \in Recipients : Unlink(d) \/ LinkAgain(d)

AlertSpec == AlertInit /\ [][AlertNext]_allAlertVars

-----------------------------------------------------------------------------
(* Properties.                                                             *)

\* docs/DECISIONS.md:811 (D-025): the policy generation keeps "a later
\* disable/re-enable or recipient-policy round trip from reviving an already
\* captured delivery", and the authorization's update time "prevents
\* unlink/relink from reviving it": no attempt passes its revalidation for an
\* alert whose policy has changed since its recipients were chosen, whose
\* recipient was unlinked when it was captured or has unlinked since, or whose
\* incident has ended since.  (A recipient who unlinks and links again between
\* the choice and the capture is captured under the new link, and is told.)
NoRevival ==
    [][\A w \in Workers :
          wpc[w] = "prepare" /\ wpc'[w] = "recheck" => ~void[wjob[w]]]_allAlertVars
=============================================================================
