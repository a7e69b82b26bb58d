-------------------------- MODULE InventoryAlertsProofs --------------------------
(***************************************************************************)
(* Proofs about the two modules that MCInventoryAlerts checks together.    *)
(*                                                                         *)
(* InventoryDelivery, for any number of recipients, events, workers and    *)
(* attempts, and any bounds on faults, changes and links:                  *)
(*   - type correctness;                                                   *)
(*   - NoRevival;                                                          *)
(*   - the alerts implement NotificationPromise, as the notifications of   *)
(*     an Order do, and with it AtMostOneMessage.                          *)
(* The last two rest on DispatchInv, whose preservation by the worker, the *)
(* listener and the bot is that of OrderDelivery; what differs is how      *)
(* records come into being, and the second look of an attempt.  NoRevival  *)
(* rests on VoidInv: an alert meant for a state that is gone differs from  *)
(* that state by the version of its policy, its link or its incident.      *)
(*                                                                         *)
(* InventoryBootstrap, for any catalogue, page size, number of workers and *)
(* requests, and any bounds on revisions and faults:                       *)
(*   - type correctness;                                                   *)
(*   - ReadyIsComplete, from CoverInv: what is behind a progress was       *)
(*     projected, be it the one in the database, the one a worker goes by  *)
(*     or the one it is about to write, and from lemmas about the pages of *)
(*     a set of numbers: one that is not full is the last;                 *)
(*   - SyncingIsAttended, from AttendInv and RevisionInv: the queue has no *)
(*     job of a revision to come, so a new revision can always be added.   *)
(***************************************************************************)
EXTENDS InventoryDelivery, InventoryBootstrap, OrderDeliveryProofs,
        NumbersInOrderProofs

\* What was chosen or recorded is never ahead of what there is.
VersionInv ==
    /\ \A e \in Events : chosen[e].version <= policy.version
    /\ \A d \in Recipients : /\ record[d].version <= policy.version
                             /\ record[d].link <= link[d]

\* The three marks by which PrepareAlert tells a void record.
VoidInv ==
    \A d \in Recipients :
        void[d] => \/ record[d].version < policy.version
                   \/ d \notin authorized \/ record[d].link < link[d]
                   \/ level = "over"

AlertInv == AlertTypeOK /\ DispatchInv /\ VersionInv /\ VoidInv

-----------------------------------------------------------------------------
(* The records, their attempts and their verdicts.                         *)

\* One invariant and one promise at once: what a step does to both.
Delivers == DispatchInv' /\ [Promise!PromiseNext]_(Promise!promiseVars)

LEMMA NothingDelivers ==
    ASSUME DispatchInv, RecordsTypeOK', UNCHANGED <<state, posts, messages, wpc, wjob>>
    PROVE  Delivers
  BY NothingKeeps, NothingStep DEF Delivers

LEMMA WorkerDelivers ==
    ASSUME DispatchInv, NEW w \in Workers, WorkerRuns(w)
    PROVE  Delivers
  <1>1. DispatchInv'
    BY WorkerKeeps
  <1>2. RecordsTypeOK'
    BY <1>1 DEF DispatchInv
  <1> QED
    BY <1>1, <1>2, WorkerStepIsPromised DEF Delivers

\* The look at the authorization, the settings and the item sends nothing.
LEMMA PrepareAlertDelivers ==
    ASSUME DispatchInv, NEW w \in Workers, PrepareAlert(w)
    PROVE  Delivers
  <1>1. RecordsTypeOK /\ wpc[w] = "prepare"
    BY DEF DispatchInv, PrepareAlert, Revalidate
  <1>2. \/ \E holds : Revalidate(w, "prepare", holds, "recheck")
        \/ /\ \E k \in Job : JobEnds(w, k)
           /\ UNCHANGED <<policyVars, recordVars, schedulerVars, botVars, faults>>
    <2>1. Retried(job[wjob[w]]) \in Job
      BY <1>1, JobOperators DEF RecordsTypeOK
    <2> QED
      BY <2>1 DEF PrepareAlert
  <1>3. RecordsTypeOK'
    <2>1. CASE \E holds : Revalidate(w, "prepare", holds, "recheck")
      BY <1>1, <2>1
      DEF Revalidate, WorkerGoes, WorkerStep, Armed, Outcome, RecordsTypeOK, policyVars,
          recordVars, queueVars, schedulerVars, botVars
    <2>2. CASE /\ \E k \in Job : JobEnds(w, k)
               /\ UNCHANGED <<policyVars, recordVars, schedulerVars, botVars, faults>>
      BY <1>1, <2>2, JobEndsType
      DEF RecordsTypeOK, policyVars, recordVars, schedulerVars, botVars
    <2> QED
      BY <1>2, <2>1, <2>2
  <1>4. Bystander
    BY <1>1, <1>2, <1>3
    DEF Revalidate, WorkerGoes, JobEnds, Bystander, Attempting, recordVars, botVars,
        RecordsTypeOK, Armed, Outcome
  <1>5. UNCHANGED <<state, messages>>
    BY <1>4 DEF Bystander
  <1> QED
    BY <1>3, <1>4, <1>5, BystanderKeeps, NothingStep DEF Delivers

\* The faults, the queue, the listener and the bot are those of OrderDelivery.
LEMMA OthersDeliver ==
    ASSUME DispatchInv, AlertMarkFailed \/ AlertFaults \/ BotActs
    PROVE  Delivers
  <1>0. RecordsTypeOK
    BY DEF DispatchInv
  <1>1. CASE AlertMarkFailed
    <2>1. ListenerRuns
      BY <1>1 DEF AlertMarkFailed, ListenerRuns
    <2>2. DispatchInv' /\ RecordsTypeOK'
      BY <2>1, ListenerKeeps DEF DispatchInv
    <2> QED
      BY <2>1, <2>2, ListenerStepIsPromised DEF Delivers
  <1>2. CASE BotActs
    <2>1. BotRuns /\ RecordsTypeOK'
      BY <1>0, <1>2, BotTypes DEF BotActs
    <2> QED
      BY <2>1, BotKeeps, BotStepIsPromised DEF Delivers
  <1>3. ASSUME NEW w \in Workers, DbFault(w) \/ Crash(w)
        PROVE  Delivers
    <2>1. UNCHANGED <<state, messages>>
      BY <1>3 DEF DbFault, Crash, recordVars, botVars
    <2> QED
      BY <1>3, <2>1, FaultKeeps, NothingStep DEF Delivers
  <1>4. ASSUME NEW d \in Recipients, Stall(d) \/ EntitlementChanges
        PROVE  Delivers
    <2>1. Environment
      BY <1>4 DEF Environment
    <2>2. UNCHANGED <<state, messages>>
      BY <1>4 DEF Stall, EntitlementChanges, recordVars, botVars
    <2> QED
      BY <2>1, <2>2, EnvironmentKeeps, NothingStep DEF Delivers
  <1>5. CASE EntitlementChanges
    <2>1. Environment
      BY <1>5 DEF Environment
    <2>2. UNCHANGED <<state, messages>>
      BY <1>5 DEF EntitlementChanges, recordVars, botVars
    <2> QED
      BY <2>1, <2>2, EnvironmentKeeps, NothingStep DEF Delivers
  <1> QED
    BY <1>1, <1>2, <1>3, <1>4, <1>5 DEF AlertFaults

\* The scheduler's step of the records: all new ones, in one transaction.
LEMMA CaptureDelivers ==
    ASSUME DispatchInv, NEW e \in Events, CaptureRecipients(e)
    PROVE  Delivers
  <1>0. RecordsTypeOK
    BY DEF DispatchInv
  <1>1. PICK new \in SUBSET Recipients :
           /\ \A d \in new : state[d] = "absent"
           /\ state' = [d \in Recipients |-> IF d \in new THEN "PENDING" ELSE state[d]]
    <2> DEFINE told == {d \in Recipients : d \in chosen[e].told /\ state[d] = "absent"}
    <2>1. CASE state' = state
      <3>1. state' = [d \in Recipients |-> IF d \in {} THEN "PENDING" ELSE state[d]]
        BY <1>0, <2>1 DEF RecordsTypeOK
      <3>2. {} \in SUBSET Recipients /\ \A d \in {} : state[d] = "absent"
        OBVIOUS
      <3> QED
        BY <3>1, <3>2
    <2>2. CASE state' # state
      <3>1. state' = [d \in Recipients |-> IF d \in told THEN "PENDING" ELSE state[d]]
        BY <2>2 DEF CaptureRecipients, Captures
      <3> QED
        BY <3>1
    <2> QED
      BY <2>1, <2>2
  <1>2. /\ UNCHANGED <<wpc, wjob, posts, messages>>
        /\ RecordsTypeOK'
    BY <1>0, <1>1
    DEF CaptureRecipients, Captures, RecordsTypeOK, DeliveryState, policyVars, queueVars,
        workerVars, botVars
  <1> QED
    BY <1>0, <1>1, <1>2, RecordedKeeps, RecordedStep DEF Delivers

\* The rest of the scheduler, and merchants and stock, leave records alone.
LEMMA AroundDelivers ==
    ASSUME AlertTypeOK, DispatchInv,
           \/ \E e \in Events : \/ ChooseRecipients(e) \/ ListRecords(e)
                                \/ NextRecord(e) \/ AlertScheduleFails(e)
           \/ ChangePolicy \/ StockLeaves \/ StockReturns
           \/ \E d \in Recipients : Unlink(d) \/ LinkAgain(d)
           \/ UNCHANGED allAlertVars
    PROVE  Delivers
  <1> USE DEF policyVars, recordVars, queueVars, workerVars, botVars, AlertTypeOK
  <1>1. CASE UNCHANGED vars
    <2>1. UNCHANGED <<state, posts, messages, wpc, wjob>> /\ RecordsTypeOK'
      BY <1>1 DEF vars, RecordsTypeOK
    <2> QED
      BY <2>1, NothingDelivers
  <1>2. ASSUME NEW e \in Events, ChooseRecipients(e) \/ ListRecords(e)
        PROVE  Delivers
    <2>1. UNCHANGED <<state, posts, messages, wpc, wjob>> /\ RecordsTypeOK'
      BY <1>2 DEF ChooseRecipients, ListRecords, RecordsTypeOK
    <2> QED
      BY <2>1, NothingDelivers
  <1>3. ASSUME NEW e \in Events, NextRecord(e)
        PROVE  Delivers
    <2>1. \A d \in Recipients : Added(job[d]) \in Job
      BY JobOperators DEF RecordsTypeOK
    <2>2. job' = job \/ \E d \in Recipients : job' = [job EXCEPT ![d] = Added(@)]
      BY <1>3 DEF NextRecord
    <2>3. job \in [Recipients -> Job]
      BY DEF RecordsTypeOK
    <2>4. job' \in [Recipients -> Job]
      <3> HIDE DEF AlertTypeOK
      <3>1. ASSUME NEW d \in Recipients, job' = [job EXCEPT ![d] = Added(@)]
            PROVE  job' \in [Recipients -> Job]
        BY <2>1, <2>3, <3>1
      <3> QED
        BY <2>2, <2>3, <3>1
    <2>5. UNCHANGED <<state, posts, messages, wpc, wjob>> /\ RecordsTypeOK'
      BY <1>3, <2>4 DEF NextRecord, RecordsTypeOK
    <2> QED
      BY <2>5, NothingDelivers
  <1>4. ASSUME NEW e \in Events, AlertScheduleFails(e)
        PROVE  Delivers
    <2>1. UNCHANGED <<state, posts, messages, wpc, wjob>> /\ RecordsTypeOK'
      BY <1>4, DeliveryAssumption DEF AlertScheduleFails, RecordsTypeOK
    <2> QED
      BY <2>1, NothingDelivers
  <1>5. ASSUME NEW d \in Recipients, Unlink(d) \/ LinkAgain(d)
        PROVE  Delivers
    <2>1. UNCHANGED <<state, posts, messages, wpc, wjob>> /\ RecordsTypeOK'
      BY <1>5 DEF Unlink, LinkAgain, RecordsTypeOK
    <2> QED
      BY <2>1, NothingDelivers
  <1>6. CASE ChangePolicy \/ StockLeaves \/ StockReturns \/ UNCHANGED allAlertVars
    BY <1>1, <1>6 DEF ChangePolicy, StockLeaves, StockReturns, allAlertVars
  <1> QED
    BY <1>2, <1>3, <1>4, <1>5, <1>6

LEMMA AlertDelivers ==
    ASSUME AlertTypeOK, DispatchInv, [AlertNext]_allAlertVars
    PROVE  Delivers
  <1>1. ASSUME NEW w \in Workers, AlertAttempts(w) \/ AlertConcludes(w) \/ AlertUnclaimed(w)
        PROVE  WorkerRuns(w)
    BY <1>1 DEF AlertAttempts, AlertConcludes, AlertUnclaimed, WorkerRuns
  <1>2. ASSUME NEW w \in Workers, \/ PrepareAlert(w) \/ AlertAttempts(w)
                                  \/ AlertConcludes(w) \/ AlertUnclaimed(w)
        PROVE  Delivers
    BY <1>1, <1>2, WorkerDelivers, PrepareAlertDelivers
  <1>3. ASSUME NEW e \in Events, CaptureRecipients(e)
        PROVE  Delivers
    BY <1>3, CaptureDelivers
  <1>4. CASE AlertMarkFailed \/ AlertFaults \/ BotActs
    BY <1>4, OthersDeliver
  <1>5. CASE \/ \E e \in Events : \/ ChooseRecipients(e) \/ ListRecords(e)
                                  \/ NextRecord(e) \/ AlertScheduleFails(e)
             \/ ChangePolicy \/ StockLeaves \/ StockReturns
             \/ \E d \in Recipients : Unlink(d) \/ LinkAgain(d)
             \/ UNCHANGED allAlertVars
    BY <1>5, AroundDelivers
  <1> QED
    BY <1>2, <1>3, <1>4, <1>5 DEF AlertNext

-----------------------------------------------------------------------------
(* The alert: who was chosen under which policy, and what is void.         *)

\* Every change alerts depend on is a new version of the policy.
LEMMA PolicyMoves ==
    ASSUME NEW s \in Settings, NEW want \in Desires,
           \/ want.setting \in {"mode", "recipient"}
           \/ want.setting = "category" /\ want.of = "LOW_STOCK"
    PROVE  Applied(s, want) \in Settings /\ Applied(s, want).version = s.version + 1
  <1>1. /\ s.language \in Languages /\ s.timezone \in Timezones
        /\ s.threshold \in Thresholds /\ s.categories \subseteq Categories
        /\ s.mode \in Modes /\ s.selected \subseteq Members /\ s.version \in Nat
        /\ s = [language |-> s.language, timezone |-> s.timezone,
                threshold |-> s.threshold, categories |-> s.categories,
                mode |-> s.mode, selected |-> s.selected, version |-> s.version]
    BY DEF Settings
  <1>2. CASE want.setting = "category"
    <2>1. Applied(s, want) =
             [language |-> s.language, timezone |-> s.timezone, threshold |-> s.threshold,
              categories |-> Put(s.categories, "LOW_STOCK", want.value), mode |-> s.mode,
              selected |-> s.selected, version |-> s.version + 1]
      BY <1>1, <1>2 DEF Applied
    <2>2. Put(s.categories, "LOW_STOCK", want.value) \subseteq Categories
      BY <1>1 DEF Put, Categories
    <2> QED
      BY <1>1, <2>1, <2>2 DEF Settings
  <1>3. CASE want.setting = "recipient"
    <2>1. Applied(s, want) =
             [language |-> s.language, timezone |-> s.timezone, threshold |-> s.threshold,
              categories |-> s.categories, mode |-> s.mode,
              selected |-> Put(s.selected, want.of, want.value), version |-> s.version + 1]
      BY <1>1, <1>3 DEF Applied
    <2>2. Put(s.selected, want.of, want.value) \subseteq Members
      BY <1>1, <1>3 DEF Put, Desires
    <2> QED
      BY <1>1, <2>1, <2>2 DEF Settings
  <1>4. CASE want.setting = "mode"
    <2>1. Applied(s, want) =
             [language |-> s.language, timezone |-> s.timezone, threshold |-> s.threshold,
              categories |-> s.categories, mode |-> want.value, selected |-> s.selected,
              version |-> s.version + 1]
      BY <1>1, <1>4 DEF Applied
    <2> QED
      BY <1>1, <1>4, <2>1 DEF Settings, Desires
  <1> QED
    BY <1>2, <1>3, <1>4

\* The settings with low stock on, as the alert was raised under.
LEMMA FirstPolicy ==
    LET p == Applied(DefaultSettings,
                     [setting |-> "category", value |-> "on", of |-> "LOW_STOCK"])
    IN  p \in Settings
  <1> DEFINE want == [setting |-> "category", value |-> "on", of |-> "LOW_STOCK"]
  <1>1. want \in Desires /\ want.setting = "category" /\ want.of = "LOW_STOCK"
    BY DEF Desires, Categories
  <1>2. DefaultSettings \in Settings
    BY DEF DefaultSettings, Settings, Languages, Timezones, Thresholds, Categories, Modes
  <1> HIDE DEF want
  <1>3. Applied(DefaultSettings, want) \in Settings
    BY <1>1, <1>2, PolicyMoves
  <1> QED
    BY <1>3 DEF want

LEMMA AlertInvInit == AlertInit => AlertInv
  <1> SUFFICES ASSUME AlertInit PROVE AlertInv
    OBVIOUS
  <1>1. RecordsTypeOK /\ DispatchInv
    BY TypeInit, DispatchInit DEF AlertInit, TypeOK
  <1>2. policy \in Settings
    BY FirstPolicy DEF AlertInit
  <1>3. policy.version \in Nat
    BY <1>2 DEF Settings
  <1>4. AlertTypeOK
    <2>1. /\ epc \in [Events -> {"new", "capture", "upsert", "next", "done"}]
          /\ etodo \in [Events -> SUBSET Recipients]
      BY DEF AlertInit, Init
    <2>2. source \in happened /\ happened \in SUBSET Events /\ source \in Events
      BY DEF AlertInit
    <2>3. /\ policyChanges \in 0..MaxPolicyChanges
          /\ link \in [Recipients -> 0..MaxLinks]
      BY AlertAssumption DEF AlertInit
    <2>4. /\ chosen \in [Events -> [told : SUBSET Recipients, version : Nat]]
          /\ record \in [Recipients -> [version : Nat, link : Nat, source : Events]]
      BY <2>2 DEF AlertInit, NoChoice
    <2>5. /\ level \in {"at", "off", "over"} /\ captured \in BOOLEAN
          /\ void \in [Recipients -> BOOLEAN]
      BY DEF AlertInit
    <2> QED
      BY <1>1, <1>2, <2>1, <2>2, <2>3, <2>4, <2>5 DEF AlertTypeOK
  <1>5. VersionInv /\ VoidInv
    BY <1>3 DEF VersionInv, VoidInv, AlertInit, NoChoice
  <1> QED
    BY <1>1, <1>4, <1>5 DEF AlertInv

\* What the alert's invariant is about, apart from the records.
AlertState == AlertTypeOK /\ VersionInv /\ VoidInv

LEMMA QuietAlert ==
    ASSUME AlertState, RecordsTypeOK', UNCHANGED <<alertVars, epc, etodo, authorized>>
    PROVE  AlertState'
  BY DEF AlertState, AlertTypeOK, VersionInv, VoidInv, alertVars

LEMMA ChooseAlert ==
    ASSUME AlertState, RecordsTypeOK', NEW e \in Events, ChooseRecipients(e)
    PROVE  AlertState'
  <1> USE DEF AlertState, AlertTypeOK
  <1>1. /\ UNCHANGED <<etodo, authorized, policy, policyChanges, link, level, happened,
                       source, captured, record, void>>
        /\ \E step \in {"done", "upsert", "capture"} : epc' = [epc EXCEPT ![e] = step]
        /\ \/ UNCHANGED chosen
           \/ \E told \in SUBSET Recipients, version \in {0, policy.version} :
                 chosen' = [chosen EXCEPT ![e] = [told |-> told, version |-> version]]
    BY DEF ChooseRecipients, SchedulerGoes, NoChoice, policyVars, RecordsTypeOK
  <1>2. policy.version \in Nat
    BY DEF Settings
  <1>3. /\ chosen' \in [Events -> [told : SUBSET Recipients, version : Nat]]
        /\ \A f \in Events : chosen'[f].version <= policy.version
    <2>1. /\ chosen \in [Events -> [told : SUBSET Recipients, version : Nat]]
          /\ \A f \in Events : chosen[f].version <= policy.version
      BY DEF VersionInv
    <2> HIDE DEF AlertState, AlertTypeOK
    <2>2. ASSUME NEW told \in SUBSET Recipients, NEW version \in {0, policy.version},
                 chosen' = [chosen EXCEPT ![e] = [told |-> told, version |-> version]]
          PROVE  /\ chosen' \in [Events -> [told : SUBSET Recipients, version : Nat]]
                 /\ \A f \in Events : chosen'[f].version <= policy.version
      <3> DEFINE choice == [told |-> told, version |-> version]
      <3>1. /\ choice \in [told : SUBSET Recipients, version : Nat]
            /\ choice.version <= policy.version
        BY <1>2
      <3>2. chosen' = [chosen EXCEPT ![e] = choice]
        BY <2>2
      <3> HIDE DEF choice
      <3> QED
        BY <2>1, <3>1, <3>2
    <2> QED
      BY <1>1, <2>1, <2>2
  <1>4. epc' \in [Events -> {"new", "capture", "upsert", "next", "done"}]
    BY <1>1
  <1>5. AlertTypeOK'
    BY <1>1, <1>3, <1>4
  <1> QED
    BY <1>1, <1>3, <1>5 DEF VersionInv, VoidInv

\* A record is void from the start if the policy moved since it was read, or the
\* recipient is unlinked.
LEMMA CaptureAlert ==
    ASSUME AlertState, RecordsTypeOK', NEW e \in Events, CaptureRecipients(e)
    PROVE  AlertState'
  <1> USE DEF AlertState, AlertTypeOK
  <1>1. /\ UNCHANGED <<etodo, authorized, policy, policyChanges, link, level, happened,
                       source>>
        /\ epc' = [epc EXCEPT ![e] = "upsert"]
        /\ chosen' = [chosen EXCEPT ![e] = NoChoice]
        /\ captured' \in BOOLEAN
    BY DEF CaptureRecipients, Captures, SchedulerGoes, policyVars
  <1>2. policy.version \in Nat /\ chosen[e].version \in Nat
        /\ chosen[e].version <= policy.version
    BY DEF Settings, VersionInv
  <1>3. PICK new \in SUBSET Recipients :
           /\ record' = [d \in Recipients |->
                            IF d \in new
                            THEN [version |-> chosen[e].version, link |-> link[d],
                                  source |-> e]
                            ELSE record[d]]
           /\ void' = [d \in Recipients |->
                          IF d \in new
                          THEN chosen[e].version # policy.version \/ d \notin authorized
                          ELSE void[d]]
    <2> DEFINE told == {d \in Recipients : d \in chosen[e].told /\ state[d] = "absent"}
    <2>1. CASE UNCHANGED <<record, void>>
      <3>1. /\ record' = [d \in Recipients |->
                            IF d \in {}
                            THEN [version |-> chosen[e].version, link |-> link[d],
                                  source |-> e]
                            ELSE record[d]]
            /\ void' = [d \in Recipients |->
                          IF d \in {}
                          THEN chosen[e].version # policy.version \/ d \notin authorized
                          ELSE void[d]]
        BY <2>1
      <3>2. {} \in SUBSET Recipients
        OBVIOUS
      <3> QED
        BY <3>1, <3>2
    <2>2. CASE Raised(e) /\ ~captured /\ captured' = TRUE
      <3>1. /\ record' = [d \in Recipients |->
                            IF d \in told
                            THEN [version |-> chosen[e].version, link |-> link[d],
                                  source |-> e]
                            ELSE record[d]]
            /\ void' = [d \in Recipients |->
                          IF d \in told
                          THEN chosen[e].version # policy.version \/ d \notin authorized
                          ELSE void[d]]
        BY <2>2 DEF CaptureRecipients, Captures
      <3> QED
        BY <3>1
    <2> QED
      BY <2>1, <2>2 DEF CaptureRecipients, Captures
  <1>4. /\ record' \in [Recipients -> [version : Nat, link : Nat, source : Events]]
        /\ void' \in [Recipients -> BOOLEAN]
        /\ chosen' \in [Events -> [told : SUBSET Recipients, version : Nat]]
    <2>1. \A d \in Recipients : link[d] \in Nat
      BY AlertAssumption
    <2> QED
      BY <1>1, <1>2, <1>3, <2>1 DEF NoChoice
  <1>5. AlertTypeOK'
    BY <1>1, <1>4
  <1>6. VersionInv'
    <2>1. \A f \in Events : chosen'[f].version <= policy.version
      BY <1>1, <1>2 DEF VersionInv, NoChoice
    <2>2. \A d \in Recipients : /\ record'[d].version <= policy.version
                                /\ record'[d].link <= link[d]
      BY <1>2, <1>3, AlertAssumption DEF VersionInv
    <2> QED
      BY <1>1, <2>1, <2>2 DEF VersionInv
  <1>7. ASSUME NEW d \in Recipients, void'[d]
        PROVE  \/ record'[d].version < policy'.version
               \/ d \notin authorized' \/ record'[d].link < link'[d]
               \/ level' = "over"
    <2>1. CASE d \in new
      <3>1. /\ chosen[e].version # policy.version \/ d \notin authorized
            /\ record'[d].version = chosen[e].version
        BY <1>3, <1>7, <2>1
      <3>2. policy' = policy /\ authorized' = authorized
        BY <1>1
      <3> HIDE DEF AlertState, AlertTypeOK
      <3>3. chosen[e].version < policy.version \/ d \notin authorized
        BY <1>2, <3>1
      <3> QED
        BY <3>1, <3>2, <3>3
    <2>2. CASE d \notin new
      <3>1. void[d] /\ record'[d] = record[d]
        BY <1>3, <1>7, <2>2
      <3> QED
        BY <1>1, <3>1 DEF VoidInv
    <2> QED
      BY <2>1, <2>2
  <1> QED
    BY <1>5, <1>6, <1>7 DEF VoidInv

LEMMA SchedulerAlert ==
    ASSUME AlertState, RecordsTypeOK', NEW e \in Events,
           ListRecords(e) \/ NextRecord(e) \/ AlertScheduleFails(e)
    PROVE  AlertState'
  <1> USE DEF AlertState, AlertTypeOK
  <1>1. UNCHANGED <<alertVars, authorized>>
    BY DEF ListRecords, NextRecord, AlertScheduleFails, policyVars
  <1>2. epc' \in [Events -> {"new", "capture", "upsert", "next", "done"}]
    BY DEF ListRecords, NextRecord, AlertScheduleFails, SchedulerGoes
  <1>3. etodo' = etodo \/ \E todo \in SUBSET Recipients : etodo' = [etodo EXCEPT ![e] = todo]
    <2>1. CASE ListRecords(e)
      <3> DEFINE todo == {d \in Recipients : Claimable(d) /\ record[d].source = e}
      <3>1. etodo' = [etodo EXCEPT ![e] = todo] /\ todo \in SUBSET Recipients
        BY <2>1 DEF ListRecords
      <3> QED
        BY <3>1
    <2>2. ASSUME NEW d \in etodo[e], etodo' = [etodo EXCEPT ![e] = @ \ {d}]
          PROVE  \E todo \in SUBSET Recipients : etodo' = [etodo EXCEPT ![e] = todo]
      <3>1. etodo[e] \ {d} \in SUBSET Recipients
        OBVIOUS
      <3> QED
        BY <2>2, <3>1
    <2>3. CASE AlertScheduleFails(e)
      BY <2>3 DEF AlertScheduleFails, schedulerVars
    <2> QED
      BY <2>1, <2>2, <2>3 DEF NextRecord
  <1>4. etodo' \in [Events -> SUBSET Recipients]
    BY <1>3
  <1> QED
    BY <1>1, <1>2, <1>4 DEF VersionInv, VoidInv, alertVars

LEMMA ChangePolicyAlert ==
    ASSUME AlertState, RecordsTypeOK', ChangePolicy
    PROVE  AlertState'
  <1> USE DEF AlertState, AlertTypeOK
  <1>1. UNCHANGED <<epc, etodo, authorized, link, level, happened, source, captured,
                    chosen, record>>
    BY DEF ChangePolicy, vars, schedulerVars, policyVars
  <1>2. /\ policy' \in Settings /\ policy'.version = policy.version + 1
        /\ policyChanges' \in 0..MaxPolicyChanges
    <2>1. policyChanges' \in 0..MaxPolicyChanges
      BY AlertAssumption DEF ChangePolicy
    <2>2. PICK want \in Desires :
             /\ \/ want.setting \in {"mode", "recipient"}
                \/ want.setting = "category" /\ want.of = "LOW_STOCK"
             /\ policy' = Applied(policy, want)
      BY DEF ChangePolicy
    <2> QED
      BY <2>1, <2>2, PolicyMoves
  <1>3. policy.version \in Nat
    BY DEF Settings
  <1>4. void' \in [Recipients -> BOOLEAN]
    BY DEF ChangePolicy, Voided
  <1>5. \A d \in Recipients : record[d].version < policy'.version
    BY <1>2, <1>3 DEF VersionInv
  <1>6. VersionInv'
    BY <1>1, <1>2, <1>3 DEF VersionInv
  <1>7. VoidInv'
    BY <1>1, <1>5 DEF VoidInv
  <1> QED
    BY <1>1, <1>2, <1>4, <1>6, <1>7

LEMMA LinksAlert ==
    ASSUME AlertState, RecordsTypeOK', NEW d \in Recipients, Unlink(d) \/ LinkAgain(d)
    PROVE  AlertState'
  <1> USE DEF AlertState, AlertTypeOK
  <1>1. UNCHANGED <<epc, etodo, policy, policyChanges, level, happened, source, captured,
                    chosen, record>>
    BY DEF Unlink, LinkAgain, schedulerVars
  <1>2. CASE Unlink(d)
    <2>1. /\ authorized' = authorized \ {d} /\ link' = link
          /\ void' = Voided({d})
      BY <1>2 DEF Unlink
    <2>2. void' \in [Recipients -> BOOLEAN]
      BY <2>1 DEF Voided
    <2> QED
      BY <1>1, <2>1, <2>2 DEF VersionInv, VoidInv, Voided
  <1>3. CASE LinkAgain(d)
    <2>1. /\ d \notin authorized /\ authorized' = authorized \cup {d} /\ void' = void
          /\ link' = [link EXCEPT ![d] = link[d] + 1] /\ link[d] < MaxLinks
      BY <1>3 DEF LinkAgain
    <2>2. link' \in [Recipients -> 0..MaxLinks] /\ record[d].link < link'[d]
      BY <2>1, AlertAssumption DEF VersionInv
    <2>3. \A c \in Recipients : /\ record[c].link <= link'[c]
                                /\ c # d => link'[c] = link[c]
      BY <2>1, <2>2 DEF VersionInv
    <2> QED
      BY <1>1, <2>1, <2>2, <2>3 DEF VersionInv, VoidInv
  <1> QED
    BY <1>2, <1>3

\* An incident that ends voids its alerts, and never comes back.
LEMMA StockAlert ==
    ASSUME AlertState, RecordsTypeOK', StockLeaves \/ StockReturns
    PROVE  AlertState'
  <1> USE DEF AlertState, AlertTypeOK
  <1>1. UNCHANGED <<epc, etodo, authorized, policy, policyChanges, link, chosen, record>>
    BY DEF StockLeaves, StockReturns, vars, schedulerVars, policyVars
  <1>2. CASE StockLeaves
    <2>1. void' \in [Recipients -> BOOLEAN]
      BY <1>2 DEF StockLeaves, Voided
    <2>2. VoidInv'
      BY <1>1, <1>2 DEF StockLeaves, VoidInv
    <2> QED
      BY <1>1, <1>2, <2>1, <2>2 DEF StockLeaves, VersionInv
  <1>3. CASE StockReturns
    BY <1>1, <1>3 DEF StockReturns, VersionInv, VoidInv
  <1> QED
    BY <1>2, <1>3

LEMMA AlertInvNext ==
    ASSUME AlertInv, [AlertNext]_allAlertVars
    PROVE  AlertInv'
  <1>1. DispatchInv' /\ RecordsTypeOK'
    BY AlertDelivers DEF AlertInv, Delivers, DispatchInv
  <1>2. AlertState
    BY DEF AlertInv, AlertState
  <1>3. ASSUME NEW w \in Workers, PrepareAlert(w)
        PROVE  UNCHANGED <<alertVars, epc, etodo, authorized>>
    BY <1>3 DEF PrepareAlert, Revalidate, policyVars, schedulerVars
  <1>4. ASSUME NEW w \in Workers, AlertAttempts(w) \/ AlertConcludes(w) \/ AlertUnclaimed(w)
        PROVE  UNCHANGED <<alertVars, epc, etodo, authorized>>
    BY <1>4
    DEF AlertAttempts, AlertConcludes, AlertUnclaimed, Fetch, BuryExhausted, Claim, Check,
        Recheck, Revalidate, Send, GiveUp, PersistDelivered, PersistRetryable,
        PersistTerminal, PersistAmbiguous, Persist, Resolve, policyVars, schedulerVars
  <1>5. CASE AlertMarkFailed \/ AlertFaults \/ BotActs
    <2>1. UNCHANGED <<alertVars, epc, etodo, authorized>>
      BY <1>5
      DEF AlertMarkFailed, MarkFailed, AlertFaults, DbFault, Crash, Stall,
          EntitlementChanges, BotActs, BotRuns, BotDelivers, BotRefuses, policyVars,
          schedulerVars
    <2> QED
      BY <1>1, <1>2, <2>1, QuietAlert DEF AlertInv, AlertState
  <1>6. CASE UNCHANGED allAlertVars
    <2>1. UNCHANGED <<alertVars, epc, etodo, authorized>>
      BY <1>6 DEF allAlertVars, vars, policyVars, schedulerVars
    <2> QED
      BY <1>1, <1>2, <2>1, QuietAlert DEF AlertInv, AlertState
  <1>7. ASSUME NEW w \in Workers, \/ PrepareAlert(w) \/ AlertAttempts(w)
                                  \/ AlertConcludes(w) \/ AlertUnclaimed(w)
        PROVE  AlertInv'
    BY <1>1, <1>2, <1>3, <1>4, <1>7, QuietAlert DEF AlertInv, AlertState
  <1>8. ASSUME NEW e \in Events, \/ ChooseRecipients(e) \/ CaptureRecipients(e)
                                 \/ ListRecords(e) \/ NextRecord(e) \/ AlertScheduleFails(e)
        PROVE  AlertInv'
    BY <1>1, <1>2, <1>8, ChooseAlert, CaptureAlert, SchedulerAlert DEF AlertInv, AlertState
  <1>9. CASE \/ ChangePolicy \/ StockLeaves \/ StockReturns
             \/ \E d \in Recipients : Unlink(d) \/ LinkAgain(d)
    BY <1>1, <1>2, <1>9, ChangePolicyAlert, LinksAlert, StockAlert DEF AlertInv, AlertState
  <1> QED
    BY <1>5, <1>6, <1>7, <1>8, <1>9 DEF AlertNext

THEOREM AlertInvAlways == AlertSpec => []AlertInv
  BY AlertInvInit, AlertInvNext, PTL DEF AlertSpec

-----------------------------------------------------------------------------
(* The theorems.                                                           *)

\* Every variable of the alerts keeps its type.
THEOREM AlertTypeCorrect == AlertSpec => []AlertTypeOK
  BY AlertInvAlways, PTL DEF AlertInv

\* Only the second look takes an attempt from "prepare" to "recheck".
LEMMA OnlyPreparePasses ==
    ASSUME AlertInv, [AlertNext]_allAlertVars, NEW w \in Workers,
           wpc[w] = "prepare", wpc'[w] = "recheck"
    PROVE  PrepareAlert(w)
  <1>0. wpc \in [Workers -> WorkerStep]
    BY DEF AlertInv, AlertTypeOK, RecordsTypeOK
  <1>1. wpc' # wpc /\ \A v \in Workers : v # w => ~\E step : wpc' = [wpc EXCEPT ![v] = step]
    BY <1>0
  <1>2. \A step : wpc' = [wpc EXCEPT ![w] = step] => step = "recheck"
    BY <1>0
  <1>3. ASSUME NEW v \in Workers, AlertAttempts(v) \/ AlertConcludes(v) \/ AlertUnclaimed(v)
        PROVE  FALSE
    <2>1. wpc' = wpc \/ (wpc[v] # "prepare" /\ \E step : wpc' = [wpc EXCEPT ![v] = step])
      BY <1>3
      DEF AlertAttempts, AlertConcludes, AlertUnclaimed, Fetch, BuryExhausted, Claim,
          Check, Recheck, Revalidate, Send, GiveUp, PersistDelivered, PersistRetryable,
          PersistTerminal, PersistAmbiguous, Persist, Resolve, JobEnds, WorkerGoes,
          workerVars
    <2> QED
      BY <1>1, <2>1
  <1>4. ASSUME NEW v \in Workers, PrepareAlert(v)
        PROVE  v = w
    <2>1. \E step : wpc' = [wpc EXCEPT ![v] = step]
      BY <1>4 DEF PrepareAlert, Revalidate, WorkerGoes, JobEnds
    <2> QED
      BY <1>1, <2>1
  <1>5. ~(AlertMarkFailed \/ AlertFaults)
    <2>1. ASSUME NEW v \in Workers, DbFault(v) \/ Crash(v)
          PROVE  wpc' = [wpc EXCEPT ![v] = "idle"]
      BY <2>1 DEF DbFault, Crash, JobEnds
    <2>2. ASSUME NEW d \in Recipients, Stall(d) \/ EntitlementChanges
          PROVE  wpc' = wpc
      BY <2>2 DEF Stall, EntitlementChanges, workerVars
    <2>3. ASSUME EntitlementChanges
          PROVE  wpc' = wpc
      BY <2>3 DEF EntitlementChanges, workerVars
    <2>4. ASSUME AlertMarkFailed
          PROVE  wpc' = wpc
      BY <2>4 DEF AlertMarkFailed, MarkFailed, workerVars
    <2> QED
      BY <1>1, <1>2, <2>1, <2>2, <2>3, <2>4 DEF AlertFaults
  <1>6. ~BotActs
    <2>1. ASSUME NEW p \in posts, BotDelivers(p) \/ BotRefuses(p)
          PROVE  wpc'[w] = wpc[w]
      BY <2>1 DEF BotDelivers, BotRefuses, Answers
    <2> QED
      BY <2>1 DEF BotActs, BotRuns
  <1>7. ASSUME \/ \E e \in Events : \/ ChooseRecipients(e) \/ CaptureRecipients(e)
                                    \/ ListRecords(e) \/ NextRecord(e)
                                    \/ AlertScheduleFails(e)
               \/ ChangePolicy \/ StockLeaves \/ StockReturns
               \/ \E d \in Recipients : Unlink(d) \/ LinkAgain(d)
               \/ UNCHANGED allAlertVars
        PROVE  wpc' = wpc
    BY <1>7
    DEF ChooseRecipients, CaptureRecipients, Captures, ListRecords, NextRecord,
        AlertScheduleFails, ChangePolicy, StockLeaves, StockReturns, Unlink, LinkAgain,
        allAlertVars, vars, workerVars
  <1> QED
    BY <1>1, <1>3, <1>4, <1>5, <1>6, <1>7 DEF AlertNext

\* No attempt passes its revalidation for an alert whose policy has changed since its
\* recipients were chosen, whose recipient was unlinked when it was captured or has
\* unlinked since, or whose incident has ended since, for any number of changes and
\* links (D-025).
THEOREM NothingIsRevived == AlertSpec => NoRevival
  <1>1. ASSUME AlertInv, [AlertNext]_allAlertVars, NEW w \in Workers,
               wpc[w] = "prepare", wpc'[w] = "recheck"
        PROVE  ~void[wjob[w]]
    <2> DEFINE d == wjob[w]
    <2>1. PrepareAlert(w) /\ wpc \in [Workers -> WorkerStep] /\ d \in Recipients
      BY <1>1, OnlyPreparePasses DEF AlertInv, AlertTypeOK, RecordsTypeOK
    <2>2. SameLink(d) /\ SamePolicy(d) /\ SameIncident(d)
      BY <1>1, <2>1 DEF PrepareAlert, Revalidate, WorkerGoes, JobEnds
    <2>3. /\ d \in authorized /\ link[d] = record[d].link
          /\ policy.version = record[d].version /\ level = "at"
      BY <2>2 DEF SameLink, SamePolicy, SameIncident
    <2>4. record[d].version \in Nat /\ record[d].link \in Nat
      BY <1>1, <2>1 DEF AlertInv, AlertTypeOK
    <2>5. ~void[d]
      <3> HIDE DEF d
      <3> QED
        BY <1>1, <2>1, <2>3, <2>4 DEF AlertInv, VoidInv
    <2> QED
      BY <2>5
  <1>2. AlertInv /\ [AlertNext]_allAlertVars
           => [\A w \in Workers :
                  wpc[w] = "prepare" /\ wpc'[w] = "recheck" => ~void[wjob[w]]]_allAlertVars
    BY <1>1
  <1> QED
    BY <1>2, AlertInvAlways, PTL DEF AlertSpec, NoRevival

\* The alerts keep the promise the notifications of an Order keep, though they make
\* their records all at once: one message at most, final verdicts, and none that lies.
THEOREM AlertsKeepPromise == AlertSpec => KeepsPromise
  <1>1. AlertInit => Promise!PromiseInit
    BY DEF AlertInit, Init, Promise!PromiseInit, VerdictOf
  <1>2. AlertInv /\ [AlertNext]_allAlertVars => [Promise!PromiseNext]_(Promise!promiseVars)
    BY AlertDelivers DEF AlertInv, Delivers
  <1> QED
    BY <1>1, <1>2, AlertInvAlways, PTL DEF AlertSpec, KeepsPromise, Promise!PromiseSpec

\* No recipient is told twice of one level of an incident.
THEOREM AlertsAtMostOnce == AlertSpec => []AtMostOneMessage
  <1>1. AlertInv => AtMostOneMessage
    BY AtMostOne DEF AlertInv
  <1> QED
    BY <1>1, AlertInvAlways, PTL

-----------------------------------------------------------------------------
(* Pages of a set of numbers.                                              *)

\* A set of numbers as a sequence has all of them.
LEMMA ParentsAre ==
    ASSUME NEW S \in SUBSET Nat, IsFiniteSet(S), NEW T, S \subseteq T
    PROVE  /\ ParentsIn(S) \in Seq(T)
           /\ \A p \in S : \E i \in DOMAIN ParentsIn(S) : ParentsIn(S)[i] = p
  <1> DEFINE n == Cardinality(S)
  <1>1. n \in Nat /\ Sorted(S) \in [1..n -> S]
    BY SortedIs
  <1>2. Sorted(S) \in [1..n -> T] /\ DOMAIN Sorted(S) = 1..n
    BY <1>1
  <1>3. \A p \in S : Place(S, p) \in 1..n /\ Sorted(S)[Place(S, p)] = p
    BY Places, SortedIs
  <1> HIDE DEF n
  <1> QED
    BY <1>1, <1>2, <1>3 DEF ParentsIn

\* A page of the places 1..n that is not full is the last one.
LEMMA LastPage ==
    ASSUME NEW n \in Nat, NEW page \in Nat \ {0},
           Cardinality({k \in 1..n : OnPage(k, page)}) # PageSize
    PROVE  \A k \in 1..n : k <= page * PageSize
  <1> DEFINE a == (page - 1) * PageSize
             b == page * PageSize
  <1>1. PageSize \in Nat \ {0}
    BY BootstrapAssumption
  <1>2. a \in Nat /\ b = a + PageSize
    BY <1>1
  <1>3. ASSUME NEW k \in 1..n, k > b
        PROVE  FALSE
    <2>1. \A i : i \in {k1 \in 1..n : OnPage(k1, page)} <=> i \in (a + 1)..b
      BY <1>1, <1>2, <1>3 DEF OnPage
    <2>2. {k1 \in 1..n : OnPage(k1, page)} = (a + 1)..b
      BY <2>1
    <2>3. Cardinality((a + 1)..b) = PageSize
      BY <1>1, <1>2, FS_Interval
    <2> QED
      BY <2>2, <2>3
  <1> QED
    BY <1>1, <1>2, <1>3

\* The page after those of a progress.
LEMMA PageGrows ==
    ASSUME NEW page \in Nat \ {0}, NEW k \in Nat, k <= page * PageSize
    PROVE  k <= (page - 1) * PageSize \/ OnPage(k, page)
  BY BootstrapAssumption DEF OnPage

\* What is behind a progress was projected: the products of the pages before its own,
\* or all of them, with their variations except those of its parents; and, of the first
\* of these, the variations of the pages before its own.
Behind(s) ==
    /\ \A p \in Products :
          s.done \/ Rank(p) <= (s.page - 1) * PageSize =>
             /\ <<p, 0>> \in covered
             /\ \/ \A v \in 1..Variations[p] : <<p, v>> \in covered
                \/ \E i \in DOMAIN s.parents : s.parents[i] = p
    /\ s.parents # <<>> =>
          \A v \in 1..Variations[Head(s.parents)] :
             v <= (s.vpage - 1) * PageSize => <<Head(s.parents), v>> \in covered

\* The store's progress, the one a worker goes by and the one it is about to write.
CoverInv ==
    catalogue = Products =>
        /\ Behind(progress)
        /\ \A w \in Workers :
              /\ scanner[w].at = "scan" => Behind(scanner[w].seen)
              /\ scanner[w].at = "advance" => Behind(scanner[w].next)

\* READY comes with the progress that ends the scan.
ReadyInv == sync = "READY" => Done(progress)

\* The queue has no job of a revision to come.
RevisionJobs ==
    \A r \in Revisions : /\ bootJob[r].state # "removed" /\ bootJob[r].state # "failed"
                         /\ r > rev => bootJob[r].state = "absent"

\* Nobody knows of a revision to come, and a job adds one of a later revision.
RevisionInv ==
    /\ RevisionJobs
    /\ \A w \in Workers :
          LET s == scanner[w]
          IN  /\ s.job <= rev /\ s.rev <= rev
              /\ s.at = "reload" => s.job < rev
              /\ s.at \in {"next", "follow"} => s.job < s.rev
    /\ \A q \in Requests : request[q].rev <= rev

\* A worker or a request that is about to add the job of the current revision.
Adds(s) == s.at = "reload" \/ (s.at = "follow" /\ s.rev = rev)

Asks(p) == p.at = "read" \/ (p.at = "enqueue" /\ p.rev = rev)

\* That job is there, has failed and is about to be reported, or somebody adds it.
Attended ==
    \/ bootJob[rev].state \in {"waiting", "active"}
    \/ rev \in bootListeners
    \/ /\ bootJob[rev].state = "absent"
       /\ \/ \E w \in Workers : Adds(scanner[w])
          \/ \E q \in Requests : Asks(request[q])

AttendInv == sync = "SYNCING" /\ rev \notin lost => Attended

BootInv == BootTypeOK /\ CoverInv /\ ReadyInv /\ RevisionInv /\ AttendInv

-----------------------------------------------------------------------------
(* Types.                                                                  *)

ScannerType == [at : ScannerStep, job : Revisions, rev : Revisions,
                seen : Progress, next : Progress]

RequestType == [at : {"new", "start", "read", "enqueue", "done"},
                was : SyncStates, rev : Revisions]

LEMMA StartIs == Start \in Progress /\ Off \in ScannerType /\ 0 \in Revisions
  <1>1. Start \in Progress
    <2>1. <<>> \in Seq(Products)
      OBVIOUS
    <2> QED
      BY <2>1 DEF Start, Progress
  <1>2. 0 \in Revisions
    BY BootstrapAssumption DEF Revisions
  <1> QED
    BY <1>1, <1>2 DEF Off, ScannerType, ScannerStep

LEMMA ReadyIs == \A at \in {"new", "read", "done", "start", "enqueue"} : Ready(at) \in RequestType
  BY StartIs DEF Ready, RequestType, SyncStates

LEMMA ScannedIs ==
    ASSUME NEW s \in Progress, catalogue \subseteq Products
    PROVE  /\ s.parents # <<>> => Head(s.parents) \in Products
           /\ Scanned(s) \in SUBSET (Products \X Nat)
  <1>1. s.parents \in Seq(Products)
    BY DEF Progress
  <1>2. s.parents # <<>> => Head(s.parents) \in Products
    BY <1>1
  <1>3. \A p \in Products : VariationsOn(p, s.vpage) \subseteq Nat
    BY BootstrapAssumption DEF VariationsOn
  <1>4. ProductsOn(s.page) \subseteq Products
    BY DEF ProductsOn
  <1> QED
    BY <1>2, <1>3, <1>4 DEF Scanned

LEMMA AdvancedIs ==
    ASSUME NEW s \in Progress, catalogue \subseteq Products
    PROVE  Advanced(s) \in Progress
  <1> DEFINE new == {p \in ProductsOn(s.page) : Variations[p] > 0}
             full == Cardinality(Scanned(s)) = PageSize
  <1>1. /\ s = [page |-> s.page, parents |-> s.parents, vpage |-> s.vpage, done |-> s.done]
        /\ s.page \in Nat \ {0} /\ s.parents \in Seq(Products) /\ s.vpage \in Nat \ {0}
        /\ s.done \in BOOLEAN /\ s.page + 1 \in Nat \ {0} /\ s.vpage + 1 \in Nat \ {0}
    BY DEF Progress
  <1>2. CASE s.parents # <<>>
    <2>1. Tail(s.parents) \in Seq(Products)
      BY <1>1, <1>2
    <2> DEFINE parents == IF full THEN s.parents ELSE Tail(s.parents)
               vpage == IF full THEN s.vpage + 1 ELSE 1
    <2>2. Advanced(s) = [s EXCEPT !.parents = parents, !.vpage = vpage]
      BY <1>2 DEF Advanced
    <2>3. parents \in Seq(Products) /\ vpage \in Nat \ {0}
      BY <1>1, <2>1
    <2> HIDE DEF parents, vpage
    <2> QED
      BY <1>1, <2>2, <2>3 DEF Progress
  <1>3. CASE s.parents = <<>> /\ s.done
    BY <1>3 DEF Advanced
  <1>4. CASE s.parents = <<>> /\ ~s.done
    <2>1. new \in SUBSET Nat /\ IsFiniteSet(new) /\ new \subseteq Products
      BY BootstrapAssumption, FS_Subset DEF ProductsOn
    <2>2. ParentsIn(new) \in Seq(Products)
      <3> HIDE DEF new
      <3> QED
        BY <2>1, ParentsAre
    <2>3. Advanced(s) = [page |-> s.page + 1, vpage |-> 1, done |-> ~full,
                         parents |-> ParentsIn(new)]
      BY <1>4 DEF Advanced
    <2> HIDE DEF new, full
    <2> QED
      BY <1>1, <2>2, <2>3 DEF Progress
  <1> QED
    BY <1>2, <1>3, <1>4

LEMMA OverIs == \A j \in Job : Over(j) \in Job
  BY UnknownJobIsJob DEF Over, JobState

LEMMA MovesType ==
    ASSUME BootTypeOK, NEW w \in Workers, NEW to \in ScannerType, Moves(w, to)
    PROVE  scanner' \in [Workers -> ScannerType]
  BY DEF Moves, BootTypeOK, ScannerType

\* Where a worker is after a step.
LEMMA MovesOff ==
    ASSUME BootTypeOK, NEW w \in Workers, Moves(w, Off)
    PROVE  /\ scanner'[w].at = "idle" /\ scanner'[w].job = 0 /\ scanner'[w].rev = 0
           /\ \A v \in Workers : v # w => scanner'[v] = scanner[v]
  BY DEF Moves, Off, BootTypeOK

LEMMA MovesTo ==
    ASSUME BootTypeOK, NEW w \in Workers, NEW at, NEW r,
           Moves(w, [Off EXCEPT !.at = at, !.job = r])
    PROVE  /\ scanner'[w].at = at /\ scanner'[w].job = r /\ scanner'[w].rev = 0
           /\ \A v \in Workers : v # w => scanner'[v] = scanner[v]
  <1> DEFINE to == [Off EXCEPT !.at = at, !.job = r]
  <1>1. to.at = at /\ to.job = r /\ to.rev = 0
    BY DEF Off
  <1>2. scanner' = [scanner EXCEPT ![w] = to]
    BY DEF Moves
  <1> HIDE DEF to
  <1> QED
    BY <1>1, <1>2 DEF BootTypeOK

LEMMA MovesOn ==
    ASSUME BootTypeOK, NEW w \in Workers, NEW at,
           Moves(w, [scanner[w] EXCEPT !.at = at])
    PROVE  /\ scanner'[w].at = at /\ scanner'[w].job = scanner[w].job
           /\ scanner'[w].rev = scanner[w].rev
           /\ \A v \in Workers : v # w => scanner'[v] = scanner[v]
  <1> DEFINE to == [scanner[w] EXCEPT !.at = at]
  <1>1. to.at = at /\ to.job = scanner[w].job /\ to.rev = scanner[w].rev
    BY DEF BootTypeOK
  <1>2. scanner' = [scanner EXCEPT ![w] = to]
    BY DEF Moves
  <1> HIDE DEF to
  <1> QED
    BY <1>1, <1>2 DEF BootTypeOK

LEMMA MovesWith ==
    ASSUME BootTypeOK, NEW w \in Workers, NEW at, NEW n,
           Moves(w, [scanner[w] EXCEPT !.at = at, !.rev = n])
    PROVE  /\ scanner'[w].at = at /\ scanner'[w].job = scanner[w].job
           /\ scanner'[w].rev = n
           /\ \A v \in Workers : v # w => scanner'[v] = scanner[v]
  <1> DEFINE to == [scanner[w] EXCEPT !.at = at, !.rev = n]
  <1>1. to.at = at /\ to.job = scanner[w].job /\ to.rev = n
    BY DEF BootTypeOK
  <1>2. scanner' = [scanner EXCEPT ![w] = to]
    BY DEF Moves
  <1> HIDE DEF to
  <1> QED
    BY <1>1, <1>2 DEF BootTypeOK

LEMMA MovesToScan ==
    ASSUME BootTypeOK, NEW w \in Workers, LoadProgress(w)
    PROVE  /\ scanner'[w].at = "scan" /\ scanner'[w].job = scanner[w].job
           /\ scanner'[w].rev = rev /\ scanner'[w].seen = progress
           /\ \A v \in Workers : v # w => scanner'[v] = scanner[v]
  <1> DEFINE to == [scanner[w] EXCEPT !.at = "scan", !.rev = rev, !.seen = progress]
  <1>1. /\ to.at = "scan" /\ to.job = scanner[w].job /\ to.rev = rev
        /\ to.seen = progress
    BY DEF BootTypeOK
  <1>2. scanner' = [scanner EXCEPT ![w] = to]
    BY DEF LoadProgress, Moves
  <1> HIDE DEF to
  <1> QED
    BY <1>1, <1>2 DEF BootTypeOK

LEMMA MovesToAdvance ==
    ASSUME BootTypeOK, NEW w \in Workers, ScanPage(w)
    PROVE  /\ scanner'[w].at = "advance" /\ scanner'[w].job = scanner[w].job
           /\ scanner'[w].rev = scanner[w].rev
           /\ scanner'[w].next = Advanced(scanner[w].seen)
           /\ \A v \in Workers : v # w => scanner'[v] = scanner[v]
  <1> DEFINE next == Advanced(scanner[w].seen)
             to == [scanner[w] EXCEPT !.at = "advance", !.seen = Start, !.next = next]
  <1>1. scanner' = [scanner EXCEPT ![w] = to]
    BY DEF ScanPage, Moves
  <1> HIDE DEF next
  <1>2. /\ to.at = "advance" /\ to.job = scanner[w].job /\ to.rev = scanner[w].rev
        /\ to.next = next
    BY DEF BootTypeOK
  <1> HIDE DEF to
  <1>3. /\ scanner'[w].at = "advance" /\ scanner'[w].job = scanner[w].job
        /\ scanner'[w].rev = scanner[w].rev /\ scanner'[w].next = next
        /\ \A v \in Workers : v # w => scanner'[v] = scanner[v]
    BY <1>1, <1>2 DEF BootTypeOK
  <1> QED
    BY <1>3 DEF next

LEMMA ReportsType ==
    ASSUME BootTypeOK, NEW w \in Workers, NEW j \in Job, Reports(w, j)
    PROVE  /\ scanner' \in [Workers -> ScannerType]
           /\ bootJob' \in [Revisions -> Job]
           /\ bootListeners' \in SUBSET Revisions
  <1>1. scanner' \in [Workers -> ScannerType]
    BY StartIs, MovesType DEF Reports
  <1>2. scanner[w].job \in Revisions
    BY DEF BootTypeOK
  <1>3. Over(j) \in Job
    BY OverIs
  <1> QED
    BY <1>1, <1>2, <1>3 DEF Reports, BootTypeOK, bootQueueVars

LEMMA LostType ==
    ASSUME BootTypeOK
    PROVE  /\ \A set \in SUBSET Revisions : Loses(set) => lost' \subseteq Revisions
           /\ \A r : Regains(r) => lost' \subseteq Revisions
           /\ \A w \in Workers : Owes(scanner[w]) \in SUBSET Revisions
  BY DEF BootTypeOK, Loses, Regains, Owes

LEMMA BootTypeInit == BootInit => BootTypeOK
  <1> SUFFICES ASSUME BootInit PROVE BootTypeOK
    OBVIOUS
  <1>1. UnknownJob("absent") \in Job
    BY UnknownJobIsJob DEF JobState
  <1>2. scanner \in [Workers -> ScannerType]
    BY StartIs DEF BootInit
  <1>3. request \in [Requests -> RequestType]
    BY ReadyIs DEF BootInit
  <1>4. bootFaults \in 0..MaxBootFaults
    BY BootstrapAssumption DEF BootInit
  <1> QED
    BY <1>1, <1>2, <1>3, <1>4, StartIs
    DEF BootInit, BootTypeOK, SyncStates, ScannerType, RequestType

\* The types of what the database, the queue and its users hold.
LEMMA BootTypeNext == BootTypeOK /\ [BootNext]_bootVars => BootTypeOK'
  <1> SUFFICES ASSUME BootTypeOK, [BootNext]_bootVars PROVE BootTypeOK'
    OBVIOUS
  <1>0. /\ scanner \in [Workers -> ScannerType]
        /\ request \in [Requests -> RequestType]
        /\ \A r \in Revisions : bootJob[r] \in Job
        /\ catalogue \subseteq Products
    BY DEF BootTypeOK, ScannerType, RequestType
  <1>1. ASSUME NEW w \in Workers
        PROVE  /\ scanner[w] \in ScannerType /\ scanner[w].job \in Revisions
               /\ scanner[w].rev \in Revisions
               /\ scanner[w].seen \in Progress /\ scanner[w].next \in Progress
               /\ \A at \in ScannerStep :
                     /\ [scanner[w] EXCEPT !.at = at] \in ScannerType
                     /\ [Off EXCEPT !.at = at, !.job = scanner[w].job] \in ScannerType
                     /\ [scanner[w] EXCEPT !.at = at, !.rev = rev] \in ScannerType
    <2>1. scanner[w] \in ScannerType
      BY <1>0
    <2>2. rev \in Revisions
      BY DEF BootTypeOK
    <2> QED
      BY <2>1, <2>2, StartIs DEF ScannerType
  <1>2. ASSUME NEW w \in Workers
        PROVE  LET j == bootJob[scanner[w].job]
               IN  /\ Finished(j) \in Job /\ Retried(j) \in Job /\ Buried(j) \in Job
    BY <1>0, <1>1, JobOperators
  <1>3. ASSUME NEW q \in Requests, NEW at \in {"new", "start", "read", "enqueue", "done"}
        PROVE  /\ [Ready(at) EXCEPT !.was = sync] \in RequestType
               /\ [Ready(at) EXCEPT !.rev = rev] \in RequestType
               /\ Ready(at) \in RequestType
    <2>1. rev \in Revisions /\ sync \in SyncStates
      BY DEF BootTypeOK
    <2> QED
      BY <2>1, ReadyIs DEF RequestType
  <1>4. ASSUME NEW q \in Requests, NEW to \in RequestType, RequestMoves(q, to)
        PROVE  request' \in [Requests -> RequestType]
    BY <1>0, <1>4 DEF RequestMoves
  <1>5. ASSUME NEW w \in Workers, NEW r \in Revisions, TakeJob(w, r)
        PROVE  BootTypeOK'
    <2>1. /\ Over(Buried(bootJob[r])) \in Job /\ Fetched(bootJob[r], w) \in Job
          /\ [Off EXCEPT !.at = "claim", !.job = r] \in ScannerType
      BY <1>0, JobOperators, OverIs, StartIs DEF ScannerType, ScannerStep
    <2>2. /\ bootJob' \in [Revisions -> Job] /\ bootListeners' \in SUBSET Revisions
          /\ scanner' \in [Workers -> ScannerType]
      BY <1>0, <1>5, <2>1, MovesType DEF TakeJob, BootTypeOK
    <2> QED
      BY <1>5, <2>2 DEF TakeJob, BootTypeOK, storeVars, bootCounts, ScannerType
  <1>6. ASSUME NEW w \in Workers,
               ClaimRevision(w) \/ LoadProgress(w) \/ ScanPage(w) \/ ReloadStore(w)
        PROVE  BootTypeOK'
    <2>1. progress \in Progress /\ rev \in Revisions
      BY DEF BootTypeOK
    <2>2. /\ [scanner[w] EXCEPT !.at = "scan", !.rev = rev, !.seen = progress]
                \in ScannerType
          /\ [scanner[w] EXCEPT !.at = "advance", !.seen = Start,
                                !.next = Advanced(scanner[w].seen)] \in ScannerType
      <3>1. Advanced(scanner[w].seen) \in Progress
        BY <1>0, <1>1, AdvancedIs
      <3>2. scanner[w] \in ScannerType
        BY <1>1
      <3> QED
        BY <2>1, <3>1, <3>2, StartIs DEF ScannerType, ScannerStep
    <2>3. scanner' \in [Workers -> ScannerType]
      BY <1>1, <1>6, <2>2, MovesType
      DEF ClaimRevision, LoadProgress, ScanPage, ReloadStore, ScannerStep
    <2>4. covered' \in SUBSET (Products \X Nat)
      BY <1>0, <1>1, <1>6, ScannedIs
      DEF ClaimRevision, LoadProgress, ScanPage, ReloadStore, BootTypeOK
    <2> QED
      BY <1>6, <2>3, <2>4
      DEF ClaimRevision, LoadProgress, ScanPage, ReloadStore, BootTypeOK, storeVars,
          bootQueueVars, bootCounts, ScannerType
  <1>7. ASSUME NEW w \in Workers, ResolveRevision(w)
        PROVE  BootTypeOK'
    <2>1. /\ scanner' \in [Workers -> ScannerType]
          /\ bootJob' \in [Revisions -> Job] /\ bootListeners' \in SUBSET Revisions
      <3>1. CASE sync # "READY" /\ rev > scanner[w].job
        <4>1. UNCHANGED <<bootJob, bootListeners>>
              /\ Moves(w, [scanner[w] EXCEPT !.at = "next", !.rev = rev])
          BY <1>7, <3>1 DEF ResolveRevision, bootQueueVars
        <4>2. scanner' \in [Workers -> ScannerType]
          BY <1>1, <4>1, MovesType DEF ScannerStep
        <4> QED
          BY <4>1, <4>2 DEF BootTypeOK
      <3>2. CASE ~(sync # "READY" /\ rev > scanner[w].job)
        <4>1. PICK j \in Job : Reports(w, j)
          BY <1>2, <1>7, <3>2 DEF ResolveRevision
        <4> QED
          BY <4>1, ReportsType
      <3> QED
        BY <3>1, <3>2
    <2> QED
      BY <1>7, <2>1 DEF ResolveRevision, BootTypeOK, storeVars, bootCounts, ScannerType
  <1>8. ASSUME NEW w \in Workers, AdvanceProgress(w)
        PROVE  BootTypeOK'
    <2>1. /\ scanner' \in [Workers -> ScannerType]
          /\ bootJob' \in [Revisions -> Job] /\ bootListeners' \in SUBSET Revisions
      <3>1. CASE Reports(w, Finished(bootJob[scanner[w].job]))
        BY <1>2, <3>1, ReportsType
      <3>2. CASE /\ UNCHANGED bootQueueVars
                 /\ \E at \in {"reload", "bury"} :
                       Moves(w, [Off EXCEPT !.at = at, !.job = scanner[w].job])
        <4>1. scanner' \in [Workers -> ScannerType]
          BY <1>1, <3>2, MovesType DEF ScannerStep
        <4> QED
          BY <3>2, <4>1 DEF BootTypeOK, bootQueueVars
      <3> QED
        BY <1>8, <3>1, <3>2 DEF AdvanceProgress
    <2>2. /\ progress' \in Progress /\ rev' \in Revisions /\ sync' \in SyncStates
          /\ lease' \in Workers \cup {NoWorker} /\ old' \in BOOLEAN
      <3>1. CASE UNCHANGED storeVars
        BY <3>1 DEF storeVars, BootTypeOK
      <3>2. CASE ~UNCHANGED storeVars
        <4>1. /\ progress' = scanner[w].next /\ rev' = rev + 1 /\ rev < MaxRevisions
              /\ sync' \in {"READY", "SYNCING"} /\ lease' = NoWorker /\ old' = FALSE
          BY <1>8, <3>2 DEF AdvanceProgress
        <4>2. rev' \in Revisions
          BY <4>1, BootstrapAssumption DEF BootTypeOK, Revisions
        <4> QED
          BY <1>1, <4>1, <4>2 DEF SyncStates
      <3> QED
        BY <3>1, <3>2
    <2> QED
      BY <1>8, <2>1, <2>2 DEF AdvanceProgress, BootTypeOK, bootCounts, ScannerType
  <1>9. ASSUME NEW w \in Workers, EnqueueNext(w)
        PROVE  BootTypeOK'
    <2> DEFINE added == [bootJob EXCEPT ![scanner[w].rev] = Added(bootJob[scanner[w].rev])]
    <2>1. added \in [Revisions -> Job]
      BY <1>0, <1>1, JobOperators DEF BootTypeOK
    <2>2. \A r \in Revisions : Over(Finished(added[r])) \in Job
      BY <2>1, JobOperators, OverIs
    <2>3. bootJob' = added \/ bootJob' = [added EXCEPT ![scanner[w].job] =
                                             Over(Finished(added[scanner[w].job]))]
      BY <1>9 DEF EnqueueNext
    <2>4. bootJob' \in [Revisions -> Job]
      <3> HIDE DEF added
      <3> QED
        BY <1>1, <2>1, <2>2, <2>3
    <2>5. scanner' \in [Workers -> ScannerType]
      BY <1>9, StartIs, MovesType DEF EnqueueNext
    <2>6. lost' \subseteq Revisions
      BY <1>9, LostType DEF EnqueueNext
    <2> QED
      BY <1>9, <2>4, <2>5, <2>6 DEF EnqueueNext, BootTypeOK, storeVars, ScannerType
  <1>10. ASSUME Fault
         PROVE  bootFaults' \in 0..MaxBootFaults
    BY <1>10, BootstrapAssumption DEF Fault, BootTypeOK
  <1>11. ASSUME NEW w \in Workers, UnitFails(w)
         PROVE  BootTypeOK'
    <2>1. /\ scanner' \in [Workers -> ScannerType]
          /\ bootJob' \in [Revisions -> Job] /\ bootListeners' \in SUBSET Revisions
      <3>1. CASE Reports(w, Retried(bootJob[scanner[w].job]))
        BY <1>2, <3>1, ReportsType
      <3>2. CASE /\ UNCHANGED bootQueueVars
                 /\ \E at \in {"retry", "bury"} :
                       Moves(w, [Off EXCEPT !.at = at, !.job = scanner[w].job])
        <4>1. scanner' \in [Workers -> ScannerType]
          BY <1>1, <3>2, MovesType DEF ScannerStep
        <4> QED
          BY <3>2, <4>1 DEF BootTypeOK, bootQueueVars
      <3> QED
        BY <1>11, <3>1, <3>2 DEF UnitFails
    <2>2. lost' \subseteq Revisions /\ Fault
      BY <1>11, LostType DEF UnitFails, BootTypeOK
    <2> QED
      BY <1>10, <1>11, <2>1, <2>2 DEF UnitFails, BootTypeOK, storeVars, ScannerType
  <1>12. ASSUME NEW w \in Workers, ReleaseLease(w)
         PROVE  BootTypeOK'
    <2>1. PICK j \in Job : Reports(w, j)
      BY <1>2, <1>12 DEF ReleaseLease
    <2>2. /\ scanner' \in [Workers -> ScannerType]
          /\ bootJob' \in [Revisions -> Job] /\ bootListeners' \in SUBSET Revisions
      BY <2>1, ReportsType
    <2> QED
      BY <1>12, <2>2 DEF ReleaseLease, BootTypeOK, bootCounts, ScannerType
  <1>13. ASSUME NEW w \in Workers, WorkerDies(w)
         PROVE  BootTypeOK'
    <2>1. scanner' \in [Workers -> ScannerType]
      BY <1>13, StartIs, MovesType DEF WorkerDies
    <2>2. lost' \subseteq Revisions
      <3>1. Owes(scanner[w]) \cup bootListeners \in SUBSET Revisions
        BY LostType DEF BootTypeOK
      <3> QED
        BY <1>13, <3>1, LostType DEF WorkerDies
    <2> QED
      BY <1>10, <1>13, <2>1, <2>2 DEF WorkerDies, BootTypeOK, storeVars, ScannerType
  <1>14. ASSUME NEW r \in Revisions, BootMarkFailed(r) \/ MarkFailedFails(r)
         PROVE  BootTypeOK'
    <2>1. CASE BootMarkFailed(r)
      BY <2>1 DEF BootMarkFailed, BootTypeOK, bootCounts, SyncStates
    <2>2. CASE MarkFailedFails(r)
      <3>1. lost' \subseteq Revisions
        BY <2>2, LostType DEF MarkFailedFails
      <3> QED
        BY <1>10, <2>2, <3>1 DEF MarkFailedFails, BootTypeOK, storeVars
    <2> QED
      BY <1>14, <2>1, <2>2
  <1>15. ASSUME NEW r \in Revisions, JobStalls(r)
         PROVE  BootTypeOK'
    <2>1. Stalled(bootJob[r]) \in Job
      BY <1>0, JobOperators
    <2>2. bootJob' \in [Revisions -> Job]
      BY <1>15, <2>1 DEF JobStalls, BootTypeOK
    <2> QED
      BY <1>10, <1>15, <2>2 DEF JobStalls, BootTypeOK, storeVars
  <1>16. ASSUME NEW q \in Requests, ReadState(q) \/ ReadRevision(q) \/ AskAgain(q)
         PROVE  BootTypeOK'
    <2>1. \E to \in RequestType : RequestMoves(q, to)
      BY <1>3, <1>16 DEF ReadState, ReadRevision, AskAgain
    <2>2. request' \in [Requests -> RequestType]
      BY <1>4, <2>1
    <2> QED
      BY <1>16, <2>2
      DEF ReadState, ReadRevision, AskAgain, BootTypeOK, storeVars, bootQueueVars,
          bootCounts, RequestType
  <1>17. ASSUME NEW q \in Requests, StartScan(q)
         PROVE  BootTypeOK'
    <2>1. request' \in [Requests -> RequestType]
      BY <1>3, <1>4, <1>17 DEF StartScan
    <2>2. rev' \in Revisions /\ sync' \in SyncStates
      BY <1>17, BootstrapAssumption DEF StartScan, BootTypeOK, Revisions, SyncStates
    <2> QED
      BY <1>17, <2>1, <2>2
      DEF StartScan, BootTypeOK, bootQueueVars, bootCounts, RequestType
  <1>18. ASSUME NEW q \in Requests, EnqueueRevision(q)
         PROVE  BootTypeOK'
    <2>1. request' \in [Requests -> RequestType]
      BY <1>3, <1>4, <1>18 DEF EnqueueRevision
    <2>2. \A r \in Revisions : Added(bootJob[r]) \in Job
      BY <1>0, JobOperators
    <2>3. bootJob' \in [Revisions -> Job]
      BY <1>18, <2>2 DEF EnqueueRevision, BootTypeOK
    <2>4. lost' \subseteq Revisions
      BY <1>18, LostType DEF EnqueueRevision
    <2> QED
      BY <1>18, <2>1, <2>3, <2>4
      DEF EnqueueRevision, BootTypeOK, storeVars, RequestType
  <1>19. ASSUME NEW q \in Requests, EnqueueRevisionFails(q) \/ RequestFails(q)
         PROVE  BootTypeOK'
    <2>1. request' \in [Requests -> RequestType]
      BY <1>3, <1>4, <1>19 DEF EnqueueRevisionFails, RequestFails
    <2>2. request[q].rev \in Revisions /\ rev \in Revisions
      BY DEF BootTypeOK
    <2>3. CASE EnqueueRevisionFails(q)
      <3>1. \A r \in Revisions : Added(bootJob[r]) \in Job
        BY <1>0, JobOperators
      <3>2. bootJob' \in [Revisions -> Job]
        BY <2>3, <3>1 DEF EnqueueRevisionFails, BootTypeOK
      <3>3. lost' \subseteq Revisions
        BY <2>2, <2>3, LostType DEF EnqueueRevisionFails
      <3> QED
        BY <1>10, <2>1, <2>3, <3>2, <3>3
        DEF EnqueueRevisionFails, BootTypeOK, RequestType
    <2>4. CASE RequestFails(q)
      <3>1. lost' \subseteq Revisions
        BY <2>2, <2>4, LostType DEF RequestFails
      <3> QED
        BY <1>10, <2>1, <2>4, <3>1
        DEF RequestFails, BootTypeOK, storeVars, bootQueueVars, RequestType
    <2> QED
      BY <1>19, <2>3, <2>4
  <1>20. CASE Vanish \/ LeaseRunsOut \/ UNCHANGED bootVars
    BY <1>20
    DEF Vanish, LeaseRunsOut, bootVars, BootTypeOK, storeVars, bootQueueVars, bootCounts
  <1> QED
    BY <1>5, <1>6, <1>7, <1>8, <1>9, <1>11, <1>12, <1>13, <1>14, <1>15, <1>16, <1>17,
       <1>18, <1>19, <1>20 DEF BootNext

-----------------------------------------------------------------------------
(* A scan that is over has covered everything.                             *)

\* Tagging the elements of a finite set makes as many pairs.
LEMMA Tagged ==
    ASSUME NEW S, IsFiniteSet(S), NEW x
    PROVE  /\ Cardinality({<<p, x>> : p \in S}) = Cardinality(S)
           /\ Cardinality({<<x, p>> : p \in S}) = Cardinality(S)
  <1> DEFINE A == {<<p, x>> : p \in S}
             B == {<<x, p>> : p \in S}
             f == [p \in S |-> <<p, x>>]
             g == [p \in S |-> <<x, p>>]
  <1>1. f \in Bijection(S, A)
    <2>1. f \in [S -> A] /\ (\A p, q \in S : f[p] = f[q] => p = q)
      OBVIOUS
    <2>2. \A t \in A : \E p \in S : f[p] = t
      OBVIOUS
    <2> HIDE DEF f, A
    <2> QED
      BY <2>1, <2>2 DEF Bijection, Injection, Surjection, IsInjective
  <1>2. g \in Bijection(S, B)
    <2>1. g \in [S -> B] /\ (\A p, q \in S : g[p] = g[q] => p = q)
      OBVIOUS
    <2>2. \A t \in B : \E p \in S : g[p] = t
      OBVIOUS
    <2> HIDE DEF g, B
    <2> QED
      BY <2>1, <2>2 DEF Bijection, Injection, Surjection, IsInjective
  <1>3. ExistsBijection(S, A) /\ ExistsBijection(S, B)
    BY <1>1, <1>2 DEF ExistsBijection
  <1> HIDE DEF A, B
  <1>4. Cardinality(A) = Cardinality(S) /\ Cardinality(B) = Cardinality(S)
    BY <1>3, FS_Bijection
  <1> QED
    BY <1>4 DEF A, B

\* A page of products has as many as it has places.
LEMMA ProductsPage ==
    ASSUME catalogue = Products, NEW page \in Nat \ {0},
           Cardinality(ProductsOn(page)) # PageSize
    PROVE  \A p \in Products : Rank(p) <= page * PageSize
  <1> DEFINE n == Cardinality(Products)
             onPage == {k \in 1..n : OnPage(k, page)}
             f == [p \in ProductsOn(page) |-> Rank(p)]
  <1>1. Products \in SUBSET Nat /\ IsFiniteSet(Products)
    BY BootstrapAssumption
  <1>2. \A p : Rank(p) = Place(Products, p)
    BY DEF Rank, Place
  <1>3. /\ n \in Nat /\ \A p \in Products : Rank(p) \in 1..n
        /\ \A p, q \in Products : p < q => Rank(p) < Rank(q)
        /\ \A k \in 1..n : \E p \in Products : Rank(p) = k
    BY <1>1, <1>2, Places
  <1>4. ProductsOn(page) = {p \in Products : OnPage(Rank(p), page)}
    BY DEF ProductsOn
  <1>5. \A p, q \in Products : Rank(p) = Rank(q) => p = q
    <2>1. ASSUME NEW p \in Products, NEW q \in Products, Rank(p) = Rank(q), p # q
          PROVE  FALSE
      <3>1. p < q \/ q < p
        BY <1>1, <2>1
      <3>2. Rank(p) < Rank(q) \/ Rank(q) < Rank(p)
        BY <1>3, <3>1
      <3>3. Rank(p) \in Nat
        BY <1>3
      <3> QED
        BY <2>1, <3>2, <3>3
    <2> QED
      BY <2>1
  <1>6. f \in [ProductsOn(page) -> onPage]
    BY <1>3, <1>4
  <1>7. /\ \A p, q \in ProductsOn(page) : f[p] = f[q] => p = q
        /\ \A k \in onPage : \E p \in ProductsOn(page) : f[p] = k
    BY <1>3, <1>4, <1>5
  <1>8. f \in Bijection(ProductsOn(page), onPage)
    <2> HIDE DEF f, onPage
    <2> QED
      BY <1>6, <1>7 DEF Bijection, Injection, Surjection, IsInjective
  <1>9. IsFiniteSet(ProductsOn(page)) /\ ExistsBijection(ProductsOn(page), onPage)
    BY <1>1, <1>4, <1>8, FS_Subset DEF ExistsBijection
  <1>10. Cardinality(onPage) # PageSize
    <2> HIDE DEF onPage
    <2> QED
      BY <1>9, FS_Bijection
  <1>11. \A k \in 1..n : k <= page * PageSize
    BY <1>3, <1>10, LastPage
  <1> QED
    BY <1>3, <1>11

LEMMA BehindStays ==
    ASSUME NEW s, Behind(s), catalogue' = catalogue, covered \subseteq covered'
    PROVE  Behind(s)'
  BY DEF Behind, Rank

\* The page that a progress is about takes it to the next.
LEMMA AdvanceCovers ==
    ASSUME catalogue = Products, NEW s \in Progress, Behind(s),
           NEW t, t = Advanced(s), catalogue' = catalogue,
           covered' = covered \cup Scanned(s)
    PROVE  Behind(t)'
  <1> DEFINE full == Cardinality(Scanned(s)) = PageSize
  <1>0. /\ s.page \in Nat \ {0} /\ s.parents \in Seq(Products) /\ s.vpage \in Nat \ {0}
        /\ s = [page |-> s.page, parents |-> s.parents, vpage |-> s.vpage,
                done |-> s.done]
        /\ PageSize \in Nat \ {0} /\ Variations \in [Products -> Nat]
    BY BootstrapAssumption DEF Progress
  <1>1. /\ \A p : Rank(p)' = Rank(p)
        /\ covered \subseteq covered' /\ Scanned(s) \subseteq covered'
    BY DEF Rank
  <1>2. CASE s.parents # <<>>
    <2> DEFINE h == Head(s.parents)
               on == VariationsOn(h, s.vpage)
    <2>1. h \in Products /\ Variations[h] \in Nat
      BY <1>0, <1>2
    <2>2. /\ on = {v \in 1..Variations[h] : OnPage(v, s.vpage)}
          /\ Scanned(s) = {<<h, v>> : v \in on}
      BY <1>2, <2>1 DEF VariationsOn, Scanned
    <2>3. Cardinality(Scanned(s)) = Cardinality(on)
      <3>1. IsFiniteSet(1..Variations[h])
        BY <2>1, FS_Interval
      <3>2. IsFiniteSet(on)
        BY <2>2, <3>1, FS_Subset
      <3> HIDE DEF on, h
      <3>3. Cardinality({<<h, p>> : p \in on}) = Cardinality(on)
        BY <3>2, Tagged, ZenonT(40)
      <3> QED
        BY <2>2, <3>3
    <2>4. \A v \in 1..Variations[h] : v <= s.vpage * PageSize => <<h, v>> \in covered'
      <3>1. ASSUME NEW v \in 1..Variations[h], v <= s.vpage * PageSize
            PROVE  v <= (s.vpage - 1) * PageSize \/ v \in on
        BY <1>0, <2>1, <2>2, <3>1, PageGrows
      <3>2. \A v \in 1..Variations[h] : v <= (s.vpage - 1) * PageSize => <<h, v>> \in covered
        BY <1>2 DEF Behind
      <3> QED
        BY <1>1, <2>2, <3>1, <3>2
    <2>5. CASE full
      <3>1. /\ t.page = s.page /\ t.done = s.done /\ t.parents = s.parents
            /\ t.vpage = s.vpage + 1
        BY <1>0, <1>2, <2>5 DEF Advanced
      <3>2. (t.vpage - 1) * PageSize = s.vpage * PageSize
        BY <1>0, <3>1
      <3> QED
        BY <1>1, <1>2, <2>4, <3>1, <3>2 DEF Behind
    <2>6. CASE ~full
      <3>1. /\ t.page = s.page /\ t.done = s.done /\ t.parents = Tail(s.parents)
            /\ t.vpage = 1
        BY <1>0, <1>2, <2>6 DEF Advanced
      <3>2. Cardinality({v \in 1..Variations[h] : OnPage(v, s.vpage)}) # PageSize
        BY <2>2, <2>3, <2>6
      <3>3. \A v \in 1..Variations[h] : v <= s.vpage * PageSize
        BY <1>0, <2>1, <3>2, LastPage
      <3>4. \A v \in 1..Variations[h] : <<h, v>> \in covered'
        BY <2>4, <3>3
      <3>5. ASSUME NEW i \in DOMAIN s.parents
            PROVE  s.parents[i] = h \/ \E j \in DOMAIN Tail(s.parents) :
                                          Tail(s.parents)[j] = s.parents[i]
        <4>1. i \in Nat /\ (i = 1 \/ i - 1 \in DOMAIN Tail(s.parents))
          BY <1>0, <1>2
        <4>2. CASE i = 1
          BY <1>0, <1>2, <4>2
        <4>3. CASE i # 1
          <5>1. Tail(s.parents)[i - 1] = s.parents[i]
            BY <1>0, <1>2, <4>1, <4>3
          <5> QED
            BY <4>1, <4>3, <5>1
        <4> QED
          BY <4>2, <4>3
      <3>6. ASSUME NEW p \in Products, s.done \/ Rank(p) <= (s.page - 1) * PageSize
            PROVE  /\ <<p, 0>> \in covered'
                   /\ \/ \A v \in 1..Variations[p] : <<p, v>> \in covered'
                      \/ \E i \in DOMAIN t.parents : t.parents[i] = p
        BY <1>1, <3>1, <3>4, <3>5, <3>6 DEF Behind
      <3>7. \A v \in Nat \ {0} : ~(v <= (t.vpage - 1) * PageSize)
        BY <1>0, <3>1
      <3>8. t.parents # <<>> => \A v \in 1..Variations[Head(t.parents)] :
               v <= (t.vpage - 1) * PageSize => <<Head(t.parents), v>> \in covered'
        <4>1. \A n : \A v \in 1..n : v \in Nat \ {0} \/ n \notin Nat
          OBVIOUS
        <4>2. t.parents # <<>> => Head(t.parents) \in Products
          <5>1. t.parents \in Seq(Products)
            BY <1>0, <1>2, <3>1
          <5> QED
            BY <5>1
        <4>3. t.parents # <<>> => Variations[Head(t.parents)] \in Nat
          BY <1>0, <4>2
        <4> QED
          BY <3>7, <4>1, <4>3
      <3> QED
        BY <1>1, <3>1, <3>6, <3>8 DEF Behind
    <2> QED
      BY <2>5, <2>6
  <1>3. CASE s.parents = <<>> /\ s.done
    <2>1. t = s
      BY <1>3 DEF Advanced
    <2> QED
      BY <1>1, <2>1, BehindStays
  <1>4. CASE s.parents = <<>> /\ ~s.done
    <2> DEFINE on == ProductsOn(s.page)
               new == {p \in on : Variations[p] > 0}
    <2>1. /\ t.page = s.page + 1 /\ t.vpage = 1 /\ t.done = ~full
          /\ t.parents = ParentsIn(new)
      BY <1>4 DEF Advanced
    <2>2. /\ Scanned(s) = {<<p, 0>> : p \in on} /\ on \subseteq Products
          /\ on = {p \in Products : OnPage(Rank(p), s.page)}
      BY <1>4 DEF Scanned, ProductsOn
    <2>3. Cardinality(Scanned(s)) = Cardinality(on)
      <3>1. IsFiniteSet(on)
        BY <2>2, BootstrapAssumption, FS_Subset
      <3> HIDE DEF on
      <3>2. Cardinality({<<p, 0>> : p \in on}) = Cardinality(on)
        BY <3>1, Tagged, ZenonT(40)
      <3> QED
        BY <2>2, <3>2
    <2>4. /\ \A p \in new : \E i \in DOMAIN ParentsIn(new) : ParentsIn(new)[i] = p
          /\ ParentsIn(new) \in Seq(Products)
      <3>1. new \in SUBSET Nat /\ IsFiniteSet(new) /\ new \subseteq Products
        BY <2>2, BootstrapAssumption, FS_Subset
      <3> HIDE DEF new
      <3> QED
        BY <3>1, ParentsAre
    <2>5. ASSUME NEW p \in Products, t.done \/ Rank(p) <= (t.page - 1) * PageSize
          PROVE  /\ <<p, 0>> \in covered'
                 /\ \/ \A v \in 1..Variations[p] : <<p, v>> \in covered'
                    \/ \E i \in DOMAIN t.parents : t.parents[i] = p
      <3>1. (t.page - 1) * PageSize = s.page * PageSize
        BY <1>0, <2>1
      <3>2. Rank(p) <= s.page * PageSize
        <4>1. CASE t.done
          <5>1. Cardinality(ProductsOn(s.page)) # PageSize
            BY <2>1, <2>3, <4>1
          <5> QED
            BY <1>0, <5>1, ProductsPage
        <4>2. CASE ~t.done
          BY <2>5, <3>1, <4>2
        <4> QED
          BY <4>1, <4>2
      <3>3. Rank(p) \in Nat
        <4>1. {q \in Products : q <= p} \in SUBSET Products
          OBVIOUS
        <4>2. IsFiniteSet({q \in Products : q <= p})
          BY <4>1, BootstrapAssumption, FS_Subset
        <4> QED
          BY <4>2, FS_CardinalityType DEF Rank
      <3>4. CASE Rank(p) <= (s.page - 1) * PageSize
        <4>1. /\ <<p, 0>> \in covered
              /\ \/ \A v \in 1..Variations[p] : <<p, v>> \in covered
                 \/ \E i \in DOMAIN s.parents : s.parents[i] = p
          BY <3>4 DEF Behind
        <4>2. DOMAIN s.parents = {}
          BY <1>4
        <4> QED
          BY <1>1, <4>1, <4>2
      <3>5. CASE OnPage(Rank(p), s.page)
        <4>1. p \in on /\ <<p, 0>> \in covered'
          BY <1>1, <2>2, <3>5
        <4>2. CASE Variations[p] > 0
          BY <2>1, <2>4, <4>1, <4>2
        <4>3. CASE ~(Variations[p] > 0)
          <5>1. Variations[p] = 0
            BY <1>0, <4>3
          <5>2. 1..Variations[p] = {}
            BY <5>1
          <5> QED
            BY <4>1, <5>2
        <4> QED
          BY <4>1, <4>2, <4>3
      <3> QED
        BY <1>0, <3>2, <3>3, <3>4, <3>5, PageGrows
    <2>6. t.parents # <<>> => \A v \in 1..Variations[Head(t.parents)] :
             v <= (t.vpage - 1) * PageSize => <<Head(t.parents), v>> \in covered'
      <3>1. t.parents # <<>> => Head(t.parents) \in Products
        BY <2>1, <2>4
      <3>2. t.parents # <<>> => Variations[Head(t.parents)] \in Nat
        BY <1>0, <3>1
      <3>3. (t.vpage - 1) * PageSize = 0
        BY <1>0, <2>1
      <3> QED
        BY <3>2, <3>3
    <2> QED
      BY <1>1, <2>5, <2>6 DEF Behind
  <1> QED
    BY <1>2, <1>3, <1>4

\* A step that reads no page and moves the progress of none.
LEMMA CoverStays ==
    ASSUME CoverInv, UNCHANGED <<catalogue, progress>>, covered \subseteq covered',
           \A w \in Workers :
              /\ scanner'[w].at = "scan" =>
                    \/ scanner[w].at = "scan" /\ scanner'[w].seen = scanner[w].seen
                    \/ scanner'[w].seen = progress
              /\ scanner'[w].at = "advance" =>
                    scanner[w].at = "advance" /\ scanner'[w].next = scanner[w].next
    PROVE  CoverInv'
  <1> SUFFICES ASSUME catalogue = Products
               PROVE  /\ Behind(progress)'
                      /\ \A w \in Workers :
                            /\ scanner'[w].at = "scan" => Behind(scanner[w].seen)'
                            /\ scanner'[w].at = "advance" => Behind(scanner[w].next)'
    BY DEF CoverInv
  <1>1. \A s : Behind(s) => Behind(s)'
    BY BehindStays
  <1>2. PICK p : p = progress
    OBVIOUS
  <1>3. Behind(p) /\ p = progress'
    BY <1>2 DEF CoverInv
  <1>4. Behind(progress)'
    BY <1>1, <1>3 DEF Behind
  <1>5. ASSUME NEW w \in Workers, scanner'[w].at = "scan"
        PROVE  Behind(scanner[w].seen)'
    <2>1. PICK s : s = scanner'[w].seen
      OBVIOUS
    <2>2. Behind(s)
      BY <1>2, <1>3, <1>5, <2>1 DEF CoverInv
    <2> QED
      BY <1>1, <2>1, <2>2 DEF Behind
  <1>6. ASSUME NEW w \in Workers, scanner'[w].at = "advance"
        PROVE  Behind(scanner[w].next)'
    <2>1. PICK s : s = scanner'[w].next
      OBVIOUS
    <2>2. Behind(s)
      BY <1>6, <2>1 DEF CoverInv
    <2> QED
      BY <1>1, <2>1, <2>2 DEF Behind
  <1> QED
    BY <1>4, <1>5, <1>6

LEMMA CoverScan ==
    ASSUME BootTypeOK, CoverInv, NEW w \in Workers, ScanPage(w)
    PROVE  CoverInv'
  <1> SUFFICES ASSUME catalogue = Products
               PROVE  /\ Behind(progress)'
                      /\ \A v \in Workers :
                            /\ scanner'[v].at = "scan" => Behind(scanner[v].seen)'
                            /\ scanner'[v].at = "advance" => Behind(scanner[v].next)'
    BY DEF CoverInv, ScanPage
  <1>1. PICK s : s = scanner[w].seen
    OBVIOUS
  <1>2. PICK t : t = Advanced(s)
    OBVIOUS
  <1>3. /\ s \in Progress /\ Behind(s)
        /\ catalogue' = catalogue /\ covered' = covered \cup Scanned(s)
        /\ progress' = progress
    BY <1>1 DEF ScanPage, CoverInv, BootTypeOK, storeVars
  <1>4. Behind(t)'
    BY <1>2, <1>3, AdvanceCovers
  <1>5. \A r : Behind(r) => Behind(r)'
    BY <1>3, BehindStays
  <1>6. /\ scanner'[w].at = "advance" /\ scanner'[w].next = t
        /\ \A v \in Workers : v # w => scanner'[v] = scanner[v]
    BY <1>1, <1>2, MovesToAdvance
  <1>7. Behind(progress)'
    <2>1. PICK p : p = progress
      OBVIOUS
    <2>2. Behind(p)'
      BY <1>5, <2>1 DEF CoverInv
    <2> QED
      BY <1>3, <2>1, <2>2 DEF Behind
  <1>8. ASSUME NEW v \in Workers, v # w, scanner'[v].at = "scan"
        PROVE  Behind(scanner[v].seen)'
    <2>1. PICK p : p = scanner[v].seen
      OBVIOUS
    <2>2. Behind(p)'
      BY <1>5, <1>6, <1>8, <2>1 DEF CoverInv
    <2> QED
      BY <1>6, <1>8, <2>1, <2>2 DEF Behind
  <1>9. ASSUME NEW v \in Workers, v # w, scanner'[v].at = "advance"
        PROVE  Behind(scanner[v].next)'
    <2>1. PICK p : p = scanner[v].next
      OBVIOUS
    <2>2. Behind(p)'
      BY <1>5, <1>6, <1>9, <2>1 DEF CoverInv
    <2> QED
      BY <1>6, <1>9, <2>1, <2>2 DEF Behind
  <1>10. Behind(scanner[w].next)'
    BY <1>4, <1>6 DEF Behind
  <1> QED
    BY <1>6, <1>7, <1>8, <1>9, <1>10

\* The progress that is written is one that was reached, by this worker or before.
LEMMA CoverAdvance ==
    ASSUME BootTypeOK, CoverInv, NEW w \in Workers, AdvanceProgress(w)
    PROVE  CoverInv'
  <1> SUFFICES ASSUME catalogue = Products
               PROVE  /\ Behind(progress)'
                      /\ \A v \in Workers :
                            /\ scanner'[v].at = "scan" => Behind(scanner[v].seen)'
                            /\ scanner'[v].at = "advance" => Behind(scanner[v].next)'
    BY DEF CoverInv, AdvanceProgress
  <1>1. /\ catalogue' = catalogue /\ covered' = covered /\ scanner[w].at = "advance"
        /\ progress' \in {progress, scanner[w].next}
    BY DEF AdvanceProgress, storeVars
  <1>2. /\ scanner'[w].at \notin {"scan", "advance"}
        /\ \A v \in Workers : v # w => scanner'[v] = scanner[v]
    <2>1. CASE Moves(w, Off)
      BY <2>1, MovesOff
    <2>2. CASE \E at \in {"reload", "bury"} :
                  Moves(w, [Off EXCEPT !.at = at, !.job = scanner[w].job])
      BY <2>2, MovesTo
    <2> QED
      BY <2>1, <2>2 DEF AdvanceProgress, Reports
  <1>3. \A r : Behind(r) => Behind(r)'
    BY <1>1, BehindStays
  <1>4. Behind(progress)'
    <2>1. PICK p : p = progress'
      OBVIOUS
    <2>2. Behind(p)
      BY <1>1, <2>1 DEF CoverInv
    <2> QED
      BY <1>3, <2>1, <2>2 DEF Behind
  <1>5. ASSUME NEW v \in Workers, scanner'[v].at = "scan"
        PROVE  Behind(scanner[v].seen)'
    <2>1. PICK p : p = scanner'[v].seen
      OBVIOUS
    <2>2. Behind(p)
      BY <1>2, <1>5, <2>1 DEF CoverInv
    <2> QED
      BY <1>3, <2>1, <2>2 DEF Behind
  <1>6. ASSUME NEW v \in Workers, scanner'[v].at = "advance"
        PROVE  Behind(scanner[v].next)'
    <2>1. PICK p : p = scanner'[v].next
      OBVIOUS
    <2>2. Behind(p)
      BY <1>2, <1>6, <2>1 DEF CoverInv
    <2> QED
      BY <1>3, <2>1, <2>2 DEF Behind
  <1> QED
    BY <1>4, <1>5, <1>6

LEMMA CoverNext == BootTypeOK /\ CoverInv /\ [BootNext]_bootVars => CoverInv'
  <1> SUFFICES ASSUME BootTypeOK, CoverInv, [BootNext]_bootVars PROVE CoverInv'
    OBVIOUS
  <1> USE DEF storeVars
  <1>1. ASSUME NEW w \in Workers, \A v \in Workers : v # w => scanner'[v] = scanner[v],
               UNCHANGED <<catalogue, progress, covered>>, scanner'[w].at # "advance",
               scanner'[w].at = "scan" => scanner'[w].seen = progress
        PROVE  CoverInv'
    BY <1>1, CoverStays
  <1>2. ASSUME UNCHANGED <<catalogue, progress, covered, scanner>>
        PROVE  CoverInv'
    BY <1>2, CoverStays
  <1>3. ASSUME NEW w \in Workers, UNCHANGED <<catalogue, progress, covered>>,
               \/ Moves(w, Off)
               \/ \E at \in ScannerStep \ {"scan", "advance"}, r \in Revisions :
                     Moves(w, [Off EXCEPT !.at = at, !.job = r])
               \/ \E at \in ScannerStep \ {"scan", "advance"} :
                     Moves(w, [scanner[w] EXCEPT !.at = at])
               \/ \E at \in ScannerStep \ {"scan", "advance"} :
                     Moves(w, [scanner[w] EXCEPT !.at = at, !.rev = rev])
        PROVE  CoverInv'
    <2>1. /\ scanner'[w].at \notin {"scan", "advance"}
          /\ \A v \in Workers : v # w => scanner'[v] = scanner[v]
      <3>1. CASE Moves(w, Off)
        BY <3>1, MovesOff
      <3>2. CASE \E at \in ScannerStep \ {"scan", "advance"}, r \in Revisions :
                    Moves(w, [Off EXCEPT !.at = at, !.job = r])
        BY <3>2, MovesTo
      <3>3. CASE \E at \in ScannerStep \ {"scan", "advance"} :
                    Moves(w, [scanner[w] EXCEPT !.at = at])
        BY <3>3, MovesOn
      <3>4. CASE \E at \in ScannerStep \ {"scan", "advance"} :
                    Moves(w, [scanner[w] EXCEPT !.at = at, !.rev = rev])
        BY <3>4, MovesWith
      <3> QED
        BY <1>3, <3>1, <3>2, <3>3, <3>4
    <2> QED
      BY <1>1, <1>3, <2>1
  <1>4. ASSUME NEW w \in Workers, NEW r \in Revisions, TakeJob(w, r)
        PROVE  CoverInv'
    <2>1. CASE UNCHANGED scanner
      BY <1>2, <1>4, <2>1 DEF TakeJob
    <2>2. CASE Moves(w, [Off EXCEPT !.at = "claim", !.job = r])
      BY <1>3, <1>4, <2>2 DEF TakeJob, ScannerStep
    <2> QED
      BY <1>4, <2>1, <2>2 DEF TakeJob
  <1>5. ASSUME NEW w \in Workers,
               ClaimRevision(w) \/ ReloadStore(w) \/ EnqueueNext(w) \/ WorkerDies(w)
        PROVE  CoverInv'
    BY <1>3, <1>5 DEF ClaimRevision, ReloadStore, EnqueueNext, WorkerDies, ScannerStep
  <1>6. ASSUME NEW w \in Workers,
               LoadProgress(w) \/ ResolveRevision(w) \/ UnitFails(w) \/ ReleaseLease(w)
        PROVE  CoverInv'
    <2>1. UNCHANGED <<catalogue, progress, covered>>
      BY <1>6 DEF LoadProgress, ResolveRevision, UnitFails, ReleaseLease
    <2>2. CASE LoadProgress(w)
      BY <1>1, <2>1, <2>2, MovesToScan
    <2>3. CASE ResolveRevision(w) \/ ReleaseLease(w)
      BY <1>3, <2>1, <2>3 DEF ResolveRevision, ReleaseLease, Reports, ScannerStep
    <2>4. CASE UnitFails(w)
      <3>1. scanner[w].job \in Revisions
        BY DEF BootTypeOK
      <3> QED
        BY <1>3, <2>1, <2>4, <3>1 DEF UnitFails, Reports, ScannerStep
    <2> QED
      BY <1>6, <2>2, <2>3, <2>4
  <1>7. CASE \/ \E r \in Revisions : BootMarkFailed(r) \/ MarkFailedFails(r) \/ JobStalls(r)
             \/ \E q \in Requests :
                   \/ ReadState(q) \/ StartScan(q) \/ ReadRevision(q)
                   \/ EnqueueRevision(q) \/ EnqueueRevisionFails(q) \/ RequestFails(q)
                   \/ AskAgain(q)
             \/ LeaseRunsOut \/ UNCHANGED bootVars
    BY <1>2, <1>7
    DEF BootMarkFailed, MarkFailedFails, JobStalls, ReadState, StartScan, ReadRevision,
        EnqueueRevision, EnqueueRevisionFails, RequestFails, AskAgain, LeaseRunsOut, bootVars
  <1>8. CASE Vanish
    <2>1. catalogue' # Products
      BY <1>8 DEF Vanish, BootTypeOK
    <2> QED
      BY <2>1 DEF CoverInv
  <1> QED
    BY <1>4, <1>5, <1>6, <1>7, <1>8, CoverScan, CoverAdvance DEF BootNext

-----------------------------------------------------------------------------
(* READY, and the revisions that are known.                                *)

LEMMA ReadyNext == BootTypeOK /\ ReadyInv /\ [BootNext]_bootVars => ReadyInv'
  <1> SUFFICES ASSUME ReadyInv, [BootNext]_bootVars, sync' = "READY"
               PROVE  Done(progress)'
    BY DEF ReadyInv
  <1>1. CASE \E w \in Workers : AdvanceProgress(w)
    <2>1. PICK w \in Workers : AdvanceProgress(w)
      BY <1>1
    <2>2. CASE UNCHANGED storeVars
      BY <2>2 DEF ReadyInv, storeVars, Done
    <2>3. CASE ~UNCHANGED storeVars
      <3>1. PICK s : s = scanner[w].next
        OBVIOUS
      <3>2. progress' = s /\ Done(s)
        BY <2>1, <2>3, <3>1 DEF AdvanceProgress
      <3> QED
        BY <3>2 DEF Done
    <2> QED
      BY <2>2, <2>3
  <1>2. CASE /\ progress' = progress /\ sync' \in {sync, "SYNCING", "FAILED"}
    BY <1>2 DEF ReadyInv, Done
  <1>3. ASSUME NEW w \in Workers,
               \/ \E r \in Revisions : TakeJob(w, r)
               \/ ClaimRevision(w) \/ ResolveRevision(w) \/ LoadProgress(w)
               \/ ScanPage(w) \/ ReloadStore(w) \/ EnqueueNext(w)
               \/ UnitFails(w) \/ ReleaseLease(w) \/ WorkerDies(w)
        PROVE  progress' = progress /\ sync' = sync
    BY <1>3
    DEF TakeJob, ClaimRevision, ResolveRevision, LoadProgress, ScanPage, ReloadStore,
        EnqueueNext, UnitFails, ReleaseLease, WorkerDies, storeVars
  <1>4. CASE \/ \E r \in Revisions : BootMarkFailed(r) \/ MarkFailedFails(r) \/ JobStalls(r)
             \/ \E q \in Requests :
                   \/ ReadState(q) \/ StartScan(q) \/ ReadRevision(q)
                   \/ EnqueueRevision(q) \/ EnqueueRevisionFails(q) \/ RequestFails(q)
                   \/ AskAgain(q)
             \/ Vanish \/ LeaseRunsOut \/ UNCHANGED bootVars
    BY <1>2, <1>4
    DEF BootMarkFailed, MarkFailedFails, JobStalls, ReadState, StartScan, ReadRevision,
        EnqueueRevision, EnqueueRevisionFails, RequestFails, AskAgain, Vanish, LeaseRunsOut, bootVars, storeVars
  <1> QED
    BY <1>1, <1>2, <1>3, <1>4 DEF BootNext

\* What the operators of the queue do to the state of a job.
LEMMA JobStates ==
    ASSUME NEW j \in Job, NEW w
    PROVE  /\ Fetched(j, w).state = "active" /\ Stalled(j).state = "waiting"
           /\ Finished(j).state = "completed" /\ Buried(j).state = "failed"
           /\ Retried(j).state \in {"waiting", "failed"}
           /\ Added(j).state \in {j.state, "waiting"}
           /\ j.state = "absent" => Added(j).state = "waiting"
  BY DEF Job, Fetched, Stalled, Finished, Buried, Retried, Added, Released, UnknownJob

LEMMA OverState ==
    ASSUME NEW j, j.state \in {"waiting", "completed", "failed"}
    PROVE  Over(j).state = IF j.state = "waiting" THEN "waiting" ELSE "completed"
  BY DEF Over, UnknownJob

LEMMA ReportsJobs ==
    ASSUME BootTypeOK, RevisionJobs, rev' \in Revisions, rev <= rev',
           NEW w \in Workers, NEW j, Reports(w, j), scanner[w].job <= rev,
           j.state \in {"waiting", "completed", "failed"}
    PROVE  RevisionJobs'
  <1>1. PICK r \in Revisions : r = scanner[w].job
    BY DEF BootTypeOK
  <1>2. Over(j).state \in {"waiting", "completed"}
    BY OverState
  <1>3. \/ bootJob' = bootJob
        \/ bootJob' = [bootJob EXCEPT ![r] = Over(j)]
    BY <1>1 DEF Reports, bootQueueVars
  <1>4. rev \in Nat /\ rev' \in Nat /\ Revisions \subseteq Nat
    BY DEF BootTypeOK, Revisions
  <1>5. \A n \in Revisions : n > rev' => n > rev /\ n # r
    BY <1>1, <1>4
  <1>6. \A n \in Revisions : \/ bootJob'[n] = bootJob[n]
                             \/ n = r /\ bootJob'[n].state \in {"waiting", "completed"}
    BY <1>2, <1>3 DEF BootTypeOK
  <1> QED
    BY <1>5, <1>6 DEF RevisionJobs


\* What a worker knows, if one moved at most.
LEMMA ScannersKnow ==
    ASSUME BootTypeOK, RevisionInv, rev' \in Revisions, rev <= rev', NEW w \in Workers,
           \A v \in Workers : v # w => scanner'[v] = scanner[v],
           scanner'[w].job <= rev', scanner'[w].rev <= rev',
           scanner'[w].at = "reload" => scanner'[w].job < rev',
           scanner'[w].at \in {"next", "follow"} => scanner'[w].job < scanner'[w].rev
    PROVE  \A v \in Workers :
              LET s == scanner'[v]
              IN  /\ s.job <= rev' /\ s.rev <= rev'
                  /\ s.at = "reload" => s.job < rev'
                  /\ s.at \in {"next", "follow"} => s.job < s.rev
  <1> SUFFICES ASSUME NEW v \in Workers, v # w
               PROVE  /\ scanner'[v].job <= rev' /\ scanner'[v].rev <= rev'
                      /\ scanner'[v].at = "reload" => scanner'[v].job < rev'
                      /\ scanner'[v].at \in {"next", "follow"} => scanner'[v].job < scanner'[v].rev
    OBVIOUS
  <1>1. /\ scanner[v].job \in Nat /\ scanner[v].rev \in Nat /\ rev \in Nat /\ rev' \in Nat
    BY DEF BootTypeOK, Revisions
  <1>2. /\ scanner[v].job <= rev /\ scanner[v].rev <= rev
        /\ scanner[v].at = "reload" => scanner[v].job < rev
        /\ scanner[v].at \in {"next", "follow"} => scanner[v].job < scanner[v].rev
    BY DEF RevisionInv
  <1>3. scanner'[v] = scanner[v]
    OBVIOUS
  <1> QED
    BY <1>1, <1>2, <1>3

LEMMA RevisionNext == BootTypeOK /\ RevisionInv /\ [BootNext]_bootVars => RevisionInv'
  <1> SUFFICES ASSUME BootTypeOK, RevisionInv, [BootNext]_bootVars PROVE RevisionInv'
    OBVIOUS
  <1> USE DEF storeVars, bootQueueVars
  <1>0. /\ rev \in Nat /\ Revisions \subseteq Nat /\ 0 \in Revisions
        /\ \A w \in Workers : /\ scanner[w].job \in Revisions /\ scanner[w].rev \in Revisions
                              /\ scanner[w].job <= rev /\ scanner[w].rev <= rev
        /\ \A r \in Revisions : bootJob[r] \in Job
        /\ rev' \in Revisions /\ rev \in Revisions
    <2>1. rev' \in Revisions
      BY BootTypeNext DEF BootTypeOK
    <2>2. Revisions \subseteq Nat
      BY DEF Revisions
    <2> QED
      BY <2>1, <2>2, StartIs DEF BootTypeOK, RevisionInv
  <1>1. \A w \in Workers : bootJob[scanner[w].job] \in Job
    BY <1>0
  <1>2. ASSUME NEW w \in Workers, UNCHANGED <<rev, request>>, RevisionJobs',
               \A v \in Workers : v # w => scanner'[v] = scanner[v],
               scanner'[w].job <= rev, scanner'[w].rev <= rev,
               scanner'[w].at = "reload" => scanner'[w].job < rev,
               scanner'[w].at \in {"next", "follow"} => scanner'[w].job < scanner'[w].rev
        PROVE  RevisionInv'
    <2>1. \A v \in Workers :
              LET s == scanner'[v]
              IN  /\ s.job <= rev' /\ s.rev <= rev'
                  /\ s.at = "reload" => s.job < rev'
                  /\ s.at \in {"next", "follow"} => s.job < s.rev
      <3>1. rev <= rev' /\ rev' \in Revisions
        BY <1>0, <1>2
      <3> QED
        BY <1>2, <3>1, ScannersKnow
    <2> QED
      BY <1>2, <2>1 DEF RevisionInv
  <1>3. ASSUME UNCHANGED <<rev, bootJob>> PROVE RevisionJobs'
    BY <1>3 DEF RevisionInv, RevisionJobs
  <1>4. ASSUME NEW w \in Workers, UNCHANGED <<rev, request>>, NEW j, Reports(w, j),
               j.state \in {"waiting", "completed", "failed"}
        PROVE  RevisionInv'
    <2>1. rev <= rev' /\ rev' \in Revisions
      BY <1>0, <1>4
    <2>2. RevisionJobs'
      BY <1>0, <1>4, <2>1, ReportsJobs DEF RevisionInv
    <2>3. /\ scanner'[w].at = "idle" /\ scanner'[w].job = 0 /\ scanner'[w].rev = 0
          /\ \A v \in Workers : v # w => scanner'[v] = scanner[v]
      BY <1>4, MovesOff DEF Reports
    <2>4. 0 <= rev
      BY <1>0
    <2> QED
      BY <1>2, <1>4, <2>2, <2>3, <2>4
  <1>5. ASSUME NEW w \in Workers, UNCHANGED <<rev, request, bootJob>>,
               \/ Moves(w, Off)
               \/ \E at \in {"retry", "bury"} :
                     Moves(w, [Off EXCEPT !.at = at, !.job = scanner[w].job])
               \/ \E at \in {"resolve", "load"} : Moves(w, [scanner[w] EXCEPT !.at = at])
               \/ /\ scanner[w].job < rev
                  /\ \E at \in {"next", "follow"} :
                        Moves(w, [scanner[w] EXCEPT !.at = at, !.rev = rev])
        PROVE  RevisionInv'
    <2>1. RevisionJobs' /\ 0 <= rev /\ rev <= rev
      BY <1>0, <1>3, <1>5
    <2>2. CASE Moves(w, Off)
      BY <1>2, <1>5, <2>1, <2>2, MovesOff
    <2>3. CASE \E at \in {"retry", "bury"} :
                  Moves(w, [Off EXCEPT !.at = at, !.job = scanner[w].job])
      <3>1. /\ scanner'[w].at \in {"retry", "bury"} /\ scanner'[w].job = scanner[w].job
            /\ scanner'[w].rev = 0 /\ \A v \in Workers : v # w => scanner'[v] = scanner[v]
        BY <2>3, MovesTo
      <3> QED
        BY <1>0, <1>2, <1>5, <2>1, <3>1
    <2>4. CASE \E at \in {"resolve", "load"} : Moves(w, [scanner[w] EXCEPT !.at = at])
      BY <1>0, <1>2, <1>5, <2>1, <2>4, MovesOn
    <2>5. CASE /\ scanner[w].job < rev
               /\ \E at \in {"next", "follow"} :
                     Moves(w, [scanner[w] EXCEPT !.at = at, !.rev = rev])
      <3>1. /\ scanner'[w].at \in {"next", "follow"} /\ scanner'[w].job = scanner[w].job
            /\ scanner'[w].rev = rev /\ \A v \in Workers : v # w => scanner'[v] = scanner[v]
        BY <2>5, MovesWith
      <3> QED
        BY <1>0, <1>2, <1>5, <2>1, <2>5, <3>1
    <2> QED
      BY <1>5, <2>2, <2>3, <2>4, <2>5
  <1>6. ASSUME NEW w \in Workers, NEW r \in Revisions, TakeJob(w, r)
        PROVE  RevisionInv'
    <2>1. bootJob[r].state = "waiting" /\ r <= rev /\ rev' = rev /\ request' = request
      <3>1. bootJob[r].state = "waiting" /\ ~(r > rev) /\ rev' = rev /\ request' = request
        BY <1>6 DEF TakeJob, RevisionInv, RevisionJobs
      <3> QED
        BY <1>0, <3>1
    <2>2. RevisionJobs'
      <3>1. /\ Buried(bootJob[r]).state = "failed" /\ Fetched(bootJob[r], w).state = "active"
        BY <1>0, JobStates
      <3>2. Over(Buried(bootJob[r])).state = "completed"
        BY <3>1, OverState
      <3>3. \A n \in Revisions : \/ bootJob'[n] = bootJob[n]
                                 \/ n = r /\ bootJob'[n].state \in {"active", "completed"}
        BY <1>6, <3>1, <3>2 DEF TakeJob, BootTypeOK
      <3>4. ~(r > rev)
        BY <1>0, <2>1
      <3> QED
        BY <2>1, <3>3, <3>4 DEF RevisionInv, RevisionJobs
    <2>3. CASE UNCHANGED scanner
      BY <2>1, <2>2, <2>3 DEF RevisionInv
    <2>4. CASE Moves(w, [Off EXCEPT !.at = "claim", !.job = r])
      <3>1. 0 <= rev
        BY <1>0
      <3>2. RevisionInv'
        <4>1. /\ scanner'[w].at = "claim" /\ scanner'[w].job = r
              /\ scanner'[w].rev = 0 /\ \A v \in Workers : v # w => scanner'[v] = scanner[v]
          BY <2>4, MovesTo, ZenonT(40)
        <4> QED
          BY <1>2, <2>1, <2>2, <3>1, <4>1
      <3> QED
        BY <3>2
    <2> QED
      BY <1>6, <2>3, <2>4 DEF TakeJob
  <1>7. ASSUME NEW w \in Workers, ClaimRevision(w) \/ ReloadStore(w) \/ WorkerDies(w)
        PROVE  RevisionInv'
    <2>1. scanner[w].at = "reload" => scanner[w].job < rev
      BY DEF RevisionInv
    <2> QED
      BY <1>5, <1>7, <2>1 DEF ClaimRevision, ReloadStore, WorkerDies
  <1>8. ASSUME NEW w \in Workers, ResolveRevision(w)
        PROVE  RevisionInv'
    <2>1. UNCHANGED <<rev, request>>
      BY <1>8 DEF ResolveRevision
    <2>2. CASE sync # "READY" /\ rev > scanner[w].job
      <3>1. scanner[w].job < rev
        BY <1>0, <2>2
      <3> QED
        BY <1>5, <1>8, <2>1, <2>2, <3>1 DEF ResolveRevision
    <2>3. CASE ~(sync # "READY" /\ rev > scanner[w].job)
      <3>1. \E j : Reports(w, j) /\ j.state \in {"waiting", "completed", "failed"}
        BY <1>1, <1>8, <2>3, JobStates DEF ResolveRevision
      <3> QED
        BY <1>4, <2>1, <3>1
    <2> QED
      BY <2>2, <2>3
  <1>9. ASSUME NEW w \in Workers, LoadProgress(w) \/ ScanPage(w)
        PROVE  RevisionInv'
    <2>1. UNCHANGED <<rev, request, bootJob>> /\ RevisionJobs' /\ rev <= rev
      BY <1>0, <1>3, <1>9 DEF LoadProgress, ScanPage
    <2> QED
      BY <1>0, <1>2, <1>9, <2>1, MovesToScan, MovesToAdvance
  <1>10. ASSUME NEW w \in Workers, UnitFails(w) \/ ReleaseLease(w)
         PROVE  RevisionInv'
    <2>1. UNCHANGED <<rev, request>>
      BY <1>10 DEF UnitFails, ReleaseLease
    <2>2. CASE \/ Reports(w, Retried(bootJob[scanner[w].job]))
               \/ Reports(w, Buried(bootJob[scanner[w].job]))
      BY <1>1, <1>4, <2>1, <2>2, JobStates
    <2>3. CASE /\ UNCHANGED bootJob
               /\ \E at \in {"retry", "bury"} :
                     Moves(w, [Off EXCEPT !.at = at, !.job = scanner[w].job])
      BY <1>5, <2>1, <2>3
    <2> QED
      BY <1>10, <2>2, <2>3 DEF UnitFails, ReleaseLease
  <1>11. ASSUME NEW w \in Workers, AdvanceProgress(w)
         PROVE  RevisionInv'
    <2>1. CASE UNCHANGED storeVars
      <3>1. \/ /\ UNCHANGED <<rev, request, bootJob>>
               /\ Moves(w, [Off EXCEPT !.at = "bury", !.job = scanner[w].job])
            \/ rev' = rev + 1
        BY <1>11 DEF AdvanceProgress
      <3> QED
        <4>1. rev + 1 # rev /\ rev' = rev
          BY <1>0, <2>1
        <4> QED
          BY <1>5, <3>1, <4>1
    <2>2. CASE ~UNCHANGED storeVars
      <3>1. rev' = rev + 1 /\ request' = request
        BY <1>11, <2>2 DEF AdvanceProgress
      <3>2. rev <= rev' /\ rev < rev' /\ 0 <= rev' /\ scanner[w].job < rev'
        <4>1. scanner[w].job \in Nat /\ scanner[w].job <= rev
          BY <1>0
        <4> QED
          BY <1>0, <3>1, <4>1
      <3>3. /\ RevisionJobs' /\ scanner'[w].job < rev' /\ scanner'[w].rev = 0
            /\ scanner'[w].at \in {"idle", "reload"}
            /\ \A v \in Workers : v # w => scanner'[v] = scanner[v]
        <4>1. CASE Reports(w, Finished(bootJob[scanner[w].job]))
          <5>1. RevisionJobs'
            BY <1>0, <1>1, <3>2, <4>1, ReportsJobs, JobStates DEF RevisionInv
          <5>2. 0 < rev'
            BY <1>0, <3>1
          <5> QED
            BY <4>1, <5>1, <5>2, MovesOff DEF Reports
        <4>2. CASE /\ UNCHANGED bootJob
                   /\ Moves(w, [Off EXCEPT !.at = "reload", !.job = scanner[w].job])
          <5>1. \A n \in Revisions : n > rev' => n > rev
            BY <1>0, <3>1
          <5>2. RevisionJobs'
            BY <4>2, <5>1 DEF RevisionInv, RevisionJobs
          <5> QED
            BY <3>2, <4>2, <5>2, MovesTo
        <4> QED
          BY <1>11, <2>2, <4>1, <4>2 DEF AdvanceProgress
      <3>4. \A v \in Workers :
               LET s == scanner'[v]
               IN  /\ s.job <= rev' /\ s.rev <= rev'
                   /\ s.at = "reload" => s.job < rev'
                   /\ s.at \in {"next", "follow"} => s.job < s.rev
        <4>1. scanner'[w].job <= rev'
          <5>1. scanner'[w].job \in Revisions
            BY BootTypeNext DEF BootTypeOK
          <5>2. scanner'[w].job \in Nat /\ rev' \in Nat
            BY <1>0, <5>1
          <5> QED
            BY <3>3, <5>2
        <4> QED
          BY <1>0, <3>2, <3>3, <4>1, ScannersKnow
      <3>5. \A q \in Requests : request[q].rev <= rev'
        <4>1. \A q \in Requests : request[q].rev \in Nat /\ request[q].rev <= rev
          BY <1>0 DEF RevisionInv, BootTypeOK
        <4> QED
          BY <1>0, <3>1, <4>1
      <3> QED
        BY <3>1, <3>3, <3>4, <3>5 DEF RevisionInv
    <2> QED
      BY <2>1, <2>2
  <1>12. \A r \in Revisions : r <= rev =>
            (bootJob' = [bootJob EXCEPT ![r] = Added(bootJob[r])] /\ rev' = rev
                => RevisionJobs')
    <2> SUFFICES ASSUME NEW r \in Revisions, r <= rev, rev' = rev,
                        bootJob' = [bootJob EXCEPT ![r] = Added(bootJob[r])]
                 PROVE  RevisionJobs'
      OBVIOUS
    <2>1. ~(r > rev)
      BY <1>0
    <2>2. \A n \in Revisions : \/ bootJob'[n] = bootJob[n]
                               \/ /\ n = r
                                  /\ bootJob'[n].state \in {bootJob[n].state, "waiting"}
      BY <1>0, JobStates DEF BootTypeOK
    <2> QED
      BY <2>1, <2>2 DEF RevisionInv, RevisionJobs
  <1>13. ASSUME NEW w \in Workers, EnqueueNext(w)
         PROVE  RevisionInv'
    <2>1. PICK r \in Revisions : r = scanner[w].rev
      BY <1>0
    <2>2. PICK n \in Revisions : n = scanner[w].job
      BY <1>0
    <2> DEFINE added == [bootJob EXCEPT ![r] = Added(bootJob[r])]
    <2>3. /\ bootJob' = added \/ bootJob' = [added EXCEPT ![n] = Over(Finished(added[n]))]
          /\ rev' = rev /\ request' = request /\ Moves(w, Off)
      BY <1>13, <2>1, <2>2 DEF EnqueueNext
    <2>4. ~(r > rev) /\ ~(n > rev)
      BY <1>0, <2>1, <2>2
    <2>5. /\ added \in [Revisions -> Job]
          /\ \A m \in Revisions : \/ added[m] = bootJob[m]
                                  \/ m = r /\ added[m].state \in {bootJob[m].state, "waiting"}
      BY <1>0, JobStates, JobOperators DEF BootTypeOK
    <2> HIDE DEF added
    <2>6. Over(Finished(added[n])).state = "completed"
      <3>1. Finished(added[n]).state = "completed"
        BY <2>5, JobStates
      <3> QED
        BY <3>1, OverState
    <2>7. \A m \in Revisions :
             \/ bootJob'[m] = bootJob[m]
             \/ m = r /\ bootJob'[m].state \in {bootJob[m].state, "waiting"}
             \/ m = n /\ bootJob'[m].state = "completed"
      BY <2>3, <2>5, <2>6
    <2>8. RevisionJobs'
      BY <2>3, <2>4, <2>7 DEF RevisionInv, RevisionJobs
    <2>9. 0 <= rev
      BY <1>0
    <2> QED
      BY <1>2, <2>3, <2>8, <2>9, MovesOff
  <1>14. ASSUME NEW r \in Revisions, BootMarkFailed(r) \/ MarkFailedFails(r) \/ JobStalls(r)
         PROVE  RevisionInv'
    <2>1. UNCHANGED <<rev, scanner, request>>
      BY <1>14 DEF BootMarkFailed, MarkFailedFails, JobStalls
    <2>2. RevisionJobs'
      <3>1. CASE BootMarkFailed(r) \/ MarkFailedFails(r)
        BY <1>3, <2>1, <3>1 DEF BootMarkFailed, MarkFailedFails
      <3>2. CASE JobStalls(r)
        <4>1. \A n \in Revisions :
                 \/ bootJob'[n] = bootJob[n]
                 \/ n = r /\ bootJob'[n].state = "waiting" /\ bootJob[n].state = "active"
          BY <1>0, <3>2, JobStates DEF JobStalls, BootTypeOK
        <4> QED
          BY <2>1, <4>1 DEF RevisionInv, RevisionJobs
      <3> QED
        BY <1>14, <3>1, <3>2
    <2> QED
      BY <2>1, <2>2 DEF RevisionInv
  <1>15. ASSUME NEW q \in Requests, UNCHANGED <<rev, scanner>>, RevisionJobs',
                \/ \E at, was : RequestMoves(q, [Ready(at) EXCEPT !.was = was])
                \/ \E at : RequestMoves(q, Ready(at))
                \/ \E at : RequestMoves(q, [Ready(at) EXCEPT !.rev = rev])
         PROVE  RevisionInv'
    <2>1. 0 <= rev /\ rev <= rev
      BY <1>0
    <2>2. \A p \in Requests : request'[p].rev <= rev
      <3>1. CASE \E at, was : RequestMoves(q, [Ready(at) EXCEPT !.was = was])
        BY <2>1, <3>1 DEF RequestMoves, Ready, BootTypeOK, RevisionInv
      <3>2. CASE \E at : RequestMoves(q, Ready(at))
        BY <2>1, <3>2 DEF RequestMoves, Ready, BootTypeOK, RevisionInv
      <3>3. CASE \E at : RequestMoves(q, [Ready(at) EXCEPT !.rev = rev])
        BY <2>1, <3>3 DEF RequestMoves, Ready, BootTypeOK, RevisionInv
      <3> QED
        BY <1>15, <3>1, <3>2, <3>3
    <2> QED
      BY <1>15, <2>2 DEF RevisionInv
  <1>16. ASSUME NEW q \in Requests, ReadState(q) \/ ReadRevision(q) \/ AskAgain(q)
         PROVE  RevisionInv'
    <2>1. UNCHANGED <<rev, scanner, bootJob>> /\ RevisionJobs'
      BY <1>3, <1>16 DEF ReadState, ReadRevision, AskAgain
    <2>2. \/ \E at, was : RequestMoves(q, [Ready(at) EXCEPT !.was = was])
          \/ \E at : RequestMoves(q, Ready(at))
          \/ \E at : RequestMoves(q, [Ready(at) EXCEPT !.rev = rev])
      BY <1>16 DEF ReadState, ReadRevision, AskAgain
    <2> QED
      BY <1>15, <2>1, <2>2
  <1>17. ASSUME NEW q \in Requests, StartScan(q)
         PROVE  RevisionInv'
    <2>1. /\ rev' \in {rev, rev + 1} /\ UNCHANGED <<scanner, bootJob>>
          /\ request' = [request EXCEPT ![q] = Ready("read")]
      BY <1>17 DEF StartScan, RequestMoves
    <2>2. \A n \in Revisions : (n <= rev => n <= rev') /\ (n < rev => n < rev')
                               /\ (n > rev' => n > rev)
      <3> SUFFICES ASSUME NEW n \in Revisions
                   PROVE  (n <= rev => n <= rev') /\ (n < rev => n < rev')
                          /\ (n > rev' => n > rev)
        OBVIOUS
      <3>1. n \in Nat /\ rev \in Nat /\ (rev' = rev \/ rev' = rev + 1)
        BY <1>0, <2>1
      <3> QED
        BY <3>1
    <2>3. Ready("read").rev = 0 /\ 0 <= rev'
      <3>1. rev' \in Nat
        BY <1>0
      <3> QED
        BY <3>1 DEF Ready
    <2>4. \A p \in Requests : request'[p].rev <= rev'
      BY <2>1, <2>2, <2>3 DEF RevisionInv, BootTypeOK
    <2> QED
      BY <1>0, <2>1, <2>2, <2>4 DEF RevisionInv, RevisionJobs
  <1>18. ASSUME NEW q \in Requests,
                EnqueueRevision(q) \/ EnqueueRevisionFails(q) \/ RequestFails(q)
         PROVE  RevisionInv'
    <2>1. UNCHANGED <<rev, scanner>> /\ RequestMoves(q, Ready("done"))
      BY <1>18 DEF EnqueueRevision, EnqueueRevisionFails, RequestFails
    <2>2. request[q].rev \in Revisions /\ request[q].rev <= rev
      BY DEF BootTypeOK, RevisionInv
    <2>3. RevisionJobs'
      BY <1>3, <1>12, <1>18, <2>1, <2>2
      DEF EnqueueRevision, EnqueueRevisionFails, RequestFails
    <2> QED
      BY <1>15, <2>1, <2>3
  <1>19. CASE Vanish \/ LeaseRunsOut \/ UNCHANGED bootVars
    BY <1>19 DEF Vanish, LeaseRunsOut, bootVars, RevisionInv, RevisionJobs
  <1> QED
    BY <1>6, <1>7, <1>8, <1>9, <1>10, <1>11, <1>13, <1>14, <1>16, <1>17, <1>18, <1>19
    DEF BootNext


-----------------------------------------------------------------------------
(* Whoever goes on with a store that is SYNCING.                           *)

\* A step after which the job is there, or nobody who was about to add it is gone.
LEMMA AttendedStays ==
    ASSUME Attended, rev' = rev, bootListeners \subseteq bootListeners',
           \/ bootJob'[rev].state \in {"waiting", "active"}
           \/ /\ bootJob'[rev].state = bootJob[rev].state
              /\ \A w \in Workers : Adds(scanner[w]) => Adds(scanner[w])'
              /\ \A q \in Requests : Asks(request[q]) => Asks(request[q])'
           \/ rev \in bootListeners'
    PROVE  Attended'
  <1>1. CASE bootJob'[rev].state \in {"waiting", "active"} \/ rev \in bootListeners'
    BY <1>1 DEF Attended
  <1>2. CASE rev \in bootListeners
    BY <1>2 DEF Attended
  <1>3. CASE /\ bootJob'[rev].state = bootJob[rev].state
             /\ \A w \in Workers : Adds(scanner[w]) => Adds(scanner[w])'
             /\ \A q \in Requests : Asks(request[q]) => Asks(request[q])'
    <2>1. CASE bootJob[rev].state \in {"waiting", "active"}
      BY <1>3, <2>1 DEF Attended
    <2>2. CASE /\ bootJob[rev].state = "absent"
               /\ (\E w \in Workers : Adds(scanner[w])) \/ (\E q \in Requests : Asks(request[q]))
      <3>1. \/ \E w \in Workers : Adds(scanner[w])'
            \/ \E q \in Requests : Asks(request[q])'
        BY <1>3, <2>2
      <3> QED
        BY <1>3, <2>2, <3>1 DEF Attended, Adds, Asks
    <2> QED
      BY <1>2, <2>1, <2>2 DEF Attended
  <1> QED
    BY <1>1, <1>2, <1>3

LEMMA AttendNext ==
    BootTypeOK /\ RevisionInv /\ AttendInv /\ [BootNext]_bootVars => AttendInv'
  <1> SUFFICES ASSUME BootTypeOK, RevisionInv, AttendInv, [BootNext]_bootVars,
                      sync' = "SYNCING", rev' \notin lost'
               PROVE  Attended'
    BY DEF AttendInv
  <1> USE DEF storeVars, bootQueueVars, bootCounts
  <1>0. /\ rev \in Nat /\ Revisions \subseteq Nat /\ rev \in Revisions
        /\ \A w \in Workers : /\ scanner[w].job \in Revisions /\ scanner[w].rev \in Revisions
                              /\ scanner[w].job <= rev /\ scanner[w].rev <= rev
        /\ \A r \in Revisions : bootJob[r] \in Job
        /\ \A w \in Workers : bootJob[scanner[w].job] \in Job
    <2>1. Revisions \subseteq Nat
      BY DEF Revisions
    <2> QED
      BY <2>1 DEF BootTypeOK, RevisionInv
  <1>1. ASSUME NEW w \in Workers, UNCHANGED <<sync, rev, request>>, rev \notin lost,
               ~Adds(scanner[w]),
               \A v \in Workers : v # w => scanner'[v] = scanner[v],
               bootListeners \subseteq bootListeners',
               \/ bootJob'[rev].state = bootJob[rev].state
               \/ bootJob'[rev].state \in {"waiting", "active"}
               \/ rev \in bootListeners'
        PROVE  Attended'
    <2>1. Attended
      BY <1>1 DEF AttendInv
    <2>2. \A v \in Workers : Adds(scanner[v]) => Adds(scanner[v])'
      BY <1>1 DEF Adds
    <2>3. \A q \in Requests : Asks(request[q]) => Asks(request[q])'
      BY <1>1 DEF Asks
    <2> QED
      BY <1>1, <2>1, <2>2, <2>3, AttendedStays
  <1>2. ASSUME NEW w \in Workers, UNCHANGED <<sync, rev, request>>, rev \notin lost,
               ~Adds(scanner[w]), NEW j, Reports(w, j),
               j.state \in {"waiting", "failed"}
        PROVE  Attended'
    <2>1. \A v \in Workers : v # w => scanner'[v] = scanner[v]
      BY <1>2, MovesOff DEF Reports
    <2>2. PICK r \in Revisions : r = scanner[w].job
      BY <1>0
    <2>3. j.state = "waiting" => Over(j).state = "waiting"
      BY OverState
    <2>4. /\ bootListeners \subseteq bootListeners'
          /\ \/ bootJob'[rev] = bootJob[rev]
             \/ bootJob'[rev].state = "waiting"
             \/ rev \in bootListeners'
      <3>1. CASE UNCHANGED bootQueueVars
        BY <3>1
      <3>2. CASE /\ bootJob' = [bootJob EXCEPT ![r] = Over(j)]
                 /\ bootListeners' = IF j.state = "failed" THEN bootListeners \cup {r}
                                     ELSE bootListeners
        BY <1>0, <1>2, <2>2, <2>3, <3>2 DEF BootTypeOK
      <3> QED
        BY <1>2, <2>2, <3>1, <3>2 DEF Reports
    <2> QED
      BY <1>1, <1>2, <2>1, <2>4
  <1>l. ASSUME NEW set, Loses(set), UNCHANGED <<sync, rev>>
        PROVE  /\ Attended /\ rev \notin lost
               /\ rev \in set => bootJob[rev].state \in {"waiting", "active"}
    BY <1>0, <1>l DEF Loses, Running, AttendInv
  <1>r. ASSUME NEW r \in Revisions, Regains(r), UNCHANGED <<sync, rev>>
        PROVE  Attended \/ Attended'
    <2>1. CASE rev \notin lost
      BY <1>r, <2>1 DEF AttendInv
    <2>2. CASE rev \in lost
      <3>1. Running(bootJob'[rev])
        BY <1>r, <2>2 DEF Regains
      <3> QED
        BY <1>r, <3>1 DEF Running, Attended
    <2> QED
      BY <2>1, <2>2
  <1>3. ASSUME NEW w \in Workers, NEW r \in Revisions, TakeJob(w, r)
        PROVE  Attended'
    <2>1. UNCHANGED <<sync, lost, rev, request>> /\ ~Adds(scanner[w])
      BY <1>3 DEF TakeJob, Adds
    <2>2. \A v \in Workers : v # w => scanner'[v] = scanner[v]
      <3>1. CASE UNCHANGED scanner
        BY <3>1
      <3>2. CASE Moves(w, [Off EXCEPT !.at = "claim", !.job = r])
        BY <3>2, MovesTo
      <3> QED
        BY <1>3, <3>1, <3>2 DEF TakeJob
    <2>3. Fetched(bootJob[r], w).state = "active"
      BY <1>0, JobStates
    <2>4. /\ bootListeners \subseteq bootListeners'
          /\ \/ bootJob'[rev] = bootJob[rev]
             \/ bootJob'[rev].state = "active"
             \/ rev \in bootListeners'
      BY <1>0, <1>3, <2>3 DEF TakeJob, BootTypeOK
    <2> QED
      BY <1>1, <2>1, <2>2, <2>4
  <1>4. ASSUME NEW w \in Workers, ClaimRevision(w) \/ LoadProgress(w) \/ ScanPage(w)
        PROVE  Attended'
    <2>1. /\ UNCHANGED <<sync, lost, rev, request, bootJob, bootListeners>>
          /\ ~Adds(scanner[w])
      BY <1>4 DEF ClaimRevision, LoadProgress, ScanPage, Adds
    <2>2. \A v \in Workers : v # w => scanner'[v] = scanner[v]
      BY <1>4, MovesOn, MovesToScan, MovesToAdvance DEF ClaimRevision
    <2> QED
      BY <1>1, <2>1, <2>2
  <1>5. ASSUME NEW w \in Workers, ResolveRevision(w)
        PROVE  Attended'
    <2>1. /\ UNCHANGED <<sync, lost, rev, request>> /\ sync # "READY"
          /\ ~Adds(scanner[w])
      BY <1>5 DEF ResolveRevision, Adds
    <2>2. CASE rev > scanner[w].job
      <3>1. /\ UNCHANGED bootQueueVars
            /\ Moves(w, [scanner[w] EXCEPT !.at = "next", !.rev = rev])
        BY <1>5, <2>1, <2>2 DEF ResolveRevision
      <3>2. \A v \in Workers : v # w => scanner'[v] = scanner[v]
        BY <3>1, MovesWith
      <3> QED
        BY <1>1, <2>1, <3>1, <3>2
    <2>3. CASE ~(rev > scanner[w].job)
      <3>1. \/ Reports(w, Retried(bootJob[scanner[w].job]))
            \/ Reports(w, Buried(bootJob[scanner[w].job]))
        BY <1>5, <2>1, <2>3 DEF ResolveRevision
      <3> QED
        BY <1>0, <1>2, <2>1, <3>1, JobStates
    <2> QED
      BY <2>2, <2>3
  <1>6. ASSUME NEW w \in Workers, AdvanceProgress(w)
        PROVE  Attended'
    <2>1. UNCHANGED <<lost, request>> /\ ~Adds(scanner[w])
      BY <1>6 DEF AdvanceProgress, Adds
    <2>2. CASE UNCHANGED storeVars
      <3>1. rev + 1 # rev /\ UNCHANGED <<sync, rev>>
        BY <1>0, <2>2
      <3>2. /\ Moves(w, [Off EXCEPT !.at = "bury", !.job = scanner[w].job])
            /\ UNCHANGED bootQueueVars
        BY <1>6, <3>1 DEF AdvanceProgress
      <3>3. \A v \in Workers : v # w => scanner'[v] = scanner[v]
        BY <3>2, MovesTo
      <3> QED
        BY <1>1, <2>1, <3>1, <3>2, <3>3
    <2>3. CASE ~UNCHANGED storeVars
      <3>1. /\ rev' = rev + 1 /\ UNCHANGED bootJob
            /\ Moves(w, [Off EXCEPT !.at = "reload", !.job = scanner[w].job])
        BY <1>6, <2>3 DEF AdvanceProgress
      <3>2. scanner'[w].at = "reload"
        BY <3>1, MovesTo
      <3>3. rev' > rev /\ rev' \in Revisions
        <4>1. rev' \in Revisions
          BY BootTypeNext DEF BootTypeOK
        <4> QED
          BY <1>0, <3>1, <4>1
      <3>4. bootJob'[rev'].state = "absent"
        BY <3>1, <3>3 DEF RevisionInv, RevisionJobs
      <3>5. \E v \in Workers : Adds(scanner[v])'
        BY <3>2 DEF Adds
      <3> QED
        BY <3>4, <3>5 DEF Attended, Adds
    <2> QED
      BY <2>2, <2>3
  <1>7. ASSUME NEW w \in Workers, ReloadStore(w)
        PROVE  Attended'
    <2>1. /\ UNCHANGED <<sync, lost, rev, request, bootJob, bootListeners>>
          /\ Moves(w, [scanner[w] EXCEPT !.at = "follow", !.rev = rev])
      BY <1>7 DEF ReloadStore
    <2>2. Attended
      BY <2>1 DEF AttendInv
    <2>3. /\ scanner'[w].at = "follow" /\ scanner'[w].rev = rev
          /\ \A v \in Workers : v # w => scanner'[v] = scanner[v]
      BY <2>1, MovesWith
    <2>4. \A v \in Workers : Adds(scanner[v]) => Adds(scanner[v])'
      BY <2>1, <2>3 DEF Adds
    <2>5. \A q \in Requests : Asks(request[q]) => Asks(request[q])'
      BY <2>1 DEF Asks
    <2> QED
      BY <2>1, <2>2, <2>4, <2>5, AttendedStays
  <1>8. ASSUME NEW w \in Workers, EnqueueNext(w)
        PROVE  Attended'
    <2>1. PICK r \in Revisions : r = scanner[w].rev
      BY <1>0
    <2>2. PICK n \in Revisions : n = scanner[w].job
      BY <1>0
    <2> DEFINE added == [bootJob EXCEPT ![r] = Added(bootJob[r])]
    <2>3. /\ bootJob' = added \/ bootJob' = [added EXCEPT ![n] = Over(Finished(added[n]))]
          /\ UNCHANGED <<sync, rev, request, bootListeners>> /\ Moves(w, Off)
          /\ Regains(r) /\ scanner[w].at \in {"next", "follow"}
      BY <1>8, <2>1, <2>2 DEF EnqueueNext
    <2>4. SUFFICES ASSUME Attended
                   PROVE  Attended'
      BY <1>r, <2>3
    <2>5. n < r /\ r <= rev
      BY <2>1, <2>2, <2>3 DEF RevisionInv
    <2>6. n # rev /\ (r < rev \/ r = rev)
      BY <1>0, <2>5
    <2>7. /\ added \in [Revisions -> Job]
          /\ r # rev => added[rev] = bootJob[rev]
          /\ r = rev => /\ added[rev].state \in {bootJob[rev].state, "waiting"}
                        /\ bootJob[rev].state = "absent" => added[rev].state = "waiting"
      BY <1>0, JobStates, JobOperators DEF BootTypeOK
    <2> HIDE DEF added
    <2>8. bootJob'[rev] = added[rev]
      BY <1>0, <2>3, <2>6, <2>7
    <2>9. \A v \in Workers : v # w => scanner'[v] = scanner[v]
      BY <2>3, MovesOff
    <2>10. \A q \in Requests : Asks(request[q]) => Asks(request[q])'
      BY <2>3 DEF Asks
    <2>11. CASE r = rev
      <3>1. CASE bootJob'[rev].state \in {"waiting", "active"} \/ rev \in bootListeners
        BY <2>3, <2>4, <3>1, AttendedStays
      <3>2. CASE bootJob[rev].state \in {"waiting", "active", "absent"}
        <4>1. bootJob'[rev].state \in {"waiting", "active"}
          BY <2>7, <2>8, <2>11, <3>2
        <4> QED
          BY <3>1, <4>1
      <3> QED
        BY <2>4, <3>1, <3>2 DEF Attended
    <2>12. CASE r # rev
      <3>1. \A v \in Workers : Adds(scanner[v]) => Adds(scanner[v])'
        BY <2>1, <2>3, <2>4, <2>9, <2>12 DEF Adds
      <3> QED
        BY <2>3, <2>4, <2>7, <2>8, <2>10, <2>12, <3>1, AttendedStays
    <2> QED
      BY <2>11, <2>12
  <1>9. ASSUME NEW w \in Workers, UnitFails(w) \/ ReleaseLease(w)
        PROVE  Attended'
    <2>1. UNCHANGED <<sync, rev, request>>
      BY <1>9 DEF UnitFails, ReleaseLease
    <2>2. CASE /\ UNCHANGED lost /\ ~Adds(scanner[w])
               /\ \/ Reports(w, Retried(bootJob[scanner[w].job]))
                  \/ Reports(w, Buried(bootJob[scanner[w].job]))
      BY <1>0, <1>2, <2>1, <2>2, JobStates
    <2>3. CASE /\ UNCHANGED bootQueueVars /\ Loses(Owes(scanner[w]))
               /\ \E at \in {"retry", "bury"} :
                     Moves(w, [Off EXCEPT !.at = at, !.job = scanner[w].job])
      <3>1. \A v \in Workers : v # w => scanner'[v] = scanner[v]
        BY <2>3, MovesTo
      <3>2. /\ Attended /\ rev \notin lost
            /\ Adds(scanner[w]) => bootJob[rev].state \in {"waiting", "active"}
        BY <1>l, <2>1, <2>3 DEF Adds, Owes
      <3>3. CASE bootJob[rev].state \in {"waiting", "active"}
        BY <2>1, <2>3, <3>2, <3>3, AttendedStays
      <3>4. CASE ~Adds(scanner[w])
        BY <1>1, <2>1, <2>3, <3>1, <3>2, <3>4
      <3> QED
        BY <3>2, <3>3, <3>4
    <2> QED
      BY <1>9, <2>2, <2>3 DEF UnitFails, ReleaseLease, Adds
  <1>10. ASSUME NEW r \in Revisions, BootMarkFailed(r) \/ JobStalls(r)
         PROVE  Attended'
    <2>1. UNCHANGED <<sync, lost, rev, request, scanner>> /\ Attended
      BY <1>10 DEF BootMarkFailed, JobStalls, AttendInv
    <2>2. /\ \A v \in Workers : Adds(scanner[v]) => Adds(scanner[v])'
          /\ \A q \in Requests : Asks(request[q]) => Asks(request[q])'
      BY <2>1 DEF Adds, Asks
    <2>3. CASE BootMarkFailed(r)
      <3>1. r # rev /\ bootJob' = bootJob /\ bootListeners' = bootListeners \ {r}
        BY <2>1, <2>3 DEF BootMarkFailed
      <3> QED
        BY <2>1, <2>2, <3>1 DEF Attended, Adds, Asks
    <2>4. CASE JobStalls(r)
      <3>1. Stalled(bootJob[r]).state = "waiting"
        BY <1>0, JobStates
      <3>2. bootJob'[rev] = bootJob[rev] \/ bootJob'[rev].state = "waiting"
        BY <1>0, <2>4, <3>1 DEF JobStalls, BootTypeOK
      <3> QED
        BY <2>1, <2>2, <2>4, <3>2, AttendedStays DEF JobStalls
    <2> QED
      BY <1>10, <2>3, <2>4
  <1>11. ASSUME NEW q \in Requests, ReadState(q) \/ ReadRevision(q) \/ AskAgain(q)
         PROVE  Attended'
    <2>1. UNCHANGED <<sync, lost, rev, scanner, bootJob, bootListeners>> /\ Attended
      BY <1>11 DEF ReadState, ReadRevision, AskAgain, AttendInv
    <2>2. /\ \A p \in Requests : p # q => request'[p] = request[p]
          /\ Asks(request[q]) => Asks(request[q])'
      <3>1. CASE ~ReadRevision(q)
        BY <1>11, <3>1 DEF ReadState, AskAgain, RequestMoves, Asks, BootTypeOK
      <3>2. CASE ReadRevision(q)
        BY <2>1, <3>2 DEF ReadRevision, RequestMoves, Asks, Ready, BootTypeOK
      <3> QED
        BY <3>1, <3>2
    <2>3. /\ \A v \in Workers : Adds(scanner[v]) => Adds(scanner[v])'
          /\ \A p \in Requests : Asks(request[p]) => Asks(request[p])'
      BY <2>1, <2>2 DEF Adds, Asks
    <2> QED
      BY <2>1, <2>3, AttendedStays
  <1>12. ASSUME NEW q \in Requests, StartScan(q)
         PROVE  Attended'
    <2>1. /\ UNCHANGED <<lost, scanner, bootJob, bootListeners>>
          /\ request' = [request EXCEPT ![q] = Ready("read")] /\ request[q].at = "start"
      BY <1>12 DEF StartScan, RequestMoves
    <2>2. request'[q].at = "read" /\ \A p \in Requests : p # q => request'[p] = request[p]
      BY <2>1 DEF Ready, BootTypeOK
    <2>3. CASE rev' = rev + 1
      <3>1. rev' > rev /\ rev' \in Revisions
        <4>1. rev' \in Revisions
          BY BootTypeNext DEF BootTypeOK
        <4> QED
          BY <1>0, <2>3, <4>1
      <3>2. bootJob'[rev'].state = "absent"
        BY <2>1, <3>1 DEF RevisionInv, RevisionJobs
      <3>3. \E p \in Requests : Asks(request[p])'
        BY <2>2 DEF Asks
      <3> QED
        BY <3>2, <3>3 DEF Attended, Asks
    <2>4. CASE UNCHANGED <<sync, rev>>
      <3>1. Attended
        BY <2>1, <2>4 DEF AttendInv
      <3>2. /\ \A v \in Workers : Adds(scanner[v]) => Adds(scanner[v])'
            /\ \A p \in Requests : Asks(request[p]) => Asks(request[p])'
        BY <2>1, <2>2, <2>4 DEF Adds, Asks
      <3> QED
        BY <2>1, <2>4, <3>1, <3>2, AttendedStays
    <2> QED
      BY <1>12, <2>3, <2>4 DEF StartScan
  <1>13. ASSUME NEW q \in Requests, NEW r \in Revisions, r = request[q].rev,
                bootJob' = [bootJob EXCEPT ![r] = Added(@)], Regains(r),
                UNCHANGED <<sync, rev, scanner, bootListeners>>,
                RequestMoves(q, Ready("done")), request[q].at = "enqueue"
         PROVE  Attended'
    <2>1. SUFFICES ASSUME Attended
                   PROVE  Attended'
      BY <1>13, <1>r
    <2>2. /\ r # rev => bootJob'[rev] = bootJob[rev]
          /\ r = rev => /\ bootJob'[rev].state \in {bootJob[rev].state, "waiting"}
                        /\ bootJob[rev].state = "absent" => bootJob'[rev].state = "waiting"
      <3>1. bootJob \in [Revisions -> Job] /\ rev \in Revisions /\ bootJob[r] \in Job
        BY DEF BootTypeOK
      <3>2. /\ Added(bootJob[r]).state \in {bootJob[r].state, "waiting"}
            /\ bootJob[r].state = "absent" => Added(bootJob[r]).state = "waiting"
        BY <3>1, JobStates
      <3>3. /\ bootJob'[r] = Added(bootJob[r])
            /\ r # rev => bootJob'[rev] = bootJob[rev]
        BY <1>13, <3>1
      <3> QED
        BY <3>2, <3>3
    <2>3. CASE r = rev
      <3>1. CASE bootJob'[rev].state \in {"waiting", "active"} \/ rev \in bootListeners
        BY <1>13, <2>1, <3>1, AttendedStays
      <3>2. CASE bootJob[rev].state \in {"waiting", "active", "absent"}
        <4>1. bootJob'[rev].state \in {"waiting", "active"}
          BY <2>2, <2>3, <3>2
        <4> QED
          BY <3>1, <4>1
      <3> QED
        BY <2>1, <3>1, <3>2 DEF Attended
    <2>4. CASE r # rev
      <3>1. \A v \in Workers : Adds(scanner[v]) => Adds(scanner[v])'
        BY <1>13 DEF Adds
      <3>2. \A p \in Requests : Asks(request[p]) => Asks(request[p])'
        <4>1. ASSUME NEW p \in Requests, Asks(request[p])
              PROVE  Asks(request[p])'
          <5>1. p # q
            BY <1>13, <2>4, <4>1 DEF Asks
          <5>2. request'[p] = request[p]
            BY <1>13, <5>1 DEF RequestMoves, BootTypeOK
          <5> QED
            BY <1>13, <4>1, <5>2 DEF Asks
        <4> QED
          BY <4>1
      <3> QED
        BY <1>13, <2>1, <2>2, <2>4, <3>1, <3>2, AttendedStays
    <2> QED
      BY <2>3, <2>4
  <1>14. ASSUME NEW q \in Requests, NEW set, Loses(set),
                Asks(request[q]) => rev \in set,
                UNCHANGED <<sync, rev, scanner, bootJob, bootListeners>>,
                RequestMoves(q, Ready("done"))
         PROVE  Attended'
    <2>1. /\ Attended
          /\ Asks(request[q]) => bootJob[rev].state \in {"waiting", "active"}
      BY <1>l, <1>14
    <2>2. CASE bootJob[rev].state \in {"waiting", "active"}
      BY <1>14, <2>1, <2>2, AttendedStays
    <2>3. CASE ~Asks(request[q])
      <3>1. \A p \in Requests : p # q => request'[p] = request[p]
        BY <1>14 DEF RequestMoves, BootTypeOK
      <3>2. /\ \A v \in Workers : Adds(scanner[v]) => Adds(scanner[v])'
            /\ \A p \in Requests : Asks(request[p]) => Asks(request[p])'
        BY <1>14, <2>3, <3>1 DEF Adds, Asks
      <3> QED
        BY <1>14, <2>1, <3>2, AttendedStays
    <2> QED
      BY <2>1, <2>2, <2>3
  <1>15. ASSUME NEW q \in Requests,
                EnqueueRevision(q) \/ EnqueueRevisionFails(q) \/ RequestFails(q)
         PROVE  Attended'
    <2>1. PICK r \in Revisions : r = request[q].rev
      BY DEF BootTypeOK
    <2>2. CASE EnqueueRevision(q)
      BY <1>13, <2>1, <2>2 DEF EnqueueRevision
    <2>3. CASE EnqueueRevisionFails(q)
      <3>1. /\ request[q].at = "enqueue" /\ RequestMoves(q, Ready("done"))
            /\ UNCHANGED <<sync, rev, scanner, bootListeners>>
            /\ \/ UNCHANGED bootJob /\ Loses({r})
               \/ bootJob' = [bootJob EXCEPT ![r] = Added(@)] /\ Regains(r)
        BY <2>1, <2>3 DEF EnqueueRevisionFails
      <3>2. Asks(request[q]) => rev \in {r}
        BY <2>1, <3>1 DEF Asks
      <3> QED
        BY <1>13, <1>14, <2>1, <3>1, <3>2
    <2>4. CASE RequestFails(q)
      <3>1. PICK set : set = CASE request[q].at = "read" -> {rev}
                               [] request[q].at = "enqueue" -> {request[q].rev}
                               [] OTHER -> {}
        OBVIOUS
      <3>2. Asks(request[q]) => rev \in set
        BY <3>1 DEF Asks
      <3>3. /\ Loses(set) /\ RequestMoves(q, Ready("done"))
            /\ UNCHANGED <<sync, rev, scanner, bootJob, bootListeners>>
        BY <2>4, <3>1 DEF RequestFails
      <3> QED
        BY <1>14, <3>2, <3>3
    <2> QED
      BY <1>15, <2>2, <2>3, <2>4
  <1>17. ASSUME NEW w \in Workers, WorkerDies(w)
         PROVE  Attended'
    <2>1. /\ Loses(Owes(scanner[w]) \cup bootListeners) /\ Moves(w, Off)
          /\ UNCHANGED <<sync, rev, request, bootJob>>
      BY <1>17 DEF WorkerDies
    <2>2. /\ Attended
          /\ Adds(scanner[w]) \/ rev \in bootListeners =>
                bootJob[rev].state \in {"waiting", "active"}
      BY <1>l, <2>1 DEF Adds, Owes
    <2>3. CASE bootJob[rev].state \in {"waiting", "active"}
      BY <2>1, <2>3 DEF Attended
    <2>4. CASE bootJob[rev].state \notin {"waiting", "active"}
      <3>1. /\ bootJob[rev].state = "absent"
            /\ (\E v \in Workers : Adds(scanner[v])) \/ (\E q \in Requests : Asks(request[q]))
        BY <2>2, <2>4 DEF Attended
      <3>2. \A v \in Workers : Adds(scanner[v]) => Adds(scanner[v])'
        BY <2>1, <2>2, <2>4, MovesOff DEF Adds
      <3>3. \A q \in Requests : Asks(request[q]) => Asks(request[q])'
        BY <2>1 DEF Asks
      <3>4. \/ \E v \in Workers : Adds(scanner[v])'
            \/ \E q \in Requests : Asks(request[q])'
        BY <3>1, <3>2, <3>3
      <3> QED
        BY <2>1, <3>1, <3>4 DEF Attended, Adds, Asks
    <2> QED
      BY <2>3, <2>4
  <1>18. ASSUME NEW r \in Revisions, MarkFailedFails(r)
         PROVE  Attended'
    <2>1. /\ Loses({r}) /\ bootListeners' = bootListeners \ {r}
          /\ UNCHANGED <<sync, rev, request, scanner, bootJob>>
      BY <1>18 DEF MarkFailedFails
    <2>2. /\ Attended
          /\ rev = r => bootJob[rev].state \in {"waiting", "active"}
      BY <1>l, <2>1
    <2> QED
      BY <2>1, <2>2 DEF Attended, Adds, Asks
  <1>16. CASE Vanish \/ LeaseRunsOut \/ UNCHANGED bootVars
    <2>1. UNCHANGED <<sync, lost, rev, scanner, request, bootJob, bootListeners>>
      BY <1>16 DEF Vanish, LeaseRunsOut, bootVars
    <2> QED
      BY <2>1 DEF AttendInv, Attended, Adds, Asks
  <1> QED
    BY <1>3, <1>4, <1>5, <1>6, <1>7, <1>8, <1>9, <1>10, <1>11, <1>12, <1>13, <1>14,
       <1>15, <1>16, <1>17, <1>18 DEF BootNext

-----------------------------------------------------------------------------
(* Theorems.                                                               *)

LEMMA CoverInit == BootInit => CoverInv
  <1> SUFFICES ASSUME BootInit, catalogue = Products PROVE Behind(progress)
    <2>1. Off.at = "idle"
      BY DEF Off
    <2>2. BootInit => \A w \in Workers : scanner[w] = Off
      BY DEF BootInit
    <2> QED
      BY <2>1, <2>2 DEF BootInit, CoverInv
  <1>1. /\ progress.page = 1 /\ progress.parents = <<>> /\ ~progress.done
    BY DEF BootInit, Start
  <1>2. PageSize \in Nat \ {0}
    BY BootstrapAssumption
  <1>3. (progress.page - 1) * PageSize = 0
    BY <1>1, <1>2
  <1>4. \A p \in Products : Rank(p) \in Nat \ {0}
    <2>1. Products \in SUBSET Nat /\ IsFiniteSet(Products)
      BY BootstrapAssumption
    <2>2. \A p \in Products : Rank(p) = Place(Products, p)
      BY DEF Rank, Place
    <2>3. /\ Cardinality(Products) \in Nat
          /\ \A p \in Products : Place(Products, p) \in 1..Cardinality(Products)
      BY <2>1, Places
    <2> QED
      BY <2>2, <2>3
  <1>5. \A p \in Products : ~(Rank(p) <= 0)
    BY <1>4
  <1> QED
    BY <1>1, <1>3, <1>5 DEF Behind

LEMMA BootInvInit == BootInit => BootInv
  <1> SUFFICES ASSUME BootInit PROVE BootInv
    OBVIOUS
  <1>1. ReadyInv /\ AttendInv
    BY DEF BootInit, ReadyInv, AttendInv
  <1>2. RevisionInv
    <2>1. UnknownJob("absent").state = "absent"
      BY DEF UnknownJob
    <2>2. RevisionJobs
      BY <2>1 DEF BootInit, RevisionJobs
    <2>3. 0 <= 0
      OBVIOUS
    <2> QED
      BY <2>2, <2>3 DEF BootInit, RevisionInv, Off, Ready
  <1> QED
    BY <1>1, <1>2, BootTypeInit, CoverInit DEF BootInv

LEMMA BootInvNext == BootInv /\ [BootNext]_bootVars => BootInv'
  BY BootTypeNext, CoverNext, ReadyNext, RevisionNext, AttendNext DEF BootInv

LEMMA BootInvariant == BootSpec => []BootInv
  BY BootInvInit, BootInvNext, PTL DEF BootSpec

\* Every variable of the scan keeps to its type, the progress that each worker and
\* the database hold included (inventory-bootstrap.processor.ts, process and advance).
THEOREM BootTypeCorrect == BootSpec => []BootTypeOK
  <1>1. BootInv => BootTypeOK
    BY DEF BootInv
  <1> QED
    BY <1>1, BootInvariant, PTL

\* A catalogue that nothing vanished from is READY only when every product and every
\* variation of it was projected, whatever its size, its pages, and the crashes,
\* stalls, retries and restarts of the scan (processOneUnit).
THEOREM ScansAreComplete == BootSpec => []ReadyIsComplete
  <1>1. BootInv => ReadyIsComplete
    <2> SUFFICES ASSUME BootInv, sync = "READY", catalogue = Products,
                        NEW p \in Products, NEW v \in 0..Variations[p]
                 PROVE  <<p, v>> \in covered
      BY DEF ReadyIsComplete
    <2>1. progress.done /\ progress.parents = <<>> /\ Behind(progress)
      BY DEF BootInv, ReadyInv, CoverInv, Done
    <2>2. DOMAIN progress.parents = {}
      BY <2>1
    <2>3. /\ <<p, 0>> \in covered
          /\ \A n \in 1..Variations[p] : <<p, n>> \in covered
      BY <2>1, <2>2 DEF Behind
    <2>4. v = 0 \/ v \in 1..Variations[p]
      <3>1. Variations[p] \in Nat
        BY BootstrapAssumption
      <3> QED
        BY <3>1
    <2> QED
      BY <2>3, <2>4
  <1> QED
    BY <1>1, BootInvariant, PTL

\* A store that is SYNCING has the job of its revision, a failure about to be recorded,
\* or a worker or a request about to add the job, unless whoever was to do so while
\* there was no job was answered with an error or died, and nobody has added the job
\* since (process, resolveUnclaimed, markFailed, ensureInitialized).
THEOREM SyncingStoresAreAttended == BootSpec => []SyncingIsAttended
  <1>1. BootInv => SyncingIsAttended
    <2> SUFFICES ASSUME BootInv, sync = "SYNCING", rev \notin lost PROVE SyncingIsAttended
      BY DEF SyncingIsAttended
    <2>1. Attended
      BY DEF BootInv, AttendInv
    <2> QED
      BY <2>1 DEF SyncingIsAttended, Attended, Adds, Asks, Owes, Running
  <1> QED
    BY <1>1, BootInvariant, PTL

=============================================================================
