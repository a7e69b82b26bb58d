-------------------------- MODULE InventoryProjection --------------------------
(***************************************************************************)
(* The stored InventoryItems of one store and the alerts they raise        *)
(* (backend/src/inventory/inventory-projection.service.ts and the capture  *)
(* of recipients in backend/src/queue/inventory-notification.scheduler.ts).*)
(* Products and variations change in WooCommerce and emit webhook events;  *)
(* projectors apply them, the bootstrap applies pages it has read, and a   *)
(* merchant moves the threshold.  A level that an event reaches starts or  *)
(* escalates an incident, whose recipients are captured and whose          *)
(* deliveries are queued before the event is COMPLETED.                    *)
(*                                                                         *)
(* applyProjection runs in a serializable transaction under an optimistic  *)
(* condition, and is one step here; one that is given up after its last    *)
(* conflict is an error of the projection (Fails).  One recipient stands   *)
(* for all: each has records of their own.                                 *)
(***************************************************************************)
EXTENDS Naturals, Sequences, FiniteSets

CONSTANTS Items,
          NoItem,
          Parent,        \* the parent of a variation, or NoItem
          Projectors,
          NoRow,
          MaxRevision,   \* revisions of all remote items together (bound)
          Stocks,        \* the stock a revision may have
          SameSecond,    \* TRUE: revisions may share their modification time
          Lapses,        \* TRUE: the tenant's entitlement comes and goes
          MaxAhead,      \* places an event may leave free before it (bound)
          MaxRare        \* malformed payloads, bootstrap pages, changes of the
                         \* threshold, errors, crashes, lapsed leases and
                         \* events that others overtake, together (bound)

Stock == {"plenty", "few", "none", "untracked"}
Class == {"HEALTHY", "LOW_STOCK", "OUT_OF_STOCK"}
Level == {"LOW_STOCK", "OUT_OF_STOCK"}

\* An event is named by its receivedAt, its position in the order of arrival.
NoEvent == 0
Never == 0

Snapshot == [time : Nat, stock : Stock]
Alert == [source : Nat, captured : BOOLEAN]
Row == [time : Nat, stock : Stock, deletedAt : Nat, receivedAt : Nat,
        class : Class, generation : Nat, alert : [Level -> Alert]]

ASSUME InventoryAssumption ==
    /\ NoItem \notin Items
    /\ Parent \in [Items -> Items \cup {NoItem}]
    /\ \A i \in Items : Parent[i] # NoItem => Parent[Parent[i]] = NoItem
    /\ NoRow \notin Row
    /\ Stocks \subseteq Stock
    /\ {MaxRevision, MaxAhead, MaxRare} \subseteq Nat
    /\ {SameSecond, Lapses} \subseteq BOOLEAN

VARIABLES
    remote,       \* the items in WooCommerce
    revisions, clock,   \* how many there were, the time of the last
    inbox,        \* WebhookEvents of product topics
    completed, failed,   \* those with status COMPLETED, FAILED
    threshold,    \* Store.lowStockThreshold is set
    row,          \* the InventoryItems
    deliveries,   \* TelegramInventoryNotificationDelivery records
    work,         \* what each projector is doing
    holders,      \* those whose claim of their event is still the current one
    orphaned,     \* events one of whose projectors ended in an error with
                  \* alerts still to send, when another had claimed the event
    rare          \* how many rare things have happened

remoteVars == <<remote, revisions, clock>>
eventVars  == <<inbox, completed, failed>>
claimVars  == <<holders, orphaned>>
projectionVars == <<remoteVars, eventVars, threshold, row, deliveries, work,
                    claimVars, rare>>

Topic == {"created", "updated", "restored", "deleted"}
Payload == {"whole", "identity", "nothing"}
WebhookEvent == [item : Items, topic : Topic, time : Nat, stock : Stock,
                 payload : Payload, receivedAt : Nat]
Idle == [step |-> "idle", event |-> NoEvent, item |-> NoItem, topic |-> "updated",
         seen |-> [time |-> 0, stock |-> "untracked"],
         fetched |-> FALSE, baseline |-> FALSE, signals |-> <<>>]

\* Nothing is tracked before its first revision, which creates it.
ProjectionInit ==
    /\ remote = [i \in Items |-> [time |-> 0, stock |-> "untracked",
                                  trashed |-> FALSE]]
    /\ revisions = 0 /\ clock = 0
    /\ inbox = {} /\ completed = {} /\ failed = {}
    /\ threshold = TRUE
    /\ row = [i \in Items |-> NoRow]
    /\ deliveries = {}
    /\ work = [p \in Projectors |-> Idle]
    /\ holders = {} /\ orphaned = {} /\ rare = 0

-----------------------------------------------------------------------------
(* WooCommerce and the network.                                            *)

Rare == rare < MaxRare /\ rare' = rare + 1

\* The places in the order of arrival that are still free.
Places == (1 .. Cardinality(inbox) + MaxAhead + 1) \ {e.receivedAt : e \in inbox}

\* An event takes the next place, or a later one, and then arrives only when
\* others have overtaken it.
Emits(i, topic) ==
    \E payload \in Payload, place \in Places :
        /\ rare' = rare + (IF payload = "whole" THEN 0 ELSE 1)
                        + (IF \A n \in Places : place <= n THEN 0 ELSE 1)
        /\ rare' <= MaxRare
        /\ inbox' = inbox \cup
               {[item |-> i, topic |-> topic, time |-> remote'[i].time,
                 stock |-> remote'[i].stock, payload |-> payload,
                 receivedAt |-> place]}

HasArrived(e) == 1 .. e.receivedAt \subseteq {f.receivedAt : f \in inbox}

Revise(i) ==
    /\ revisions < MaxRevision
    /\ revisions' = revisions + 1
    /\ \A j \in {Parent[i]} \ {NoItem} : remote[j].time > 0 /\ ~remote[j].trashed
    /\ clock' \in IF SameSecond /\ revisions > 0 THEN {clock, clock + 1}
                 ELSE {clock + 1}
    /\ \E stock \in Stocks :
          remote' = [remote EXCEPT ![i] = [time |-> clock', stock |-> stock,
                                           trashed |-> FALSE]]
    /\ Emits(i, IF remote[i].time = 0 THEN "created"
                ELSE IF remote[i].trashed THEN "restored" ELSE "updated")
    /\ UNCHANGED <<completed, failed, threshold, row, deliveries, work, claimVars>>

Below(i) == {j \in Items : j = i \/ Parent[j] = i}

\* A product takes its variations with it, and one event tells of them all.
Trash(i) ==
    /\ remote[i].time > 0 /\ ~remote[i].trashed
    /\ remote' = [j \in Items |-> IF j \in Below(i)
                                  THEN [remote[j] EXCEPT !.trashed = TRUE]
                                  ELSE remote[j]]
    /\ Emits(i, "deleted")
    /\ UNCHANGED <<revisions, clock, completed, failed, threshold, row, deliveries,
                   work, claimVars>>

-----------------------------------------------------------------------------
(* Classification.                                                         *)

Classify(stock, limited) ==
    CASE stock = "none" -> "OUT_OF_STOCK"
      [] stock = "few" /\ limited -> "LOW_STOCK"
      [] OTHER -> "HEALTHY"

Active(stock) == stock # "untracked"

NoAlert == [source |-> NoEvent, captured |-> FALSE]
NoAlerts == [level \in Level |-> NoAlert]

-----------------------------------------------------------------------------
(* A projector begins an event, or the bootstrap reads a page.             *)

EventOf(w) == CHOOSE e \in inbox : e.receivedAt = w.event

Goes(p, w) == work' = [work EXCEPT ![p] = w]

Open == inbox \ (completed \cup failed)

WorkersOf(e) == {q \in Projectors : work[q].event = e.receivedAt}

\* The claim.  While a worker holds the event another claims it only once the
\* lease has lapsed; the first goes on without knowing.
Take(p, e) ==
    /\ work[p].step = "idle"
    /\ e \in Open /\ HasArrived(e)
    /\ IF WorkersOf(e) \cap holders # {} THEN Rare ELSE UNCHANGED rare
    /\ holders' = (holders \ WorkersOf(e)) \cup {p}
    /\ Goes(p, [Idle EXCEPT
           !.event = e.receivedAt, !.item = e.item, !.topic = e.topic,
           !.seen = [time |-> e.time, stock |-> e.stock],
           !.step = IF e.payload = "nothing" THEN "refuse"
                    ELSE IF e.topic = "deleted" THEN "look"
                    ELSE IF e.payload = "whole" THEN "apply" ELSE "fetch"])
    /\ UNCHANGED <<remoteVars, eventVars, threshold, row, deliveries, orphaned>>

\* A page is read before its items are projected, one after the other.
ReadPage(p, i) ==
    /\ Rare
    /\ work[p].step = "idle"
    /\ remote[i].time > 0 /\ ~remote[i].trashed
    /\ Goes(p, [Idle EXCEPT !.item = i, !.baseline = TRUE, !.fetched = TRUE,
                            !.step = "apply",
                            !.seen = [time |-> remote[i].time,
                                      stock |-> remote[i].stock]])
    /\ UNCHANGED <<remoteVars, eventVars, threshold, row, deliveries, claimVars>>

\* The projection or the scheduling ends in an error, or the process dies:
\* the event is retried, or its attempts are used up and it is FAILED.  What a
\* worker whose claim has passed to another writes about the event is void.
Ends(p) ==
    /\ Goes(p, Idle) /\ holders' = holders \ {p}
    /\ orphaned' = IF p \in holders \/ work[p].signals = <<>> THEN orphaned
                   ELSE orphaned \cup {EventOf(work[p])}
    /\ UNCHANGED <<remoteVars, inbox, completed, threshold, row, deliveries>>

Completes(p) ==
    completed' = IF p \in holders THEN completed \cup {EventOf(work[p])} ELSE completed

\* Mutant: the error of a projection is logged and the event COMPLETED.
FailsSwallowed(p) ==
    /\ work[p].step \notin {"idle", "refuse"}
    /\ Rare
    /\ Completes(p)
    /\ Goes(p, Idle) /\ holders' = holders \ {p}
    /\ UNCHANGED <<remoteVars, inbox, failed, threshold, row, deliveries, orphaned>>

Fails(p) ==
    /\ work[p].step \notin {"idle", "refuse"}
    /\ Rare
    /\ Ends(p)
    /\ \/ UNCHANGED failed
       \/ p \in holders /\ failed' = failed \cup {EventOf(work[p])}

\* Errors that are not retried: a payload without an identity, and a 404.
FailsForGood(p) ==
    /\ \/ work[p].step = "refuse"
       \/ work[p].step = "fetch" /\ remote[work[p].item].trashed
    /\ Ends(p)
    /\ failed' = IF p \in holders THEN failed \cup {EventOf(work[p])} ELSE failed
    /\ UNCHANGED rare

\* reconcile: one authoritative read; 404 is an error that is not retried.
Reconcile(p) ==
    /\ work[p].step = "fetch"
    /\ ~remote[work[p].item].trashed /\ remote[work[p].item].time > 0
    /\ Goes(p, [work[p] EXCEPT
           !.step = "apply", !.fetched = TRUE,
           !.seen = [time |-> remote[work[p].item].time,
                     stock |-> remote[work[p].item].stock]])
    /\ UNCHANGED <<remoteVars, eventVars, threshold, row, deliveries, claimVars, rare>>

-----------------------------------------------------------------------------
(* applyProjection.                                                        *)

\* Mutant: an older snapshot applies, too.
DecideAnyOrder(stored, seen, fetched) ==
    IF stored.time = seen.time /\ stored.stock = seen.stock THEN "noop"
    ELSE IF fetched \/ stored.time # seen.time THEN "apply" ELSE "reconcile"

\* decideInventoryProjection; time and stock make up the fingerprint.
Decide(stored, seen, fetched) ==
    IF seen.time # stored.time
    THEN IF seen.time < stored.time THEN "noop" ELSE "apply"
    ELSE IF seen.stock = stored.stock THEN "noop"
    ELSE IF fetched THEN "apply" ELSE "reconcile"

ClearsDeletion(w) ==
    \/ w.baseline
    \/ w.topic = "restored"
    \/ (w.topic = "created" /\ EventOf(w).payload = "whole")

\* A page read before a webhook never overwrites what came of it.
Superseded(r, w) == w.baseline /\ r.receivedAt # Never /\ w.seen.time <= r.time

Decision(r, w) ==
    LET decided == Decide(r, w.seen, w.fetched)
    IN  IF r.deletedAt # Never /\ ClearsDeletion(w) /\ decided = "noop"
        THEN IF w.fetched THEN "apply" ELSE "reconcile"
        ELSE decided

SignalOf(i, generation, level, source) ==
    [item |-> i, generation |-> generation, level |-> level, source |-> source]

\* replaySignal: an event that raised an alert before raises it again.
Replayed(i, r, w) ==
    IF w.baseline THEN <<>>
    ELSE IF r.alert["LOW_STOCK"].source = w.event
         THEN <<SignalOf(i, r.generation, "LOW_STOCK", w.event)>>
    ELSE IF r.alert["OUT_OF_STOCK"].source = w.event
         THEN <<SignalOf(i, r.generation, "OUT_OF_STOCK", w.event)>>
    ELSE <<>>

\* Mutant: an incident keeps its number when stock has recovered.
IncidentSameGeneration(r, class, w) ==
    IF class = "HEALTHY" THEN [generation |-> r.generation, alert |-> NoAlerts]
    ELSE [generation |-> r.generation,
          alert |-> [r.alert EXCEPT ![class] =
                        [source |-> IF w.baseline THEN NoEvent ELSE w.event,
                         captured |-> FALSE]]]

\* nextIncident, where it changes the incident: HEALTHY ends it, a partial
\* recovery leaves it, leaving HEALTHY starts the next one.
Incident(r, class, w) ==
    LET starts == r.class = "HEALTHY"
        alerts == IF starts THEN NoAlerts ELSE r.alert
    IN  IF class = "HEALTHY" THEN [generation |-> r.generation, alert |-> NoAlerts]
        ELSE IF class = r.class \/ r.class = "OUT_OF_STOCK"
             THEN [generation |-> r.generation, alert |-> r.alert]
        ELSE [generation |-> IF starts THEN r.generation + 1 ELSE r.generation,
              alert |-> [alerts EXCEPT ![class] =
                            [source |-> IF w.baseline THEN NoEvent ELSE w.event,
                             captured |-> FALSE]]]

Signalled(i, r, class, w) ==
    IF class = "HEALTHY" \/ (r.class = "OUT_OF_STOCK" /\ class = "LOW_STOCK")
    THEN <<>>
    ELSE IF class = r.class THEN Replayed(i, r, w)
    ELSE IF w.baseline THEN <<>>
    ELSE <<SignalOf(i, Incident(r, class, w).generation, class, w.event)>>

\* Before it has a row an item is HEALTHY in generation 0.
Unknown == [time |-> 0, stock |-> "untracked", deletedAt |-> Never,
            receivedAt |-> Never, class |-> "HEALTHY", generation |-> 0,
            alert |-> NoAlerts]

Written(r, class, w) ==
    LET incident == Incident(r, class, w)
    IN  [time |-> w.seen.time, stock |-> w.seen.stock,
         receivedAt |-> IF w.baseline THEN r.receivedAt ELSE w.event,
         deletedAt |-> IF ~Active(w.seen.stock)
                       THEN IF w.baseline THEN Cardinality(inbox) + 1 ELSE w.event
                       ELSE IF ClearsDeletion(w) THEN Never ELSE r.deletedAt,
         class |-> class,
         generation |-> incident.generation,
         alert |-> incident.alert]

\* Where the projection goes on: an untracked variation sends the event on to
\* its parent, whose stock it may inherit.
After(p, w, signals) ==
    LET parent == Parent[w.item]
    IN  IF ~w.fetched /\ ~Active(w.seen.stock) /\ parent # NoItem
        THEN Goes(p, [w EXCEPT !.step = "fetch", !.item = parent,
                               !.signals = w.signals \o signals])
        ELSE Goes(p, [w EXCEPT !.step = "schedule",
                               !.signals = w.signals \o signals])

Apply(p) ==
    LET w == work[p]
        i == w.item
        r == IF row[i] = NoRow THEN Unknown ELSE row[i]
        class == IF Active(w.seen.stock) /\ (r.deletedAt = Never \/ ClearsDeletion(w))
                 THEN Classify(w.seen.stock, threshold) ELSE "HEALTHY"
        known == row[i] # NoRow
    IN  /\ w.step = "apply"
        /\ \/ /\ ~known /\ ~Active(w.seen.stock)
              /\ After(p, w, <<>>) /\ UNCHANGED row
           \/ /\ known /\ Superseded(r, w)
              /\ After(p, w, <<>>) /\ UNCHANGED row
           \/ /\ known /\ ~Superseded(r, w) /\ Decision(r, w) = "noop"
              /\ After(p, w, Replayed(i, r, w)) /\ UNCHANGED row
           \/ /\ known /\ ~Superseded(r, w) /\ Decision(r, w) = "reconcile"
              /\ Goes(p, [w EXCEPT !.step = "fetch"]) /\ UNCHANGED row
           \/ /\ ~known => Active(w.seen.stock)
              /\ known => ~Superseded(r, w) /\ Decision(r, w) = "apply"
              /\ row' = [row EXCEPT ![i] = Written(r, class, w)]
              /\ After(p, w, Signalled(i, r, class, w))
        /\ UNCHANGED <<remoteVars, eventVars, threshold, deliveries, claimVars, rare>>

-----------------------------------------------------------------------------
(* projectDeletion, of an item and of the variations below it.             *)

Stored(i) == {j \in Below(i) : row[j] # NoRow}

\* Does the payload say when the item was last modified?
Dated(w) == EventOf(w).payload = "whole"

\* Is the payload no proof that the deletion is as recent as what it deletes?
Doubtful(w) ==
    ~Dated(w) \/ \E j \in Stored(w.item) : row[j].time = w.seen.time

\* A product with stored variations is asked for as if it were one of its own
\* variations, and a 404 is all there can be.
AsksInVain(i) == \E j \in Stored(i) : Parent[j] = i

Look(p) ==
    LET w == work[p]
    IN  /\ w.step = "look"
        /\ Goes(p, [w EXCEPT !.step =
               IF Stored(w.item) = {} THEN "schedule"
               ELSE IF Doubtful(w) /\ ~AsksInVain(w.item) THEN "probe"
               ELSE "remove"])
        /\ UNCHANGED <<remoteVars, eventVars, threshold, row, deliveries, claimVars,
                       rare>>

\* An item that still exists is rebaselined without an alert; 404 confirms.
Probe(p) ==
    LET w == work[p]
        now == remote[w.item]
    IN  /\ w.step = "probe"
        /\ \/ now.trashed /\ Goes(p, [w EXCEPT !.step = "remove"])
           \/ /\ ~now.trashed
              /\ Goes(p, [w EXCEPT !.step = "apply", !.baseline = TRUE,
                     !.fetched = TRUE,
                     !.seen = [time |-> now.time, stock |-> now.stock]])
        /\ UNCHANGED <<remoteVars, eventVars, threshold, row, deliveries, claimVars,
                       rare>>

\* Mutant: the deletion does not look at the time of what it deletes.
RemovableAny(j, w) ==
    row[j].receivedAt = Never \/ row[j].receivedAt <= w.event

Removable(j, w) ==
    /\ Dated(w) => row[j].time <= w.seen.time
    /\ row[j].receivedAt = Never \/ row[j].receivedAt <= w.event

Remove(p) ==
    LET w == work[p]
    IN  /\ w.step = "remove"
        /\ row' = [j \in Items |->
               IF j \in Stored(w.item) /\ Removable(j, w)
               THEN [row[j] EXCEPT !.deletedAt = w.event, !.receivedAt = w.event,
                                   !.class = "HEALTHY", !.alert = NoAlerts]
               ELSE row[j]]
        /\ Goes(p, [w EXCEPT !.step = "schedule"])
        /\ UNCHANGED <<remoteVars, eventVars, threshold, deliveries, claimVars, rare>>

-----------------------------------------------------------------------------
(* InventoryNotificationScheduler.schedule for each signal, then COMPLETED. *)

Keyed(s) == {d \in deliveries : d.item = s.item /\ d.generation = s.generation
                                /\ d.level = s.level}

\* Mutant: once captured, an alert takes no further part in the scheduling.
MatchesUncaptured(s) ==
    /\ row[s.item].generation = s.generation
    /\ row[s.item].alert[s.level].source = s.source
    /\ ~row[s.item].alert[s.level].captured

\* The item is still in the incident, and this event raised its alert.
Matches(s) ==
    /\ row[s.item].generation = s.generation
    /\ row[s.item].alert[s.level].source = s.source

\* captureRecipients: once per alert, whoever is eligible now; a recipient
\* who has a delivery of this incident and level gets no other.  Without an
\* entitlement nobody is captured, and what was captured is not queued.
Capture(p) ==
    LET w == work[p]
        s == Head(w.signals)
    IN  /\ w.step = "schedule" /\ w.signals # <<>>
        /\ \/ /\ Matches(s) /\ ~row[s.item].alert[s.level].captured
              /\ row' = [row EXCEPT ![s.item].alert[s.level].captured = TRUE]
              /\ \E eligible \in BOOLEAN :
                    deliveries' = IF eligible /\ Keyed(s) = {}
                        THEN deliveries \cup
                             {[item |-> s.item, generation |-> s.generation,
                               level |-> s.level, source |-> s.source,
                               queued |-> FALSE]}
                        ELSE deliveries
              /\ Goes(p, [w EXCEPT !.step = "enqueue"])
           \/ /\ Matches(s) /\ row[s.item].alert[s.level].captured
              /\ Goes(p, [w EXCEPT !.step = "enqueue"])
              /\ UNCHANGED <<row, deliveries>>
           \/ /\ ~Matches(s) \/ (Lapses /\ row[s.item].alert[s.level].captured)
              /\ Goes(p, [w EXCEPT !.signals = Tail(@)])
              /\ UNCHANGED <<row, deliveries>>
        /\ UNCHANGED <<remoteVars, eventVars, threshold, claimVars, rare>>

Enqueue(p) ==
    LET w == work[p]
        s == Head(w.signals)
        mine == {d \in Keyed(s) : d.source = s.source}
    IN  /\ w.step = "enqueue"
        /\ deliveries' = (deliveries \ mine) \cup
                         {[d EXCEPT !.queued = TRUE] : d \in mine}
        /\ Goes(p, [w EXCEPT !.step = "schedule", !.signals = Tail(@)])
        /\ UNCHANGED <<remoteVars, eventVars, threshold, row, claimVars, rare>>

\* Mutant: the event is COMPLETED as soon as it is projected.
CompleteEarly(p) ==
    /\ work[p].step = "schedule"
    /\ Completes(p)
    /\ Goes(p, Idle) /\ holders' = holders \ {p}
    /\ UNCHANGED <<remoteVars, inbox, failed, threshold, row, deliveries, orphaned,
                   rare>>

\* The completion of a worker that has lost its claim finds nothing to complete,
\* and a page has no event.
Complete(p) ==
    /\ work[p].step = "schedule" /\ work[p].signals = <<>>
    /\ Completes(p)
    /\ Goes(p, Idle) /\ holders' = holders \ {p}
    /\ UNCHANGED <<remoteVars, inbox, failed, threshold, row, deliveries, orphaned,
                   rare>>

-----------------------------------------------------------------------------
(* rebaselineInventory (telegram-settings.service.ts), in the transaction  *)
(* that moves the threshold.                                               *)

Rebaselined(r, limited) ==
    LET class == Classify(r.stock, limited)
    IN  IF r.deletedAt # Never \/ class = r.class THEN r
        ELSE [r EXCEPT !.class = class, !.alert = NoAlerts,
                       !.generation = IF r.class = "HEALTHY" THEN @ + 1 ELSE @]

MoveThreshold ==
    /\ Rare
    /\ threshold' = ~threshold
    /\ row' = [i \in Items |-> IF row[i] = NoRow THEN NoRow
                               ELSE Rebaselined(row[i], threshold')]
    /\ UNCHANGED <<remoteVars, eventVars, deliveries, work, claimVars>>

ProjectionNext ==
    \/ \E i \in Items : Revise(i) \/ Trash(i)
    \/ \E p \in Projectors :
          \/ \E e \in inbox : Take(p, e)
          \/ \E i \in Items : ReadPage(p, i)
          \/ Reconcile(p) \/ Apply(p) \/ Look(p) \/ Probe(p) \/ Remove(p)
          \/ Capture(p) \/ Enqueue(p) \/ Complete(p)
          \/ Fails(p) \/ FailsForGood(p)
    \/ MoveThreshold

ProjectionSpec == ProjectionInit /\ [][ProjectionNext]_projectionVars

-----------------------------------------------------------------------------
(* Properties.                                                             *)

\* The row of a live item never goes back in WooCommerce's time; one marked as
\* deleted may, when a fetch or a page that clears the mark is stale.
LiveItemNeverOlder ==
    [][\A i \in Items :
          row[i] # NoRow =>
              /\ row'[i] # NoRow
              /\ row[i].deletedAt = Never => row[i].time <= row'[i].time]_projectionVars

\* A mark of deletion was ever due: something deleted i, or its stock was not
\* tracked.  What clears a mark may be stale and older than the row.
EverMarked(i) ==
    \E e \in inbox :
        IF e.topic = "deleted" THEN i \in Below(e.item)
        ELSE e.item = i /\ ~Active(e.stock)

\* The event of a revision is COMPLETED only when the item's row is at least as
\* recent, whatever was fetched for other events or read for pages meanwhile.
CompletedIsProjected ==
    \A e \in completed :
        e.topic # "deleted" /\ ~EverMarked(e.item) =>
            row[e.item] # NoRow /\ row[e.item].time >= e.time

\* The item was tracked all along, its deletions were dated, and its present
\* revision restored it.
IsRestored(i) ==
    /\ \A e \in inbox : IF e.topic = "deleted"
                        THEN i \in Below(e.item) => e.payload = "whole"
                        ELSE e.item = i => Active(e.stock)
    /\ \E e \in inbox : /\ e.item = i /\ e.topic = "restored"
                        /\ e.time = remote[i].time

\* Whatever the order they were projected in, once all events are COMPLETED a
\* live item is stored as it is, with the class the threshold gives, unless a
\* revision after a restoration was projected while the restoration, fetched
\* before it, was on its way to clear the mark.
Converged ==
    inbox = completed =>
        \A i \in Items :
            /\ remote[i].time > 0 /\ ~remote[i].trashed
            /\ ~EverMarked(i) \/ IsRestored(i)
            => /\ row[i] # NoRow /\ row[i].deletedAt = Never
               /\ row[i].time = remote[i].time
               /\ row[i].class = Classify(remote[i].stock, threshold)

\* An item that leaves HEALTHY is in an incident of its own, for which nobody
\* has been captured yet, so that the alert is armed again.
IncidentIsNew ==
    [][\A i \in Items :
          row'[i] # row[i] /\ row'[i].class # "HEALTHY"
          /\ (row[i] = NoRow \/ row[i].class = "HEALTHY") =>
              \A d \in deliveries' : d.item = i => d.generation < row'[i].generation]_projectionVars

\* The event has raised the alert of the level its item is at.  The retry of one
\* that is fetched may see a worse level, and then replays its first alert only,
\* or a recovery to a level that is known, and then raises none.
Raised(e, i, level) ==
    /\ row[i] # NoRow /\ row[i].class = level
    /\ row[i].alert[level].source = e.receivedAt
    /\ IF level = "LOW_STOCK" THEN e.payload = "whole"
       ELSE row[i].alert["LOW_STOCK"].source # e.receivedAt

\* A worker is still to send the alert of e, one that has lost its claim, too; or
\* such a worker ended in an error before it did.
IsOwed(e, level) ==
    \/ \E p \in Projectors : \E k \in 1..Len(work[p].signals) :
          work[p].signals[k] = SignalOf(e.item, row[e.item].generation, level,
                                        e.receivedAt)
    \/ e \in orphaned

\* When an event that raised the alert of the level its item is at is COMPLETED,
\* the alert's recipients are captured, or the alert is still owed.
AlertIsCaptured ==
    \A e \in completed, level \in Level :
        Raised(e, e.item, level) =>
            row[e.item].alert[level].captured \/ IsOwed(e, level)

\* When the event that raised the alert of the level its item is at is COMPLETED,
\* a delivery for it has its job, or the alert is still owed.
AlertIsQueued ==
    \A d \in deliveries, e \in completed :
        /\ d.item = e.item /\ d.source = e.receivedAt
        /\ Raised(e, d.item, d.level) /\ row[d.item].generation = d.generation
        => d.queued \/ IsOwed(e, d.level)

\* What the COMPLETED events say has reached the rows, and all of them together
\* make the rows what the store has.
RowsCatchUp == CompletedIsProjected /\ Converged

\* No alert is lost between the commit that raises it, the commit that captures
\* its recipients and the queue.
AlertReachesQueue == AlertIsCaptured /\ AlertIsQueued
=============================================================================
