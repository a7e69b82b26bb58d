----------------------- MODULE InventoryProjectionProofs -----------------------
(***************************************************************************)
(* Proofs about InventoryProjection, for any items, projectors, revisions, *)
(* stocks and number of rare things: malformed payloads, pages, changes of *)
(* the threshold, errors, crashes, and leases that lapse under a worker.   *)
(*                                                                         *)
(* RowsIInv relates projectors, events and rows, and suffices for the      *)
(* action properties; with ProgressInv, what has been projected stays      *)
(* projected; RestoredInv and AlertInv need revisions that have            *)
(* modification times of their own, so that a time names a revision.       *)
(***************************************************************************)
EXTENDS InventoryProjection, FiniteSetTheorems, TLAPS

-----------------------------------------------------------------------------
(* The conjuncts of the inductive invariant.                               *)

\* What a projector does, what it signals, and what is there to be sent.
Step == {"idle", "refuse", "look", "probe", "remove", "fetch", "apply",
         "schedule", "enqueue"}
Signal == [item : Items, generation : Nat, level : Level, source : Nat]
Delivery == [item : Items, generation : Nat, level : Level, source : Nat,
             queued : BOOLEAN]
Work == [step : Step, event : Nat, item : Items \cup {NoItem}, topic : Topic,
         seen : Snapshot, fetched : BOOLEAN, baseline : BOOLEAN,
         signals : Seq(Signal)]

TypeOK ==
    /\ remote \in [Items -> [time : Nat, stock : Stock, trashed : BOOLEAN]]
    /\ revisions \in Nat /\ clock \in Nat /\ rare \in Nat
    /\ inbox \in SUBSET WebhookEvent /\ IsFiniteSet(inbox)
    /\ completed \in SUBSET inbox /\ failed \in SUBSET inbox
    /\ threshold \in BOOLEAN
    /\ row \in [Items -> Row \cup {NoRow}]
    /\ deliveries \in SUBSET Delivery
    /\ work \in [Projectors -> Work]
    /\ holders \in SUBSET Projectors /\ orphaned \in SUBSET inbox

\* The snapshot is of a revision that an event of the item has told of.
Sighted(i, seen) ==
    \E e \in inbox : /\ e.topic # "deleted" /\ e.item = i
                     /\ e.time = seen.time /\ e.stock = seen.stock

\* The events have places of their own, and none of them is ahead of the store.
EventsInv ==
    /\ \A e \in inbox : /\ e.receivedAt > 0
                        /\ 0 < e.time /\ e.time <= remote[e.item].time
    /\ \A e, f \in inbox : e.receivedAt = f.receivedAt => e = f
    /\ \A i \in Items : /\ remote[i].time <= clock
                        /\ remote[i].time > 0 => Sighted(i, remote[i])
    /\ revisions > 0 => clock > 0

\* What a projector holds, with an event, with a page, or while it is idle.
HandlerInv(w) ==
    /\ w.step = "idle" => w = Idle
    /\ w.step # "idle" => w.item \in Items /\ (w.event # NoEvent \/ w.baseline)
    /\ w.event # NoEvent => \E e \in inbox : e.receivedAt = w.event /\ e.topic = w.topic
    /\ w.baseline => /\ w.fetched /\ w.step \in {"apply", "schedule"}
                     /\ w.signals = <<>>
                     /\ w.event # NoEvent => w.topic = "deleted"
    /\ w.topic = "deleted" =>
           /\ w.signals = <<>>
           /\ w.baseline \/ w.step \in {"refuse", "look", "probe", "remove", "schedule"}
    /\ w.step = "enqueue" => w.signals # <<>>
    /\ w.step \in {"look", "probe", "remove"} =>
           \E e \in inbox : /\ e.receivedAt = w.event /\ e.topic = "deleted"
                            /\ e.item = w.item /\ e.time = w.seen.time
    /\ w.step = "apply" =>
           /\ Sighted(w.item, w.seen)
           /\ \A e \in inbox :
                 e.receivedAt = w.event =>
                     /\ w.item = e.item => e.time <= w.seen.time
                     /\ ~w.fetched => /\ w.item = e.item /\ e.payload = "whole"
                                      /\ w.seen = [time |-> e.time, stock |-> e.stock]

\* The signals of an event are of rows that are there.
SignalsInv(w) ==
    \A k \in 1..Len(w.signals) : /\ w.signals[k].source = w.event
                                 /\ row[w.signals[k].item] # NoRow

ProjectorsInv == \A p \in Projectors : HandlerInv(work[p]) /\ SignalsInv(work[p])

\* An event has one holder, and only while it is neither COMPLETED nor FAILED.
HoldersInv ==
    /\ \A p \in holders : /\ work[p].event # NoEvent
                          /\ \E e \in Open : e.receivedAt = work[p].event
    /\ \A p, q \in holders : work[p].event = work[q].event => p = q

HandlersInv == ProjectorsInv /\ HoldersInv

\* A marked row and one of a HEALTHY item raise no alert.
RowInv(i) ==
    /\ row[i].deletedAt # Never => row[i].class = "HEALTHY"
    /\ row[i].deletedAt = Never => /\ Active(row[i].stock)
                                   /\ row[i].class = Classify(row[i].stock, threshold)
    /\ row[i].class = "HEALTHY" => row[i].alert = NoAlerts
    /\ Sighted(i, row[i])

RowsInv == \A i \in Items : row[i] # NoRow => RowInv(i)

\* Only a revision's event is the source of an alert, and the row of its item is
\* then at least as recent.
SourcesInv ==
    \A i \in Items, level \in Level :
        row[i] # NoRow =>
            /\ row[i].alert[level].source # NoEvent =>
                  \E e \in inbox : e.receivedAt = row[i].alert[level].source
            /\ \A e \in inbox :
                  row[i].alert[level].source = e.receivedAt =>
                      /\ e.topic # "deleted"
                      /\ i = e.item => e.time <= row[i].time

DeliveriesInv ==
    \A d \in deliveries : row[d.item] # NoRow /\ d.generation <= row[d.item].generation

AlwaysTracked(i) ==
    \A e \in inbox : e.topic # "deleted" /\ e.item = i => Active(e.stock)

\* p is done with the projection of e.
Projected(p, e) ==
    work[p].event = e.receivedAt /\ work[p].step \in {"schedule", "enqueue"}

\* Who projects the event of a tracked item does not leave it for the parent.
StaysInv ==
    \A p \in Projectors, e \in inbox :
        /\ work[p].event = e.receivedAt /\ e.topic # "deleted"
        /\ work[p].step \in {"fetch", "apply"}
        => \/ work[p].item = e.item
           \/ work[p].item = Parent[e.item] /\ ~AlwaysTracked(e.item)

ProgressInv ==
    /\ \A i \in Items : row[i] # NoRow /\ ~EverMarked(i) => row[i].deletedAt = Never
    /\ \A e \in inbox :
          /\ e.topic # "deleted" /\ ~EverMarked(e.item)
          /\ e \in completed \/ \E p \in Projectors : Projected(p, e)
          => row[e.item] # NoRow /\ row[e.item].time >= e.time

EventsAgree ==
    /\ \A e, f \in inbox :
          e.topic # "deleted" /\ f.topic # "deleted" /\ e.item = f.item /\ e.time = f.time
              => e.stock = f.stock
    /\ \A e \in inbox, i \in Items :
          e.topic = "deleted" /\ i \in Below(e.item) /\ ~remote[i].trashed
              => e.time < remote[i].time

Restores(e) ==
    /\ e.topic = "restored" /\ e.time = remote[e.item].time /\ ~remote[e.item].trashed
    /\ AlwaysTracked(e.item)
    /\ \A f \in inbox : f.topic = "deleted" /\ e.item \in Below(f.item) => f.payload = "whole"

RestoredInv ==
    \A e \in inbox :
        /\ Restores(e)
        /\ e \in completed \/ \E p \in Projectors : Projected(p, e)
        => /\ row[e.item] # NoRow /\ row[e.item].deletedAt = Never
           /\ row[e.item].time = e.time

\* The alert of e at this level is one its handler has a signal for.
Alerting(e, level) ==
    /\ row[e.item] # NoRow
    /\ row[e.item].alert[level].source = e.receivedAt
    /\ IF level = "LOW_STOCK" THEN e.payload = "whole"
       ELSE /\ row[e.item].class = level
            /\ row[e.item].alert["LOW_STOCK"].source # e.receivedAt

\* w has the alert's signal, or has it still to capture.
SignalAt(w, k, e, level) ==
    w.signals[k] = SignalOf(e.item, row[e.item].generation, level, e.receivedAt)
Signals(w, e, level) == \E k \in 1..Len(w.signals) : SignalAt(w, k, e, level)
Pending(w, e, level) ==
    \E k \in 1..Len(w.signals) : SignalAt(w, k, e, level)
                                  /\ (w.step = "enqueue" => k > 1)

IsQueued(e, level) ==
    \A d \in deliveries :
        /\ d.item = e.item /\ d.level = level /\ d.source = e.receivedAt
        /\ d.generation = row[e.item].generation
        => d.queued

\* The alert's recipients are captured, and their deliveries have their jobs, or
\* somebody is to see to it, or was when he ended in an error.
IsSeenTo(e, level) ==
    /\ \/ row[e.item].alert[level].captured
       \/ \E p \in Projectors : Pending(work[p], e, level)
       \/ e \in orphaned
    /\ Lapses \/ IsOwed(e, level) \/ IsQueued(e, level)

\* p has projected e, is about to project e for the parent, or projects e, fetched
\* although it says all of its item.
HasBegun(p, e) ==
    /\ work[p].event = e.receivedAt
    /\ \/ work[p].step \in {"schedule", "enqueue"}
       \/ work[p].step \in {"fetch", "apply"} /\ work[p].item # e.item
       \/ work[p].step = "fetch" /\ e.payload = "whole"
       \/ work[p].step = "apply" /\ work[p].fetched /\ e.payload = "whole"

AlertInv ==
    \A e \in inbox, level \in Level :
        /\ e \in completed \/ \E p \in holders : HasBegun(p, e)
        /\ Alerting(e, level)
        => IsSeenTo(e, level)

-----------------------------------------------------------------------------
(* The inbox and the store.                                                *)

\* Position 0 is no event's, and each event has its own.
LEMMA EventIsNamed ==
    ASSUME EventsInv, NEW w, NEW e \in inbox, w.event = e.receivedAt
    PROVE  EventOf(w) = e /\ w.event # NoEvent
  <1>1. w.event # NoEvent
    BY DEF EventsInv, NoEvent
  <1>2. \A f \in inbox : f.receivedAt = w.event => f = e
    BY DEF EventsInv
  <1> QED
    BY <1>1, <1>2 DEF EventOf

\* A step of the store: e arrives, of a revision or of a deletion.
Arrives(e) ==
    /\ e \in WebhookEvent /\ e.receivedAt > 0
    /\ \A f \in inbox : f.receivedAt # e.receivedAt
    /\ inbox' = inbox \cup {e}
    /\ e.time = remote'[e.item].time /\ e.stock = remote'[e.item].stock
    /\ UNCHANGED <<completed, failed, threshold, row, deliveries, work, claimVars>>

Revised(e) ==
    /\ e.topic # "deleted"
    /\ clock' \in {clock, clock + 1} /\ (revisions = 0 \/ ~SameSecond => clock' = clock + 1)
    /\ revisions' = revisions + 1
    /\ remote' = [remote EXCEPT ![e.item] = [time |-> clock', stock |-> e.stock,
                                             trashed |-> FALSE]]

Trashed(e) ==
    /\ e.topic = "deleted"
    /\ UNCHANGED <<revisions, clock>>
    /\ remote[e.item].time > 0
    /\ remote' = [j \in Items |-> IF j \in Below(e.item)
                                  THEN [remote[j] EXCEPT !.trashed = TRUE]
                                  ELSE remote[j]]

LEMMA StoreStep ==
    ASSUME TypeOK, NEW i \in Items, Revise(i) \/ Trash(i)
    PROVE  /\ \E e : Arrives(e) /\ (Revised(e) \/ Trashed(e))
           /\ remote' \in [Items -> [time : Nat, stock : Stock, trashed : BOOLEAN]]
           /\ revisions' \in Nat /\ clock' \in Nat /\ rare' \in Nat
  <1>1. Cardinality(inbox) \in Nat
    BY FS_CardinalityType DEF TypeOK
  <1>2. ASSUME NEW topic \in Topic, Emits(i, topic),
               remote' \in [Items -> [time : Nat, stock : Stock, trashed : BOOLEAN]],
               UNCHANGED <<completed, failed, threshold, row, deliveries, work,
                           claimVars>>
        PROVE  (\E e : Arrives(e) /\ e.item = i /\ e.topic = topic) /\ rare' \in Nat
    <2>1. PICK payload \in Payload, place \in Places :
             /\ rare' = rare + (IF payload = "whole" THEN 0 ELSE 1)
                             + (IF \A n \in Places : place <= n THEN 0 ELSE 1)
             /\ inbox' = inbox \cup
                  {[item |-> i, topic |-> topic, time |-> remote'[i].time,
                    stock |-> remote'[i].stock, payload |-> payload,
                    receivedAt |-> place]}
      BY <1>2 DEF Emits
    <2>2. rare' \in Nat
      BY <2>1 DEF TypeOK
    <2> DEFINE e == [item |-> i, topic |-> topic, time |-> remote'[i].time,
                     stock |-> remote'[i].stock, payload |-> payload,
                     receivedAt |-> place]
    <2>3. place \in Nat /\ place > 0 /\ \A f \in inbox : f.receivedAt # place
      BY <1>1, InventoryAssumption DEF Places
    <2>4. e \in WebhookEvent /\ e.receivedAt = place
      BY <1>2, <2>3 DEF WebhookEvent
    <2> QED
      BY <1>2, <2>1, <2>2, <2>3, <2>4 DEF Arrives
  <1>3. CASE Revise(i)
    <2>1. PICK stock \in Stocks :
             remote' = [remote EXCEPT ![i] = [time |-> clock', stock |-> stock,
                                              trashed |-> FALSE]]
      BY <1>3 DEF Revise
    <2>2. /\ clock' \in {clock, clock + 1}
          /\ revisions = 0 \/ ~SameSecond => clock' = clock + 1
          /\ revisions' = revisions + 1
      <3>1. clock' \in IF SameSecond /\ revisions > 0 THEN {clock, clock + 1}
                       ELSE {clock + 1}
        BY <1>3 DEF Revise
      <3>2. CASE SameSecond /\ revisions > 0
        BY <1>3, <3>1, <3>2 DEF Revise, TypeOK
      <3>3. CASE ~(SameSecond /\ revisions > 0)
        BY <1>3, <3>1, <3>3 DEF Revise, TypeOK
      <3> QED
        BY <3>2, <3>3
    <2>3. stock \in Stock
      BY InventoryAssumption
    <2>4. remote' \in [Items -> [time : Nat, stock : Stock, trashed : BOOLEAN]]
      BY <2>1, <2>2, <2>3 DEF TypeOK
    <2>5. PICK topic \in Topic : Emits(i, topic) /\ topic # "deleted"
      BY <1>3 DEF Revise, Topic
    <2>6. UNCHANGED <<completed, failed, threshold, row, deliveries, work,
                           claimVars>>
      BY <1>3 DEF Revise
    <2>7. PICK e : Arrives(e) /\ e.item = i /\ e.topic = topic
      BY <1>2, <2>4, <2>5, <2>6
    <2>8. remote'[i].stock = stock
      BY <2>1 DEF TypeOK
    <2>9. Revised(e)
      BY <2>1, <2>2, <2>5, <2>7, <2>8 DEF Revised, Arrives
    <2> QED
      BY <1>2, <2>2, <2>4, <2>5, <2>6, <2>7, <2>9 DEF TypeOK
  <1>4. CASE Trash(i)
    <2>1. remote' \in [Items -> [time : Nat, stock : Stock, trashed : BOOLEAN]]
      BY <1>4 DEF Trash, TypeOK
    <2>2. UNCHANGED <<completed, failed, threshold, row, deliveries, work,
                           claimVars>>
      BY <1>4 DEF Trash
    <2>3. Emits(i, "deleted") /\ "deleted" \in Topic
      BY <1>4 DEF Trash, Topic
    <2>4. PICK e : Arrives(e) /\ e.item = i /\ e.topic = "deleted"
      BY <1>2, <2>1, <2>2, <2>3
    <2>5. Trashed(e)
      BY <1>4, <2>4 DEF Trash, Trashed
    <2> QED
      BY <1>2, <1>4, <2>1, <2>2, <2>3, <2>4, <2>5 DEF Trash, TypeOK
  <1> QED
    BY <1>3, <1>4

-----------------------------------------------------------------------------
(* Type correctness.                                                       *)

LEMMA IdleIsWork == Idle \in Work
  <1>1. <<>> \in Seq(Signal)
    OBVIOUS
  <1> QED
    BY <1>1 DEF Idle, Work, Step, Topic, Snapshot, Stock, NoEvent

LEMMA NoAlertsType == NoAlerts \in [Level -> Alert]
  BY DEF NoAlerts, NoAlert, Alert, NoEvent

LEMMA ClassifyType ==
    ASSUME NEW stock, NEW limited
    PROVE  Classify(stock, limited) \in Class
  BY DEF Classify, Class

\* What is written of an item is a row.
LEMMA WrittenType ==
    ASSUME NEW r \in Row \cup {Unknown}, NEW w \in Work, NEW class \in Class,
           Cardinality(inbox) \in Nat
    PROVE  /\ Written(r, class, w) \in Row
           /\ Incident(r, class, w).generation \in Nat
           /\ r \in Row
  <1>1. r \in Row
    BY NoAlertsType DEF Unknown, Row, Class, Stock, NoEvent, Never
  <1>2. Incident(r, class, w) \in [generation : Nat, alert : [Level -> Alert]]
    <2>1. [source |-> IF w.baseline THEN NoEvent ELSE w.event, captured |-> FALSE]
             \in Alert
      BY DEF Alert, Work, NoEvent
    <2>2. NoAlerts \in [Level -> Alert] /\ r.alert \in [Level -> Alert]
      BY <1>1, NoAlertsType DEF Row
    <2>3. r.generation \in Nat
      BY <1>1 DEF Row
    <2> DEFINE source == [source |-> IF w.baseline THEN NoEvent ELSE w.event,
                          captured |-> FALSE]
               alerts == IF r.class = "HEALTHY" THEN NoAlerts ELSE r.alert
    <2>4. /\ alerts \in [Level -> Alert]
          /\ [alerts EXCEPT ![class] = source] \in [Level -> Alert]
      <3> HIDE DEF source
      <3> QED
        BY <2>1, <2>2 DEF source
    <2>5. r.generation + 1 \in Nat
      BY <2>3
    <2> HIDE DEF alerts, source
    <2>6. Incident(r, class, w) =
             IF class = "HEALTHY" THEN [generation |-> r.generation, alert |-> NoAlerts]
             ELSE IF class = r.class \/ r.class = "OUT_OF_STOCK"
             THEN [generation |-> r.generation, alert |-> r.alert]
             ELSE [generation |-> IF r.class = "HEALTHY" THEN r.generation + 1
                                  ELSE r.generation,
                   alert |-> [alerts EXCEPT ![class] = source]]
      BY DEF Incident, alerts, source
    <2> QED
      BY <2>2, <2>3, <2>4, <2>5, <2>6
  <1>3. /\ w.seen.time \in Nat /\ w.seen.stock \in Stock /\ w.event \in Nat
        /\ r.receivedAt \in Nat /\ r.deletedAt \in Nat
    BY <1>1 DEF Work, Snapshot, Row
  <1> QED
    BY <1>1, <1>2, <1>3 DEF Written, Row, Never

LEMMA RebaselinedType ==
    ASSUME NEW r \in Row, NEW limited
    PROVE  Rebaselined(r, limited) \in Row
  <1> DEFINE class == Classify(r.stock, limited)
  <1>1. class \in Class
    BY ClassifyType
  <1>2. (IF r.class = "HEALTHY" THEN r.generation + 1 ELSE r.generation) \in Nat
    BY DEF Row
  <1>3. Rebaselined(r, limited) =
           IF r.deletedAt # Never \/ class = r.class THEN r
           ELSE [r EXCEPT !.class = class, !.alert = NoAlerts,
                          !.generation = IF r.class = "HEALTHY" THEN r.generation + 1
                                         ELSE r.generation]
    BY DEF Rebaselined
  <1> HIDE DEF class
  <1> QED
    BY <1>1, <1>2, <1>3, NoAlertsType DEF Row

LEMMA GoesType ==
    ASSUME TypeOK, NEW p \in Projectors, NEW w \in Work, Goes(p, w)
    PROVE  work' \in [Projectors -> Work]
  BY DEF Goes, TypeOK

LEMMA SnapshotType ==
    ASSUME TypeOK, NEW i \in Items
    PROVE  [time |-> remote[i].time, stock |-> remote[i].stock] \in Snapshot
  BY DEF TypeOK, Snapshot

LEMMA SignalOfType ==
    ASSUME NEW i \in Items, NEW generation \in Nat, NEW level \in Level, NEW source \in Nat
    PROVE  SignalOf(i, generation, level, source) \in Signal
  BY DEF SignalOf, Signal

\* A projection has at most one signal of its own, of the level that it replays
\* or that it reached.
LEMMA ReplayedType ==
    ASSUME NEW i \in Items, NEW r \in Row, NEW w \in Work
    PROVE  Replayed(i, r, w) = <<>> \/ \E s \in Signal : Replayed(i, r, w) = <<s>>
  <1>1. r.generation \in Nat /\ {"LOW_STOCK", "OUT_OF_STOCK"} \subseteq Level
        /\ w.event \in Nat
    BY DEF Row, Level, Work
  <1> QED
    BY <1>1, SignalOfType DEF Replayed

LEMMA SignalledType ==
    ASSUME NEW i \in Items, NEW r \in Row, NEW w \in Work, NEW class \in Class,
           Incident(r, class, w).generation \in Nat
    PROVE  \/ Signalled(i, r, class, w) = <<>>
           \/ \E s \in Signal : Signalled(i, r, class, w) = <<s>>
  <1>1. (class # "HEALTHY" => class \in Level) /\ w.event \in Nat
    BY DEF Class, Level, Work
  <1> QED
    BY <1>1, SignalOfType, ReplayedType DEF Signalled

\* Where p goes on after it has projected the item of w.
LEMMA AfterType ==
    ASSUME TypeOK, NEW p \in Projectors, NEW w \in Work, w.item \in Items,
           NEW signals \in Seq(Signal), After(p, w, signals)
    PROVE  \E w2 \in Work : Goes(p, w2)
  <1>1. w.signals \o signals \in Seq(Signal)
    BY DEF Work
  <1>2. Parent[w.item] \in Items \cup {NoItem}
    BY InventoryAssumption
  <1>3. CASE ~w.fetched /\ ~Active(w.seen.stock) /\ Parent[w.item] # NoItem
    BY <1>1, <1>2, <1>3 DEF After, Work, Step
  <1>4. CASE ~(~w.fetched /\ ~Active(w.seen.stock) /\ Parent[w.item] # NoItem)
    BY <1>1, <1>4 DEF After, Work, Step
  <1> QED
    BY <1>3, <1>4

\* The branches of applyProjection, with the row p finds, or Unknown.
Found(i) == IF row[i] = NoRow THEN Unknown ELSE row[i]

ClassFor(r, w) ==
    IF Active(w.seen.stock) /\ (r.deletedAt = Never \/ ClearsDeletion(w))
    THEN Classify(w.seen.stock, threshold) ELSE "HEALTHY"

\* The row p writes.
Writes(p, i) ==
    LET w == work[p]
        r == Found(i)
    IN  /\ i = w.item
        /\ row[i] = NoRow => Active(w.seen.stock)
        /\ row[i] # NoRow => ~Superseded(r, w) /\ Decision(r, w) = "apply"
        /\ row' = [row EXCEPT ![i] = Written(r, ClassFor(r, w), w)]
        /\ After(p, w, Signalled(i, r, ClassFor(r, w), w))

\* p writes no row, because there is none, or it is not the snapshot's turn.
Leaves(p, i) ==
    LET w == work[p]
        r == Found(i)
    IN  /\ i = w.item
        /\ UNCHANGED row
        /\ \/ row[i] = NoRow /\ ~Active(w.seen.stock) /\ After(p, w, <<>>)
           \/ row[i] # NoRow /\ Superseded(r, w) /\ After(p, w, <<>>)
           \/ /\ row[i] # NoRow /\ ~Superseded(r, w) /\ Decision(r, w) = "noop"
              /\ After(p, w, Replayed(i, r, w))
           \/ /\ row[i] # NoRow /\ ~Superseded(r, w) /\ Decision(r, w) = "reconcile"
              /\ Goes(p, [w EXCEPT !.step = "fetch"])

LEMMA ApplyCases ==
    ASSUME NEW p \in Projectors, Apply(p)
    PROVE  /\ Writes(p, work[p].item) \/ Leaves(p, work[p].item)
           /\ work[p].step = "apply"
           /\ UNCHANGED <<remoteVars, eventVars, threshold, deliveries, claimVars, rare>>
  BY DEF Apply, Writes, Leaves, Found, ClassFor

\* What p writes of an item it has projected, and where it goes.
LEMMA WritesType ==
    ASSUME TypeOK, NEW p \in Projectors, Apply(p), work[p].item \in Items
    PROVE  row' \in [Items -> Row \cup {NoRow}] /\ work' \in [Projectors -> Work]
  <1> DEFINE w == work[p]
             i == work[p].item
             r == Found(i)
             class == ClassFor(r, w)
  <1>1. w \in Work /\ i \in Items /\ Cardinality(inbox) \in Nat
    BY FS_CardinalityType DEF TypeOK
  <1>2. r \in Row \cup {Unknown}
    BY DEF Found, TypeOK
  <1>3. class \in Class
    BY ClassifyType DEF ClassFor, Class
  <1>4. /\ Written(r, class, w) \in Row /\ r \in Row
        /\ Incident(r, class, w).generation \in Nat
    BY <1>1, <1>2, <1>3, WrittenType
  <1>5. /\ <<>> \in Seq(Signal) /\ Replayed(i, r, w) \in Seq(Signal)
        /\ Signalled(i, r, class, w) \in Seq(Signal)
    <2>1. \/ Replayed(i, r, w) = <<>>
          \/ \E s \in Signal : Replayed(i, r, w) = <<s>>
      BY <1>1, <1>4, ReplayedType
    <2>2. \/ Signalled(i, r, class, w) = <<>>
          \/ \E s \in Signal : Signalled(i, r, class, w) = <<s>>
      BY <1>1, <1>3, <1>4, SignalledType
    <2>3. ASSUME NEW x, x = <<>> \/ \E s \in Signal : x = <<s>>
          PROVE  x \in Seq(Signal)
      <3>1. CASE x = <<>>
        BY <3>1
      <3>2. ASSUME NEW s \in Signal, x = <<s>>
            PROVE  x \in Seq(Signal)
        <4>1. <<s>> \in Seq(Signal)
          OBVIOUS
        <4> QED
          BY <3>2, <4>1
      <3> QED
        BY <2>3, <3>1, <3>2
    <2> HIDE DEF w, i, r, class
    <2> QED
      BY <2>1, <2>2, <2>3, Zenon
  <1>6. w.step = "apply" /\ (Writes(p, i) \/ Leaves(p, i))
    BY ApplyCases
  <1> HIDE DEF w, i, r, class
  <1>7. CASE Writes(p, i)
    <2>1. row' = [row EXCEPT ![i] = Written(r, class, w)]
      BY <1>7 DEF Writes, w, i, r, class
    <2>2. After(p, w, Signalled(i, r, class, w))
      BY <1>7 DEF Writes, w, i, r, class
    <2>3. PICK w2 \in Work : Goes(p, w2)
      BY <1>1, <1>5, <2>2, AfterType DEF w, i
    <2> QED
      BY <1>4, <2>1, <2>3, GoesType DEF TypeOK
  <1>8. CASE Leaves(p, i)
    <2>1. row' \in [Items -> Row \cup {NoRow}]
      BY <1>8 DEF Leaves, TypeOK
    <2>2. CASE Goes(p, [w EXCEPT !.step = "fetch"])
      <3>1. [w EXCEPT !.step = "fetch"] \in Work
        BY <1>1 DEF Work, Step
      <3> QED
        BY <2>1, <2>2, <3>1, GoesType
    <2>3. CASE After(p, w, <<>>) \/ After(p, w, Replayed(i, r, w))
      <3>1. PICK w2 \in Work : Goes(p, w2)
        BY <1>1, <1>5, <2>3, AfterType DEF w, i
      <3> QED
        BY <2>1, <3>1, GoesType
    <2> QED
      BY <1>8, <2>2, <2>3 DEF Leaves, w, i, r, class
  <1> QED
    BY <1>6, <1>7, <1>8

LEMMA TypeStep ==
    ASSUME TypeOK, HandlersInv, [ProjectionNext]_projectionVars
    PROVE  TypeOK'
  <1>1. ASSUME NEW i \in Items, Revise(i) \/ Trash(i)
        PROVE  TypeOK'
    <2>1. PICK e : Arrives(e)
      BY <1>1, StoreStep
    <2>2. IsFiniteSet(inbox')
      BY <2>1, FS_AddElement DEF Arrives, TypeOK
    <2> QED
      BY <1>1, <2>1, <2>2, StoreStep DEF Arrives, TypeOK, claimVars
  <1>2. ASSUME NEW p \in Projectors, NEW w2 \in Work, Goes(p, w2),
               UNCHANGED <<remoteVars, inbox, threshold>>,
               completed' \in SUBSET inbox, failed' \in SUBSET inbox,
               row' \in [Items -> Row \cup {NoRow}], rare' \in Nat,
               deliveries' \in SUBSET Delivery,
               holders' \subseteq holders \cup {p},
               orphaned' \in SUBSET inbox
        PROVE  TypeOK'
    BY <1>2, GoesType DEF TypeOK, remoteVars
  <1>3. ASSUME NEW p \in Projectors, work[p].event # NoEvent
        PROVE  EventOf(work[p]) \in inbox
    <2>1. PICK e \in inbox : e.receivedAt = work[p].event
      BY <1>3 DEF HandlersInv, ProjectorsInv, HandlerInv
    <2> QED
      BY <2>1 DEF EventOf
  <1>4. \A p \in Projectors : work[p] \in Work
    BY DEF TypeOK
  <1>5. ASSUME NEW p \in Projectors, NEW e \in inbox, Take(p, e)
        PROVE  TypeOK'
    <2>1. e \in WebhookEvent
      BY DEF TypeOK
    <2> DEFINE step == IF e.payload = "nothing" THEN "refuse"
                       ELSE IF e.topic = "deleted" THEN "look"
                       ELSE IF e.payload = "whole" THEN "apply" ELSE "fetch"
    <2>2. step \in Step
      BY DEF Step
    <2> HIDE DEF step
    <2>3. [Idle EXCEPT !.event = e.receivedAt, !.item = e.item, !.topic = e.topic,
                       !.seen = [time |-> e.time, stock |-> e.stock],
                       !.step = step] \in Work
      BY <2>1, <2>2, IdleIsWork DEF Work, WebhookEvent, Snapshot
    <2> QED
      <3>1. rare' \in Nat /\ holders' \subseteq holders \cup {p}
        BY <1>5 DEF Take, Rare, TypeOK
      <3> QED
        BY <1>2, <1>5, <2>3, <3>1 DEF Take, TypeOK, eventVars, step
  <1>6. ASSUME NEW p \in Projectors, NEW i \in Items, ReadPage(p, i)
        PROVE  TypeOK'
    <2>1. [Idle EXCEPT !.item = i, !.baseline = TRUE, !.fetched = TRUE,
                       !.step = "apply",
                       !.seen = [time |-> remote[i].time,
                                 stock |-> remote[i].stock]] \in Work
      BY IdleIsWork, SnapshotType DEF Work, Step
    <2> QED
      BY <1>2, <1>6, <2>1 DEF ReadPage, Rare, TypeOK, eventVars, claimVars
  <1>7. ASSUME NEW p \in Projectors, work[p].step # "idle"
        PROVE  work[p].item \in Items
    BY <1>7 DEF HandlersInv, ProjectorsInv, HandlerInv
  <1>8. ASSUME NEW p \in Projectors, Reconcile(p)
        PROVE  TypeOK'
    <2> DEFINE seen == [time |-> remote[work[p].item].time,
                        stock |-> remote[work[p].item].stock]
    <2>1. seen \in Snapshot
      BY <1>7, <1>8, SnapshotType DEF Reconcile
    <2>2. Goes(p, [work[p] EXCEPT !.step = "apply", !.fetched = TRUE, !.seen = seen])
      BY <1>8 DEF Reconcile
    <2> HIDE DEF seen
    <2>3. [work[p] EXCEPT !.step = "apply", !.fetched = TRUE, !.seen = seen] \in Work
      BY <1>4, <2>1 DEF Work, Step
    <2> QED
      BY <1>2, <1>8, <2>2, <2>3 DEF Reconcile, TypeOK, eventVars, claimVars
  <1>9. ASSUME NEW p \in Projectors, Apply(p)
        PROVE  TypeOK'
    <2>1. work[p].item \in Items
      BY <1>7, <1>9 DEF Apply
    <2> QED
      BY <1>9, <2>1, WritesType, ApplyCases DEF TypeOK, remoteVars, eventVars, claimVars
  <1>10. ASSUME NEW p \in Projectors, Look(p)
         PROVE  TypeOK'
    <2>1. PICK step \in Step : Goes(p, [work[p] EXCEPT !.step = step])
      BY <1>10 DEF Look, Step
    <2>2. [work[p] EXCEPT !.step = step] \in Work
      BY <1>4 DEF Work
    <2> QED
      BY <1>2, <1>10, <2>1, <2>2 DEF Look, TypeOK, eventVars, claimVars
  <1>11. ASSUME NEW p \in Projectors, Probe(p)
         PROVE  TypeOK'
    <2> DEFINE seen == [time |-> remote[work[p].item].time,
                        stock |-> remote[work[p].item].stock]
               w2 == [work[p] EXCEPT !.step = "apply", !.baseline = TRUE,
                                     !.fetched = TRUE, !.seen = seen]
               w3 == [work[p] EXCEPT !.step = "remove"]
    <2>1. seen \in Snapshot
      BY <1>7, <1>11, SnapshotType DEF Probe
    <2>2. Goes(p, w3) \/ Goes(p, w2)
      BY <1>11 DEF Probe
    <2> HIDE DEF seen
    <2>3. w2 \in Work /\ w3 \in Work
      BY <1>4, <2>1 DEF Work, Step
    <2> HIDE DEF w2, w3
    <2> QED
      BY <1>2, <1>11, <2>2, <2>3 DEF Probe, TypeOK, eventVars, claimVars
  <1>12. ASSUME NEW p \in Projectors, Remove(p)
         PROVE  TypeOK'
    <2>1. Goes(p, [work[p] EXCEPT !.step = "schedule"])
      BY <1>12 DEF Remove
    <2>2. [work[p] EXCEPT !.step = "schedule"] \in Work
      BY <1>4 DEF Work, Step
    <2>3. ASSUME NEW j \in Items, row[j] # NoRow
          PROVE  [row[j] EXCEPT !.deletedAt = work[p].event,
                                !.receivedAt = work[p].event,
                                !.class = "HEALTHY", !.alert = NoAlerts] \in Row
      BY <1>4, <2>3, NoAlertsType DEF TypeOK, Row, Class, Work
    <2>4. row' \in [Items -> Row \cup {NoRow}]
      BY <1>12, <2>3 DEF Remove, TypeOK, Stored
    <2> QED
      BY <1>2, <1>12, <2>1, <2>2, <2>4 DEF Remove, TypeOK, eventVars, claimVars
  <1>13. ASSUME NEW p \in Projectors, work[p].signals # <<>>
         PROVE  /\ Head(work[p].signals) \in Signal
                /\ [work[p] EXCEPT !.signals = Tail(@)] \in Work
                /\ [work[p] EXCEPT !.step = "schedule", !.signals = Tail(@)] \in Work
                /\ [work[p] EXCEPT !.step = "enqueue"] \in Work
    <2>1. work[p].signals \in Seq(Signal)
      BY <1>4 DEF Work
    <2>2. Tail(work[p].signals) \in Seq(Signal) /\ Head(work[p].signals) \in Signal
      BY <1>13, <2>1
    <2> QED
      BY <1>4, <2>2 DEF Work, Step
  <1>14. ASSUME NEW p \in Projectors, Capture(p)
         PROVE  TypeOK'
    <2> DEFINE s == Head(work[p].signals)
    <2>1. s \in Signal /\ work[p].signals # <<>>
      BY <1>13, <1>14 DEF Capture
    <2>2. \E w2 \in Work : Goes(p, w2)
      BY <1>13, <1>14, <2>1 DEF Capture
    <2>3. row' \in [Items -> Row \cup {NoRow}]
      <3> HIDE DEF s
      <3>1. CASE row' = [row EXCEPT ![s.item].alert[s.level].captured = TRUE]
        <4>1. s.item \in Items /\ s.level \in Level
          BY <2>1 DEF Signal
        <4>2. row[s.item] \in Row =>
                 [row[s.item] EXCEPT !.alert[s.level].captured = TRUE] \in Row
          BY <4>1 DEF Row, Alert
        <4>3. row[s.item] \in Row
          <5>1. work[p].signals \in Seq(Signal)
            BY <1>4 DEF Work
          <5>2. 1 \in 1..Len(work[p].signals) /\ s = work[p].signals[1]
            BY <2>1, <5>1 DEF s
          <5>3. row[s.item] # NoRow
            BY <5>2 DEF HandlersInv, ProjectorsInv, SignalsInv
          <5> QED
            BY <4>1, <5>3 DEF TypeOK
        <4> QED
          BY <3>1, <4>1, <4>2, <4>3 DEF TypeOK
      <3>2. CASE UNCHANGED row
        BY <3>2 DEF TypeOK
      <3> QED
        BY <1>14, <3>1, <3>2 DEF Capture, s
    <2>4. deliveries' \in SUBSET Delivery
      <3>1. [item |-> s.item, generation |-> s.generation, level |-> s.level,
             source |-> s.source, queued |-> FALSE] \in Delivery
        BY <2>1 DEF Signal, Delivery
      <3> QED
        BY <1>14, <3>1 DEF Capture, TypeOK
    <2> QED
      BY <1>2, <1>14, <2>2, <2>3, <2>4 DEF Capture, TypeOK, eventVars, claimVars
  <1>15. ASSUME NEW p \in Projectors, Enqueue(p)
         PROVE  TypeOK'
    <2>1. work[p].signals # <<>>
      BY <1>15 DEF Enqueue, HandlersInv, ProjectorsInv, HandlerInv
    <2>2. \E w2 \in Work : Goes(p, w2)
      BY <1>13, <1>15, <2>1 DEF Enqueue
    <2>3. \A d \in deliveries : [d EXCEPT !.queued = TRUE] \in Delivery
      BY DEF TypeOK, Delivery
    <2>4. deliveries' \in SUBSET Delivery
      BY <1>15, <2>3 DEF Enqueue, Keyed, TypeOK
    <2> QED
      BY <1>2, <1>15, <2>2, <2>4 DEF Enqueue, TypeOK, eventVars, claimVars
  <1>21. \A p \in holders : work[p].event # NoEvent
    BY DEF HandlersInv, HoldersInv
  <1>22. \A p \in Projectors : work[p].signals # <<>> => work[p].event # NoEvent
    BY DEF HandlersInv, ProjectorsInv, HandlerInv, Idle
  <1>16. ASSUME NEW p \in Projectors, Complete(p)
         PROVE  TypeOK'
    <2>1. completed' \in SUBSET inbox
      BY <1>3, <1>16, <1>21 DEF Complete, Completes, TypeOK
    <2> QED
      BY <1>2, <1>16, <2>1, IdleIsWork DEF Complete, TypeOK
  <1>17. ASSUME NEW p \in Projectors, Fails(p)
         PROVE  TypeOK'
    <2>1. failed' \in SUBSET inbox
      BY <1>3, <1>17, <1>21 DEF Fails, TypeOK
    <2>2. orphaned' \in SUBSET inbox
      BY <1>3, <1>17, <1>22 DEF Fails, Ends, TypeOK
    <2> QED
      BY <1>2, <1>17, <2>1, <2>2, IdleIsWork DEF Fails, Ends, Rare, TypeOK
  <1>18. ASSUME NEW p \in Projectors, FailsForGood(p)
         PROVE  TypeOK'
    <2>1. failed' \in SUBSET inbox
      BY <1>3, <1>18, <1>21 DEF FailsForGood, TypeOK
    <2>2. orphaned' \in SUBSET inbox
      BY <1>3, <1>18, <1>22 DEF FailsForGood, Ends, TypeOK
    <2> QED
      BY <1>2, <1>18, <2>1, <2>2, IdleIsWork DEF FailsForGood, Ends, TypeOK
  <1>19. CASE MoveThreshold
    <2>1. row' \in [Items -> Row \cup {NoRow}]
      BY <1>19, RebaselinedType DEF MoveThreshold, TypeOK
    <2> QED
      BY <1>19, <2>1 DEF MoveThreshold, Rare, TypeOK, remoteVars, eventVars, claimVars
  <1>20. CASE UNCHANGED projectionVars
    BY <1>20 DEF projectionVars, remoteVars, eventVars, claimVars, TypeOK
  <1> QED
    BY <1>1, <1>5, <1>6, <1>8, <1>9, <1>10, <1>11, <1>12, <1>14, <1>15, <1>16,
       <1>17, <1>18, <1>19, <1>20 DEF ProjectionNext

-----------------------------------------------------------------------------
(* The events.                                                             *)

\* A step of the store, or one that leaves it alone.
LEMMA StoreMoves ==
    ASSUME TypeOK, [ProjectionNext]_projectionVars
    PROVE  \/ \E e : Arrives(e) /\ (Revised(e) \/ Trashed(e))
           \/ UNCHANGED <<remoteVars, inbox>>
  <1>1. CASE \E i \in Items : Revise(i) \/ Trash(i)
    BY <1>1, StoreStep
  <1>2. ASSUME NEW p \in Projectors,
               \/ \E e \in inbox : Take(p, e)
               \/ \E i \in Items : ReadPage(p, i)
               \/ Reconcile(p) \/ Look(p) \/ Probe(p) \/ Remove(p)
        PROVE  UNCHANGED <<remoteVars, inbox>>
    BY <1>2 DEF Take, ReadPage, Reconcile, Look, Probe, Remove, eventVars
  <1>3. ASSUME NEW p \in Projectors, Apply(p)
        PROVE  UNCHANGED <<remoteVars, inbox>>
    BY <1>3 DEF Apply, eventVars
  <1>4. ASSUME NEW p \in Projectors,
               \/ Capture(p) \/ Enqueue(p) \/ Complete(p) \/ Fails(p) \/ FailsForGood(p)
        PROVE  UNCHANGED <<remoteVars, inbox>>
    BY <1>4 DEF Capture, Enqueue, Complete, Fails, FailsForGood, Ends, eventVars
  <1>5. CASE MoveThreshold \/ UNCHANGED projectionVars
    BY <1>5 DEF MoveThreshold, projectionVars, eventVars
  <1> QED
    BY <1>1, <1>2, <1>3, <1>4, <1>5 DEF ProjectionNext

\* What an arrival does to the inbox and to the items' times.
LEMMA ArrivalFacts ==
    ASSUME TypeOK, EventsInv, NEW e, Arrives(e), Revised(e) \/ Trashed(e)
    PROVE  /\ e \in WebhookEvent /\ e \notin inbox /\ e \in inbox'
           /\ clock' \in Nat /\ clock <= clock'
           /\ \A i \in Items :
                 /\ remote[i].time \in Nat /\ remote'[i].time \in Nat
                 /\ i # e.item \/ Trashed(e) =>
                       remote'[i].time = remote[i].time /\ remote'[i].stock = remote[i].stock
           /\ Revised(e) => /\ remote'[e.item].time = clock' /\ remote'[e.item].stock = e.stock
                            /\ ~remote'[e.item].trashed
                            /\ \A i \in Items \ {e.item} : remote'[i] = remote[i]
           /\ Trashed(e) => \A i \in Items :
                 remote'[i].trashed = (i \in Below(e.item) \/ remote[i].trashed)
  <1>2. e \notin inbox
    BY DEF Arrives
  <1>4. e \in WebhookEvent /\ e.item \in Items /\ e \in inbox'
    BY DEF Arrives, WebhookEvent
  <1>5. CASE Revised(e)
    <2>1. clock' \in Nat /\ clock <= clock'
      BY <1>5 DEF Revised, TypeOK
    <2>2. ~Trashed(e)
      BY <1>5 DEF Revised, Trashed
    <2> QED
      BY <1>2, <1>4, <1>5, <2>1, <2>2 DEF Revised, TypeOK
  <1>6. CASE Trashed(e)
    <2>1. clock' \in Nat /\ clock <= clock'
      BY <1>6 DEF Trashed, TypeOK
    <2>2. ~Revised(e)
      BY <1>6 DEF Revised, Trashed
    <2>3. \A i \in Items : /\ remote'[i].time = remote[i].time
                           /\ remote'[i].stock = remote[i].stock
                           /\ remote'[i].trashed = (i \in Below(e.item) \/ remote[i].trashed)
      BY <1>6 DEF Trashed, TypeOK
    <2> QED
      BY <1>2, <1>4, <1>6, <2>1, <2>2, <2>3 DEF TypeOK
  <1> QED
    BY <1>5, <1>6

\* The events stay, and the store's time goes on.
LEMMA EventsGrow ==
    ASSUME TypeOK, EventsInv, [ProjectionNext]_projectionVars
    PROVE  /\ inbox \subseteq inbox'
           /\ \A i, seen : Sighted(i, seen) => Sighted(i, seen)'
           /\ \A i \in Items : remote[i].time <= remote'[i].time
           /\ \A i : EverMarked(i) => EverMarked(i)'
           /\ \A i : AlwaysTracked(i)' => AlwaysTracked(i)
  <1>1. inbox \subseteq inbox'
    BY StoreMoves DEF Arrives
  <1>2. \A i \in Items : remote[i].time <= remote'[i].time
    <2>1. CASE \E e : Arrives(e) /\ (Revised(e) \/ Trashed(e))
      <3>1. PICK e : Arrives(e) /\ (Revised(e) \/ Trashed(e))
        BY <2>1
      <3>2. \A i \in Items : remote[i].time <= clock
        BY DEF EventsInv
      <3>3. clock \in Nat
        BY DEF TypeOK
      <3> QED
        BY <3>1, <3>2, <3>3, ArrivalFacts
    <2>2. CASE UNCHANGED <<remoteVars, inbox>>
      BY <2>2 DEF remoteVars, TypeOK
    <2> QED
      BY <2>1, <2>2, StoreMoves
  <1>3. \A i, seen : Sighted(i, seen) => Sighted(i, seen)'
    BY <1>1 DEF Sighted
  <1>4. \A i : EverMarked(i) => EverMarked(i)'
    BY <1>1 DEF EverMarked, Below
  <1>5. \A i : AlwaysTracked(i)' => AlwaysTracked(i)
    BY <1>1 DEF AlwaysTracked
  <1> QED
    BY <1>1, <1>2, <1>3, <1>4, <1>5

LEMMA EventsStep ==
    ASSUME TypeOK, EventsInv, [ProjectionNext]_projectionVars
    PROVE  EventsInv'
  <1>1. ASSUME NEW e, Arrives(e), Revised(e) \/ Trashed(e)
        PROVE  EventsInv'
    <2>1. /\ e.receivedAt > 0 /\ inbox' = inbox \cup {e}
          /\ \A f \in inbox : f.receivedAt # e.receivedAt
          /\ e.time = remote'[e.item].time /\ e.item \in Items
      BY <1>1 DEF Arrives, WebhookEvent
    <2>2. revisions' > 0 => clock' > 0
      BY <1>1 DEF Revised, Trashed, EventsInv, TypeOK
    <2>3. 0 < e.time
      <3>1. CASE Revised(e)
        BY <1>1, <2>1, <2>2, <3>1, ArrivalFacts DEF Revised, TypeOK
      <3>2. CASE Trashed(e)
        BY <1>1, <2>1, <3>2, ArrivalFacts DEF Trashed
      <3> QED
        BY <1>1, <3>1, <3>2
    <2>4. \A f \in inbox' : /\ f.receivedAt > 0
                            /\ 0 < f.time /\ f.time <= remote'[f.item].time
      <3>1. ASSUME NEW f \in inbox
            PROVE  /\ f.receivedAt > 0
                   /\ 0 < f.time /\ f.time <= remote'[f.item].time
        <4>1. f.item \in Items /\ f.time \in Nat
          BY DEF TypeOK, WebhookEvent
        <4>2. remote[f.item].time <= remote'[f.item].time
          BY <4>1, EventsGrow
        <4> QED
          BY <1>1, <4>1, <4>2, ArrivalFacts DEF EventsInv
      <3>2. e.time <= remote'[e.item].time
        BY <1>1, <2>1, ArrivalFacts
      <3> QED
        BY <2>1, <2>3, <3>1, <3>2
    <2>5. \A f, g \in inbox' : f.receivedAt = g.receivedAt => f = g
      BY <2>1 DEF EventsInv
    <2>6. ASSUME NEW i \in Items
          PROVE  /\ remote'[i].time <= clock'
                 /\ remote'[i].time > 0 => Sighted(i, remote[i])'
      <3>1. remote[i].time <= clock /\ (remote[i].time > 0 => Sighted(i, remote[i]))
        BY DEF EventsInv
      <3>2. CASE i = e.item /\ Revised(e)
        <4>1. /\ remote'[i].time = clock' /\ remote'[i].stock = e.stock
              /\ clock' \in Nat /\ e \in inbox'
          BY <1>1, <3>2, ArrivalFacts
        <4>2. Sighted(i, remote[i])'
          BY <2>1, <3>2, <4>1 DEF Sighted, Revised
        <4> QED
          BY <4>1, <4>2
      <3>3. CASE i # e.item \/ Trashed(e)
        <4>1. remote'[i].time = remote[i].time /\ remote'[i].stock = remote[i].stock
          BY <1>1, <3>3, ArrivalFacts
        <4>2. clock <= clock' /\ clock \in Nat /\ clock' \in Nat /\ remote[i].time \in Nat
          BY <1>1, ArrivalFacts DEF TypeOK
        <4> QED
          BY <2>1, <3>1, <4>1, <4>2 DEF Sighted
      <3> QED
        BY <1>1, <3>2, <3>3
    <2> QED
      BY <2>2, <2>4, <2>5, <2>6 DEF EventsInv
  <1>2. CASE UNCHANGED <<remoteVars, inbox>>
    BY <1>2 DEF EventsInv, remoteVars, Sighted
  <1> QED
    BY <1>1, <1>2, StoreMoves

\* Revisions that have times of their own: a time and an item name a revision,
\* and what is not deleted is newer than its deletions.
LEMMA AgreeStep ==
    ASSUME TypeOK, EventsInv, EventsAgree, SameSecond = FALSE,
           [ProjectionNext]_projectionVars
    PROVE  EventsAgree'
  <1>1. ASSUME NEW e, Arrives(e), Revised(e) \/ Trashed(e)
        PROVE  EventsAgree'
    <2>1. inbox' = inbox \cup {e} /\ e.item \in Items /\ e.time = remote'[e.item].time
      BY <1>1 DEF Arrives, WebhookEvent
    <2>2. \A f \in inbox : f.item \in Items /\ f.time \in Nat /\ f.time <= clock
      BY DEF EventsInv, TypeOK, WebhookEvent
    <2>3. clock \in Nat
      BY DEF TypeOK
    <2>4. CASE Revised(e)
      <3>1. clock' = clock + 1 /\ e.time = clock + 1 /\ e.topic # "deleted"
        BY <1>1, <2>1, <2>4, ArrivalFacts DEF Revised
      <3>2. \A f \in inbox, i \in Items :
               f.topic = "deleted" /\ i \in Below(f.item) /\ ~remote'[i].trashed
                  => f.time < remote'[i].time
        BY <1>1, <2>1, <2>2, <2>3, <2>4, <3>1, ArrivalFacts DEF EventsAgree
      <3> QED
        BY <2>1, <2>2, <2>3, <3>1, <3>2 DEF EventsAgree, Below
    <2>5. CASE Trashed(e)
      <3>1. e.topic = "deleted"
        BY <2>5 DEF Trashed
      <3>2. \A f \in inbox', i \in Items :
               f.topic = "deleted" /\ i \in Below(f.item) /\ ~remote'[i].trashed
                  => f.time < remote'[i].time
        BY <1>1, <2>1, <2>5, ArrivalFacts DEF EventsAgree
      <3> QED
        BY <2>1, <3>1, <3>2 DEF EventsAgree, Below
    <2> QED
      BY <1>1, <2>4, <2>5
  <1>2. CASE UNCHANGED <<remoteVars, inbox>>
    BY <1>2 DEF EventsAgree, remoteVars, Below
  <1> QED
    BY <1>1, <1>2, StoreMoves

-----------------------------------------------------------------------------
(* The rows.                                                               *)

\* What the decision says of the times, and of the mark it clears.
LEMMA DecisionFacts ==
    ASSUME NEW r \in Row, NEW w \in Work
    PROVE  /\ Decision(r, w) \in {"apply", "noop", "reconcile"}
           /\ r.deletedAt = Never /\ Decision(r, w) = "apply" => r.time <= w.seen.time
           /\ Decision(r, w) = "noop" =>
                 /\ w.seen.time <= r.time
                 /\ w.seen.time = r.time => w.seen.stock = r.stock
                 /\ r.deletedAt = Never \/ ~ClearsDeletion(w)
           /\ Decision(r, w) = "reconcile" =>
                 /\ ~w.fetched
                 /\ \/ r.deletedAt # Never
                    \/ w.seen.time = r.time /\ w.seen.stock # r.stock
  <1>1. r.time \in Nat /\ w.seen.time \in Nat
    BY DEF Row, Work, Snapshot
  <1>2. /\ Decide(r, w.seen, w.fetched) \in {"apply", "noop", "reconcile"}
        /\ Decide(r, w.seen, w.fetched) = "apply" => r.time <= w.seen.time
        /\ Decide(r, w.seen, w.fetched) = "noop" =>
              /\ w.seen.time <= r.time
              /\ w.seen.time = r.time => w.seen.stock = r.stock
        /\ Decide(r, w.seen, w.fetched) = "reconcile" =>
              ~w.fetched /\ w.seen.time = r.time /\ w.seen.stock # r.stock
    <2>1. CASE w.seen.time # r.time
      BY <1>1, <2>1 DEF Decide
    <2>2. CASE w.seen.time = r.time
      <3>1. Decide(r, w.seen, w.fetched) =
               IF w.seen.stock = r.stock THEN "noop"
               ELSE IF w.fetched THEN "apply" ELSE "reconcile"
        BY <2>2, Zenon DEF Decide
      <3> QED
        BY <1>1, <2>2, <3>1
    <2> QED
      BY <2>1, <2>2
  <1> QED
    BY <1>1, <1>2 DEF Decision

\* What an incident keeps, ends and starts.
LEMMA IncidentFacts ==
    ASSUME NEW r \in Row, NEW w \in Work, NEW class \in Class
    PROVE  /\ r.generation \in Nat /\ Incident(r, class, w).generation \in Nat
           /\ r.generation <= Incident(r, class, w).generation
           /\ r.class # "HEALTHY" => Incident(r, class, w).generation = r.generation
           /\ r.class = "HEALTHY" /\ class # "HEALTHY" =>
                 Incident(r, class, w).generation = r.generation + 1
           /\ class = "HEALTHY" => Incident(r, class, w).alert = NoAlerts
           /\ class = r.class \/ (class = "LOW_STOCK" /\ r.class = "OUT_OF_STOCK") =>
                 class = "HEALTHY" \/ Incident(r, class, w).alert = r.alert
           /\ \A level \in Level :
                 \/ /\ Incident(r, class, w).alert[level] = NoAlert
                    /\ class = "HEALTHY" \/ r.class = "HEALTHY"
                 \/ /\ Incident(r, class, w).alert[level] = r.alert[level]
                    /\ r.class # "HEALTHY" /\ class # "HEALTHY"
                    /\ level = class => r.class \in {class, "OUT_OF_STOCK"}
                 \/ /\ Incident(r, class, w).alert[level] =
                          [source |-> IF w.baseline THEN NoEvent ELSE w.event,
                           captured |-> FALSE]
                    /\ level = class /\ class # r.class /\ r.class # "OUT_OF_STOCK"
  <1> DEFINE I == Incident(r, class, w)
             source == [source |-> IF w.baseline THEN NoEvent ELSE w.event,
                        captured |-> FALSE]
             alerts == IF r.class = "HEALTHY" THEN NoAlerts ELSE r.alert
  <1>1. I = IF class = "HEALTHY" THEN [generation |-> r.generation, alert |-> NoAlerts]
            ELSE IF class = r.class \/ r.class = "OUT_OF_STOCK"
            THEN [generation |-> r.generation, alert |-> r.alert]
            ELSE [generation |-> IF r.class = "HEALTHY" THEN r.generation + 1
                                 ELSE r.generation,
                  alert |-> [alerts EXCEPT ![class] = source]]
    BY DEF Incident
  <1>2. r.generation \in Nat /\ r.alert \in [Level -> Alert] /\ r.class \in Class
    BY DEF Row
  <1>3. alerts \in [Level -> Alert]
    BY <1>2, NoAlertsType
  <1>4. \A level \in Level : NoAlerts[level] = NoAlert
    BY DEF NoAlerts
  <1> HIDE DEF I, source
  <1>5. CASE class = "HEALTHY"
    BY <1>1, <1>2, <1>4, <1>5 DEF I
  <1>6. CASE class # "HEALTHY" /\ (class = r.class \/ r.class = "OUT_OF_STOCK")
    BY <1>1, <1>2, <1>6 DEF I, Class
  <1>7. CASE class # "HEALTHY" /\ ~(class = r.class \/ r.class = "OUT_OF_STOCK")
    <2>1. I.alert = [alerts EXCEPT ![class] = source]
      BY <1>1, <1>7
    <2>2. \A level \in Level : I.alert[level] = IF level = class THEN source
                                                 ELSE alerts[level]
      BY <1>3, <2>1
    <2>3. I.generation = IF r.class = "HEALTHY" THEN r.generation + 1 ELSE r.generation
      BY <1>1, <1>7
    <2> HIDE DEF alerts
    <2>4. \A level \in Level :
             \/ alerts[level] = NoAlert /\ r.class = "HEALTHY"
             \/ alerts[level] = r.alert[level] /\ r.class # "HEALTHY"
      BY <1>4 DEF alerts
    <2>5. r.generation <= I.generation /\ I.generation \in Nat
      BY <1>2, <2>3
    <2>7. ASSUME NEW level \in Level
          PROVE  \/ I.alert[level] = NoAlert /\ r.class = "HEALTHY"
                 \/ /\ I.alert[level] = r.alert[level]
                    /\ r.class # "HEALTHY" /\ class # "HEALTHY"
                    /\ level = class => r.class \in {class, "OUT_OF_STOCK"}
                 \/ /\ I.alert[level] = source
                    /\ level = class /\ class # r.class /\ r.class # "OUT_OF_STOCK"
      BY <1>7, <2>2, <2>4
    <2> QED
      BY <1>2, <1>7, <2>3, <2>5, <2>7 DEF I, source, Class
  <1> QED
    BY <1>5, <1>6, <1>7

LEMMA WrittenFields ==
    ASSUME NEW r, NEW class, NEW w
    PROVE  /\ Written(r, class, w).time = w.seen.time
           /\ Written(r, class, w).stock = w.seen.stock
           /\ Written(r, class, w).class = class
           /\ Written(r, class, w).generation = Incident(r, class, w).generation
           /\ Written(r, class, w).alert = Incident(r, class, w).alert
           /\ Written(r, class, w).deletedAt =
                 IF ~Active(w.seen.stock)
                 THEN IF w.baseline THEN Cardinality(inbox) + 1 ELSE w.event
                 ELSE IF ClearsDeletion(w) THEN Never ELSE r.deletedAt
  BY DEF Written

LEMMA FoundFacts ==
    ASSUME TypeOK, NEW i \in Items
    PROVE  /\ Found(i) \in Row
           /\ row[i] # NoRow => Found(i) = row[i]
           /\ row[i] = NoRow =>
                 Found(i).deletedAt = Never /\ Found(i).class = "HEALTHY"
                 /\ Found(i).alert = NoAlerts /\ Found(i).generation = 0
  <1>1. Unknown \in Row
    BY NoAlertsType DEF Unknown, Row, Class, Stock, NoEvent, Never
  <1> QED
    BY <1>1 DEF Found, Unknown, TypeOK

\* What p writes.
LEMMA WritesFacts ==
    ASSUME TypeOK, NEW p \in Projectors, NEW i \in Items, Writes(p, i)
    PROVE  /\ Found(i) \in Row /\ work[p] \in Work
           /\ ClassFor(Found(i), work[p]) \in Class
           /\ row'[i] = Written(Found(i), ClassFor(Found(i), work[p]), work[p])
           /\ row'[i] # NoRow
           /\ \A j \in Items : j # i => row'[j] = row[j]
  <1>1. Found(i) \in Row /\ work[p] \in Work
    BY FoundFacts DEF TypeOK
  <1>2. ClassFor(Found(i), work[p]) \in Class
    BY ClassifyType DEF ClassFor, Class
  <1>3. /\ row'[i] = Written(Found(i), ClassFor(Found(i), work[p]), work[p])
        /\ \A j \in Items : j # i => row'[j] = row[j]
    BY DEF Writes, TypeOK
  <1>4. row'[i] \in Row
    <2>1. Cardinality(inbox) \in Nat
      BY FS_CardinalityType DEF TypeOK
    <2> QED
      BY <1>1, <1>2, <1>3, <2>1, WrittenType
  <1> QED
    BY <1>1, <1>2, <1>3, <1>4, InventoryAssumption

\* What a deletion makes of a row it removes.
Marked(r, w) == [r EXCEPT !.deletedAt = w.event, !.receivedAt = w.event,
                          !.class = "HEALTHY", !.alert = NoAlerts]

\* What a capture makes of the row of s.
Captures(p, s) ==
    /\ work[p].signals # <<>> /\ s = Head(work[p].signals)
    /\ s \in Signal /\ row[s.item] \in Row /\ s.source = work[p].event
    /\ work[p].step = "schedule" /\ Matches(s) /\ ~row[s.item].alert[s.level].captured
    /\ row'[s.item] = [row[s.item] EXCEPT !.alert[s.level].captured = TRUE]
    /\ \A j \in Items : j # s.item => row'[j] = row[j]
    /\ deliveries' = deliveries
       \/ /\ Keyed(s) = {}
          /\ deliveries' = deliveries \cup
                {[item |-> s.item, generation |-> s.generation, level |-> s.level,
                  source |-> s.source, queued |-> FALSE]}
    /\ Goes(p, [work[p] EXCEPT !.step = "enqueue"])

\* A step that changes no row and no delivery of itself.
LEMMA CaptureCases ==
    ASSUME TypeOK, HandlersInv, NEW p \in Projectors, Capture(p)
    PROVE  /\ work[p].step = "schedule" /\ work[p].signals # <<>>
           /\ Head(work[p].signals) \in Signal
           /\ row[Head(work[p].signals).item] \in Row
           /\ \/ Captures(p, Head(work[p].signals))
              \/ /\ UNCHANGED <<row, deliveries>>
                 /\ Matches(Head(work[p].signals))
                 /\ row[Head(work[p].signals).item].alert[Head(work[p].signals).level].captured
                 /\ Goes(p, [work[p] EXCEPT !.step = "enqueue"])
              \/ /\ UNCHANGED <<row, deliveries>>
                 /\ ~Matches(Head(work[p].signals)) \/
                    (Lapses /\ row[Head(work[p].signals).item].alert
                                  [Head(work[p].signals).level].captured)
                 /\ Goes(p, [work[p] EXCEPT !.signals = Tail(@)])
           /\ UNCHANGED <<remoteVars, eventVars, threshold, claimVars, rare>>
  <1> DEFINE s == Head(work[p].signals)
  <1>1. work[p].step = "schedule" /\ work[p].signals # <<>>
    BY DEF Capture
  <1>2. work[p].signals \in Seq(Signal)
    BY DEF TypeOK, Work
  <1>3. 1 \in 1..Len(work[p].signals) /\ s = work[p].signals[1] /\ s \in Signal
    BY <1>1, <1>2
  <1>4. row[s.item] # NoRow /\ s.source = work[p].event
    BY <1>3 DEF HandlersInv, ProjectorsInv, SignalsInv
  <1>5. s.item \in Items /\ s.level \in Level /\ row[s.item] \in Row
    BY <1>3, <1>4 DEF TypeOK, Signal
  <1>6. ASSUME row' = [row EXCEPT ![s.item].alert[s.level].captured = TRUE]
        PROVE  /\ row'[s.item] = [row[s.item] EXCEPT !.alert[s.level].captured = TRUE]
               /\ \A j \in Items : j # s.item => row'[j] = row[j]
    BY <1>5, <1>6 DEF TypeOK
  <1> QED
    BY <1>1, <1>3, <1>4, <1>5, <1>6 DEF Capture, Captures

\* The row steps of the system: a projection that writes, a deletion, a capture,
\* a change of the threshold; any other leaves the rows alone, and only a
\* capture and the queue change the deliveries.
LEMMA RowCases ==
    ASSUME TypeOK, HandlersInv, [ProjectionNext]_projectionVars
    PROVE  \/ UNCHANGED <<row, threshold>>
           \/ /\ \E p \in Projectors : Apply(p) /\ Writes(p, work[p].item)
              /\ UNCHANGED <<threshold, deliveries>>
           \/ /\ \E p \in Projectors : Remove(p)
              /\ UNCHANGED <<threshold, deliveries>>
           \/ /\ \E p \in Projectors : Capture(p) /\ Captures(p, Head(work[p].signals))
              /\ UNCHANGED threshold
           \/ MoveThreshold
  <1>1. ASSUME NEW p \in Projectors, Apply(p)
        PROVE  \/ UNCHANGED <<row, threshold>>
               \/ Writes(p, work[p].item) /\ UNCHANGED <<threshold, deliveries>>
    BY <1>1, ApplyCases DEF Leaves
  <1>2. ASSUME NEW p \in Projectors, Capture(p)
        PROVE  \/ UNCHANGED <<row, threshold>>
               \/ Captures(p, Head(work[p].signals)) /\ UNCHANGED threshold
    BY <1>2, CaptureCases
  <1>3. ASSUME NEW p \in Projectors, Remove(p)
        PROVE  UNCHANGED <<threshold, deliveries>>
    BY <1>3 DEF Remove
  <1>4. CASE UNCHANGED <<row, threshold>>
    BY <1>4
  <1>5. CASE ~UNCHANGED <<row, threshold>>
    <2>1. \/ \E p \in Projectors : Apply(p) \/ Remove(p) \/ Capture(p)
          \/ MoveThreshold
      BY <1>5 DEF ProjectionNext, projectionVars, eventVars, Take, ReadPage,
                  Reconcile, Look, Probe, Enqueue, Complete, Fails, FailsForGood,
                  Ends, Revise, Trash
    <2> QED
      BY <1>1, <1>2, <1>3, <1>5, <2>1
  <1> QED
    BY <1>4, <1>5

\* What a removal and a change of the threshold make of the row of an item.
LEMMA RemoveFacts ==
    ASSUME TypeOK, HandlersInv, NEW p \in Projectors, Remove(p)
    PROVE  /\ work[p].event # NoEvent /\ work[p].step = "remove"
           /\ work[p].item \in Items
           /\ \A j \in Items :
                 \/ row'[j] = row[j]
                 \/ /\ row[j] # NoRow /\ j \in Below(work[p].item)
                    /\ Removable(j, work[p]) /\ row'[j] = Marked(row[j], work[p])
  <1>1. work[p].step = "remove"
    BY DEF Remove
  <1>2. work[p].event # NoEvent /\ work[p].item \in Items
    BY <1>1 DEF HandlersInv, ProjectorsInv, HandlerInv
  <1>3. \A j \in Items :
           \/ row'[j] = row[j]
           \/ /\ row[j] # NoRow /\ j \in Below(work[p].item)
              /\ Removable(j, work[p]) /\ row'[j] = Marked(row[j], work[p])
    BY DEF Remove, Stored, Marked
  <1> QED
    BY <1>1, <1>2, <1>3

LEMMA MarkedFields ==
    ASSUME NEW r \in Row, NEW w \in Work
    PROVE  /\ Marked(r, w) \in Row
           /\ Marked(r, w).time = r.time /\ Marked(r, w).stock = r.stock
           /\ Marked(r, w).deletedAt = w.event /\ Marked(r, w).class = "HEALTHY"
           /\ Marked(r, w).generation = r.generation /\ Marked(r, w).alert = NoAlerts
  BY NoAlertsType DEF Marked, Row, Class, Work

LEMMA RebaselinedFields ==
    ASSUME NEW r \in Row, NEW limited
    PROVE  LET b == Rebaselined(r, limited)
           IN  /\ b \in Row
               /\ b.time = r.time /\ b.stock = r.stock /\ b.deletedAt = r.deletedAt
               /\ r.generation <= b.generation
               /\ r.deletedAt # Never => b = r
               /\ r.deletedAt = Never => b.class = Classify(r.stock, limited)
               /\ \/ b = r
                  \/ /\ b.alert = NoAlerts /\ r.deletedAt = Never
                     /\ r.class = "HEALTHY" => b.generation = r.generation + 1
  <1> DEFINE class == Classify(r.stock, limited)
             generation == IF r.class = "HEALTHY" THEN r.generation + 1 ELSE r.generation
  <1>1. class \in Class
    BY ClassifyType
  <1>2. Rebaselined(r, limited) =
           IF r.deletedAt # Never \/ class = r.class THEN r
           ELSE [r EXCEPT !.class = class, !.alert = NoAlerts, !.generation = generation]
    BY DEF Rebaselined
  <1>3. /\ generation \in Nat /\ r.generation \in Nat /\ r.generation <= generation
        /\ r.class = "HEALTHY" => generation = r.generation + 1
    BY DEF Row
  <1> HIDE DEF class, generation
  <1>4. CASE r.deletedAt # Never \/ class = r.class
    BY <1>1, <1>2, <1>3, <1>4 DEF class
  <1>5. CASE ~(r.deletedAt # Never \/ class = r.class)
    <2>1. Rebaselined(r, limited) =
             [r EXCEPT !.class = class, !.alert = NoAlerts, !.generation = generation]
      BY <1>2, <1>5
    <2>2. /\ Rebaselined(r, limited).time = r.time
          /\ Rebaselined(r, limited).stock = r.stock
          /\ Rebaselined(r, limited).deletedAt = r.deletedAt
          /\ Rebaselined(r, limited).generation = generation
          /\ Rebaselined(r, limited).class = class
          /\ Rebaselined(r, limited).alert = NoAlerts
      BY <2>1 DEF Row
    <2> QED
      BY <1>3, <1>5, <2>2, RebaselinedType DEF class
  <1> QED
    BY <1>4, <1>5

\* A capture changes nothing of the row but that the alert is captured.
LEMMA CapturedFields ==
    ASSUME NEW p \in Projectors, NEW s, Captures(p, s)
    PROVE  LET b == row'[s.item]
               r == row[s.item]
           IN  /\ b \in Row
               /\ b.time = r.time /\ b.stock = r.stock /\ b.deletedAt = r.deletedAt
               /\ b.class = r.class /\ b.generation = r.generation
               /\ \A level \in Level :
                     /\ b.alert[level].source = r.alert[level].source
                     /\ r.alert[level].captured => b.alert[level].captured
               /\ b.alert[s.level].captured
  <1>1. s.item \in Items /\ s.level \in Level
    BY DEF Captures, Signal
  <1>2. /\ row[s.item] \in Row
        /\ row'[s.item] = [row[s.item] EXCEPT !.alert[s.level].captured = TRUE]
    BY DEF Captures
  <1> DEFINE r == row[s.item]
             alert == [r.alert EXCEPT ![s.level] = [r.alert[s.level] EXCEPT !.captured = TRUE]]
  <1>3. row'[s.item] = [r EXCEPT !.alert = alert]
    BY <1>1, <1>2 DEF Row, Alert
  <1>4. r.alert \in [Level -> Alert] /\ r \in Row
    BY <1>2 DEF Row
  <1>5. /\ alert \in [Level -> Alert]
        /\ \A level \in Level : /\ alert[level].source = r.alert[level].source
                                /\ r.alert[level].captured => alert[level].captured
        /\ alert[s.level].captured
    BY <1>1, <1>4 DEF Alert
  <1> HIDE DEF r, alert
  <1>6. [r EXCEPT !.alert = alert] \in Row /\ [r EXCEPT !.alert = alert].alert = alert
    BY <1>4, <1>5 DEF Row
  <1>7. /\ row'[s.item].time = r.time /\ row'[s.item].stock = r.stock
        /\ row'[s.item].deletedAt = r.deletedAt /\ row'[s.item].class = r.class
        /\ row'[s.item].generation = r.generation
    BY <1>3, <1>4 DEF Row
  <1> QED
    BY <1>3, <1>5, <1>6, <1>7 DEF r

\* Rows stay, their incidents go on, and a live one's time does not go back.
LEMMA RowsStay ==
    ASSUME TypeOK, HandlersInv, [ProjectionNext]_projectionVars,
           NEW i \in Items, row[i] # NoRow
    PROVE  /\ row'[i] # NoRow /\ row[i] \in Row /\ row'[i] \in Row
           /\ row[i].generation <= row'[i].generation
           /\ row[i].deletedAt = Never => row[i].time <= row'[i].time
  <1>1. row[i] \in Row /\ row[i].generation \in Nat /\ row[i].time \in Nat
    BY DEF TypeOK, Row
  <1>2. CASE row'[i] = row[i]
    BY <1>1, <1>2
  <1>3. ASSUME NEW p \in Projectors, Apply(p), Writes(p, work[p].item), row'[i] # row[i]
        PROVE  /\ row'[i] # NoRow /\ row[i].generation <= row'[i].generation
               /\ row[i].deletedAt = Never => row[i].time <= row'[i].time
    <2>1. i = work[p].item
      <3>1. work[p].item \in Items
        BY <1>3 DEF Apply, HandlersInv, ProjectorsInv, HandlerInv
      <3> QED
        BY <1>3, <3>1, WritesFacts
    <2> DEFINE r == Found(i)
               w == work[p]
               class == ClassFor(r, w)
    <2>2. /\ r = row[i] /\ r \in Row /\ w \in Work /\ class \in Class
          /\ row'[i] = Written(r, class, w) /\ row'[i] # NoRow
      BY <1>3, <2>1, WritesFacts, FoundFacts
    <2>3. Decision(r, w) = "apply"
      BY <1>3, <2>1, <2>2 DEF Writes
    <2> HIDE DEF r, w, class
    <2> QED
      <3>1. /\ row'[i].generation = Incident(r, class, w).generation
            /\ row'[i].time = w.seen.time
        BY <2>2, WrittenFields
      <3>2. r.generation <= Incident(r, class, w).generation
        BY <2>2, IncidentFacts
      <3>3. r.deletedAt = Never => r.time <= w.seen.time
        BY <2>2, <2>3, DecisionFacts
      <3> QED
        BY <2>2, <3>1, <3>2, <3>3
  <1>4. ASSUME NEW p \in Projectors, Remove(p), row'[i] # row[i]
        PROVE  /\ row'[i] # NoRow /\ row[i].generation <= row'[i].generation
               /\ row[i].deletedAt = Never => row[i].time <= row'[i].time
    <2>1. row'[i] = Marked(row[i], work[p]) /\ work[p] \in Work
      BY <1>4, RemoveFacts DEF TypeOK
    <2> QED
      BY <1>1, <2>1, MarkedFields, InventoryAssumption
  <1>5. ASSUME NEW p \in Projectors, NEW s, Captures(p, s), row'[i] # row[i]
        PROVE  /\ row'[i] # NoRow /\ row[i].generation <= row'[i].generation
               /\ row[i].deletedAt = Never => row[i].time <= row'[i].time
    <2>1. i = s.item
      BY <1>5 DEF Captures
    <2> QED
      BY <1>1, <1>5, <2>1, CapturedFields, InventoryAssumption
  <1>6. CASE MoveThreshold
    <2>1. row'[i] = Rebaselined(row[i], threshold')
      BY <1>6 DEF MoveThreshold
    <2> QED
      BY <1>1, <2>1, RebaselinedFields, InventoryAssumption
  <1>7. row'[i] # NoRow /\ row[i].generation <= row'[i].generation
        /\ (row[i].deletedAt = Never => row[i].time <= row'[i].time)
    BY <1>2, <1>3, <1>4, <1>5, <1>6, RowCases
  <1>8. row'[i] \in Row
    BY <1>7, TypeStep DEF TypeOK
  <1> QED
    BY <1>1, <1>7, <1>8

-----------------------------------------------------------------------------
(* The projectors.                                                         *)

\* What a projector does stays in order whatever the others do.
LEMMA HandlerStays ==
    ASSUME TypeOK, EventsInv, HandlersInv, [ProjectionNext]_projectionVars,
           NEW w \in Work, HandlerInv(w)
    PROVE  HandlerInv(w)'
  <1>1. inbox \subseteq inbox' /\ (\A i, seen : Sighted(i, seen) => Sighted(i, seen)')
    BY EventsGrow
  <1>2. w.event # NoEvent => \E e \in inbox' : e.receivedAt = w.event /\ e.topic = w.topic
    BY <1>1 DEF HandlerInv
  <1>3. ASSUME NEW e \in inbox', e.receivedAt = w.event, w.step # "idle"
        PROVE  e \in inbox
    <2>1. CASE w.event = NoEvent
      BY <1>3, <2>1, EventsStep DEF EventsInv, NoEvent
    <2>2. CASE w.event # NoEvent
      <3>1. PICK f \in inbox : f.receivedAt = w.event
        BY <2>2 DEF HandlerInv
      <3> QED
        BY <1>1, <1>3, <3>1, EventsStep DEF EventsInv
    <2> QED
      BY <2>1, <2>2
  <1>4. w.step = "apply" =>
           /\ Sighted(w.item, w.seen)'
           /\ \A e \in inbox' :
                 e.receivedAt = w.event =>
                     /\ w.item = e.item => e.time <= w.seen.time
                     /\ ~w.fetched => /\ w.item = e.item /\ e.payload = "whole"
                                      /\ w.seen = [time |-> e.time, stock |-> e.stock]
    BY <1>1, <1>3 DEF HandlerInv
  <1>5. w.step \in {"look", "probe", "remove"} =>
           \E e \in inbox' : /\ e.receivedAt = w.event /\ e.topic = "deleted"
                             /\ e.item = w.item /\ e.time = w.seen.time
    BY <1>1 DEF HandlerInv
  <1> QED
    BY <1>2, <1>4, <1>5 DEF HandlerInv, Sighted

\* A step in which at most p moves, to w2.
LEMMA HandlersFollow ==
    ASSUME TypeOK, EventsInv, HandlersInv, [ProjectionNext]_projectionVars,
           NEW p \in Projectors, NEW w2 \in Work, Goes(p, w2),
           HandlerInv(w2), SignalsInv(w2)'
    PROVE  ProjectorsInv'
  <1>1. work'[p] = w2 /\ \A q \in Projectors : q # p => work'[q] = work[q]
    BY DEF Goes, TypeOK
  <1>2. \A q \in Projectors : work[q] \in Work /\ HandlerInv(work[q]) /\ SignalsInv(work[q])
    BY DEF TypeOK, HandlersInv, ProjectorsInv
  <1>3. ASSUME NEW q \in Projectors
        PROVE  HandlerInv(work[q])' /\ SignalsInv(work[q])'
    <2>1. CASE q = p
      BY <1>1, <2>1, HandlerStays
    <2>2. CASE q # p
      <3>1. HandlerInv(work[q]) /\ work[q] \in Work
        BY <1>2
      <3>2. ASSUME NEW w \in Work, w = work[q]
            PROVE  HandlerInv(w)' /\ SignalsInv(w)'
        <4>1. HandlerInv(w)'
          BY <3>1, <3>2, HandlerStays
        <4>2. ASSUME NEW k \in 1..Len(w.signals)
              PROVE  w.signals[k].source = w.event /\ row'[w.signals[k].item] # NoRow
          <5>1. w.signals[k] \in Signal
            BY <3>2 DEF Work
          <5>2. w.signals[k].source = w.event /\ row[w.signals[k].item] # NoRow
            BY <1>2, <3>2 DEF SignalsInv
          <5> QED
            BY <5>1, <5>2, RowsStay DEF Signal
        <4> QED
          BY <4>1, <4>2 DEF SignalsInv
      <3> QED
        BY <1>1, <2>2, <3>1, <3>2
    <2> QED
      BY <2>1, <2>2
  <1> QED
    BY <1>3 DEF ProjectorsInv

\* Another signal comes last.
LEMMA SignalsAppended ==
    ASSUME NEW s1 \in Seq(Signal), NEW s2,
           s2 = <<>> \/ \E s \in Signal : s2 = <<s>>
    PROVE  /\ s2 = <<>> => s1 \o s2 = s1
           /\ \A k \in 1..Len(s1) : k \in 1..Len(s1 \o s2) /\ (s1 \o s2)[k] = s1[k]
           /\ \A s \in Signal : s2 = <<s>> =>
                 Len(s1) + 1 \in 1..Len(s1 \o s2) /\ (s1 \o s2)[Len(s1) + 1] = s
           /\ \A k \in 1..Len(s1 \o s2) :
                 \/ k \in 1..Len(s1)
                 \/ \E s \in Signal : s2 = <<s>> /\ (s1 \o s2)[k] = s
  <1>1. CASE s2 = <<>>
    <2>1. \A s \in Signal : <<s>> # <<>>
      OBVIOUS
    <2>2. s1 \o <<>> = s1
      OBVIOUS
    <2> QED
      BY <1>1, <2>1, <2>2
  <1>2. ASSUME NEW s \in Signal, s2 = <<s>>
        PROVE  /\ s2 # <<>>
               /\ \A k \in 1..Len(s1) : k \in 1..Len(s1 \o s2) /\ (s1 \o s2)[k] = s1[k]
               /\ Len(s1) + 1 \in 1..Len(s1 \o s2) /\ (s1 \o s2)[Len(s1) + 1] = s
               /\ \A k \in 1..Len(s1 \o s2) :
                     k \in 1..Len(s1) \/ (s1 \o s2)[k] = s
    <2>1. /\ <<s>> \in Seq(Signal) /\ Len(<<s>>) = 1 /\ <<s>>[1] = s /\ <<s>> # <<>>
          /\ Len(s1) \in Nat
      OBVIOUS
    <2>2. Len(s1 \o <<s>>) = Len(s1) + 1
      BY <2>1
    <2>3. \A k \in 1..Len(s1) : (s1 \o <<s>>)[k] = s1[k]
      BY <2>1, <2>2
    <2>4. (s1 \o <<s>>)[Len(s1) + 1] = s
      BY <2>1, <2>2
    <2> QED
      BY <1>2, <2>1, <2>2, <2>3, <2>4
  <1>3. \A a, b \in Signal : <<a>> = <<b>> => a = b
    OBVIOUS
  <1> QED
    BY <1>1, <1>2, <1>3

\* Only an event signals, the alert it has raised or raises.
LEMMA ReplayedIs ==
    ASSUME NEW i \in Items, NEW r \in Row, NEW w \in Work
    PROVE  \/ Replayed(i, r, w) = <<>>
           \/ /\ ~w.baseline
              /\ \E level \in Level :
                    /\ Replayed(i, r, w) = <<SignalOf(i, r.generation, level, w.event)>>
                    /\ SignalOf(i, r.generation, level, w.event) \in Signal
                    /\ r.alert[level].source = w.event
  <1>1. r.generation \in Nat /\ {"LOW_STOCK", "OUT_OF_STOCK"} \subseteq Level
        /\ w.event \in Nat
    BY DEF Row, Level, Work
  <1> QED
    BY <1>1, SignalOfType DEF Replayed

LEMMA SignalledIs ==
    ASSUME NEW i \in Items, NEW r \in Row, NEW w \in Work, NEW class \in Class
    PROVE  \/ Signalled(i, r, class, w) = <<>>
           \/ /\ ~w.baseline
              /\ \E level \in Level :
                    /\ Signalled(i, r, class, w) =
                          <<SignalOf(i, Incident(r, class, w).generation, level, w.event)>>
                    /\ SignalOf(i, Incident(r, class, w).generation, level, w.event) \in Signal
  <1>1. CASE class = "HEALTHY" \/ (r.class = "OUT_OF_STOCK" /\ class = "LOW_STOCK")
    BY <1>1 DEF Signalled
  <1>2. CASE class # "HEALTHY" /\ class = r.class
    <2>1. Incident(r, class, w).generation = r.generation
      BY <1>2, IncidentFacts
    <2>2. Signalled(i, r, class, w) = Replayed(i, r, w)
      BY <1>2 DEF Signalled, Class
    <2> QED
      BY <2>1, <2>2, ReplayedIs
  <1>3. CASE /\ class # "HEALTHY" /\ class # r.class
             /\ ~(r.class = "OUT_OF_STOCK" /\ class = "LOW_STOCK")
    <2>1. class \in Level /\ Incident(r, class, w).generation \in Nat /\ w.event \in Nat
      BY <1>3, IncidentFacts DEF Level, Class, Work
    <2>2. SignalOf(i, Incident(r, class, w).generation, class, w.event) \in Signal
      BY <2>1, SignalOfType
    <2> QED
      BY <1>3, <2>1, <2>2 DEF Signalled
  <1> QED
    BY <1>1, <1>2, <1>3


\* Where a projection leaves its projector.
Onward(p, w, w2, signals) ==
    /\ Goes(p, w2)
    /\ w2.signals = w.signals \o signals
    /\ w2.event = w.event /\ w2.topic = w.topic /\ w2.seen = w.seen
    /\ w2.fetched = w.fetched /\ w2.baseline = w.baseline

\* It is done, or goes on with the parent of an item that is not tracked.
Passes(w, w2) ==
    \/ w2.step = "schedule" /\ w2.item = w.item
    \/ /\ w2.step = "fetch" /\ ~w.fetched /\ ~Active(w.seen.stock)
       /\ w2.item = Parent[w.item] /\ w2.item \in Items

LEMMA AfterFacts ==
    ASSUME TypeOK, NEW p \in Projectors, NEW w \in Work, w.item \in Items,
           NEW signals \in Seq(Signal), After(p, w, signals)
    PROVE  \E w2 \in Work : Onward(p, w, w2, signals) /\ Passes(w, w2)
  <1>1. w.signals \o signals \in Seq(Signal)
    BY DEF Work
  <1>2. Parent[w.item] \in Items \cup {NoItem}
    BY InventoryAssumption
  <1>3. CASE ~w.fetched /\ ~Active(w.seen.stock) /\ Parent[w.item] # NoItem
    <2> DEFINE w2 == [w EXCEPT !.step = "fetch", !.item = Parent[w.item],
                               !.signals = w.signals \o signals]
    <2>1. Goes(p, w2)
      BY <1>3 DEF After
    <2>2. /\ w2 \in Work /\ w2.signals = w.signals \o signals
          /\ w2.event = w.event /\ w2.topic = w.topic /\ w2.seen = w.seen
          /\ w2.fetched = w.fetched /\ w2.baseline = w.baseline
          /\ w2.step = "fetch" /\ w2.item = Parent[w.item]
      BY <1>1, <1>2 DEF Work, Step
    <2> HIDE DEF w2
    <2> QED
      BY <1>2, <1>3, <2>1, <2>2 DEF Onward, Passes
  <1>4. CASE ~(~w.fetched /\ ~Active(w.seen.stock) /\ Parent[w.item] # NoItem)
    <2> DEFINE w2 == [w EXCEPT !.step = "schedule", !.signals = w.signals \o signals]
    <2>1. Goes(p, w2)
      BY <1>4 DEF After
    <2>2. /\ w2 \in Work /\ w2.signals = w.signals \o signals
          /\ w2.event = w.event /\ w2.topic = w.topic /\ w2.seen = w.seen
          /\ w2.fetched = w.fetched /\ w2.baseline = w.baseline
          /\ w2.step = "schedule" /\ w2.item = w.item
      BY <1>1 DEF Work, Step
    <2> HIDE DEF w2
    <2> QED
      BY <2>1, <2>2 DEF Onward, Passes
  <1> QED
    BY <1>3, <1>4

\* The signal of a projection is its event's, of the row it projected.
Raises(w, signals) ==
    signals = <<>> \/ \E s \in Signal : /\ signals = <<s>> /\ ~w.baseline
                                        /\ s.item = w.item /\ s.source = w.event

\* What a projection writes and signals, and where it goes on.
Outcome(p, i, r, w, w2, signals) ==
    \/ /\ Writes(p, i) /\ Passes(w, w2)
       /\ signals = Signalled(i, r, ClassFor(r, w), w)
    \/ /\ UNCHANGED row /\ Passes(w, w2) /\ signals = <<>>
       /\ \/ row[i] = NoRow /\ ~Active(w.seen.stock)
          \/ row[i] # NoRow /\ w.baseline
    \/ /\ UNCHANGED row /\ Passes(w, w2)
       /\ row[i] # NoRow /\ Decision(r, w) = "noop"
       /\ signals = Replayed(i, r, w)
    \/ /\ UNCHANGED row /\ signals = <<>>
       /\ row[i] # NoRow /\ Decision(r, w) = "reconcile"
       /\ w2.step = "fetch" /\ w2.item = i

LEMMA AppliedFacts ==
    ASSUME TypeOK, HandlersInv, NEW p \in Projectors, Apply(p),
           NEW w, w = work[p], NEW i, i = w.item, NEW r, r = Found(i)
    PROVE  /\ w.step = "apply" /\ i \in Items /\ w \in Work /\ r \in Row
           /\ \E w2 \in Work, signals \in Seq(Signal) :
                 Onward(p, w, w2, signals) /\ Raises(w, signals)
                 /\ Outcome(p, i, r, w, w2, signals)
  <1> DEFINE class == ClassFor(r, w)
  <1>1. w.step = "apply" /\ (Writes(p, i) \/ Leaves(p, i))
    BY ApplyCases
  <1>2. i \in Items /\ w \in Work
    BY <1>1 DEF HandlersInv, ProjectorsInv, HandlerInv, TypeOK
  <1>3. r \in Row /\ class \in Class
    BY <1>2, FoundFacts, ClassifyType DEF ClassFor, Class
  <1>4. ASSUME NEW signals, Raises(w, signals)
        PROVE  signals \in Seq(Signal)
    <2>1. CASE signals = <<>>
      BY <2>1
    <2>2. ASSUME NEW s \in Signal, signals = <<s>>
          PROVE  signals \in Seq(Signal)
      <3>1. <<s>> \in Seq(Signal)
        OBVIOUS
      <3> QED
        BY <2>2, <3>1
    <2> QED
      BY <1>4, <2>1, <2>2 DEF Raises
  <1>5. Raises(w, <<>>) /\ Raises(w, Replayed(i, r, w)) /\ Raises(w, Signalled(i, r, class, w))
    <2>1. \A g, level : /\ SignalOf(i, g, level, w.event).item = i
                        /\ SignalOf(i, g, level, w.event).source = w.event
      BY DEF SignalOf
    <2> HIDE DEF class
    <2>2. Raises(w, Replayed(i, r, w))
      BY <1>2, <1>3, <2>1, ReplayedIs DEF Raises
    <2>3. Raises(w, Signalled(i, r, class, w))
      BY <1>2, <1>3, <2>1, SignalledIs DEF Raises
    <2> QED
      BY <2>2, <2>3 DEF Raises
  <1> HIDE DEF class
  <1>6. CASE Writes(p, i)
    <2>1. After(p, w, Signalled(i, r, class, w))
      BY <1>6 DEF Writes, class
    <2>2. PICK w2 \in Work : Onward(p, w, w2, Signalled(i, r, class, w)) /\ Passes(w, w2)
      BY <1>2, <1>4, <1>5, <2>1, AfterFacts
    <2>3. Outcome(p, i, r, w, w2, Signalled(i, r, class, w))
      BY <1>6, <2>2 DEF Outcome, class
    <2> QED
      BY <1>1, <1>2, <1>3, <1>4, <1>5, <2>2, <2>3
  <1>7. CASE Leaves(p, i)
    <2>1. UNCHANGED row
      BY <1>7 DEF Leaves
    <2>2. CASE /\ \/ row[i] = NoRow /\ ~Active(w.seen.stock)
                  \/ row[i] # NoRow /\ Superseded(r, w)
               /\ After(p, w, <<>>)
      <3>1. PICK w2 \in Work : Onward(p, w, w2, <<>>) /\ Passes(w, w2)
        BY <1>2, <1>4, <1>5, <2>2, AfterFacts
      <3>2. Superseded(r, w) => w.baseline
        BY DEF Superseded
      <3>3. Outcome(p, i, r, w, w2, <<>>)
        BY <2>1, <2>2, <3>1, <3>2 DEF Outcome
      <3> QED
        BY <1>1, <1>2, <1>3, <1>4, <1>5, <3>1, <3>3
    <2>3. CASE /\ row[i] # NoRow /\ Decision(r, w) = "noop"
               /\ After(p, w, Replayed(i, r, w))
      <3>1. PICK w2 \in Work : Onward(p, w, w2, Replayed(i, r, w)) /\ Passes(w, w2)
        BY <1>2, <1>4, <1>5, <2>3, AfterFacts
      <3>2. Outcome(p, i, r, w, w2, Replayed(i, r, w))
        BY <2>1, <2>3, <3>1 DEF Outcome
      <3> QED
        BY <1>1, <1>2, <1>3, <1>4, <1>5, <3>1, <3>2
    <2>4. CASE /\ row[i] # NoRow /\ Decision(r, w) = "reconcile"
               /\ Goes(p, [w EXCEPT !.step = "fetch"])
      <3> DEFINE w2 == [w EXCEPT !.step = "fetch"]
      <3>1. /\ w2 \in Work /\ w2.signals = w.signals
            /\ w2.event = w.event /\ w2.topic = w.topic /\ w2.seen = w.seen
            /\ w2.fetched = w.fetched /\ w2.baseline = w.baseline
            /\ w2.step = "fetch" /\ w2.item = w.item
        BY <1>2 DEF Work, Step
      <3>2. w.signals \o <<>> = w.signals
        BY <1>2 DEF Work
      <3>3. Goes(p, w2)
        BY <2>4
      <3> HIDE DEF w2
      <3>4. Onward(p, w, w2, <<>>)
        BY <3>1, <3>2, <3>3 DEF Onward
      <3>5. Outcome(p, i, r, w, w2, <<>>)
        BY <2>1, <2>4, <3>1 DEF Outcome
      <3> QED
        BY <1>1, <1>2, <1>3, <1>4, <1>5, <3>1, <3>4, <3>5
    <2>5. \/ row[i] = NoRow /\ ~Active(w.seen.stock) /\ After(p, w, <<>>)
          \/ row[i] # NoRow /\ Superseded(r, w) /\ After(p, w, <<>>)
          \/ /\ row[i] # NoRow /\ ~Superseded(r, w) /\ Decision(r, w) = "noop"
             /\ After(p, w, Replayed(i, r, w))
          \/ /\ row[i] # NoRow /\ ~Superseded(r, w) /\ Decision(r, w) = "reconcile"
             /\ Goes(p, [w EXCEPT !.step = "fetch"])
      BY <1>7 DEF Leaves
    <2> QED
      BY <2>2, <2>3, <2>4, <2>5
  <1> QED
    BY <1>1, <1>6, <1>7

LEMMA SignalsStay ==
    ASSUME TypeOK, HandlersInv, [ProjectionNext]_projectionVars,
           NEW w \in Work, SignalsInv(w)
    PROVE  SignalsInv(w)'
  <1>1. ASSUME NEW k \in 1..Len(w.signals)
        PROVE  w.signals[k].source = w.event /\ row'[w.signals[k].item] # NoRow
    <2>1. w.signals[k] \in Signal
      BY DEF Work
    <2>2. w.signals[k].source = w.event /\ row[w.signals[k].item] # NoRow
      BY DEF SignalsInv
    <2> QED
      BY <2>1, <2>2, RowsStay DEF Signal
  <1> QED
    BY <1>1 DEF SignalsInv

LEMMA IdleIsHandled == HandlerInv(Idle) /\ SignalsInv(Idle)
  <1>1. Len(<<>>) = 0 /\ \A k \in 1..0 : FALSE
    OBVIOUS
  <1> QED
    BY <1>1 DEF HandlerInv, SignalsInv, Idle, NoEvent

\* What a projector that has taken an event holds.
LEMMA TakenFacts ==
    ASSUME TypeOK, NEW p \in Projectors, NEW e, Take(p, e)
    PROVE  /\ work'[p].item = e.item /\ ~work'[p].fetched
           /\ work'[p].step \in {"refuse", "look", "apply", "fetch"}
           /\ e.payload = "whole" /\ e.topic # "deleted" => work'[p].step = "apply"
  <1> DEFINE taken == [Idle EXCEPT
           !.event = e.receivedAt, !.item = e.item, !.topic = e.topic,
           !.seen = [time |-> e.time, stock |-> e.stock],
           !.step = IF e.payload = "nothing" THEN "refuse"
                    ELSE IF e.topic = "deleted" THEN "look"
                    ELSE IF e.payload = "whole" THEN "apply" ELSE "fetch"]
  <1>1. Goes(p, taken)
    BY DEF Take
  <1>2. /\ taken.item = e.item /\ ~taken.fetched
        /\ taken.step \in {"refuse", "look", "apply", "fetch"}
        /\ e.payload = "whole" /\ e.topic # "deleted" => taken.step = "apply"
    BY DEF Idle
  <1> HIDE DEF taken
  <1>3. work'[p] = taken
    BY <1>1 DEF Goes, TypeOK
  <1> QED
    BY <1>2, <1>3

\* Who works on an event goes on with it.
LEMMA SameEvent ==
    ASSUME TypeOK, HandlersInv, NEW o \in Projectors,
           \/ Reconcile(o) \/ Apply(o) \/ Look(o) \/ Probe(o) \/ Remove(o)
           \/ Capture(o) \/ Enqueue(o)
    PROVE  \E w2 : Goes(o, w2) /\ w2.event = work[o].event
  <1>1. \A q \in Projectors : work[q] \in Work
    BY DEF TypeOK
  <1>2. ASSUME NEW q \in Projectors, Apply(q)
        PROVE  \E w2 : Goes(q, w2) /\ w2.event = work[q].event
    <2>1. PICK w, i, r : w = work[q] /\ i = w.item /\ r = Found(i)
      OBVIOUS
    <2>2. \E w2 \in Work, signals \in Seq(Signal) : Onward(q, w, w2, signals)
      BY <1>2, <2>1, AppliedFacts
    <2> QED
      BY <2>1, <2>2 DEF Onward
  <1>3. ASSUME NEW q \in Projectors,
                Reconcile(q) \/ Look(q) \/ Probe(q) \/ Remove(q) \/ Capture(q) \/ Enqueue(q)
         PROVE  \E w2 : Goes(q, w2) /\ w2.event = work[q].event
    <2> DEFINE w == work[q]
    <2>1. w \in Work
      BY <1>1
    <2>2. \A step : [w EXCEPT !.step = step].event = w.event
      BY <2>1 DEF Work
    <2>3. \A step, s : [w EXCEPT !.step = step, !.signals = s].event = w.event
      BY <2>1 DEF Work
    <2>4. \A s : [w EXCEPT !.signals = s].event = w.event
      BY <2>1 DEF Work
    <2>7. CASE Reconcile(q)
      <3> DEFINE w2 == [w EXCEPT
               !.step = "apply", !.fetched = TRUE,
               !.seen = [time |-> remote[w.item].time,
                         stock |-> remote[w.item].stock]]
      <3>1. Goes(q, w2) /\ w2.event = w.event
        BY <2>1, <2>7 DEF Reconcile, Work
      <3> HIDE DEF w2
      <3> QED
        BY <3>1
    <2>8. CASE Look(q)
      BY <2>2, <2>8 DEF Look
    <2>9. CASE Probe(q)
      <3> DEFINE w2 == [w EXCEPT !.step = "apply", !.baseline = TRUE,
                     !.fetched = TRUE,
                     !.seen = [time |-> remote[w.item].time,
                               stock |-> remote[w.item].stock]]
      <3>1. w2.event = w.event
        BY <2>1 DEF Work
      <3>2. Goes(q, w2) \/ Goes(q, [w EXCEPT !.step = "remove"])
        BY <2>9 DEF Probe
      <3> HIDE DEF w2
      <3> QED
        BY <2>2, <3>1, <3>2
    <2>10. CASE Remove(q)
      BY <2>2, <2>10 DEF Remove
    <2>11. CASE Capture(q)
      BY <2>2, <2>4, <2>11 DEF Capture
    <2>12. CASE Enqueue(q)
      <3> DEFINE w2 == [w EXCEPT !.step = "schedule", !.signals = Tail(w.signals)]
      <3>1. Goes(q, w2)
        BY <2>12 DEF Enqueue
      <3>2. w2.event = w.event
        BY <2>3
      <3> HIDE DEF w2
      <3> QED
        BY <3>1, <3>2
    <2> QED
      BY <1>3, <2>7, <2>8, <2>9, <2>10, <2>11, <2>12
  <1> QED
    BY <1>2, <1>3

\* How a projector came to hold e.
LEMMA WorkMoves ==
    ASSUME TypeOK, EventsInv, HandlersInv, [ProjectionNext]_projectionVars,
           NEW p \in Projectors, NEW e \in inbox', work'[p].event = e.receivedAt
    PROVE  /\ e \in inbox
           /\ \/ work'[p] = work[p]
              \/ Take(p, e)
              \/ /\ work[p].event = e.receivedAt
                 /\ \/ Reconcile(p) \/ Apply(p) \/ Look(p) \/ Probe(p) \/ Remove(p)
                    \/ Capture(p) \/ Enqueue(p)
  <1>1. /\ inbox \subseteq inbox' /\ e.receivedAt # NoEvent
        /\ \A f, g \in inbox' : f.receivedAt = g.receivedAt => f = g
    BY EventsGrow, EventsStep DEF EventsInv, NoEvent
  <1>2. \A q \in Projectors : work[q] \in Work /\ HandlerInv(work[q])
    BY DEF TypeOK, HandlersInv, ProjectorsInv
  <1>3. work[p].event = e.receivedAt => e \in inbox
    <2>1. work[p].event = e.receivedAt => \E f \in inbox : f.receivedAt = work[p].event
      BY <1>1, <1>2 DEF HandlerInv
    <2> QED
      BY <1>1, <2>1
  <1>4. ASSUME NEW q \in Projectors, NEW w2, Goes(q, w2)
        PROVE  work'[q] = w2 /\ \A o \in Projectors : o # q => work'[o] = work[o]
    BY <1>4 DEF Goes, TypeOK
  <1>5. ASSUME NEW q \in Projectors, NEW f \in inbox, Take(q, f)
        PROVE  work'[p] = work[p] \/ (e = f /\ Take(p, e))
    <2> DEFINE w2 == [Idle EXCEPT
           !.event = f.receivedAt, !.item = f.item, !.topic = f.topic,
           !.seen = [time |-> f.time, stock |-> f.stock],
           !.step = IF f.payload = "nothing" THEN "refuse"
                    ELSE IF f.topic = "deleted" THEN "look"
                    ELSE IF f.payload = "whole" THEN "apply" ELSE "fetch"]
    <2>1. Goes(q, w2) /\ w2.event = f.receivedAt
      BY <1>5 DEF Take, Idle
    <2> HIDE DEF w2
    <2>2. CASE q = p
      BY <1>1, <1>4, <1>5, <2>1, <2>2
    <2>3. CASE q # p
      BY <1>4, <2>1, <2>3
    <2> QED
      BY <2>2, <2>3
  <1>6. ASSUME NEW q \in Projectors, NEW i \in Items, ReadPage(q, i)
        PROVE  work'[p] = work[p]
    <2> DEFINE w2 == [Idle EXCEPT !.item = i, !.baseline = TRUE, !.fetched = TRUE,
                            !.step = "apply",
                            !.seen = [time |-> remote[i].time,
                                      stock |-> remote[i].stock]]
    <2>1. Goes(q, w2) /\ w2.event = NoEvent
      BY <1>6 DEF ReadPage, Idle
    <2> HIDE DEF w2
    <2> QED
      BY <1>1, <1>4, <2>1
  <1>7. ASSUME NEW q \in Projectors, Complete(q) \/ Fails(q) \/ FailsForGood(q)
        PROVE  work'[p] = work[p]
    <2>1. Goes(q, Idle) /\ Idle.event = NoEvent
      BY <1>7 DEF Complete, Fails, FailsForGood, Ends, Idle
    <2> QED
      BY <1>1, <1>4, <2>1
  <1>8. ASSUME NEW q \in Projectors, NEW w2, Goes(q, w2), w2.event = work[q].event
        PROVE  work'[p] = work[p] \/ (q = p /\ work[p].event = e.receivedAt)
    BY <1>4, <1>8
  <1>11. CASE UNCHANGED work
    BY <1>3, <1>11
  <1>12. CASE \E q \in Projectors :
                 \/ Reconcile(q) \/ Apply(q) \/ Look(q) \/ Probe(q) \/ Remove(q)
                 \/ Capture(q) \/ Enqueue(q)
    BY <1>3, <1>8, <1>12, SameEvent
  <1>13. \/ UNCHANGED work
         \/ \E q \in Projectors :
               \/ \E f \in inbox : Take(q, f)
               \/ \E i \in Items : ReadPage(q, i)
               \/ Complete(q) \/ Fails(q) \/ FailsForGood(q)
               \/ Reconcile(q) \/ Apply(q) \/ Look(q) \/ Probe(q) \/ Remove(q)
               \/ Capture(q) \/ Enqueue(q)
    BY DEF ProjectionNext, projectionVars, Revise, Trash, MoveThreshold
  <1> QED
    BY <1>3, <1>5, <1>6, <1>7, <1>11, <1>12, <1>13

\* A claim passes to who takes the event, and is given up by who ends with it.
LEMMA HoldersStep ==
    ASSUME TypeOK, EventsInv, HandlersInv, [ProjectionNext]_projectionVars
    PROVE  HoldersInv'
  <1>1. /\ inbox \subseteq inbox'
        /\ \A e, f \in inbox : e.receivedAt = f.receivedAt => e = f
        /\ \A e \in inbox : e.receivedAt # NoEvent
    BY EventsGrow DEF EventsInv, NoEvent
  <1>2. \A p \in holders : work[p].event # NoEvent /\ work[p].step # "idle"
    BY DEF HandlersInv, HoldersInv, ProjectorsInv, HandlerInv, Idle, TypeOK
  <1>3. ASSUME NEW q \in Projectors, NEW w2, Goes(q, w2)
        PROVE  work'[q] = w2 /\ \A o \in Projectors : o # q => work'[o] = work[o]
    BY <1>3 DEF Goes, TypeOK
  <1>4. ASSUME holders' \subseteq holders,
               \A p \in holders' : work'[p].event = work[p].event,
               \A p \in holders', e \in (completed' \cup failed') :
                  e \in completed \cup failed \/ e.receivedAt # work[p].event
        PROVE  HoldersInv'
    <2>1. ASSUME NEW p \in holders'
          PROVE  work'[p].event # NoEvent /\ \E e \in Open' : e.receivedAt = work'[p].event
      <3>1. PICK e \in Open : e.receivedAt = work[p].event
        BY <1>4, <2>1 DEF HandlersInv, HoldersInv
      <3>2. e \in Open'
        BY <1>1, <1>4, <2>1, <3>1 DEF Open
      <3> QED
        BY <1>2, <1>4, <2>1, <3>1, <3>2
    <2>2. \A p, q \in holders' : work'[p].event = work'[q].event => p = q
      BY <1>4 DEF HandlersInv, HoldersInv
    <2> QED
      BY <2>1, <2>2 DEF HoldersInv
  <1>5. ASSUME UNCHANGED <<holders, completed, failed>>,
               \A p \in holders : work'[p].event = work[p].event
        PROVE  HoldersInv'
    BY <1>4, <1>5
  <1>6. ASSUME NEW p \in Projectors, NEW e \in inbox, Take(p, e)
        PROVE  HoldersInv'
    <2> DEFINE w2 == [Idle EXCEPT
           !.event = e.receivedAt, !.item = e.item, !.topic = e.topic,
           !.seen = [time |-> e.time, stock |-> e.stock],
           !.step = IF e.payload = "nothing" THEN "refuse"
                    ELSE IF e.topic = "deleted" THEN "look"
                    ELSE IF e.payload = "whole" THEN "apply" ELSE "fetch"]
    <2>1. Goes(p, w2) /\ w2.event = e.receivedAt
      BY <1>6 DEF Take, Idle
    <2> HIDE DEF w2
    <2>2. /\ work'[p].event = e.receivedAt
          /\ \A q \in Projectors : q # p => work'[q] = work[q]
      BY <1>3, <2>1
    <2>3. /\ holders' = (holders \ WorkersOf(e)) \cup {p}
          /\ Open' = Open /\ e \in Open /\ p \notin holders
      BY <1>2, <1>6 DEF Take, eventVars, Open
    <2>4. \A q \in holders' : q = p \/ /\ q \in holders /\ work'[q] = work[q]
                                       /\ work[q].event # e.receivedAt
      BY <2>2, <2>3 DEF WorkersOf, TypeOK
    <2>5. \A q \in holders' : /\ work'[q].event # NoEvent
                               /\ \E f \in Open : f.receivedAt = work'[q].event
      BY <1>1, <2>2, <2>3, <2>4 DEF HandlersInv, HoldersInv
    <2>6. \A q, o \in holders' : work'[q].event = work'[o].event => q = o
      BY <2>2, <2>4 DEF HandlersInv, HoldersInv
    <2> QED
      BY <2>3, <2>5, <2>6 DEF HoldersInv
  <1>7. ASSUME NEW p \in Projectors, NEW i \in Items, ReadPage(p, i)
        PROVE  HoldersInv'
    <2>1. p \notin holders
      BY <1>2, <1>7 DEF ReadPage
    <2>2. PICK w2 : Goes(p, w2)
      BY <1>7 DEF ReadPage
    <2> QED
      BY <1>3, <1>5, <1>7, <2>1, <2>2 DEF ReadPage, eventVars, claimVars, TypeOK
  <1>8. ASSUME NEW p \in Projectors,
               \/ Reconcile(p) \/ Apply(p) \/ Look(p) \/ Probe(p) \/ Remove(p)
               \/ Capture(p) \/ Enqueue(p)
        PROVE  HoldersInv'
    <2>1. PICK w2 : Goes(p, w2) /\ w2.event = work[p].event
      BY <1>8, SameEvent
    <2>2. \A q \in Projectors : work'[q].event = work[q].event
      BY <1>3, <2>1
    <2>3. UNCHANGED <<holders, completed, failed>>
      BY <1>8 DEF Reconcile, Apply, Look, Probe, Remove, Capture, Enqueue, eventVars,
                  claimVars
    <2> QED
      BY <1>5, <2>2, <2>3 DEF TypeOK
  <1>9. ASSUME NEW p \in Projectors, Complete(p) \/ Fails(p) \/ FailsForGood(p)
        PROVE  HoldersInv'
    <2>1. Goes(p, Idle) /\ holders' = holders \ {p}
      BY <1>9 DEF Complete, Fails, FailsForGood, Ends
    <2>2. ASSUME NEW e \in (completed' \cup failed'), e \notin completed \cup failed
          PROVE  p \in holders /\ e = EventOf(work[p])
      BY <1>9, <2>2 DEF Complete, Completes, Fails, FailsForGood, Ends
    <2>3. p \in holders => EventOf(work[p]).receivedAt = work[p].event
      <3>1. ASSUME p \in holders
            PROVE  \E e \in inbox : e.receivedAt = work[p].event
        BY <3>1 DEF HandlersInv, HoldersInv, Open
      <3> QED
        BY <3>1 DEF EventOf
    <2>4. \A q \in holders' : q \in holders /\ q # p /\ work'[q] = work[q]
      BY <1>3, <2>1 DEF TypeOK
    <2>5. \A q \in holders', e \in (completed' \cup failed') :
             e \in completed \cup failed \/ e.receivedAt # work[q].event
      BY <2>2, <2>3, <2>4 DEF HandlersInv, HoldersInv
    <2> QED
      BY <1>4, <2>1, <2>4, <2>5
  <1>10. CASE (\E i \in Items : Revise(i) \/ Trash(i)) \/ MoveThreshold
              \/ UNCHANGED projectionVars
    BY <1>5, <1>10 DEF Revise, Trash, MoveThreshold, projectionVars, eventVars, claimVars
  <1> QED
    BY <1>6, <1>7, <1>8, <1>9, <1>10 DEF ProjectionNext

\* A projector that begins, goes on without a projection, or ends.
LEMMA HandlersWork ==
    ASSUME TypeOK, EventsInv, HandlersInv, NEW p \in Projectors,
           [ProjectionNext]_projectionVars
    PROVE  /\ \A e \in inbox : Take(p, e) => ProjectorsInv'
           /\ \A i \in Items : ReadPage(p, i) => ProjectorsInv'
           /\ Reconcile(p) \/ Look(p) \/ Probe(p) \/ Remove(p) => ProjectorsInv'
           /\ Complete(p) \/ Fails(p) \/ FailsForGood(p) => ProjectorsInv'
  <1> DEFINE w == work[p]
  <1>1. w \in Work /\ HandlerInv(w) /\ SignalsInv(w)
    BY DEF TypeOK, HandlersInv, ProjectorsInv
  <1>2. /\ \A e \in inbox : e \in WebhookEvent /\ e.receivedAt # NoEvent
        /\ \A e, f \in inbox : e.receivedAt = f.receivedAt => e = f
    BY DEF TypeOK, EventsInv, NoEvent
  <1>4. ASSUME NEW w2 \in Work, Goes(p, w2), HandlerInv(w2), SignalsInv(w2)
        PROVE  ProjectorsInv'
    BY <1>4, SignalsStay, HandlersFollow
  <1>5. ASSUME NEW e \in inbox, Take(p, e)
        PROVE  ProjectorsInv'
    <2> DEFINE step == IF e.payload = "nothing" THEN "refuse"
                       ELSE IF e.topic = "deleted" THEN "look"
                       ELSE IF e.payload = "whole" THEN "apply" ELSE "fetch"
               seen == [time |-> e.time, stock |-> e.stock]
               w2 == [Idle EXCEPT !.event = e.receivedAt, !.item = e.item,
                                  !.topic = e.topic, !.seen = seen, !.step = step]
    <2>1. Goes(p, w2)
      BY <1>5 DEF Take
    <2>3. e \in WebhookEvent /\ e.receivedAt # NoEvent
      BY <1>2
    <2>4. seen \in Snapshot /\ seen.time = e.time /\ seen.stock = e.stock
      BY <2>3 DEF Snapshot, WebhookEvent
    <2>5. step \in {"refuse", "look", "apply", "fetch"}
      OBVIOUS
    <2>6. /\ step = "apply" => e.payload = "whole" /\ e.topic # "deleted"
          /\ step = "look" => e.topic = "deleted"
          /\ e.topic = "deleted" => step \in {"refuse", "look"}
      OBVIOUS
    <2> HIDE DEF step
    <2>7. /\ w2 \in Work /\ w2.event = e.receivedAt /\ w2.item = e.item
          /\ w2.topic = e.topic /\ w2.seen = seen /\ w2.step = step
          /\ w2.signals = <<>> /\ ~w2.baseline /\ ~w2.fetched
      BY <2>3, <2>4, <2>5, IdleIsWork DEF Work, Step, WebhookEvent, Idle
    <2> HIDE DEF w2
    <2>8. step = "apply" => Sighted(e.item, seen)
      BY <2>4, <2>6 DEF Sighted
    <2> HIDE DEF seen
    <2>9. e.item \in Items /\ e.time \in Nat
      BY <2>3 DEF WebhookEvent
    <2>10. \A f \in inbox : f.receivedAt = w2.event => f = e
      BY <1>2, <2>7
    <2>11. step = "apply" =>
             \A f \in inbox : f.receivedAt = w2.event =>
                 /\ w2.item = f.item => f.time <= w2.seen.time
                 /\ ~w2.fetched => /\ w2.item = f.item /\ f.payload = "whole"
                                   /\ w2.seen = [time |-> f.time, stock |-> f.stock]
      BY <2>4, <2>6, <2>7, <2>9, <2>10 DEF seen
    <2>12. step \in {"look", "probe", "remove"} =>
             \E f \in inbox : /\ f.receivedAt = w2.event /\ f.topic = "deleted"
                              /\ f.item = w2.item /\ f.time = w2.seen.time
      BY <2>4, <2>5, <2>6, <2>7
    <2>13. HandlerInv(w2)
      BY <2>1, <2>3, <2>5, <2>6, <2>7, <2>8, <2>9, <2>11, <2>12 DEF HandlerInv
    <2>14. SignalsInv(w2)
      BY <2>7 DEF SignalsInv
    <2> QED
      BY <1>4, <2>1, <2>7, <2>13, <2>14
  <1>6. ASSUME NEW i \in Items, ReadPage(p, i)
        PROVE  ProjectorsInv'
    <2> DEFINE seen == [time |-> remote[i].time, stock |-> remote[i].stock]
               w2 == [Idle EXCEPT !.item = i, !.baseline = TRUE, !.fetched = TRUE,
                                  !.step = "apply", !.seen = seen]
    <2>1. Goes(p, w2) /\ remote[i].time > 0
      BY <1>6 DEF ReadPage
    <2>2. seen \in Snapshot /\ Sighted(i, seen)
      BY <2>1, SnapshotType DEF EventsInv, Sighted
    <2> HIDE DEF seen
    <2>3. /\ w2 \in Work /\ w2.event = NoEvent /\ w2.item = i
          /\ w2.topic = "updated" /\ w2.seen = seen /\ w2.step = "apply"
          /\ w2.signals = <<>> /\ w2.baseline /\ w2.fetched
      BY <2>2, IdleIsWork DEF Work, Step, Idle
    <2> HIDE DEF w2
    <2>4. HandlerInv(w2) /\ SignalsInv(w2)
      BY <1>2, <2>2, <2>3 DEF HandlerInv, SignalsInv
    <2> QED
      BY <1>4, <2>1, <2>3, <2>4
  <1>7. CASE Reconcile(p)
    <2> DEFINE i == w.item
               seen == [time |-> remote[i].time, stock |-> remote[i].stock]
               w2 == [w EXCEPT !.step = "apply", !.fetched = TRUE, !.seen = seen]
    <2>1. Goes(p, w2) /\ remote[i].time > 0 /\ w.step = "fetch"
      BY <1>7 DEF Reconcile
    <2>2. i \in Items /\ ~w.baseline /\ w.topic # "deleted"
      BY <1>1, <2>1 DEF HandlerInv
    <2>3. seen \in Snapshot /\ Sighted(i, seen) /\ seen.time = remote[i].time
      BY <2>1, <2>2, SnapshotType DEF EventsInv, Sighted
    <2> HIDE DEF seen
    <2>4. /\ w2 \in Work /\ w2.event = w.event /\ w2.item = i
          /\ w2.topic = w.topic /\ w2.seen = seen /\ w2.step = "apply"
          /\ w2.signals = w.signals /\ w2.baseline = w.baseline /\ w2.fetched
      BY <1>1, <2>3 DEF Work, Step
    <2> HIDE DEF w2
    <2>5. \A e \in inbox : w2.item = e.item => e.time <= w2.seen.time
      BY <2>3, <2>4 DEF EventsInv
    <2>6. HandlerInv(w2)
      BY <1>1, <2>1, <2>2, <2>3, <2>4, <2>5 DEF HandlerInv
    <2>7. SignalsInv(w2)
      BY <1>1, <2>4 DEF SignalsInv
    <2> QED
      BY <1>4, <2>1, <2>4, <2>6, <2>7
  <1>8. CASE Look(p) \/ Remove(p)
    <2>1. PICK step \in {"schedule", "probe", "remove"} :
             Goes(p, [w EXCEPT !.step = step])
      BY <1>8 DEF Look, Remove
    <2>2. w.step \in {"look", "remove"}
      BY <1>8 DEF Look, Remove
    <2> DEFINE w2 == [w EXCEPT !.step = step]
    <2>3. /\ w2 \in Work /\ w2.event = w.event /\ w2.item = w.item
          /\ w2.topic = w.topic /\ w2.seen = w.seen /\ w2.step = step
          /\ w2.signals = w.signals /\ w2.baseline = w.baseline /\ w2.fetched = w.fetched
      BY <1>1 DEF Work, Step
    <2> HIDE DEF w2
    <2>4. w.topic = "deleted" /\ w.signals = <<>> /\ ~w.baseline
      BY <1>1, <1>2, <2>2 DEF HandlerInv
    <2>5. HandlerInv(w2)
      BY <1>1, <2>2, <2>3, <2>4 DEF HandlerInv
    <2>6. SignalsInv(w2)
      BY <1>1, <2>3 DEF SignalsInv
    <2> QED
      BY <1>4, <2>1, <2>2, <2>3, <2>5, <2>6 DEF w2
  <1>9. CASE Probe(p)
    <2> DEFINE i == w.item
               seen == [time |-> remote[i].time, stock |-> remote[i].stock]
               w2 == [w EXCEPT !.step = "apply", !.baseline = TRUE,
                               !.fetched = TRUE, !.seen = seen]
               w3 == [w EXCEPT !.step = "remove"]
    <2>1. w.step = "probe"
      BY <1>9 DEF Probe
    <2>2. PICK e \in inbox : /\ e.receivedAt = w.event /\ e.topic = "deleted"
                             /\ e.item = i /\ e.time = w.seen.time
      BY <1>1, <2>1 DEF HandlerInv
    <2>3. /\ i \in Items /\ w.topic = "deleted" /\ w.signals = <<>> /\ ~w.baseline
          /\ \A f \in inbox : f.receivedAt = w.event => f = e
          /\ remote[i].time > 0 /\ remote[i].time \in Nat
      <3>1. i \in Items
        BY <1>1, <2>1 DEF HandlerInv
      <3>2. w.topic = "deleted" /\ \A f \in inbox : f.receivedAt = w.event => f = e
        BY <1>1, <1>2, <2>2 DEF HandlerInv
      <3>3. w.signals = <<>> /\ ~w.baseline
        BY <1>1, <2>1, <3>2 DEF HandlerInv
      <3>4. 0 < e.time /\ e.time <= remote[i].time /\ e.time \in Nat
        BY <1>2, <2>2 DEF EventsInv, WebhookEvent
      <3>5. remote[i].time \in Nat
        BY <3>1 DEF TypeOK
      <3> QED
        BY <3>1, <3>2, <3>3, <3>4, <3>5
    <2>4. CASE Goes(p, w3)
      <3>1. /\ w3 \in Work /\ w3.event = w.event /\ w3.item = w.item
            /\ w3.topic = w.topic /\ w3.seen = w.seen /\ w3.step = "remove"
            /\ w3.signals = w.signals /\ w3.baseline = w.baseline /\ w3.fetched = w.fetched
        BY <1>1 DEF Work, Step
      <3> HIDE DEF w3
      <3>2. HandlerInv(w3)
        BY <1>1, <2>1, <2>3, <3>1 DEF HandlerInv
      <3>3. SignalsInv(w3)
        BY <1>1, <3>1 DEF SignalsInv
      <3> QED
        BY <1>4, <2>1, <2>4, <3>1, <3>2, <3>3
    <2>5. CASE Goes(p, w2)
      <3>1. seen \in Snapshot /\ Sighted(i, seen) /\ seen.time = remote[i].time
        BY <2>3, SnapshotType DEF EventsInv, Sighted
      <3> HIDE DEF seen
      <3>2. /\ w2 \in Work /\ w2.event = w.event /\ w2.item = i
            /\ w2.topic = w.topic /\ w2.seen = seen /\ w2.step = "apply"
            /\ w2.signals = w.signals /\ w2.baseline /\ w2.fetched
        BY <1>1, <3>1 DEF Work, Step
      <3> HIDE DEF w2
      <3>3. \A f \in inbox : w2.item = f.item => f.time <= w2.seen.time
        BY <3>1, <3>2 DEF EventsInv
      <3>4. HandlerInv(w2)
        BY <1>1, <2>1, <2>3, <3>1, <3>2, <3>3 DEF HandlerInv
      <3>5. SignalsInv(w2)
        BY <1>1, <3>2 DEF SignalsInv
      <3> QED
        BY <1>4, <2>1, <2>5, <3>2, <3>4, <3>5
    <2> QED
      BY <1>9, <2>4, <2>5 DEF Probe
  <1>10. CASE Complete(p) \/ Fails(p) \/ FailsForGood(p)
    <2>1. Goes(p, Idle)
      BY <1>10 DEF Complete, Fails, FailsForGood, Ends
    <2> QED
      BY <1>4, <2>1, IdleIsHandled, IdleIsWork
  <1> QED
    BY <1>5, <1>6, <1>7, <1>8, <1>9, <1>10

\* A projector that projects an item, or schedules an alert.
LEMMA HandlersStep ==
    ASSUME TypeOK, EventsInv, HandlersInv, [ProjectionNext]_projectionVars
    PROVE  HandlersInv'
  <1>1. ASSUME NEW p \in Projectors, Apply(p)
        PROVE  ProjectorsInv'
    <2>0. PICK w, i, r : w = work[p] /\ i = w.item /\ r = Found(i)
      OBVIOUS
    <2>1. /\ w.step = "apply" /\ i \in Items /\ w \in Work /\ r \in Row
          /\ \E w2 \in Work, signals \in Seq(Signal) :
                Onward(p, w, w2, signals) /\ Raises(w, signals)
                /\ Outcome(p, i, r, w, w2, signals)
      BY <1>1, <2>0, AppliedFacts
    <2>2. PICK w2 \in Work, signals \in Seq(Signal) :
             Onward(p, w, w2, signals) /\ Raises(w, signals)
             /\ Outcome(p, i, r, w, w2, signals)
      BY <2>1
    <2>3. HandlerInv(w) /\ SignalsInv(w)
      BY <2>0 DEF HandlersInv, ProjectorsInv
    <2>4. /\ Goes(p, w2) /\ w2.signals = w.signals \o signals
          /\ w2.event = w.event /\ w2.topic = w.topic /\ w2.seen = w.seen
          /\ w2.fetched = w.fetched /\ w2.baseline = w.baseline
      BY <2>2 DEF Onward
    <2>5. /\ w2.item \in Items
          /\ w2.step = "schedule" \/ (w2.step = "fetch" /\ ~w.fetched)
      <3>1. Decision(r, w) = "reconcile" => ~w.fetched
        BY <2>1, DecisionFacts
      <3> QED
        BY <2>0, <2>1, <2>2, <3>1 DEF Outcome, Passes
    <2>6. w.baseline => w2.signals = <<>>
      <3>1. w.baseline => w.signals = <<>> /\ signals = <<>>
        BY <2>2, <2>3 DEF HandlerInv, Raises
      <3>2. <<>> \o <<>> = <<>>
        OBVIOUS
      <3> QED
        BY <2>4, <3>1, <3>2
    <2>7. HandlerInv(w2)
      BY <2>1, <2>3, <2>4, <2>5, <2>6 DEF HandlerInv
    <2>8. signals # <<>> => row'[i] # NoRow
      <3>1. Writes(p, i) => row'[i] # NoRow
        BY <2>1, WritesFacts
      <3> QED
        BY <2>2, <3>1 DEF Outcome
    <2>9. SignalsInv(w2)'
      <3>1. SignalsInv(w)'
        BY <2>1, <2>3, SignalsStay
      <3>2. w.signals \in Seq(Signal) /\ (signals = <<>> \/ \E s \in Signal : signals = <<s>>)
        BY <2>1, <2>2 DEF Work, Raises
      <3>3. \A s \in Signal : <<s>> # <<>> /\ \A s2 \in Signal : <<s>> = <<s2>> => s = s2
        OBVIOUS
      <3>4. ASSUME NEW k \in 1..Len(w2.signals)
            PROVE  w2.signals[k].source = w2.event /\ row'[w2.signals[k].item] # NoRow
        <4>1. CASE k \in 1..Len(w.signals)
          <5>1. w2.signals[k] = w.signals[k]
            BY <2>4, <3>2, <4>1, SignalsAppended
          <5> QED
            BY <2>4, <3>1, <4>1, <5>1 DEF SignalsInv
        <4>2. CASE k \notin 1..Len(w.signals)
          <5>1. PICK s \in Signal : signals = <<s>> /\ w2.signals[k] = s
            BY <2>4, <3>2, <3>4, <4>2, SignalsAppended
          <5>2. s.item = i /\ s.source = w.event
            BY <2>0, <2>2, <3>3, <5>1 DEF Raises
          <5> QED
            BY <2>4, <2>8, <3>3, <5>1, <5>2
        <4> QED
          BY <4>1, <4>2
      <3> QED
        BY <3>4 DEF SignalsInv
    <2> QED
      BY <2>0, <2>3, <2>4, <2>7, <2>9, HandlersFollow
  <1>2. ASSUME NEW p \in Projectors, NEW w2, Goes(p, w2),
               work[p].signals # <<>>, work[p].step \in {"schedule", "enqueue"},
               \/ w2 = [work[p] EXCEPT !.step = "enqueue"] /\ work[p].step = "schedule"
               \/ w2 = [work[p] EXCEPT !.signals = Tail(@)] /\ work[p].step = "schedule"
               \/ w2 = [work[p] EXCEPT !.step = "schedule", !.signals = Tail(@)]
        PROVE  ProjectorsInv'
    <2> DEFINE w == work[p]
    <2>1. w \in Work /\ HandlerInv(w) /\ SignalsInv(w) /\ w.signals \in Seq(Signal)
      BY DEF TypeOK, HandlersInv, ProjectorsInv, Work
    <2>2. Tail(w.signals) \in Seq(Signal)
      BY <1>2, <2>1
    <2>3. /\ w2 \in Work /\ w2.event = w.event /\ w2.item = w.item
          /\ w2.topic = w.topic /\ w2.seen = w.seen
          /\ w2.baseline = w.baseline /\ w2.fetched = w.fetched
          /\ \/ w2.signals = w.signals /\ w2.step = "enqueue"
             \/ w2.signals = Tail(w.signals) /\ w2.step = "schedule"
      <3>1. CASE w2 = [w EXCEPT !.step = "enqueue"]
        BY <2>1, <3>1 DEF Work, Step
      <3>2. CASE w2 = [w EXCEPT !.signals = Tail(@)] /\ w.step = "schedule"
        BY <2>1, <2>2, <3>2 DEF Work, Step
      <3>3. CASE w2 = [w EXCEPT !.step = "schedule", !.signals = Tail(@)]
        BY <2>1, <2>2, <3>3 DEF Work, Step
      <3> QED
        BY <1>2, <3>1, <3>2, <3>3
    <2>4. ~w.baseline /\ w.topic # "deleted"
      BY <1>2, <2>1 DEF HandlerInv
    <2>5. HandlerInv(w2)
      BY <1>2, <2>1, <2>3, <2>4 DEF HandlerInv
    <2>6. SignalsInv(w2)
      <3>1. \A k \in 1..Len(Tail(w.signals)) :
               k + 1 \in 1..Len(w.signals) /\ Tail(w.signals)[k] = w.signals[k + 1]
        BY <1>2, <2>1
      <3> HIDE DEF w
      <3>2. CASE w2.signals = w.signals
        BY <2>1, <2>3, <3>2 DEF SignalsInv
      <3>3. CASE w2.signals = Tail(w.signals)
        <4>1. ASSUME NEW k \in 1..Len(w2.signals)
              PROVE  w2.signals[k].source = w2.event /\ row[w2.signals[k].item] # NoRow
          <5>1. k + 1 \in 1..Len(w.signals) /\ w2.signals[k] = w.signals[k + 1]
            BY <3>1, <3>3, <4>1
          <5> QED
            BY <2>1, <2>3, <5>1 DEF SignalsInv
        <4> QED
          BY <4>1 DEF SignalsInv
      <3> QED
        BY <2>3, <3>2, <3>3
    <2> QED
      BY <1>2, <2>3, <2>5, <2>6, SignalsStay, HandlersFollow
  <1>3. ASSUME NEW p \in Projectors, Capture(p)
        PROVE  ProjectorsInv'
    <2>1. \/ Goes(p, [work[p] EXCEPT !.step = "enqueue"])
          \/ Goes(p, [work[p] EXCEPT !.signals = Tail(@)])
      BY <1>3 DEF Capture
    <2> QED
      BY <1>2, <1>3, <2>1 DEF Capture
  <1>4. ASSUME NEW p \in Projectors, Enqueue(p)
        PROVE  ProjectorsInv'
    <2>1. work[p].signals # <<>>
      BY <1>4 DEF Enqueue, HandlersInv, ProjectorsInv, HandlerInv
    <2> QED
      BY <1>2, <1>4, <2>1 DEF Enqueue
  <1>5. ASSUME UNCHANGED work
        PROVE  ProjectorsInv'
    <2>1. ASSUME NEW q \in Projectors
          PROVE  HandlerInv(work[q])' /\ SignalsInv(work[q])'
      <3>1. PICK w \in Work : w = work[q]
        BY DEF TypeOK
      <3>2. HandlerInv(w) /\ SignalsInv(w)
        BY <3>1 DEF HandlersInv, ProjectorsInv
      <3>3. HandlerInv(w)' /\ SignalsInv(w)'
        BY <3>2, HandlerStays, SignalsStay
      <3> QED
        BY <1>5, <3>1, <3>3
    <2> QED
      BY <1>5, <2>1 DEF ProjectorsInv
  <1>6. ASSUME \/ (\E i \in Items : Revise(i) \/ Trash(i)) \/ MoveThreshold
               \/ UNCHANGED projectionVars
        PROVE  ProjectorsInv'
    BY <1>5, <1>6 DEF Revise, Trash, MoveThreshold, projectionVars
  <1>7. ProjectorsInv'
    BY <1>1, <1>3, <1>4, <1>6, HandlersWork DEF ProjectionNext
  <1> QED
    BY <1>7, HoldersStep DEF HandlersInv

-----------------------------------------------------------------------------
(* The rows and their alerts.                                              *)

\* Whoever captures an alert does so for an item that is not HEALTHY.
LEMMA CaptureFacts ==
    ASSUME TypeOK, HandlersInv, RowsInv, NEW p \in Projectors, NEW s, Captures(p, s)
    PROVE  /\ s.item \in Items /\ s.level \in Level /\ s.source # NoEvent
           /\ row[s.item] \in Row /\ row[s.item] # NoRow
           /\ row[s.item].class # "HEALTHY" /\ row[s.item].deletedAt = Never
           /\ row[s.item].generation = s.generation
           /\ row[s.item].alert[s.level].source = s.source
  <1>1. /\ work[p].signals # <<>> /\ work[p].step = "schedule" /\ s \in Signal
        /\ row[s.item] \in Row /\ s.source = work[p].event /\ Matches(s)
    BY DEF Captures
  <1>2. s.item \in Items /\ s.level \in Level /\ row[s.item] # NoRow
    BY <1>1, InventoryAssumption DEF Signal
  <1>3. s.source # NoEvent
    BY <1>1 DEF HandlersInv, ProjectorsInv, HandlerInv
  <1>4. /\ row[s.item].generation = s.generation
        /\ row[s.item].alert[s.level].source = s.source
    BY <1>1 DEF Matches
  <1>5. NoAlerts[s.level].source = NoEvent
    BY <1>2 DEF NoAlerts, NoAlert
  <1>6. RowInv(s.item)
    BY <1>2 DEF RowsInv
  <1>7. row[s.item].class # "HEALTHY"
    BY <1>3, <1>4, <1>5, <1>6 DEF RowInv
  <1> QED
    BY <1>1, <1>2, <1>3, <1>4, <1>6, <1>7 DEF RowInv

LEMMA RowsStep ==
    ASSUME TypeOK, EventsInv, HandlersInv, RowsInv, [ProjectionNext]_projectionVars
    PROVE  RowsInv'
  <1>1. \A i, seen : Sighted(i, seen) => Sighted(i, seen)'
    BY EventsGrow
  <1>2. ASSUME NEW i \in Items, NEW r, r = row[i], NEW r2, r2 = row'[i], r # NoRow,
               r2.stock = r.stock, r2.time = r.time, r2.deletedAt = r.deletedAt,
               r2.class = r.class, threshold' = threshold,
               r.class = "HEALTHY" => r2.alert = r.alert
        PROVE  RowInv(i)'
    <2>1. RowInv(i)
      BY <1>2 DEF RowsInv
    <2>2. PICK seen : seen = r
      OBVIOUS
    <2>3. Sighted(i, seen)'
      BY <1>1, <1>2, <2>1, <2>2 DEF RowInv
    <2>4. Sighted(i, row[i])'
      BY <1>2, <2>2, <2>3 DEF Sighted
    <2> QED
      BY <1>2, <2>1, <2>4 DEF RowInv
  <1>3. ASSUME UNCHANGED <<row, threshold>>
        PROVE  RowsInv'
    BY <1>2, <1>3 DEF RowsInv
  <1>4. ASSUME NEW p \in Projectors, Apply(p), Writes(p, work[p].item),
               UNCHANGED threshold
        PROVE  RowsInv'
    <2>0. PICK w, i, r, class : /\ w = work[p] /\ i = w.item /\ r = Found(i)
                                /\ class = ClassFor(r, w)
      OBVIOUS
    <2>1. /\ i \in Items /\ HandlerInv(w) /\ w.step = "apply"
          /\ Sighted(i, w.seen) /\ (w.event # NoEvent \/ w.baseline)
      BY <1>4, <2>0 DEF Apply, HandlersInv, ProjectorsInv, HandlerInv
    <2>2. /\ r \in Row /\ w \in Work /\ class \in Class
          /\ row'[i] = Written(r, class, w)
          /\ \A j \in Items : j # i => row'[j] = row[j]
      BY <1>4, <2>0, <2>1, WritesFacts
    <2>3. ASSUME NEW j \in Items, j # i, row'[j] # NoRow
          PROVE  RowInv(j)'
      BY <1>2, <1>4, <2>2, <2>3
    <2>4. RowInv(i)'
      <3>1. /\ row'[i].time = w.seen.time /\ row'[i].stock = w.seen.stock
            /\ row'[i].class = class /\ row'[i].alert = Incident(r, class, w).alert
            /\ row'[i].deletedAt =
                  IF ~Active(w.seen.stock)
                  THEN IF w.baseline THEN Cardinality(inbox) + 1 ELSE w.event
                  ELSE IF ClearsDeletion(w) THEN Never ELSE r.deletedAt
        BY <2>2, WrittenFields
      <3>2. class = "HEALTHY" => row'[i].alert = NoAlerts
        BY <3>1 DEF Incident
      <3>3. Sighted(i, row[i])'
        <4>1. PICK seen : seen = w.seen
          OBVIOUS
        <4>2. Sighted(i, seen)'
          BY <1>1, <2>1, <4>1
        <4> QED
          BY <3>1, <4>1, <4>2 DEF Sighted
      <3>4. Cardinality(inbox) + 1 # Never
        BY FS_CardinalityType DEF TypeOK, Never
      <3>5. class = IF Active(w.seen.stock) /\ (r.deletedAt = Never \/ ClearsDeletion(w))
                    THEN Classify(w.seen.stock, threshold) ELSE "HEALTHY"
        BY <2>0 DEF ClassFor
      <3>6. /\ row'[i].deletedAt # Never => class = "HEALTHY"
            /\ row'[i].deletedAt = Never =>
                  Active(w.seen.stock) /\ class = Classify(w.seen.stock, threshold)
        BY <2>1, <3>1, <3>4, <3>5 DEF Never, NoEvent
      <3> QED
        BY <1>4, <3>1, <3>2, <3>3, <3>6 DEF RowInv
    <2> QED
      BY <2>3, <2>4 DEF RowsInv
  <1>5. ASSUME NEW p \in Projectors, Remove(p), UNCHANGED threshold
        PROVE  RowsInv'
    <2>1. ASSUME NEW i \in Items, row'[i] # NoRow
          PROVE  RowInv(i)'
      <3>1. CASE row'[i] = row[i]
        BY <1>2, <1>5, <2>1, <3>1
      <3>2. CASE row'[i] # row[i]
        <4>1. /\ work[p].event # NoEvent /\ work[p] \in Work /\ row[i] # NoRow
              /\ row'[i] = Marked(row[i], work[p])
          BY <1>5, <3>2, RemoveFacts DEF TypeOK
        <4>2. row[i] \in Row
          BY <4>1 DEF TypeOK
        <4>3. /\ row'[i].time = row[i].time /\ row'[i].stock = row[i].stock
              /\ row'[i].deletedAt # Never /\ row'[i].class = "HEALTHY"
              /\ row'[i].alert = NoAlerts
          BY <4>1, <4>2, MarkedFields DEF Never, NoEvent
        <4>4. PICK seen : seen = row[i]
          OBVIOUS
        <4>5. Sighted(i, seen)'
          BY <1>1, <4>1, <4>4 DEF RowsInv, RowInv
        <4>6. Sighted(i, row[i])'
          BY <4>3, <4>4, <4>5 DEF Sighted
        <4> QED
          BY <4>3, <4>6 DEF RowInv
      <3> QED
        BY <3>1, <3>2
    <2> QED
      BY <2>1 DEF RowsInv
  <1>6. ASSUME NEW p \in Projectors, NEW s, Captures(p, s), UNCHANGED threshold
        PROVE  RowsInv'
    <2>1. /\ s.item \in Items /\ row[s.item] \in Row /\ row[s.item] # NoRow
          /\ row[s.item].class # "HEALTHY"
      BY <1>6, CaptureFacts
    <2>2. ASSUME NEW i \in Items, row'[i] # NoRow
          PROVE  RowInv(i)'
      <3>1. CASE i = s.item
        BY <1>2, <1>6, <2>1, <3>1, CapturedFields
      <3>2. CASE i # s.item
        <4>1. row'[i] = row[i]
          BY <1>6, <3>2 DEF Captures
        <4> QED
          BY <1>2, <1>6, <2>2, <4>1
      <3> QED
        BY <3>1, <3>2
    <2> QED
      BY <2>2 DEF RowsInv
  <1>7. CASE MoveThreshold
    <2>1. ASSUME NEW i \in Items, row'[i] # NoRow
          PROVE  RowInv(i)'
      <3>1. row[i] # NoRow /\ row[i] \in Row /\ row'[i] = Rebaselined(row[i], threshold')
        BY <1>7, <2>1 DEF MoveThreshold, TypeOK
      <3>2. RowInv(i)
        BY <3>1 DEF RowsInv
      <3>3. /\ row'[i].time = row[i].time /\ row'[i].stock = row[i].stock
            /\ row'[i].deletedAt = row[i].deletedAt
            /\ row[i].deletedAt # Never => row'[i] = row[i]
            /\ row[i].deletedAt = Never =>
                  row'[i].class = Classify(row[i].stock, threshold')
            /\ row'[i] = row[i] \/ row'[i].alert = NoAlerts
        BY <3>1, RebaselinedFields
      <3>4. PICK seen : seen = row[i]
        OBVIOUS
      <3>5. Sighted(i, seen)'
        BY <1>1, <3>2, <3>4 DEF RowInv
      <3>6. Sighted(i, row[i])'
        BY <3>3, <3>4, <3>5 DEF Sighted
      <3> QED
        BY <3>2, <3>3, <3>6 DEF RowInv
    <2> QED
      BY <2>1 DEF RowsInv
  <1> QED
    BY <1>3, <1>4, <1>5, <1>6, <1>7, RowCases

\* The alert of i is the one of the step before, in the same incident.
Kept(i, level) ==
    /\ row[i] # NoRow /\ row[i].class # "HEALTHY" /\ row[i].deletedAt = Never
    /\ row'[i].generation = row[i].generation
    /\ row'[i].alert[level].source = row[i].alert[level].source
    /\ row'[i].alert["LOW_STOCK"].source = row[i].alert["LOW_STOCK"].source
    /\ row[i].alert[level].captured => row'[i].alert[level].captured
    /\ level = row'[i].class /\ level = "OUT_OF_STOCK" => row[i].class = level

\* An event's alert is kept, or its projection writes the row.
LEMMA AlertOrigin ==
    ASSUME TypeOK, HandlersInv, RowsInv, [ProjectionNext]_projectionVars,
           NEW i \in Items, row'[i] # NoRow, NEW level \in Level,
           row'[i].alert[level].source # NoEvent
    PROVE  \/ Kept(i, level)
           \/ \E p \in Projectors :
                 /\ Apply(p) /\ Writes(p, i) /\ i = work[p].item /\ ~work[p].baseline
                 /\ work[p].event = row'[i].alert[level].source
                 /\ row'[i].class = level
                 /\ Found(i).class \notin {level, "OUT_OF_STOCK"}
  <1>1. /\ "LOW_STOCK" \in Level
        /\ \A l \in Level : NoAlerts[l] = NoAlert
        /\ NoAlert.source = NoEvent
    BY DEF Level, NoAlerts, NoAlert
  <1>2. ASSUME row'[i] = row[i]
        PROVE  Kept(i, level)
    <2>1. RowInv(i) /\ row[i] # NoRow
      BY <1>2 DEF RowsInv
    <2>2. row[i].class # "HEALTHY"
      BY <1>1, <1>2, <2>1 DEF RowInv
    <2> QED
      BY <1>2, <2>1, <2>2 DEF Kept, RowInv
  <1>3. ASSUME NEW p \in Projectors, Apply(p), Writes(p, work[p].item),
               row'[i] # row[i], ~Kept(i, level)
        PROVE  /\ Writes(p, i) /\ i = work[p].item /\ ~work[p].baseline
               /\ work[p].event = row'[i].alert[level].source
               /\ row'[i].class = level
               /\ Found(i).class \notin {level, "OUT_OF_STOCK"}
    <2>0. PICK w, r, class : w = work[p] /\ r = Found(i) /\ class = ClassFor(r, w)
      OBVIOUS
    <2>1. i = w.item
      <3>1. work[p].item \in Items
        BY <1>3 DEF Apply, HandlersInv, ProjectorsInv, HandlerInv
      <3> QED
        BY <1>3, <2>0, <3>1, WritesFacts
    <2>2. /\ r \in Row /\ w \in Work /\ class \in Class
          /\ row'[i] = Written(r, class, w)
          /\ row[i] # NoRow => r = row[i]
          /\ row[i] = NoRow => r.class = "HEALTHY"
      BY <1>3, <2>0, <2>1, WritesFacts, FoundFacts
    <2>3. /\ row'[i].class = class /\ row'[i].alert = Incident(r, class, w).alert
          /\ row'[i].generation = Incident(r, class, w).generation
      BY <2>2, WrittenFields
    <2>4. class # "HEALTHY"
      BY <1>1, <2>3 DEF Incident
    <2>5. \A l \in Level :
             \/ row'[i].alert[l] = NoAlert /\ r.class = "HEALTHY"
             \/ /\ row'[i].alert[l] = r.alert[l] /\ r.class # "HEALTHY"
                /\ l = class => r.class \in {class, "OUT_OF_STOCK"}
             \/ /\ row'[i].alert[l] = [source |-> IF w.baseline THEN NoEvent ELSE w.event,
                                       captured |-> FALSE]
                /\ l = class /\ class # r.class /\ r.class # "OUT_OF_STOCK"
      BY <2>2, <2>3, <2>4, IncidentFacts
    <2>6. ASSUME row'[i].alert[level] = r.alert[level], r.class # "HEALTHY",
                 level = class => r.class \in {class, "OUT_OF_STOCK"}
          PROVE  Kept(i, level)
      <3>1. row[i] # NoRow /\ r = row[i]
        BY <2>2, <2>6
      <3>2. row[i].deletedAt = Never
        BY <2>6, <3>1 DEF RowsInv, RowInv
      <3>3. row'[i].generation = row[i].generation
        BY <2>2, <2>3, <2>6, <3>1, IncidentFacts
      <3>4. row'[i].alert["LOW_STOCK"].source = row[i].alert["LOW_STOCK"].source
        <4>1. ~("LOW_STOCK" = class /\ class # r.class /\ r.class # "OUT_OF_STOCK")
          BY <2>2, <2>6 DEF Row, Class
        <4> QED
          BY <1>1, <2>5, <2>6, <3>1, <4>1
      <3> QED
        BY <2>3, <2>6, <3>1, <3>2, <3>3, <3>4 DEF Kept
    <2>7. ASSUME row'[i].alert[level] =
                    [source |-> IF w.baseline THEN NoEvent ELSE w.event,
                     captured |-> FALSE],
                 level = class
          PROVE  ~w.baseline /\ w.event = row'[i].alert[level].source
      BY <2>7
    <2> QED
      BY <1>1, <1>3, <2>0, <2>1, <2>3, <2>5, <2>6, <2>7
  <1>4. ASSUME NEW p \in Projectors, Remove(p), row'[i] # row[i]
        PROVE  FALSE
    <2>1. row[i] # NoRow /\ work[p] \in Work /\ row'[i] = Marked(row[i], work[p])
      BY <1>4, RemoveFacts DEF TypeOK
    <2>2. row'[i].alert = NoAlerts
      BY <2>1, MarkedFields DEF TypeOK
    <2> QED
      BY <1>1, <2>2
  <1>5. ASSUME NEW p \in Projectors, NEW s, Captures(p, s), row'[i] # row[i]
        PROVE  Kept(i, level)
    <2>1. i = s.item
      BY <1>5 DEF Captures
    <2> QED
      BY <1>1, <1>5, <2>1, CaptureFacts, CapturedFields DEF Kept
  <1>6. ASSUME MoveThreshold, row'[i] # row[i]
        PROVE  FALSE
    <2>1. row[i] # NoRow /\ row'[i] = Rebaselined(row[i], threshold')
      BY <1>6 DEF MoveThreshold
    <2>2. row'[i].alert = NoAlerts
      BY <1>6, <2>1, RebaselinedFields DEF TypeOK
    <2> QED
      BY <1>1, <2>2
  <1> QED
    BY <1>2, <1>3, <1>4, <1>5, <1>6, RowCases

LEMMA SourcesStep ==
    ASSUME TypeOK, EventsInv, HandlersInv, RowsInv, SourcesInv,
           [ProjectionNext]_projectionVars
    PROVE  SourcesInv'
  <1>1. inbox \subseteq inbox' /\ \A e, f \in inbox' : e.receivedAt = f.receivedAt => e = f
    BY EventsGrow, EventsStep DEF EventsInv
  <1>2. ASSUME NEW i \in Items, NEW level \in Level, row'[i] # NoRow,
               NEW source, source = row'[i].alert[level].source
        PROVE  /\ source # NoEvent => \E e \in inbox' : e.receivedAt = source
               /\ \A e \in inbox' :
                     source = e.receivedAt =>
                         /\ e.topic # "deleted"
                         /\ i = e.item => e.time <= row'[i].time
    <2>1. CASE source = NoEvent
      BY <2>1, EventsStep DEF EventsInv, NoEvent
    <2>2. CASE source # NoEvent /\ Kept(i, level)
      <3>1. /\ row[i] # NoRow /\ row[i].deletedAt = Never
            /\ source = row[i].alert[level].source
        BY <1>2, <2>2 DEF Kept
      <3>2. PICK f \in inbox : f.receivedAt = source
        BY <2>2, <3>1 DEF SourcesInv
      <3>3. f.topic # "deleted" /\ (i = f.item => f.time <= row[i].time)
        BY <3>1, <3>2 DEF SourcesInv
      <3>4. row[i].time <= row'[i].time /\ row[i].time \in Nat /\ row'[i].time \in Nat
        BY <3>1, RowsStay DEF Row
      <3>5. f.time \in Nat
        BY DEF TypeOK, WebhookEvent
      <3> QED
        BY <1>1, <3>2, <3>3, <3>4, <3>5
    <2>3. ASSUME NEW p \in Projectors, Apply(p), Writes(p, i), i = work[p].item,
                 ~work[p].baseline, work[p].event = source, source # NoEvent
          PROVE  \E f \in inbox : /\ f.receivedAt = source /\ f.topic # "deleted"
                                  /\ i = f.item => f.time <= row'[i].time
      <3>1. HandlerInv(work[p]) /\ work[p].step = "apply"
        BY <2>3 DEF HandlersInv, ProjectorsInv, Apply
      <3>2. PICK f \in inbox : f.receivedAt = source /\ f.topic = work[p].topic
        BY <2>3, <3>1 DEF HandlerInv
      <3>3. f.topic # "deleted"
        BY <2>3, <3>1, <3>2 DEF HandlerInv
      <3>4. row'[i].time = work[p].seen.time
        BY <1>2, <2>3, WritesFacts, WrittenFields
      <3> QED
        BY <2>3, <3>1, <3>2, <3>3, <3>4 DEF HandlerInv
    <2> QED
      BY <1>1, <1>2, <2>1, <2>2, <2>3, AlertOrigin
  <1> QED
    BY <1>2 DEF SourcesInv

\* A delivery was there before, or an alert is captured now.
LEMMA DeliveryOrigin ==
    ASSUME TypeOK, HandlersInv, [ProjectionNext]_projectionVars, NEW d \in deliveries'
    PROVE  \/ \E d0 \in deliveries :
                 /\ d.item = d0.item /\ d.generation = d0.generation
                 /\ d.level = d0.level /\ d.source = d0.source
                 /\ d0.queued => d.queued
           \/ \E p \in Projectors, s \in Signal :
                 /\ Capture(p) /\ Captures(p, s)
                 /\ d = [item |-> s.item, generation |-> s.generation,
                         level |-> s.level, source |-> s.source, queued |-> FALSE]
  <1>1. CASE d \in deliveries
    BY <1>1
  <1>2. ASSUME d \notin deliveries, NEW p \in Projectors, Capture(p)
        PROVE  \E s \in Signal :
                  /\ Captures(p, s)
                  /\ d = [item |-> s.item, generation |-> s.generation,
                          level |-> s.level, source |-> s.source, queued |-> FALSE]
    BY <1>2, CaptureCases DEF Captures
  <1>3. ASSUME d \notin deliveries, NEW p \in Projectors, Enqueue(p)
        PROVE  \E d0 \in deliveries :
                  /\ d.item = d0.item /\ d.generation = d0.generation
                  /\ d.level = d0.level /\ d.source = d0.source
                  /\ d0.queued => d.queued
    <2>1. PICK d0 \in deliveries : d = [d0 EXCEPT !.queued = TRUE]
      BY <1>3 DEF Enqueue, Keyed
    <2>2. d0 \in Delivery
      BY DEF TypeOK
    <2> QED
      BY <2>1, <2>2 DEF Delivery
  <1>4. CASE UNCHANGED deliveries
    BY <1>1, <1>4
  <1>5. \/ UNCHANGED deliveries
        \/ \E p \in Projectors : Capture(p) \/ Enqueue(p)
    BY DEF ProjectionNext, projectionVars, eventVars, Take, ReadPage, Reconcile,
           Apply, Look, Probe, Remove, Complete, Fails, FailsForGood, Ends, Revise,
           Trash, MoveThreshold
  <1> QED
    BY <1>1, <1>2, <1>3, <1>4, <1>5

LEMMA DeliveriesStep ==
    ASSUME TypeOK, HandlersInv, RowsInv, DeliveriesInv, [ProjectionNext]_projectionVars
    PROVE  DeliveriesInv'
  <1>1. ASSUME NEW d0 \in deliveries
        PROVE  row'[d0.item] # NoRow /\ d0.generation <= row'[d0.item].generation
    <2>1. d0.item \in Items /\ d0.generation \in Nat
      BY DEF TypeOK, Delivery
    <2>2. row[d0.item] # NoRow /\ d0.generation <= row[d0.item].generation
      BY DEF DeliveriesInv
    <2>3. /\ row'[d0.item] # NoRow
          /\ row[d0.item].generation \in Nat /\ row'[d0.item].generation \in Nat
          /\ row[d0.item].generation <= row'[d0.item].generation
      BY <2>1, <2>2, RowsStay DEF Row
    <2> QED
      BY <2>1, <2>2, <2>3
  <1>2. ASSUME NEW p \in Projectors, NEW s \in Signal, Captures(p, s)
        PROVE  row'[s.item] # NoRow /\ s.generation <= row'[s.item].generation
    <2>1. row'[s.item] \in Row /\ row'[s.item].generation = s.generation
      BY <1>2, CaptureFacts, CapturedFields
    <2> QED
      BY <2>1, InventoryAssumption DEF Row
  <1>3. ASSUME NEW d \in deliveries'
        PROVE  row'[d.item] # NoRow /\ d.generation <= row'[d.item].generation
    <2>1. CASE \E d0 \in deliveries : d.item = d0.item /\ d.generation = d0.generation
      BY <1>1, <2>1
    <2>2. CASE \E p \in Projectors, s \in Signal :
                  Captures(p, s) /\ d.item = s.item /\ d.generation = s.generation
      BY <1>2, <2>2
    <2> QED
      BY <2>1, <2>2, DeliveryOrigin
  <1> QED
    BY <1>3 DEF DeliveriesInv

\* The inductive invariant of rows, events, projectors and alerts.
RowsIInv ==
    /\ TypeOK /\ EventsInv /\ HandlersInv
    /\ RowsInv /\ SourcesInv /\ DeliveriesInv

LEMMA RowsIInit == ProjectionInit => RowsIInv
  <1> SUFFICES ASSUME ProjectionInit PROVE RowsIInv
    OBVIOUS
  <1>1. IsFiniteSet({})
    BY FS_EmptySet
  <1>2. TypeOK
    BY <1>1, IdleIsWork DEF ProjectionInit, TypeOK, Stock
  <1>3. EventsInv
    BY DEF ProjectionInit, EventsInv
  <1>4. HandlersInv
    BY IdleIsHandled DEF ProjectionInit, HandlersInv, ProjectorsInv, HoldersInv, Idle
  <1>5. RowsInv /\ SourcesInv /\ DeliveriesInv
    BY DEF ProjectionInit, RowsInv, SourcesInv, DeliveriesInv
  <1> QED
    BY <1>2, <1>3, <1>4, <1>5 DEF RowsIInv

LEMMA RowsIStep == RowsIInv /\ [ProjectionNext]_projectionVars => RowsIInv'
  BY TypeStep, EventsStep, HandlersStep, RowsStep, SourcesStep, DeliveriesStep
     DEF RowsIInv

LEMMA RowsIAlways == ProjectionSpec => []RowsIInv
  BY RowsIInit, RowsIStep, PTL DEF ProjectionSpec

\* Type correctness: what the projection keeps in memory and in the database.
THEOREM TypeCorrect == ProjectionSpec => []TypeOK
  <1>1. RowsIInv => TypeOK
    BY DEF RowsIInv
  <1> QED
    BY <1>1, RowsIAlways, PTL

\* The row of a live item never goes back in WooCommerce's time
\* (decideInventoryProjection), whatever fetches, pages and retries overtake.
THEOREM LiveRowsOnlyAdvance == ProjectionSpec => LiveItemNeverOlder
  <1>1. RowsIInv /\ [ProjectionNext]_projectionVars =>
           [\A i \in Items :
               row[i] # NoRow =>
                   /\ row'[i] # NoRow
                   /\ row[i].deletedAt = Never => row[i].time <= row'[i].time
           ]_projectionVars
    BY RowsStay DEF RowsIInv
  <1> QED
    BY <1>1, RowsIAlways, PTL DEF ProjectionSpec, LiveItemNeverOlder

\* An item that leaves HEALTHY is in an incident nobody has a delivery of yet.
LEMMA IncidentStep ==
    ASSUME TypeOK, HandlersInv, RowsInv, DeliveriesInv, [ProjectionNext]_projectionVars,
           NEW i \in Items, row'[i] # row[i], row'[i].class # "HEALTHY",
           row[i] = NoRow \/ row[i].class = "HEALTHY"
    PROVE  \A d \in deliveries' : d.item = i => d.generation < row'[i].generation
  <1>1. \A d \in deliveries : d \in Delivery
    BY DEF TypeOK
  <1>2. \A d \in deliveries : d.item = i =>
           row[i] # NoRow /\ d.generation <= row[i].generation
    BY DEF DeliveriesInv
  <1>3. ASSUME UNCHANGED deliveries, row'[i] # NoRow,
               row'[i].generation = (IF row[i] = NoRow THEN 0 ELSE row[i].generation) + 1
        PROVE  \A d \in deliveries' : d.item = i => d.generation < row'[i].generation
    <2>1. row[i] # NoRow => row[i].generation \in Nat
      BY DEF TypeOK, Row
    <2> QED
      BY <1>1, <1>2, <1>3, <2>1 DEF Delivery
  <1>4. ASSUME NEW p \in Projectors, Apply(p), Writes(p, work[p].item),
               UNCHANGED deliveries
        PROVE  \A d \in deliveries' : d.item = i => d.generation < row'[i].generation
    <2>0. PICK w, r, class : w = work[p] /\ r = Found(i) /\ class = ClassFor(r, w)
      OBVIOUS
    <2>1. i = w.item
      <3>1. work[p].item \in Items
        BY <1>4 DEF Apply, HandlersInv, ProjectorsInv, HandlerInv
      <3> QED
        BY <1>4, <2>0, <3>1, WritesFacts
    <2>2. /\ r \in Row /\ w \in Work /\ class \in Class /\ row'[i] # NoRow
          /\ row'[i] = Written(r, class, w)
          /\ row[i] # NoRow => r = row[i]
          /\ row[i] = NoRow => r.class = "HEALTHY" /\ r.generation = 0
      BY <1>4, <2>0, <2>1, WritesFacts, FoundFacts
    <2>3. /\ row'[i].class = class
          /\ row'[i].generation = Incident(r, class, w).generation
      BY <2>2, WrittenFields
    <2>4. row'[i].generation = r.generation + 1
      <3>1. r.class = "HEALTHY" /\ class # "HEALTHY"
        BY <2>2, <2>3
      <3>2. Incident(r, class, w).generation = r.generation + 1
        BY <2>2, <3>1, IncidentFacts
      <3> QED
        BY <2>3, <3>2
    <2> QED
      BY <1>3, <1>4, <2>2, <2>4
  <1>5. ASSUME NEW p \in Projectors, Remove(p)
        PROVE  FALSE
    <2>1. row[i] # NoRow /\ work[p] \in Work /\ row'[i] = Marked(row[i], work[p])
      BY <1>5, RemoveFacts DEF TypeOK
    <2> QED
      BY <2>1, MarkedFields DEF TypeOK
  <1>6. ASSUME NEW p \in Projectors, NEW s, Captures(p, s)
        PROVE  FALSE
    <2>1. i = s.item
      BY <1>6 DEF Captures
    <2> QED
      BY <1>6, <2>1, CaptureFacts
  <1>7. CASE MoveThreshold
    <2>1. /\ row[i] # NoRow /\ row'[i] = Rebaselined(row[i], threshold')
          /\ UNCHANGED deliveries
      BY <1>7 DEF MoveThreshold
    <2>2. row[i] \in Row
      BY <2>1 DEF TypeOK
    <2>3. row'[i].generation = row[i].generation + 1 /\ row'[i] # NoRow
      BY <2>1, <2>2, RebaselinedFields, InventoryAssumption
    <2> QED
      BY <1>3, <2>1, <2>3
  <1> QED
    BY <1>4, <1>5, <1>6, <1>7, RowCases

\* An incident that starts has a number of its own (nextIncident, and the
\* rebaseline of a moved threshold): deliveries of the last one do not count.
THEOREM IncidentsAreNew == ProjectionSpec => IncidentIsNew
  <1>1. RowsIInv /\ [ProjectionNext]_projectionVars =>
           [\A i \in Items :
               row'[i] # row[i] /\ row'[i].class # "HEALTHY"
               /\ (row[i] = NoRow \/ row[i].class = "HEALTHY") =>
                   \A d \in deliveries' : d.item = i => d.generation < row'[i].generation
           ]_projectionVars
    BY IncidentStep DEF RowsIInv
  <1> QED
    BY <1>1, RowsIAlways, PTL DEF ProjectionSpec, IncidentIsNew

-----------------------------------------------------------------------------
(* COMPLETED means projected.                                              *)

\* How e came to be COMPLETED.
LEMMA CompletedMoves ==
    ASSUME TypeOK, EventsInv, HandlersInv, [ProjectionNext]_projectionVars,
           NEW e \in completed', e \notin completed
    PROVE  \E p \in holders :
              /\ Complete(p) /\ work[p].event = e.receivedAt /\ e \in Open
              /\ work[p].step = "schedule" /\ work[p].signals = <<>>
  <1>1. PICK p \in Projectors : Complete(p)
    BY DEF ProjectionNext, projectionVars, eventVars, Take, ReadPage, Reconcile, Apply,
           Look, Probe, Remove, Capture, Enqueue, Fails, FailsForGood, Ends, Revise,
           Trash, MoveThreshold
  <1>2. p \in holders /\ e = EventOf(work[p])
    BY <1>1 DEF Complete, Completes
  <1>3. PICK f \in Open : f.receivedAt = work[p].event
    BY <1>2 DEF HandlersInv, HoldersInv
  <1>4. e = f
    BY <1>2, <1>3, EventIsNamed DEF Open
  <1> QED
    BY <1>1, <1>2, <1>3, <1>4 DEF Complete

LEMMA StaysStep ==
    ASSUME TypeOK, EventsInv, HandlersInv, StaysInv, [ProjectionNext]_projectionVars
    PROVE  StaysInv'
  <1>1. ASSUME NEW p \in Projectors, NEW e \in inbox',
               work'[p].event = e.receivedAt, e.topic # "deleted",
               work'[p].step \in {"fetch", "apply"}
        PROVE  \/ work'[p].item = e.item
               \/ work'[p].item = Parent[e.item] /\ ~AlwaysTracked(e.item)'
    <2>1. PICK w : w = work[p]
      OBVIOUS
    <2>2. w \in Work /\ HandlerInv(w) /\ e \in inbox
      BY <1>1, <2>1, WorkMoves DEF TypeOK, HandlersInv, ProjectorsInv
    <2>3. w.event = e.receivedAt /\ w.step \in {"fetch", "apply"} =>
             \/ w.item = e.item
             \/ w.item = Parent[e.item] /\ ~AlwaysTracked(e.item)'
      BY <1>1, <2>1, <2>2, EventsGrow DEF StaysInv
    <2>4. ASSUME NEW w2, Goes(p, w2)
          PROVE  work'[p] = w2
      BY <2>4 DEF Goes, TypeOK
    <2>5. CASE work'[p] = work[p]
      BY <1>1, <2>1, <2>3, <2>5
    <2>6. CASE Take(p, e)
      BY <1>1, <2>6, TakenFacts
    <2>7. CASE w.event = e.receivedAt /\ Reconcile(p)
      BY <2>1, <2>2, <2>3, <2>4, <2>7 DEF Reconcile, Work
    <2>8. CASE w.event = e.receivedAt /\ Apply(p)
      <3>1. PICK i, r : i = w.item /\ r = Found(i)
        OBVIOUS
      <3>2. w.step = "apply"
        BY <2>1, <2>8 DEF Apply
      <3>3. PICK w2 \in Work, signals \in Seq(Signal) :
               Onward(p, w, w2, signals) /\ Outcome(p, i, r, w, w2, signals)
        BY <2>1, <2>8, <3>1, AppliedFacts
      <3>4. work'[p] = w2
        BY <2>4, <3>3 DEF Onward
      <3>5. CASE w2.item = w.item
        BY <2>3, <2>8, <3>2, <3>4, <3>5
      <3>6. CASE ~w.fetched /\ ~Active(w.seen.stock) /\ w2.item = Parent[w.item]
        <4>1. w.item = e.item /\ Sighted(e.item, w.seen)
          BY <2>2, <2>8, <3>2, <3>6 DEF HandlerInv
        <4>2. ~AlwaysTracked(e.item)
          BY <3>6, <4>1 DEF Sighted, AlwaysTracked
        <4> QED
          BY <3>4, <3>6, <4>1, <4>2, EventsGrow
      <3> QED
        BY <3>1, <3>3, <3>5, <3>6, <1>1, <3>4 DEF Outcome, Passes
    <2>9. CASE w.event = e.receivedAt /\ (Look(p) \/ Probe(p) \/ Remove(p))
      BY <1>1, <2>1, <2>2, <2>9 DEF HandlerInv, EventsInv, Look, Probe, Remove
    <2>10. CASE w.event = e.receivedAt /\ (Capture(p) \/ Enqueue(p))
      BY <1>1, <2>1, <2>2, <2>4, <2>10 DEF Capture, Enqueue, Work
    <2> QED
      BY <1>1, <2>1, <2>5, <2>6, <2>7, <2>8, <2>9, <2>10, WorkMoves
  <1> QED
    BY <1>1 DEF StaysInv

\* A projector that holds e.
LEMMA Holds ==
    ASSUME TypeOK, EventsInv, HandlersInv,
           NEW p \in Projectors, NEW e \in inbox, work[p].event = e.receivedAt
    PROVE  /\ work[p] \in Work /\ HandlerInv(work[p]) /\ SignalsInv(work[p])
           /\ e.topic = work[p].topic
           /\ EventOf(work[p]) = e /\ work[p].event # NoEvent
           /\ work[p].step # "idle" /\ work[p].item \in Items
           /\ work[p].step \in {"look", "probe", "remove"} => e.topic = "deleted"
           /\ work[p].baseline => e.topic = "deleted"
           /\ work[p].step = "apply" =>
                 /\ Sighted(work[p].item, work[p].seen)
                 /\ work[p].item = e.item => e.time <= work[p].seen.time
                 /\ ~work[p].fetched =>
                       /\ work[p].item = e.item /\ e.payload = "whole"
                       /\ work[p].seen = [time |-> e.time, stock |-> e.stock]
  <1>1. PICK w : w = work[p]
    OBVIOUS
  <1>2. w \in Work /\ HandlerInv(w) /\ SignalsInv(w)
    BY <1>1 DEF TypeOK, HandlersInv, ProjectorsInv
  <1>3. w.event # NoEvent /\ EventOf(w) = e
    BY <1>1, EventIsNamed
  <1>4. \A f \in inbox : f.receivedAt = w.event => f = e
    BY <1>1 DEF EventsInv
  <1>5. PICK f \in inbox : f.receivedAt = w.event /\ f.topic = w.topic
    BY <1>2, <1>3 DEF HandlerInv
  <1>6. f = e
    BY <1>4, <1>5
  <1>7. w.step # "idle"
    BY <1>2, <1>3 DEF HandlerInv, Idle
  <1>8. w.item \in Items
    BY <1>2, <1>7 DEF HandlerInv
  <1>9. w.step \in {"look", "probe", "remove"} => e.topic = "deleted"
    BY <1>2, <1>4 DEF HandlerInv
  <1>10. w.baseline => e.topic = "deleted"
    BY <1>2, <1>3, <1>5, <1>6 DEF HandlerInv
  <1>11. w.step = "apply" =>
            /\ Sighted(w.item, w.seen)
            /\ w.item = e.item => e.time <= w.seen.time
            /\ ~w.fetched => /\ w.item = e.item /\ e.payload = "whole"
                             /\ w.seen = [time |-> e.time, stock |-> e.stock]
    BY <1>1, <1>2 DEF HandlerInv
  <1> QED
    BY <1>1, <1>2, <1>3, <1>5, <1>6, <1>7, <1>8, <1>9, <1>10, <1>11

\* How e came to be projected: it was, or p has just projected an item for it.
LEMMA ProjectedMoves ==
    ASSUME TypeOK, EventsInv, HandlersInv, [ProjectionNext]_projectionVars,
           NEW p \in Projectors, NEW e \in inbox', e.topic # "deleted", Projected(p, e)'
    PROVE  /\ e \in inbox /\ work[p].event = e.receivedAt
           /\ Projected(p, e) \/ Apply(p)
  <1>1. e \in inbox /\ work'[p].event = e.receivedAt /\ work'[p].step \in {"schedule", "enqueue"}
    BY WorkMoves DEF Projected
  <1>2. ASSUME NEW w2, Goes(p, w2)
        PROVE  work'[p] = w2
    BY <1>2 DEF Goes, TypeOK
  <1>3. CASE work'[p] = work[p]
    BY <1>1, <1>3 DEF Projected
  <1>4. ~Take(p, e)
    BY <1>1, TakenFacts
  <1>5. CASE work[p].event = e.receivedAt
    <2>1. PICK w : w = work[p]
      OBVIOUS
    <2>2. w \in Work /\ w.step \notin {"look", "probe", "remove"}
      BY <1>1, <1>5, <2>1, Holds
    <2>3. ~Reconcile(p)
      BY <1>1, <1>2, <2>1, <2>2 DEF Reconcile, Work
    <2>4. ~Look(p) /\ ~Probe(p) /\ ~Remove(p)
      BY <2>1, <2>2 DEF Look, Probe, Remove
    <2>5. Capture(p) \/ Enqueue(p) => Projected(p, e)
      BY <1>5 DEF Capture, Enqueue, Projected
    <2> QED
      BY <1>1, <1>3, <1>4, <1>5, <2>3, <2>4, <2>5, WorkMoves
  <1> QED
    BY <1>1, <1>3, <1>4, <1>5, WorkMoves

\* Of whom e became done.
LEMMA DoneMoves ==
    ASSUME TypeOK, EventsInv, HandlersInv, [ProjectionNext]_projectionVars,
           NEW e \in inbox', e.topic # "deleted",
           e \in completed' \/ \E p \in Projectors : Projected(p, e)'
    PROVE  /\ e \in inbox
           /\ \/ e \in completed
              \/ \E p \in Projectors : Projected(p, e)
              \/ \E p \in Projectors : /\ work[p].event = e.receivedAt /\ Apply(p)
                                       /\ Projected(p, e)'
  <1>1. CASE e \in completed
    BY <1>1 DEF TypeOK
  <1>2. CASE e \in completed' /\ e \notin completed
    BY <1>2, CompletedMoves DEF Projected, Open, TypeOK
  <1>3. CASE \E p \in Projectors : Projected(p, e)'
    BY <1>3, ProjectedMoves
  <1> QED
    BY <1>1, <1>2, <1>3

LEMMA TrackedUnlessMarked ==
    ASSUME NEW i \in Items
    PROVE  /\ ~EverMarked(i) => AlwaysTracked(i)
           /\ \A seen : Sighted(i, seen) /\ AlwaysTracked(i) => Active(seen.stock)
  BY DEF EverMarked, AlwaysTracked, Sighted

\* Who has projected for the event of a tracked item has written its row, or it
\* found one that is at least as recent.
LEMMA TrackedProjection ==
    ASSUME TypeOK, EventsInv, HandlersInv, StaysInv, [ProjectionNext]_projectionVars,
           NEW p \in Projectors, NEW e \in inbox, e.topic # "deleted",
           work[p].event = e.receivedAt, Apply(p), Projected(p, e)',
           AlwaysTracked(e.item), NEW w, w = work[p], NEW i, i = e.item,
           NEW r, r = Found(i)
    PROVE  /\ i \in Items /\ w \in Work /\ r \in Row /\ (row[i] # NoRow => r = row[i])
           /\ w.item = i /\ w.topic = e.topic /\ ~w.baseline
           /\ Sighted(i, w.seen) /\ Active(w.seen.stock) /\ e.time <= w.seen.time
           /\ \/ Writes(p, i)
              \/ UNCHANGED row /\ row[i] # NoRow /\ Decision(r, w) = "noop"
  <1>1. w.step = "apply" /\ e.item \in Items
    BY DEF Apply, TypeOK, WebhookEvent
  <1>2. /\ w \in Work /\ ~w.baseline /\ Sighted(w.item, w.seen) /\ w.topic = e.topic
        /\ w.item = e.item => e.time <= w.seen.time
    BY <1>1, Holds
  <1>3. w.item = e.item
    <2>1. work[p].step = "apply"
      BY <1>1
    <2> QED
      BY <2>1 DEF StaysInv
  <1>4. Sighted(e.item, w.seen)
    BY <1>2, <1>3 DEF Sighted
  <1>5. Active(w.seen.stock)
    BY <1>1, <1>4, TrackedUnlessMarked
  <1>6. r \in Row /\ (row[i] # NoRow => r = row[i])
    BY <1>1, FoundFacts
  <1>7. i = w.item
    BY <1>3
  <1>8. PICK w2 \in Work, signals \in Seq(Signal) :
           Onward(p, w, w2, signals) /\ Outcome(p, i, r, w, w2, signals)
    BY <1>7, AppliedFacts
  <1>9. w2.step # "fetch"
    BY <1>8 DEF Onward, Goes, TypeOK, Projected
  <1>10. Sighted(i, w.seen)
    BY <1>4 DEF Sighted
  <1> QED
    BY <1>1, <1>2, <1>3, <1>5, <1>6, <1>8, <1>9, <1>10 DEF Outcome

\* What nothing has marked stays unmarked.
LEMMA UnmarkedStep ==
    ASSUME TypeOK, EventsInv, HandlersInv, ProgressInv, [ProjectionNext]_projectionVars,
           NEW i \in Items, row'[i] # NoRow, ~EverMarked(i)'
    PROVE  row'[i].deletedAt = Never
  <1>1. ~EverMarked(i) /\ (row[i] # NoRow => row[i] \in Row /\ row[i].deletedAt = Never)
    BY EventsGrow DEF ProgressInv, TypeOK
  <1>2. CASE row'[i] = row[i]
    BY <1>1, <1>2
  <1>3. ASSUME NEW p \in Projectors, Apply(p), Writes(p, work[p].item), row'[i] # row[i]
        PROVE  row'[i].deletedAt = Never
    <2>1. PICK w, j : w = work[p] /\ j = w.item
      OBVIOUS
    <2>2. w \in Work /\ HandlerInv(w) /\ w.step = "apply" /\ j \in Items
      BY <1>3, <2>1, AppliedFacts DEF HandlersInv, ProjectorsInv
    <2>3. j = i /\ row'[i] = Written(Found(i), ClassFor(Found(i), w), w)
      BY <1>3, <2>1, <2>2, WritesFacts
    <2>4. Active(w.seen.stock)
      BY <1>1, <2>1, <2>2, <2>3, TrackedUnlessMarked DEF HandlerInv
    <2>5. Found(i).deletedAt = Never
      BY <1>1, FoundFacts
    <2> QED
      BY <2>3, <2>4, <2>5, WrittenFields
  <1>4. ASSUME NEW p \in Projectors, Remove(p), row'[i] # row[i]
        PROVE  FALSE
    <2>1. PICK w : w = work[p]
      OBVIOUS
    <2>2. w.step = "remove" /\ i \in Below(w.item) /\ HandlerInv(w)
      BY <1>4, <2>1, RemoveFacts DEF HandlersInv, ProjectorsInv
    <2>3. \E e \in inbox : e.topic = "deleted" /\ e.item = w.item
      BY <2>2 DEF HandlerInv
    <2> QED
      BY <1>1, <2>2, <2>3 DEF EverMarked
  <1>5. ASSUME NEW p \in Projectors, Captures(p, Head(work[p].signals)), row'[i] # row[i]
        PROVE  row'[i].deletedAt = Never
    <2>1. PICK s : s = Head(work[p].signals) /\ Captures(p, s)
      BY <1>5
    <2>2. i = s.item
      BY <1>5, <2>1 DEF Captures
    <2>3. row[i] \in Row
      BY <2>1, <2>2 DEF Captures
    <2>4. row[i].deletedAt = Never
      BY <1>1, <2>3, InventoryAssumption
    <2>5. row'[i].deletedAt = row[i].deletedAt
      BY <2>1, <2>2, CapturedFields
    <2> QED
      BY <2>4, <2>5
  <1>6. ASSUME MoveThreshold, row'[i] # row[i]
        PROVE  row'[i].deletedAt = Never
    BY <1>1, <1>6, RebaselinedFields DEF MoveThreshold
  <1> QED
    BY <1>2, <1>3, <1>4, <1>5, <1>6, RowCases

LEMMA ProgressStep ==
    ASSUME TypeOK, EventsInv, HandlersInv, StaysInv, ProgressInv,
           [ProjectionNext]_projectionVars
    PROVE  ProgressInv'
  <1>1. ASSUME NEW e \in inbox', e.topic # "deleted", ~EverMarked(e.item)',
               e \in completed' \/ \E p \in Projectors : Projected(p, e)'
        PROVE  row'[e.item] # NoRow /\ row'[e.item].time >= e.time
    <2>1. /\ e \in inbox /\ e \in WebhookEvent /\ e.item \in Items /\ e.time \in Nat
          /\ ~EverMarked(e.item)
      BY <1>1, DoneMoves, EventsGrow DEF TypeOK, WebhookEvent
    <2>2. PICK i : i = e.item
      OBVIOUS
    <2>3. CASE row[i] # NoRow /\ row[i].time >= e.time
      <3>1. row[i].deletedAt = Never
        BY <2>1, <2>2, <2>3 DEF ProgressInv
      <3>2. row'[i] # NoRow /\ row[i] \in Row /\ row'[i] \in Row /\ row[i].time <= row'[i].time
        BY <2>1, <2>2, <2>3, <3>1, RowsStay
      <3> QED
        BY <2>1, <2>2, <2>3, <3>2 DEF Row
    <2>4. CASE e \in completed \/ \E p \in Projectors : Projected(p, e)
      BY <1>1, <2>1, <2>2, <2>3, <2>4 DEF ProgressInv
    <2>5. ASSUME NEW p \in Projectors, work[p].event = e.receivedAt, Apply(p),
                 Projected(p, e)'
          PROVE  row'[i] # NoRow /\ row'[i].time >= e.time
      <3>1. PICK w, r : w = work[p] /\ r = Found(i)
        OBVIOUS
      <3>2. AlwaysTracked(e.item)
        BY <2>1, TrackedUnlessMarked
      <3>3. /\ w \in Work /\ r \in Row /\ e.time <= w.seen.time
            /\ row[i] # NoRow => r = row[i]
            /\ \/ Writes(p, i)
               \/ UNCHANGED row /\ row[i] # NoRow /\ Decision(r, w) = "noop"
        BY <1>1, <2>1, <2>2, <2>5, <3>1, <3>2, TrackedProjection
      <3>9. CASE Writes(p, i)
        <4>1. row'[i] # NoRow /\ row'[i] = Written(r, ClassFor(r, w), w)
          BY <2>1, <2>2, <3>1, <3>9, WritesFacts
        <4> QED
          BY <2>1, <3>3, <4>1, WrittenFields DEF Work, Snapshot
      <3>10. CASE UNCHANGED row /\ row[i] # NoRow /\ Decision(r, w) = "noop"
        <4>1. w.seen.time <= r.time
          BY <3>3, <3>10, DecisionFacts
        <4>2. w.seen.time \in Nat /\ r.time \in Nat
          BY <3>3 DEF Work, Snapshot, Row
        <4>3. row'[i] = r /\ r # NoRow
          BY <3>3, <3>10
        <4> QED
          BY <2>1, <3>3, <4>1, <4>2, <4>3
      <3> QED
        BY <3>3, <3>9, <3>10
    <2> QED
      BY <1>1, <2>2, <2>4, <2>5, DoneMoves
  <1>2. \A i \in Items : row'[i] # NoRow /\ ~EverMarked(i)' => row'[i].deletedAt = Never
    BY UnmarkedStep
  <1> QED
    BY <1>1, <1>2 DEF ProgressInv

\* The inductive invariant of the rows and of the events that they follow.
ProgressIInv == RowsIInv /\ StaysInv /\ ProgressInv

LEMMA ProgressIAlways == ProjectionSpec => []ProgressIInv
  <1>1. ProjectionInit => ProgressIInv
    <2>1. ProjectionInit => StaysInv /\ ProgressInv
      BY DEF ProjectionInit, StaysInv, ProgressInv
    <2> QED
      BY <2>1, RowsIInit DEF ProgressIInv
  <1>2. ProgressIInv /\ [ProjectionNext]_projectionVars => ProgressIInv'
    BY RowsIStep, StaysStep, ProgressStep DEF ProgressIInv, RowsIInv
  <1> QED
    BY <1>1, <1>2, PTL DEF ProjectionSpec

\* The event of a revision is COMPLETED only when its item is stored at least as
\* recent (projectEvent, then markCompleted), unless a mark of deletion was due.
THEOREM CompletedEventsAreProjected == ProjectionSpec => []CompletedIsProjected
  <1>1. ProgressIInv => CompletedIsProjected
    BY DEF ProgressIInv, RowsIInv, TypeOK, ProgressInv, CompletedIsProjected
  <1> QED
    BY <1>1, ProgressIAlways, PTL

-----------------------------------------------------------------------------
(* When all events are COMPLETED.                                          *)

\* A restoration that is still the latest was so before.
LEMMA RestoresBefore ==
    ASSUME TypeOK, EventsInv, SameSecond = FALSE, [ProjectionNext]_projectionVars,
           NEW e \in inbox, Restores(e)'
    PROVE  Restores(e)
  <1>1. inbox \subseteq inbox' /\ (AlwaysTracked(e.item)' => AlwaysTracked(e.item))
    BY EventsGrow
  <1>2. e.time = remote[e.item].time /\ ~remote[e.item].trashed
    <2>1. CASE UNCHANGED <<remoteVars, inbox>>
      BY <2>1 DEF Restores, remoteVars
    <2>2. ASSUME NEW f, Arrives(f), Revised(f) \/ Trashed(f)
          PROVE  e.time = remote[e.item].time /\ ~remote[e.item].trashed
      <3>1. /\ e.item \in Items /\ e.time \in Nat /\ clock \in Nat
            /\ e.time <= remote[e.item].time /\ remote[e.item].time <= clock
            /\ remote[e.item].time \in Nat
        BY DEF TypeOK, EventsInv, WebhookEvent
      <3>2. e.time = remote'[e.item].time /\ ~remote'[e.item].trashed
        BY DEF Restores
      <3>3. CASE Revised(f)
        <4>1. clock' = clock + 1 /\ remote'[f.item].time = clock'
          BY <2>2, <3>3, ArrivalFacts DEF Revised
        <4>2. e.item # f.item
          BY <3>1, <3>2, <4>1
        <4>3. remote'[e.item] = remote[e.item]
          BY <2>2, <3>1, <3>3, <4>2, ArrivalFacts
        <4> QED
          BY <3>2, <4>3
      <3>4. CASE Trashed(f)
        <4>1. /\ remote'[e.item].time = remote[e.item].time
              /\ remote'[e.item].trashed = (e.item \in Below(f.item) \/ remote[e.item].trashed)
          BY <2>2, <3>1, <3>4, ArrivalFacts
        <4> QED
          BY <3>2, <4>1
      <3> QED
        BY <2>2, <3>3, <3>4
    <2> QED
      BY <2>1, <2>2, StoreMoves
  <1> QED
    BY <1>1, <1>2 DEF Restores

\* No snapshot of an item is ahead of the store.
LEMMA SightedBehind ==
    ASSUME TypeOK, EventsInv, NEW i \in Items, NEW seen, Sighted(i, seen)
    PROVE  seen.time \in Nat /\ remote[i].time \in Nat /\ seen.time <= remote[i].time
  BY DEF Sighted, EventsInv, TypeOK, WebhookEvent

\* What its latest restoration made of a row, it stays.
LEMMA RestoredStays ==
    ASSUME TypeOK, EventsInv, HandlersInv, RowsInv, EventsAgree,
           [ProjectionNext]_projectionVars, NEW e \in inbox, Restores(e),
           NEW i, i = e.item,
           row[i] # NoRow, row[i].deletedAt = Never, row[i].time = e.time
    PROVE  row'[i] # NoRow /\ row'[i].deletedAt = Never /\ row'[i].time = e.time
  <1>1. /\ i \in Items /\ row[i] \in Row /\ e.time = remote[i].time /\ ~remote[i].trashed
        /\ AlwaysTracked(e.item) /\ e.time \in Nat
    BY DEF TypeOK, WebhookEvent, Restores
  <1>2. row'[i] # NoRow
    BY <1>1, RowsStay
  <1>3. CASE row'[i] = row[i]
    BY <1>2, <1>3
  <1>4. ASSUME NEW p \in Projectors, Apply(p), Writes(p, work[p].item), row'[i] # row[i]
        PROVE  row'[i].deletedAt = Never /\ row'[i].time = e.time
    <2>1. PICK w, j : w = work[p] /\ j = w.item
      OBVIOUS
    <2>2. w \in Work /\ HandlerInv(w) /\ w.step = "apply" /\ j \in Items
      BY <1>4, <2>1, AppliedFacts DEF HandlersInv, ProjectorsInv
    <2>3. j = i /\ row'[i] = Written(Found(i), ClassFor(Found(i), w), w) /\ Found(i) = row[i]
      BY <1>1, <1>4, <2>1, <2>2, WritesFacts, FoundFacts
    <2>4. Sighted(e.item, w.seen)
      BY <2>1, <2>2, <2>3 DEF HandlerInv
    <2>5. w.seen.time \in Nat /\ w.seen.time <= e.time /\ Active(w.seen.stock)
      BY <1>1, <2>4, SightedBehind, TrackedUnlessMarked
    <2>6. row[i].time <= w.seen.time
      <3>1. Decision(row[i], w) = "apply"
        BY <1>4, <2>1, <2>3 DEF Writes
      <3> QED
        BY <1>1, <2>2, <3>1, DecisionFacts
    <2> QED
      BY <1>1, <2>3, <2>5, <2>6, WrittenFields
  <1>5. ASSUME NEW p \in Projectors, Remove(p), row'[i] # row[i]
        PROVE  FALSE
    <2>1. PICK w : w = work[p]
      OBVIOUS
    <2>2. w.step = "remove" /\ i \in Below(w.item) /\ HandlerInv(w) /\ Removable(i, w)
      BY <1>1, <1>5, <2>1, RemoveFacts DEF HandlersInv, ProjectorsInv
    <2>3. PICK f \in inbox : /\ f.receivedAt = w.event /\ f.topic = "deleted"
                             /\ f.item = w.item /\ f.time = w.seen.time
      BY <2>2 DEF HandlerInv
    <2>4. EventOf(w) = f
      BY <2>3, EventIsNamed
    <2>5. f.payload = "whole"
      BY <2>2, <2>3 DEF Restores
    <2>6. row[i].time <= f.time
      BY <2>2, <2>3, <2>4, <2>5 DEF Removable, Dated
    <2>7. f.time < remote[i].time
      BY <1>1, <2>2, <2>3 DEF EventsAgree
    <2>8. f.time \in Nat
      BY DEF TypeOK, WebhookEvent
    <2> QED
      BY <1>1, <2>6, <2>7, <2>8
  <1>6. ASSUME NEW p \in Projectors, Captures(p, Head(work[p].signals)), row'[i] # row[i]
        PROVE  row'[i].deletedAt = Never /\ row'[i].time = e.time
    <2>1. PICK s : s = Head(work[p].signals) /\ Captures(p, s)
      BY <1>6
    <2>2. i = s.item
      BY <1>1, <1>6, <2>1 DEF Captures
    <2> QED
      BY <2>1, <2>2, CapturedFields
  <1>7. ASSUME MoveThreshold, row'[i] # row[i]
        PROVE  row'[i].deletedAt = Never /\ row'[i].time = e.time
    BY <1>1, <1>7, RebaselinedFields DEF MoveThreshold
  <1> QED
    BY <1>2, <1>3, <1>4, <1>5, <1>6, <1>7, RowCases

LEMMA RestoredStep ==
    ASSUME TypeOK, EventsInv, HandlersInv, RowsInv, StaysInv, EventsAgree, RestoredInv,
           SameSecond = FALSE, [ProjectionNext]_projectionVars
    PROVE  RestoredInv'
  <1>1. ASSUME NEW e \in inbox', Restores(e)',
               e \in completed' \/ \E p \in Projectors : Projected(p, e)'
        PROVE  row'[e.item] # NoRow /\ row'[e.item].deletedAt = Never
               /\ row'[e.item].time = e.time
    <2>1. e.topic = "restored" /\ e \in inbox
      BY <1>1, DoneMoves DEF Restores
    <2>2. Restores(e)
      BY <1>1, <2>1, RestoresBefore
    <2>3. PICK i : i = e.item
      OBVIOUS
    <2>4. CASE e \in completed \/ \E p \in Projectors : Projected(p, e)
      <3>1. row[i] # NoRow /\ row[i].deletedAt = Never /\ row[i].time = e.time
        BY <2>1, <2>2, <2>3, <2>4 DEF RestoredInv
      <3> QED
        BY <2>1, <2>2, <2>3, <3>1, RestoredStays
    <2>5. ASSUME NEW p \in Projectors, work[p].event = e.receivedAt, Apply(p),
                 Projected(p, e)'
          PROVE  row'[i] # NoRow /\ row'[i].deletedAt = Never /\ row'[i].time = e.time
      <3>1. PICK w, r : w = work[p] /\ r = Found(i)
        OBVIOUS
      <3>2. AlwaysTracked(e.item) /\ e.time = remote[e.item].time
        BY <2>2 DEF Restores
      <3>3. /\ w \in Work /\ r \in Row /\ e.time <= w.seen.time /\ i \in Items
            /\ row[i] # NoRow => r = row[i]
            /\ w.topic = e.topic /\ Sighted(i, w.seen) /\ Active(w.seen.stock)
            /\ \/ Writes(p, i)
               \/ UNCHANGED row /\ row[i] # NoRow /\ Decision(r, w) = "noop"
        BY <2>1, <2>3, <2>5, <3>1, <3>2, TrackedProjection
      <3>4. w.seen.time = e.time /\ e.time \in Nat
        BY <2>1, <2>3, <3>2, <3>3, SightedBehind DEF TypeOK, WebhookEvent
      <3>5. ClearsDeletion(w)
        BY <2>1, <3>3 DEF ClearsDeletion
      <3>6. CASE Writes(p, i)
        <4>1. row'[i] # NoRow /\ row'[i] = Written(r, ClassFor(r, w), w)
          BY <3>1, <3>3, <3>6, WritesFacts
        <4> QED
          BY <3>3, <3>4, <3>5, <4>1, WrittenFields
      <3>7. CASE UNCHANGED row /\ row[i] # NoRow /\ Decision(r, w) = "noop"
        <4>1. w.seen.time <= r.time /\ r.deletedAt = Never
          BY <3>3, <3>5, <3>7, DecisionFacts
        <4>2. Sighted(i, row[i])
          BY <3>3, <3>7 DEF RowsInv, RowInv
        <4>3. r.time \in Nat /\ r.time <= remote[i].time
          BY <3>3, <3>7, <4>2, SightedBehind
        <4> QED
          BY <2>3, <3>2, <3>3, <3>4, <3>7, <4>1, <4>3
      <3> QED
        BY <3>3, <3>6, <3>7
    <2> QED
      BY <1>1, <2>1, <2>3, <2>4, <2>5, DoneMoves
  <1> QED
    BY <1>1 DEF RestoredInv

\* The inductive invariant of revisions that have times of their own.
ConvergeIInv == ProgressIInv /\ EventsAgree /\ RestoredInv

LEMMA ConvergeIInit == ProjectionInit => EventsAgree /\ RestoredInv
  BY DEF ProjectionInit, EventsAgree, RestoredInv

LEMMA ConvergeIAlways ==
    ASSUME SameSecond = FALSE
    PROVE  ProjectionSpec => []ConvergeIInv
  <1>1. ConvergeIInv /\ [ProjectionNext]_projectionVars => ConvergeIInv'
    <2> SUFFICES ASSUME ConvergeIInv, [ProjectionNext]_projectionVars
                 PROVE  EventsAgree' /\ RestoredInv'
      BY RowsIStep, StaysStep, ProgressStep DEF ConvergeIInv, ProgressIInv, RowsIInv
    <2> QED
      BY AgreeStep, RestoredStep DEF ConvergeIInv, ProgressIInv, RowsIInv
  <1>2. ProjectionInit => EventsAgree /\ RestoredInv
    BY ConvergeIInit
  <1>3. ConvergeIInv <=> ProgressIInv /\ EventsAgree /\ RestoredInv
    BY DEF ConvergeIInv
  <1>4. ProjectionInit => ProgressIInv
    <2>1. ProjectionInit => StaysInv /\ ProgressInv
      BY DEF ProjectionInit, StaysInv, ProgressInv
    <2> QED
      BY <2>1, RowsIInit DEF ProgressIInv
  <1> QED
    BY <1>1, <1>2, <1>3, <1>4, PTL DEF ProjectionSpec

LEMMA ConvergedHolds == ConvergeIInv => Converged
  <1> SUFFICES ASSUME ConvergeIInv, inbox = completed, NEW i \in Items,
                      remote[i].time > 0, ~remote[i].trashed,
                      ~EverMarked(i) \/ IsRestored(i)
               PROVE  /\ row[i] # NoRow /\ row[i].deletedAt = Never
                      /\ row[i].time = remote[i].time
                      /\ row[i].class = Classify(remote[i].stock, threshold)
    BY DEF Converged
  <1> USE DEF ConvergeIInv, ProgressIInv, RowsIInv
  <1>1. remote[i].time \in Nat
    BY DEF TypeOK
  <1>2. PICK e \in inbox : /\ e.topic # "deleted" /\ e.item = i
                           /\ e.time = remote[i].time /\ e.stock = remote[i].stock
    BY DEF EventsInv, Sighted
  <1>3. row[i] # NoRow /\ row[i].deletedAt = Never /\ row[i].time >= remote[i].time
    <2>1. CASE ~EverMarked(i)
      <3>1. row[i] # NoRow /\ row[i].time >= remote[i].time
        BY <1>2, <2>1 DEF ProgressInv
      <3> QED
        BY <2>1, <3>1 DEF ProgressInv
    <2>2. CASE IsRestored(i)
      <3>1. PICK f \in inbox : /\ f.item = i /\ f.topic = "restored"
                               /\ f.time = remote[i].time
        BY <2>2 DEF IsRestored
      <3>2. AlwaysTracked(f.item)
        BY <2>2, <3>1 DEF IsRestored, AlwaysTracked
      <3>3. \A g \in inbox : g.topic = "deleted" /\ f.item \in Below(g.item)
                                 => g.payload = "whole"
        BY <2>2, <3>1 DEF IsRestored
      <3>4. Restores(f)
        BY <3>1, <3>2, <3>3 DEF Restores
      <3> QED
        BY <1>1, <3>1, <3>4 DEF RestoredInv
    <2> QED
      BY <2>1, <2>2
  <1>4. RowInv(i) /\ row[i] \in Row
    BY <1>3 DEF RowsInv, TypeOK
  <1>5. row[i].time \in Nat /\ row[i].time <= remote[i].time
    BY <1>4, SightedBehind DEF RowInv
  <1>6. row[i].time = remote[i].time
    BY <1>1, <1>3, <1>5
  <1>7. row[i].stock = remote[i].stock
    BY <1>2, <1>4, <1>6 DEF RowInv, Sighted, EventsAgree
  <1> QED
    BY <1>3, <1>4, <1>6, <1>7 DEF RowInv

\* Whatever fetches, pages, retries and deletions overtook one another, once all
\* events are COMPLETED the rows are what the store has, provided that
\* revisions have modification times of their own.
THEOREM RowsConverge ==
    ASSUME SameSecond = FALSE
    PROVE  ProjectionSpec => []RowsCatchUp
  <1>1. ConvergeIInv => Converged
    BY ConvergedHolds
  <1>2. Converged /\ CompletedIsProjected => RowsCatchUp
    BY DEF RowsCatchUp
  <1> QED
    BY <1>1, <1>2, ConvergeIAlways, CompletedEventsAreProjected, PTL

-----------------------------------------------------------------------------
(* The alerts on their way to the queue.                                   *)

\* An event that has raised an alert is there, and of a revision.
LEMMA AlertingFacts ==
    ASSUME TypeOK, EventsInv, SourcesInv,
           NEW e \in inbox, NEW level \in Level, Alerting(e, level)
    PROVE  /\ e.item \in Items /\ e.receivedAt # NoEvent /\ e.topic # "deleted"
           /\ row[e.item] \in Row /\ e.time <= row[e.item].time
           /\ \A s : s = SignalOf(e.item, row[e.item].generation, level, e.receivedAt)
                        => /\ s.item = e.item /\ s.level = level
                           /\ s.source = e.receivedAt /\ Matches(s)
                           /\ s.generation = row[e.item].generation
  <1>1. e.item \in Items /\ e.receivedAt # NoEvent
    BY DEF TypeOK, WebhookEvent, EventsInv, NoEvent
  <1>2. row[e.item] # NoRow /\ row[e.item].alert[level].source = e.receivedAt
    BY DEF Alerting
  <1>3. row[e.item] \in Row
    BY <1>1, <1>2 DEF TypeOK
  <1>4. e.topic # "deleted" /\ e.time <= row[e.item].time
    BY <1>1, <1>2 DEF SourcesInv
  <1> QED
    BY <1>1, <1>2, <1>3, <1>4 DEF SignalOf, Matches

\* What a projection signals comes after the signals that were there.
LEMMA OnwardSignals ==
    ASSUME TypeOK, NEW p \in Projectors, NEW w \in Work, NEW w2 \in Work,
           NEW signals \in Seq(Signal), Onward(p, w, w2, signals),
           signals = <<>> \/ \E s \in Signal : signals = <<s>>
    PROVE  /\ work'[p] = w2
           /\ \A k \in 1..Len(w.signals) :
                 k \in 1..Len(w2.signals) /\ w2.signals[k] = w.signals[k]
           /\ \A s \in Signal : signals = <<s>> =>
                 \E k \in 1..Len(w2.signals) : w2.signals[k] = s
  <1>1. work'[p] = w2 /\ w2.signals = w.signals \o signals
    BY DEF Onward, Goes, TypeOK
  <1>2. w.signals \in Seq(Signal)
    BY DEF Work
  <1>3. \A k \in 1..Len(w.signals) :
           k \in 1..Len(w2.signals) /\ w2.signals[k] = w.signals[k]
    BY <1>1, <1>2, SignalsAppended
  <1>4. ASSUME NEW s \in Signal, signals = <<s>>
        PROVE  \E k \in 1..Len(w2.signals) : w2.signals[k] = s
    <2>1. /\ Len(w.signals) + 1 \in 1..Len(w2.signals)
          /\ w2.signals[Len(w.signals) + 1] = s
      BY <1>1, <1>2, <1>4, SignalsAppended
    <2> QED
      BY <2>1
  <1> QED
    BY <1>1, <1>3, <1>4

LEMMA OneSignal ==
    ASSUME TypeOK, NEW p \in Projectors, NEW w \in Work, NEW w2 \in Work,
           NEW s \in Signal, Onward(p, w, w2, <<s>>)
    PROVE  work'[p] = w2 /\ \E k \in 1..Len(w2.signals) : w2.signals[k] = s
  <1>1. PICK signals : signals = <<s>>
    OBVIOUS
  <1>2. signals \in Seq(Signal) /\ \E x \in Signal : signals = <<x>>
    BY <1>1
  <1>3. Onward(p, w, w2, signals)
    BY <1>1
  <1>4. w2.signals = w.signals \o signals /\ work'[p] = w2
    BY <1>3 DEF Onward, Goes, TypeOK
  <1>5. w.signals \in Seq(Signal)
    BY DEF Work
  <1>6. /\ Len(w.signals) + 1 \in 1..Len(w2.signals)
        /\ w2.signals[Len(w.signals) + 1] = s
    BY <1>1, <1>2, <1>4, <1>5, SignalsAppended
  <1> QED
    BY <1>4, <1>6

\* A signal that is not the first comes one place nearer.
LEMMA TailAt ==
    ASSUME NEW w \in Work, NEW k \in 1..Len(w.signals), k # 1
    PROVE  k - 1 \in 1..Len(Tail(w.signals)) /\ Tail(w.signals)[k - 1] = w.signals[k]
  <1>1. w.signals \in Seq(Signal)
    BY DEF Work
  <1> QED
    BY <1>1

\* A fetch, and what comes before the removal, signals nothing.
LEMMA PlainStep ==
    ASSUME NEW p \in Projectors, NEW w \in Work, w = work[p],
           Reconcile(p) \/ Look(p) \/ Probe(p) \/ Remove(p)
    PROVE  \E w2 : Goes(p, w2) /\ w2.signals = w.signals /\ w2.step # "enqueue"
  <1> DEFINE now == remote[w.item]
             snap == [time |-> now.time, stock |-> now.stock]
             fetched == [w EXCEPT !.step = "apply", !.fetched = TRUE, !.seen = snap]
             based == [w EXCEPT !.step = "apply", !.baseline = TRUE,
                                !.fetched = TRUE, !.seen = snap]
             At(step) == [w EXCEPT !.step = step]
  <1>1. /\ fetched.signals = w.signals /\ fetched.step = "apply"
        /\ based.signals = w.signals /\ based.step = "apply"
    BY DEF Work
  <1>2. \A step : At(step).signals = w.signals /\ At(step).step = step
    BY DEF Work
  <1>3. \/ Goes(p, fetched) \/ Goes(p, based)
        \/ \E step \in {"schedule", "probe", "remove"} : Goes(p, At(step))
    <2>1. CASE Reconcile(p)
      BY <2>1 DEF Reconcile
    <2>2. CASE Look(p)
      BY <2>2 DEF Look
    <2>3. CASE Probe(p)
      BY <2>3 DEF Probe
    <2>4. CASE Remove(p)
      BY <2>4 DEF Remove
    <2> QED
      BY <2>1, <2>2, <2>3, <2>4
  <1> HIDE DEF fetched, based, At
  <1> QED
    BY <1>1, <1>2, <1>3

\* Who owes an alert of e still owes it after a step, or has seen to it, or he
\* ended in an error: without the claim, or, with it, and e is retried or FAILED.
LEMMA OwedMoves ==
    ASSUME TypeOK, EventsInv, HandlersInv, SourcesInv, [ProjectionNext]_projectionVars,
           NEW e \in inbox, NEW level \in Level, Alerting(e, level), Kept(e.item, level),
           NEW p \in Projectors, Signals(work[p], e, level)
    PROVE  \/ e \in orphaned'
           \/ p \in holders /\ work[p].event = e.receivedAt /\ Ends(p)
           \/ /\ Signals(work[p], e, level)' \/ Lapses \/ IsQueued(e, level)'
              /\ Pending(work[p], e, level) =>
                    \/ Pending(work[p], e, level)'
                    \/ row'[e.item].alert[level].captured
  <1> DEFINE i == e.item
             owed == SignalOf(i, row[i].generation, level, e.receivedAt)
  <1>1. PICK w, w1 : w = work[p] /\ w1 = work'[p]
    OBVIOUS
  <1>2. w \in Work /\ HandlerInv(w) /\ SignalsInv(w) /\ w.signals \in Seq(Signal)
    BY <1>1 DEF TypeOK, HandlersInv, ProjectorsInv, Work
  <1>3. PICK k \in 1..Len(w.signals) :
           /\ w.signals[k] = owed
           /\ Pending(w, e, level) /\ w.step = "enqueue" => k # 1
    <2>1. CASE Pending(w, e, level)
      BY <2>1 DEF Pending, SignalAt
    <2>2. CASE ~Pending(w, e, level)
      BY <1>1, <2>2 DEF Signals, SignalAt
    <2> QED
      BY <2>1, <2>2
  <1>4. /\ owed.item = i /\ owed.level = level /\ owed.source = e.receivedAt
        /\ owed.generation = row[i].generation /\ Matches(owed)
        /\ i \in Items /\ row[i] \in Row
    BY AlertingFacts
  <1>5. /\ w.event = e.receivedAt /\ w.signals # <<>>
        /\ (k = 1 => Head(w.signals) = owed)
    <2>1. w.signals[k].source = w.event
      BY <1>2, <1>3 DEF SignalsInv
    <2>2. w.signals # <<>> /\ Head(w.signals) = w.signals[1]
      BY <1>2, <1>3
    <2> QED
      BY <1>3, <1>4, <2>1, <2>2
  <1>6. row'[i].generation = row[i].generation
        /\ (row[i].alert[level].captured => row'[i].alert[level].captured)
    BY DEF Kept
  <1> HIDE DEF owed
  <1>7. \A k2 \in 1..Len(w1.signals) : w1.signals[k2] = owed =>
           /\ Signals(work[p], e, level)'
           /\ (w1.step = "enqueue" => k2 > 1) => Pending(work[p], e, level)'
    BY <1>1, <1>6 DEF Signals, Pending, SignalAt, owed
  <1>8. ASSUME NEW q \in Projectors, NEW w2, Goes(q, w2)
        PROVE  work'[q] = w2 /\ (q # p => w1 = w)
    BY <1>1, <1>8 DEF Goes, TypeOK
  <1>9. ASSUME NEW k2 \in 1..Len(w1.signals), w1.signals[k2] = owed,
               (Pending(w, e, level) /\ w1.step = "enqueue") =>
                   k2 > 1 \/ row'[i].alert[level].captured
        PROVE  /\ Signals(work[p], e, level)'
               /\ Pending(w, e, level) => \/ Pending(work[p], e, level)'
                                          \/ row'[i].alert[level].captured
    BY <1>7, <1>9
  <1>10. ASSUME w1.signals = w.signals, w1.step = "enqueue" => w.step = "enqueue"
         PROVE  /\ Signals(work[p], e, level)'
                /\ Pending(w, e, level) => Pending(work[p], e, level)'
    <2>1. k # 1 => k > 1
      BY <1>3
    <2> QED
      BY <1>3, <1>7, <1>10, <2>1
  <1>11. CASE w1 = w
    BY <1>1, <1>10, <1>11
  <1>12. CASE Apply(p)
    <2>1. PICK r : r = Found(w.item)
      OBVIOUS
    <2>2. PICK w2 \in Work, signals \in Seq(Signal) :
             Onward(p, w, w2, signals) /\ Raises(w, signals)
             /\ Outcome(p, w.item, r, w, w2, signals)
      BY <1>1, <1>12, <2>1, AppliedFacts
    <2>3. w1 = w2 /\ k \in 1..Len(w1.signals) /\ w1.signals[k] = owed
      BY <1>1, <1>2, <1>3, <2>2, OnwardSignals DEF Raises
    <2>4. w1.step # "enqueue"
      BY <2>2, <2>3 DEF Outcome, Passes
    <2> QED
      BY <1>1, <1>9, <2>3, <2>4
  <1>13. CASE Reconcile(p) \/ Look(p) \/ Probe(p) \/ Remove(p)
    <2>1. w1.signals = w.signals /\ w1.step # "enqueue"
      <3>1. ASSUME NEW w2, Goes(p, w2), w2.signals = w.signals, w2.step # "enqueue"
            PROVE  w1.signals = w.signals /\ w1.step # "enqueue"
        BY <1>1, <1>8, <3>1
      <3>2. \E w2 : Goes(p, w2) /\ w2.signals = w.signals /\ w2.step # "enqueue"
        BY <1>1, <1>2, <1>13, PlainStep
      <3> QED
        BY <3>1, <3>2
    <2> QED
      BY <1>1, <1>10, <2>1
  <1>14. ASSUME w1.signals = Tail(w.signals), w1.step = "schedule", k # 1
         PROVE  /\ Signals(work[p], e, level)'
                /\ Pending(w, e, level) => Pending(work[p], e, level)'
    BY <1>2, <1>3, <1>7, <1>14, TailAt
  <1>15. CASE Capture(p)
    <2>1. PICK s : s = Head(w.signals)
      OBVIOUS
    <2>2. CASE Goes(p, [w EXCEPT !.step = "enqueue"])
               /\ (Captures(p, s) \/ row[s.item].alert[s.level].captured)
      <3>1. w1.signals = w.signals /\ w1.step = "enqueue"
        BY <1>2, <1>8, <1>1, <2>2 DEF Work
      <3>2. k = 1 => row'[i].alert[level].captured
        <4>1. CASE Captures(p, s)
          BY <1>4, <1>5, <2>1, <4>1, CapturedFields
        <4>2. CASE row[s.item].alert[s.level].captured
          BY <1>4, <1>5, <1>6, <2>1, <4>2
        <4> QED
          BY <2>2, <4>1, <4>2
      <3>3. k = 1 \/ k > 1
        BY <1>3
      <3> QED
        BY <1>1, <1>3, <1>9, <3>1, <3>2, <3>3
    <2>3. CASE /\ Goes(p, [w EXCEPT !.signals = Tail(@)]) /\ w.step = "schedule"
               /\ ~Matches(s) \/ (Lapses /\ row[s.item].alert[s.level].captured)
      <3>1. w1.signals = Tail(w.signals) /\ w1.step = "schedule"
        <4> DEFINE w2 == [w EXCEPT !.signals = Tail(@)]
        <4>1. w2.signals = Tail(w.signals) /\ w2.step = w.step
          BY <1>2 DEF Work
        <4>2. Goes(p, w2)
          BY <2>3
        <4> HIDE DEF w2
        <4> QED
          BY <1>1, <1>8, <2>3, <4>1, <4>2
      <3>2. k = 1 => Lapses /\ row[i].alert[level].captured
        BY <1>4, <1>5, <2>1, <2>3
      <3> QED
        BY <1>1, <1>6, <1>14, <3>1, <3>2
    <2>4. /\ w.step = "schedule"
          /\ \/ Captures(p, s) /\ Goes(p, [w EXCEPT !.step = "enqueue"])
             \/ /\ row[s.item].alert[s.level].captured
                /\ Goes(p, [w EXCEPT !.step = "enqueue"])
             \/ /\ ~Matches(s) \/ (Lapses /\ row[s.item].alert[s.level].captured)
                /\ Goes(p, [w EXCEPT !.signals = Tail(@)])
      <3>1. w.step = "schedule"
        BY <1>1, <1>15, CaptureCases
      <3>2. Captures(p, s) => Goes(p, [w EXCEPT !.step = "enqueue"])
        BY <1>1 DEF Captures
      <3> QED
        BY <1>1, <1>15, <2>1, <3>1, <3>2, CaptureCases
    <2> QED
      BY <2>2, <2>3, <2>4
  <1>16. CASE Enqueue(p)
    <2>1. w1.signals = Tail(w.signals) /\ w1.step = "schedule" /\ w.step = "enqueue"
      <3>1. w.step = "enqueue" /\ Goes(p, [w EXCEPT !.step = "schedule", !.signals = Tail(@)])
        BY <1>1, <1>16 DEF Enqueue
      <3> DEFINE w2 == [w EXCEPT !.step = "schedule", !.signals = Tail(@)]
      <3>2. w2.signals = Tail(w.signals) /\ w2.step = "schedule"
        BY <1>2 DEF Work
      <3>3. Goes(p, w2)
        BY <3>1
      <3> HIDE DEF w2
      <3> QED
        BY <1>1, <1>8, <3>1, <3>2, <3>3
    <2>2. ASSUME k = 1
          PROVE  IsQueued(e, level)'
      <3>1. PICK s, mine : s = Head(w.signals) /\ mine = {d \in Keyed(s) : d.source = s.source}
        OBVIOUS
      <3>2. deliveries' = (deliveries \ mine) \cup {[d EXCEPT !.queued = TRUE] : d \in mine}
        BY <1>1, <1>16, <3>1 DEF Enqueue
      <3>3. s = owed
        BY <1>5, <2>2, <3>1
      <3>4. ASSUME NEW d \in deliveries', d.item = i, d.level = level,
                   d.source = e.receivedAt, d.generation = row'[i].generation
            PROVE  d.queued
        <4>1. d \notin deliveries \ mine
          BY <1>4, <1>6, <3>1, <3>3, <3>4 DEF Keyed
        <4>2. PICK x \in mine : d = [x EXCEPT !.queued = TRUE]
          BY <3>2, <3>4, <4>1
        <4>3. x \in Delivery
          BY <3>1 DEF TypeOK, Keyed
        <4> QED
          BY <4>2, <4>3 DEF Delivery
      <3> QED
        BY <3>4 DEF IsQueued
    <2> QED
      BY <1>1, <1>3, <1>14, <2>1, <2>2
  <1>17. CASE Fails(p) \/ FailsForGood(p)
    <2>1. Ends(p)
      BY <1>17 DEF Fails, FailsForGood
    <2>2. EventOf(w) = e
      BY <1>5, EventIsNamed
    <2> QED
      BY <1>1, <1>5, <2>1, <2>2 DEF Ends
  <1>18. ~Complete(p) /\ (\A f : ~Take(p, f)) /\ (\A j : ~ReadPage(p, j))
    <2>1. w.step # "idle"
      BY <1>2, <1>5 DEF HandlerInv, Idle
    <2> QED
      BY <1>1, <1>5, <2>1 DEF Complete, Take, ReadPage
  <1>19. ASSUME NEW q \in Projectors, q # p,
                \/ \E f \in inbox : Take(q, f)
                \/ \E j \in Items : ReadPage(q, j)
                \/ Complete(q) \/ Fails(q) \/ FailsForGood(q)
         PROVE  w1 = w
    <2>1. \E w2 : Goes(q, w2)
      BY <1>19 DEF Take, ReadPage, Complete, Fails, FailsForGood, Ends
    <2> QED
      BY <1>8, <1>19, <2>1
  <1>20. ASSUME NEW q \in Projectors, q # p,
                \/ Reconcile(q) \/ Apply(q) \/ Look(q) \/ Probe(q) \/ Remove(q)
                \/ Capture(q) \/ Enqueue(q)
         PROVE  w1 = w
    BY <1>8, <1>20, SameEvent
  <1>21. CASE UNCHANGED work
    BY <1>1, <1>11, <1>21
  <1>22. \/ UNCHANGED work
         \/ \E q \in Projectors :
               \/ \E f \in inbox : Take(q, f)
               \/ \E j \in Items : ReadPage(q, j)
               \/ Complete(q) \/ Fails(q) \/ FailsForGood(q)
               \/ Reconcile(q) \/ Apply(q) \/ Look(q) \/ Probe(q) \/ Remove(q)
               \/ Capture(q) \/ Enqueue(q)
    BY DEF ProjectionNext, projectionVars, Revise, Trash, MoveThreshold
  <1> QED
    BY <1>11, <1>12, <1>13, <1>15, <1>16, <1>17, <1>18, <1>19, <1>20, <1>21, <1>22

\* What is queued stays queued, and what is captured anew is owed.
LEMMA QueuedStays ==
    ASSUME TypeOK, HandlersInv, [ProjectionNext]_projectionVars,
           NEW e \in inbox, NEW level \in Level, Kept(e.item, level), IsQueued(e, level)
    PROVE  IsQueued(e, level)' \/ \E p \in Projectors : Signals(work[p], e, level)'
  <1>1. SUFFICES ASSUME NEW d \in deliveries', ~d.queued,
                        d.item = e.item, d.level = level, d.source = e.receivedAt,
                        d.generation = row'[e.item].generation
                 PROVE  \E p \in Projectors : Signals(work[p], e, level)'
    BY DEF IsQueued
  <1>2. row'[e.item].generation = row[e.item].generation
    BY DEF Kept
  <1>3. ~\E d0 \in deliveries : /\ d.item = d0.item /\ d.generation = d0.generation
                                /\ d.level = d0.level /\ d.source = d0.source
                                /\ d0.queued => d.queued
    BY <1>1, <1>2 DEF IsQueued
  <1>4. PICK p \in Projectors, s \in Signal :
           /\ Captures(p, s)
           /\ d = [item |-> s.item, generation |-> s.generation,
                   level |-> s.level, source |-> s.source, queued |-> FALSE]
    BY <1>1, <1>3, DeliveryOrigin
  <1>5. s = SignalOf(e.item, row'[e.item].generation, level, e.receivedAt)
    BY <1>1, <1>4 DEF SignalOf, Signal
  <1>6. work[p] \in Work /\ work[p].signals \in Seq(Signal)
    BY DEF TypeOK, Work
  <1>7. work'[p].signals = work[p].signals
    <2>1. work'[p] = [work[p] EXCEPT !.step = "enqueue"]
      BY <1>4 DEF Captures, Goes, TypeOK
    <2> QED
      BY <1>6, <2>1 DEF Work
  <1>8. 1 \in 1..Len(work[p].signals) /\ work[p].signals[1] = s
    <2>1. work[p].signals # <<>> /\ s = Head(work[p].signals)
      BY <1>4 DEF Captures
    <2> QED
      BY <1>6, <2>1
  <1> QED
    BY <1>5, <1>7, <1>8 DEF Signals, SignalAt

\* What was seen to is seen to after the step, unless the event is given up.
LEMMA SeenToStays ==
    ASSUME TypeOK, EventsInv, HandlersInv, SourcesInv, [ProjectionNext]_projectionVars,
           NEW e \in inbox, NEW level \in Level, Alerting(e, level), Kept(e.item, level),
           IsSeenTo(e, level),
           ~\E p \in holders : work[p].event = e.receivedAt /\ Ends(p)
    PROVE  IsSeenTo(e, level)'
  <1>1. orphaned \subseteq orphaned'
    BY DEF ProjectionNext, projectionVars, claimVars, eventVars, Take, ReadPage,
           Reconcile, Apply, Look, Probe, Remove, Capture, Enqueue, Complete, Fails,
           FailsForGood, Ends, Revise, Trash, MoveThreshold
  <1>2. \A q \in Projectors : Pending(work[q], e, level) => Signals(work[q], e, level)
    BY DEF Pending, Signals
  <1>3. IsOwed(e, level) <=> \/ e \in orphaned
                             \/ \E q \in Projectors : Signals(work[q], e, level)
    BY DEF IsOwed, Signals, SignalAt
  <1>4. IsOwed(e, level)' <=> \/ e \in orphaned'
                              \/ \E q \in Projectors : Signals(work[q], e, level)'
    BY DEF IsOwed, Signals, SignalAt
  <1>5. \/ row'[e.item].alert[level].captured
        \/ \E q \in Projectors : Pending(work[q], e, level)'
        \/ e \in orphaned'
    <2>1. CASE row[e.item].alert[level].captured
      BY <2>1 DEF Kept
    <2>2. ASSUME NEW q \in Projectors, Pending(work[q], e, level)
          PROVE  \/ row'[e.item].alert[level].captured \/ Pending(work[q], e, level)'
                 \/ e \in orphaned'
      BY <1>2, <2>2, OwedMoves
    <2> QED
      BY <1>1, <2>1, <2>2 DEF IsSeenTo
  <1>6. Lapses \/ IsOwed(e, level)' \/ IsQueued(e, level)'
    <2>1. ASSUME NEW q \in Projectors, Signals(work[q], e, level)
          PROVE  Lapses \/ IsOwed(e, level)' \/ IsQueued(e, level)'
      BY <1>4, <2>1, OwedMoves
    <2>2. CASE IsQueued(e, level)
      BY <1>4, <2>2, QueuedStays
    <2> QED
      BY <1>1, <1>3, <1>4, <2>1, <2>2 DEF IsSeenTo
  <1> QED
    BY <1>5, <1>6 DEF IsSeenTo

\* An alert that was not there is raised by the projection of an event, which
\* signals it.
LEMMA RaisedSignals ==
    ASSUME TypeOK, HandlersInv, RowsInv, [ProjectionNext]_projectionVars,
           NEW e \in inbox, NEW level \in Level, e.item \in Items,
           e.receivedAt # NoEvent, Alerting(e, level)', ~Kept(e.item, level)
    PROVE  IsSeenTo(e, level)'
  <1> DEFINE i == e.item
  <1>1. row'[i] # NoRow /\ row'[i].alert[level].source = e.receivedAt
    BY DEF Alerting
  <1>2. PICK p \in Projectors :
           /\ Apply(p) /\ Writes(p, i) /\ i = work[p].item /\ ~work[p].baseline
           /\ work[p].event = e.receivedAt /\ row'[i].class = level
           /\ Found(i).class \notin {level, "OUT_OF_STOCK"}
    <2>1. row'[i].alert[level].source # NoEvent
      BY <1>1
    <2> QED
      BY <1>1, <2>1, AlertOrigin
  <1>3. PICK w, r, class : w = work[p] /\ r = Found(i) /\ class = ClassFor(r, w)
    OBVIOUS
  <1>4. /\ r \in Row /\ w \in Work /\ class \in Class /\ row'[i] = Written(r, class, w)
    BY <1>2, <1>3, WritesFacts
  <1>5. /\ class = level /\ class # "HEALTHY" /\ class # r.class
        /\ row'[i].generation = Incident(r, class, w).generation
    BY <1>2, <1>3, <1>4, WrittenFields DEF Level
  <1> DEFINE s == SignalOf(i, row'[i].generation, level, e.receivedAt)
  <1>6. Signalled(i, r, class, w) = <<s>>
    BY <1>2, <1>3, <1>5 DEF Signalled
  <1>7. s \in Signal
    BY <1>4, <1>5, IncidentFacts, SignalOfType DEF TypeOK, WebhookEvent
  <1>8. After(p, w, <<s>>)
    BY <1>2, <1>3, <1>6 DEF Writes
  <1> HIDE DEF s
  <1>9. <<s>> \in Seq(Signal)
    BY <1>7
  <1>10. PICK w2 \in Work : Onward(p, w, w2, <<s>>) /\ Passes(w, w2)
    BY <1>2, <1>3, <1>4, <1>8, <1>9, AfterFacts
  <1>11. work'[p] = w2 /\ \E k \in 1..Len(w2.signals) : w2.signals[k] = s
    BY <1>4, <1>7, <1>10, OneSignal
  <1>12. w2.step # "enqueue"
    BY <1>10 DEF Passes
  <1> QED
    BY <1>11, <1>12 DEF s, IsSeenTo, IsOwed, Pending, SignalAt

\* Who replays an alert, signals it.
LEMMA ReplayedSignals ==
    ASSUME NEW i \in Items, NEW r \in Row, NEW w \in Work, ~w.baseline,
           NEW level \in Level, r.alert[level].source = w.event,
           level = "LOW_STOCK" \/ r.alert["LOW_STOCK"].source # w.event
    PROVE  Replayed(i, r, w) = <<SignalOf(i, r.generation, level, w.event)>>
  BY DEF Replayed, Level

\* Who first projects an event that has raised an alert before replays it.
LEMMA AppliedSignals ==
    ASSUME TypeOK, EventsInv, HandlersInv, RowsInv, SourcesInv, EventsAgree,
           [ProjectionNext]_projectionVars, NEW p \in Projectors, Apply(p),
           NEW e \in inbox, work[p].event = e.receivedAt,
           ~HasBegun(p, e), HasBegun(p, e)',
           NEW level \in Level, Alerting(e, level), Alerting(e, level)', Kept(e.item, level)
    PROVE  IsSeenTo(e, level)'
  <1>1. PICK w, i, r : w = work[p] /\ i = w.item /\ r = Found(i)
    OBVIOUS
  <1>2. PICK w2 \in Work, signals \in Seq(Signal) :
           /\ Onward(p, w, w2, signals) /\ Raises(w, signals)
           /\ Outcome(p, i, r, w, w2, signals)
    BY <1>1, AppliedFacts
  <1>3. w.step = "apply" /\ i = e.item /\ ~(w.fetched /\ e.payload = "whole")
    BY <1>1 DEF Apply, HasBegun
  <1>4. /\ i \in Items /\ e.topic # "deleted" /\ row[i] \in Row /\ e.time <= row[i].time
    BY <1>3, AlertingFacts
  <1>5. /\ w \in Work /\ ~w.baseline /\ w.event = e.receivedAt
        /\ ~w.fetched => w.seen = [time |-> e.time, stock |-> e.stock]
    BY <1>1, <1>3, <1>4, Holds
  <1>6. r = row[i] /\ row[i] # NoRow /\ row[i].deletedAt = Never
    BY <1>1, <1>3, <1>4, FoundFacts DEF Kept
  <1>7. /\ r.alert[level].source = w.event
        /\ level = "LOW_STOCK" => e.payload = "whole"
        /\ level # "LOW_STOCK" => /\ r.class = level /\ row'[i].class = level
                                  /\ r.alert["LOW_STOCK"].source # w.event
    BY <1>3, <1>5, <1>6 DEF Alerting
  <1>8. ASSUME signals = Replayed(i, r, w), w2.step # "enqueue"
        PROVE  IsSeenTo(e, level)'
    <2> DEFINE s == SignalOf(i, r.generation, level, e.receivedAt)
    <2>1. signals = <<s>>
      BY <1>4, <1>5, <1>6, <1>7, <1>8, ReplayedSignals
    <2>2. s \in Signal
      BY <1>4, <1>6, SignalOfType DEF Row, TypeOK, WebhookEvent
    <2>3. s = SignalOf(e.item, row'[e.item].generation, level, e.receivedAt)
      BY <1>3, <1>6 DEF Kept
    <2> HIDE DEF s
    <2>4. work'[p] = w2 /\ \E k \in 1..Len(w2.signals) : w2.signals[k] = s
      BY <1>2, <1>5, <2>1, <2>2, OneSignal
    <2> QED
      BY <1>8, <2>3, <2>4 DEF IsSeenTo, IsOwed, Pending, SignalAt
  <1>9. CASE Writes(p, i) /\ Passes(w, w2) /\ signals = Signalled(i, r, ClassFor(r, w), w)
    <2>1. e.payload # "whole"
      <3>1. SUFFICES ASSUME e.payload = "whole"
                     PROVE  FALSE
        OBVIOUS
      <3>2. Decide(r, w.seen, w.fetched) = "apply"
        BY <1>1, <1>6, <1>9 DEF Writes, Decision
      <3>3. ~w.fetched /\ w.seen.time = e.time
        BY <1>3, <1>5, <3>1
      <3>4. w.seen.time \in Nat /\ r.time \in Nat
        BY <1>4, <1>5, <1>6 DEF Work, Snapshot, Row
      <3> QED
        BY <1>4, <1>6, <3>2, <3>3, <3>4 DEF Decide
    <2>2. PICK class : class = ClassFor(r, w)
      OBVIOUS
    <2>3. row'[i].class = class
      BY <1>1, <1>4, <1>9, <2>2, WritesFacts, WrittenFields
    <2>4. class = r.class /\ class = "OUT_OF_STOCK"
      BY <1>7, <2>1, <2>3 DEF Level
    <2>5. signals = Replayed(i, r, w)
      BY <1>9, <2>2, <2>4 DEF Signalled
    <2> QED
      BY <1>8, <1>9, <2>5 DEF Passes
  <1>10. CASE Passes(w, w2) /\ signals = Replayed(i, r, w)
    BY <1>8, <1>10 DEF Passes
  <1>11. ~(Decision(r, w) = "reconcile" /\ w2.step = "fetch" /\ w2.item = i)
    <2>1. SUFFICES ASSUME Decision(r, w) = "reconcile", w2.step = "fetch", w2.item = i
                   PROVE  FALSE
      OBVIOUS
    <2>2. work'[p] = w2
      BY <1>2 DEF Onward, Goes, TypeOK
    <2>3. e.payload = "whole" /\ ~w.fetched
      BY <1>3, <2>1, <2>2 DEF HasBegun
    <2>4. w.seen.time = r.time /\ w.seen.stock # r.stock
      BY <1>4, <1>5, <1>6, <2>1, DecisionFacts
    <2>5. e.time = r.time /\ e.stock # r.stock
      BY <1>5, <2>3, <2>4
    <2>6. PICK f \in inbox : /\ f.topic # "deleted" /\ f.item = i
                             /\ f.time = r.time /\ f.stock = r.stock
      BY <1>4, <1>6 DEF RowsInv, RowInv, Sighted
    <2> QED
      BY <1>3, <1>4, <2>5, <2>6 DEF EventsAgree
  <1> QED
    BY <1>2, <1>5, <1>6, <1>9, <1>10, <1>11 DEF Outcome

\* Only the projection of its item begins an event that is not COMPLETED.
LEMMA BegunMoves ==
    ASSUME TypeOK, EventsInv, HandlersInv, [ProjectionNext]_projectionVars,
           NEW e \in inbox, e.topic # "deleted",
           e \notin completed, ~\E p \in holders : HasBegun(p, e),
           e \in completed' \/ \E p \in holders' : HasBegun(p, e)'
    PROVE  \E p \in Projectors : /\ Apply(p) /\ work[p].event = e.receivedAt
                                 /\ ~HasBegun(p, e) /\ HasBegun(p, e)'
  <1>1. e \notin completed'
    <2> SUFFICES ASSUME e \in completed'
                 PROVE  FALSE
      OBVIOUS
    <2>1. PICK p \in holders : work[p].event = e.receivedAt /\ work[p].step = "schedule"
      BY CompletedMoves
    <2> QED
      BY <2>1 DEF HasBegun
  <1>2. PICK p \in holders' : HasBegun(p, e)'
    BY <1>1
  <1>3. work'[p].event = e.receivedAt /\ e \in inbox' /\ e.receivedAt # NoEvent
    BY <1>2, EventsGrow DEF HasBegun, EventsInv, NoEvent
  <1>4. p \in Projectors
    BY <1>2, TypeStep DEF TypeOK
  <1>5. ASSUME NEW w2, Goes(p, w2)
        PROVE  work'[p] = w2
    BY <1>4, <1>5 DEF Goes, TypeOK
  <1>6. CASE work'[p] = work[p]
    <2>1. HasBegun(p, e)
      BY <1>2, <1>6 DEF HasBegun
    <2>2. work[p].step # "idle"
      BY <1>3, <1>4, <1>6 DEF HandlersInv, ProjectorsInv, HandlerInv, Idle
    <2>3. p \in holders
      <3>1. ~\E f \in inbox : Take(p, f)
        BY <2>2 DEF Take
      <3>2. ASSUME NEW q \in Projectors, NEW f \in inbox, Take(q, f)
            PROVE  p \in holders
        BY <1>2, <3>1, <3>2 DEF Take
      <3> QED
        BY <1>2, <3>2 DEF ProjectionNext, projectionVars, claimVars, ReadPage,
               Reconcile, Apply, Look, Probe, Remove, Capture, Enqueue, Complete, Fails,
               FailsForGood, Ends, Revise, Trash, MoveThreshold
    <2> QED
      BY <2>1, <2>3
  <1>7. ~Take(p, e)
    <2> SUFFICES ASSUME Take(p, e)
                 PROVE  FALSE
      OBVIOUS
    <2>1. /\ work'[p].item = e.item /\ ~work'[p].fetched
          /\ work'[p].step \in {"refuse", "look", "apply", "fetch"}
          /\ e.payload = "whole" => work'[p].step = "apply"
      BY <1>4, TakenFacts
    <2> QED
      BY <1>2, <2>1 DEF HasBegun
  <1>8. CASE /\ work[p].event = e.receivedAt
             /\ \/ Reconcile(p) \/ Apply(p) \/ Look(p) \/ Probe(p) \/ Remove(p)
                \/ Capture(p) \/ Enqueue(p)
    <2>1. p \in holders
      BY <1>2, <1>8 DEF Reconcile, Apply, Look, Probe, Remove, Capture, Enqueue, claimVars
    <2>2. PICK w : w = work[p]
      OBVIOUS
    <2>3. w \in Work /\ w.step \notin {"look", "probe", "remove"} /\ ~HasBegun(p, e)
      BY <1>4, <1>8, <2>1, <2>2, Holds
    <2>4. ~Look(p) /\ ~Probe(p) /\ ~Remove(p)
      BY <2>2, <2>3 DEF Look, Probe, Remove
    <2>5. ~Capture(p) /\ ~Enqueue(p)
      BY <1>8, <2>3 DEF Capture, Enqueue, HasBegun
    <2>6. ~Reconcile(p)
      <3> SUFFICES ASSUME Reconcile(p)
                   PROVE  FALSE
        OBVIOUS
      <3>1. w.step = "fetch" /\ work'[p].item = w.item /\ work'[p].step = "apply"
        BY <1>5, <2>2, <2>3 DEF Reconcile, Work
      <3>2. w.item = e.item /\ e.payload # "whole"
        BY <1>8, <2>2, <2>3, <3>1 DEF HasBegun
      <3> QED
        BY <1>2, <3>1, <3>2 DEF HasBegun
    <2> QED
      BY <1>2, <1>4, <1>8, <2>3, <2>4, <2>5, <2>6
  <1> QED
    BY <1>3, <1>4, <1>6, <1>7, <1>8, WorkMoves

\* An event that its holder gives up is neither COMPLETED nor begun by another.
LEMMA GivenUp ==
    ASSUME TypeOK, EventsInv, HandlersInv, [ProjectionNext]_projectionVars,
           NEW e \in inbox, NEW p \in holders, work[p].event = e.receivedAt, Ends(p)
    PROVE  e \notin completed' /\ ~\E q \in holders' : HasBegun(q, e)'
  <1>1. PICK f \in Open : f.receivedAt = work[p].event
    BY DEF HandlersInv, HoldersInv
  <1>2. f = e
    BY <1>1 DEF Open, EventsInv
  <1>3. e \notin completed'
    BY <1>1, <1>2 DEF Open, Ends
  <1>4. ASSUME NEW q \in holders', work'[q].event = e.receivedAt
        PROVE  FALSE
    <2>1. q \in holders /\ q # p /\ work'[q] = work[q]
      BY <1>4 DEF Ends, Goes, TypeOK
    <2> QED
      BY <1>4, <2>1 DEF HandlersInv, HoldersInv
  <1> QED
    BY <1>3, <1>4 DEF HasBegun

LEMMA AlertStep ==
    ASSUME TypeOK, EventsInv, HandlersInv, RowsInv, SourcesInv, EventsAgree, AlertInv,
           [ProjectionNext]_projectionVars
    PROVE  AlertInv'
  <1> SUFFICES ASSUME NEW e \in inbox', NEW level \in Level,
                      e \in completed' \/ \E p \in holders' : HasBegun(p, e)',
                      Alerting(e, level)'
               PROVE  IsSeenTo(e, level)'
    BY DEF AlertInv
  <1>1. e.item \in Items /\ e.receivedAt # NoEvent
    BY TypeStep, EventsStep DEF TypeOK, WebhookEvent, EventsInv, NoEvent
  <1>2. e \in inbox
    <2>1. CASE e \in completed'
      BY <2>1, CompletedMoves DEF TypeOK, Open
    <2>2. CASE \E p \in holders' : HasBegun(p, e)'
      BY <2>2, TypeStep, WorkMoves DEF HasBegun, TypeOK
    <2> QED
      BY <2>1, <2>2
  <1>3. CASE ~Kept(e.item, level)
    BY <1>1, <1>2, <1>3, RaisedSignals
  <1>4. CASE Kept(e.item, level)
    <2>1. Alerting(e, level)
      BY <1>4 DEF Alerting, Kept, Level
    <2>2. e.topic # "deleted"
      BY <1>2, <2>1, AlertingFacts
    <2>3. CASE e \in completed \/ \E p \in holders : HasBegun(p, e)
      <3>1. IsSeenTo(e, level)
        BY <1>2, <2>1, <2>3 DEF AlertInv
      <3>2. ~\E p \in holders : work[p].event = e.receivedAt /\ Ends(p)
        BY <1>2, GivenUp
      <3> QED
        BY <1>2, <1>4, <2>1, <3>1, <3>2, SeenToStays
    <2>4. CASE e \notin completed /\ ~\E p \in holders : HasBegun(p, e)
      <3>1. PICK p \in Projectors : /\ Apply(p) /\ work[p].event = e.receivedAt
                                    /\ ~HasBegun(p, e) /\ HasBegun(p, e)'
        BY <1>2, <2>2, <2>4, BegunMoves
      <3> QED
        BY <1>2, <1>4, <2>1, <3>1, AppliedSignals
    <2> QED
      BY <2>3, <2>4
  <1> QED
    BY <1>3, <1>4

LEMMA AlertIAlways ==
    ASSUME SameSecond = FALSE
    PROVE  ProjectionSpec => []AlertInv
  <1>1. ProjectionInit => AlertInv
    BY DEF ProjectionInit, AlertInv
  <1>2. ConvergeIInv /\ AlertInv /\ [ProjectionNext]_projectionVars => AlertInv'
    BY AlertStep DEF ConvergeIInv, ProgressIInv, RowsIInv
  <1> QED
    BY <1>1, <1>2, ConvergeIAlways, PTL DEF ProjectionSpec

LEMMA SeenToFollows ==
    ASSUME TypeOK, AlertInv, NEW e \in completed, NEW level \in Level,
           Raised(e, e.item, level)
    PROVE  IsSeenTo(e, level)
  <1>1. Alerting(e, level) /\ e \in inbox
    BY DEF Raised, Alerting, TypeOK
  <1> QED
    BY <1>1 DEF AlertInv

\* The recipients of an alert are captured before its event is COMPLETED, or a
\* worker has it to send, or had it when he ended in an error without the claim,
\* also when the projection was retried, fetched, overtaken, or left to the parent.
THEOREM AlertsAreCaptured ==
    ASSUME SameSecond = FALSE
    PROVE  ProjectionSpec => []AlertIsCaptured
  <1>1. TypeOK /\ AlertInv => AlertIsCaptured
    <2> SUFFICES ASSUME TypeOK, AlertInv, NEW e \in completed, NEW level \in Level,
                        Raised(e, e.item, level)
                 PROVE  row[e.item].alert[level].captured \/ IsOwed(e, level)
      BY DEF AlertIsCaptured
    <2>1. \A p : Pending(work[p], e, level) =>
             \E k \in 1..Len(work[p].signals) :
                work[p].signals[k] = SignalOf(e.item, row[e.item].generation, level,
                                              e.receivedAt)
      BY DEF Pending, SignalAt
    <2> QED
      BY <2>1, SeenToFollows DEF IsSeenTo, IsOwed
  <1> QED
    BY <1>1, TypeCorrect, AlertIAlways, PTL

\* While the tenant's entitlement lasts no alert is lost on the way from the
\* commit that raises it to the queue of its recipients, unless the worker that
\* has it to send ends in an error after it has lost the claim.
THEOREM AlertsReachTheQueue ==
    ASSUME SameSecond = FALSE, Lapses = FALSE
    PROVE  ProjectionSpec => []AlertReachesQueue
  <1>1. TypeOK /\ AlertInv => AlertIsQueued
    <2> SUFFICES ASSUME TypeOK, AlertInv, NEW d \in deliveries, NEW e \in completed,
                        d.item = e.item, d.source = e.receivedAt,
                        Raised(e, d.item, d.level),
                        row[d.item].generation = d.generation
                 PROVE  d.queued \/ IsOwed(e, d.level)
      BY DEF AlertIsQueued
    <2>1. d.level \in Level
      BY DEF TypeOK, Delivery
    <2> QED
      BY <2>1, SeenToFollows DEF IsSeenTo, IsQueued
  <1>2. AlertIsCaptured /\ AlertIsQueued => AlertReachesQueue
    BY DEF AlertReachesQueue
  <1> QED
    BY <1>1, <1>2, TypeCorrect, AlertIAlways, AlertsAreCaptured, PTL
=============================================================================
