---------------------------- MODULE OrderProjection ----------------------------
(***************************************************************************)
(* The stored Order of one WooCommerce order                               *)
(* (backend/src/orders/order-projection.service.ts): the remote order      *)
(* changes and emits webhook events, which arrive in any order; projectors *)
(* (webhook jobs, and the Telegram operations that refresh an order) read  *)
(* the row, decide, and write it under an optimistic condition, fetching   *)
(* the remote order where an event does not settle the matter.             *)
(*                                                                         *)
(* date_modified_gmt counts seconds, so revisions may share a time.  A     *)
(* fetch of a deleted order answers 404.  An event may be projected again  *)
(* after a crash, and by two projectors at once, as the leases of          *)
(* WebhookPipeline permit.                                                 *)
(***************************************************************************)
EXTENDS Naturals, FiniteSets

CONSTANTS Projectors,
          NoRow,
          PROJECTION_TRANSACTION_ATTEMPTS,
          MaxRevision,   \* revisions of the remote order (bound)
          SameSecond,    \* TRUE: revisions may share their modification time
          Unmappable,    \* TRUE: the snapshot of an event may be malformed
          InOrder,       \* TRUE: events arrive and are taken as they were emitted
          Refreshes      \* TRUE: Telegram operations refresh the Order, too

Row == [rev : Nat, time : Nat, deletedAt : Nat]

ASSUME ProjectionAssumption ==
    /\ NoRow \notin Row
    /\ PROJECTION_TRANSACTION_ATTEMPTS \in Nat \ {0}
    /\ MaxRevision \in Nat \ {0}
    /\ {SameSecond, Unmappable, InOrder, Refreshes} \subseteq BOOLEAN

VARIABLES
    remote,      \* the order in WooCommerce: revision, time, trashed or not
    published,   \* events on their way
    arrivals,    \* deletions that arrived, the clock of receivedAt
    inbox,       \* WebhookEvents
    completed, failed,   \* those with status COMPLETED, FAILED
    row,         \* the Order: revision, wcModifiedAt, remoteDeletedAt
    pc, event,   \* each projector: next step and event
    candidate, authoritative,   \* the snapshot it applies; it was fetched
    existing, attempt           \* the row it read; the transaction's attempt

remoteVars == <<remote, published>>
eventVars  == <<arrivals, inbox, completed, failed>>
localVars  == <<event, candidate, authoritative, existing, attempt>>
vars == <<remoteVars, eventVars, row, pc, localVars>>

Never == 0   \* remoteDeletedAt: null

Snapshot == [rev : Nat, time : Nat]
Topic == {"created", "updated", "restored", "deleted"}
Emitted == [topic : Topic, rev : Nat, time : Nat, readable : BOOLEAN]
WebhookEvent == [topic : Topic \cup {"refresh"}, rev : Nat, time : Nat,
                 readable : BOOLEAN, receivedAt : Nat]

\* A Telegram operation projects as if for an event that says nothing.
Refresh == [topic |-> "refresh", rev |-> 0, time |-> 0, readable |-> FALSE,
            receivedAt |-> 0]

TypeOK ==
    /\ remote \in [rev : Nat, time : Nat, trashed : BOOLEAN]
    /\ published \in SUBSET Emitted
    /\ arrivals \in Nat
    /\ inbox \in SUBSET WebhookEvent
    /\ completed \in SUBSET inbox /\ failed \in SUBSET inbox
    /\ row \in Row \cup {NoRow}
    /\ pc \in [Projectors -> {"idle", "fetch", "read", "commit", "finish"}]
    /\ event \in [Projectors -> WebhookEvent]
    /\ \A p \in Projectors : event[p] \in inbox \cup {Refresh}
    /\ candidate \in [Projectors -> Snapshot]
    /\ authoritative \in [Projectors -> BOOLEAN]
    /\ existing \in [Projectors -> Row \cup {NoRow}]
    /\ attempt \in [Projectors -> 1..PROJECTION_TRANSACTION_ATTEMPTS]

Init ==
    /\ remote = [rev |-> 0, time |-> 0, trashed |-> FALSE]
    /\ published = {} /\ arrivals = 0 /\ inbox = {}
    /\ completed = {} /\ failed = {}
    /\ row = NoRow
    /\ pc = [p \in Projectors |-> "idle"]
    /\ event = [p \in Projectors |-> Refresh]
    /\ candidate = [p \in Projectors |-> [rev |-> 0, time |-> 0]]
    /\ authoritative = [p \in Projectors |-> FALSE]
    /\ existing = [p \in Projectors |-> NoRow]
    /\ attempt = [p \in Projectors |-> 1]

-----------------------------------------------------------------------------
(* WooCommerce and the network.                                            *)

Emits(topic, snapshot) ==
    \E readable \in IF Unmappable THEN BOOLEAN ELSE {TRUE} :
        published' = published \cup
            {[topic |-> topic, rev |-> snapshot.rev, time |-> snapshot.time,
              readable |-> readable]}

\* Revision 1 creates the order; a restored order is a new revision.  The
\* event of a deletion holds the order's identity only.
Revise ==
    /\ remote.rev < MaxRevision
    /\ \E time \in {remote.time, remote.time + 1} :
          /\ (SameSecond /\ remote.rev > 0) \/ time > remote.time
          /\ remote' = [rev |-> remote.rev + 1, time |-> time, trashed |-> FALSE]
    /\ Emits(IF remote.rev = 0 THEN "created"
             ELSE IF remote.trashed THEN "restored" ELSE "updated", remote')
    /\ UNCHANGED <<eventVars, row, pc, localVars>>

Trash ==
    /\ remote.rev > 0 /\ ~remote.trashed
    /\ remote' = [remote EXCEPT !.trashed = TRUE]
    /\ published' = published \cup
           {[topic |-> "deleted", rev |-> remote.rev, time |-> remote.time,
             readable |-> TRUE]}
    /\ UNCHANGED <<eventVars, row, pc, localVars>>

Precedes(e, f) ==
    \/ e.rev < f.rev
    \/ e.rev = f.rev /\ e.topic # "deleted" /\ f.topic = "deleted"

\* Only deletions look at receivedAt.
Arrive(e) ==
    /\ e \in published
    /\ InOrder => \A f \in published : ~Precedes(f, e)
    /\ published' = published \ {e}
    /\ LET at == IF e.topic = "deleted" THEN arrivals + 1 ELSE 0
       IN  /\ inbox' = inbox \cup
                  {[topic |-> e.topic, rev |-> e.rev, time |-> e.time,
                    readable |-> e.readable, receivedAt |-> at]}
           /\ arrivals' = IF at = 0 THEN arrivals ELSE at
    /\ UNCHANGED <<remote, completed, failed, row, pc, localVars>>

-----------------------------------------------------------------------------
(* A projector begins: project, or a refresh.                              *)

Goes(p, step) == pc' = [pc EXCEPT ![p] = step]

\* p leaves its transaction, or its event, behind.
Leaves(p, step) ==
    /\ Goes(p, step)
    /\ candidate' = [candidate EXCEPT ![p] = [rev |-> 0, time |-> 0]]
    /\ authoritative' = [authoritative EXCEPT ![p] = FALSE]
    /\ existing' = [existing EXCEPT ![p] = NoRow]
    /\ attempt' = [attempt EXCEPT ![p] = 1]

Rests(p) == Leaves(p, "idle") /\ event' = [event EXCEPT ![p] = Refresh]

\* A snapshot that cannot be mapped, but names its order, is reconciled.
Take(p, e) ==
    /\ pc[p] = "idle"
    /\ e \in inbox \ (completed \cup failed)
    /\ InOrder => \A f \in inbox \ (completed \cup failed) : ~Precedes(f, e)
    /\ event' = [event EXCEPT ![p] = e]
    /\ candidate' = [candidate EXCEPT ![p] =
           IF e.readable THEN [rev |-> e.rev, time |-> e.time] ELSE @]
    /\ Goes(p, IF e.readable THEN "read" ELSE "fetch")
    /\ UNCHANGED <<remoteVars, eventVars, row, authoritative, existing, attempt>>

\* A Telegram operation refreshes an Order it has found, if not deleted.
BeginRefresh(p) ==
    /\ Refreshes
    /\ pc[p] = "idle"
    /\ row # NoRow /\ row.deletedAt = Never
    /\ Goes(p, "fetch")
    /\ UNCHANGED <<remoteVars, eventVars, row, localVars>>

-----------------------------------------------------------------------------
(* reconcile: one authoritative fetch.                                     *)

\* The projection ends in an error.  The event is retried, or it is FAILED:
\* the error was terminal, or the attempts of its job were used up.
Fails(p, retryable) ==
    /\ Rests(p)
    /\ \/ /\ event[p] \in inbox \ completed
          /\ failed' = failed \cup {event[p]}
       \/ /\ retryable \/ event[p] \notin inbox \ completed
          /\ UNCHANGED failed
    /\ UNCHANGED <<remoteVars, arrivals, inbox, completed, row>>

Fetch(p) ==
    /\ pc[p] = "fetch"
    /\ ~remote.trashed
    /\ candidate' = [candidate EXCEPT ![p] = [rev  |-> remote.rev,
                                              time |-> remote.time]]
    /\ authoritative' = [authoritative EXCEPT ![p] = TRUE]
    /\ Goes(p, "read")
    /\ UNCHANGED <<remoteVars, eventVars, row, event, existing, attempt>>

\* transport, rate-limited and timeout are retryable; not-found is not.
FetchFails(p) ==
    /\ pc[p] = "fetch"
    /\ Fails(p, ~remote.trashed)

-----------------------------------------------------------------------------
(* The projection's transaction.                                           *)

ReadRow(p) ==
    /\ pc[p] = "read"
    /\ existing' = [existing EXCEPT ![p] = row]
    /\ Goes(p, "commit")
    /\ UNCHANGED <<remoteVars, eventVars, row, event, candidate, authoritative,
                   attempt>>

\* Mutant: the update names the Order and nothing it has read of it.
UnmovedByIdOnly(p) == row = NoRow <=> existing[p] = NoRow

\* optimisticOrderWhere, the unique Order and serializability: a write finds
\* the row as it was read.
Unmoved(p) == row = existing[p]

\* Mutant: two snapshots of one second are taken for the same.
DecideEqualIsNoop(stored, incoming, fetched) ==
    IF incoming.time > stored.time \/ (fetched /\ incoming.time = stored.time)
    THEN "apply" ELSE "noop"

\* The fingerprint covers revision, time and deletion: rows are their own.
Decide(stored, incoming, fetched) ==
    IF incoming.time < stored.time THEN "noop"
    ELSE IF incoming.time > stored.time THEN "apply"
    ELSE IF incoming = stored THEN "noop"
    ELSE IF fetched THEN "apply" ELSE "reconcile"

\* Mutant: only a fetched snapshot clears a deletion.
ProjectionPreserves(p) ==
    [rev |-> candidate[p].rev, time |-> candidate[p].time,
     deletedAt |-> IF authoritative[p] \/ existing[p] = NoRow
                   THEN Never ELSE existing[p].deletedAt]

\* A deletion is kept unless the snapshot was fetched or is a restored one.
Projection(p) ==
    [rev |-> candidate[p].rev, time |-> candidate[p].time,
     deletedAt |-> IF \/ authoritative[p] \/ event[p].topic = "restored"
                      \/ existing[p] = NoRow
                   THEN Never ELSE existing[p].deletedAt]

Decision(p) ==
    IF existing[p] = NoRow THEN "apply"
    ELSE Decide(existing[p], Projection(p), authoritative[p])

Writes(p, new) ==
    /\ Unmoved(p)
    /\ row' = new
    /\ Leaves(p, "finish")

\* applyProjection.
Apply(p) ==
    /\ pc[p] = "commit" /\ event[p].topic # "deleted"
    /\ \/ Decision(p) = "apply" /\ Writes(p, Projection(p))
       \/ Decision(p) = "noop" /\ Leaves(p, "finish") /\ UNCHANGED row
       \/ Decision(p) = "reconcile" /\ Leaves(p, "fetch") /\ UNCHANGED row
    /\ UNCHANGED <<remoteVars, eventVars, event>>

\* projectDeletion: an Order nobody knows of, or a deletion that is no news,
\* leaves nothing to do.
AlreadyDeleted(p) ==
    existing[p] # NoRow => /\ existing[p].deletedAt # Never
                           /\ event[p].receivedAt <= existing[p].deletedAt

Delete(p) ==
    /\ pc[p] = "commit" /\ event[p].topic = "deleted"
    /\ \/ AlreadyDeleted(p) /\ Leaves(p, "finish") /\ UNCHANGED row
       \/ /\ ~AlreadyDeleted(p)
          /\ Writes(p, [existing[p] EXCEPT !.deletedAt = event[p].receivedAt])
    /\ UNCHANGED <<remoteVars, eventVars, event>>

WantsWrite(p) ==
    IF event[p].topic = "deleted" THEN ~AlreadyDeleted(p)
    ELSE Decision(p) = "apply"

\* Mutant: the last conflict goes unreported.
ConflictSwallowed(p) ==
    /\ pc[p] = "commit" /\ WantsWrite(p) /\ ~Unmoved(p)
    /\ Leaves(p, "finish")
    /\ UNCHANGED <<remoteVars, eventVars, row, event>>

\* withProjectionTransaction starts over, for a bounded number of times.
Conflict(p) ==
    /\ pc[p] = "commit" /\ WantsWrite(p) /\ ~Unmoved(p)
    /\ \/ /\ attempt[p] < PROJECTION_TRANSACTION_ATTEMPTS
          /\ attempt' = [attempt EXCEPT ![p] = @ + 1]
          /\ Goes(p, "read")
          /\ existing' = [existing EXCEPT ![p] = NoRow]
          /\ UNCHANGED <<remoteVars, eventVars, row, event, candidate,
                         authoritative>>
       \/ /\ attempt[p] = PROJECTION_TRANSACTION_ATTEMPTS
          /\ Fails(p, TRUE)

\* The event of the projection becomes COMPLETED.
Finish(p) ==
    /\ pc[p] = "finish"
    /\ Rests(p)
    /\ completed' = IF event[p] = Refresh \/ event[p] \in failed
                    THEN completed ELSE completed \cup {event[p]}
    /\ UNCHANGED <<remoteVars, arrivals, inbox, failed, row>>

\* The process dies, or the job stalls: the event is projected again.
Crash(p) ==
    /\ pc[p] # "idle"
    /\ Rests(p)
    /\ UNCHANGED <<remoteVars, eventVars, row>>

-----------------------------------------------------------------------------
ProjectorRuns(p) ==
    \/ \E e \in inbox : Take(p, e)
    \/ BeginRefresh(p)
    \/ Fetch(p) \/ FetchFails(p)
    \/ ReadRow(p) \/ Apply(p) \/ Delete(p) \/ Conflict(p)
    \/ Finish(p) \/ Crash(p)

Next ==
    \/ Revise \/ Trash
    \/ \E e \in published : Arrive(e)
    \/ \E p \in Projectors : ProjectorRuns(p)

Spec == Init /\ [][Next]_vars

-----------------------------------------------------------------------------
(* Properties.                                                             *)

\* The stored Order never goes back in the store's time, whatever the order
\* of the events and however stale the row or the fetch of a projector.
NeverOlder ==
    [][row # NoRow => row' # NoRow /\ row'.time >= row.time]_row

\* A COMPLETED event has had its effect for good: the Order is as recent as
\* the event's snapshot, even one that was reconciled instead of applied.
CompletedIsCovered ==
    \A e \in completed :
        e.topic # "deleted" => row # NoRow /\ row.time >= e.time

\* Once the event of the store's current revision is COMPLETED the Order is
\* that revision.  Revisions of one second need the events one at a time.
CurrentWhenCompleted ==
    \A e \in completed :
        e.topic # "deleted" /\ e.rev = remote.rev
        => row # NoRow /\ row.rev = remote.rev

AtRest ==
    /\ published = {}
    /\ inbox = completed
    /\ \A p \in Projectors : pc[p] = "idle"

\* No two revisions that arrived share a second, so that none is reconciled.
DistinctSeconds ==
    \A e, f \in inbox : e.time = f.time => e.rev = f.rev

\* When every event is COMPLETED, a stored Order is marked as deleted exactly
\* when the store has deleted it.  Where revisions share a second this fails: a
\* reconciliation stores a revision ahead of its events, an older deletion marks
\* it, and the restoration, which is older too, leaves the mark.
DeletionAtRest ==
    AtRest /\ DistinctSeconds /\ row # NoRow
    => (row.deletedAt # Never <=> remote.trashed)
=============================================================================
