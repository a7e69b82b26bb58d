--------------------------- MODULE InventoryBootstrap ---------------------------
(***************************************************************************)
(* The first scan of a store's catalogue, one page per queue job           *)
(* (backend/src/queue/inventory-bootstrap.processor.ts), and the requests  *)
(* that start or restart it (inventory-bootstrap.scheduler.ts), which come *)
(* whenever somebody opens /stock or the settings.                         *)
(*                                                                         *)
(* The Store row holds the progress, a revision that grows with it, and a  *)
(* lease on the current revision; job n is the job of revision n.  A page  *)
(* is read by offset in a catalogue ordered by id, from which products may *)
(* disappear during the scan.  How an item is projected is the subject of  *)
(* InventoryProjection; here it is covered or not.                         *)
(***************************************************************************)
EXTENDS OperationsQueue, NumbersInOrder, FiniteSets, Sequences

CONSTANTS Products,      \* numbers, in the order of their ids
          Variations,    \* how many variations each product has, 0: none
          PageSize,      \* BOOTSTRAP_PAGE_SIZE
          Requests,      \* calls of ensureInitialized
          MaxRevisions,  \* revisions of the progress (bound)
          MaxBootFaults, \* crashes, stalled jobs and calls that fail (bound)
          MaxVanished    \* products that disappear (bound)

ASSUME BootstrapAssumption ==
    /\ Products \subseteq Nat /\ IsFiniteSet(Products)
    /\ Variations \in [Products -> Nat]
    /\ PageSize \in Nat \ {0}
    /\ {MaxRevisions, MaxBootFaults, MaxVanished} \subseteq Nat

Revisions == 0..MaxRevisions

VARIABLES
    catalogue,    \* products in WooCommerce
    sync, rev,    \* Store.inventorySyncState, inventoryBootstrapRevision
    progress,     \* productPage, parentIds, variationPage, productsDone
    lease, old,   \* who set inventoryBootstrapLeaseAt; the lease is over
    covered,      \* items that were projected
    bootJob, bootListeners,   \* per revision: its job, pending markFailed calls
    scanner,      \* what each worker does
    request,      \* what each request does
    bootFaults,   \* a count
    lost          \* history: revisions nobody is left to add the job of, or to
                  \* record the failure of, as that failed or its process died

storeVars == <<sync, rev, progress, lease, old>>
bootQueueVars == <<bootJob, bootListeners>>
bootCounts == <<bootFaults, lost>>
bootVars == <<catalogue, storeVars, covered, bootQueueVars, scanner, request,
              bootCounts>>

Start == [page |-> 1, parents |-> <<>>, vpage |-> 1, done |-> FALSE]
Off == [at |-> "idle", job |-> 0, rev |-> 0, seen |-> Start, next |-> Start]

Ready(at) == [at |-> at, was |-> "READY", rev |-> 0]

SyncStates == {"UNINITIALIZED", "SYNCING", "READY", "FAILED"}

\* parents are products the scan of whose variations is yet to come or under way.
Progress == [page : Nat \ {0}, parents : Seq(Products), vpage : Nat \ {0},
             done : BOOLEAN]

\* "next" and "follow" are about to add a later revision's job, for a job that found
\* its own revision over, and after an advance.
ScannerStep == {"idle", "claim", "resolve", "load", "scan", "advance", "reload", "next",
                "follow", "retry", "bury"}

BootTypeOK ==
    /\ catalogue \in SUBSET Products
    /\ sync \in SyncStates /\ rev \in Revisions /\ progress \in Progress
    /\ lease \in Workers \cup {NoWorker} /\ old \in BOOLEAN
    /\ covered \in SUBSET (Products \X Nat)
    /\ bootJob \in [Revisions -> Job]
    /\ bootListeners \in SUBSET Revisions
    /\ scanner \in [Workers -> [at : ScannerStep, job : Revisions, rev : Revisions,
                               seen : Progress, next : Progress]]
    /\ request \in [Requests -> [at : {"new", "start", "read", "enqueue", "done"},
                                was : SyncStates, rev : Revisions]]
    /\ bootFaults \in 0..MaxBootFaults /\ lost \in SUBSET Revisions

BootInit ==
    /\ catalogue = Products
    /\ sync = "UNINITIALIZED" /\ rev = 0 /\ progress = Start
    /\ lease = NoWorker /\ old = FALSE
    /\ covered = {}
    /\ bootJob = [r \in Revisions |-> UnknownJob("absent")]
    /\ bootListeners = {}
    /\ scanner = [w \in Workers |-> Off]
    /\ request = [q \in Requests |-> Ready("new")]
    /\ bootFaults = 0 /\ lost = {}

-----------------------------------------------------------------------------
(* Pages.                                                                  *)

Rank(p) == Cardinality({q \in catalogue : q <= p})

OnPage(rank, page) == (page - 1) * PageSize < rank /\ rank <= page * PageSize

ProductsOn(page) == {p \in catalogue : OnPage(Rank(p), page)}

\* fetchProductVariationsPage; a product that is gone answers 404, which
\* counts as an empty page.
VariationsOn(p, page) ==
    IF p \in catalogue THEN {v \in 1..Variations[p] : OnPage(v, page)} ELSE {}

Scanned(s) == IF s.parents # <<>>
              THEN {<<Head(s.parents), v>> : v \in VariationsOn(Head(s.parents), s.vpage)}
              ELSE IF s.done THEN {}
              ELSE {<<p, 0>> : p \in ProductsOn(s.page)}

\* The variable products of a page, in its order.
ParentsIn(set) == Sorted(set)

\* Mutant: only the last page's variable products are remembered.
AdvancedForgets(s) ==
    LET full == Cardinality(Scanned(s)) = PageSize
    IN  IF s.parents # <<>>
        THEN [s EXCEPT !.parents = IF full THEN @ ELSE Tail(@),
                       !.vpage = IF full THEN @ + 1 ELSE 1]
        ELSE IF s.done THEN s
        ELSE [page |-> s.page + 1, vpage |-> 1, done |-> ~full,
              parents |-> IF full THEN <<>> ELSE ParentsIn(ProductsOn(s.page))]

\* processOneUnit: the progress after the page that s is about.
Advanced(s) ==
    LET page == Scanned(s)
        full == Cardinality(page) = PageSize
    IN  IF s.parents # <<>>
        THEN [s EXCEPT !.parents = IF full THEN @ ELSE Tail(@),
                       !.vpage = IF full THEN @ + 1 ELSE 1]
        ELSE IF s.done THEN s
        ELSE [page |-> s.page + 1, vpage |-> 1, done |-> ~full,
              parents |-> ParentsIn({p \in ProductsOn(s.page) : Variations[p] > 0})]

Done(s) == s.done /\ s.parents = <<>>

-----------------------------------------------------------------------------
(* A worker and its job.                                                   *)

Moves(w, to) == scanner' = [scanner EXCEPT ![w] = to]

\* Whether it completed or failed, a job that is over keeps its id taken.
Over(j) == IF j.state \in {"completed", "failed"} THEN UnknownJob("completed") ELSE j

\* The worker reports j, unless its job was handed to another one.
Reports(w, j) ==
    LET r == scanner[w].job IN
    /\ Moves(w, Off)
    /\ IF bootJob[r].owner = w
       THEN /\ bootJob' = [bootJob EXCEPT ![r] = Over(j)]
            /\ bootListeners' = IF j.state = "failed" THEN bootListeners \cup {r}
                                ELSE bootListeners
       ELSE UNCHANGED bootQueueVars

Running(j) == j.state \in {"waiting", "active"}

\* Whoever was to see to these revisions does not; one with a job needs nobody.
Loses(revisions) == lost' = lost \cup {r \in revisions : ~Running(bootJob[r])}

\* The job was added; an id that is taken adds none.
Regains(r) == lost' = IF Running(bootJob'[r]) THEN lost \ {r} ELSE lost

\* The revision a worker that has advanced the progress is to add the job of.
Owes(s) == IF s.at = "reload" THEN {rev} ELSE IF s.at = "follow" THEN {s.rev} ELSE {}

TakeJob(w, r) ==
    /\ scanner[w].at = "idle"
    /\ bootJob[r].state = "waiting"
    /\ IF Exhausted(bootJob[r])
       THEN /\ bootJob' = [bootJob EXCEPT ![r] = Over(Buried(@))]
            /\ bootListeners' = bootListeners \cup {r}
            /\ UNCHANGED scanner
       ELSE /\ bootJob' = [bootJob EXCEPT ![r] = Fetched(@, w)]
            /\ Moves(w, [Off EXCEPT !.at = "claim", !.job = r])
            /\ UNCHANGED bootListeners
    /\ UNCHANGED <<catalogue, storeVars, covered, request, bootCounts>>

ClaimRevision(w) ==
    LET r == scanner[w].job IN
    /\ scanner[w].at = "claim"
    /\ IF sync = "SYNCING" /\ rev = r /\ (lease = NoWorker \/ old)
       THEN /\ lease' = w /\ old' = FALSE
            /\ Moves(w, [scanner[w] EXCEPT !.at = "load"])
       ELSE /\ Moves(w, [scanner[w] EXCEPT !.at = "resolve"])
            /\ UNCHANGED <<lease, old>>
    /\ UNCHANGED <<catalogue, sync, rev, progress, covered, bootQueueVars,
                   request, bootCounts>>

\* Mutant: whoever finds the revision leased leaves it to the other worker.
ResolveRevisionLeaves(w) ==
    LET r == scanner[w].job IN
    /\ scanner[w].at = "resolve"
    /\ IF sync = "READY" \/ rev > r \/ lease # NoWorker
       THEN Reports(w, Finished(bootJob[r]))
       ELSE Reports(w, Buried(bootJob[r]))
    /\ UNCHANGED <<catalogue, storeVars, covered, request, bootCounts>>

\* resolveUnclaimed.
ResolveRevision(w) ==
    LET r == scanner[w].job IN
    /\ scanner[w].at = "resolve"
    /\ IF sync # "READY" /\ rev > r
       THEN /\ Moves(w, [scanner[w] EXCEPT !.at = "next", !.rev = rev])
            /\ UNCHANGED bootQueueVars
       ELSE Reports(w, IF sync = "READY" THEN Finished(bootJob[r])
                       ELSE IF rev = r /\ lease # NoWorker THEN Retried(bootJob[r])
                       ELSE Buried(bootJob[r]))
    /\ UNCHANGED <<catalogue, storeVars, covered, request, bootCounts>>

\* The progress is read after the claim, and whatever it is by then.
LoadProgress(w) ==
    /\ scanner[w].at = "load"
    /\ Moves(w, [scanner[w] EXCEPT !.at = "scan", !.rev = rev, !.seen = progress])
    /\ UNCHANGED <<catalogue, storeVars, covered, bootQueueVars, request, bootCounts>>

\* One page is read and its items are projected.
ScanPage(w) ==
    LET s == scanner[w].seen IN
    /\ scanner[w].at = "scan"
    /\ covered' = covered \cup Scanned(s)
    /\ Moves(w, [scanner[w] EXCEPT !.at = "advance", !.seen = Start,
                                          !.next = Advanced(s)])
    /\ UNCHANGED <<catalogue, storeVars, bootQueueVars, request, bootCounts>>

\* A fence that finds nothing to update is an error that is not retried.
AdvanceProgress(w) ==
    LET s == scanner[w] IN
    /\ s.at = "advance" /\ rev < MaxRevisions
    /\ IF sync = "SYNCING" /\ rev = s.rev /\ lease = w
       THEN /\ progress' = s.next /\ rev' = rev + 1
            /\ sync' = IF Done(s.next) THEN "READY" ELSE "SYNCING"
            /\ lease' = NoWorker /\ old' = FALSE
            /\ IF Done(s.next)
               THEN Reports(w, Finished(bootJob[s.job]))
               ELSE /\ Moves(w, [Off EXCEPT !.at = "reload", !.job = s.job])
                    /\ UNCHANGED bootQueueVars
       ELSE /\ Moves(w, [Off EXCEPT !.at = "bury", !.job = s.job])
            /\ UNCHANGED <<storeVars, bootQueueVars>>
    /\ UNCHANGED <<catalogue, covered, request, bootCounts>>

\* The store is read again for the revision to go on with.
ReloadStore(w) ==
    /\ scanner[w].at = "reload"
    /\ Moves(w, [scanner[w] EXCEPT !.at = "follow", !.rev = rev])
    /\ UNCHANGED <<catalogue, storeVars, covered, bootQueueVars, request, bootCounts>>

EnqueueNext(w) ==
    LET s == scanner[w]
        added == [bootJob EXCEPT ![s.rev] = Added(@)]
    IN  /\ s.at \in {"next", "follow"}
        /\ bootJob' = IF added[s.job].owner = w
                      THEN [added EXCEPT ![s.job] = Over(Finished(@))] ELSE added
        /\ Moves(w, Off) /\ Regains(s.rev)
        /\ UNCHANGED <<catalogue, storeVars, covered, bootListeners, request,
                       bootFaults>>

Fault == bootFaults < MaxBootFaults /\ bootFaults' = bootFaults + 1

\* WooCommerce, the database or Redis answers with an error and has done nothing.
\* From the reading of the page on, the lease is released and only some of
\* WooCommerce's errors are retried; the rest, and an error of the release itself,
\* is a plain Error.
UnitFails(w) ==
    LET s == scanner[w] IN
    /\ Fault
    /\ \/ /\ s.at \in {"scan", "advance", "reload", "follow"}
          /\ \E to \in IF s.at = "scan" THEN {"retry", "bury"} ELSE {"bury"} :
                Moves(w, [Off EXCEPT !.at = to, !.job = s.job])
          /\ Loses(Owes(s))
          /\ UNCHANGED bootQueueVars
       \/ /\ s.at \in {"claim", "resolve", "load", "next", "retry", "bury"}
          /\ Reports(w, Retried(bootJob[s.job]))
          /\ UNCHANGED lost
    /\ UNCHANGED <<catalogue, storeVars, covered, request>>

\* releaseLease, then the error is thrown as it is or as Unrecoverable.
ReleaseLease(w) ==
    LET s == scanner[w] IN
    /\ s.at \in {"retry", "bury"}
    /\ IF sync = "SYNCING" /\ rev = s.job /\ lease = w
       THEN lease' = NoWorker /\ old' = FALSE ELSE UNCHANGED <<lease, old>>
    /\ Reports(w, IF s.at = "retry" THEN Retried(bootJob[s.job])
                  ELSE Buried(bootJob[s.job]))
    /\ UNCHANGED <<catalogue, sync, rev, progress, covered, request, bootCounts>>

BootMarkFailed(r) ==
    /\ r \in bootListeners
    /\ bootListeners' = bootListeners \ {r}
    /\ IF sync = "SYNCING" /\ rev = r
       THEN sync' = "FAILED" /\ lease' = NoWorker /\ old' = FALSE
       ELSE UNCHANGED <<sync, lease, old>>
    /\ UNCHANGED <<catalogue, rev, progress, covered, bootJob, scanner, request,
                   bootCounts>>

\* An error of markFailed is logged, and that is all.
MarkFailedFails(r) ==
    /\ Fault /\ Loses({r})
    /\ r \in bootListeners
    /\ bootListeners' = bootListeners \ {r}
    /\ UNCHANGED <<catalogue, storeVars, covered, bootJob, scanner, request>>

-----------------------------------------------------------------------------
(* ensureInitialized.                                                      *)

RequestMoves(q, to) == request' = [request EXCEPT ![q] = to]

ReadState(q) ==
    /\ request[q].at = "new"
    /\ RequestMoves(q, CASE sync = "READY" -> Ready("done")
                         [] sync = "SYNCING" -> Ready("read")
                         [] OTHER -> [Ready("start") EXCEPT !.was = sync])
    /\ UNCHANGED <<catalogue, storeVars, covered, bootQueueVars, scanner, bootCounts>>

StartScan(q) ==
    /\ request[q].at = "start" /\ rev < MaxRevisions
    /\ IF sync = request[q].was
       THEN /\ sync' = "SYNCING" /\ rev' = rev + 1
            /\ lease' = NoWorker /\ old' = FALSE
       ELSE UNCHANGED <<sync, rev, lease, old>>
    /\ RequestMoves(q, Ready("read"))
    /\ UNCHANGED <<catalogue, progress, covered, bootQueueVars, scanner, bootCounts>>

ReadRevision(q) ==
    /\ request[q].at = "read"
    /\ RequestMoves(q, IF sync = "SYNCING" THEN [Ready("enqueue") EXCEPT !.rev = rev]
                       ELSE Ready("done"))
    /\ UNCHANGED <<catalogue, storeVars, covered, bootQueueVars, scanner, bootCounts>>

EnqueueRevision(q) ==
    /\ request[q].at = "enqueue"
    /\ bootJob' = [bootJob EXCEPT ![request[q].rev] = Added(@)]
    /\ RequestMoves(q, Ready("done")) /\ Regains(request[q].rev)
    /\ UNCHANGED <<catalogue, storeVars, covered, bootListeners, scanner, bootFaults>>

\* Redis does not take the job, or it does and the update after it fails: the
\* lease is dropped, whoever holds it.
EnqueueRevisionFails(q) ==
    LET r == request[q].rev IN
    /\ Fault
    /\ request[q].at = "enqueue"
    /\ IF sync = "SYNCING" /\ rev = r
       THEN lease' = NoWorker /\ old' = FALSE ELSE UNCHANGED <<lease, old>>
    /\ \/ UNCHANGED bootJob /\ Loses({r})
       \/ bootJob' = [bootJob EXCEPT ![r] = Added(@)] /\ Regains(r)
    /\ RequestMoves(q, Ready("done"))
    /\ UNCHANGED <<catalogue, sync, rev, progress, covered, bootListeners, scanner>>

\* The database answers the request with an error, or its process dies.
RequestFails(q) ==
    LET p == request[q] IN
    /\ Fault
    /\ p.at \in {"new", "start", "read", "enqueue"}
    /\ Loses(CASE p.at = "read" -> {rev} [] p.at = "enqueue" -> {p.rev} [] OTHER -> {})
    /\ RequestMoves(q, Ready("done"))
    /\ UNCHANGED <<catalogue, storeVars, covered, bootQueueVars, scanner>>

\* Somebody opens /stock again.
AskAgain(q) ==
    /\ request[q].at = "done"
    /\ RequestMoves(q, Ready("new"))
    /\ UNCHANGED <<catalogue, storeVars, covered, bootQueueVars, scanner, bootCounts>>

-----------------------------------------------------------------------------
(* The environment.                                                        *)

Vanish ==
    /\ Cardinality(Products \ catalogue) < MaxVanished
    /\ \E p \in catalogue : catalogue' = catalogue \ {p}
    /\ UNCHANGED <<storeVars, covered, bootQueueVars, scanner, request, bootCounts>>

\* BOOTSTRAP_LEASE_MS is over.
LeaseRunsOut ==
    /\ lease # NoWorker /\ ~old /\ old' = TRUE
    /\ UNCHANGED <<catalogue, sync, rev, progress, lease, covered, bootQueueVars,
                   scanner, request, bootCounts>>

JobStalls(r) ==
    /\ Fault /\ UNCHANGED lost
    /\ bootJob[r].state = "active"
    /\ bootJob' = [bootJob EXCEPT ![r] = Stalled(@)]
    /\ UNCHANGED <<catalogue, storeVars, covered, bootListeners, scanner, request>>

\* A worker process dies, with its pending listeners.
WorkerDies(w) ==
    /\ Fault /\ Loses(Owes(scanner[w]) \cup bootListeners)
    /\ scanner[w].at # "idle" \/ bootListeners # {}
    /\ Moves(w, Off) /\ bootListeners' = {}
    /\ UNCHANGED <<catalogue, storeVars, covered, bootJob, request>>

BootNext ==
    \/ \E w \in Workers :
          \/ \E r \in Revisions : TakeJob(w, r)
          \/ ClaimRevision(w) \/ ResolveRevision(w) \/ LoadProgress(w)
          \/ ScanPage(w) \/ AdvanceProgress(w) \/ ReloadStore(w) \/ EnqueueNext(w)
          \/ UnitFails(w) \/ ReleaseLease(w) \/ WorkerDies(w)
    \/ \E r \in Revisions : BootMarkFailed(r) \/ MarkFailedFails(r) \/ JobStalls(r)
    \/ \E q \in Requests :
          \/ ReadState(q) \/ StartScan(q) \/ ReadRevision(q)
          \/ EnqueueRevision(q) \/ EnqueueRevisionFails(q) \/ RequestFails(q)
          \/ AskAgain(q)
    \/ Vanish \/ LeaseRunsOut

BootSpec == BootInit /\ [][BootNext]_bootVars

-----------------------------------------------------------------------------
(* Properties.                                                             *)

\* The scan is done only when every product and variation was projected,
\* whatever crashed, stalled, was retried or started over, provided that no
\* product vanished, which moves those behind it to earlier pages.
ReadyIsComplete ==
    sync = "READY" /\ catalogue = Products =>
        \A p \in Products : \A v \in 0..Variations[p] : <<p, v>> \in covered

\* A store that is SYNCING has somebody who goes on: the job of its revision, a
\* listener about to record that job's failure, or a worker or a request about to add
\* the job.  Excepted is a revision for which one of these, while it had no job, was
\* answered with an error or died, until its job is added after all.
SyncingIsAttended ==
    sync = "SYNCING" /\ rev \notin lost =>
        \/ Running(bootJob[rev])
        \/ rev \in bootListeners
        \/ \E w \in Workers : rev \in Owes(scanner[w])
        \/ \E q \in Requests :
              \/ request[q].at = "read"
              \/ request[q].at = "enqueue" /\ request[q].rev = rev
=============================================================================
