---------------------------- MODULE OrderStatusWrite ----------------------------
(***************************************************************************)
(* Changing an order's status from Telegram                                *)
(* (backend/src/telegram/telegram-order.service.ts): transitions issues a  *)
(* reference with the targets the projected status allows; updateStatus    *)
(* looks for an earlier write of the reference, fetches the live order,    *)
(* claims the reference for its target, creates the write, PUTs the status *)
(* and records the outcome, by another fetch if the answer is lost.        *)
(*                                                                         *)
(* Several requests may use one reference (a double tap, another target    *)
(* from an old keyboard) and several references may exist for the order.   *)
(* The order is the sequence of its revisions in WooCommerce, each with    *)
(* its status and its author.  A snapshot is a revision number.  A PUT is  *)
(* an element of puts, so that it may arrive after its request gave up.    *)
(* Requests that are refused before they look anything up (role, context,  *)
(* expiry, entitlement, a target that was not offered) change nothing and  *)
(* are not represented.                                                    *)
(***************************************************************************)
EXTENDS Integers, Sequences

CONSTANTS Requests,      \* updateStatus calls
          References,    \* STATUS_WRITE references of one order
          NoReference,
          Merchant,      \* author of the revisions no reference made
          StoreStatuses, \* statuses the merchant may give the order
          MaxChanges,    \* revisions by the merchant (bound)
          MaxFaults      \* requests that die: crashes, database errors (bound)

CORE_STATUSES == {"pending", "processing", "on-hold", "completed",
                  "cancelled", "refunded", "failed"}

ASSUME StatusWriteAssumption ==
    /\ NoReference \notin References /\ Merchant \notin References
    /\ StoreStatuses \subseteq CORE_STATUSES
    /\ MaxChanges \in Nat /\ MaxFaults \in Nat

VARIABLES
    history,      \* the order in WooCommerce: its revisions
    trash,        \* ... was never in the trash, is in it, or came out
    row,          \* the projected Order: revision, deletion mark
    allowed,      \* allowedTargetStatuses of each reference, {} before issue
    claimed,      \* claimedTargetStatus of each reference, "none" if null
    claimedAt,    \* the latest revision when it was first claimed (history)
    writes,       \* TelegramOrderStatusWrite by reference and target
    audits,       \* audit entries of each reference
    rpc, rref, rtarget,   \* each request: next step, reference, target
    rlive,        \* the revision it fetched last, 0 if none
    verdict,      \* the outcome it is about to record
    puts,         \* requests whose PUT the store has yet to act on
    changes, faults

storeVars   == <<history, trash, changes>>
recordVars  == <<claimed, claimedAt, writes, audits>>
requestVars == <<rref, rtarget>>
vars == <<storeVars, row, allowed, recordVars, rpc, requestVars, rlive,
          verdict, puts, faults>>

Failure == {"DELETED", "NOT_FOUND", "RETRYABLE", "FAILED"}
Outcome == {"OK", "NO_OP"} \cup Failure

\* The steps of a request before it owns a write, and those of the owner.
Looking == {"lookup", "fetch", "reconcile", "claim", "create"}
Owning  == {"dispatch", "await", "reply", "refetch", "reconcileLost",
            "confirm", "record"}
Pairs   == References \X CORE_STATUSES

Revision == [status : CORE_STATUSES, by : References \cup {Merchant}]

Mine(r) == <<rref[r], rtarget[r]>>
Latest  == Len(history)
StatusAt(revision) == history[revision].status

TypeOK ==
    /\ history \in Seq(Revision) /\ history # << >>
    /\ trash \in {"never", "in", "out"}
    /\ row \in [rev : 1..Latest, deleted : BOOLEAN]
    /\ allowed \in [References -> SUBSET CORE_STATUSES]
    /\ claimed \in [References -> CORE_STATUSES \cup {"none"}]
    /\ claimedAt \in [References -> 0..Latest]
    /\ writes \in [Pairs -> {"absent", "open"} \cup Outcome]
    /\ audits \in [References -> Nat]
    /\ rpc \in [Requests -> {"idle", "done", "dead"} \cup Looking \cup Owning]
    /\ rref \in [Requests -> References \cup {NoReference}]
    /\ rtarget \in [Requests -> CORE_STATUSES \cup {"none"}]
    /\ rlive \in [Requests -> 0..Latest]
    /\ verdict \in [Requests -> Outcome]
    /\ puts \in SUBSET Requests
    /\ changes \in 0..MaxChanges /\ faults \in 0..MaxFaults
    /\ \A r \in Requests :
          rpc[r] # "idle" => /\ rref[r] \in References
                             /\ rtarget[r] \in allowed[rref[r]]
    /\ \A r \in Requests :
          rpc[r] \in {"reconcile", "claim", "create", "reply", "reconcileLost"}
              => rlive[r] # 0
    /\ \A r \in puts : rpc[r] # "idle"

Init ==
    /\ \E s \in StoreStatuses : history = <<[status |-> s, by |-> Merchant]>>
    /\ trash = "never" /\ row = [rev |-> 1, deleted |-> FALSE]
    /\ allowed = [f \in References |-> {}]
    /\ claimed = [f \in References |-> "none"]
    /\ claimedAt = [f \in References |-> 0]
    /\ writes = [p \in Pairs |-> "absent"]
    /\ audits = [f \in References |-> 0]
    /\ rpc = [r \in Requests |-> "idle"]
    /\ rref = [r \in Requests |-> NoReference]
    /\ rtarget = [r \in Requests |-> "none"]
    /\ rlive = [r \in Requests |-> 0]
    /\ verdict = [r \in Requests |-> "FAILED"]
    /\ puts = {} /\ changes = 0 /\ faults = 0

CORE_STATUS_TRANSITIONS ==
    [s \in CORE_STATUSES |->
        CASE s = "pending"    -> {"processing", "on-hold", "cancelled"}
          [] s = "processing" -> {"on-hold", "completed", "cancelled", "refunded"}
          [] s = "on-hold"    -> {"processing", "completed", "cancelled", "refunded"}
          [] s = "completed"  -> {"processing", "refunded"}
          [] s = "cancelled"  -> {"pending"}
          [] s = "failed"     -> {"pending", "on-hold", "cancelled"}
          [] s = "refunded"   -> {}]

-----------------------------------------------------------------------------
(* The store, its webhooks and the references.                             *)

Revised(status, author) ==
    history' = Append(history, [status |-> status, by |-> author])

MerchantChanges ==
    /\ changes < MaxChanges
    /\ changes' = changes + 1
    /\ \/ /\ \E s \in StoreStatuses : Revised(s, Merchant)
          /\ trash' = IF trash = "in" THEN "out" ELSE trash
       \/ trash' = "in" /\ UNCHANGED history
    /\ UNCHANGED <<row, allowed, recordVars, rpc, requestVars, rlive, verdict,
                   puts, faults>>

\* Webhooks move the projected Order forward and set or clear its mark, late
\* ones included (OrderProjection has the details).
WebhookProjected ==
    /\ \E k \in row.rev..Latest,
          d \in (IF trash = "never" THEN {FALSE} ELSE BOOLEAN) :
          row' = [rev |-> k, deleted |-> d]
    /\ row' # row
    /\ UNCHANGED <<storeVars, allowed, recordVars, rpc, requestVars, rlive,
                   verdict, puts, faults>>

\* transitions: the targets are those of the projected status.
IssueReference(f) ==
    /\ allowed[f] = {} /\ ~row.deleted
    /\ allowed' = [allowed EXCEPT
                      ![f] = CORE_STATUS_TRANSITIONS[StatusAt(row.rev)]]
    /\ allowed'[f] # {}
    /\ UNCHANGED <<storeVars, row, recordVars, rpc, requestVars, rlive,
                   verdict, puts, faults>>

-----------------------------------------------------------------------------
(* updateStatus, up to the write.                                          *)

Goes(r, step) == rpc' = [rpc EXCEPT ![r] = step]

\* The reference offers the target and the Order is not marked deleted.
Open(r, f, t) ==
    /\ rpc[r] = "idle" /\ t \in allowed[f] /\ ~row.deleted
    /\ rref' = [rref EXCEPT ![r] = f]
    /\ rtarget' = [rtarget EXCEPT ![r] = t]
    /\ Goes(r, "lookup")
    /\ UNCHANGED <<storeVars, row, allowed, recordVars, rlive, verdict, puts,
                   faults>>

\* A write with a result is replayed, one without is RETRYABLE.
LookUp(r) ==
    /\ rpc[r] = "lookup"
    /\ Goes(r, IF writes[Mine(r)] = "absent" THEN "fetch" ELSE "done")
    /\ UNCHANGED <<storeVars, row, allowed, recordVars, requestVars, rlive,
                   verdict, puts, faults>>

FetchesTo(r, step) ==
    /\ trash # "in"
    /\ rlive' = [rlive EXCEPT ![r] = Latest]
    /\ Goes(r, step)
    /\ UNCHANGED <<storeVars, row, allowed, recordVars, requestVars, verdict,
                   puts, faults>>

FetchLive(r) == rpc[r] = "fetch" /\ FetchesTo(r, "reconcile")

\* reconcileAuthoritativeOrder: an older snapshot is a no-op, any other one
\* replaces the Order and clears its deletion.
Projected(r) ==
    IF rlive[r] < row.rev THEN row ELSE [rev |-> rlive[r], deleted |-> FALSE]

\* The live status must be the target or lead to it (INVALID_TARGET).
Reconcile(r) ==
    /\ rpc[r] = "reconcile"
    /\ row' = Projected(r)
    /\ LET live == StatusAt(rlive[r])
       IN  Goes(r, IF \/ live = rtarget[r]
                      \/ rtarget[r] \in CORE_STATUS_TRANSITIONS[live]
                   THEN "claim" ELSE "done")
    /\ UNCHANGED <<storeVars, allowed, recordVars, requestVars, rlive, verdict,
                   puts, faults>>

\* What ends an attempt before its claim: an inactive entitlement, a fetch or
\* a projection that fails.
Declines(r) ==
    /\ rpc[r] \in {"lookup", "fetch", "reconcile"}
    /\ Goes(r, "done")
    /\ UNCHANGED <<storeVars, row, allowed, recordVars, requestVars, rlive,
                   verdict, puts, faults>>

\* Mutant: the claim does not compare the target with an earlier claim's.
ClaimAlways(r) ==
    /\ rpc[r] = "claim"
    /\ claimed' = [claimed EXCEPT ![rref[r]] = rtarget[r]]
    /\ claimedAt' = [claimedAt EXCEPT ![rref[r]] = IF @ = 0 THEN Latest ELSE @]
    /\ Goes(r, "create")
    /\ UNCHANGED <<storeVars, row, allowed, writes, audits, requestVars, rlive,
                   verdict, puts, faults>>

\* One conditional update: the first target claimed stays.
Claim(r) ==
    /\ rpc[r] = "claim"
    /\ \/ /\ claimed[rref[r]] \in {"none", rtarget[r]}
          /\ claimed' = [claimed EXCEPT ![rref[r]] = rtarget[r]]
          /\ claimedAt' = [claimedAt EXCEPT
                              ![rref[r]] = IF @ = 0 THEN Latest ELSE @]
          /\ Goes(r, "create")
       \/ /\ claimed[rref[r]] \notin {"none", rtarget[r]}
          /\ Goes(r, "done")
          /\ UNCHANGED <<claimed, claimedAt>>
    /\ UNCHANGED <<storeVars, row, allowed, writes, audits, requestVars, rlive,
                   verdict, puts, faults>>

\* Where the owner of a write goes first: a live status that is the target
\* already needs no PUT.
Begins(r) ==
    IF StatusAt(rlive[r]) = rtarget[r]
    THEN Goes(r, "confirm") /\ verdict' = [verdict EXCEPT ![r] = "NO_OP"]
    ELSE Goes(r, "dispatch") /\ UNCHANGED verdict

\* Mutant: a request that finds a write without a result takes it over.
CreateWriteAdopts(r) ==
    /\ rpc[r] = "create"
    /\ \/ /\ writes[Mine(r)] \in {"absent", "open"}
          /\ writes' = [writes EXCEPT ![Mine(r)] = "open"]
          /\ Begins(r)
       \/ /\ writes[Mine(r)] \notin {"absent", "open"}
          /\ Goes(r, "done")
          /\ UNCHANGED <<writes, verdict>>
    /\ UNCHANGED <<storeVars, row, allowed, claimed, claimedAt, audits,
                   requestVars, rlive, puts, faults>>

\* The write is unique by reference and target: who comes second replays.
CreateWrite(r) ==
    /\ rpc[r] = "create"
    /\ \/ /\ writes[Mine(r)] = "absent"
          /\ writes' = [writes EXCEPT ![Mine(r)] = "open"]
          /\ Begins(r)
       \/ /\ writes[Mine(r)] # "absent"
          /\ Goes(r, "done")
          /\ UNCHANGED <<writes, verdict>>
    /\ UNCHANGED <<storeVars, row, allowed, claimed, claimedAt, audits,
                   requestVars, rlive, puts, faults>>

-----------------------------------------------------------------------------
(* The PUT and its outcome.                                                *)

Concludes(r, outcome) ==
    /\ verdict' = [verdict EXCEPT ![r] = outcome]
    /\ Goes(r, "record")

\* The entitlement is asked once more before the only PUT.
Dispatch(r) ==
    /\ rpc[r] = "dispatch"
    /\ \/ puts' = puts \cup {r} /\ Goes(r, "await") /\ UNCHANGED verdict
       \/ Concludes(r, "FAILED") /\ UNCHANGED puts
    /\ UNCHANGED <<storeVars, row, allowed, recordVars, requestVars, rlive,
                   faults>>

\* The store takes the status, or keeps the one it has; its answer may be lost.
StoreAnswers(r) ==
    /\ r \in puts /\ trash # "in"
    /\ puts' = puts \ {r}
    /\ Revised(rtarget[r], rref[r]) \/ UNCHANGED history
    /\ \/ /\ rpc[r] = "await"
          /\ rlive' = [rlive EXCEPT ![r] = Len(history')]
          /\ Goes(r, "reply")
       \/ UNCHANGED <<rlive, rpc>>
    /\ UNCHANGED <<trash, changes, row, allowed, recordVars, requestVars,
                   verdict, faults>>

\* A rejection, or a PUT that never arrives.
StoreRefuses(r) ==
    /\ r \in puts
    /\ puts' = puts \ {r}
    /\ IF rpc[r] = "await" THEN Goes(r, "refetch") ELSE UNCHANGED rpc
    /\ UNCHANGED <<storeVars, row, allowed, recordVars, requestVars, rlive,
                   verdict, faults>>

\* The total timeout, with the PUT still on its way or already applied.
TimesOut(r) ==
    /\ rpc[r] = "await"
    /\ Goes(r, "refetch")
    /\ UNCHANGED <<storeVars, row, allowed, recordVars, requestVars, rlive,
                   verdict, puts, faults>>

\* Mutant: the status in the answer is not compared with the target.
ReconcileReplyTrusting(r) ==
    /\ rpc[r] = "reply"
    /\ row' = Projected(r)
    /\ Goes(r, "confirm") /\ verdict' = [verdict EXCEPT ![r] = "OK"]
    /\ UNCHANGED <<storeVars, allowed, recordVars, requestVars, rlive, puts,
                   faults>>

\* The answer is projected and must show the target; a projection that throws
\* is treated like a lost answer.
ReconcileReply(r) ==
    /\ rpc[r] = "reply"
    /\ \/ /\ row' = Projected(r)
          /\ \/ /\ StatusAt(rlive[r]) = rtarget[r]
                /\ Goes(r, "confirm") /\ verdict' = [verdict EXCEPT ![r] = "OK"]
             \/ StatusAt(rlive[r]) # rtarget[r] /\ Concludes(r, "FAILED")
       \/ Goes(r, "refetch") /\ UNCHANGED <<row, verdict>>
    /\ UNCHANGED <<storeVars, allowed, recordVars, requestVars, rlive, puts,
                   faults>>

\* reconcileLostWrite.
FetchAgain(r) == rpc[r] = "refetch" /\ FetchesTo(r, "reconcileLost")

LostForGood(r) ==
    /\ rpc[r] \in {"refetch", "reconcileLost"}
    /\ \E outcome \in {"NOT_FOUND", "RETRYABLE", "FAILED"} : Concludes(r, outcome)
    /\ UNCHANGED <<storeVars, row, allowed, recordVars, requestVars, rlive,
                   puts, faults>>

ReconcileLost(r) ==
    /\ rpc[r] = "reconcileLost"
    /\ row' = Projected(r)
    /\ \/ /\ StatusAt(rlive[r]) = rtarget[r]
          /\ Goes(r, "confirm") /\ verdict' = [verdict EXCEPT ![r] = "OK"]
       \/ /\ StatusAt(rlive[r]) # rtarget[r]
          /\ \E outcome \in {"NOT_FOUND", "RETRYABLE", "FAILED"} :
                Concludes(r, outcome)
    /\ UNCHANGED <<storeVars, allowed, recordVars, requestVars, rlive, puts,
                   faults>>

\* completeStatusWrite reads the Order first: a deleted one fails the write.
Confirm(r) ==
    /\ rpc[r] = "confirm"
    /\ IF row.deleted THEN Concludes(r, "DELETED")
       ELSE Goes(r, "record") /\ UNCHANGED verdict
    /\ UNCHANGED <<storeVars, row, allowed, recordVars, requestVars, rlive,
                   puts, faults>>

\* The outcome, with its audit entry in one transaction if it is OK.
Record(r) ==
    /\ rpc[r] = "record"
    /\ writes' = [writes EXCEPT ![Mine(r)] = verdict[r]]
    /\ audits' = IF verdict[r] = "OK" THEN [audits EXCEPT ![rref[r]] = @ + 1]
                 ELSE audits
    /\ Goes(r, "done")
    /\ UNCHANGED <<storeVars, row, allowed, claimed, claimedAt, requestVars,
                   rlive, verdict, puts, faults>>

\* A process that dies, or a database call that throws, ends the request.
Dies(r) ==
    /\ faults < MaxFaults /\ rpc[r] \in Looking \cup Owning
    /\ faults' = faults + 1
    /\ Goes(r, "dead")
    /\ UNCHANGED <<storeVars, row, allowed, recordVars, requestVars, rlive,
                   verdict, puts>>

-----------------------------------------------------------------------------
RequestNext(r) ==
    \/ \E f \in References, t \in CORE_STATUSES : Open(r, f, t)
    \/ LookUp(r) \/ FetchLive(r) \/ Reconcile(r) \/ Declines(r) \/ Claim(r)
    \/ CreateWrite(r) \/ Dispatch(r) \/ StoreAnswers(r) \/ StoreRefuses(r)
    \/ TimesOut(r) \/ ReconcileReply(r) \/ FetchAgain(r) \/ LostForGood(r)
    \/ ReconcileLost(r) \/ Confirm(r) \/ Record(r) \/ Dies(r)

Next ==
    \/ \E r \in Requests : RequestNext(r)
    \/ \E f \in References : IssueReference(f)
    \/ MerchantChanges
    \/ WebhookProjected

Spec == Init /\ [][Next]_vars

-----------------------------------------------------------------------------
(* Properties.                                                             *)

\* A revision that a reference made, or a PUT under way that may become one.
MadeBy(i, f) == i \in 1..Latest /\ history[i].by = f
Pending(r, f) == r \in puts /\ rref[r] = f

\* "Each reference is single-effect" (D-021): whichever requests use it, a
\* reference changes the order once at most, and to the target it was claimed
\* for, counting a PUT that may still arrive.
SingleEffect ==
    \A f \in References :
        /\ \A i, j \in 1..Latest : MadeBy(i, f) /\ MadeBy(j, f) => i = j
        /\ \A r, q \in Requests : Pending(r, f) /\ Pending(q, f) => r = q
        /\ \A i \in 1..Latest, r \in Requests : ~(MadeBy(i, f) /\ Pending(r, f))
        /\ \A i \in 1..Latest : MadeBy(i, f) => StatusAt(i) = claimed[f]

\* A write recorded OK was seen: the order had the target after the reference
\* was claimed.  NO_OP was true as well, and neither made nor left behind a PUT.
VerdictsAreTrue ==
    \A f \in References, t \in CORE_STATUSES :
        /\ writes[<<f, t>>] = "OK" =>
              \E i \in claimedAt[f]..Latest : i > 0 /\ StatusAt(i) = t
        /\ writes[<<f, t>>] = "NO_OP" =>
              /\ \E i \in 1..Latest : StatusAt(i) = t
              /\ \A i \in 1..Latest : ~MadeBy(i, f)
              /\ \A r \in Requests : ~Pending(r, f)

\* The outcome of a write is recorded once and replayed for ever: no request
\* changes it, and no second audit entry is made for it.
RecordedOnce ==
    [][\A f \in References, t \in CORE_STATUSES :
          /\ writes[<<f, t>>] \in Outcome =>
                writes'[<<f, t>>] = writes[<<f, t>>]
          /\ audits[f] > 0 => audits'[f] = audits[f]]_vars
=============================================================================
