------------------------- MODULE OrderStatusWriteProofs -------------------------
(***************************************************************************)
(* Proofs about OrderStatusWrite, for any number of requests, references,  *)
(* revisions and faults:                                                   *)
(*   - type correctness;                                                   *)
(*   - SingleEffect, and with it VerdictsAreTrue and RecordedOnce.         *)
(* They follow from one inductive invariant, StatusInv: a reference with a *)
(* write has one owner at most, everything that changed or may change the  *)
(* order came from an owner, and an owner that has not sent its PUT yet    *)
(* finds nothing of its reference in the store.                            *)
(***************************************************************************)
EXTENDS OrderStatusWrite, TLAPS

-----------------------------------------------------------------------------
(* Type correctness.                                                       *)

LEMMA TransitionsType ==
    CORE_STATUS_TRANSITIONS \in [CORE_STATUSES -> SUBSET CORE_STATUSES]
  BY DEF CORE_STATUS_TRANSITIONS, CORE_STATUSES

\* A new revision leaves the older ones alone.
LEMMA RevisedType ==
    ASSUME TypeOK, NEW s \in CORE_STATUSES, NEW a \in References \cup {Merchant},
           Revised(s, a)
    PROVE  /\ history' \in Seq(Revision) /\ history' # << >>
           /\ Len(history') = Latest + 1
           /\ history'[Latest + 1] = [status |-> s, by |-> a]
           /\ \A i \in 1..Latest : history'[i] = history[i]
  BY DEF TypeOK, Revised, Revision, Latest

LEMMA LatestType ==
    ASSUME TypeOK
    PROVE  /\ Latest \in Nat \ {0}
           /\ \A i \in 1..Latest : /\ history[i] \in Revision
                                   /\ StatusAt(i) \in CORE_STATUSES
  <1>1. history \in Seq(Revision) /\ history # << >>
    BY DEF TypeOK
  <1>2. Latest \in Nat \ {0}
    BY <1>1 DEF Latest
  <1>3. \A i \in 1..Latest : history[i] \in Revision
    BY <1>1 DEF Latest
  <1> QED
    BY <1>2, <1>3 DEF StatusAt, Revision

LEMMA MineType ==
    ASSUME TypeOK, NEW r \in Requests, rpc[r] # "idle"
    PROVE  /\ rref[r] \in References /\ rtarget[r] \in CORE_STATUSES
           /\ Mine(r) \in Pairs
  BY DEF TypeOK, Mine, Pairs

LEMMA TypeInit == Init => TypeOK
  <1> SUFFICES ASSUME Init PROVE TypeOK
    OBVIOUS
  <1>1. PICK s \in StoreStatuses : history = <<[status |-> s, by |-> Merchant]>>
    BY DEF Init
  <1>2. s \in CORE_STATUSES
    BY StatusWriteAssumption
  <1>3. history \in Seq(Revision) /\ Len(history) = 1 /\ history # << >>
    BY <1>1, <1>2 DEF Revision
  <1>4. /\ row \in [rev : 1..Latest, deleted : BOOLEAN]
        /\ claimedAt \in [References -> 0..Latest]
        /\ rlive \in [Requests -> 0..Latest]
    BY <1>3 DEF Init, Latest
  <1>5. /\ changes \in 0..MaxChanges /\ faults \in 0..MaxFaults
        /\ verdict \in [Requests -> Outcome]
    BY StatusWriteAssumption DEF Init, Outcome, Failure
  <1>6. \A r \in Requests : rpc[r] = "idle"
    BY DEF Init
  <1> QED
    BY <1>3, <1>4, <1>5, <1>6 DEF Init, TypeOK

\* The next step of a request.
LEMMA GoesType ==
    ASSUME TypeOK, NEW r \in Requests,
           NEW s \in {"done", "dead"} \cup Looking \cup Owning, Goes(r, s)
    PROVE  /\ rpc' \in [Requests -> {"idle", "done", "dead"} \cup Looking \cup Owning]
           /\ rpc'[r] = s
           /\ \A q \in Requests : q # r => rpc'[q] = rpc[q]
  BY DEF TypeOK, Goes

\* What a projection leaves is an Order.
LEMMA ProjectedType ==
    ASSUME TypeOK, NEW r \in Requests, rlive[r] # 0
    PROVE  Projected(r) \in [rev : 1..Latest, deleted : BOOLEAN]
  <1>1. rlive[r] \in 1..Latest
    BY LatestType DEF TypeOK
  <1> QED
    BY <1>1 DEF Projected, TypeOK

Snapshots == {"reconcile", "claim", "create", "reply", "reconcileLost"}

\* A step of a request that keeps the store's history, the references and what
\* the request asks for keeps the types, if the parts it changes keep theirs.
LEMMA RequestStepType ==
    ASSUME TypeOK, NEW r \in Requests, rpc[r] # "idle",
           NEW s \in {"done", "dead"} \cup Looking \cup Owning, Goes(r, s),
           UNCHANGED <<storeVars, allowed, requestVars>>,
           row' \in [rev : 1..Latest, deleted : BOOLEAN],
           claimed' \in [References -> CORE_STATUSES \cup {"none"}],
           claimedAt' \in [References -> 0..Latest],
           writes' \in [Pairs -> {"absent", "open"} \cup Outcome],
           audits' \in [References -> Nat],
           rlive' \in [Requests -> 0..Latest],
           \A q \in Requests : rlive'[q] = rlive[q] \/ rlive'[q] # 0,
           s \in Snapshots => rlive'[r] # 0,
           verdict' \in [Requests -> Outcome],
           puts' \in SUBSET (puts \cup {r}),
           faults' \in 0..MaxFaults
    PROVE  TypeOK'
  <1>1. /\ rpc' \in [Requests -> {"idle", "done", "dead"} \cup Looking \cup Owning]
        /\ rpc'[r] = s
        /\ \A q \in Requests : q # r => rpc'[q] = rpc[q]
    BY GoesType
  <1>2. Latest' = Latest
    BY DEF Latest, storeVars
  <1>3. \A q \in Requests : rpc'[q] \in Snapshots => rlive'[q] # 0
    BY <1>1 DEF TypeOK, Snapshots
  <1>4. \A q \in Requests :
           rpc'[q] # "idle" => /\ rref'[q] \in References
                               /\ rtarget'[q] \in allowed'[rref'[q]]
    BY <1>1 DEF TypeOK, requestVars
  <1>5. \A q \in puts' : rpc'[q] # "idle"
    BY <1>1 DEF TypeOK, Looking, Owning
  <1> QED
    BY <1>1, <1>2, <1>3, <1>4, <1>5 DEF TypeOK, storeVars, requestVars, Snapshots

LEMMA TypeNext == TypeOK /\ [Next]_vars => TypeOK'
  <1> SUFFICES ASSUME TypeOK, [Next]_vars
               PROVE  TypeOK'
    OBVIOUS
  <1> USE DEF TypeOK, storeVars, recordVars, requestVars
  <1>0. /\ Latest \in Nat \ {0}
        /\ \A i \in 1..Latest : StatusAt(i) \in CORE_STATUSES
        /\ history' = history => Latest' = Latest
    BY LatestType DEF Latest
  <1>1. ASSUME NEW r \in Requests, RequestNext(r)
        PROVE  TypeOK'
    <2> USE DEF Looking, Owning
    <2>1. ASSUME NEW f \in References, NEW t \in CORE_STATUSES, Open(r, f, t)
          PROVE  TypeOK'
      <3>1. /\ rref' \in [Requests -> References \cup {NoReference}]
            /\ rtarget' \in [Requests -> CORE_STATUSES \cup {"none"}]
            /\ rpc' \in [Requests -> {"idle", "done", "dead"} \cup Looking \cup Owning]
        BY <2>1 DEF Open, Goes
      <3>2. \A q \in Requests :
               rpc'[q] # "idle" => /\ rref'[q] \in References
                                   /\ rtarget'[q] \in allowed[rref'[q]]
        BY <2>1 DEF Open, Goes
      <3>3. \A q \in Requests : rpc'[q] = rpc[q] \/ rpc'[q] = "lookup"
        BY <2>1 DEF Open, Goes
      <3> QED
        BY <2>1, <1>0, <3>1, <3>2, <3>3 DEF Open
    <2>a. rpc[r] # "idle" => Mine(r) \in Pairs /\ rref[r] \in References
      BY MineType
    <2>b. Latest \in 0..Latest
      BY <1>0
    <2> USE DEF Snapshots
    <2>2. CASE LookUp(r) \/ Declines(r)
      BY <2>2, RequestStepType DEF LookUp, Declines
    <2>3. CASE FetchLive(r) \/ FetchAgain(r)
      <3>1. rlive' = [rlive EXCEPT ![r] = Latest] /\ Latest # 0
        BY <2>3, <1>0 DEF FetchLive, FetchAgain, FetchesTo
      <3>2. /\ rlive' \in [Requests -> 0..Latest]
            /\ \A q \in Requests : rlive'[q] = rlive[q] \/ rlive'[q] # 0
            /\ rlive'[r] # 0
        BY <3>1, <2>b
      <3> QED
        BY <2>3, <3>2, RequestStepType DEF FetchLive, FetchAgain, FetchesTo
    <2>4. CASE Reconcile(r)
      BY <2>4, ProjectedType, RequestStepType DEF Reconcile
    <2>5. CASE Claim(r)
      <3>1. claimed' \in [References -> CORE_STATUSES \cup {"none"}]
        BY <2>5, MineType DEF Claim
      <3>2. claimedAt' \in [References -> 0..Latest]
        <4>1. \A f \in References : claimedAt'[f] \in {claimedAt[f], Latest}
          BY <2>5 DEF Claim
        <4>2. DOMAIN claimedAt' = References /\ claimedAt' = [f \in References |-> claimedAt'[f]]
          BY <2>5 DEF Claim
        <4> QED
          BY <4>1, <4>2, <2>b
      <3> QED
        BY <2>5, <3>1, <3>2, RequestStepType DEF Claim
    <2>6. CASE CreateWrite(r)
      <3>1. /\ writes' \in [Pairs -> {"absent", "open"} \cup Outcome]
            /\ verdict' \in [Requests -> Outcome]
        BY <2>6, <2>a DEF CreateWrite, Begins, Outcome
      <3> QED
        BY <2>6, <3>1, RequestStepType DEF CreateWrite, Begins
    <2>7. CASE Dispatch(r)
      <3>1. verdict' \in [Requests -> Outcome]
        BY <2>7 DEF Dispatch, Concludes, Outcome, Failure
      <3> QED
        BY <2>7, <3>1, RequestStepType DEF Dispatch, Concludes
    <2>8. CASE StoreAnswers(r)
      <3>1. rref[r] \in References /\ rtarget[r] \in CORE_STATUSES
        BY <2>8 DEF StoreAnswers
      <3>2. /\ history' \in Seq(Revision) /\ history' # << >>
            /\ Latest' \in {Latest, Latest + 1}
        <4>1. CASE Revised(rtarget[r], rref[r])
          BY <3>1, <4>1, RevisedType DEF Latest
        <4>2. CASE UNCHANGED history
          BY <1>0, <4>2
        <4> QED
          BY <2>8, <4>1, <4>2 DEF StoreAnswers
      <3>3. /\ rlive' \in [Requests -> 0..Latest']
            /\ rpc' \in [Requests -> {"idle", "done", "dead"} \cup Looking \cup Owning]
            /\ \A q \in Requests :
                  \/ rlive'[q] = rlive[q] /\ rpc'[q] = rpc[q]
                  \/ rlive'[q] # 0 /\ rpc[q] = "await" /\ rpc'[q] = "reply"
        <4>1. CASE rpc[r] = "await" /\ rlive' = [rlive EXCEPT ![r] = Len(history')]
                   /\ Goes(r, "reply")
          BY <4>1, <3>2, <1>0 DEF Goes, Latest
        <4>2. CASE UNCHANGED <<rlive, rpc>>
          BY <4>2, <3>2, <1>0
        <4> QED
          BY <2>8, <4>1, <4>2 DEF StoreAnswers
      <3> QED
        <4>1. /\ row' \in [rev : 1..Latest', deleted : BOOLEAN]
              /\ claimedAt' \in [References -> 0..Latest']
          BY <2>8, <1>0, <3>2 DEF StoreAnswers
        <4>2. /\ \A q \in Requests :
                    rpc'[q] # "idle" => /\ rref'[q] \in References
                                        /\ rtarget'[q] \in allowed'[rref'[q]]
              /\ \A q \in puts' : rpc'[q] # "idle"
              /\ puts' \in SUBSET Requests
          BY <2>8, <3>3 DEF StoreAnswers
        <4>3. \A q \in Requests : rpc'[q] \in Snapshots => rlive'[q] # 0
          BY <3>3
        <4> QED
          BY <2>8, <3>2, <3>3, <4>1, <4>2, <4>3 DEF StoreAnswers
    <2>9. CASE StoreRefuses(r) \/ TimesOut(r)
      <3>1. CASE rpc[r] = "await"
        BY <2>9, <3>1, RequestStepType DEF StoreRefuses, TimesOut
      <3>2. CASE rpc[r] # "await"
        BY <2>9, <3>2, <1>0 DEF StoreRefuses, TimesOut
      <3> QED
        BY <3>1, <3>2
    <2>10. CASE ReconcileReply(r)
      <3>1. verdict' \in [Requests -> Outcome]
        BY <2>10 DEF ReconcileReply, Concludes, Outcome, Failure
      <3>2. row' \in [rev : 1..Latest, deleted : BOOLEAN]
        BY <2>10, ProjectedType DEF ReconcileReply
      <3> QED
        BY <2>10, <3>1, <3>2, RequestStepType DEF ReconcileReply, Concludes
    <2>11. CASE LostForGood(r)
      <3>1. verdict' \in [Requests -> Outcome]
        BY <2>11 DEF LostForGood, Concludes, Outcome, Failure
      <3> QED
        BY <2>11, <3>1, RequestStepType DEF LostForGood, Concludes
    <2>12. CASE ReconcileLost(r)
      <3>1. verdict' \in [Requests -> Outcome]
        BY <2>12 DEF ReconcileLost, Concludes, Outcome, Failure
      <3>2. row' \in [rev : 1..Latest, deleted : BOOLEAN]
        BY <2>12, ProjectedType DEF ReconcileLost
      <3> QED
        BY <2>12, <3>1, <3>2, RequestStepType DEF ReconcileLost, Concludes
    <2>13. CASE Confirm(r)
      <3>1. verdict' \in [Requests -> Outcome]
        BY <2>13 DEF Confirm, Concludes, Outcome, Failure
      <3> QED
        BY <2>13, <3>1, RequestStepType DEF Confirm, Concludes
    <2>14. CASE Record(r)
      <3>1. /\ writes' \in [Pairs -> {"absent", "open"} \cup Outcome]
            /\ audits' \in [References -> Nat]
        BY <2>14, <2>a DEF Record
      <3> QED
        BY <2>14, <3>1, RequestStepType DEF Record
    <2>15. CASE Dies(r)
      <3>1. faults' \in 0..MaxFaults
        BY <2>15, StatusWriteAssumption DEF Dies
      <3> QED
        BY <2>15, <3>1, RequestStepType DEF Dies
    <2> QED
      BY <1>1, <2>1, <2>2, <2>3, <2>4, <2>5, <2>6, <2>7, <2>8, <2>9, <2>10,
         <2>11, <2>12, <2>13, <2>14, <2>15 DEF RequestNext
  <1>2. ASSUME NEW f \in References, IssueReference(f)
        PROVE  TypeOK'
    BY <1>0, <1>2, TransitionsType DEF IssueReference, StatusAt
  <1>3. CASE MerchantChanges
    <2>1. changes' \in 0..MaxChanges /\ trash' \in {"never", "in", "out"}
      BY <1>3, StatusWriteAssumption DEF MerchantChanges
    <2>2. CASE UNCHANGED history
      BY <1>0, <1>3, <2>1, <2>2 DEF MerchantChanges
    <2>3. ASSUME NEW s \in StoreStatuses, Revised(s, Merchant)
          PROVE  TypeOK'
      <3>1. /\ history' \in Seq(Revision) /\ history' # << >>
            /\ Latest' = Latest + 1
        BY <2>3, RevisedType, StatusWriteAssumption DEF Latest
      <3>2. /\ row' \in [rev : 1..Latest', deleted : BOOLEAN]
            /\ claimedAt' \in [References -> 0..Latest']
            /\ rlive' \in [Requests -> 0..Latest']
        BY <1>0, <1>3, <3>1 DEF MerchantChanges
      <3> QED
        BY <1>3, <2>1, <3>1, <3>2 DEF MerchantChanges
    <2> QED
      BY <1>3, <2>2, <2>3 DEF MerchantChanges
  <1>4. CASE WebhookProjected
    <2>1. PICK k \in row.rev..Latest, d \in BOOLEAN :
             row' = [rev |-> k, deleted |-> d]
      BY <1>4, Zenon DEF WebhookProjected
    <2>2. k \in 1..Latest
      BY <1>0
    <2>3. row' \in [rev : 1..Latest, deleted : BOOLEAN]
      BY <2>1, <2>2
    <2> QED
      BY <1>0, <1>4, <2>3 DEF WebhookProjected
  <1>5. CASE UNCHANGED vars
    BY <1>0, <1>5 DEF vars
  <1> QED
    BY <1>1, <1>2, <1>3, <1>4, <1>5 DEF Next

\* Every variable of the status writes keeps its type.
THEOREM TypeCorrect == Spec => []TypeOK
  BY TypeInit, TypeNext, PTL DEF Spec

-----------------------------------------------------------------------------
(* The inductive invariant.                                                *)

\* Nothing of the reference is in the store or on its way there.
Untouched(f) ==
    /\ \A i \in 1..Latest : ~MadeBy(i, f)
    /\ \A q \in Requests : ~Pending(q, f)

SeenSinceClaim(f, t) ==
    \E i \in claimedAt[f]..Latest : i > 0 /\ StatusAt(i) = t
SeenEver(t) == \E i \in 1..Latest : StatusAt(i) = t

\* Who is past the claim works for the reference's target.
ClaimInv ==
    /\ \A r \in Requests :
          rpc[r] \in {"create"} \cup Owning => claimed[rref[r]] = rtarget[r]
    /\ \A f \in References : claimed[f] = "none" <=> claimedAt[f] = 0
    /\ \A r \in Requests :
          rpc[r] \in {"reply", "reconcileLost"} => claimedAt[rref[r]] <= rlive[r]

\* A write without a result has one owner at most, and writes are those of the
\* claimed target.
OwnerInv ==
    /\ \A r \in Requests : rpc[r] \in Owning => writes[Mine(r)] = "open"
    /\ \A r, q \in Requests :
          rpc[r] \in Owning /\ rpc[q] \in Owning /\ rref[r] = rref[q] => r = q
    /\ \A f \in References, t \in CORE_STATUSES :
          writes[<<f, t>>] # "absent" => claimed[f] = t

\* What reached the store, or may, came from the owner of a write.
SentInv ==
    /\ \A r \in puts : /\ rpc[r] \notin {"idle", "dispatch"} \cup Looking
                        /\ claimed[rref[r]] = rtarget[r]
                        /\ writes[Mine(r)] # "absent"
    /\ \A f \in References : \A i \in 1..Latest :
          MadeBy(i, f) => writes[<<f, claimed[f]>>] # "absent"
    /\ \A r \in Requests : rpc[r] = "dispatch" => Untouched(rref[r])

\* The verdict an owner is about to record is true.
VerdictInv ==
    /\ \A r \in Requests :
          rpc[r] \in {"confirm", "record"} =>
             /\ verdict[r] = "OK" => SeenSinceClaim(rref[r], rtarget[r])
             /\ verdict[r] = "NO_OP" =>
                   SeenEver(rtarget[r]) /\ Untouched(rref[r])
    /\ \A f \in References :
          audits[f] > 0 => \E t \in CORE_STATUSES : writes[<<f, t>>] \in Outcome

StatusInv ==
    /\ ClaimInv /\ OwnerInv /\ SentInv /\ VerdictInv
    /\ SingleEffect /\ VerdictsAreTrue

LEMMA InvInit == Init => StatusInv
  <1> SUFFICES ASSUME Init PROVE StatusInv
    OBVIOUS
  <1>1. Latest = 1 /\ history[1].by = Merchant
    BY DEF Init, Latest
  <1>2. \A i \in 1..Latest : \A f \in References : ~MadeBy(i, f)
    BY <1>1, StatusWriteAssumption DEF MadeBy
  <1>3. \A f \in References, t \in CORE_STATUSES : writes[<<f, t>>] = "absent"
    BY DEF Init, Pairs
  <1>4. \A r \in Requests : rpc[r] = "idle"
    BY DEF Init
  <1>5. ClaimInv /\ OwnerInv
    BY <1>3, <1>4 DEF Init, ClaimInv, OwnerInv, Owning
  <1>6. SentInv /\ SingleEffect
    BY <1>2, <1>4 DEF Init, SentInv, SingleEffect, Pending
  <1>7. VerdictInv /\ VerdictsAreTrue
    BY <1>3, <1>4 DEF Init, VerdictInv, VerdictsAreTrue
  <1> QED
    BY <1>5, <1>6, <1>7 DEF StatusInv

\* VerdictsAreTrue in the terms of the invariant.
TrueVerdicts ==
    \A f \in References, t \in CORE_STATUSES :
        /\ writes[<<f, t>>] = "OK" => SeenSinceClaim(f, t)
        /\ writes[<<f, t>>] = "NO_OP" => SeenEver(t) /\ Untouched(f)

LEMMA VerdictsMean ==
    /\ VerdictsAreTrue <=> TrueVerdicts
    /\ VerdictsAreTrue' <=> TrueVerdicts'
  BY DEF VerdictsAreTrue, TrueVerdicts, SeenSinceClaim, SeenEver, Untouched

\* When the store's history stays, so does all that is said about it.
LEMMA SameHistory ==
    ASSUME UNCHANGED history
    PROVE  /\ Latest' = Latest
           /\ \A i : StatusAt(i)' = StatusAt(i)
           /\ \A i, f : MadeBy(i, f)' <=> MadeBy(i, f)
           /\ \A t : SeenEver(t)' <=> SeenEver(t)
  BY DEF Latest, StatusAt, MadeBy, SeenEver

\* A step of one request that keeps the store and the records, sends nothing
\* and gains nothing: no write, no claim, no place in front of a PUT.
LEMMA QuietStep ==
    ASSUME TypeOK, StatusInv, NEW r \in Requests, rpc[r] # "idle",
           NEW s \in {"done", "dead"} \cup Looking \cup Owning, Goes(r, s),
           UNCHANGED <<history, recordVars, requestVars>>,
           puts' \in SUBSET puts,
           s \notin {"create", "dispatch"},
           s \in Owning => rpc[r] \in Owning,
           s \in Looking => rpc[r] \in Looking,
           \A q \in Requests \ {r} :
              rlive'[q] = rlive[q] /\ verdict'[q] = verdict[q],
           s \in {"reply", "reconcileLost"} => claimedAt[rref[r]] <= rlive'[r],
           s \in {"confirm", "record"} =>
              /\ verdict'[r] = "OK" => SeenSinceClaim(rref[r], rtarget[r])
              /\ verdict'[r] = "NO_OP" =>
                    SeenEver(rtarget[r]) /\ Untouched(rref[r])
    PROVE  StatusInv'
  <1>1. /\ rpc'[r] = s
        /\ \A q \in Requests : q # r => rpc'[q] = rpc[q]
    BY GoesType
  <1>2. /\ claimed' = claimed /\ claimedAt' = claimedAt /\ writes' = writes
        /\ audits' = audits /\ rref' = rref /\ rtarget' = rtarget
        /\ \A q : Mine(q)' = Mine(q)
    BY DEF recordVars, requestVars, Mine
  <1>3. \A f : /\ \A q : Pending(q, f)' => Pending(q, f)
               /\ Untouched(f) => Untouched(f)'
               /\ \A t : SeenSinceClaim(f, t)' <=> SeenSinceClaim(f, t)
    BY <1>2, SameHistory DEF Pending, Untouched, SeenSinceClaim
  <1>4. ClaimInv'
    BY <1>1, <1>2 DEF StatusInv, ClaimInv, Owning
  <1>5. OwnerInv'
    BY <1>1, <1>2 DEF StatusInv, OwnerInv
  <1>6. SentInv'
    <2>1. ASSUME NEW q \in puts'
          PROVE  rpc'[q] \notin {"idle", "dispatch"} \cup Looking
      <3>1. q \in Requests /\ rpc[q] \notin {"idle", "dispatch"} \cup Looking
        BY DEF TypeOK, StatusInv, SentInv
      <3>2. s # "idle"
        BY DEF Looking, Owning
      <3> QED
        BY <1>1, <3>1, <3>2
    <2>2. \A q \in Requests : rpc'[q] = "dispatch" => rpc[q] = "dispatch"
      BY <1>1
    <2>3. \A q \in puts' : /\ claimed[rref[q]] = rtarget[q]
                            /\ writes[Mine(q)] # "absent"
      BY DEF StatusInv, SentInv
    <2>4. \A f \in References : \A i \in 1..Latest' :
             MadeBy(i, f)' => writes[<<f, claimed[f]>>] # "absent"
      BY SameHistory DEF StatusInv, SentInv
    <2>5. ASSUME NEW q \in Requests, rpc'[q] = "dispatch"
          PROVE  Untouched(rref[q])'
      <3>1. PICK f : f = rref[q]
        OBVIOUS
      <3>2. Untouched(f)'
        BY <1>3, <2>2, <2>5, <3>1 DEF StatusInv, SentInv
      <3> QED
        BY <1>2, <3>1, <3>2
    <2> QED
      BY <1>2, <2>1, <2>3, <2>4, <2>5 DEF SentInv
  <1>7. VerdictInv'
    <2>1. ASSUME NEW q \in Requests, rpc'[q] \in {"confirm", "record"}
          PROVE  /\ verdict'[q] = "OK" => SeenSinceClaim(rref[q], rtarget[q])
                 /\ verdict'[q] = "NO_OP" =>
                       SeenEver(rtarget[q]) /\ Untouched(rref[q])
      BY <1>1, <2>1 DEF StatusInv, VerdictInv
    <2> QED
      BY <1>2, <1>3, <2>1, SameHistory DEF StatusInv, VerdictInv
  <1>8. SingleEffect'
    BY <1>2, <1>3, SameHistory DEF StatusInv, SingleEffect
  <1>9. VerdictsAreTrue'
    <2>1. TrueVerdicts'
      BY <1>2, <1>3, SameHistory, VerdictsMean DEF StatusInv, TrueVerdicts
    <2> QED
      BY <2>1, VerdictsMean
  <1> QED
    BY <1>4, <1>5, <1>6, <1>7, <1>8, <1>9 DEF StatusInv

\* A snapshot is no older than the claim it was fetched after.
LEMMA SnapshotShows ==
    ASSUME TypeOK, StatusInv, NEW r \in Requests,
           rpc[r] \in {"reply", "reconcileLost"}, StatusAt(rlive[r]) = rtarget[r]
    PROVE  SeenSinceClaim(rref[r], rtarget[r])
  <1>1. rlive[r] \in 1..Latest /\ rref[r] \in References
    BY LatestType DEF TypeOK
  <1>2. claimedAt[rref[r]] <= rlive[r] /\ claimedAt[rref[r]] \in 0..Latest
    BY <1>1 DEF StatusInv, ClaimInv, TypeOK
  <1>3. rlive[r] \in claimedAt[rref[r]]..Latest /\ rlive[r] > 0
    BY <1>1, <1>2, LatestType
  <1> QED
    BY <1>3 DEF SeenSinceClaim

LEMMA QuietActions ==
    ASSUME TypeOK, StatusInv, NEW r \in Requests,
           \/ LookUp(r) \/ Declines(r) \/ FetchLive(r) \/ FetchAgain(r)
           \/ Reconcile(r) \/ TimesOut(r) \/ ReconcileReply(r)
           \/ LostForGood(r) \/ ReconcileLost(r) \/ Confirm(r) \/ Dies(r)
    PROVE  StatusInv'
  <1> USE DEF storeVars, Looking, Owning
  <1>1. CASE LookUp(r) \/ Declines(r)
    BY <1>1, QuietStep DEF LookUp, Declines
  <1>2. CASE FetchLive(r) \/ FetchAgain(r)
    <2>1. rpc[r] # "idle" => claimedAt[rref[r]] <= Latest
      BY LatestType DEF TypeOK
    <2> QED
      BY <1>2, <2>1, QuietStep DEF FetchLive, FetchAgain, FetchesTo, TypeOK
  <1>3. CASE Reconcile(r)
    BY <1>3, QuietStep DEF Reconcile
  <1>4. CASE TimesOut(r) \/ Dies(r)
    BY <1>4, QuietStep DEF TimesOut, Dies
  <1>5. CASE ReconcileReply(r)
    BY <1>5, QuietStep, SnapshotShows DEF ReconcileReply, Concludes, TypeOK
  <1>6. CASE LostForGood(r)
    BY <1>6, QuietStep DEF LostForGood, Concludes, TypeOK
  <1>7. CASE ReconcileLost(r)
    BY <1>7, QuietStep, SnapshotShows DEF ReconcileLost, Concludes, TypeOK
  <1>8. CASE Confirm(r)
    <2>1. /\ verdict[r] = "OK" => SeenSinceClaim(rref[r], rtarget[r])
          /\ verdict[r] = "NO_OP" => SeenEver(rtarget[r]) /\ Untouched(rref[r])
      BY <1>8 DEF Confirm, StatusInv, VerdictInv
    <2> QED
      BY <1>8, <2>1, QuietStep DEF Confirm, Concludes, TypeOK
  <1> QED
    BY <1>1, <1>2, <1>3, <1>4, <1>5, <1>6, <1>7, <1>8

\* A PUT that leaves without a trace.
LEMMA PutGone ==
    ASSUME TypeOK, StatusInv, NEW r \in puts, puts' = puts \ {r},
           UNCHANGED <<history, recordVars, rpc, requestVars, rlive, verdict>>
    PROVE  StatusInv'
  <1>1. rpc[r] \notin {"idle", "dispatch"} \cup Looking /\ r \in Requests
    BY DEF TypeOK, StatusInv, SentInv
  <1>2. PICK s \in {"done", "dead"} \cup Looking \cup Owning : s = rpc[r]
    BY <1>1 DEF TypeOK
  <1>3. Goes(r, s)
    BY <1>1, <1>2 DEF Goes, TypeOK
  <1>4. s \notin {"idle", "create", "dispatch"} /\ s \notin Looking
    BY <1>1, <1>2 DEF Looking
  <1>5. s \in {"reply", "reconcileLost"} => claimedAt[rref[r]] <= rlive[r]
    BY <1>1, <1>2 DEF StatusInv, ClaimInv
  <1>6. s \in {"confirm", "record"} =>
           /\ verdict[r] = "OK" => SeenSinceClaim(rref[r], rtarget[r])
           /\ verdict[r] = "NO_OP" => SeenEver(rtarget[r]) /\ Untouched(rref[r])
    BY <1>1, <1>2 DEF StatusInv, VerdictInv
  <1> QED
    BY <1>1, <1>2, <1>3, <1>4, <1>5, <1>6, QuietStep

LEMMA RefusalKeepsInv ==
    ASSUME TypeOK, StatusInv, NEW r \in Requests, StoreRefuses(r)
    PROVE  StatusInv'
  <1>1. CASE rpc[r] = "await"
    BY <1>1, QuietStep DEF StoreRefuses, Looking, Owning, storeVars
  <1>2. CASE rpc[r] # "await"
    BY <1>2, PutGone DEF StoreRefuses, storeVars
  <1> QED
    BY <1>1, <1>2

\* What the invariant does not mention may change freely.
LEMMA InvFrame ==
    ASSUME StatusInv,
           UNCHANGED <<history, recordVars, rpc, requestVars, rlive, verdict, puts>>
    PROVE  StatusInv'
  <1> USE SameHistory DEF recordVars, requestVars
  <1>1. ClaimInv'
    BY DEF StatusInv, ClaimInv
  <1>2. OwnerInv'
    BY DEF StatusInv, OwnerInv, Mine
  <1>3. \A f : /\ \A q : Pending(q, f)' <=> Pending(q, f)
               /\ Untouched(f)' <=> Untouched(f)
               /\ \A t : SeenSinceClaim(f, t)' <=> SeenSinceClaim(f, t)
    BY DEF Pending, Untouched, SeenSinceClaim
  <1>4. SentInv'
    BY <1>3 DEF StatusInv, SentInv, Mine
  <1>5. VerdictInv'
    BY <1>3 DEF StatusInv, VerdictInv
  <1>6. SingleEffect'
    BY <1>3 DEF StatusInv, SingleEffect
  <1>7. TrueVerdicts'
    BY <1>3, VerdictsMean DEF StatusInv, TrueVerdicts
  <1> QED
    BY <1>1, <1>2, <1>4, <1>5, <1>6, <1>7, VerdictsMean DEF StatusInv

\* A request that opens has sent nothing and owns nothing.
LEMMA OpenKeepsInv ==
    ASSUME TypeOK, StatusInv, NEW r \in Requests, NEW g \in References,
           NEW u \in CORE_STATUSES, Open(r, g, u)
    PROVE  StatusInv'
  <1>1. /\ rpc[r] = "idle" /\ r \notin puts /\ rpc'[r] = "lookup"
        /\ \A q \in Requests : q # r => /\ rpc'[q] = rpc[q]
                                       /\ rref'[q] = rref[q]
                                       /\ rtarget'[q] = rtarget[q]
                                       /\ Mine(q)' = Mine(q)
    BY DEF Open, Goes, TypeOK, Mine
  <1>2. /\ claimed' = claimed /\ claimedAt' = claimedAt /\ writes' = writes
        /\ audits' = audits /\ rlive' = rlive /\ verdict' = verdict
        /\ puts' = puts /\ history' = history
    BY DEF Open, recordVars, storeVars
  <1>3. \A f : /\ \A q \in Requests : Pending(q, f)' <=> Pending(q, f)
               /\ Untouched(f)' <=> Untouched(f)
               /\ \A t : SeenSinceClaim(f, t)' <=> SeenSinceClaim(f, t)
    BY <1>1, <1>2, SameHistory DEF Pending, Untouched, SeenSinceClaim
  <1>4. "lookup" \notin Owning /\ "lookup" \in Looking
    BY DEF Owning, Looking
  <1>5. ClaimInv'
    BY <1>1, <1>2, <1>4 DEF StatusInv, ClaimInv
  <1>6. OwnerInv'
    BY <1>1, <1>2, <1>4 DEF StatusInv, OwnerInv
  <1>7. SentInv'
    <2>1. \A q \in puts : q \in Requests /\ q # r
      BY <1>1 DEF TypeOK
    <2>2. ASSUME NEW q \in Requests, rpc'[q] = "dispatch"
          PROVE  Untouched(rref[q])'
      <3>1. PICK f : f = rref[q]
        OBVIOUS
      <3>2. Untouched(f)' /\ rref'[q] = f
        BY <1>1, <1>3, <2>2, <3>1 DEF StatusInv, SentInv
      <3> QED
        BY <3>2
    <2> QED
      BY <1>1, <1>2, <2>1, <2>2, SameHistory DEF StatusInv, SentInv
  <1>8. VerdictInv'
    <2>1. ASSUME NEW q \in Requests, rpc'[q] \in {"confirm", "record"}
          PROVE  /\ q # r
                 /\ verdict[q] = "OK" => SeenSinceClaim(rref[q], rtarget[q])
                 /\ verdict[q] = "NO_OP" =>
                       SeenEver(rtarget[q]) /\ Untouched(rref[q])
      BY <1>1, <2>1 DEF StatusInv, VerdictInv
    <2> QED
      BY <1>1, <1>2, <1>3, <2>1, SameHistory DEF StatusInv, VerdictInv
  <1>9. SingleEffect'
    BY <1>2, <1>3, SameHistory DEF StatusInv, SingleEffect
  <1>10. TrueVerdicts'
    BY <1>2, <1>3, SameHistory, VerdictsMean DEF StatusInv, TrueVerdicts
  <1> QED
    BY <1>5, <1>6, <1>7, <1>8, <1>9, <1>10, VerdictsMean DEF StatusInv

\* A reference nobody claimed has no write, no owner and no PUT.
LEMMA UnclaimedIsUnused ==
    ASSUME TypeOK, StatusInv, NEW g \in References, claimed[g] = "none"
    PROVE  /\ \A t \in CORE_STATUSES : writes[<<g, t>>] = "absent"
           /\ \A q \in Requests :
                 rref[q] = g => rpc[q] \notin {"create"} \cup Owning /\ q \notin puts
           /\ Untouched(g) /\ audits[g] = 0
  <1>1. "none" \notin CORE_STATUSES
    BY DEF CORE_STATUSES
  <1>2. \A t \in CORE_STATUSES : writes[<<g, t>>] = "absent"
    BY <1>1 DEF StatusInv, OwnerInv
  <1>3. \A q \in Requests :
           rref[q] = g => rpc[q] \notin {"create"} \cup Owning /\ q \notin puts
    <2>1. ASSUME NEW q \in Requests, rref[q] = g,
                 rpc[q] \in {"create"} \cup Owning \/ q \in puts
          PROVE  FALSE
      <3>1. rpc[q] # "idle"
        BY <2>1 DEF TypeOK, Owning
      <3>2. rtarget[q] \in CORE_STATUSES
        BY <3>1, MineType
      <3>3. claimed[g] = rtarget[q]
        BY <2>1 DEF StatusInv, ClaimInv, SentInv
      <3> QED
        BY <1>1, <3>2, <3>3
    <2> QED
      BY <2>1
  <1>4. \A i \in 1..Latest : ~MadeBy(i, g)
    BY <1>1, LatestType DEF StatusInv, SingleEffect
  <1>5. audits[g] = 0
    <2>1. CASE audits[g] > 0
      <3>1. PICK t \in CORE_STATUSES : writes[<<g, t>>] \in Outcome
        BY <2>1 DEF StatusInv, VerdictInv
      <3> QED
        BY <1>2, <3>1 DEF Outcome, Failure
    <2> QED
      BY <2>1 DEF TypeOK
  <1> QED
    BY <1>2, <1>3, <1>4, <1>5 DEF Untouched, Pending

LEMMA ClaimKeepsInv ==
    ASSUME TypeOK, TypeOK', StatusInv, NEW r \in Requests, Claim(r)
    PROVE  StatusInv'
  <1>1. CASE claimed[rref[r]] \notin {"none", rtarget[r]}
    BY <1>1, QuietStep DEF Claim, storeVars, recordVars, Looking, Owning
  <1>2. CASE claimed[rref[r]] \in {"none", rtarget[r]}
    <2> DEFINE g == rref[r]
    <2>1. /\ g \in References /\ rtarget[r] \in CORE_STATUSES
          /\ "none" \notin CORE_STATUSES
      BY MineType DEF Claim, CORE_STATUSES
    <2>2. /\ rpc[r] = "claim" /\ rpc'[r] = "create"
          /\ \A q \in Requests : q # r => rpc'[q] = rpc[q]
      BY <1>2 DEF Claim, Goes, TypeOK
    <2>3. /\ writes' = writes /\ audits' = audits /\ rlive' = rlive
          /\ verdict' = verdict /\ puts' = puts /\ history' = history
          /\ rref' = rref /\ rtarget' = rtarget /\ \A q : Mine(q)' = Mine(q)
      BY DEF Claim, storeVars, requestVars, Mine
    <2>4. /\ claimed'[g] = rtarget[r]
          /\ claimedAt'[g] = IF claimedAt[g] = 0 THEN Latest ELSE claimedAt[g]
          /\ \A f \in References : f # g => /\ claimed'[f] = claimed[f]
                                          /\ claimedAt'[f] = claimedAt[f]
      BY <1>2, <2>1 DEF Claim, TypeOK
    <2>5. \A f \in References :
             \/ claimed'[f] = claimed[f] /\ claimedAt'[f] = claimedAt[f]
             \/ f = g /\ claimed[f] = "none"
      BY <1>2, <2>1, <2>4 DEF StatusInv, ClaimInv
    <2>6. \A f : /\ \A q : Pending(q, f)' <=> Pending(q, f)
                 /\ Untouched(f)' <=> Untouched(f)
      BY <2>3, SameHistory DEF Pending, Untouched
    <2>7. \A f \in References : claimed'[f] = claimed[f] =>
             \A t : SeenSinceClaim(f, t)' <=> SeenSinceClaim(f, t)
      <3>1. \A f \in References :
               claimed'[f] = claimed[f] => claimedAt'[f] = claimedAt[f]
        BY <2>1, <2>4, <2>5
      <3> QED
        BY <3>1, SameHistory, <2>3 DEF SeenSinceClaim
    <2>8. claimed[g] = "none" =>
             /\ \A t \in CORE_STATUSES : writes[<<g, t>>] = "absent"
             /\ \A q \in Requests :
                   rref[q] = g => /\ rpc[q] \notin {"create"} \cup Owning
                                  /\ q \notin puts
             /\ Untouched(g)
      BY <2>1, UnclaimedIsUnused
    <2>9. "claim" \notin Owning /\ "create" \notin Owning /\ "create" \in Looking
      BY DEF Owning, Looking
    <2>10. \A q \in Requests : rpc[q] \in Owning => rref[q] \in References
      BY MineType DEF Owning
    <2>11. ClaimInv'
      <3>1. ASSUME NEW q \in Requests, rpc'[q] \in {"create"} \cup Owning
            PROVE  claimed'[rref[q]] = rtarget[q]
        <4>1. CASE q = r
          BY <2>4, <4>1
        <4>2. CASE q # r
          <5>1. rpc[q] \in {"create"} \cup Owning /\ rpc[q] # "idle"
            BY <2>2, <3>1, <4>2 DEF Owning
          <5>2. rref[q] \in References /\ claimed[rref[q]] = rtarget[q]
            BY <5>1, MineType DEF StatusInv, ClaimInv
          <5> QED
            BY <2>5, <2>8, <5>1, <5>2
        <4> QED
          BY <4>1, <4>2
      <3>2. \A f \in References : claimed'[f] = "none" <=> claimedAt'[f] = 0
        BY <2>1, <2>4, LatestType DEF StatusInv, ClaimInv
      <3>3. \A q \in Requests :
               rpc'[q] \in {"reply", "reconcileLost"} =>
                  claimedAt'[rref[q]] <= rlive[q]
        BY <2>2, <2>5, <2>8, <2>10 DEF StatusInv, ClaimInv, Owning
      <3> QED
        BY <2>3, <3>1, <3>2, <3>3 DEF ClaimInv
    <2>12. OwnerInv'
      BY <2>2, <2>3, <2>5, <2>8, <2>9 DEF StatusInv, OwnerInv
    <2>13. SentInv'
      <3>1. \A q \in puts : /\ q \in Requests /\ q # r
                            /\ rref[q] \in References
        BY <2>2, MineType DEF TypeOK, StatusInv, SentInv, Looking
      <3>2. \A q \in puts' : /\ rpc'[q] \notin {"idle", "dispatch"} \cup Looking
                             /\ claimed'[rref'[q]] = rtarget'[q]
                             /\ writes'[Mine(q)'] # "absent"
        BY <2>2, <2>3, <2>5, <2>8, <3>1 DEF StatusInv, SentInv
      <3>3. \A f \in References : \A i \in 1..Latest :
               MadeBy(i, f) => writes[<<f, claimed'[f]>>] # "absent"
        BY <2>5, <2>8 DEF StatusInv, SentInv, Untouched
      <3>4. ASSUME NEW q \in Requests, rpc'[q] = "dispatch"
            PROVE  Untouched(rref[q])'
        <4>1. PICK f : f = rref[q]
          OBVIOUS
        <4>2. Untouched(f)' /\ rref'[q] = f
          BY <2>2, <2>3, <2>6, <3>4, <4>1 DEF StatusInv, SentInv
        <4> QED
          BY <4>2
      <3> QED
        BY <2>3, <3>2, <3>3, <3>4, SameHistory DEF SentInv
    <2>14. VerdictInv'
      <3>1. ASSUME NEW q \in Requests, rpc'[q] \in {"confirm", "record"}
            PROVE  /\ verdict[q] = "OK" => SeenSinceClaim(rref[q], rtarget[q])
                   /\ verdict[q] = "NO_OP" =>
                         SeenEver(rtarget[q]) /\ Untouched(rref[q])
                   /\ rref[q] \in References
                   /\ claimed'[rref[q]] = claimed[rref[q]]
        BY <2>2, <2>5, <2>8, <2>10, <3>1 DEF StatusInv, VerdictInv, Owning
      <3> QED
        BY <2>3, <2>6, <2>7, <3>1, SameHistory DEF StatusInv, VerdictInv
    <2>15. SingleEffect'
      BY <2>3, <2>5, <2>6, <2>8, SameHistory DEF StatusInv, SingleEffect, Untouched
    <2>16. TrueVerdicts'
      BY <2>3, <2>5, <2>6, <2>7, <2>8, SameHistory, VerdictsMean
      DEF StatusInv, TrueVerdicts
    <2> QED
      BY <2>11, <2>12, <2>13, <2>14, <2>15, <2>16, VerdictsMean DEF StatusInv
  <1> QED
    BY <1>1, <1>2

\* The first write of a reference: nothing of it can be in the store.
LEMMA FreshWrite ==
    ASSUME TypeOK, StatusInv, NEW r \in Requests, rpc[r] = "create",
           writes[Mine(r)] = "absent"
    PROVE  /\ Untouched(rref[r]) /\ r \notin puts
           /\ \A q \in Requests : rref[q] = rref[r] => rpc[q] \notin Owning
           /\ \A t \in CORE_STATUSES : writes[<<rref[r], t>>] = "absent"
  <1>1. claimed[rref[r]] = rtarget[r] /\ rref[r] \in References
    BY MineType DEF StatusInv, ClaimInv
  <1>2. \A t \in CORE_STATUSES : writes[<<rref[r], t>>] = "absent"
    BY <1>1 DEF StatusInv, OwnerInv, Mine
  <1>3. \A i \in 1..Latest : ~MadeBy(i, rref[r])
    BY <1>1, MineType, <1>2 DEF StatusInv, SentInv
  <1>4. \A q \in Requests :
           rref[q] = rref[r] => q \notin puts /\ rpc[q] \notin Owning
    <2>1. ASSUME NEW q \in Requests, rref[q] = rref[r],
                 q \in puts \/ rpc[q] \in Owning
          PROVE  FALSE
      <3>1. rtarget[q] = rtarget[r]
        BY <1>1, <2>1 DEF StatusInv, SentInv, ClaimInv
      <3>2. writes[Mine(q)] # "absent"
        BY <2>1 DEF StatusInv, SentInv, OwnerInv
      <3> QED
        BY <2>1, <3>1, <3>2 DEF Mine
    <2> QED
      BY <2>1
  <1> QED
    BY <1>2, <1>3, <1>4 DEF Untouched, Pending

LEMMA CreateKeepsInv ==
    ASSUME TypeOK, StatusInv, NEW r \in Requests, CreateWrite(r)
    PROVE  StatusInv'
  <1>1. CASE writes[Mine(r)] # "absent"
    BY <1>1, QuietStep DEF CreateWrite, storeVars, recordVars, Looking, Owning
  <1>2. CASE writes[Mine(r)] = "absent"
    <2> DEFINE g == rref[r]
    <2>1. g \in References /\ rtarget[r] \in CORE_STATUSES /\ rpc[r] = "create"
      BY MineType DEF CreateWrite
    <2>2. /\ writes'[Mine(r)] = "open"
          /\ \A p \in Pairs : p # Mine(r) => writes'[p] = writes[p]
          /\ Mine(r) \in Pairs
      BY <1>2, MineType DEF CreateWrite, TypeOK
    <2>3. /\ claimed' = claimed /\ claimedAt' = claimedAt /\ audits' = audits
          /\ rlive' = rlive /\ puts' = puts /\ history' = history
          /\ rref' = rref /\ rtarget' = rtarget /\ \A q : Mine(q)' = Mine(q)
      BY DEF CreateWrite, storeVars, requestVars, Mine
    <2>4. /\ \A q \in Requests : q # r => /\ rpc'[q] = rpc[q]
                                         /\ verdict'[q] = verdict[q]
          /\ \/ rpc'[r] = "dispatch"
             \/ /\ rpc'[r] = "confirm" /\ verdict'[r] = "NO_OP"
                /\ StatusAt(rlive[r]) = rtarget[r]
      BY <1>2 DEF CreateWrite, Begins, Goes, TypeOK
    <2>5. /\ Untouched(g) /\ r \notin puts
          /\ \A q \in Requests : rref[q] = g => rpc[q] \notin Owning
          /\ \A t \in CORE_STATUSES : writes[<<g, t>>] = "absent"
      BY <1>2, <2>1, FreshWrite
    <2>6. \A f : /\ \A q : Pending(q, f)' <=> Pending(q, f)
                 /\ Untouched(f)' <=> Untouched(f)
                 /\ \A t : SeenSinceClaim(f, t)' <=> SeenSinceClaim(f, t)
      BY <2>3, SameHistory DEF Pending, Untouched, SeenSinceClaim
    <2>7. "dispatch" \in Owning /\ "confirm" \in Owning /\ "create" \notin Owning
      BY DEF Owning
    <2>8. \A p \in Pairs :
             /\ writes[p] # "absent" => writes'[p] = writes[p]
             /\ writes'[p] \in {writes[p], "open"}
      BY <1>2, <2>2
    <2>9. ClaimInv'
      BY <2>1, <2>3, <2>4, <2>7 DEF StatusInv, ClaimInv
    <2>10. OwnerInv'
      <3>1. ASSUME NEW q \in Requests, rpc'[q] \in Owning
            PROVE  writes'[Mine(q)] = "open"
        <4>1. CASE q = r
          BY <2>2, <4>1
        <4>2. CASE q # r
          BY <2>4, <2>8, <3>1, <4>2, MineType DEF StatusInv, OwnerInv, Owning
        <4> QED
          BY <4>1, <4>2
      <3>2. \A p, q \in Requests :
               rpc'[p] \in Owning /\ rpc'[q] \in Owning /\ rref[p] = rref[q] => p = q
        BY <2>4, <2>5 DEF StatusInv, OwnerInv
      <3>3. \A f \in References, t \in CORE_STATUSES :
               writes'[<<f, t>>] # "absent" => claimed[f] = t
        BY <2>1, <2>2 DEF StatusInv, OwnerInv, ClaimInv, Pairs, Mine
      <3> QED
        BY <2>3, <3>1, <3>2, <3>3 DEF OwnerInv
    <2>11. SentInv'
      <3>1. \A q \in puts : q \in Requests /\ q # r /\ Mine(q) \in Pairs
        BY <2>5, MineType DEF TypeOK
      <3>2. \A f \in References : \A i \in 1..Latest :
               MadeBy(i, f) => writes'[<<f, claimed[f]>>] # "absent"
        <4>1. \A f \in References, i \in 1..Latest :
                 MadeBy(i, f) => <<f, claimed[f]>> \in Pairs
          BY LatestType DEF StatusInv, SingleEffect, Pairs
        <4> QED
          BY <2>8, <4>1 DEF StatusInv, SentInv
      <3>3. ASSUME NEW q \in Requests, rpc'[q] = "dispatch"
            PROVE  Untouched(rref[q])'
        <4>1. PICK f : f = rref[q]
          OBVIOUS
        <4>2. Untouched(f)' /\ rref'[q] = f
          BY <2>3, <2>4, <2>5, <2>6, <3>3, <4>1 DEF StatusInv, SentInv
        <4> QED
          BY <4>2
      <3>4. \A q \in puts : writes'[Mine(q)] # "absent"
        BY <2>8, <3>1 DEF StatusInv, SentInv
      <3>5. \A q \in puts : /\ rpc'[q] \notin {"idle", "dispatch"} \cup Looking
                            /\ claimed[rref[q]] = rtarget[q]
        BY <2>4, <3>1 DEF StatusInv, SentInv
      <3> QED
        BY <2>3, <3>2, <3>3, <3>4, <3>5, SameHistory DEF SentInv
    <2>12. VerdictInv'
      <3>1. rpc'[r] = "confirm" => SeenEver(rtarget[r])
        <4>1. rlive[r] \in 1..Latest
          BY <2>1, LatestType DEF TypeOK
        <4> QED
          BY <2>4, <4>1 DEF SeenEver
      <3>2. ASSUME NEW q \in Requests, rpc'[q] \in {"confirm", "record"}
            PROVE  /\ verdict'[q] = "OK" => SeenSinceClaim(rref[q], rtarget[q])
                   /\ verdict'[q] = "NO_OP" =>
                         SeenEver(rtarget[q]) /\ Untouched(rref[q])
        BY <2>4, <2>5, <3>1, <3>2 DEF StatusInv, VerdictInv
      <3>3. \A f \in References : audits[f] > 0 =>
               \E t \in CORE_STATUSES : writes'[<<f, t>>] \in Outcome
        BY <2>8 DEF StatusInv, VerdictInv, Outcome, Failure, Pairs
      <3> QED
        BY <2>3, <2>6, <3>2, <3>3, SameHistory DEF VerdictInv
    <2>13. SingleEffect'
      BY <2>3, <2>6, SameHistory DEF StatusInv, SingleEffect
    <2>14. TrueVerdicts'
      <3>1. \A f \in References, t \in CORE_STATUSES :
               writes'[<<f, t>>] \in {"OK", "NO_OP"} =>
                  writes[<<f, t>>] = writes'[<<f, t>>]
        BY <2>8 DEF Pairs
      <3> QED
        BY <2>6, <3>1, SameHistory, <2>3, VerdictsMean DEF StatusInv, TrueVerdicts
    <2> QED
      BY <2>9, <2>10, <2>11, <2>12, <2>13, <2>14, VerdictsMean DEF StatusInv
  <1> QED
    BY <1>1, <1>2

\* The owner of a write is alone with its reference.
LEMMA OwnerIsAlone ==
    ASSUME TypeOK, StatusInv, NEW r \in Requests, rpc[r] \in Owning
    PROVE  /\ rref[r] \in References /\ Mine(r) \in Pairs
           /\ \A q \in Requests : q # r /\ rpc[q] \in Owning => rref[q] # rref[r]
           /\ \A t \in CORE_STATUSES : writes[<<rref[r], t>>] \notin Outcome
  <1>1. rpc[r] # "idle" /\ writes[Mine(r)] = "open"
    BY DEF StatusInv, OwnerInv, Owning
  <1>2. claimed[rref[r]] = rtarget[r]
    BY DEF StatusInv, ClaimInv
  <1>3. \A t \in CORE_STATUSES : writes[<<rref[r], t>>] \in Outcome => FALSE
    BY <1>1, <1>2, MineType DEF StatusInv, OwnerInv, Mine, Outcome, Failure
  <1> QED
    BY <1>1, <1>3, MineType DEF StatusInv, OwnerInv

LEMMA DispatchKeepsInv ==
    ASSUME TypeOK, StatusInv, NEW r \in Requests, Dispatch(r)
    PROVE  StatusInv'
  <1> DEFINE g == rref[r]
  <1>1. rpc[r] = "dispatch" /\ rpc[r] \in Owning
    BY DEF Dispatch, Owning
  <1>2. CASE Concludes(r, "FAILED") /\ UNCHANGED puts
    BY <1>1, <1>2, QuietStep
    DEF Dispatch, Concludes, storeVars, Looking, Owning, TypeOK
  <1>3. CASE puts' = puts \cup {r} /\ Goes(r, "await") /\ UNCHANGED verdict
    <2>1. /\ rpc'[r] = "await"
          /\ \A q \in Requests : q # r => rpc'[q] = rpc[q]
      BY <1>3 DEF Goes, TypeOK
    <2>2. /\ claimed' = claimed /\ claimedAt' = claimedAt /\ writes' = writes
          /\ audits' = audits /\ rlive' = rlive /\ verdict' = verdict
          /\ rref' = rref /\ rtarget' = rtarget /\ history' = history
          /\ \A q : Mine(q)' = Mine(q)
      BY <1>3 DEF Dispatch, storeVars, recordVars, requestVars, Mine
    <2>3. Untouched(g)
      BY <1>1 DEF StatusInv, SentInv
    <2>4. /\ g \in References
          /\ \A q \in Requests : q # r /\ rpc[q] \in Owning => rref[q] # g
          /\ \A t \in CORE_STATUSES : writes[<<g, t>>] \notin Outcome
      BY <1>1, OwnerIsAlone
    <2>5. /\ \A f, q : Pending(q, f)' <=> Pending(q, f) \/ (q = r /\ f = g)
          /\ \A f : f # g => (Untouched(f)' <=> Untouched(f))
          /\ \A f, t : SeenSinceClaim(f, t)' <=> SeenSinceClaim(f, t)
      BY <1>3, <2>2, SameHistory DEF Pending, Untouched, SeenSinceClaim
    <2>6. "await" \in Owning /\ "await" \notin Looking
          /\ {"confirm", "record", "dispatch"} \subseteq Owning
      BY DEF Owning, Looking
    <2>7. ClaimInv'
      BY <1>1, <2>1, <2>2 DEF StatusInv, ClaimInv
    <2>8. OwnerInv'
      BY <1>1, <2>1, <2>2, <2>6 DEF StatusInv, OwnerInv
    <2>9. SentInv'
      <3>1. /\ claimed[g] = rtarget[r] /\ writes[Mine(r)] # "absent"
        BY <1>1 DEF StatusInv, ClaimInv, OwnerInv
      <3>2. \A q \in puts' : rpc'[q] \notin {"idle", "dispatch"} \cup Looking
        BY <1>3, <2>1, <2>6 DEF StatusInv, SentInv, TypeOK
      <3>3. ASSUME NEW q \in Requests, rpc'[q] = "dispatch"
            PROVE  Untouched(rref[q])'
        <4>1. PICK f : f = rref[q]
          OBVIOUS
        <4>2. f # g /\ Untouched(f)
          BY <2>1, <2>4, <2>6, <3>3, <4>1 DEF StatusInv, SentInv
        <4>3. Untouched(f)' /\ rref'[q] = f
          BY <2>2, <2>5, <4>1, <4>2
        <4> QED
          BY <4>3
      <3> QED
        BY <1>3, <2>2, <3>1, <3>2, <3>3, SameHistory DEF StatusInv, SentInv
    <2>10. VerdictInv'
      <3>1. ASSUME NEW q \in Requests, rpc'[q] \in {"confirm", "record"}
            PROVE  /\ rref[q] # g
                   /\ verdict[q] = "OK" => SeenSinceClaim(rref[q], rtarget[q])
                   /\ verdict[q] = "NO_OP" =>
                         SeenEver(rtarget[q]) /\ Untouched(rref[q])
        BY <2>1, <2>4, <2>6, <3>1 DEF StatusInv, VerdictInv
      <3> QED
        BY <2>2, <2>5, <3>1, SameHistory DEF StatusInv, VerdictInv
    <2>11. SingleEffect'
      BY <2>2, <2>3, <2>5, SameHistory DEF StatusInv, SingleEffect, Untouched
    <2>12. TrueVerdicts'
      BY <2>2, <2>4, <2>5, SameHistory, VerdictsMean
      DEF StatusInv, TrueVerdicts, Outcome
    <2> QED
      BY <2>7, <2>8, <2>9, <2>10, <2>11, <2>12, VerdictsMean DEF StatusInv
  <1> QED
    BY <1>2, <1>3 DEF Dispatch

LEMMA RecordKeepsInv ==
    ASSUME TypeOK, StatusInv, NEW r \in Requests, Record(r)
    PROVE  StatusInv'
  <1> DEFINE g == rref[r]
  <1>1. rpc[r] = "record" /\ rpc[r] \in Owning /\ verdict[r] \in Outcome
    BY DEF Record, Owning, TypeOK
  <1>2. /\ rpc'[r] = "done"
        /\ \A q \in Requests : q # r => rpc'[q] = rpc[q]
    BY DEF Record, Goes, TypeOK
  <1>3. /\ claimed' = claimed /\ claimedAt' = claimedAt /\ puts' = puts
        /\ rlive' = rlive /\ verdict' = verdict
        /\ rref' = rref /\ rtarget' = rtarget /\ history' = history
        /\ \A q : Mine(q)' = Mine(q)
    BY DEF Record, storeVars, requestVars, Mine
  <1>4. /\ g \in References /\ Mine(r) \in Pairs
        /\ \A q \in Requests : q # r /\ rpc[q] \in Owning => rref[q] # g
        /\ rtarget[r] \in CORE_STATUSES /\ Mine(r) = <<g, rtarget[r]>>
    BY <1>1, OwnerIsAlone, MineType DEF Owning, Mine
  <1>5. /\ writes'[Mine(r)] = verdict[r]
        /\ \A p \in Pairs : p # Mine(r) => writes'[p] = writes[p]
        /\ \A f \in References : f # g => audits'[f] = audits[f]
    BY <1>4 DEF Record, TypeOK
  <1>6. /\ \A f : /\ \A q : Pending(q, f)' <=> Pending(q, f)
                  /\ Untouched(f)' <=> Untouched(f)
                  /\ \A t : SeenSinceClaim(f, t)' <=> SeenSinceClaim(f, t)
    BY <1>3, SameHistory DEF Pending, Untouched, SeenSinceClaim
  <1>7. "done" \notin Owning \cup Looking /\ "absent" \notin Outcome
    BY DEF Owning, Looking, Outcome, Failure
  <1>8. ClaimInv'
    BY <1>2, <1>3, <1>7 DEF StatusInv, ClaimInv
  <1>9. OwnerInv'
    <2>1. ASSUME NEW q \in Requests, rpc'[q] \in Owning
          PROVE  writes'[Mine(q)] = "open"
      <3>1. q # r /\ rpc[q] \in Owning /\ rref[q] # g
        BY <1>2, <1>4, <1>7, <2>1
      <3>2. Mine(q) \in Pairs /\ Mine(q) # Mine(r)
        BY <3>1, OwnerIsAlone DEF Mine
      <3> QED
        BY <1>5, <3>1, <3>2 DEF StatusInv, OwnerInv
    <2>2. \A f \in References, t \in CORE_STATUSES :
             writes'[<<f, t>>] # "absent" => claimed[f] = t
      BY <1>1, <1>4, <1>5 DEF StatusInv, OwnerInv, ClaimInv, Pairs
    <2> QED
      BY <1>2, <1>3, <1>7, <2>1, <2>2 DEF StatusInv, OwnerInv
  <1>10. SentInv'
    <2>1. \A p \in Pairs : writes[p] # "absent" => writes'[p] # "absent"
      BY <1>1, <1>5, <1>7
    <2>2. \A q \in puts : /\ Mine(q) \in Pairs
                          /\ rpc'[q] \notin {"idle", "dispatch"} \cup Looking
      BY <1>2, <1>7, MineType DEF TypeOK, StatusInv, SentInv
    <2>3. \A f \in References, i \in 1..Latest :
             MadeBy(i, f) => <<f, claimed[f]>> \in Pairs
      BY LatestType DEF StatusInv, SingleEffect, Pairs
    <2>4. ASSUME NEW q \in Requests, rpc'[q] = "dispatch"
          PROVE  Untouched(rref[q])'
      <3>1. PICK f : f = rref[q]
        OBVIOUS
      <3>2. Untouched(f)' /\ rref'[q] = f
        BY <1>2, <1>3, <1>6, <2>4, <3>1 DEF StatusInv, SentInv
      <3> QED
        BY <3>2
    <2> QED
      BY <1>3, <2>1, <2>2, <2>3, <2>4, SameHistory DEF StatusInv, SentInv
  <1>11. VerdictInv'
    <2>1. ASSUME NEW q \in Requests, rpc'[q] \in {"confirm", "record"}
          PROVE  /\ verdict[q] = "OK" => SeenSinceClaim(rref[q], rtarget[q])
                 /\ verdict[q] = "NO_OP" =>
                       SeenEver(rtarget[q]) /\ Untouched(rref[q])
      BY <1>2, <2>1 DEF StatusInv, VerdictInv
    <2>2. \A f \in References : audits'[f] > 0 =>
             \E t \in CORE_STATUSES : writes'[<<f, t>>] \in Outcome
      <3>1. writes'[<<g, rtarget[r]>>] \in Outcome
        BY <1>1, <1>4, <1>5
      <3>2. \A f \in References, t \in CORE_STATUSES :
               f # g => writes'[<<f, t>>] = writes[<<f, t>>]
        BY <1>4, <1>5 DEF Pairs
      <3> QED
        BY <1>4, <1>5, <3>1, <3>2 DEF StatusInv, VerdictInv
    <2> QED
      BY <1>3, <1>6, <2>1, <2>2, SameHistory DEF VerdictInv
  <1>12. SingleEffect'
    BY <1>3, <1>6, SameHistory DEF StatusInv, SingleEffect
  <1>13. TrueVerdicts'
    <2>1. /\ verdict[r] = "OK" => SeenSinceClaim(g, rtarget[r])
          /\ verdict[r] = "NO_OP" => SeenEver(rtarget[r]) /\ Untouched(g)
      BY <1>1 DEF StatusInv, VerdictInv
    <2>2. \A f \in References, t \in CORE_STATUSES :
             \/ f = g /\ t = rtarget[r] /\ writes'[<<f, t>>] = verdict[r]
             \/ writes'[<<f, t>>] = writes[<<f, t>>]
      BY <1>4, <1>5 DEF Pairs
    <2> QED
      BY <1>6, <2>1, <2>2, <1>3, SameHistory, VerdictsMean
      DEF StatusInv, TrueVerdicts
  <1> QED
    BY <1>8, <1>9, <1>10, <1>11, <1>12, <1>13, VerdictsMean DEF StatusInv

\* What a new revision adds to what was said about the store.
LEMMA HistoryGrows ==
    ASSUME TypeOK, NEW s \in CORE_STATUSES, NEW a \in References \cup {Merchant},
           Revised(s, a), claimedAt' = claimedAt
    PROVE  /\ Latest' = Latest + 1 /\ Latest \in Nat
           /\ \A i \in 1..Latest : StatusAt(i)' = StatusAt(i)
           /\ StatusAt(Latest)' = s
           /\ \A f, i : MadeBy(i, f)' <=>
                          MadeBy(i, f) \/ (i = Latest + 1 /\ f = a)
           /\ \A f, i : MadeBy(i, f) => i \in 1..Latest
           /\ \A t : SeenEver(t) => SeenEver(t)'
           /\ \A f \in References : \A t :
                 SeenSinceClaim(f, t) => SeenSinceClaim(f, t)'
  <1>1. /\ Latest' = Latest + 1 /\ Latest \in Nat
        /\ history'[Latest + 1] = [status |-> s, by |-> a]
        /\ \A i \in 1..Latest : history'[i] = history[i]
    BY RevisedType, LatestType DEF Latest
  <1>2. /\ \A i \in 1..Latest : StatusAt(i)' = StatusAt(i)
        /\ StatusAt(Latest)' = s
    BY <1>1 DEF StatusAt
  <1>3. /\ \A f, i : MadeBy(i, f)' <=>
                       MadeBy(i, f) \/ (i = Latest + 1 /\ f = a)
        /\ \A f, i : MadeBy(i, f) => i \in 1..Latest
    BY <1>1 DEF MadeBy
  <1>4. \A t : SeenEver(t) => SeenEver(t)'
    BY <1>1, <1>2 DEF SeenEver
  <1>5. \A f \in References : \A t :
           SeenSinceClaim(f, t) => SeenSinceClaim(f, t)'
    <2> TAKE f \in References
    <2> TAKE t
    <2> HAVE SeenSinceClaim(f, t)
    <2>1. PICK i \in claimedAt[f]..Latest : i > 0 /\ StatusAt(i) = t
      BY DEF SeenSinceClaim
    <2>2. claimedAt[f] \in Nat
      BY LatestType DEF TypeOK
    <2>3. i \in 1..Latest /\ i \in claimedAt[f]..(Latest + 1)
      BY <1>1, <2>1, <2>2
    <2> QED
      BY <1>1, <1>2, <2>1, <2>3 DEF SeenSinceClaim
  <1> QED
    BY <1>1, <1>2, <1>3, <1>4, <1>5

LEMMA AnswerKeepsInv ==
    ASSUME TypeOK, StatusInv, NEW r \in Requests, StoreAnswers(r)
    PROVE  StatusInv'
  <1> DEFINE g == rref[r]
  <1>1. /\ r \in puts /\ g \in References /\ rtarget[r] \in CORE_STATUSES
        /\ claimed[g] = rtarget[r] /\ writes[Mine(r)] # "absent"
        /\ rpc[r] \notin {"idle", "dispatch"} \cup Looking
    BY MineType DEF StoreAnswers, TypeOK, StatusInv, SentInv
  <1>2. claimedAt[g] <= Latest
    BY <1>1, LatestType DEF TypeOK
  <1>3. CASE UNCHANGED history
    <2>1. CASE rpc[r] = "await" /\ Goes(r, "reply")
               /\ rlive' = [rlive EXCEPT ![r] = Len(history')]
      <3>1. rlive'[r] = Latest
        BY <1>3, <2>1 DEF TypeOK, Latest
      <3> QED
        BY <1>2, <1>3, <2>1, <3>1, QuietStep
        DEF StoreAnswers, Looking, Owning, TypeOK
    <2>2. CASE UNCHANGED <<rlive, rpc>>
      BY <1>1, <1>3, <2>2, PutGone DEF StoreAnswers
    <2> QED
      BY <2>1, <2>2 DEF StoreAnswers
  <1>4. CASE Revised(rtarget[r], g)
    <2>1. /\ puts' = puts \ {r} /\ verdict' = verdict
          /\ claimed' = claimed /\ claimedAt' = claimedAt /\ writes' = writes
          /\ audits' = audits /\ rref' = rref /\ rtarget' = rtarget
          /\ \A q : Mine(q)' = Mine(q)
      BY DEF StoreAnswers, recordVars, requestVars, Mine
    <2>2. /\ Latest' = Latest + 1 /\ Latest \in Nat
          /\ \A i \in 1..Latest : StatusAt(i)' = StatusAt(i)
          /\ StatusAt(Latest)' = rtarget[r]
          /\ \A f, i : MadeBy(i, f)' <=>
                         MadeBy(i, f) \/ (i = Latest + 1 /\ f = g)
          /\ \A f, i : MadeBy(i, f) => i \in 1..Latest
          /\ \A t : SeenEver(t) => SeenEver(t)'
          /\ \A f \in References : \A t :
                SeenSinceClaim(f, t) => SeenSinceClaim(f, t)'
      BY <1>1, <1>4, <2>1, HistoryGrows
    <2>3. \A q \in Requests :
             \/ rpc'[q] = rpc[q] /\ rlive'[q] = rlive[q]
             \/ /\ q = r /\ rpc[q] = "await" /\ rpc'[q] = "reply"
                /\ rlive'[q] = Latest + 1
      BY <2>2 DEF StoreAnswers, Goes, TypeOK, Latest
    <2>4. /\ Pending(r, g) /\ ~Untouched(g)
          /\ \A i \in 1..Latest : ~MadeBy(i, g)
          /\ \A q \in Requests : q # r => ~Pending(q, g)
      BY <1>1 DEF Pending, Untouched, StatusInv, SingleEffect
    <2>5. /\ \A f, q : Pending(q, f)' <=> Pending(q, f) /\ q # r
          /\ \A f : f # g /\ Untouched(f) => Untouched(f)'
      <3>1. \A f, q : Pending(q, f)' <=> Pending(q, f) /\ q # r
        BY <2>1 DEF Pending
      <3> QED
        BY <2>2, <3>1 DEF Untouched, MadeBy
    <2>6. {"await", "reply"} \subseteq Owning /\ "reply" \notin Looking
      BY DEF Owning, Looking
    <2>7. ClaimInv'
      <3>1. \A q \in Requests : rpc'[q] \in {"reply", "reconcileLost"} =>
               claimedAt[rref[q]] <= rlive'[q]
        <4>1. claimedAt[g] <= Latest + 1
          BY <1>1, <1>2, <2>2 DEF TypeOK
        <4> QED
          BY <2>3, <4>1 DEF StatusInv, ClaimInv
      <3> QED
        BY <2>1, <2>3, <2>6, <3>1 DEF StatusInv, ClaimInv
    <2>8. OwnerInv'
      <3>1. \A q \in Requests : rpc'[q] \in Owning => rpc[q] \in Owning
        BY <2>3, <2>6
      <3> QED
        BY <2>1, <3>1 DEF StatusInv, OwnerInv
    <2>9. SentInv'
      <3>1. \A f \in References : \A i \in 1..Latest' :
               MadeBy(i, f)' => writes[<<f, claimed[f]>>] # "absent"
        BY <1>1, <2>2 DEF StatusInv, SentInv, Mine
      <3>2. ASSUME NEW q \in Requests, rpc'[q] = "dispatch"
            PROVE  Untouched(rref[q])'
        <4>1. PICK f : f = rref[q]
          OBVIOUS
        <4>2. Untouched(f) /\ f # g
          BY <2>3, <2>4, <3>2, <4>1 DEF StatusInv, SentInv
        <4>3. Untouched(f)' /\ rref'[q] = f
          BY <2>1, <2>5, <4>1, <4>2
        <4> QED
          BY <4>3
      <3>3. \A q \in puts' : /\ rpc'[q] \notin {"idle", "dispatch"} \cup Looking
                             /\ claimed[rref[q]] = rtarget[q]
                             /\ writes[Mine(q)] # "absent"
        BY <2>1, <2>3 DEF TypeOK, StatusInv, SentInv
      <3> QED
        BY <2>1, <3>1, <3>2, <3>3 DEF SentInv
    <2>10. VerdictInv'
      <3>1. ASSUME NEW q \in Requests, rpc'[q] \in {"confirm", "record"}
            PROVE  /\ rref[q] \in References
                   /\ verdict[q] = "OK" => SeenSinceClaim(rref[q], rtarget[q])
                   /\ verdict[q] = "NO_OP" =>
                         SeenEver(rtarget[q]) /\ Untouched(rref[q])
        BY <2>3, <3>1, MineType DEF StatusInv, VerdictInv
      <3>2. ASSUME NEW q \in Requests, rpc'[q] \in {"confirm", "record"}
            PROVE  /\ verdict[q] = "OK" => SeenSinceClaim(rref[q], rtarget[q])'
                   /\ verdict[q] = "NO_OP" =>
                         SeenEver(rtarget[q])' /\ Untouched(rref[q])'
        <4>1. PICK f \in References, t \in {rtarget[q]} : f = rref[q]
          BY <3>1, <3>2
        <4>2. /\ verdict[q] = "OK" => SeenSinceClaim(f, t)'
              /\ verdict[q] = "NO_OP" => SeenEver(t)' /\ Untouched(f)'
          BY <2>2, <2>4, <2>5, <3>1, <3>2, <4>1
        <4>3. rref'[q] = f /\ rtarget'[q] = t
          BY <2>1, <4>1
        <4> QED
          BY <4>2, <4>3
      <3> QED
        BY <2>1, <3>2 DEF StatusInv, VerdictInv
    <2>11. SingleEffect'
      <3>1. \A f \in References : \A i \in 1..Latest' :
               MadeBy(i, f)' => StatusAt(i)' = claimed[f]
        <4>1. PICK n : n = Latest'
          OBVIOUS
        <4>2. StatusAt(n)' = rtarget[r] /\ n = Latest + 1
          BY <2>2, <4>1
        <4>3. \A f \in References : \A i \in 1..Latest :
                 MadeBy(i, f) => StatusAt(i) = claimed[f]
          BY DEF StatusInv, SingleEffect
        <4> QED
          BY <1>1, <2>2, <4>2, <4>3
      <3>2. \A f \in References : \A i, j \in 1..Latest' :
               MadeBy(i, f)' /\ MadeBy(j, f)' => i = j
        BY <2>2, <2>4 DEF StatusInv, SingleEffect
      <3>3. \A f \in References : \A i \in 1..Latest', q \in Requests :
               ~(MadeBy(i, f)' /\ Pending(q, f)')
        BY <2>2, <2>4, <2>5 DEF StatusInv, SingleEffect
      <3>4. \A f \in References : \A p, q \in Requests :
               Pending(p, f)' /\ Pending(q, f)' => p = q
        BY <2>5 DEF StatusInv, SingleEffect
      <3> QED
        BY <2>1, <3>1, <3>2, <3>3, <3>4 DEF SingleEffect
    <2>12. TrueVerdicts'
      BY <2>1, <2>2, <2>4, <2>5, VerdictsMean DEF StatusInv, TrueVerdicts
    <2> QED
      BY <2>7, <2>8, <2>9, <2>10, <2>11, <2>12, VerdictsMean DEF StatusInv
  <1> QED
    BY <1>3, <1>4 DEF StoreAnswers

\* A revision by the merchant is no reference's.
LEMMA MerchantKeepsInv ==
    ASSUME TypeOK, StatusInv, MerchantChanges
    PROVE  StatusInv'
  <1>1. CASE UNCHANGED history
    BY <1>1, InvFrame DEF MerchantChanges
  <1>2. ASSUME NEW s \in StoreStatuses, Revised(s, Merchant)
        PROVE  StatusInv'
    <2>1. /\ puts' = puts /\ verdict' = verdict /\ rpc' = rpc /\ rlive' = rlive
          /\ claimed' = claimed /\ claimedAt' = claimedAt /\ writes' = writes
          /\ audits' = audits /\ rref' = rref /\ rtarget' = rtarget
          /\ \A q : Mine(q)' = Mine(q)
      BY DEF MerchantChanges, recordVars, requestVars, Mine
    <2>2. s \in CORE_STATUSES /\ \A f \in References : f # Merchant
      BY StatusWriteAssumption
    <2>3. /\ Latest' = Latest + 1 /\ Latest \in Nat
          /\ \A i \in 1..Latest : StatusAt(i)' = StatusAt(i)
          /\ \A f, i : MadeBy(i, f)' <=>
                         MadeBy(i, f) \/ (i = Latest + 1 /\ f = Merchant)
          /\ \A f, i : MadeBy(i, f) => i \in 1..Latest
          /\ \A t : SeenEver(t) => SeenEver(t)'
          /\ \A f \in References : \A t :
                SeenSinceClaim(f, t) => SeenSinceClaim(f, t)'
      BY <1>2, <2>1, <2>2, HistoryGrows
    <2>4. \A f \in References : \A i : MadeBy(i, f)' <=> MadeBy(i, f)
      BY <2>2, <2>3
    <2>5. \A f \in References : /\ \A q : Pending(q, f)' <=> Pending(q, f)
                                /\ Untouched(f) => Untouched(f)'
      <3>1. \A f, q : Pending(q, f)' <=> Pending(q, f)
        BY <2>1 DEF Pending
      <3> QED
        BY <2>3, <2>4, <3>1 DEF Untouched
    <2>6. ClaimInv'
      BY <2>1 DEF StatusInv, ClaimInv
    <2>7. OwnerInv'
      BY <2>1 DEF StatusInv, OwnerInv
    <2>8. SentInv'
      <3>1. \A f \in References : \A i \in 1..Latest' :
               MadeBy(i, f)' => writes[<<f, claimed[f]>>] # "absent"
        BY <2>3, <2>4 DEF StatusInv, SentInv
      <3>2. ASSUME NEW q \in Requests, rpc[q] = "dispatch"
            PROVE  Untouched(rref[q])'
        <4>1. PICK f \in References : f = rref[q]
          BY <3>2, MineType
        <4>2. Untouched(f)' /\ rref'[q] = f
          BY <2>1, <2>5, <3>2, <4>1 DEF StatusInv, SentInv
        <4> QED
          BY <4>2
      <3> QED
        BY <2>1, <3>1, <3>2 DEF StatusInv, SentInv
    <2>9. VerdictInv'
      <3>1. ASSUME NEW q \in Requests, rpc[q] \in {"confirm", "record"}
            PROVE  /\ verdict[q] = "OK" => SeenSinceClaim(rref[q], rtarget[q])'
                   /\ verdict[q] = "NO_OP" =>
                         SeenEver(rtarget[q])' /\ Untouched(rref[q])'
        <4>1. PICK f \in References, t \in {rtarget[q]} : f = rref[q]
          BY <3>1, MineType
        <4>2. /\ verdict[q] = "OK" => SeenSinceClaim(f, t)
              /\ verdict[q] = "NO_OP" => SeenEver(t) /\ Untouched(f)
          BY <3>1, <4>1 DEF StatusInv, VerdictInv
        <4>3. /\ verdict[q] = "OK" => SeenSinceClaim(f, t)'
              /\ verdict[q] = "NO_OP" => SeenEver(t)' /\ Untouched(f)'
          BY <2>3, <2>5, <4>2
        <4>4. rref'[q] = f /\ rtarget'[q] = t
          BY <2>1, <4>1
        <4> QED
          BY <4>3, <4>4
      <3> QED
        BY <2>1, <3>1 DEF StatusInv, VerdictInv
    <2>10. SingleEffect'
      BY <2>1, <2>3, <2>4, <2>5 DEF StatusInv, SingleEffect
    <2>11. TrueVerdicts'
      BY <2>1, <2>3, <2>5, VerdictsMean DEF StatusInv, TrueVerdicts
    <2> QED
      BY <2>6, <2>7, <2>8, <2>9, <2>10, <2>11, VerdictsMean DEF StatusInv
  <1> QED
    BY <1>1, <1>2 DEF MerchantChanges

LEMMA InvNext == TypeOK /\ TypeOK' /\ StatusInv /\ [Next]_vars => StatusInv'
  <1> SUFFICES ASSUME TypeOK, TypeOK', StatusInv, [Next]_vars
               PROVE  StatusInv'
    OBVIOUS
  <1>1. ASSUME NEW r \in Requests, RequestNext(r)
        PROVE  StatusInv'
    BY <1>1, OpenKeepsInv, QuietActions, ClaimKeepsInv, CreateKeepsInv,
       DispatchKeepsInv, AnswerKeepsInv, RefusalKeepsInv, RecordKeepsInv
    DEF RequestNext
  <1>2. ASSUME NEW f \in References, IssueReference(f)
        PROVE  StatusInv'
    BY <1>2, InvFrame DEF IssueReference, storeVars
  <1>3. CASE MerchantChanges
    BY <1>3, MerchantKeepsInv
  <1>4. CASE WebhookProjected
    BY <1>4, InvFrame DEF WebhookProjected, storeVars
  <1>5. CASE UNCHANGED vars
    BY <1>5, InvFrame DEF vars, storeVars
  <1> QED
    BY <1>1, <1>2, <1>3, <1>4, <1>5 DEF Next

LEMMA InvAlways == Spec => [](TypeOK /\ StatusInv)
  BY InvInit, InvNext, TypeInit, TypeNext, PTL DEF Spec

-----------------------------------------------------------------------------
(* What a user of the references may rely on.                              *)

\* Any number of requests, targets and faults: a reference changes the order
\* once at most, and only to the target it was claimed for.
THEOREM StatusReferencesAreSingleEffect == Spec => []SingleEffect
  BY InvAlways, PTL DEF StatusInv

\* What is recorded of a write is true of the order's history.
THEOREM RecordedVerdictsAreTrue == Spec => []VerdictsAreTrue
  BY InvAlways, PTL DEF StatusInv

\* An outcome is never recorded twice, nor audited twice.
LEMMA OutcomeStays ==
    ASSUME TypeOK, StatusInv, [Next]_vars,
           NEW f \in References, NEW t \in CORE_STATUSES
    PROVE  /\ writes[<<f, t>>] \in Outcome => writes'[<<f, t>>] = writes[<<f, t>>]
           /\ audits[f] > 0 => audits'[f] = audits[f]
  <1>1. CASE UNCHANGED <<writes, audits>>
    BY <1>1
  <1>2. ASSUME NEW r \in Requests, CreateWrite(r)
        PROVE  /\ writes[<<f, t>>] \in Outcome =>
                     writes'[<<f, t>>] = writes[<<f, t>>]
               /\ audits'[f] = audits[f]
    <2>1. writes' = writes \/ /\ writes[Mine(r)] = "absent"
                              /\ writes' = [writes EXCEPT ![Mine(r)] = "open"]
      BY <1>2 DEF CreateWrite
    <2>2. <<f, t>> \in Pairs /\ "absent" \notin Outcome
      BY DEF Pairs, Outcome, Failure
    <2> QED
      BY <1>2, <2>1, <2>2 DEF CreateWrite, TypeOK
  <1>3. ASSUME NEW r \in Requests, Record(r)
        PROVE  /\ writes[<<f, t>>] \in Outcome =>
                     writes'[<<f, t>>] = writes[<<f, t>>]
               /\ audits[f] > 0 => audits'[f] = audits[f]
    <2>1. rpc[r] \in Owning
      BY <1>3 DEF Record, Owning
    <2>2. /\ \A u \in CORE_STATUSES : writes[<<rref[r], u>>] \notin Outcome
          /\ Mine(r) \in Pairs
      BY <2>1, OwnerIsAlone
    <2>3. CASE f = rref[r]
      BY <2>2, <2>3 DEF StatusInv, VerdictInv
    <2>4. CASE f # rref[r]
      <3>1. <<f, t>> \in Pairs /\ <<f, t>> # Mine(r)
        BY <2>4 DEF Pairs, Mine
      <3> QED
        BY <1>3, <2>4, <3>1 DEF Record, TypeOK
    <2> QED
      BY <2>3, <2>4
  <1> QED
    <2>1. ASSUME NEW r \in Requests, RequestNext(r)
          PROVE  \/ UNCHANGED <<writes, audits>> \/ CreateWrite(r) \/ Record(r)
      BY <2>1 DEF RequestNext, recordVars, Open, LookUp, FetchLive, FetchesTo,
         Reconcile, Declines, Claim, Dispatch, StoreAnswers, StoreRefuses,
         TimesOut, ReconcileReply, FetchAgain, LostForGood, ReconcileLost,
         Confirm, Dies
    <2>2. CASE \/ \E g \in References : IssueReference(g)
               \/ MerchantChanges \/ WebhookProjected \/ UNCHANGED vars
      BY <1>1, <2>2 DEF vars, recordVars, IssueReference, MerchantChanges,
         WebhookProjected
    <2> QED
      BY <1>1, <1>2, <1>3, <2>1, <2>2 DEF Next

\* The outcome of a write, and its audit entry, are final.
THEOREM OutcomesAreFinal == Spec => RecordedOnce
  <1>1. TypeOK /\ StatusInv /\ [Next]_vars =>
           [\A f \in References, t \in CORE_STATUSES :
               /\ writes[<<f, t>>] \in Outcome =>
                     writes'[<<f, t>>] = writes[<<f, t>>]
               /\ audits[f] > 0 => audits'[f] = audits[f]]_vars
    BY OutcomeStays
  <1> QED
    BY <1>1, InvAlways, PTL DEF Spec, RecordedOnce

=============================================================================
