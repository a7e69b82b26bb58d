------------------------------ MODULE ErasureLedger ------------------------------
(***************************************************************************)
(* What is erased stays erased, also when an older backup is restored      *)
(* (backend/src/privacy/pilot-account.service.ts, pilot-data.service.ts    *)
(* and pilot-data.cli.ts under scripts/ops/pilot-privacy.sh).  An operator *)
(* stops the application, notes the request in the erasure ledger,         *)
(* archives the ledger, and erases; any step may fail.  A restored         *)
(* database is served again only after the ledger has been replayed on it. *)
(* Erasures are serializable transactions and single steps.                *)
(***************************************************************************)
EXTENDS Naturals, Sequences

CONSTANTS Tenants, People,
          Shops,           \* the tenants that may have a store
          Erasures,        \* what may be asked for (bound)
          MaxEntries,      \* in the ledger (bound)
          MaxBackups, MaxDisasters   \* (bounds)

VARIABLES
    mode,       \* of the application, or of the restoration
    db,         \* the database
    backups,    \* copies of it
    ledger,     \* erasure-ledger.jsonl
    archived,   \* its latest archive
    step,       \* of the erasure in hand: none, prepared, archived
    at,         \* the entry that replay is at
    disasters,
    executed    \* history: erasures whose subjects have not come back since

erasureVars == <<mode, db, backups, ledger, archived, step, at, disasters, executed>>

\* A membership is live or dead; proof is the privacy.identity_erased audit entry
\* of its deletion, by the shared flag it has, again if the email was erased by
\* then; traces are what a person leaves in a tenant: references, recipients,
\* deliveries, chats.
Part == [is : {"none", "live", "dead"}, traces : BOOLEAN,
         proof : {"none", "shared", "sole", "again"}]
NoPart == [is |-> "none", traces |-> FALSE, proof |-> "none"]

\* An erased tenant whose audit entry has expired is unproven.
TenantRow == {"kept", "erased", "unproven"}
StoreRow == {"none", "open", "disconnected", "erased"}

Database == [part : [Tenants -> [People -> Part]], anonymous : SUBSET People,
             store : [Tenants -> StoreRow], tenant : [Tenants -> TenantRow]]

StoreEntry(t) == [kind |-> "store", tenant |-> t]
TenantEntry(t) == [kind |-> "tenant", tenant |-> t]
IdentityEntry(t, u) == [kind |-> "identity", tenant |-> t, user |-> u]

Targets == {StoreEntry(t) : t \in Tenants} \cup {TenantEntry(t) : t \in Tenants}
           \cup {IdentityEntry(t, u) : t \in Tenants, u \in People}

ASSUME ErasureAssumption ==
    /\ Shops \subseteq Tenants /\ Erasures \subseteq Targets
    /\ {MaxEntries, MaxBackups, MaxDisasters} \subseteq Nat

ErasureInit ==
    /\ mode = "up"
    /\ db = [part |-> [t \in Tenants |-> [u \in People |-> NoPart]],
             anonymous |-> {},
             store |-> [t \in Tenants |-> "none"],
             tenant |-> [t \in Tenants |-> "kept"]]
    /\ backups = <<>> /\ ledger = <<>> /\ archived = <<>>
    /\ step = "none" /\ at = 0 /\ disasters = 0 /\ executed = {}

MembersOf(d, t) == {u \in People : d.part[t][u].is # "none"}

\* Mutant: memberships elsewhere are not looked at.
SharedNever(d, t, u) == FALSE

\* otherMemberships: dead ones count.
Shared(d, t, u) == \E other \in Tenants \ {t} : d.part[other][u].is # "none"

-----------------------------------------------------------------------------
(* The application serves.                                                 *)

Serving(changed) ==
    /\ mode = "up" /\ db' = changed
    /\ UNCHANGED <<mode, backups, ledger, archived, step, at, disasters>>

\* A person is added, or added again; what was erased of them does not bind.
Joins(t, u) ==
    /\ db.tenant[t] = "kept" /\ db.part[t][u].is # "live"
    /\ Serving([db EXCEPT !.part[t][u].is = "live", !.part[t][u].proof = "none"])
    /\ executed' = executed \ {IdentityEntry(t, u)}

Acts(t, u) ==
    /\ db.part[t][u].is = "live" /\ u \notin db.anonymous
    /\ Serving([db EXCEPT !.part[t][u].traces = TRUE])
    /\ UNCHANGED executed

Leaves(t, u) ==
    /\ db.part[t][u].is = "live"
    /\ Serving([db EXCEPT !.part[t][u].is = "dead"])
    /\ UNCHANGED executed

\* A store whose id has been erased does not come again.
Opens(t) ==
    /\ db.tenant[t] = "kept" /\ t \in Shops /\ db.store[t] = "none"
    /\ \A i \in DOMAIN ledger : ledger[i] # StoreEntry(t)
    /\ Serving([db EXCEPT !.store[t] = "open"])
    /\ UNCHANGED executed

\* Audit rows are kept for 365 days.
AuditExpires(t, u) ==
    /\ db.part[t][u].proof # "none"
    /\ Serving([db EXCEPT !.part[t][u].proof = "none"])
    /\ UNCHANGED executed

TenantAuditExpires(t) ==
    /\ db.tenant[t] = "erased"
    /\ Serving([db EXCEPT !.tenant[t] = "unproven"])
    /\ UNCHANGED executed

BacksUp ==
    /\ mode = "up" /\ Len(backups) < MaxBackups
    /\ backups' = Append(backups, db)
    /\ UNCHANGED <<mode, db, ledger, archived, step, at, disasters, executed>>

-----------------------------------------------------------------------------
(* What an erasure does.                                                   *)

\* eraseIdentityInTransaction.
IdentityErased(d, t, u) ==
    [d EXCEPT !.part[t][u] = [is |-> "dead", traces |-> FALSE,
                              proof |-> IF Shared(d, t, u) THEN "shared"
                                        ELSE IF u \in d.anonymous THEN "again"
                                        ELSE "sole"],
              !.anonymous = IF Shared(d, t, u) THEN @ ELSE @ \cup {u}]

\* Mutant: a shared identity is never done with.
PartIsErasedSole(d, t, u) ==
    d.part[t][u].is = "dead" /\ u \in d.anonymous /\ d.part[t][u].proof = "sole"

\* identityErasureComplete without a fingerprint.
PartIsErased(d, t, u) ==
    LET part == d.part[t][u]
    IN  /\ part.is = "dead" /\ ~part.traces
        /\ IF Shared(d, t, u) THEN part.proof = "shared"
           ELSE u \in d.anonymous /\ part.proof \in {"sole", "again"}

\* And with the fingerprint of the email, which is compared with the User's if
\* the identity is shared, and with the audit entry's.
IdentityIsErased(d, t, u) ==
    /\ PartIsErased(d, t, u)
    /\ IF Shared(d, t, u) THEN u \notin d.anonymous ELSE d.part[t][u].proof # "again"

\* eraseTenant: those who are not yet erased, one after the other.
TenantErased(d, t) ==
    LET left == {u \in MembersOf(d, t) : ~PartIsErased(d, t, u)}
    IN  [d EXCEPT
           !.part[t] = [u \in People |-> IF u \in left
                           THEN IdentityErased(d, t, u).part[t][u] ELSE @[u]],
           !.anonymous = @ \cup {u \in left : ~Shared(d, t, u)},
           !.tenant[t] = "erased"]

TenantIsErased(d, t) ==
    /\ d.tenant[t] = "erased"
    /\ d.store[t] \in {"none", "erased"}
    /\ \A u \in MembersOf(d, t) : PartIsErased(d, t, u)

\* The fingerprint matches (names and emails do not change here, but for their
\* erasure), and what has to come first has come.
Erasable(d, entry) ==
    LET t == entry.tenant
    IN  CASE entry.kind = "store" -> d.store[t] = "disconnected"
          [] entry.kind = "tenant" ->
                d.tenant[t] = "kept" /\ d.store[t] \in {"none", "erased"}
          [] entry.kind = "identity" ->
                entry.user \in MembersOf(d, t) \ d.anonymous

Erased(d, entry) ==
    CASE entry.kind = "store" -> [d EXCEPT !.store[entry.tenant] = "erased"]
      [] entry.kind = "tenant" -> TenantErased(d, entry.tenant)
      [] entry.kind = "identity" -> IdentityErased(d, entry.tenant, entry.user)

-----------------------------------------------------------------------------
(* The operator.                                                           *)

Stops ==
    /\ mode = "up"
    /\ mode' = "stopped"
    /\ UNCHANGED <<db, backups, ledger, archived, step, at, disasters, executed>>

\* After an erasure, or one that failed on the way.
Resumes ==
    /\ mode \in {"stopped", "replayed"}
    /\ mode' = "up" /\ step' = "none"
    /\ UNCHANGED <<db, backups, ledger, archived, at, disasters, executed>>

Disconnects(t) ==
    /\ mode = "stopped" /\ db.store[t] = "open"
    /\ db' = [db EXCEPT !.store[t] = "disconnected"]
    /\ UNCHANGED <<mode, backups, ledger, archived, step, at, disasters, executed>>

\* A tenant's stores must have their entries, too.
Prepares(entry) ==
    /\ mode = "stopped" /\ step = "none" /\ Len(ledger) < MaxEntries
    /\ Erasable(db, entry)
    /\ entry.kind = "tenant" /\ db.store[entry.tenant] = "erased" =>
          \E i \in DOMAIN ledger : ledger[i] = StoreEntry(entry.tenant)
    /\ ledger' = Append(ledger, entry)
    /\ step' = "prepared"
    /\ UNCHANGED <<mode, db, backups, archived, at, disasters, executed>>

Archives ==
    /\ mode = "stopped" /\ step = "prepared"
    /\ archived' = ledger
    /\ step' = "archived"
    /\ UNCHANGED <<mode, db, backups, ledger, at, disasters, executed>>

\* Mutant: an archive that fails is no reason to stop.
ErasesAnyway ==
    LET entry == ledger[Len(ledger)]
    IN  /\ mode = "stopped" /\ step # "none"
        /\ Erasable(db, entry)
        /\ db' = Erased(db, entry)
        /\ executed' = executed \cup {entry}
        /\ step' = "none"
        /\ UNCHANGED <<mode, backups, ledger, archived, at, disasters>>

Erases ==
    LET entry == ledger[Len(ledger)]
    IN  /\ mode = "stopped" /\ step = "archived"
        /\ Erasable(db, entry)
        /\ db' = Erased(db, entry)
        /\ executed' = executed \cup {entry}
        /\ step' = "none"
        /\ UNCHANGED <<mode, backups, ledger, archived, at, disasters>>

\* The database is lost, perhaps with the ledger beside it.
Restores ==
    /\ disasters < MaxDisasters /\ backups # <<>>
    /\ disasters' = disasters + 1
    /\ \E i \in DOMAIN backups : db' = backups[i]
    /\ ledger' \in {ledger, archived}
    /\ mode' = "restored" /\ step' = "none" /\ at' = 1
    /\ UNCHANGED <<backups, archived, executed>>

\* Is there nothing to do for an entry?
Skips(d, entry) ==
    LET t == entry.tenant
    IN  CASE entry.kind = "store" -> d.store[t] \in {"none", "erased"}
          [] entry.kind = "tenant" -> TenantIsErased(d, t)
          [] entry.kind = "identity" ->
                \/ IdentityIsErased(d, t, entry.user)
                \/ \A other \in Tenants : d.part[other][entry.user].is = "none"

\* A store is disconnected first; all else must be found as it was.
Replayable(d, entry) == entry.kind = "store" \/ Erasable(d, entry)

\* replayLedger, one entry; an entry that cannot be verified ends it.
Replays ==
    /\ mode = "restored" /\ at <= Len(ledger)
    /\ LET entry == ledger[at] IN
       \/ Skips(db, entry) /\ UNCHANGED db
       \/ /\ ~Skips(db, entry) /\ Replayable(db, entry)
          /\ db' = Erased(db, entry)
    /\ at' = at + 1
    /\ UNCHANGED <<mode, backups, ledger, archived, step, disasters, executed>>

\* A replay that fails is begun again.
ReplayStops ==
    /\ mode = "restored" /\ at > 1
    /\ at' = 1
    /\ UNCHANGED <<mode, db, backups, ledger, archived, step, disasters, executed>>

ReplayEnds ==
    /\ mode = "restored" /\ at > Len(ledger)
    /\ mode' = "replayed"
    /\ at' = 0
    /\ UNCHANGED <<db, backups, ledger, archived, step, disasters, executed>>

ErasureNext ==
    \/ \E t \in Tenants :
          \/ Opens(t) \/ Disconnects(t) \/ TenantAuditExpires(t)
          \/ \E u \in People :
                Joins(t, u) \/ Acts(t, u) \/ Leaves(t, u) \/ AuditExpires(t, u)
    \/ \E entry \in Erasures : Prepares(entry)
    \/ BacksUp \/ Stops \/ Resumes \/ Archives \/ Erases
    \/ Restores \/ Replays \/ ReplayStops \/ ReplayEnds

ErasureSpec == ErasureInit /\ [][ErasureNext]_erasureVars

-----------------------------------------------------------------------------
(* Properties.                                                             *)

\* A proof is of a deletion; an erasure in hand has its entry at the end.
ErasureTypeOK ==
    /\ mode \in {"up", "stopped", "restored", "replayed"}
    /\ db \in Database
    /\ \A t \in Tenants, u \in People :
          LET part == db.part[t][u]
          IN  /\ part.proof # "none" => part.is = "dead" /\ ~part.traces
              /\ part.is = "none" => ~part.traces
    /\ \A d \in {backups[i] : i \in DOMAIN backups} : d \in Database
    /\ ledger \in Seq(Targets) /\ archived \in Seq(Targets)
    /\ step \in {"none", "prepared", "archived"}
    /\ step # "none" => ledger # <<>>
    /\ at \in 0 .. MaxEntries + 1 /\ disasters \in 0 .. MaxDisasters
    /\ executed \subseteq Targets

IsGone(d, entry) ==
    LET t == entry.tenant
    IN  CASE entry.kind = "store" -> d.store[t] \in {"none", "erased"}
          [] entry.kind = "tenant" ->
                d.tenant[t] # "kept" /\ d.store[t] \in {"none", "erased"}
          [] entry.kind = "identity" ->
                /\ d.part[t][entry.user].is # "live"
                /\ ~d.part[t][entry.user].traces
                /\ ~Shared(d, t, entry.user) /\ entry.user \in MembersOf(d, t) =>
                      entry.user \in d.anonymous

\* Whatever backup was restored, and wherever an erasure or a replay broke off,
\* the application serves nothing that has been erased.
ErasedStaysErased == mode = "up" => \A entry \in executed : IsGone(db, entry)

\* A second replay has nothing to do.
ReplayConverges ==
    mode = "replayed" => \A i \in DOMAIN ledger : Skips(db, ledger[i])

\* No erasure, first or replayed, anonymises a user whom another tenant still has.
OthersKeepTheirUser ==
    [][\A u \in db'.anonymous \ db.anonymous :
          db' \notin {backups[i] : i \in DOMAIN backups} =>
              \A t \in Tenants : db'.part[t][u].is # "live"]_erasureVars
=============================================================================
