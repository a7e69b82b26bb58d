------------------------------ MODULE Memberships ------------------------------
(***************************************************************************)
(* The members of one tenant (backend/src/memberships/                     *)
(* memberships.service.ts, with the guard in front of it and the tenant's  *)
(* own deletion).  A request reads its actor's role once, in the guard;    *)
(* what it changes it reads in a serializable transaction, which commits   *)
(* only if nothing it has read was changed meanwhile; the audit entry is   *)
(* written afterwards and can be lost.                                     *)
(***************************************************************************)
EXTENDS Naturals, FiniteSets

CONSTANTS Users, Founder, Calls, NoUser

ASSUME MembershipsAssumption == Founder \in Users /\ NoUser \notin Users

MembershipRole == {"OWNER", "ADMIN", "MEMBER"}
Managers == {"OWNER", "ADMIN"}

VARIABLES
    tenantLive,   \* Tenant.deletedAt is null
    member,       \* Membership records
    call          \* what each request is doing

membershipVars == <<tenantLive, member, call>>

Membership == [exists : BOOLEAN, live : BOOLEAN, role : MembershipRole]
NoMembership == [exists |-> FALSE, live |-> FALSE, role |-> "MEMBER"]
Is(role) == [exists |-> TRUE, live |-> TRUE, role |-> role]

CallKind == {"add", "update", "remove"}
NoCall == [step |-> "off", kind |-> "add", actorRole |-> "MEMBER", target |-> NoUser,
           to |-> "MEMBER", seen |-> NoMembership, owners |-> {}]

Owners == {u \in Users : member[u].live /\ member[u].role = "OWNER"}

\* createTenant makes its user the first owner.
MembershipsInit ==
    /\ tenantLive = TRUE
    /\ member = [u \in Users |-> IF u = Founder THEN Is("OWNER") ELSE NoMembership]
    /\ call = [c \in Calls |-> NoCall]

-----------------------------------------------------------------------------
CallIs(c, to) == call' = [call EXCEPT ![c] = to]

Refused(c) == CallIs(c, NoCall) /\ UNCHANGED <<tenantLive, member>>

\* What is left is the audit entry.
Done(c) == CallIs(c, [NoCall EXCEPT !.step = "audit", !.target = call[c].target,
                                    !.actorRole = call[c].actorRole])

\* Mutant: every member passes.
GuardAnyRole(c, actor, kind, target, to) ==
    /\ call[c].step = "off"
    /\ tenantLive /\ member[actor].live
    /\ CallIs(c, [NoCall EXCEPT !.step = "begin", !.kind = kind, !.target = target,
                                !.to = to, !.actorRole = member[actor].role])
    /\ UNCHANGED <<tenantLive, member>>

\* The guard, and what a request is refused for before it reads anything else.
Guard(c, actor, kind, target, to) ==
    /\ call[c].step = "off"
    /\ tenantLive /\ member[actor].live /\ member[actor].role \in Managers
    /\ IF kind = "remove" THEN to = "MEMBER"
       ELSE to = "OWNER" => member[actor].role = "OWNER"
    /\ CallIs(c, [NoCall EXCEPT !.step = "begin", !.kind = kind, !.target = target,
                                !.to = to, !.actorRole = member[actor].role])
    /\ UNCHANGED <<tenantLive, member>>

\* addMembership looks, outside of any transaction.
Looks(c) ==
    LET r == call[c] IN
    /\ r.step = "begin" /\ r.kind = "add"
    /\ IF member[r.target].live THEN Refused(c)
       ELSE /\ CallIs(c, [r EXCEPT !.step = "write", !.seen = member[r.target]])
            /\ UNCHANGED <<tenantLive, member>>

\* The record is created, once per user, or revived if it is still dead.
Adds(c) ==
    LET r == call[c] IN
    /\ r.step = "write" /\ r.kind = "add"
    /\ IF member[r.target].exists = r.seen.exists /\ ~member[r.target].live
       THEN /\ member' = [member EXCEPT ![r.target] = Is(r.to)]
            /\ Done(c)
            /\ UNCHANGED tenantLive
       ELSE Refused(c)

\* Who may be managed by whom.
Manageable(r, role) ==
    r.actorRole = "ADMIN" => role # "OWNER" /\ (r.kind = "update" => r.to # "OWNER")

Disowns(r, role) == role = "OWNER" /\ (r.kind = "update" => r.to # "OWNER")

\* updateMembershipRole and removeMembership read in their transaction.
Reads(c) ==
    LET r == call[c]
        seen == member[r.target]
    IN  /\ r.step = "begin" /\ r.kind # "add"
        /\ IF /\ tenantLive /\ seen.live
              /\ Manageable(r, seen.role)
              /\ Disowns(r, seen.role) => Cardinality(Owners) > 1
              /\ r.kind = "update" => r.to # seen.role
           THEN /\ CallIs(c, [r EXCEPT !.step = "write", !.seen = seen, !.owners = Owners])
                /\ UNCHANGED <<tenantLive, member>>
           ELSE Refused(c)

\* Mutant: the transaction runs at the default isolation.
UndisturbedByRole(r) == member[r.target].live /\ member[r.target].role = r.seen.role

\* Mutant: and its update names the record only.
UndisturbedById(r) == member[r.target].live

\* Serializable: what the transaction has read is still so.
Undisturbed(r) ==
    /\ tenantLive /\ member[r.target] = r.seen
    /\ Disowns(r, r.seen.role) => Owners = r.owners

Commits(c) ==
    LET r == call[c] IN
    /\ r.step = "write" /\ r.kind # "add"
    /\ IF Undisturbed(r)
       THEN /\ member' = [member EXCEPT ![r.target] =
                   IF r.kind = "remove" THEN [@ EXCEPT !.live = FALSE]
                   ELSE [@ EXCEPT !.role = r.to]]
            /\ Done(c)
            /\ UNCHANGED tenantLive
       ELSE Refused(c)

\* The audit entry is written, or the process dies first.
Audits(c) == call[c].step = "audit" /\ Refused(c)

MembershipDies(c) == call[c].step # "off" /\ Refused(c)

\* softDeleteCurrentTenant, of an owner.
SoftDeletesTenant ==
    /\ tenantLive /\ Owners # {}
    /\ tenantLive' = FALSE
    /\ UNCHANGED <<member, call>>

MembershipsNext ==
    \/ \E c \in Calls :
          \/ \E actor, target \in Users, kind \in CallKind, to \in MembershipRole :
                Guard(c, actor, kind, target, to)
          \/ Looks(c) \/ Adds(c) \/ Reads(c) \/ Commits(c) \/ Audits(c)
          \/ MembershipDies(c)
    \/ SoftDeletesTenant

MembershipsSpec == MembershipsInit /\ [][MembershipsNext]_membershipVars

-----------------------------------------------------------------------------
(* Properties.                                                             *)

\* Whoever is at work is a manager; a dead membership had its day.
MembershipsTypeOK ==
    /\ tenantLive \in BOOLEAN
    /\ member \in [Users -> Membership]
    /\ \A u \in Users : member[u].live => member[u].exists
    /\ call \in [Calls -> [step : {"off", "begin", "write", "audit"}, kind : CallKind,
                           actorRole : MembershipRole, target : Users \cup {NoUser},
                           to : MembershipRole, seen : Membership,
                           owners : SUBSET Users]]
    /\ \A c \in Calls : call[c].step # "off" =>
          call[c].actorRole \in Managers /\ call[c].target \in Users

\* "The last remaining owner cannot be removed or demoted", also not by two
\* requests that each still see the other's owner.
OwnerRemains == Owners # {}

\* "An admin cannot manage owner memberships": an owner's membership changes,
\* and another becomes an owner's, in the transaction of a request that was let
\* in as an owner's, whatever has become of the target since it was read.
OwnersAreForOwners ==
    [][\A u \in Users :
          /\ member'[u] # member[u]
          /\ \/ member[u].live /\ member[u].role = "OWNER"
             \/ member'[u].live /\ member'[u].role = "OWNER"
          => \E c \in Calls : /\ call[c].step = "write" /\ call[c].target = u
                              /\ call[c].actorRole = "OWNER"
                              /\ call'[c].step = "audit"]_membershipVars
=============================================================================
