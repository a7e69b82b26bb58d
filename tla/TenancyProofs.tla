------------------------------ MODULE TenancyProofs ------------------------------
(***************************************************************************)
(* Theorems about who belongs to a tenant and what belongs to it: its      *)
(* memberships, its Telegram links, its store's credentials, and what is   *)
(* erased of them.  They hold for any number of users, calls, tokens,      *)
(* updates, requests, credentials, tenants, backups and erasures.          *)
(***************************************************************************)
EXTENDS MCTenancy, NumbersInOrderProofs, FiniteSetTheorems, TLAPS

-----------------------------------------------------------------------------
(* Memberships: a tenant keeps an owner, and owners are changed by owners  *)
(* only.                                                                   *)

Call == [step : {"off", "begin", "write", "audit"}, kind : CallKind,
         actorRole : MembershipRole, target : Users \cup {NoUser},
         to : MembershipRole, seen : Membership, owners : SUBSET Users]

MembersTyped ==
    /\ tenantLive \in BOOLEAN
    /\ member \in [Users -> Membership]
    /\ call \in [Calls -> Call]
    /\ \A c \in Calls : call[c].step # "off" =>
          call[c].actorRole \in Managers /\ call[c].target \in Users

\* What a request that is about to write has been let through with: an ADMIN
\* neither meets nor makes an owner, and whoever takes an owner away has read
\* that there is another.
Allowed(r) ==
    /\ r.step \in {"begin", "write"} /\ r.to = "OWNER" /\ r.kind # "remove" =>
          r.actorRole = "OWNER"
    /\ r.step = "write" /\ r.kind # "add" =>
          /\ r.seen.live
          /\ r.seen.role = "OWNER" => r.actorRole = "OWNER"
          /\ Disowns(r, r.seen.role) => Cardinality(r.owners) > 1

CallInv == \A c \in Calls : Allowed(call[c])

MemberInv == MembersTyped /\ CallInv /\ Owners # {}

USE DEF CallKind, MembershipRole, Managers

LEMMA NoCallType == NoCall \in Call
  BY DEF NoCall, Call, NoMembership, Membership

LEMMA MemberInit == MembershipsInit => MemberInv
<1> SUFFICES ASSUME MembershipsInit PROVE MemberInv
  OBVIOUS
<1> USE MembershipsAssumption DEF MembershipsInit
<1>1. MembersTyped
  BY NoCallType DEF MembersTyped, NoCall, Is, NoMembership, Membership
<1>2. CallInv
  BY DEF CallInv, Allowed, NoCall
<1>3. Founder \in Owners
  BY DEF Owners, Is
<1> QED
  BY <1>1, <1>2, <1>3 DEF MemberInv

\* One call changes; what is said of the others stays.
LEMMA OneCall ==
    ASSUME MembersTyped, CallInv, NEW c \in Calls, NEW to \in Call, CallIs(c, to),
           to.step # "off" => to.actorRole \in Managers /\ to.target \in Users,
           Allowed(to), member' \in [Users -> Membership], tenantLive' \in BOOLEAN
    PROVE  MembersTyped' /\ CallInv'
<1>1. call' \in [Calls -> Call]
  BY DEF MembersTyped, CallIs
<1>2. \A d \in Calls : call'[d] = IF d = c THEN to ELSE call[d]
  BY DEF MembersTyped, CallIs
<1>3. MembersTyped'
  BY <1>1, <1>2 DEF MembersTyped
<1>4. CallInv'
  BY <1>2, Zenon DEF CallInv
<1> QED
  BY <1>3, <1>4

LEMMA RefusedKeeps ==
    ASSUME MemberInv, NEW c \in Calls, Refused(c)
    PROVE  MemberInv'
<1>1. Allowed(NoCall)
  BY DEF Allowed, NoCall
<1>2. MembersTyped' /\ CallInv'
  BY <1>1, NoCallType, OneCall DEF Refused, MemberInv, MembersTyped, NoCall
<1>3. Owners' = Owners
  BY DEF Refused, Owners
<1> QED
  BY <1>2, <1>3 DEF MemberInv

\* The members change, and an owner is left.
LEMMA DoneKeeps ==
    ASSUME MemberInv, NEW c \in Calls, call[c].step # "off", Done(c), UNCHANGED tenantLive,
           member' \in [Users -> Membership], Owners' # {}
    PROVE  MemberInv'
<1> DEFINE to == [NoCall EXCEPT !.step = "audit", !.target = call[c].target,
                                !.actorRole = call[c].actorRole]
<1>1. call[c] \in Call /\ call[c].actorRole \in Managers /\ call[c].target \in Users
  BY DEF MemberInv, MembersTyped
<1>2. to \in Call /\ to.step = "audit" /\ to.actorRole \in Managers /\ to.target \in Users
  BY <1>1, NoCallType DEF NoCall, Call, NoMembership, Membership
<1>3. Allowed(to)
  BY <1>2 DEF Allowed
<1>4. CallIs(c, to)
  BY DEF Done
<1>5. MembersTyped' /\ CallInv'
  <2> HIDE DEF to
  <2> QED
    BY <1>2, <1>3, <1>4, OneCall DEF MemberInv, MembersTyped
<1> QED
  BY <1>5 DEF MemberInv

LEMMA GuardKeeps ==
    ASSUME MemberInv, NEW c \in Calls, NEW actor \in Users, NEW target \in Users,
           NEW what \in CallKind, NEW to \in MembershipRole,
           Guard(c, actor, what, target, to)
    PROVE  MemberInv'
<1> DEFINE r == [NoCall EXCEPT !.step = "begin", !.kind = what, !.target = target,
                               !.to = to, !.actorRole = member[actor].role]
<1>1. member[actor].role \in Managers
  BY DEF Guard
<1>2. r \in Call /\ r.step = "begin" /\ r.kind = what /\ r.to = to
      /\ r.actorRole = member[actor].role /\ r.target = target
  BY <1>1 DEF NoCall, Call, NoMembership, Membership
<1>3. Allowed(r)
  BY <1>1, <1>2 DEF Allowed, Guard
<1>4. CallIs(c, r) /\ UNCHANGED <<tenantLive, member>>
  BY DEF Guard
<1>5. MembersTyped' /\ CallInv'
  <2> HIDE DEF r
  <2> QED
    BY <1>1, <1>2, <1>3, <1>4, OneCall DEF MemberInv, MembersTyped
<1>6. Owners' = Owners
  BY <1>4 DEF Owners
<1> QED
  BY <1>5, <1>6 DEF MemberInv

\* addMembership reads; the two others read and are let through.
LEMMA ReadsKeep ==
    ASSUME MemberInv, NEW c \in Calls, Looks(c) \/ Reads(c)
    PROVE  MemberInv'
<1> DEFINE r == call[c]
<1>1. r \in Call /\ r.step = "begin" /\ r.actorRole \in Managers /\ r.target \in Users
      /\ member[r.target] \in Membership
  BY DEF MemberInv, MembersTyped, Looks, Reads
<1>2. CASE Refused(c)
  BY <1>2, RefusedKeeps
<1>3. ASSUME NEW owners \in SUBSET Users,
             CallIs(c, [r EXCEPT !.step = "write", !.seen = member[r.target],
                                 !.owners = owners]),
             UNCHANGED <<tenantLive, member>>,
             r.kind # "add" =>
                 /\ member[r.target].live
                 /\ member[r.target].role = "OWNER" => r.actorRole = "OWNER"
                 /\ Disowns(r, member[r.target].role) => Cardinality(owners) > 1
      PROVE  MemberInv'
  <2> DEFINE next == [r EXCEPT !.step = "write", !.seen = member[r.target],
                               !.owners = owners]
  <2>1. /\ next \in Call /\ next.step = "write" /\ next.kind = r.kind /\ next.to = r.to
        /\ next.actorRole = r.actorRole /\ next.target = r.target
        /\ next.seen = member[r.target] /\ next.owners = owners
    BY <1>1 DEF Call
  <2>2. Allowed(r)
    BY DEF MemberInv, CallInv
  <2>3. Allowed(next)
    BY <1>1, <1>3, <2>1, <2>2 DEF Allowed, Disowns
  <2>4. CallIs(c, next)
    BY <1>3
  <2>5. MembersTyped' /\ CallInv'
    <3> HIDE DEF next
    <3> QED
      BY <1>1, <1>3, <2>1, <2>3, <2>4, OneCall DEF MemberInv, MembersTyped
  <2>6. Owners' = Owners
    BY <1>3 DEF Owners
  <2> QED
    BY <2>5, <2>6 DEF MemberInv
<1>4. CASE Looks(c) /\ ~Refused(c)
  <2>1. /\ CallIs(c, [r EXCEPT !.step = "write", !.seen = member[r.target]])
        /\ r.kind = "add" /\ UNCHANGED <<tenantLive, member>>
    BY <1>4 DEF Looks
  <2>2. [r EXCEPT !.step = "write", !.seen = member[r.target]]
        = [r EXCEPT !.step = "write", !.seen = member[r.target], !.owners = r.owners]
    BY <1>1 DEF Call
  <2>3. r.owners \in SUBSET Users
    BY <1>1 DEF Call
  <2> QED
    BY <1>3, <2>1, <2>2, <2>3
<1>5. CASE Reads(c) /\ ~Refused(c)
  <2>1. /\ CallIs(c, [r EXCEPT !.step = "write", !.seen = member[r.target],
                               !.owners = Owners])
        /\ UNCHANGED <<tenantLive, member>>
        /\ member[r.target].live /\ Manageable(r, member[r.target].role)
        /\ Disowns(r, member[r.target].role) => Cardinality(Owners) > 1
    BY <1>5 DEF Reads
  <2>2. member[r.target].role = "OWNER" => r.actorRole = "OWNER"
    BY <1>1, <2>1 DEF Manageable
  <2>3. Owners \in SUBSET Users
    BY DEF Owners
  <2> QED
    BY <1>3, <2>1, <2>2, <2>3
<1> QED
  BY <1>2, <1>4, <1>5

LEMMA AddsKeep ==
    ASSUME MemberInv, NEW c \in Calls, Adds(c)
    PROVE  MemberInv'
<1>1. CASE Refused(c)
  BY <1>1, RefusedKeeps
<1>2. CASE ~Refused(c)
  <2>1. /\ ~member[call[c].target].live /\ call[c].step = "write"
        /\ member' = [member EXCEPT ![call[c].target] = Is(call[c].to)]
        /\ Done(c) /\ UNCHANGED tenantLive
    BY <1>2 DEF Adds
  <2>2. call[c] \in Call /\ call[c].target \in Users
    BY <2>1 DEF MemberInv, MembersTyped
  <2>3. Is(call[c].to) \in Membership
    BY <2>2 DEF Is, Membership, Call
  <2>4. member' \in [Users -> Membership]
    BY <2>1, <2>3 DEF MemberInv, MembersTyped
  <2>5. \A u \in Owners : u \in Owners'
    BY <2>1 DEF Owners, MemberInv, MembersTyped
  <2> QED
    BY <2>1, <2>4, <2>5, DoneKeeps DEF MemberInv
<1> QED
  BY <1>1, <1>2

\* Whoever takes an owner away still finds the owners it has read, two at least.
LEMMA CommitsKeep ==
    ASSUME MemberInv, NEW c \in Calls, Commits(c)
    PROVE  MemberInv'
<1>1. CASE Refused(c)
  BY <1>1, RefusedKeeps
<1>2. CASE ~Refused(c)
  <2> DEFINE r == call[c]
             became == IF r.kind = "remove" THEN [member[r.target] EXCEPT !.live = FALSE]
                       ELSE [member[r.target] EXCEPT !.role = r.to]
  <2>1. /\ r.step = "write" /\ r.kind # "add" /\ Undisturbed(r)
        /\ member' = [member EXCEPT ![r.target] = became]
        /\ Done(c) /\ UNCHANGED tenantLive
    BY <1>2 DEF Commits
  <2>2. r \in Call /\ r.target \in Users /\ member \in [Users -> Membership]
    BY <2>1 DEF MemberInv, MembersTyped
  <2>3. became \in Membership
    BY <2>2 DEF Membership, Call
  <2>4. member' \in [Users -> Membership]
    BY <2>1, <2>2, <2>3
  <2>5. \A u \in Users : u # r.target => member'[u] = member[u]
    BY <2>1, <2>2
  <2>6. Owners' # {}
    <3>1. CASE Disowns(r, r.seen.role)
      <4>1. Cardinality(Owners) > 1
        BY <2>1, <3>1 DEF MemberInv, CallInv, Allowed, Undisturbed
      <4> DEFINE alone == {r.target}
      <4>2. Cardinality({}) = 0 /\ Cardinality(alone) = 1
        BY FS_EmptySet, FS_Singleton
      <4> HIDE DEF alone
      <4>3. Owners # {} /\ Owners # alone
        BY <4>1, <4>2
      <4>4. PICK u \in Owners : u # r.target
        BY <4>3 DEF alone
      <4>5. u \in Owners'
        BY <2>5, <4>4 DEF Owners
      <4> QED
        BY <4>5
    <3>2. CASE ~Disowns(r, r.seen.role)
      <4>1. PICK u \in Owners : TRUE
        BY DEF MemberInv
      <4>2. CASE u # r.target
        <5>1. u \in Owners'
          BY <2>5, <4>2 DEF Owners
        <5> QED
          BY <5>1
      <4>3. CASE u = r.target
        <5>1. member[u].live /\ r.seen.role = "OWNER"
          BY <2>1, <4>3 DEF Owners, Undisturbed
        <5>2. r.kind = "update" /\ r.to = "OWNER"
          BY <2>1, <2>2, <3>2, <5>1 DEF Disowns, Call
        <5>3. became = [member[u] EXCEPT !.role = "OWNER"]
          BY <4>3, <5>2
        <5>4. member'[u] = became
          BY <2>1, <2>2, <4>3
        <5>5. member[u] \in Membership /\ u \in Users
          BY <2>2, <4>3
        <5>6. became.live /\ became.role = "OWNER"
          BY <5>1, <5>3, <5>5 DEF Membership
        <5> HIDE DEF became
        <5>7. u \in Owners'
          BY <5>4, <5>5, <5>6 DEF Owners
        <5> QED
          BY <5>7
      <4> QED
        BY <4>2, <4>3
    <3> QED
      BY <3>1, <3>2
  <2> QED
    BY <2>1, <2>4, <2>6, DoneKeeps DEF MemberInv
<1> QED
  BY <1>1, <1>2

LEMMA MemberStep == MemberInv /\ [MembershipsNext]_membershipVars => MemberInv'
<1> SUFFICES ASSUME MemberInv, [MembershipsNext]_membershipVars PROVE MemberInv'
  OBVIOUS
<1>1. CASE UNCHANGED membershipVars
  BY <1>1 DEF membershipVars, MemberInv, MembersTyped, CallInv, Owners
<1>2. CASE SoftDeletesTenant
  <2>1. tenantLive' \in BOOLEAN /\ UNCHANGED <<member, call>>
    BY <1>2 DEF SoftDeletesTenant
  <2> QED
    BY <2>1 DEF MemberInv, MembersTyped, CallInv, Owners
<1>3. ASSUME NEW c \in Calls, NEW actor \in Users, NEW target \in Users,
             NEW what \in CallKind, NEW to \in MembershipRole,
             Guard(c, actor, what, target, to)
      PROVE  MemberInv'
  BY <1>3, GuardKeeps
<1>4. ASSUME NEW c \in Calls,
             Looks(c) \/ Adds(c) \/ Reads(c) \/ Commits(c) \/ Audits(c)
             \/ MembershipDies(c)
      PROVE  MemberInv'
  BY <1>4, ReadsKeep, AddsKeep, CommitsKeep, RefusedKeeps DEF Audits, MembershipDies
<1>5. CASE MembershipsNext
  BY <1>2, <1>3, <1>4, <1>5 DEF MembershipsNext
<1> QED
  BY <1>1, <1>5

LEMMA MembersStay == MembershipsSpec => []MemberInv
BY MemberInit, MemberStep, PTL DEF MembershipsSpec

-----------------------------------------------------------------------------
\* A tenant keeps an owner, whatever requests remove and demote owners at the same
\* time (updateMembershipRole and removeMembership under SERIALIZABLE).
THEOREM AnOwnerRemains == MembershipsSpec => []OwnerRemains
<1>1. MemberInv => OwnerRemains
  BY DEF MemberInv, OwnerRemains
<1> QED
  BY <1>1, MembersStay, PTL

OwnersStep ==
    \A u \in Users :
          /\ member'[u] # member[u]
          /\ \/ member[u].live /\ member[u].role = "OWNER"
             \/ member'[u].live /\ member'[u].role = "OWNER"
          => \E c \in Calls : /\ call[c].step = "write" /\ call[c].target = u
                              /\ call[c].actorRole = "OWNER"
                              /\ call'[c].step = "audit"

\* An owner's membership is changed, and another made an owner's, only by a request
\* that was let in as an owner's, whatever has become of it since (the guard and the
\* transactions of MembershipsService).
THEOREM OwnersChangeOwners == MembershipsSpec => OwnersAreForOwners
<1>1. MemberInv /\ [MembershipsNext]_membershipVars => [OwnersStep]_membershipVars
  <2> SUFFICES ASSUME MemberInv, MembershipsNext, NEW u \in Users,
                      member'[u] # member[u],
                      \/ member[u].live /\ member[u].role = "OWNER"
                      \/ member'[u].live /\ member'[u].role = "OWNER"
               PROVE  \E c \in Calls : /\ call[c].step = "write" /\ call[c].target = u
                                       /\ call[c].actorRole = "OWNER"
                                       /\ call'[c].step = "audit"
    BY DEF OwnersStep
  <2>1. PICK c \in Calls : (Adds(c) \/ Commits(c)) /\ ~Refused(c)
    BY DEF MembershipsNext, Guard, Looks, Reads, Audits, MembershipDies, Refused,
           SoftDeletesTenant
  <2> DEFINE r == call[c]
  <2>2. r.step = "write" /\ Done(c)
    BY <2>1 DEF Adds, Commits
  <2>3. r \in Call /\ r.target \in Users /\ r.actorRole \in Managers /\ Allowed(r)
        /\ member \in [Users -> Membership]
    BY <2>2 DEF MemberInv, MembersTyped, CallInv
  <2>4. call'[c].step = "audit"
    <3> DEFINE done == [NoCall EXCEPT !.step = "audit", !.target = r.target,
                                      !.actorRole = r.actorRole]
    <3>1. done.step = "audit"
      BY DEF NoCall
    <3>2. call' = [call EXCEPT ![c] = done]
      BY <2>2 DEF Done, CallIs
    <3> HIDE DEF done
    <3> QED
      BY <3>1, <3>2 DEF MemberInv, MembersTyped
  <2>5. u = r.target
    BY <2>1, <2>3 DEF Adds, Commits
  <2>6. r.actorRole = "OWNER"
    <3>1. CASE Adds(c)
      <4>1. ~member[u].live /\ member'[u] = Is(r.to) /\ r.kind = "add"
        BY <2>1, <2>3, <2>5, <3>1 DEF Adds
      <4>2. r.to = "OWNER"
        BY <4>1 DEF Is
      <4> QED
        BY <2>2, <2>3, <4>1, <4>2 DEF Allowed
    <3>2. CASE Commits(c)
      <4>1. member[u] = r.seen /\ r.kind # "add"
        BY <2>1, <2>5, <3>2 DEF Commits, Undisturbed
      <4>2. CASE member[u].live /\ member[u].role = "OWNER"
        BY <2>2, <2>3, <4>1, <4>2 DEF Allowed
      <4>3. CASE member'[u].live /\ member'[u].role = "OWNER" /\ member[u].role # "OWNER"
        <5>1. r.kind # "remove"
          BY <2>1, <2>3, <2>5, <3>2, <4>3 DEF Commits, Membership
        <5>2. member'[u].role = r.to
          BY <2>1, <2>3, <2>5, <3>2, <5>1 DEF Commits, Membership
        <5> QED
          BY <2>2, <2>3, <4>3, <5>1, <5>2 DEF Allowed
      <4>4. member[u].live
        BY <2>2, <2>3, <4>1 DEF Allowed
      <4> QED
        BY <4>2, <4>3, <4>4
    <3> QED
      BY <2>1, <3>1, <3>2
  <2> QED
    BY <2>2, <2>4, <2>5, <2>6
<1> QED
  BY <1>1, MembersStay, PTL DEF MembershipsSpec, OwnersStep, OwnersAreForOwners

\* A membership that is live has a record.
AliveInv == \A u \in Users : member[u].live => member[u].exists

LEMMA AliveInitial == MembershipsInit => AliveInv
BY DEF MembershipsInit, AliveInv, Is, NoMembership

LEMMA AliveStep == MemberInv /\ AliveInv /\ [MembershipsNext]_membershipVars => AliveInv'
<1> SUFFICES ASSUME MemberInv, AliveInv, [MembershipsNext]_membershipVars PROVE AliveInv'
  OBVIOUS
<1>1. CASE UNCHANGED member
  BY <1>1 DEF AliveInv
<1>2. ASSUME NEW c \in Calls, Adds(c), member' # member PROVE AliveInv'
  <2>1. member' = [member EXCEPT ![call[c].target] = Is(call[c].to)]
    BY <1>2 DEF Adds, Refused
  <2> QED
    BY <2>1 DEF AliveInv, MemberInv, MembersTyped, Is
<1>3. ASSUME NEW c \in Calls, Commits(c), member' # member PROVE AliveInv'
  <2> DEFINE u == call[c].target
  <2>1. /\ member[u].live /\ u \in Users
        /\ \/ member' = [member EXCEPT ![u] = [member[u] EXCEPT !.live = FALSE]]
           \/ member' = [member EXCEPT ![u] = [member[u] EXCEPT !.role = call[c].to]]
    <3>1. call[c].step = "write" /\ call[c].kind # "add" /\ Undisturbed(call[c])
      BY <1>3 DEF Commits, Refused
    <3>2. call[c].seen.live /\ u \in Users
      BY <3>1 DEF MemberInv, MembersTyped, CallInv, Allowed
    <3> QED
      BY <1>3, <3>1, <3>2 DEF Commits, Refused, Undisturbed
  <2>2. member \in [Users -> Membership]
    BY DEF MemberInv, MembersTyped
  <2> QED
    BY <2>1, <2>2 DEF AliveInv, Membership
<1>4. CASE MembershipsNext /\ member' # member
  BY <1>2, <1>3, <1>4
     DEF MembershipsNext, Guard, Looks, Reads, Audits, MembershipDies, SoftDeletesTenant, Refused
<1> QED
  BY <1>1, <1>4 DEF membershipVars

LEMMA MembersTypes == MemberInv /\ AliveInv => MembershipsTypeOK
BY DEF MemberInv, MembersTyped, AliveInv, MembershipsTypeOK, Call

\* The records of members and requests keep their types, a live membership has its
\* record, and whoever is at work is a manager (MembershipsService and its guard).
THEOREM MembershipsTypeCorrect == MembershipsSpec => []MembershipsTypeOK
BY MembersTypes, MembersStay, AliveInitial, AliveStep, PTL DEF MembershipsSpec

-----------------------------------------------------------------------------
(* TelegramLinking: a redemption takes effect once, and a Telegram identity *)
(* changes hands only after it was unlinked.                               *)

Update == [from : TelegramUsers, what : LinkTokens \cup {"unlink"}]
AnyToken == LinkToken \cup {NotIssued}

BotInv ==
    /\ sent \in Seq(Update) /\ Len(sent) <= MaxUpdates
    /\ confirmed \in Nat /\ tried \in Nat
    /\ wire \in [UpdateIds -> Nat]
    /\ \A i \in UpdateIds : wire[i] > 0 => i \in DOMAIN sent

LinksTyped ==
    /\ account \in [TelegramUsers -> Account \cup {NoAccount}]
    /\ linkToken \in [LinkTokens -> AnyToken]
    /\ effects \in [UpdateIds -> Nat]

\* What an update has done: a redemption has consumed its token.
Spent(i) ==
    IF i \in DOMAIN sent
    THEN sent[i].what \in LinkTokens =>
             \/ effects[i] = 0
             \/ effects[i] = 1 /\ linkToken[sent[i].what].age = "consumed"
    ELSE effects[i] = 0

EffectInv == \A i \in UpdateIds : Spent(i)

\* A SaaS user has one Telegram identity at most.
OneIdentity ==
    \A s, t \in TelegramUsers :
        Linked(s) /\ Linked(t) /\ account[s].user = account[t].user => s = t

LinkInv == BotInv /\ LinksTyped /\ EffectInv /\ OneIdentity

LEMMA LinkInitial == LinkInit => LinkInv
BY BotAssumption
   DEF LinkInit, BotInit, LinkInv, BotInv, LinksTyped, EffectInv, Spent, OneIdentity, Linked,
       UpdateIds, AnyToken

LEMMA UpdateNumbers ==
    /\ MaxUpdates \in Nat
    /\ \A i : i \in UpdateIds <=> i \in Nat /\ 1 <= i /\ i <= MaxUpdates
BY BotAssumption DEF UpdateIds

-----------------------------------------------------------------------------
(* The bot.                                                                *)

LEMMA SentIsUpdate == LinkInv => \A i \in DOMAIN sent : sent[i] \in Update
BY DEF LinkInv, BotInv

LEMMA SendsSafely ==
    ASSUME LinkInv, NEW t \in TelegramUsers, NEW what \in LinkTokens \cup {"unlink"},
           Sends(t, what), UNCHANGED linkVars
    PROVE  LinkInv'
<1> USE DEF LinkInv
<1> DEFINE update == [from |-> t, what |-> what]
<1>1. /\ sent' = Append(sent, update) /\ update \in Update /\ Len(sent) < MaxUpdates
      /\ UNCHANGED <<confirmed, tried, wire>>
  BY DEF Sends, Update
<1> HIDE DEF update
<1>2. /\ sent' \in Seq(Update) /\ Len(sent') = Len(sent) + 1 /\ Len(sent) \in Nat
      /\ \A i \in DOMAIN sent : i \in DOMAIN sent' /\ sent'[i] = sent[i]
      /\ \A i \in DOMAIN sent' : i \in DOMAIN sent \/ i = Len(sent) + 1
      /\ Len(sent) + 1 \notin DOMAIN sent
  BY <1>1 DEF BotInv
<1>3. BotInv'
  BY <1>1, <1>2, UpdateNumbers DEF BotInv
<1>4. UNCHANGED <<account, linkToken, effects>>
  BY DEF linkVars
<1>5. EffectInv'
  BY <1>2, <1>4 DEF EffectInv, Spent
<1> QED
  BY <1>3, <1>4, <1>5 DEF LinksTyped, OneIdentity, Linked

LEMMA BotKeeps ==
    ASSUME LinkInv, sent' = sent, BotInv', UNCHANGED linkVars
    PROVE  LinkInv'
<1>1. UNCHANGED <<account, linkToken, effects>>
  BY DEF linkVars
<1> QED
  BY <1>1 DEF LinkInv, LinksTyped, EffectInv, Spent, OneIdentity, Linked

LEMMA BotSafely ==
    ASSUME LinkInv, BotSteps, UNCHANGED linkVars
    PROVE  LinkInv'
<1>1. BotInv /\ sent' = sent
  BY DEF BotSteps, Accepts, Replies, Polls, Restarts, LinkInv
<1>2. CASE Accepts
  <2>1. /\ tried' = tried + 1 /\ tried' \in DOMAIN sent /\ tried' \in UpdateIds
        /\ UNCHANGED confirmed
    BY <1>1, <1>2, UpdateNumbers DEF Accepts, BotInv
  <2>2. wire' = wire \/ wire' = [wire EXCEPT ![tried'] = wire[tried'] + 1]
    BY <1>2 DEF Accepts
  <2>3. wire' \in [UpdateIds -> Nat]
        /\ \A i \in UpdateIds : i # tried' => wire'[i] = wire[i]
    BY <1>1, <2>1, <2>2 DEF BotInv
  <2>4. BotInv'
    BY <1>1, <2>1, <2>3 DEF BotInv
  <2> QED
    BY <1>1, <2>4, BotKeeps
<1>3. CASE Replies \/ Polls \/ Restarts
  <2>1. BotInv'
    BY <1>1, <1>3 DEF BotInv, Replies, Polls, Restarts
  <2> QED
    BY <1>1, <2>1, BotKeeps
<1> QED
  BY <1>2, <1>3 DEF BotSteps

-----------------------------------------------------------------------------
(* The backend.                                                            *)

\* Tokens change, but a consumed one stays consumed.
LEMMA TokenSafely ==
    ASSUME LinkInv, NEW k \in LinkTokens,
           TokenExpires(k) \/ \E u \in SaasUsers : IssueToken(k, u)
    PROVE  LinkInv'
<1> USE DEF LinkInv
<1>1. UNCHANGED <<sent, confirmed, tried, wire, account, effects>>
  BY DEF TokenExpires, IssueToken, botVars
<1>2. linkToken' \in [LinkTokens -> AnyToken]
  <2>1. CASE TokenExpires(k)
    <3>1. linkToken[k] \in LinkToken
      BY <2>1 DEF TokenExpires, LinksTyped, AnyToken, NotIssued
    <3>2. [linkToken[k] EXCEPT !.age = "expired"] \in LinkToken
      BY <3>1 DEF LinkToken
    <3> QED
      BY <2>1, <3>2 DEF TokenExpires, LinksTyped, AnyToken
  <2>2. CASE \E u \in SaasUsers : IssueToken(k, u)
    BY <2>2 DEF IssueToken, LinksTyped, AnyToken, LinkToken
  <2> QED
    BY <2>1, <2>2
<1>3. \A j \in LinkTokens : linkToken[j].age = "consumed" => linkToken'[j].age = "consumed"
  BY DEF TokenExpires, IssueToken, LinksTyped, NotIssued
<1>4. BotInv' /\ LinksTyped' /\ OneIdentity'
  BY <1>1, <1>2 DEF BotInv, LinksTyped, OneIdentity, Linked
<1>5. EffectInv'
  BY <1>1, <1>3 DEF EffectInv, Spent
<1> QED
  BY <1>4, <1>5

LEMMA ServesKeep ==
    ASSUME LinkInv, NEW i \in UpdateIds, Serves(i)
    PROVE  BotInv' /\ sent' = sent /\ i \in DOMAIN sent
<1>1. wire[i] \in Nat /\ wire[i] > 0
  BY DEF Serves, LinkInv, BotInv
<1>2. wire' \in [UpdateIds -> Nat] /\ \A j \in UpdateIds : wire'[j] > 0 => wire[j] > 0
  BY <1>1 DEF Serves, LinkInv, BotInv
<1> QED
  BY <1>1, <1>2 DEF Serves, LinkInv, BotInv

\* A redemption that takes effect finds its token fresh, so that no update has
\* consumed it.
LEMMA RedeemSafely ==
    ASSUME LinkInv, NEW i \in UpdateIds, Serves(i),
           sent[i].what \in LinkTokens, Redeem(sent[i].from, i, sent[i].what)
    PROVE  LinkInv'
<1> USE DEF LinkInv
<1> DEFINE t == sent[i].from
           k == sent[i].what
           linked == [user |-> linkToken[k].user, live |-> TRUE, redeem |-> i,
                      unlink |-> IF Linked(t) THEN account[t].unlink ELSE 0]
<1>1. BotInv' /\ sent' = sent /\ i \in DOMAIN sent
  BY ServesKeep
<1>2. CASE UNCHANGED <<account, linkToken, effects>>
  BY <1>1, <1>2 DEF LinksTyped, EffectInv, Spent, OneIdentity, Linked
<1>3. CASE ~(UNCHANGED <<account, linkToken, effects>>)
  <2>1. /\ ~Conflicts(t, linkToken[k].user) /\ linkToken[k].age = "fresh"
        /\ linkToken' = [linkToken EXCEPT ![k].age = "consumed"]
        /\ account' = [account EXCEPT ![t] = linked]
        /\ effects' = [effects EXCEPT ![i] = effects[i] + 1]
    BY <1>3 DEF Redeem, Effect, NoEffect
  <2>2. t \in TelegramUsers /\ k \in LinkTokens
    BY <1>1, SentIsUpdate DEF Update
  <2>3. linkToken[k] \in LinkToken
    BY <2>1, <2>2 DEF LinksTyped, AnyToken, NotIssued
  <2>4. linked \in Account /\ linked.user = linkToken[k].user
    <3>1. 0 \in 0 .. MaxUpdates /\ i \in 0 .. MaxUpdates
      BY UpdateNumbers
    <3>2. (IF Linked(t) THEN account[t].unlink ELSE 0) \in 0 .. MaxUpdates
      BY <2>2, <3>1 DEF Linked, LinksTyped, Account
    <3> QED
      BY <2>3, <3>1, <3>2 DEF Account, LinkToken
  <2>5. [linkToken[k] EXCEPT !.age = "consumed"] \in LinkToken
    BY <2>3 DEF LinkToken
  <2>6. linkToken' \in [LinkTokens -> AnyToken] /\ linkToken'[k].age = "consumed"
        /\ \A j \in LinkTokens : j # k => linkToken'[j] = linkToken[j]
    BY <2>1, <2>2, <2>3, <2>5 DEF LinksTyped, AnyToken, LinkToken
  <2> HIDE DEF linked
  <2>7. LinksTyped'
    <3>1. account' \in [TelegramUsers -> Account \cup {NoAccount}]
      BY <2>1, <2>2, <2>4 DEF LinksTyped
    <3>2. effects[i] + 1 \in Nat /\ effects' \in [UpdateIds -> Nat]
      BY <2>1 DEF LinksTyped
    <3> QED
      BY <2>6, <3>1, <3>2 DEF LinksTyped
  <2>8. EffectInv'
    <3> SUFFICES ASSUME NEW j \in UpdateIds PROVE Spent(j)'
      BY DEF EffectInv
    <3>1. Spent(j) /\ Spent(i)
      BY DEF EffectInv
    <3>2. effects[i] = 0
      BY <1>1, <2>1, <2>2, <3>1 DEF Spent
    <3>3. effects'[i] = 1 /\ (j # i => effects'[j] = effects[j])
      BY <2>1, <3>2 DEF LinksTyped
    <3>4. CASE j = i
      BY <1>1, <2>6, <3>3, <3>4 DEF Spent
    <3>5. CASE j # i
      BY <1>1, <2>1, <2>6, <3>1, <3>3, <3>5 DEF Spent
    <3> QED
      BY <3>4, <3>5
  <2>9. OneIdentity'
    <3>1. \A s \in TelegramUsers : account'[s] = IF s = t THEN linked ELSE account[s]
      BY <2>1 DEF LinksTyped
    <3>2. \A s \in TelegramUsers : Linked(s) /\ account[s].user = linked.user => s = t
      BY <2>1, <2>4 DEF Conflicts
    <3> QED
      BY <3>1, <3>2 DEF OneIdentity, Linked
  <2> QED
    BY <1>1, <2>7, <2>8, <2>9
<1> QED
  BY <1>2, <1>3

LEMMA UnlinkSafely ==
    ASSUME LinkInv, NEW i \in UpdateIds, Serves(i),
           sent[i].what = "unlink", Unlink(sent[i].from, i)
    PROVE  LinkInv'
<1> USE DEF LinkInv
<1> DEFINE t == sent[i].from
<1>1. BotInv' /\ sent' = sent /\ i \in DOMAIN sent
  BY ServesKeep
<1>2. CASE UNCHANGED <<account, linkToken, effects>>
  BY <1>1, <1>2 DEF LinksTyped, EffectInv, Spent, OneIdentity, Linked
<1>3. CASE ~(UNCHANGED <<account, linkToken, effects>>)
  <2> DEFINE unlinked == [account[t] EXCEPT !.live = FALSE, !.unlink = i]
  <2>1. /\ Linked(t) /\ UNCHANGED linkToken
        /\ account' = [account EXCEPT ![t] = unlinked]
        /\ effects' = [effects EXCEPT ![i] = effects[i] + 1]
    BY <1>3 DEF Unlink, Effect, NoEffect
  <2>2. t \in TelegramUsers
    BY <1>1, SentIsUpdate DEF Update
  <2>3. account[t] \in Account
    BY <2>1, <2>2 DEF Linked, LinksTyped
  <2>4. unlinked \in Account /\ unlinked.user = account[t].user
    <3>1. i \in 0 .. MaxUpdates
      BY UpdateNumbers
    <3> QED
      BY <2>3, <3>1 DEF Account
  <2> HIDE DEF unlinked
  <2>5. LinksTyped'
    <3>1. account' \in [TelegramUsers -> Account \cup {NoAccount}]
      BY <2>1, <2>2, <2>4 DEF LinksTyped
    <3>2. effects[i] + 1 \in Nat /\ effects' \in [UpdateIds -> Nat]
      BY <2>1 DEF LinksTyped
    <3> QED
      BY <2>1, <3>1, <3>2 DEF LinksTyped
  <2>6. EffectInv'
    BY IdentityAssumption, <1>1, <2>1 DEF EffectInv, Spent, LinksTyped
  <2>7. OneIdentity'
    <3>1. \A s \in TelegramUsers : account'[s] = IF s = t THEN unlinked ELSE account[s]
      BY <2>1 DEF LinksTyped
    <3> QED
      BY <2>1, <2>2, <2>4, <3>1 DEF OneIdentity, Linked
  <2> QED
    BY <1>1, <2>5, <2>6, <2>7
<1> QED
  BY <1>2, <1>3

LEMMA ServeSafely == ASSUME LinkInv, NEW i \in UpdateIds, Serve(i) PROVE LinkInv'
<1>1. Serves(i)
  BY DEF Serve
<1>2. CASE NoEffect
  <2>1. BotInv' /\ sent' = sent
    BY <1>1, ServesKeep
  <2> QED
    BY <1>2, <2>1 DEF NoEffect, LinkInv, LinksTyped, EffectInv, Spent, OneIdentity, Linked
<1>3. CASE sent[i].what \in LinkTokens /\ Redeem(sent[i].from, i, sent[i].what)
  BY <1>1, <1>3, RedeemSafely
<1>4. CASE sent[i].what = "unlink" /\ Unlink(sent[i].from, i)
  BY <1>1, <1>4, UnlinkSafely
<1> QED
  BY <1>2, <1>3, <1>4 DEF Serve

LEMMA LinkStep == LinkInv /\ [LinkNext]_<<botVars, linkVars>> => LinkInv'
<1> SUFFICES ASSUME LinkInv, [LinkNext]_<<botVars, linkVars>> PROVE LinkInv'
  OBVIOUS
<1>1. CASE UNCHANGED <<botVars, linkVars>>
  <2>1. BotInv'
    BY <1>1 DEF botVars, LinkInv, BotInv
  <2> QED
    BY <1>1, <2>1, BotKeeps DEF botVars
<1>2. ASSUME NEW t \in TelegramUsers, UNCHANGED linkVars,
             (\E k \in LinkTokens : Sends(t, k)) \/ Sends(t, "unlink")
      PROVE  LinkInv'
  BY <1>2, SendsSafely
<1>3. ASSUME NEW u \in SaasUsers, EligibilityChanges(u) PROVE LinkInv'
  <2>1. UNCHANGED <<sent, confirmed, tried, wire, account, linkToken, effects>>
    BY <1>3 DEF EligibilityChanges, botVars
  <2> QED
    BY <2>1 DEF LinkInv, BotInv, LinksTyped, EffectInv, Spent, OneIdentity, Linked
<1>4. CASE LinkNext
  BY <1>2, <1>3, <1>4, BotSafely, ServeSafely, TokenSafely DEF LinkNext
<1> QED
  BY <1>1, <1>4

LEMMA LinksStay == LinkSpec => []LinkInv
BY LinkInitial, LinkStep, PTL DEF LinkSpec

-----------------------------------------------------------------------------
\* However often an update is delivered, served late or repeated after a restart, its
\* redemption takes effect once (redeemInTransaction).
THEOREM RedemptionsHappenOnce == LinkSpec => []RedeemedOnce
<1>1. LinkInv => RedeemedOnce
  BY UpdateNumbers DEF LinkInv, BotInv, EffectInv, Spent, RedeemedOnce
<1> QED
  BY <1>1, LinksStay, PTL

\* A SaaS user never has two Telegram identities (conflictingAccount).
THEOREM IdentitiesAreExclusive == LinkSpec => []OneIdentity
<1>1. LinkInv => OneIdentity
  BY DEF LinkInv
<1> QED
  BY <1>1, LinksStay, PTL

\* A live Telegram identity keeps its SaaS user; only one that was unlinked may pass
\* to another (redeemInTransaction and unlinkInTransaction).
THEOREM IdentityStays == LinkSpec => OnlyUnlinkReleases
<1>1. LinkInv /\ [LinkNext]_<<botVars, linkVars>> =>
         [\A t \in TelegramUsers :
             Linked(t) /\ account[t].live => /\ account'[t] # NoAccount
                                             /\ account'[t].user = account[t].user
         ]_<<botVars, linkVars>>
  <2> SUFFICES ASSUME LinkInv, LinkNext, NEW t \in TelegramUsers,
                      Linked(t), account[t].live
               PROVE  account'[t] # NoAccount /\ account'[t].user = account[t].user
    OBVIOUS
  <2>1. CASE account' = account
    BY <2>1 DEF Linked
  <2>2. CASE account' # account
    <3>1. PICK i \in UpdateIds : Serve(i)
      BY <2>2 DEF LinkNext, linkVars, IssueToken, TokenExpires, EligibilityChanges
    <3>2. i \in DOMAIN sent /\ sent[i].from \in TelegramUsers
      <4>1. i \in DOMAIN sent
        BY <3>1, ServesKeep DEF Serve
      <4> QED
        BY <4>1, SentIsUpdate DEF Update
    <3>3. account \in [TelegramUsers -> Account \cup {NoAccount}] /\ account[t] \in Account
      BY DEF LinkInv, LinksTyped, Linked
    <3>4. LinkInv'
      BY <3>1, ServeSafely
    <3>5. account'[t].user = account[t].user /\ account'[t] # NoAccount
      <4>1. CASE t # sent[i].from
        <5>1. account'[t] = account[t]
          BY <2>2, <3>1, <3>2, <3>3, <4>1 DEF Serve, Redeem, Unlink, NoEffect
        <5> QED
          BY <5>1 DEF Linked
      <4>2. CASE t = sent[i].from /\ sent[i].what \in LinkTokens
        <5> DEFINE linked == [user |-> linkToken[sent[i].what].user, live |-> TRUE,
                              redeem |-> i, unlink |-> account[t].unlink]
        <5>1. ~Conflicts(t, linkToken[sent[i].what].user)
              /\ account' = [account EXCEPT ![t] = linked]
              /\ linkToken[sent[i].what].age = "fresh"
          BY IdentityAssumption, <2>2, <3>1, <4>2 DEF Serve, Redeem, NoEffect
        <5>2. linkToken[sent[i].what].user = account[t].user
          BY <5>1 DEF Conflicts
        <5>3. account'[t] = linked /\ linked.user = account[t].user
          BY <3>3, <5>1, <5>2
        <5>4. linked \in Account
          BY <3>3, <5>2, UpdateNumbers DEF Account
        <5> HIDE DEF linked
        <5> QED
          BY <5>3, <5>4, IdentityAssumption
      <4>3. CASE t = sent[i].from /\ sent[i].what \notin LinkTokens
        <5> DEFINE unlinked == [account[t] EXCEPT !.live = FALSE, !.unlink = i]
        <5>1. account' = [account EXCEPT ![t].live = FALSE, ![t].unlink = i]
          <6>1. Unlink(t, i) /\ ~NoEffect
            BY <2>2, <3>1, <4>3 DEF Serve, NoEffect
          <6> QED
            BY <6>1 DEF Unlink
        <5>2. account'[t] = unlinked
          BY <3>3, <5>1
        <5>3. unlinked \in Account /\ unlinked.user = account[t].user
          <6>1. i \in 0 .. MaxUpdates
            BY UpdateNumbers
          <6> QED
            BY <3>3, <6>1 DEF Account
        <5> HIDE DEF unlinked
        <5> QED
          BY <5>2, <5>3, IdentityAssumption
      <4> QED
        BY <4>1, <4>2, <4>3
    <3> QED
      BY <3>5
  <2> QED
    BY <2>1, <2>2
<1> QED
  BY <1>1, LinksStay, PTL DEF LinkSpec, OnlyUnlinkReleases

\* What is repeated, and what is remembered of it: an update is asked for once by a
\* bot, and by no more bots than there have been.
RepeatInv ==
    /\ confirmed <= tried /\ tried <= Len(sent) /\ waiting \in {0, tried}
    /\ seen \in SUBSET UpdateIds /\ Cardinality(seen) <= MaxTracked
    /\ restarts \in 0 .. MaxRestarts
    /\ \A i \in UpdateIds : /\ wire[i] <= restarts + 1
                            /\ i > tried => wire[i] <= restarts
    /\ eligible \in SUBSET SaasUsers

\* The deduplicator forgets the oldest when it is full.
LEMMA RememberedIs ==
    ASSUME seen \in SUBSET UpdateIds, Cardinality(seen) <= MaxTracked, NEW i \in UpdateIds
    PROVE  Remembered(i) \in SUBSET UpdateIds /\ Cardinality(Remembered(i)) <= MaxTracked
<1> DEFINE all == seen \cup {i}
           oldest == CHOOSE x \in all : \A y \in all : x <= y
<1>1. MaxTracked \in Nat /\ MaxUpdates \in Nat
  BY BotAssumption
<1>2. IsFiniteSet(UpdateIds) /\ UpdateIds \in SUBSET Nat
  BY <1>1, FS_Interval DEF UpdateIds
<1>3. /\ all \in SUBSET UpdateIds /\ all \in SUBSET Nat /\ all # {}
      /\ IsFiniteSet(all) /\ IsFiniteSet(seen)
  BY <1>2, FS_Subset
<1>4. /\ Cardinality(all) \in Nat /\ Cardinality(seen) \in Nat
      /\ Cardinality(all) <= Cardinality(seen) + 1
  <2>1. Cardinality(all) = IF i \in seen THEN Cardinality(seen) ELSE Cardinality(seen) + 1
    BY <1>3, FS_AddElement
  <2> QED
    BY <1>3, <2>1, FS_CardinalityType
<1>5. oldest \in all
  <2>1. \E x \in all : \A y \in all : x <= y
    BY <1>3, FirstNumber
  <2> QED
    BY <2>1
<1>6. Cardinality(all \ {oldest}) = Cardinality(all) - 1
  <2> HIDE DEF all, oldest
  <2> QED
    BY <1>3, <1>5, FS_RemoveElement
<1> HIDE DEF all, oldest
<1>7. Remembered(i) = IF Cardinality(all) > MaxTracked THEN all \ {oldest} ELSE all
  BY DEF Remembered, all, oldest
<1>8. CASE Cardinality(all) > MaxTracked
  <2>1. Cardinality(all \ {oldest}) <= MaxTracked
    BY <1>1, <1>4, <1>6
  <2> QED
    BY <1>3, <1>7, <1>8, <2>1
<1>9. CASE ~(Cardinality(all) > MaxTracked)
  <2>1. Cardinality(all) <= MaxTracked
    BY <1>1, <1>4, <1>9
  <2> QED
    BY <1>3, <1>7, <1>9, <2>1
<1> QED
  BY <1>8, <1>9

LEMMA RepeatInitial == LinkInit => RepeatInv
<1>1. /\ Cardinality({}) = 0
      /\ MaxUpdates \in Nat /\ MaxTracked \in Nat /\ MaxRestarts \in Nat
  BY FS_EmptySet, BotAssumption
<1> QED
  BY <1>1 DEF LinkInit, BotInit, RepeatInv, UpdateIds

LEMMA RepeatStep ==
    LinkInv /\ RepeatInv /\ [LinkNext]_<<botVars, linkVars>> => RepeatInv'
<1> SUFFICES ASSUME LinkInv, RepeatInv, [LinkNext]_<<botVars, linkVars>> PROVE RepeatInv'
  OBVIOUS
<1>1. /\ MaxTracked \in Nat /\ MaxRestarts \in Nat /\ MaxUpdates \in Nat
      /\ sent \in Seq(Update) /\ confirmed \in Nat /\ tried \in Nat /\ restarts \in Nat
      /\ Len(sent) \in Nat /\ Len(sent) <= MaxUpdates
      /\ wire \in [UpdateIds -> Nat]
  BY BotAssumption DEF LinkInv, BotInv, RepeatInv
<1>2. CASE UNCHANGED <<confirmed, tried, seen, waiting, wire, restarts>>
           /\ Len(sent) <= Len(sent') /\ Len(sent') \in Nat /\ eligible' \in SUBSET SaasUsers
  BY <1>1, <1>2 DEF RepeatInv, UpdateIds
<1>3. ASSUME NEW t, NEW what, Sends(t, what), UNCHANGED linkVars
      PROVE  RepeatInv'
  <2>1. Len(sent') = Len(sent) + 1
    BY <1>1, <1>3 DEF Sends
  <2> QED
    BY <1>1, <1>2, <1>3, <2>1 DEF Sends, linkVars, RepeatInv
<1>4. CASE Accepts /\ UNCHANGED linkVars
  <2>1. /\ tried' = tried + 1 /\ tried' \in UpdateIds /\ tried' <= Len(sent)
        /\ UNCHANGED <<sent, confirmed, restarts, eligible>>
    BY <1>1, <1>4, UpdateNumbers DEF Accepts, linkVars
  <2>2. /\ seen' \in SUBSET UpdateIds /\ Cardinality(seen') <= MaxTracked
        /\ waiting' \in {0, tried'}
    <3>1. CASE tried' \in seen
      BY <1>4, <3>1 DEF Accepts, RepeatInv
    <3>2. CASE tried' \notin seen
      <4>1. seen' = Remembered(tried') /\ waiting' = tried'
        BY <1>4, <3>2 DEF Accepts
      <4>2. PICK i \in UpdateIds : i = tried'
        BY <2>1
      <4> QED
        BY <4>1, <4>2, RememberedIs DEF RepeatInv
    <3> QED
      BY <3>1, <3>2
  <2>3. ASSUME NEW i \in UpdateIds
        PROVE  wire'[i] <= restarts + 1 /\ (i > tried' => wire'[i] <= restarts)
    <3>1. /\ wire[i] \in Nat /\ wire[i] <= restarts + 1 /\ i \in Nat
          /\ i > tried => wire[i] <= restarts
      BY <1>1, UpdateNumbers DEF RepeatInv
    <3>2. wire'[i] = wire[i] \/ (i = tried' /\ wire'[i] = wire[i] + 1)
      BY <1>1, <1>4, <2>1 DEF Accepts
    <3> QED
      BY <1>1, <2>1, <3>1, <3>2
  <2>4. confirmed <= tried'
    BY <1>1, <2>1 DEF RepeatInv
  <2> QED
    BY <2>1, <2>2, <2>3, <2>4 DEF RepeatInv, UpdateIds
<1>5. CASE (Replies \/ Polls) /\ UNCHANGED linkVars
  <2>1. /\ UNCHANGED <<sent, tried, seen, wire, restarts, eligible>>
        /\ confirmed' \in {confirmed, tried} /\ waiting' \in {0, waiting}
    BY <1>5 DEF Replies, Polls, linkVars
  <2>2. confirmed' <= tried
    BY <1>1, <2>1 DEF RepeatInv
  <2>3. UpdateIds' = UpdateIds
    BY DEF UpdateIds
  <2> QED
    BY <2>1, <2>2, <2>3 DEF RepeatInv
<1>6. CASE Restarts /\ UNCHANGED linkVars
  <2>1. /\ tried' = confirmed /\ seen' = {} /\ waiting' = 0 /\ restarts' = restarts + 1
        /\ restarts < MaxRestarts /\ UNCHANGED <<sent, confirmed, wire, eligible>>
    BY <1>6 DEF Restarts, linkVars
  <2>2. Cardinality(seen') = 0
    BY <2>1, FS_EmptySet
  <2>3. ASSUME NEW i \in UpdateIds
        PROVE  wire[i] <= restarts + 1 + 1 /\ (i > confirmed => wire[i] <= restarts + 1)
    <3>1. wire[i] \in Nat /\ wire[i] <= restarts + 1
      BY <1>1 DEF RepeatInv
    <3> QED
      BY <1>1, <3>1
  <2>4. confirmed <= Len(sent) /\ confirmed <= confirmed
    BY <1>1 DEF RepeatInv
  <2> QED
    BY <1>1, <2>1, <2>2, <2>3, <2>4 DEF RepeatInv, UpdateIds
<1>7. ASSUME NEW i \in UpdateIds, Serve(i) PROVE RepeatInv'
  <2>1. /\ UNCHANGED <<sent, confirmed, tried, seen, waiting, restarts, eligible>>
        /\ wire[i] > 0 /\ wire' = [wire EXCEPT ![i] = wire[i] - 1]
    BY <1>7 DEF Serve, Serves
  <2>2. \A j \in UpdateIds : wire[j] \in Nat /\ wire'[j] \in Nat /\ wire'[j] <= wire[j]
    BY <1>1, <2>1
  <2>3. ASSUME NEW j \in UpdateIds
        PROVE  wire'[j] <= restarts + 1 /\ (j > tried => wire'[j] <= restarts)
    BY <1>1, <2>2 DEF RepeatInv
  <2> QED
    BY <2>1, <2>3 DEF RepeatInv, UpdateIds
<1>8. ASSUME NEW u \in SaasUsers, EligibilityChanges(u) PROVE RepeatInv'
  <2>1. eligible' \in SUBSET SaasUsers
    BY <1>8 DEF EligibilityChanges, RepeatInv
  <2> QED
    BY <1>1, <1>2, <1>8, <2>1 DEF EligibilityChanges, botVars
<1>9. ASSUME NEW k \in LinkTokens, TokenExpires(k) \/ \E u \in SaasUsers : IssueToken(k, u)
      PROVE  RepeatInv'
  BY <1>1, <1>2, <1>9 DEF TokenExpires, IssueToken, botVars, RepeatInv
<1>10. CASE UNCHANGED <<botVars, linkVars>>
  BY <1>1, <1>2, <1>10 DEF botVars, linkVars, RepeatInv
<1>11. CASE LinkNext
  BY <1>3, <1>4, <1>5, <1>6, <1>7, <1>8, <1>9, <1>11 DEF LinkNext, BotSteps
<1> QED
  BY <1>10, <1>11

LEMMA LinkTypes == LinkInv /\ RepeatInv => LinkTypeOK
<1> SUFFICES ASSUME LinkInv, RepeatInv PROVE LinkTypeOK
  OBVIOUS
<1>1. restarts \in Nat /\ MaxRestarts \in Nat /\ restarts <= MaxRestarts
  BY BotAssumption DEF RepeatInv
<1>2. ASSUME NEW i \in UpdateIds PROVE wire[i] \in 0 .. MaxRestarts + 1
  <2>1. wire[i] \in Nat /\ wire[i] <= restarts + 1
    BY DEF LinkInv, BotInv, RepeatInv
  <2> QED
    BY <1>1, <2>1
<1>3. wire \in [UpdateIds -> 0 .. MaxRestarts + 1]
  BY <1>2 DEF LinkInv, BotInv
<1>4. BotTypeOK
  BY <1>3 DEF BotTypeOK, RepeatInv, LinkInv, BotInv
<1> QED
  BY <1>4 DEF LinkTypeOK, RepeatInv, LinkInv, LinksTyped, AnyToken, OneIdentity

\* The variables of the bot and of linking keep their types; with them, a SaaS user has
\* one Telegram identity, and of one update no more requests are under way than bots
\* have been started, whatever the deduplicator has forgotten.
THEOREM LinkTypeCorrect == LinkSpec => []LinkTypeOK
BY LinkTypes, LinksStay, RepeatInitial, RepeatStep, PTL DEF LinkSpec

-----------------------------------------------------------------------------
(* StoreRegistration: what a store authenticates with is what its plugin was *)
(* given, and its health is what that plugin has confirmed.                *)

VisitRecord == [step : {"off", "begin", "http", "write"},
                kind : {"register", "confirm", "provision", "rotate"},
                with : Nat, key : WebhookKey]

ShopTyped ==
    /\ shop \in Shop /\ keys \in WebhookKey /\ rotated \in BOOLEAN
    /\ registered \in Seq(Nat)
    /\ plugin \in [secret : Nat, key : Nat, told : Nat]
    /\ visit \in [Visits -> VisitRecord]

\* Tokens are registered in the order they were issued, and the present one only
\* when it is consumed.
TokenInv ==
    /\ \A a \in DOMAIN registered :
          /\ registered[a] <= shop.token
          /\ ~shop.consumed => registered[a] < shop.token
    /\ TokenRegistersOnce

SecretInv ==
    /\ shop.status = "ACTIVE" => shop.secret = Len(registered)
    /\ shop.status = "DISCONNECTED" => shop.deleted

\* Finalizable, of a token.
OpenToken(token) ==
    shop.token = token /\ ~shop.consumed /\ ~shop.expired /\ ~shop.deleted

\* A registration comes with a token that was issued; if it is about to draw
\* webhook credentials, the plugin has none.
Registers(r) ==
    /\ r.kind = "register" /\ r.step # "off" => r.with <= shop.token
    /\ r.step = "http" => r.kind = "confirm"
    /\ /\ r.kind = "register" /\ r.step = "write" /\ r.key = 0
       /\ OpenToken(r.with) /\ ~rotated
       => plugin.key = 0

VisitInv == \A v \in Visits : Registers(visit[v])

RegistrationInv == ShopTyped /\ TokenInv /\ SecretInv /\ VisitInv /\ PluginKeyStands

LEMMA Bounds ==
    /\ MaxRegistrationTokens \in Nat /\ MaxWebhookKeys \in Nat
    /\ 0 \in WebhookKey /\ 0 \in RegistrationToken
    /\ ApiCalls \subseteq {"provision", "rotate"}
BY RegistrationAssumption DEF WebhookKey, RegistrationToken

LEMMA RegistrationInitial == RegistrationInit => RegistrationInv
<1> SUFFICES ASSUME RegistrationInit PROVE RegistrationInv
  OBVIOUS
<1> USE DEF RegistrationInit
<1>1. NoVisitor \in VisitRecord /\ NoVisitor.step = "off"
  BY Bounds DEF NoVisitor, VisitRecord
<1>2. shop \in Shop
  BY Bounds DEF Shop, RegistrationToken, WebhookKey
<1>3. ShopTyped
  <2>1. visit \in [Visits -> VisitRecord]
    BY <1>1
  <2>2. plugin \in [secret : Nat, key : Nat, told : Nat]
    BY DEF NoOptions
  <2>3. keys \in WebhookKey /\ rotated \in BOOLEAN
    BY Bounds
  <2>4. registered \in Seq(Nat)
    OBVIOUS
  <2> QED
    BY <1>2, <2>1, <2>2, <2>3, <2>4 DEF ShopTyped
<1>4. TokenInv /\ SecretInv /\ PluginKeyStands
  BY DEF TokenInv, TokenRegistersOnce, SecretInv, PluginKeyStands, NoOptions
<1>5. VisitInv
  BY <1>1 DEF VisitInv, Registers
<1> QED
  BY <1>3, <1>4, <1>5 DEF RegistrationInv

-----------------------------------------------------------------------------
(* The store by itself.                                                    *)

\* No token is opened that a registration has been let in with.
LEMMA ShopMoves ==
    ASSUME RegistrationInv, NEW next \in Shop, shop' = next,
           UNCHANGED <<keys, registered, rotated, plugin, visit>>,
           next.token >= shop.token,
           next.token = shop.token => (shop.consumed => next.consumed)
                                      /\ (shop.expired => next.expired),
           shop.deleted => next.deleted,
           \/ next.status = shop.status /\ next.secret = shop.secret /\ next.key = shop.key
           \/ next.status = "DISCONNECTED" /\ next.deleted
    PROVE  RegistrationInv'
<1> USE DEF RegistrationInv
<1>1. ShopTyped'
  BY DEF ShopTyped
<1>2. shop.token \in Nat /\ next.token \in Nat
  BY Bounds DEF ShopTyped, Shop, RegistrationToken
<1>3. TokenInv'
  <2>1. \A a \in DOMAIN registered : registered[a] \in Nat
    BY DEF ShopTyped
  <2>2. shop.consumed \in BOOLEAN /\ next.consumed \in BOOLEAN
    BY DEF ShopTyped, Shop
  <2> QED
    BY <1>2, <2>1, <2>2 DEF TokenInv, TokenRegistersOnce
<1>4. SecretInv'
  BY DEF SecretInv
<1>5. VisitInv'
  <2> SUFFICES ASSUME NEW v \in Visits PROVE Registers(visit[v])'
    BY DEF VisitInv
  <2>1. visit[v] \in VisitRecord /\ Registers(visit[v])
    BY DEF VisitInv, ShopTyped
  <2>2. visit[v].with \in Nat
    BY <2>1 DEF VisitRecord
  <2>3. visit[v].kind = "register" /\ visit[v].step = "write" /\ OpenToken(visit[v].with)'
            => OpenToken(visit[v].with)
    BY <1>2, <2>1, <2>2 DEF OpenToken, Registers, ShopTyped, Shop
  <2> QED
    BY <1>2, <2>1, <2>2, <2>3 DEF Registers
<1>6. PluginKeyStands'
  BY DEF PluginKeyStands
<1> QED
  BY <1>1, <1>3, <1>4, <1>5, <1>6

LEMMA ShopSafely ==
    ASSUME RegistrationInv,
           IssueRegistrationToken \/ RegistrationExpires \/ SoftDelete \/ DisconnectShop
    PROVE  RegistrationInv'
<1>1. shop \in Shop /\ shop.token \in Nat
  BY Bounds DEF RegistrationInv, ShopTyped, Shop, RegistrationToken
<1>2. CASE IssueRegistrationToken
  <2> DEFINE next == [shop EXCEPT !.token = shop.token + 1, !.consumed = FALSE,
                                  !.expired = FALSE]
  <2>1. shop' = next /\ UNCHANGED <<keys, registered, rotated, plugin, visit>>
    BY <1>2 DEF IssueRegistrationToken, pluginVars
  <2>2. /\ next \in Shop /\ next.token = shop.token + 1 /\ (shop.deleted => next.deleted)
        /\ next.status = shop.status /\ next.secret = shop.secret /\ next.key = shop.key
    <3>1. shop.token + 1 \in RegistrationToken
      BY <1>1, <1>2, Bounds DEF IssueRegistrationToken, RegistrationToken
    <3> QED
      BY <1>1, <3>1 DEF Shop
  <2> HIDE DEF next
  <2> QED
    BY <1>1, <2>1, <2>2, ShopMoves
<1>3. CASE RegistrationExpires
  <2> DEFINE next == [shop EXCEPT !.expired = TRUE]
  <2>1. shop' = next /\ UNCHANGED <<keys, registered, rotated, plugin, visit>>
    BY <1>3 DEF RegistrationExpires, pluginVars
  <2>2. /\ next \in Shop /\ next.token = shop.token /\ (shop.deleted => next.deleted)
        /\ (shop.consumed => next.consumed) /\ next.expired
        /\ next.status = shop.status /\ next.secret = shop.secret /\ next.key = shop.key
    BY <1>1 DEF Shop
  <2> HIDE DEF next
  <2> QED
    BY <1>1, <2>1, <2>2, ShopMoves
<1>4. CASE SoftDelete
  <2> DEFINE next == [shop EXCEPT !.deleted = TRUE]
  <2>1. shop' = next /\ UNCHANGED <<keys, registered, rotated, plugin, visit>>
    BY <1>4 DEF SoftDelete, pluginVars
  <2>2. /\ next \in Shop /\ next.token = shop.token /\ next.deleted
        /\ (shop.consumed => next.consumed) /\ (shop.expired => next.expired)
        /\ next.status = shop.status /\ next.secret = shop.secret /\ next.key = shop.key
    BY <1>1 DEF Shop
  <2> HIDE DEF next
  <2> QED
    BY <1>1, <2>1, <2>2, ShopMoves
<1>5. CASE DisconnectShop
  <2> DEFINE next == [shop EXCEPT !.status = "DISCONNECTED", !.deleted = TRUE,
                                  !.consumed = TRUE, !.secret = 0, !.key = 0]
  <2>1. shop' = next /\ UNCHANGED <<keys, registered, rotated, plugin, visit>>
    BY <1>5 DEF DisconnectShop, pluginVars
  <2>2. /\ next \in Shop /\ next.token = shop.token /\ next.deleted
        /\ next.consumed /\ (shop.expired => next.expired)
        /\ next.status = "DISCONNECTED"
    BY <1>1, Bounds DEF Shop
  <2> HIDE DEF next
  <2> QED
    BY <1>1, <2>1, <2>2, ShopMoves
<1> QED
  BY <1>2, <1>3, <1>4, <1>5

-----------------------------------------------------------------------------
(* Requests and the plugin.                                                *)

LEMMA VisitMoves ==
    ASSUME RegistrationInv, NEW v \in Visits, NEW next \in VisitRecord,
           visit' = [visit EXCEPT ![v] = next],
           UNCHANGED <<shop, keys, registered, rotated, plugin>>, Registers(next)
    PROVE  RegistrationInv'
<1> USE DEF RegistrationInv
<1>1. ShopTyped'
  BY DEF ShopTyped
<1>2. \A w \in Visits : visit'[w] = IF w = v THEN next ELSE visit[w]
  BY DEF ShopTyped
<1>3. \A w \in Visits : Registers(visit'[w])
  BY <1>2 DEF VisitInv
<1>4. VisitInv'
  BY <1>3 DEF VisitInv, Registers, OpenToken
<1>5. TokenInv' /\ SecretInv' /\ PluginKeyStands'
  BY DEF TokenInv, TokenRegistersOnce, SecretInv, PluginKeyStands
<1> QED
  BY <1>1, <1>4, <1>5

LEMMA PluginSafely == RegistrationInv /\ (Installs \/ PluginGivesUp \/ Uninstalls) => RegistrationInv'
<1> SUFFICES ASSUME RegistrationInv, Installs \/ PluginGivesUp \/ Uninstalls
             PROVE  RegistrationInv'
  OBVIOUS
<1>1. UNCHANGED <<shop, keys, registered, rotated, visit>>
  BY DEF Installs, PluginGivesUp, Uninstalls, shopVars
<1>2. plugin' = plugin \/ plugin' = NoOptions
  BY DEF Installs, PluginGivesUp, Uninstalls
<1>3. plugin' \in [secret : Nat, key : Nat, told : Nat]
      /\ (plugin'.key = plugin.key \/ plugin'.key = 0)
  BY <1>2 DEF NoOptions, RegistrationInv, ShopTyped
<1>4. ShopTyped' /\ TokenInv' /\ SecretInv' /\ PluginKeyStands'
  BY <1>1, <1>3 DEF RegistrationInv, ShopTyped, TokenInv, TokenRegistersOnce, SecretInv,
                    PluginKeyStands
<1>5. VisitInv'
  BY <1>1, <1>3 DEF RegistrationInv, VisitInv, Registers, OpenToken
<1> QED
  BY <1>4, <1>5 DEF RegistrationInv

LEMMA VisitsSafely ==
    ASSUME RegistrationInv, NEW v \in Visits,
           \/ Connects(v) \/ ConfirmsHealth(v) \/ \E what \in ApiCalls : AsksApi(v, what)
           \/ TurnedAway(v)
           \/ FinalizeReads(v) \/ ConfirmReads(v) \/ WebhooksVerified(v) \/ ProvisionReads(v)
    PROVE  RegistrationInv'
<1>1. visit[v] \in VisitRecord /\ shop \in Shop /\ Registers(visit[v])
      /\ plugin.secret \in Nat /\ shop.token \in Nat /\ shop.key \in WebhookKey
  BY Bounds
     DEF RegistrationInv, ShopTyped, VisitInv, Shop, RegistrationToken
<1>2. ASSUME NEW what \in {"register", "confirm", "provision", "rotate"}, NEW with \in Nat,
             Visitor(v, what, with), what = "register" => with <= shop.token,
             UNCHANGED <<shop, keys, registered, rotated, plugin>>
      PROVE  RegistrationInv'
  <2> DEFINE next == [NoVisitor EXCEPT !.step = "begin", !.kind = what, !.with = with]
  <2>1. next \in VisitRecord /\ next.step = "begin" /\ next.kind = what /\ next.with = with
    BY Bounds DEF NoVisitor, VisitRecord
  <2>2. visit' = [visit EXCEPT ![v] = next]
    BY <1>2 DEF Visitor
  <2> HIDE DEF next
  <2>3. Registers(next)
    BY <1>2, <2>1 DEF Registers
  <2> QED
    BY <1>2, <2>1, <2>2, <2>3, VisitMoves
<1>3. CASE Connects(v)
  <2>1. PICK token \in 1 .. shop.token : Visitor(v, "register", token)
    BY <1>3 DEF Connects
  <2>2. token \in Nat /\ token <= shop.token
    BY <1>1
  <2>3. UNCHANGED <<shop, keys, registered, rotated, plugin>>
    BY <1>3 DEF Connects, shopVars
  <2> QED
    BY <1>2, <2>1, <2>2, <2>3
<1>4. CASE ConfirmsHealth(v)
  BY <1>1, <1>2, <1>4 DEF ConfirmsHealth, shopVars
<1>5. CASE \E what \in ApiCalls : AsksApi(v, what)
  <2>1. PICK what \in ApiCalls : AsksApi(v, what)
    BY <1>5
  <2>2. what \in {"provision", "rotate"}
    BY Bounds
  <2>3. Visitor(v, what, 0) /\ UNCHANGED <<shop, keys, registered, rotated, plugin>>
    BY <2>1 DEF AsksApi, shopVars, pluginVars
  <2> QED
    BY <1>2, <2>2, <2>3
<1>6. CASE TurnedAway(v)
  <2>1. NoVisitor \in VisitRecord /\ Registers(NoVisitor)
    BY Bounds DEF NoVisitor, VisitRecord, Registers
  <2>2. visit' = [visit EXCEPT ![v] = NoVisitor]
        /\ UNCHANGED <<shop, keys, registered, rotated, plugin>>
    BY <1>6 DEF TurnedAway, Leave, shopVars
  <2> QED
    BY <2>1, <2>2, VisitMoves
<1>7. ASSUME NEW stage \in {"http", "write"}, Onward(v, stage), visit[v].step # "off",
             stage = "http" => visit[v].kind = "confirm",
             stage = "write" /\ visit[v].kind = "register" => ~shop.deleted
      PROVE  RegistrationInv'
  <2> DEFINE next == [visit[v] EXCEPT !.step = stage, !.key = shop.key]
  <2>1. /\ next \in VisitRecord /\ next.step = stage /\ next.kind = visit[v].kind
        /\ next.with = visit[v].with /\ next.key = shop.key
    BY <1>1 DEF VisitRecord
  <2>2. visit' = [visit EXCEPT ![v] = next]
        /\ UNCHANGED <<shop, keys, registered, rotated, plugin>>
    BY <1>7, <1>1 DEF Onward, shopVars, pluginVars, RegistrationInv, ShopTyped
  <2> HIDE DEF next
  <2>3. Registers(next)
    BY <1>1, <1>7, <2>1 DEF Registers, RegistrationInv, PluginKeyStands, SecretInv
  <2> QED
    BY <2>1, <2>2, <2>3, VisitMoves
<1>8. CASE FinalizeReads(v)
  BY <1>7, <1>8 DEF FinalizeReads
<1>9. CASE ConfirmReads(v)
  BY <1>7, <1>9 DEF ConfirmReads
<1>10. CASE ProvisionReads(v)
  <2>1. visit[v].kind # "register" /\ visit[v].step # "off" /\ Onward(v, "write")
    BY <1>10 DEF ProvisionReads
  <2> QED
    BY <1>7, <2>1
<1>11. CASE WebhooksVerified(v)
  <2> DEFINE next == [visit[v] EXCEPT !.step = "write"]
  <2>1. next \in VisitRecord /\ next.step = "write" /\ next.kind = visit[v].kind
    BY <1>1 DEF VisitRecord
  <2>2. visit' = [visit EXCEPT ![v] = next]
        /\ UNCHANGED <<shop, keys, registered, rotated, plugin>>
    BY <1>11 DEF WebhooksVerified, shopVars, pluginVars
  <2>3. visit[v].kind = "confirm"
    BY <1>1, <1>11 DEF WebhooksVerified, Registers
  <2> HIDE DEF next
  <2>4. Registers(next)
    BY <2>1, <2>3 DEF Registers
  <2> QED
    BY <2>1, <2>2, <2>4, VisitMoves
<1> QED
  BY <1>3, <1>4, <1>5, <1>6, <1>8, <1>9, <1>10, <1>11

-----------------------------------------------------------------------------
(* The writes.                                                             *)

LEMMA VisitLeaves ==
    ASSUME ShopTyped, NEW v \in Visits, Leave(v)
    PROVE  /\ visit' \in [Visits -> VisitRecord]
           /\ \A w \in Visits : visit'[w] = IF w = v THEN NoVisitor ELSE visit[w]
           /\ NoVisitor.step = "off"
<1>1. NoVisitor \in VisitRecord /\ NoVisitor.step = "off"
  BY Bounds DEF NoVisitor, VisitRecord
<1>2. visit' = [visit EXCEPT ![v] = NoVisitor]
  BY DEF Leave
<1> QED
  BY <1>1, <1>2 DEF ShopTyped

\* finalize: its token is newer than those that were registered, and nobody else's
\* request finds a token to register any more.
LEMMA FinalizeSafely ==
    ASSUME RegistrationInv, NEW v \in Visits, FinalizeWrites(v)
    PROVE  RegistrationInv'
<1> USE DEF RegistrationInv
<1> DEFINE secret == Len(registered) + 1
           draws == visit[v].key = 0
           key == IF draws THEN keys' ELSE shop.key
           next == [shop EXCEPT !.secret = secret, !.consumed = TRUE,
                                !.status = "ACTIVE", !.key = key]
<1>1. /\ visit[v] \in VisitRecord /\ Registers(visit[v])
      /\ visit[v].step = "write" /\ visit[v].kind = "register" /\ OpenToken(visit[v].with)
      /\ visit[v].with = shop.token /\ shop.token \in Nat
  BY Bounds DEF FinalizeWrites, Finalizable, OpenToken, ShopTyped, VisitInv, Shop, RegistrationToken
<1>2. registered' = Append(registered, shop.token) /\ UNCHANGED rotated /\ shop' = next
  BY <1>1 DEF FinalizeWrites
<1>3. keys' \in WebhookKey /\ keys' \in Nat
  BY Bounds DEF FinalizeWrites, ShopTyped, WebhookKey
<1>4. registered \in Seq(Nat) /\ registered' \in Seq(Nat) /\ Len(registered') = secret
      /\ secret \in Nat
  BY <1>1, <1>2 DEF ShopTyped
<1>5. /\ next \in Shop /\ next.secret = secret /\ next.consumed /\ next.status = "ACTIVE"
      /\ next.key = key /\ next.token = shop.token
      /\ key \in Nat
  <2>1. key \in WebhookKey
    BY <1>3 DEF ShopTyped, Shop
  <2>2. key \in Nat
    BY <2>1, Bounds DEF WebhookKey
  <2> HIDE DEF key, secret
  <2> QED
    BY <1>4, <2>1, <2>2 DEF ShopTyped, Shop
<1>6. /\ plugin' \in [secret : Nat, key : Nat, told : Nat]
      /\ \/ plugin'.key = plugin.key
         \/ draws /\ plugin'.key = key
  <2>1. PICK heard \in BOOLEAN :
            plugin' = IF heard THEN Persisted(secret, IF draws THEN keys' ELSE 0)
                      ELSE plugin
    BY DEF FinalizeWrites
  <2>2. ASSUME NEW k \in Nat
        PROVE  LET p == Persisted(secret, k)
               IN  /\ p \in [secret : Nat, key : Nat, told : Nat]
                   /\ p.key = IF k = 0 THEN plugin.key ELSE k
    BY <1>4 DEF Persisted, ShopTyped
  <2>3. draws => keys' # 0
    BY DEF FinalizeWrites, ShopTyped, WebhookKey
  <2>4. CASE heard /\ draws
    BY <1>3, <2>1, <2>2, <2>3, <2>4
  <2>5. CASE heard /\ ~draws
    <3>1. plugin' = Persisted(secret, 0)
      BY <2>1, <2>5
    <3> QED
      BY <2>2, <3>1
  <2>6. CASE ~heard
    <3>1. plugin' = plugin
      BY <2>1, <2>6
    <3> QED
      BY <3>1 DEF ShopTyped
  <2> QED
    BY <2>4, <2>5, <2>6
<1> HIDE DEF next, key, secret
<1>7. ShopTyped'
  BY <1>2, <1>3, <1>4, <1>5, <1>6, VisitLeaves DEF ShopTyped, FinalizeWrites
<1>8. TokenInv'
  <2>1. \A a \in DOMAIN registered' :
           \/ a \in DOMAIN registered /\ registered'[a] = registered[a]
           \/ a = secret /\ registered'[a] = shop.token
    BY <1>1, <1>2, <1>4 DEF secret
  <2>2. \A a \in DOMAIN registered : a < secret /\ registered[a] < shop.token
                                     /\ registered[a] \in Nat
    BY <1>1, <1>4 DEF TokenInv, OpenToken, secret
  <2>3. \A a \in DOMAIN registered' : registered'[a] <= shop.token
    BY <1>1, <2>1, <2>2
  <2>4. TokenRegistersOnce'
    BY <1>4, <2>1, <2>2 DEF TokenInv, TokenRegistersOnce
  <2> QED
    BY <1>2, <1>5, <2>3, <2>4 DEF TokenInv
<1>9. SecretInv'
  BY <1>2, <1>4, <1>5 DEF SecretInv
<1>10. VisitInv'
  <2> SUFFICES ASSUME NEW w \in Visits PROVE Registers(visit[w])'
    BY DEF VisitInv
  <2>1. \A with : ~OpenToken(with)'
    BY <1>2, <1>5 DEF OpenToken
  <2>2. visit'[w] = NoVisitor \/ visit'[w] = visit[w]
    BY VisitLeaves DEF FinalizeWrites
  <2> QED
    BY <1>2, <1>5, <2>1, <2>2, VisitLeaves DEF FinalizeWrites, VisitInv, Registers
<1>11. PluginKeyStands'
  <2>1. ~shop.deleted
    BY <1>1 DEF OpenToken
  <2>2. shop.status # "DISCONNECTED"
    BY <2>1 DEF SecretInv
  <2>3. ~rotated /\ plugin.key # 0 => ~draws /\ plugin.key = shop.key
    BY <1>1, <2>2 DEF Registers, PluginKeyStands
  <2>4. ~draws => key = shop.key
    BY DEF key
  <2> QED
    BY <1>2, <1>5, <1>6, <2>3, <2>4 DEF PluginKeyStands
<1> QED
  BY <1>7, <1>8, <1>9, <1>10, <1>11

LEMMA ConfirmSafely ==
    ASSUME RegistrationInv, NEW v \in Visits, ConfirmWrites(v)
    PROVE  RegistrationInv'
<1> USE DEF RegistrationInv
<1> DEFINE next == [shop EXCEPT !.healthy = <<visit[v].with, visit[v].key>>]
<1>1. /\ next \in Shop /\ next.token = shop.token /\ next.status = shop.status
      /\ next.key = shop.key /\ next.secret = shop.secret
      /\ next.consumed = shop.consumed /\ next.expired = shop.expired
      /\ next.deleted = shop.deleted
  BY DEF ShopTyped, VisitRecord, Shop
<1>2. shop' = next /\ UNCHANGED <<keys, registered, rotated, plugin>>
  BY DEF ConfirmWrites
<1> HIDE DEF next
<1>3. ShopTyped'
  BY <1>1, <1>2, VisitLeaves DEF ShopTyped, ConfirmWrites
<1>4. TokenInv' /\ SecretInv' /\ PluginKeyStands'
  BY <1>1, <1>2 DEF TokenInv, TokenRegistersOnce, SecretInv, PluginKeyStands
<1>5. VisitInv'
  <2> SUFFICES ASSUME NEW w \in Visits PROVE Registers(visit[w])'
    BY DEF VisitInv
  <2>1. visit'[w] = visit[w] \/ (visit'[w] = NoVisitor /\ NoVisitor.step = "off")
    BY VisitLeaves DEF ConfirmWrites
  <2> QED
    BY <1>1, <1>2, <2>1 DEF VisitInv, Registers, OpenToken
<1> QED
  BY <1>3, <1>4, <1>5

LEMMA ProvisionSafely ==
    ASSUME RegistrationInv, NEW v \in Visits, ProvisionWrites(v)
    PROVE  RegistrationInv'
<1> USE DEF RegistrationInv
<1> DEFINE next == [shop EXCEPT !.key = keys']
<1>1. keys' \in WebhookKey
  BY Bounds DEF ProvisionWrites, ShopTyped, WebhookKey
<1>2. /\ next \in Shop /\ next.token = shop.token /\ next.status = shop.status
      /\ next.secret = shop.secret
      /\ next.consumed = shop.consumed /\ next.expired = shop.expired
      /\ next.deleted = shop.deleted
  BY <1>1 DEF ShopTyped, Shop
<1>3. /\ shop' = next /\ UNCHANGED <<registered, plugin>>
      /\ rotated' = (rotated \/ visit[v].kind = "rotate")
  BY DEF ProvisionWrites
<1> HIDE DEF next
<1>4. ShopTyped'
  BY <1>1, <1>2, <1>3, VisitLeaves DEF ShopTyped, ProvisionWrites
<1>5. TokenInv' /\ SecretInv'
  BY <1>2, <1>3 DEF TokenInv, TokenRegistersOnce, SecretInv
<1>6. VisitInv'
  <2> SUFFICES ASSUME NEW w \in Visits PROVE Registers(visit[w])'
    BY DEF VisitInv
  <2>1. visit'[w] = visit[w] \/ (visit'[w] = NoVisitor /\ NoVisitor.step = "off")
    BY VisitLeaves DEF ProvisionWrites
  <2> QED
    BY <1>2, <1>3, <2>1 DEF VisitInv, Registers, OpenToken
<1>7. PluginKeyStands'
  <2>1. ~shop.deleted /\ (visit[v].kind = "rotate" \/ shop.key = 0)
    BY DEF ProvisionWrites, Provisionable
  <2>2. shop.status # "DISCONNECTED"
    BY <2>1 DEF SecretInv
  <2> QED
    BY <1>2, <1>3, <2>1, <2>2 DEF PluginKeyStands
<1> QED
  BY <1>4, <1>5, <1>6, <1>7

LEMMA RegistrationStep ==
    RegistrationInv /\ [RegistrationNext]_registrationVars => RegistrationInv'
<1> SUFFICES ASSUME RegistrationInv, [RegistrationNext]_registrationVars
             PROVE  RegistrationInv'
  OBVIOUS
<1>1. CASE UNCHANGED registrationVars
  BY <1>1 DEF registrationVars, shopVars, pluginVars, RegistrationInv, ShopTyped, TokenInv,
              TokenRegistersOnce, SecretInv, VisitInv, Registers, OpenToken, PluginKeyStands
<1>2. CASE RegistrationNext
  BY <1>2, ShopSafely, PluginSafely, VisitsSafely, FinalizeSafely, ConfirmSafely,
     ProvisionSafely DEF RegistrationNext
<1> QED
  BY <1>1, <1>2

LEMMA RegistrationStays == RegistrationSpec => []RegistrationInv
BY RegistrationInitial, RegistrationStep, PTL DEF RegistrationSpec

-----------------------------------------------------------------------------
\* No two plugin credentials come of one token, nor one of a token that a newer one
\* has replaced; and the webhook credentials a plugin was given stay the store's
\* until its owner rotates them (finalize and provisionWebhookCredentials).
THEOREM CredentialsAlwaysStand == RegistrationSpec => []CredentialsStand
<1>1. RegistrationInv => CredentialsStand
  BY DEF RegistrationInv, TokenInv, CredentialsStand
<1> QED
  BY <1>1, RegistrationStays, PTL

\* A store's health is written only for the credential of its present registration
\* (confirmPluginConnection).
THEOREM HealthComesOfThePlugin == RegistrationSpec => HealthIsThePlugins
<1>1. RegistrationInv /\ [RegistrationNext]_registrationVars =>
         [shop'.healthy # shop.healthy =>
             /\ shop'.healthy[1] = Len(registered)
             /\ shop.status = "ACTIVE" /\ ~shop.deleted]_registrationVars
  <2> SUFFICES ASSUME RegistrationInv, RegistrationNext, shop'.healthy # shop.healthy
               PROVE  /\ shop'.healthy[1] = Len(registered)
                      /\ shop.status = "ACTIVE" /\ ~shop.deleted
    OBVIOUS
  <2>1. shop \in Shop
    BY DEF RegistrationInv, ShopTyped
  <2>2. PICK v \in Visits : ConfirmWrites(v)
    BY <2>1 DEF RegistrationNext, IssueRegistrationToken, RegistrationExpires, SoftDelete,
                DisconnectShop, Installs, PluginGivesUp, Uninstalls, Connects, ConfirmsHealth,
                AsksApi, FinalizeReads, FinalizeWrites, ConfirmReads, WebhooksVerified,
                ProvisionReads, ProvisionWrites, TurnedAway, Onward, Shop, shopVars
  <2>3. Confirmable(v) /\ shop'.healthy = <<visit[v].with, visit[v].key>>
    BY <2>1, <2>2 DEF ConfirmWrites, Shop
  <2> QED
    BY <2>3 DEF Confirmable, RegistrationInv, SecretInv
<1> QED
  BY <1>1, RegistrationStays, PTL DEF RegistrationSpec, HealthIsThePlugins

\* Nobody holds a credential that was not drawn; and a registration that draws no
\* webhook credentials, as the store had some, finds them still there.
DrawnInv ==
    /\ shop.status = "ACTIVE" <=> shop.secret # 0
    /\ shop.status = "ACTIVE" => shop.key # 0
    /\ shop.key <= keys /\ plugin.key <= keys /\ hooks \in Nat /\ hooks <= keys
    /\ plugin.secret <= Len(registered) /\ plugin.told <= Len(registered)
    /\ awaited \in Visits \cup {NoVisit}
    /\ ~shop.deleted =>
          \A v \in Visits :
             visit[v].kind = "register" /\ visit[v].step = "write" /\ visit[v].key # 0
             => shop.key # 0

LEMMA DrawnInitial == RegistrationInit => DrawnInv
BY DEF RegistrationInit, DrawnInv, NoOptions, NoVisitor

\* The types of what DrawnInv compares.
LEMMA DrawnNumbers ==
    ASSUME ShopTyped
    PROVE  /\ keys \in Nat /\ shop.key \in Nat /\ shop.secret \in Nat
           /\ shop.status \in {"PENDING", "ACTIVE", "DISCONNECTED"} /\ shop.deleted \in BOOLEAN
           /\ plugin.key \in Nat /\ plugin.secret \in Nat /\ plugin.told \in Nat
           /\ Len(registered) \in Nat
           /\ \A v \in Visits : visit[v] \in VisitRecord /\ visit[v].key \in Nat
BY Bounds DEF ShopTyped, Shop, WebhookKey, VisitRecord

\* A request that begins, goes on or leaves.
LEMMA DrawnVisit ==
    ASSUME ShopTyped, DrawnInv, NEW v \in Visits, NEW next,
           visit' = [visit EXCEPT ![v] = next],
           next.kind = "register" /\ next.step = "write" => next.key = shop.key,
           awaited' \in Visits \cup {NoVisit},
           UNCHANGED <<shop, keys, registered, plugin, hooks>>
    PROVE  DrawnInv'
<1>1. \A u \in Visits : visit'[u] = IF u = v THEN next ELSE visit[u]
  BY DEF ShopTyped
<1> QED
  BY <1>1 DEF DrawnInv

LEMMA LeftVisits ==
    ASSUME ShopTyped, DrawnInv, NEW v \in Visits, Leave(v)
    PROVE  /\ awaited' \in Visits \cup {NoVisit}
           /\ \A u \in Visits : visit'[u] = IF u = v THEN NoVisitor ELSE visit[u]
BY DEF ShopTyped, DrawnInv, Leave

LEMMA DrawnStep ==
    RegistrationInv /\ DrawnInv /\ [RegistrationNext]_registrationVars => DrawnInv'
<1> SUFFICES ASSUME RegistrationInv, DrawnInv, [RegistrationNext]_registrationVars
             PROVE  DrawnInv'
  OBVIOUS
<1> USE DEF RegistrationInv
<1>1. CASE IssueRegistrationToken \/ RegistrationExpires \/ SoftDelete
  <2>1. /\ UNCHANGED <<keys, registered, plugin, hooks, awaited, visit>>
        /\ shop'.status = shop.status /\ shop'.secret = shop.secret /\ shop'.key = shop.key
        /\ ~shop'.deleted => ~shop.deleted
    BY <1>1 DEF IssueRegistrationToken, RegistrationExpires, SoftDelete, pluginVars,
                ShopTyped, Shop
  <2> QED
    BY <2>1 DEF DrawnInv
<1>2. CASE DisconnectShop
  <2>1. /\ UNCHANGED <<keys, registered, plugin, hooks, awaited, visit>>
        /\ shop'.status = "DISCONNECTED" /\ shop'.secret = 0 /\ shop'.key = 0
        /\ shop'.deleted
    BY <1>2 DEF DisconnectShop, pluginVars, ShopTyped, Shop
  <2> QED
    BY <2>1, DrawnNumbers DEF DrawnInv
<1>3. CASE Installs \/ PluginGivesUp \/ Uninstalls
  BY <1>3, DrawnNumbers
     DEF Installs, PluginGivesUp, Uninstalls, NoOptions, shopVars, DrawnInv
<1>4. ASSUME NEW v \in Visits, Connects(v) \/ ConfirmsHealth(v) PROVE DrawnInv'
  <2>1. PICK what, with : Visitor(v, what, with)
    BY <1>4 DEF Connects, ConfirmsHealth
  <2> DEFINE next == [NoVisitor EXCEPT !.step = "begin", !.kind = what, !.with = with]
  <2>2. visit' = [visit EXCEPT ![v] = next] /\ next.step = "begin"
    BY <2>1 DEF Visitor, NoVisitor
  <2>3. awaited' = v /\ UNCHANGED <<shop, keys, registered, plugin, hooks>>
    BY <1>4 DEF Connects, ConfirmsHealth, shopVars
  <2> HIDE DEF next
  <2> QED
    BY <2>2, <2>3, DrawnVisit
<1>5. ASSUME NEW v \in Visits, NEW what, AsksApi(v, what) PROVE DrawnInv'
  <2> DEFINE next == [NoVisitor EXCEPT !.step = "begin", !.kind = what, !.with = 0]
  <2>1. visit' = [visit EXCEPT ![v] = next] /\ next.step = "begin"
    BY <1>5 DEF AsksApi, Visitor, NoVisitor
  <2>2. UNCHANGED <<shop, keys, registered, plugin, hooks, awaited>>
    BY <1>5 DEF AsksApi, shopVars, pluginVars
  <2> HIDE DEF next
  <2> QED
    BY <2>1, <2>2, DrawnVisit DEF DrawnInv
<1>6. ASSUME NEW v \in Visits, NEW to \in {"http", "write"}, Onward(v, to) PROVE DrawnInv'
  <2>0. visit[v] \in VisitRecord /\ visit \in [Visits -> VisitRecord]
    BY DEF ShopTyped
  <2>1. visit'[v].key = shop.key
        /\ \A u \in Visits : u # v => visit'[u] = visit[u]
    BY <1>6, <2>0 DEF Onward, VisitRecord
  <2>2. UNCHANGED <<shop, keys, registered, plugin, hooks, awaited>>
    BY <1>6 DEF Onward, shopVars, pluginVars
  <2> QED
    BY <2>1, <2>2 DEF DrawnInv
<1>7. ASSUME NEW v \in Visits, WebhooksVerified(v) PROVE DrawnInv'
  <2>0. visit[v] \in VisitRecord /\ visit \in [Visits -> VisitRecord]
        /\ visit[v].kind = "confirm"
    BY <1>7 DEF ShopTyped, WebhooksVerified, VisitInv, Registers
  <2>1. visit'[v].kind = "confirm"
        /\ \A u \in Visits : u # v => visit'[u] = visit[u]
    BY <1>7, <2>0 DEF WebhooksVerified, VisitRecord
  <2>2. UNCHANGED <<shop, keys, registered, plugin, hooks, awaited>>
    BY <1>7 DEF WebhooksVerified, shopVars, pluginVars
  <2> QED
    BY <2>1, <2>2 DEF DrawnInv
<1>8. ASSUME NEW v \in Visits, TurnedAway(v) PROVE DrawnInv'
  <2>1. UNCHANGED <<shop, keys, registered, plugin, hooks>>
    BY <1>8 DEF TurnedAway, shopVars
  <2> QED
    BY <1>8, <2>1, LeftVisits DEF TurnedAway, DrawnInv, NoVisitor
<1>9. ASSUME NEW v \in Visits, ConfirmWrites(v) PROVE DrawnInv'
  <2>1. /\ UNCHANGED <<keys, registered, plugin, hooks>>
        /\ shop'.status = shop.status /\ shop'.secret = shop.secret /\ shop'.key = shop.key
        /\ shop'.deleted = shop.deleted
    BY <1>9 DEF ConfirmWrites, ShopTyped, Shop
  <2> QED
    BY <1>9, <2>1, LeftVisits DEF ConfirmWrites, DrawnInv, NoVisitor
<1>10. ASSUME NEW v \in Visits, ProvisionWrites(v) PROVE DrawnInv'
  <2>1. /\ UNCHANGED <<registered, plugin, hooks>>
        /\ keys' = keys + 1 /\ shop'.key = keys + 1
        /\ shop'.status = shop.status /\ shop'.secret = shop.secret
    BY <1>10 DEF ProvisionWrites, ShopTyped, Shop
  <2> QED
    BY <1>10, <2>1, LeftVisits, DrawnNumbers DEF ProvisionWrites, DrawnInv
<1>11. ASSUME NEW v \in Visits, FinalizeWrites(v) PROVE DrawnInv'
  <2> DEFINE draws == visit[v].key = 0
             secret == Len(registered) + 1
  <2>1. /\ hooks' = hooks /\ keys' = IF draws THEN keys + 1 ELSE keys
        /\ registered' = Append(registered, visit[v].with)
        /\ shop'.status = "ACTIVE" /\ shop'.secret = secret
        /\ shop'.key = IF draws THEN keys' ELSE shop.key
        /\ shop'.deleted = shop.deleted /\ ~shop.deleted
        /\ visit[v].step = "write" /\ visit[v].kind = "register"
        /\ plugin' = Persisted(secret, IF draws THEN keys' ELSE 0) \/ plugin' = plugin
        /\ Leave(v)
    BY <1>11 DEF FinalizeWrites, Finalizable, ShopTyped, Shop
  <2>2. /\ Len(registered') = Len(registered) + 1 /\ secret \in Nat /\ secret # 0
        /\ keys' \in Nat /\ keys <= keys'
    BY <2>1, DrawnNumbers DEF ShopTyped
  <2>3. shop'.key # 0 /\ shop'.key <= keys'
    BY <2>1, <2>2, DrawnNumbers DEF DrawnInv
  <2>4. plugin'.key <= keys' /\ plugin'.secret <= secret /\ plugin'.told <= secret
    <3>1. CASE plugin' = plugin
      BY <2>2, <3>1, DrawnNumbers DEF DrawnInv
    <3>2. CASE plugin' = Persisted(secret, IF draws THEN keys' ELSE 0)
      <4>1. plugin \in [secret : Nat, key : Nat, told : Nat]
        BY DEF ShopTyped
      <4>2. /\ plugin'.key \in {plugin.key, keys'} /\ plugin'.told = secret
            /\ plugin'.secret \in {plugin.secret, secret}
        BY <3>2, <4>1 DEF Persisted
      <4> HIDE DEF secret
      <4> QED
        BY <2>2, <4>2, DrawnNumbers DEF DrawnInv, secret
    <3> QED
      BY <2>1, <3>1, <3>2
  <2>5. /\ awaited' \in Visits \cup {NoVisit}
        /\ hooks' <= keys' /\ hooks' \in Nat
    BY <2>1, <2>2, LeftVisits, DrawnNumbers DEF DrawnInv
  <2> HIDE DEF secret
  <2> QED
    BY <2>1, <2>2, <2>3, <2>4, <2>5 DEF DrawnInv, secret
<1>12. CASE UNCHANGED registrationVars
  BY <1>12 DEF registrationVars, shopVars, pluginVars, DrawnInv
<1>13. CASE RegistrationNext
  BY <1>1, <1>2, <1>3, <1>4, <1>5, <1>6, <1>7, <1>8, <1>9, <1>10, <1>11, <1>13
     DEF RegistrationNext, FinalizeReads, ConfirmReads, ProvisionReads
<1> QED
  BY <1>12, <1>13

LEMMA RegistrationTypes == RegistrationInv /\ DrawnInv => RegistrationTypeOK
<1> SUFFICES ASSUME RegistrationInv, DrawnInv PROVE RegistrationTypeOK
  OBVIOUS
<1>1. ShopTyped /\ SecretInv
  BY DEF RegistrationInv
<1>2. plugin \in [secret : 0 .. Len(registered), key : 0 .. keys,
                  told : 0 .. Len(registered)]
  BY <1>1, DrawnNumbers DEF ShopTyped, DrawnInv
<1>3. hooks \in 0 .. keys
  BY <1>1, DrawnNumbers DEF DrawnInv
<1> QED
  BY <1>1, <1>2, <1>3 DEF RegistrationTypeOK, ShopTyped, SecretInv, DrawnInv, VisitRecord

\* A store is ACTIVE exactly while it has the last credential that a plugin was given,
\* and then it has webhook credentials, too; nobody holds one that was not drawn.
THEOREM RegistrationTypeCorrect == RegistrationSpec => []RegistrationTypeOK
BY RegistrationTypes, RegistrationStays, DrawnInitial, DrawnStep, PTL DEF RegistrationSpec

-----------------------------------------------------------------------------
(* Erasures: what is erased stays erased.  An executed entry is gone from  *)
(* the database, or the database has been restored and the ledger, which   *)
(* has the entry, is being replayed on it; and an entry that the replay    *)
(* has passed keeps having nothing left to do.                             *)

\* A database whose proofs are of deletions.
Sound(d) ==
    /\ d \in Database
    /\ \A t \in Tenants, u \in People :
          /\ d.part[t][u].proof # "none" => d.part[t][u].is = "dead" /\ ~d.part[t][u].traces
          /\ d.part[t][u].is = "none" => ~d.part[t][u].traces

\* What is executed is archived, what is archived is in the ledger; it is gone,
\* or the ledger is being replayed, and what it has passed needs no more.
ErasureInv ==
    /\ ErasureTypeOK
    /\ backups \in Seq(Database) /\ \A i \in DOMAIN backups : Sound(backups[i])
    /\ Len(ledger) <= MaxEntries /\ Len(archived) <= MaxEntries
    /\ \A i \in DOMAIN archived : \E j \in DOMAIN ledger : ledger[j] = archived[i]
    /\ \A entry \in executed : \E i \in DOMAIN archived : archived[i] = entry
    /\ step = "archived" => archived = ledger
    /\ mode \in {"up", "stopped"} => \A entry \in executed : IsGone(db, entry)
    /\ mode = "restored" => at >= 1 /\ \A i \in DOMAIN ledger : i < at => Skips(db, ledger[i])
    /\ mode = "replayed" => \A i \in DOMAIN ledger : Skips(db, ledger[i])

LEMMA DatabaseFields ==
    ASSUME NEW d \in Database
    PROVE  /\ d.part \in [Tenants -> [People -> Part]] /\ d.anonymous \subseteq People
           /\ d.store \in [Tenants -> StoreRow] /\ d.tenant \in [Tenants -> TenantRow]
           /\ d = [part |-> d.part, anonymous |-> d.anonymous, store |-> d.store,
                   tenant |-> d.tenant]
           /\ \A t \in Tenants, u \in People : d.part[t][u] \in Part
  BY DEF Database

LEMMA TargetKinds ==
    ASSUME NEW entry \in Targets
    PROVE  /\ entry.tenant \in Tenants
           /\ \/ entry.kind = "store" /\ entry = StoreEntry(entry.tenant)
              \/ entry.kind = "tenant" /\ entry = TenantEntry(entry.tenant)
              \/ /\ entry.kind = "identity" /\ entry.user \in People
                 /\ entry = IdentityEntry(entry.tenant, entry.user)
  BY DEF Targets, StoreEntry, TenantEntry, IdentityEntry

\* An erasure has worked on what u is in t.
Touches(d, e, t, u) ==
    /\ d.part[t][u].is # "none"
    /\ u \notin d.anonymous \/ ~PartIsErased(d, t, u)
    /\ e.part[t][u] = [is |-> "dead", traces |-> FALSE,
                       proof |-> IF Shared(d, t, u) THEN "shared"
                                 ELSE IF u \in d.anonymous THEN "again" ELSE "sole"]
    /\ ~Shared(d, t, u) => u \in e.anonymous

\* What an erasure may do to a database.
Alters(d, e, entry) ==
    /\ Sound(e) /\ d.anonymous \subseteq e.anonymous
    /\ \A t \in Tenants :
          /\ e.store[t] = d.store[t] \/ (e.store[t] = "erased" /\ entry = StoreEntry(t))
          /\ e.tenant[t] = d.tenant[t] \/ e.tenant[t] = "erased"
    /\ \A t \in Tenants, u \in People : e.part[t][u] = d.part[t][u] \/ Touches(d, e, t, u)
    /\ \A u \in e.anonymous \ d.anonymous :
          \E t \in Tenants : Touches(d, e, t, u) /\ ~Shared(d, t, u)

LEMMA IdentityEffect ==
    ASSUME NEW d, Sound(d), NEW t \in Tenants, NEW u \in MembersOf(d, t) \ d.anonymous,
           NEW e, e = IdentityErased(d, t, u)
    PROVE  Alters(d, e, IdentityEntry(t, u)) /\ Touches(d, e, t, u)
           /\ e.store = d.store /\ e.tenant = d.tenant
  <1> DEFINE shared == Shared(d, t, u)
             part == [is |-> "dead", traces |-> FALSE,
                      proof |-> IF shared THEN "shared"
                                ELSE IF u \in d.anonymous THEN "again" ELSE "sole"]
  <1>1. d \in Database /\ u \in People /\ part \in Part /\ d.part[t][u].is # "none"
        /\ u \notin d.anonymous
    BY DEF Sound, MembersOf, Part
  <1>2. e = [d EXCEPT !.part[t][u] = part,
                      !.anonymous = IF shared THEN @ ELSE @ \cup {u}]
    BY DEF IdentityErased
  <1> HIDE DEF shared, part
  <1>3. /\ e.part = [d.part EXCEPT ![t][u] = part]
        /\ e.anonymous = IF shared THEN d.anonymous ELSE d.anonymous \cup {u}
        /\ e.store = d.store /\ e.tenant = d.tenant
        /\ e = [part |-> e.part, anonymous |-> e.anonymous, store |-> e.store,
                tenant |-> e.tenant]
    <2>1. d = [part |-> d.part, anonymous |-> d.anonymous, store |-> d.store,
               tenant |-> d.tenant]
      BY <1>1, DatabaseFields
    <2>2. e = [part |-> [d.part EXCEPT ![t][u] = part],
               anonymous |-> IF shared THEN d.anonymous ELSE d.anonymous \cup {u},
               store |-> d.store, tenant |-> d.tenant]
      BY <1>2, <2>1
    <2> QED
      BY <2>2
  <1>4. \A t2 \in Tenants, u2 \in People :
           e.part[t2][u2] = IF t2 = t /\ u2 = u THEN part ELSE d.part[t2][u2]
    BY <1>1, <1>3, DatabaseFields
  <1>5. e \in Database
    <2>1. e.part \in [Tenants -> [People -> Part]]
      BY <1>1, <1>3, DatabaseFields
    <2>2. e.anonymous \in SUBSET People
      BY <1>1, <1>3, DatabaseFields
    <2> QED
      BY <1>1, <1>3, <2>1, <2>2, DatabaseFields DEF Database
  <1>6. part.is = "dead" /\ ~part.traces /\ part.proof # "none"
    BY DEF part
  <1>7. Sound(e)
    BY <1>4, <1>5, <1>6 DEF Sound
  <1>8. Touches(d, e, t, u)
    BY <1>1, <1>3, <1>4 DEF Touches, part, shared
  <1> QED
    BY <1>1, <1>3, <1>4, <1>7, <1>8 DEF Alters, shared

LEMMA TenantEffect ==
    ASSUME NEW d, Sound(d), NEW t \in Tenants, NEW e, e = TenantErased(d, t)
    PROVE  /\ Alters(d, e, TenantEntry(t)) /\ e.tenant[t] = "erased" /\ e.store = d.store
           /\ \A u \in MembersOf(d, t) :
                 Touches(d, e, t, u) \/ (PartIsErased(d, t, u) /\ e.part[t][u] = d.part[t][u])
  <1> DEFINE left == {u \in MembersOf(d, t) : ~PartIsErased(d, t, u)}
             new(u) == [is |-> "dead", traces |-> FALSE,
                        proof |-> IF Shared(d, t, u) THEN "shared"
                                  ELSE IF u \in d.anonymous THEN "again" ELSE "sole"]
  <1>1. d \in Database /\ left \subseteq People
    BY DEF Sound, MembersOf
  <1>2. \A u \in left : IdentityErased(d, t, u).part[t][u] = new(u)
    <2> TAKE u \in left
    <2>1. d = [part |-> d.part, anonymous |-> d.anonymous, store |-> d.store,
               tenant |-> d.tenant]
      BY <1>1, DatabaseFields
    <2>2. IdentityErased(d, t, u).part = [d.part EXCEPT ![t][u] = new(u)]
      BY <2>1 DEF IdentityErased
    <2> QED
      BY <1>1, <2>2, DatabaseFields
  <1>3. \A u \in People : new(u) \in Part /\ new(u).is = "dead" /\ ~new(u).traces
                          /\ new(u).proof # "none"
    BY DEF Part
  <1>4. e = [d EXCEPT !.part[t] = [u \in People |-> IF u \in left
                                      THEN IdentityErased(d, t, u).part[t][u] ELSE @[u]],
                      !.anonymous = @ \cup {u \in left : ~Shared(d, t, u)},
                      !.tenant[t] = "erased"]
    BY DEF TenantErased
  <1> HIDE DEF new, left
  <1>5. /\ e.part = [d.part EXCEPT ![t] =
              [u \in People |-> IF u \in left THEN IdentityErased(d, t, u).part[t][u]
                                ELSE d.part[t][u]]]
        /\ e.anonymous = d.anonymous \cup {u \in left : ~Shared(d, t, u)}
        /\ e.tenant = [d.tenant EXCEPT ![t] = "erased"] /\ e.store = d.store
        /\ e = [part |-> e.part, anonymous |-> e.anonymous, store |-> e.store,
                tenant |-> e.tenant]
    <2>1. d = [part |-> d.part, anonymous |-> d.anonymous, store |-> d.store,
               tenant |-> d.tenant]
      BY <1>1, DatabaseFields
    <2>2. e = [part |-> [d.part EXCEPT ![t] =
                  [u \in People |-> IF u \in left
                                    THEN IdentityErased(d, t, u).part[t][u]
                                    ELSE d.part[t][u]]],
               anonymous |-> d.anonymous \cup {u \in left : ~Shared(d, t, u)},
               store |-> d.store, tenant |-> [d.tenant EXCEPT ![t] = "erased"]]
      BY <1>4, <2>1
    <2> QED
      BY <2>2
  <1>6. \A t2 \in Tenants, u \in People :
           e.part[t2][u] = IF t2 = t /\ u \in left THEN new(u) ELSE d.part[t2][u]
    BY <1>1, <1>2, <1>5, DatabaseFields
  <1>7. e \in Database
    <2>1. e.part \in [Tenants -> [People -> Part]]
      <3>1. [u \in People |-> IF u \in left THEN IdentityErased(d, t, u).part[t][u]
                              ELSE d.part[t][u]] \in [People -> Part]
        BY <1>1, <1>2, <1>3, DatabaseFields
      <3> QED
        BY <1>1, <1>5, <3>1, DatabaseFields
    <2>2. e.anonymous \in SUBSET People
      BY <1>1, <1>5, DatabaseFields
    <2>3. e.tenant \in [Tenants -> TenantRow]
      BY <1>1, <1>5, DatabaseFields DEF TenantRow
    <2> QED
      BY <1>1, <1>5, <2>1, <2>2, <2>3, DatabaseFields DEF Database
  <1>8. Sound(e)
    BY <1>3, <1>6, <1>7 DEF Sound
  <1>9. \A u \in left : Touches(d, e, t, u)
    BY <1>1, <1>5, <1>6 DEF Touches, left, new, MembersOf
  <1>10. \A u \in MembersOf(d, t) : u \in People
    BY DEF MembersOf
  <1>11. \A u \in MembersOf(d, t) \ left : PartIsErased(d, t, u) /\ e.part[t][u] = d.part[t][u]
    BY <1>6, <1>10 DEF left
  <1>12. \A t2 \in Tenants : e.tenant[t2] = d.tenant[t2] \/ e.tenant[t2] = "erased"
    BY <1>1, <1>5, DatabaseFields
  <1>13. e.tenant[t] = "erased"
    BY <1>1, <1>5, DatabaseFields
  <1>14. \A u \in e.anonymous \ d.anonymous : Touches(d, e, t, u) /\ ~Shared(d, t, u)
    BY <1>5, <1>9
  <1>15. \A t2 \in Tenants, u \in People :
            e.part[t2][u] = d.part[t2][u] \/ Touches(d, e, t2, u)
    BY <1>6, <1>9
  <1> QED
    BY <1>5, <1>8, <1>9, <1>11, <1>12, <1>13, <1>14, <1>15 DEF Alters

LEMMA StoreEffect ==
    ASSUME NEW d, Sound(d), NEW t \in Tenants,
           NEW e, e = [d EXCEPT !.store[t] = "erased"]
    PROVE  Alters(d, e, StoreEntry(t)) /\ e.store[t] = "erased"
  <1>1. d \in Database
    BY DEF Sound
  <1>2. /\ e.store = [d.store EXCEPT ![t] = "erased"] /\ e.part = d.part
        /\ e.anonymous = d.anonymous /\ e.tenant = d.tenant
        /\ e = [part |-> e.part, anonymous |-> e.anonymous, store |-> e.store,
                tenant |-> e.tenant]
    <2>1. d = [part |-> d.part, anonymous |-> d.anonymous, store |-> d.store,
               tenant |-> d.tenant]
      BY <1>1, DatabaseFields
    <2>2. e = [part |-> d.part, anonymous |-> d.anonymous,
               store |-> [d.store EXCEPT ![t] = "erased"], tenant |-> d.tenant]
      BY <2>1
    <2> QED
      BY <2>2
  <1>3. e.store \in [Tenants -> StoreRow]
    BY <1>1, <1>2, DatabaseFields DEF StoreRow
  <1>4. e \in Database
    BY <1>1, <1>2, <1>3, DatabaseFields DEF Database
  <1>5. Sound(e)
    BY <1>2, <1>4 DEF Sound
  <1>6. \A t2 \in Tenants : e.store[t2] = d.store[t2] \/ (e.store[t2] = "erased" /\ t2 = t)
    BY <1>1, <1>2, DatabaseFields
  <1>7. e.store[t] = "erased"
    BY <1>1, <1>2, DatabaseFields
  <1> QED
    BY <1>2, <1>5, <1>6, <1>7 DEF Alters

LEMMA ErasedEffect ==
    ASSUME NEW d, Sound(d), NEW entry \in Targets, Replayable(d, entry)
    PROVE  Alters(d, Erased(d, entry), entry)
  <1>1. CASE entry.kind = "store"
    BY <1>1, TargetKinds, StoreEffect DEF Erased
  <1>2. CASE entry.kind = "tenant"
    <2>1. Erased(d, entry) = TenantErased(d, entry.tenant)
      BY <1>2 DEF Erased
    <2> QED
      BY <1>2, <2>1, TargetKinds, TenantEffect
  <1>3. CASE entry.kind = "identity"
    <2>1. Erased(d, entry) = IdentityErased(d, entry.tenant, entry.user)
      BY <1>3 DEF Erased
    <2>2. entry.user \in MembersOf(d, entry.tenant) \ d.anonymous
      BY <1>3 DEF Replayable, Erasable
    <2> QED
      BY <1>3, <2>1, <2>2, TargetKinds, IdentityEffect
  <1> QED
    BY <1>1, <1>2, <1>3, TargetKinds

\* Nobody becomes or ceases to be a member by an erasure.
LEMMA SharedStays ==
    ASSUME NEW d, NEW e, NEW entry, Alters(d, e, entry),
           NEW t \in Tenants, NEW u \in People
    PROVE  /\ Shared(e, t, u) <=> Shared(d, t, u)
           /\ u \in MembersOf(e, t) <=> u \in MembersOf(d, t)
  <1>1. \A t2 \in Tenants : e.part[t2][u].is # "none" <=> d.part[t2][u].is # "none"
    <2> TAKE t2 \in Tenants
    <2>1. e.part[t2][u] = d.part[t2][u] \/ Touches(d, e, t2, u)
      BY DEF Alters
    <2>2. CASE Touches(d, e, t2, u)
      <3>1. d.part[t2][u].is # "none" /\ e.part[t2][u].is = "dead"
        BY <2>2 DEF Touches
      <3> QED
        BY <3>1
    <2> QED
      BY <2>1, <2>2
  <1> QED
    BY <1>1 DEF Shared, MembersOf

\* Whom another tenant has, too, keeps their user.
LEMMA SharedKeep ==
    ASSUME NEW d, NEW e, NEW entry, Alters(d, e, entry),
           NEW t \in Tenants, NEW u \in People, d.part[t][u].is # "none", Shared(d, t, u)
    PROVE  u \in e.anonymous => u \in d.anonymous
  <1>1. \A t2 \in Tenants : Shared(d, t2, u)
    BY DEF Shared
  <1> QED
    BY <1>1 DEF Alters

LEMMA PartStaysErased ==
    ASSUME NEW d, NEW e, NEW entry, Alters(d, e, entry),
           NEW t \in Tenants, NEW u \in People, PartIsErased(d, t, u)
    PROVE  PartIsErased(e, t, u)
  <1>1. Shared(e, t, u) <=> Shared(d, t, u)
    BY SharedStays
  <1>2. e.part[t][u] = d.part[t][u] \/ Touches(d, e, t, u)
    BY DEF Alters
  <1>3. CASE Shared(d, t, u)
    BY <1>1, <1>2, <1>3 DEF PartIsErased, Touches
  <1>4. CASE ~Shared(d, t, u)
    <2>1. u \in d.anonymous /\ e.part[t][u] = d.part[t][u] /\ u \in e.anonymous
      BY <1>2, <1>4 DEF PartIsErased, Touches, Alters
    <2> QED
      BY <1>1, <1>4, <2>1 DEF PartIsErased
  <1> QED
    BY <1>3, <1>4

LEMMA TouchedIsErased ==
    ASSUME NEW d, NEW e, NEW entry, Alters(d, e, entry),
           NEW t \in Tenants, NEW u \in People, Touches(d, e, t, u)
    PROVE  PartIsErased(e, t, u)
  <1>1. Shared(e, t, u) <=> Shared(d, t, u)
    BY SharedStays
  <1> QED
    BY <1>1 DEF PartIsErased, Touches

\* What has been replayed has nothing left to do after the next entry, either.
LEMMA SkipsStay ==
    ASSUME NEW d, NEW e, NEW entry, Alters(d, e, entry), NEW g \in Targets, Skips(d, g)
    PROVE  Skips(e, g)
  <1>1. g.tenant \in Tenants
    BY TargetKinds
  <1>2. CASE g.kind = "store"
    BY <1>1, <1>2 DEF Skips, Alters
  <1>3. CASE g.kind = "tenant"
    <2>1. TenantIsErased(d, g.tenant)
      BY <1>3 DEF Skips
    <2>2. \A u \in MembersOf(e, g.tenant) : PartIsErased(e, g.tenant, u)
      <3> TAKE u \in MembersOf(e, g.tenant)
      <3>1. u \in People
        BY DEF MembersOf
      <3>2. u \in MembersOf(d, g.tenant)
        BY <1>1, <3>1, SharedStays
      <3> QED
        BY <1>1, <2>1, <3>1, <3>2, PartStaysErased DEF TenantIsErased
    <2>3. e.tenant[g.tenant] = "erased" /\ e.store[g.tenant] \in {"none", "erased"}
      BY <1>1, <2>1 DEF TenantIsErased, Alters
    <2> QED
      BY <1>3, <2>2, <2>3 DEF Skips, TenantIsErased
  <1>4. CASE g.kind = "identity"
    <2>1. PICK t, u : t = g.tenant /\ u = g.user
      OBVIOUS
    <2>2. t \in Tenants /\ u \in People
      BY <1>4, <2>1, TargetKinds
    <2>3. CASE \A other \in Tenants : d.part[other][u].is = "none"
      <3>1. \A other \in Tenants : e.part[other][u].is = "none"
        BY <2>2, <2>3 DEF Alters, Touches
      <3> QED
        BY <1>4, <2>1, <3>1 DEF Skips
    <2>4. CASE IdentityIsErased(d, t, u)
      <3>1. PartIsErased(d, t, u) /\ PartIsErased(e, t, u) /\ d.part[t][u].is # "none"
        BY <2>2, <2>4, PartStaysErased DEF IdentityIsErased, PartIsErased
      <3>2. Shared(e, t, u) <=> Shared(d, t, u)
        BY <2>2, SharedStays
      <3>3. CASE Shared(d, t, u)
        <4>1. u \notin e.anonymous
          BY <2>2, <2>4, <3>1, <3>3, SharedKeep DEF IdentityIsErased
        <4> QED
          BY <1>4, <2>1, <3>1, <3>2, <3>3, <4>1 DEF Skips, IdentityIsErased
      <3>4. CASE ~Shared(d, t, u)
        <4>1. e.part[t][u] = d.part[t][u]
          BY <2>2, <3>1, <3>4 DEF Alters, Touches, PartIsErased
        <4>2. e.part[t][u].proof # "again"
          BY <2>4, <3>4, <4>1 DEF IdentityIsErased
        <4> QED
          BY <1>4, <2>1, <3>1, <3>2, <3>4, <4>2 DEF Skips, IdentityIsErased
      <3> QED
        BY <3>3, <3>4
    <2> QED
      BY <1>4, <2>1, <2>3, <2>4 DEF Skips
  <1> QED
    BY <1>2, <1>3, <1>4, TargetKinds

\* An entry that has just been replayed has nothing left to do.
LEMMA ErasedSkips ==
    ASSUME NEW d, Sound(d), NEW entry \in Targets, Replayable(d, entry)
    PROVE  Skips(Erased(d, entry), entry)
  <1>1. PICK e, t : e = Erased(d, entry) /\ t = entry.tenant
    OBVIOUS
  <1>2. t \in Tenants /\ Alters(d, e, entry)
    BY <1>1, TargetKinds, ErasedEffect
  <1>3. CASE entry.kind = "store"
    <2>1. e.store[t] = "erased"
      BY <1>1, <1>2, <1>3, StoreEffect DEF Erased
    <2> QED
      BY <1>1, <1>3, <2>1 DEF Skips
  <1>4. CASE entry.kind = "tenant"
    <2>1. e = TenantErased(d, t)
      BY <1>1, <1>4 DEF Erased
    <2>2. /\ e.tenant[t] = "erased" /\ e.store = d.store
          /\ \A u \in MembersOf(d, t) :
                Touches(d, e, t, u) \/ PartIsErased(d, t, u)
      BY <1>2, <2>1, TenantEffect
    <2>3. d.store[t] \in {"none", "erased"}
      BY <1>1, <1>4 DEF Replayable, Erasable
    <2>4. \A u \in MembersOf(e, t) : PartIsErased(e, t, u)
      <3> TAKE u \in MembersOf(e, t)
      <3>1. u \in People
        BY DEF MembersOf
      <3>2. u \in MembersOf(d, t)
        BY <1>2, <3>1, SharedStays
      <3> QED
        BY <1>2, <2>2, <3>1, <3>2, PartStaysErased, TouchedIsErased
    <2> QED
      BY <1>1, <1>4, <2>2, <2>3, <2>4 DEF Skips, TenantIsErased
  <1>5. CASE entry.kind = "identity"
    <2>1. PICK u : u = entry.user
      OBVIOUS
    <2>2. u \in People /\ e = IdentityErased(d, t, u) /\ u \in MembersOf(d, t) \ d.anonymous
      BY <1>1, <1>5, <2>1, TargetKinds DEF Replayable, Erasable, Erased
    <2>3. Touches(d, e, t, u)
      BY <1>2, <2>2, IdentityEffect
    <2>4. PartIsErased(e, t, u)
      BY <1>2, <2>2, <2>3, TouchedIsErased
    <2>5. Shared(e, t, u) <=> Shared(d, t, u)
      BY <1>2, <2>2, SharedStays
    <2>6. Shared(d, t, u) => u \notin e.anonymous
      BY <1>2, <2>2, SharedKeep DEF MembersOf
    <2>7. ~Shared(d, t, u) => e.part[t][u].proof # "again"
      BY <2>2, <2>3 DEF Touches
    <2>8. IdentityIsErased(e, t, u)
      BY <2>4, <2>5, <2>6, <2>7 DEF IdentityIsErased
    <2> QED
      BY <1>1, <1>5, <2>1, <2>8 DEF Skips
  <1> QED
    BY <1>3, <1>4, <1>5, TargetKinds

\* What has nothing left to do is gone.
LEMMA SkippedIsGone ==
    ASSUME NEW d, Sound(d), NEW entry \in Targets, Skips(d, entry)
    PROVE  IsGone(d, entry)
  <1>1. entry.tenant \in Tenants
    BY TargetKinds
  <1>2. CASE entry.kind = "store"
    BY <1>2 DEF Skips, IsGone
  <1>3. CASE entry.kind = "tenant"
    BY <1>3 DEF Skips, IsGone, TenantIsErased
  <1>4. CASE entry.kind = "identity"
    <2>1. PICK t, u : t = entry.tenant /\ u = entry.user
      OBVIOUS
    <2>2. t \in Tenants /\ u \in People
      BY <1>4, <2>1, TargetKinds
    <2>3. CASE IdentityIsErased(d, t, u)
      BY <1>4, <2>1, <2>3 DEF IsGone, IdentityIsErased, PartIsErased
    <2>4. CASE \A other \in Tenants : d.part[other][u].is = "none"
      <3>1. d.part[t][u].is = "none" /\ ~d.part[t][u].traces /\ u \notin MembersOf(d, t)
        BY <2>2, <2>4 DEF Sound, MembersOf
      <3> QED
        BY <1>4, <2>1, <3>1 DEF IsGone
    <2> QED
      BY <1>4, <2>1, <2>3, <2>4 DEF Skips
  <1> QED
    BY <1>2, <1>3, <1>4, TargetKinds

\* What is gone stays gone when something else is erased.
LEMMA GoneStays ==
    ASSUME NEW d, NEW e, NEW entry, Alters(d, e, entry), NEW g \in Targets, IsGone(d, g)
    PROVE  IsGone(e, g)
  <1>1. g.tenant \in Tenants
    BY TargetKinds
  <1>2. CASE g.kind = "store"
    BY <1>1, <1>2 DEF IsGone, Alters
  <1>3. CASE g.kind = "tenant"
    BY <1>1, <1>3 DEF IsGone, Alters
  <1>4. CASE g.kind = "identity"
    <2>1. PICK t, u : t = g.tenant /\ u = g.user
      OBVIOUS
    <2>2. t \in Tenants /\ u \in People
      BY <1>4, <2>1, TargetKinds
    <2>3. /\ d.part[t][u].is # "live" /\ ~d.part[t][u].traces
          /\ ~Shared(d, t, u) /\ u \in MembersOf(d, t) => u \in d.anonymous
      BY <1>4, <2>1 DEF IsGone
    <2>4. e.part[t][u].is # "live" /\ ~e.part[t][u].traces
      <3>1. e.part[t][u] = d.part[t][u] \/ Touches(d, e, t, u)
        BY <2>2 DEF Alters
      <3>2. Touches(d, e, t, u) => e.part[t][u].is = "dead" /\ ~e.part[t][u].traces
        BY DEF Touches
      <3> QED
        BY <2>3, <3>1, <3>2
    <2>5. ~Shared(e, t, u) /\ u \in MembersOf(e, t) => u \in e.anonymous
      BY <2>2, <2>3, SharedStays DEF Alters
    <2> QED
      BY <1>4, <2>1, <2>4, <2>5 DEF IsGone
  <1> QED
    BY <1>2, <1>3, <1>4, TargetKinds

\* A membership changes, and the rest of the database stays.
PartChanges(d, e, t, u, p) ==
    e = [part |-> [d.part EXCEPT ![t][u] = p], anonymous |-> d.anonymous,
         store |-> d.store, tenant |-> d.tenant]

LEMMA PartChangesSoundly ==
    ASSUME NEW d, Sound(d), NEW t \in Tenants, NEW u \in People, NEW e, NEW p \in Part,
           PartChanges(d, e, t, u, p),
           p.proof # "none" => p.is = "dead" /\ ~p.traces, p.is = "none" => ~p.traces
    PROVE  /\ Sound(e) /\ e.anonymous = d.anonymous /\ e.store = d.store
           /\ e.tenant = d.tenant
           /\ \A t2 \in Tenants, u2 \in People :
                 e.part[t2][u2] = IF t2 = t /\ u2 = u THEN p ELSE d.part[t2][u2]
  <1>1. d \in Database
    BY DEF Sound
  <1>2. /\ e.part = [d.part EXCEPT ![t][u] = p] /\ e.anonymous = d.anonymous
        /\ e.store = d.store /\ e.tenant = d.tenant
    BY DEF PartChanges
  <1>3. \A t2 \in Tenants, u2 \in People :
           e.part[t2][u2] = IF t2 = t /\ u2 = u THEN p ELSE d.part[t2][u2]
    BY <1>1, <1>2, DatabaseFields
  <1>4. [d.part EXCEPT ![t][u] = p] \in [Tenants -> [People -> Part]]
    BY <1>1, DatabaseFields
  <1>5. e \in Database
    BY <1>1, <1>4, DatabaseFields DEF Database, PartChanges
  <1>6. Sound(e)
    BY <1>3, <1>5 DEF Sound
  <1> QED
    BY <1>2, <1>3, <1>6

\* What is gone is not brought back by a change to a membership that is not it.
LEMMA GoneBesides ==
    ASSUME NEW d, Sound(d), NEW t \in Tenants, NEW u \in People, NEW e, NEW p \in Part,
           PartChanges(d, e, t, u, p),
           p.proof # "none" => p.is = "dead" /\ ~p.traces, p.is = "none" => ~p.traces,
           d.part[t][u].is # "none" => p.is # "none",
           NEW g \in Targets, IsGone(d, g),
           g = IdentityEntry(t, u) =>
              p.is = d.part[t][u].is /\ p.traces = d.part[t][u].traces
    PROVE  IsGone(e, g)
  <1>1. /\ e.anonymous = d.anonymous /\ e.store = d.store /\ e.tenant = d.tenant
        /\ \A t2 \in Tenants, u2 \in People :
              e.part[t2][u2] = IF t2 = t /\ u2 = u THEN p ELSE d.part[t2][u2]
    BY PartChangesSoundly
  <1>2. CASE g.kind \in {"store", "tenant"}
    BY <1>1, <1>2 DEF IsGone
  <1>3. CASE g.kind = "identity"
    <2>1. PICK t2, u2 : t2 = g.tenant /\ u2 = g.user
      OBVIOUS
    <2>2. t2 \in Tenants /\ u2 \in People /\ g = IdentityEntry(t2, u2)
      BY <1>3, <2>1, TargetKinds
    <2>3. /\ d.part[t2][u2].is # "live" /\ ~d.part[t2][u2].traces
          /\ ~Shared(d, t2, u2) /\ u2 \in MembersOf(d, t2) => u2 \in d.anonymous
      BY <1>3, <2>1 DEF IsGone
    <2>4. \A t3 \in Tenants : d.part[t3][u2].is # "none" => e.part[t3][u2].is # "none"
      BY <1>1, <2>2
    <2>5. Shared(d, t2, u2) => Shared(e, t2, u2)
      BY <2>4 DEF Shared
    <2>6. /\ e.part[t2][u2].is = d.part[t2][u2].is
          /\ e.part[t2][u2].traces = d.part[t2][u2].traces
      BY <1>1, <2>2
    <2>7. u2 \in MembersOf(e, t2) => u2 \in MembersOf(d, t2)
      BY <2>2, <2>6 DEF MembersOf
    <2> QED
      BY <1>1, <1>3, <2>1, <2>3, <2>5, <2>6, <2>7 DEF IsGone
  <1> QED
    BY <1>2, <1>3, TargetKinds

-----------------------------------------------------------------------------

LEMMA ErasureInvInit == ErasureInit => ErasureInv
  <1> SUFFICES ASSUME ErasureInit PROVE ErasureInv
    OBVIOUS
  <1> USE ErasureAssumption
  <1>1. NoPart \in Part /\ NoPart.is = "none" /\ ~NoPart.traces /\ NoPart.proof = "none"
    BY DEF NoPart, Part
  <1>2. /\ db.part = [t \in Tenants |-> [u \in People |-> NoPart]] /\ db.anonymous = {}
        /\ db.store = [t \in Tenants |-> "none"] /\ db.tenant = [t \in Tenants |-> "kept"]
    BY DEF ErasureInit
  <1>3. db \in Database
    BY <1>1 DEF ErasureInit, Database, StoreRow, TenantRow
  <1>4. \A t \in Tenants, u \in People : db.part[t][u] = NoPart
    BY <1>2
  <1>5. ErasureTypeOK
    BY <1>1, <1>3, <1>4 DEF ErasureTypeOK, ErasureInit
  <1> QED
    BY <1>5 DEF ErasureInv, ErasureInit

LEMMA ErasureSound == ASSUME ErasureInv PROVE Sound(db)
  BY DEF ErasureInv, ErasureTypeOK, Sound

LEMMA ExecutedAreTargets ==
    ASSUME ErasureInv, NEW g \in executed PROVE g \in Targets
  BY DEF ErasureInv, ErasureTypeOK

\* The application changes the database.
LEMMA ServingStep ==
    ASSUME ErasureInv, NEW d, Sound(d), Serving(d), executed' \subseteq executed,
           \A g \in executed' : IsGone(db, g) => IsGone(d, g)
    PROVE  ErasureInv'
  <1> USE DEF Serving
  <1>1. ErasureTypeOK'
    BY DEF ErasureInv, ErasureTypeOK, Sound
  <1>2. \A g \in executed' : IsGone(db', g)
    BY DEF ErasureInv
  <1>3. \A entry \in executed' : \E i \in DOMAIN archived' : archived'[i] = entry
    BY DEF ErasureInv
  <1> QED
    BY <1>1, <1>2, <1>3 DEF ErasureInv

\* A membership's step.
LEMMA PartStep ==
    ASSUME ErasureInv, NEW t \in Tenants, NEW u \in People, NEW p \in Part, NEW d,
           PartChanges(db, d, t, u, p), Serving(d),
           p.proof # "none" => p.is = "dead" /\ ~p.traces, p.is = "none" => ~p.traces,
           db.part[t][u].is # "none" => p.is # "none",
           executed' \subseteq executed,
           IdentityEntry(t, u) \in executed' /\ IsGone(db, IdentityEntry(t, u)) =>
              p.is = db.part[t][u].is /\ p.traces = db.part[t][u].traces
    PROVE  ErasureInv'
  <1>1. Sound(db)
    BY ErasureSound
  <1>2. Sound(d)
    BY <1>1, PartChangesSoundly
  <1>3. \A g \in executed' : IsGone(db, g) => IsGone(d, g)
    <2> SUFFICES ASSUME NEW g \in executed', IsGone(db, g) PROVE IsGone(d, g)
      OBVIOUS
    <2>1. g \in Targets
      BY ExecutedAreTargets
    <2> QED
      BY <1>1, <2>1, GoneBesides
  <1> QED
    BY <1>2, <1>3, ServingStep

\* A membership and a database as records, which EXCEPT rewrites.
LEMMA AsRecords ==
    ASSUME ErasureInv, NEW t \in Tenants, NEW u \in People
    PROVE  /\ db = [part |-> db.part, anonymous |-> db.anonymous, store |-> db.store,
                    tenant |-> db.tenant]
           /\ db.part \in [Tenants -> [People -> Part]]
           /\ db.part[t][u] \in Part
           /\ db.part[t][u] = [is |-> db.part[t][u].is, traces |-> db.part[t][u].traces,
                               proof |-> db.part[t][u].proof]
  <1>1. db \in Database
    BY DEF ErasureInv, ErasureTypeOK
  <1>2. db.part[t][u] \in Part
    BY <1>1, DatabaseFields
  <1> QED
    BY <1>1, <1>2, DatabaseFields DEF Part

LEMMA JoinsStep ==
    ASSUME ErasureInv, NEW t \in Tenants, NEW u \in People, Joins(t, u)
    PROVE  ErasureInv'
  <1> DEFINE p == [is |-> "live", traces |-> db.part[t][u].traces, proof |-> "none"]
             d == [db EXCEPT !.part[t][u].is = "live", !.part[t][u].proof = "none"]
  <1>1. p \in Part
    BY AsRecords DEF Part
  <1>2. PartChanges(db, d, t, u, p)
    <2> DEFINE q == [is |-> "live", traces |-> db.part[t][u].traces,
                     proof |-> db.part[t][u].proof]
               c == [part |-> [db.part EXCEPT ![t][u] = q], anonymous |-> db.anonymous,
                     store |-> db.store, tenant |-> db.tenant]
    <2>10. db = [part |-> db.part, anonymous |-> db.anonymous, store |-> db.store,
                tenant |-> db.tenant]
      BY AsRecords
    <2>11. db.part[t][u] = [is |-> db.part[t][u].is, traces |-> db.part[t][u].traces,
                            proof |-> db.part[t][u].proof]
      BY AsRecords
    <2>1. [db.part[t][u] EXCEPT !.is = "live"] = q /\ [q EXCEPT !.proof = "none"] = p
      BY <2>11
    <2>2. db.part[t] \in [People -> Part]
      BY AsRecords
    <2>3. [db.part EXCEPT ![t][u].is = "live"] = [db.part EXCEPT ![t][u] = q]
      BY <2>1, <2>2, AsRecords
    <2>4. [db EXCEPT !.part[t][u].is = "live"] =
             [part |-> [db.part EXCEPT ![t][u].is = "live"], anonymous |-> db.anonymous,
              store |-> db.store, tenant |-> db.tenant]
      BY <2>10
    <2>5. d = [c EXCEPT !.part[t][u].proof = "none"]
      BY <2>3, <2>4
    <2>6. [c.part EXCEPT ![t][u].proof = "none"] = [db.part EXCEPT ![t][u] = p]
      BY <2>1, <2>2, AsRecords
    <2>7. d = [part |-> [c.part EXCEPT ![t][u].proof = "none"],
               anonymous |-> db.anonymous, store |-> db.store, tenant |-> db.tenant]
      BY <2>5
    <2> QED
      BY <2>6, <2>7 DEF PartChanges
  <1>3. Serving(d) /\ executed' = executed \ {IdentityEntry(t, u)}
    BY DEF Joins
  <1> HIDE DEF d
  <1> QED
    BY <1>1, <1>2, <1>3, PartStep

LEMMA TracesSet ==
    ASSUME ErasureInv, NEW t \in Tenants, NEW u \in People, NEW v
    PROVE  PartChanges(db, [db EXCEPT !.part[t][u].traces = v], t, u,
                       [is |-> db.part[t][u].is, traces |-> v,
                        proof |-> db.part[t][u].proof])
  <1> DEFINE p == [is |-> db.part[t][u].is, traces |-> v, proof |-> db.part[t][u].proof]
             d == [db EXCEPT !.part[t][u].traces = v]
  <1>1. PartChanges(db, d, t, u, p)
    <2>10. db = [part |-> db.part, anonymous |-> db.anonymous, store |-> db.store,
                tenant |-> db.tenant]
      BY AsRecords
    <2>11. db.part[t][u] = [is |-> db.part[t][u].is, traces |-> db.part[t][u].traces,
                            proof |-> db.part[t][u].proof]
      BY AsRecords
    <2>1. [db.part[t][u] EXCEPT !.traces = v] = p
      BY <2>11
    <2>2. db.part[t] \in [People -> Part]
      BY AsRecords
    <2>3. [db.part EXCEPT ![t][u].traces = v] = [db.part EXCEPT ![t][u] = p]
      BY <2>1, <2>2, AsRecords
    <2>4. d = [part |-> [db.part EXCEPT ![t][u].traces = v],
               anonymous |-> db.anonymous, store |-> db.store, tenant |-> db.tenant]
      BY <2>10
    <2> QED
      BY <2>3, <2>4 DEF PartChanges
  <1> QED
    BY <1>1

LEMMA ActsStep ==
    ASSUME ErasureInv, NEW t \in Tenants, NEW u \in People, Acts(t, u)
    PROVE  ErasureInv'
  <1> DEFINE p == [is |-> "live", traces |-> TRUE, proof |-> db.part[t][u].proof]
             d == [db EXCEPT !.part[t][u].traces = TRUE]
  <1>1. p \in Part /\ db.part[t][u].is = "live"
    BY AsRecords DEF Part, Acts
  <1>2. PartChanges(db, d, t, u, p)
    BY <1>1, TracesSet
  <1>3. Serving(d) /\ executed' = executed
    BY DEF Acts
  <1>4. p.proof = "none"
    BY <1>1, ErasureSound DEF Sound
  <1>5. ~IsGone(db, IdentityEntry(t, u))
    BY <1>1 DEF IsGone, IdentityEntry
  <1> HIDE DEF d
  <1> QED
    BY <1>1, <1>2, <1>3, <1>4, <1>5, PartStep

LEMMA LeavesStep ==
    ASSUME ErasureInv, NEW t \in Tenants, NEW u \in People, Leaves(t, u)
    PROVE  ErasureInv'
  <1> DEFINE p == [is |-> "dead", traces |-> db.part[t][u].traces,
                   proof |-> db.part[t][u].proof]
             d == [db EXCEPT !.part[t][u].is = "dead"]
  <1>1. p \in Part /\ db.part[t][u].is = "live"
    BY AsRecords DEF Part, Leaves
  <1>2. PartChanges(db, d, t, u, p)
    <2>10. db = [part |-> db.part, anonymous |-> db.anonymous, store |-> db.store,
                tenant |-> db.tenant]
      BY AsRecords
    <2>11. db.part[t][u] = [is |-> db.part[t][u].is, traces |-> db.part[t][u].traces,
                            proof |-> db.part[t][u].proof]
      BY AsRecords
    <2>1. [db.part[t][u] EXCEPT !.is = "dead"] = p
      BY <1>1, <2>11
    <2>2. db.part[t] \in [People -> Part]
      BY AsRecords
    <2>3. [db.part EXCEPT ![t][u].is = "dead"] = [db.part EXCEPT ![t][u] = p]
      BY <2>1, <2>2, AsRecords
    <2>4. d = [part |-> [db.part EXCEPT ![t][u].is = "dead"],
               anonymous |-> db.anonymous, store |-> db.store, tenant |-> db.tenant]
      BY <2>10
    <2> QED
      BY <2>3, <2>4 DEF PartChanges
  <1>3. Serving(d) /\ executed' = executed
    BY DEF Leaves
  <1>4. p.proof = "none"
    BY <1>1, ErasureSound DEF Sound
  <1>5. ~IsGone(db, IdentityEntry(t, u))
    BY <1>1 DEF IsGone, IdentityEntry
  <1> HIDE DEF d
  <1> QED
    BY <1>1, <1>2, <1>3, <1>4, <1>5, PartStep

LEMMA AuditExpiresStep ==
    ASSUME ErasureInv, NEW t \in Tenants, NEW u \in People, AuditExpires(t, u)
    PROVE  ErasureInv'
  <1> DEFINE p == [is |-> db.part[t][u].is, traces |-> db.part[t][u].traces,
                   proof |-> "none"]
             d == [db EXCEPT !.part[t][u].proof = "none"]
  <1>1. p \in Part
    BY AsRecords DEF Part
  <1>2. PartChanges(db, d, t, u, p)
    <2>10. db = [part |-> db.part, anonymous |-> db.anonymous, store |-> db.store,
                tenant |-> db.tenant]
      BY AsRecords
    <2>11. db.part[t][u] = [is |-> db.part[t][u].is, traces |-> db.part[t][u].traces,
                            proof |-> db.part[t][u].proof]
      BY AsRecords
    <2>1. [db.part[t][u] EXCEPT !.proof = "none"] = p
      BY <2>11
    <2>2. db.part[t] \in [People -> Part]
      BY AsRecords
    <2>3. [db.part EXCEPT ![t][u].proof = "none"] = [db.part EXCEPT ![t][u] = p]
      BY <2>1, <2>2, AsRecords
    <2>4. d = [part |-> [db.part EXCEPT ![t][u].proof = "none"],
               anonymous |-> db.anonymous, store |-> db.store, tenant |-> db.tenant]
      BY <2>10
    <2> QED
      BY <2>3, <2>4 DEF PartChanges
  <1>3. Serving(d) /\ executed' = executed
    BY DEF AuditExpires
  <1>4. p.is = "none" => ~p.traces
    BY ErasureSound DEF Sound
  <1> HIDE DEF d
  <1> QED
    BY <1>1, <1>2, <1>3, <1>4, PartStep

\* What is gone stays gone when a tenant's store or row changes as it may.
LEMMA RowsStay ==
    ASSUME ErasureInv, NEW S \in [Tenants -> StoreRow], NEW T \in [Tenants -> TenantRow],
           NEW d, d = [part |-> db.part, anonymous |-> db.anonymous, store |-> S,
                       tenant |-> T],
           NEW gone, gone \subseteq Targets, \A g \in gone : IsGone(db, g),
           \A t \in Tenants : db.tenant[t] # "kept" => T[t] # "kept",
           \A t \in Tenants : db.store[t] \in {"none", "erased"} =>
              \/ S[t] \in {"none", "erased"}
              \/ StoreEntry(t) \notin gone /\ TenantEntry(t) \notin gone
    PROVE  Sound(d) /\ \A g \in gone : IsGone(d, g)
  <1>1. Sound(db) /\ db \in Database
    BY ErasureSound DEF Sound
  <1>2. d.part = db.part /\ d.anonymous = db.anonymous /\ d.store = S /\ d.tenant = T
    OBVIOUS
  <1>3. d \in Database
    BY <1>1, DatabaseFields DEF Database
  <1>4. Sound(d)
    BY <1>1, <1>2, <1>3 DEF Sound
  <1>5. ASSUME NEW g \in gone PROVE IsGone(d, g)
    <2>1. g \in Targets /\ IsGone(db, g) /\ g.tenant \in Tenants
      BY TargetKinds
    <2>2. CASE g.kind = "store"
      <3>1. g = StoreEntry(g.tenant)
        BY <2>1, <2>2, TargetKinds
      <3> QED
        BY <1>2, <2>1, <2>2, <3>1 DEF IsGone
    <2>3. CASE g.kind = "tenant"
      <3>1. g = TenantEntry(g.tenant)
        BY <2>1, <2>3, TargetKinds
      <3> QED
        BY <1>2, <2>1, <2>3, <3>1 DEF IsGone
    <2>4. CASE g.kind = "identity"
      BY <1>2, <2>1, <2>4 DEF IsGone, Shared, MembersOf
    <2> QED
      BY <2>1, <2>2, <2>3, <2>4, TargetKinds
  <1> QED
    BY <1>4, <1>5

LEMMA OpensStep ==
    ASSUME ErasureInv, NEW t \in Tenants, Opens(t)
    PROVE  ErasureInv'
  <1> DEFINE S == [db.store EXCEPT ![t] = "open"]
             d == [db EXCEPT !.store[t] = "open"]
  <1>1. db \in Database
    BY ErasureSound DEF Sound
  <1>2. db = [part |-> db.part, anonymous |-> db.anonymous, store |-> db.store,
              tenant |-> db.tenant]
    BY <1>1, DatabaseFields
  <1>3. d = [part |-> db.part, anonymous |-> db.anonymous, store |-> S,
             tenant |-> db.tenant]
    BY <1>2
  <1>4. S \in [Tenants -> StoreRow] /\ db.tenant \in [Tenants -> TenantRow]
    BY <1>1, DatabaseFields DEF StoreRow
  <1>5. \A t2 \in Tenants : S[t2] = IF t2 = t THEN "open" ELSE db.store[t2]
    BY <1>1, DatabaseFields
  <1>6. StoreEntry(t) \notin executed
    BY DEF Opens, ErasureInv
  <1>7. mode = "up" /\ db.tenant[t] = "kept" /\ Serving(d) /\ executed' = executed
    BY DEF Opens, Serving
  <1>8. executed \subseteq Targets /\ \A g \in executed : IsGone(db, g)
    BY <1>7 DEF ErasureInv, ErasureTypeOK
  <1>9. TenantEntry(t) \notin executed
    BY <1>7, <1>8 DEF IsGone, TenantEntry
  <1> HIDE DEF d, S
  <1>10. Sound(d) /\ \A g \in executed : IsGone(d, g)
    BY <1>3, <1>4, <1>5, <1>6, <1>8, <1>9, RowsStay
  <1> QED
    BY <1>7, <1>10, ServingStep

LEMMA TenantAuditExpiresStep ==
    ASSUME ErasureInv, NEW t \in Tenants, TenantAuditExpires(t)
    PROVE  ErasureInv'
  <1> DEFINE T == [db.tenant EXCEPT ![t] = "unproven"]
             d == [db EXCEPT !.tenant[t] = "unproven"]
  <1>1. db \in Database
    BY ErasureSound DEF Sound
  <1>2. db = [part |-> db.part, anonymous |-> db.anonymous, store |-> db.store,
              tenant |-> db.tenant]
    BY <1>1, DatabaseFields
  <1>3. d = [part |-> db.part, anonymous |-> db.anonymous, store |-> db.store,
             tenant |-> T]
    BY <1>2
  <1>4. db.store \in [Tenants -> StoreRow] /\ T \in [Tenants -> TenantRow]
    BY <1>1, DatabaseFields DEF TenantRow
  <1>5. \A t2 \in Tenants : T[t2] = IF t2 = t THEN "unproven" ELSE db.tenant[t2]
    BY <1>1, DatabaseFields
  <1>6. mode = "up" /\ Serving(d) /\ executed' = executed
    BY DEF TenantAuditExpires, Serving
  <1>7. executed \subseteq Targets /\ \A g \in executed : IsGone(db, g)
    BY <1>6 DEF ErasureInv, ErasureTypeOK
  <1> HIDE DEF d, T
  <1>8. Sound(d) /\ \A g \in executed : IsGone(d, g)
    BY <1>3, <1>4, <1>5, <1>7, RowsStay
  <1> QED
    BY <1>6, <1>8, ServingStep

LEMMA DisconnectsStep ==
    ASSUME ErasureInv, NEW t \in Tenants, Disconnects(t)
    PROVE  ErasureInv'
  <1> DEFINE S == [db.store EXCEPT ![t] = "disconnected"]
             d == [db EXCEPT !.store[t] = "disconnected"]
  <1>1. db \in Database
    BY ErasureSound DEF Sound
  <1>2. db = [part |-> db.part, anonymous |-> db.anonymous, store |-> db.store,
              tenant |-> db.tenant]
    BY <1>1, DatabaseFields
  <1>3. d = [part |-> db.part, anonymous |-> db.anonymous, store |-> S,
             tenant |-> db.tenant]
    BY <1>2
  <1>4. S \in [Tenants -> StoreRow] /\ db.tenant \in [Tenants -> TenantRow]
    BY <1>1, DatabaseFields DEF StoreRow
  <1>5. \A t2 \in Tenants : S[t2] = IF t2 = t THEN "disconnected" ELSE db.store[t2]
    BY <1>1, DatabaseFields
  <1>6. mode = "stopped" /\ db.store[t] = "open" /\ db' = d
    BY DEF Disconnects
  <1>7. executed \subseteq Targets /\ \A g \in executed : IsGone(db, g)
    BY <1>6 DEF ErasureInv, ErasureTypeOK
  <1> HIDE DEF d, S
  <1>8. Sound(d) /\ \A g \in executed : IsGone(d, g)
    BY <1>3, <1>4, <1>5, <1>6, <1>7, RowsStay
  <1>9. Sound(db') /\ \A g \in executed' : IsGone(db', g)
    BY <1>6, <1>8 DEF Disconnects
  <1>10. ErasureTypeOK'
    BY <1>9 DEF Disconnects, ErasureInv, ErasureTypeOK, Sound
  <1> QED
    BY <1>6, <1>9, <1>10 DEF Disconnects, ErasureInv

LEMMA BacksUpStep == ASSUME ErasureInv, BacksUp PROVE ErasureInv'
  <1>1. Sound(db) /\ db \in Database
    BY ErasureSound DEF Sound
  <1>2. /\ backups' \in Seq(Database)
        /\ \A i \in DOMAIN backups' :
              backups'[i] = db \/ (i \in DOMAIN backups /\ backups'[i] = backups[i])
    <2>1. backups \in Seq(Database) /\ backups' = Append(backups, db)
      BY DEF BacksUp, ErasureInv
    <2> QED
      BY <1>1, <2>1
  <1>3. \A i \in DOMAIN backups' : Sound(backups'[i])
    BY <1>1, <1>2 DEF ErasureInv
  <1>4. \A d \in {backups'[i] : i \in DOMAIN backups'} : d \in Database
    BY <1>3 DEF Sound
  <1>5. ErasureTypeOK'
    BY <1>4 DEF BacksUp, ErasureInv, ErasureTypeOK
  <1> QED
    BY <1>2, <1>3, <1>5 DEF BacksUp, ErasureInv

LEMMA StopsStep == ASSUME ErasureInv, Stops PROVE ErasureInv'
  <1>1. ErasureTypeOK'
    BY DEF Stops, ErasureInv, ErasureTypeOK
  <1> QED
    BY <1>1 DEF Stops, ErasureInv

LEMMA ResumesStep == ASSUME ErasureInv, Resumes PROVE ErasureInv'
  <1>1. ErasureTypeOK'
    BY DEF Resumes, ErasureInv, ErasureTypeOK
  <1>2. \A g \in executed : IsGone(db, g)
    <2>1. CASE mode = "stopped"
      BY <2>1 DEF ErasureInv
    <2>2. CASE mode = "replayed"
      <3> SUFFICES ASSUME NEW g \in executed PROVE IsGone(db, g)
        OBVIOUS
      <3>1. Skips(db, g)
        BY <2>2 DEF ErasureInv
      <3> QED
        BY <3>1, ErasureSound, ExecutedAreTargets, SkippedIsGone
    <2> QED
      BY <2>1, <2>2 DEF Resumes
  <1> QED
    BY <1>1, <1>2 DEF Resumes, ErasureInv

LEMMA PreparesStep ==
    ASSUME ErasureInv, NEW entry \in Erasures, Prepares(entry)
    PROVE  ErasureInv'
  <1>1. entry \in Targets /\ MaxEntries \in Nat
    BY ErasureAssumption
  <1>2. ledger \in Seq(Targets) /\ archived \in Seq(Targets) /\ mode = "stopped"
    BY DEF ErasureInv, ErasureTypeOK, Prepares
  <1>3. /\ ledger' \in Seq(Targets) /\ ledger' # <<>> /\ Len(ledger') <= MaxEntries
        /\ \A i \in DOMAIN ledger : i \in DOMAIN ledger' /\ ledger'[i] = ledger[i]
    BY <1>1, <1>2 DEF Prepares
  <1>4. ErasureTypeOK'
    BY <1>3 DEF Prepares, ErasureInv, ErasureTypeOK
  <1>5. \A i \in DOMAIN archived' : \E j \in DOMAIN ledger' : ledger'[j] = archived'[i]
    BY <1>3 DEF Prepares, ErasureInv
  <1> QED
    BY <1>2, <1>3, <1>4, <1>5 DEF Prepares, ErasureInv

LEMMA ArchivesStep == ASSUME ErasureInv, Archives PROVE ErasureInv'
  <1>1. ErasureTypeOK'
    BY DEF Archives, ErasureInv, ErasureTypeOK
  <1>2. \A entry \in executed' : \E i \in DOMAIN archived' : archived'[i] = entry
    BY DEF Archives, ErasureInv
  <1> QED
    BY <1>1, <1>2 DEF Archives, ErasureInv

LEMMA ErasesStep == ASSUME ErasureInv, Erases PROVE ErasureInv'
  <1> DEFINE entry == ledger[Len(ledger)]
             d == Erased(db, entry)
  <1>1. /\ mode = "stopped" /\ step = "archived" /\ Erasable(db, entry) /\ db' = d
        /\ executed' = executed \cup {entry} /\ step' = "none"
        /\ UNCHANGED <<mode, backups, ledger, archived, at, disasters>>
    BY DEF Erases
  <1>2. /\ ledger \in Seq(Targets) /\ archived = ledger /\ ledger # <<>>
        /\ executed \subseteq Targets /\ \A g \in executed : IsGone(db, g)
    BY <1>1 DEF ErasureInv, ErasureTypeOK
  <1>3. entry \in Targets /\ Len(ledger) \in DOMAIN ledger
    BY <1>2
  <1>4. Replayable(db, entry) /\ Sound(db)
    BY <1>1, ErasureSound DEF Replayable
  <1> HIDE DEF entry
  <1>5. Alters(db, d, entry) /\ Skips(d, entry)
    BY <1>3, <1>4, ErasedEffect, ErasedSkips
  <1> HIDE DEF d
  <1>6. Sound(d)
    BY <1>5 DEF Alters
  <1>7. \A g \in executed' : IsGone(d, g)
    BY <1>1, <1>2, <1>3, <1>5, <1>6, GoneStays, SkippedIsGone
  <1>8. ErasureTypeOK'
    BY <1>1, <1>2, <1>3, <1>6 DEF ErasureInv, ErasureTypeOK, Sound
  <1>9. \A g \in executed' : \E i \in DOMAIN archived' : archived'[i] = g
    BY <1>1, <1>2, <1>3 DEF ErasureInv, entry
  <1> QED
    BY <1>1, <1>7, <1>8, <1>9 DEF ErasureInv

LEMMA RestoresStep == ASSUME ErasureInv, Restores PROVE ErasureInv'
  <1>1. PICK i \in DOMAIN backups : db' = backups[i]
    BY DEF Restores
  <1>2. Sound(db')
    BY <1>1 DEF ErasureInv, Restores
  <1>3. /\ ledger' \in Seq(Targets) /\ Len(ledger') <= MaxEntries
        /\ \A k \in DOMAIN archived : \E j \in DOMAIN ledger' : ledger'[j] = archived[k]
    BY DEF Restores, ErasureInv, ErasureTypeOK
  <1>4. disasters' \in 0 .. MaxDisasters /\ at' \in 0 .. MaxEntries + 1
    BY ErasureAssumption DEF Restores, ErasureInv, ErasureTypeOK
  <1>5. ErasureTypeOK'
    BY <1>2, <1>3, <1>4 DEF Restores, ErasureInv, ErasureTypeOK, Sound
  <1> QED
    BY <1>3, <1>5 DEF Restores, ErasureInv

LEMMA ReplaysStep == ASSUME ErasureInv, Replays PROVE ErasureInv'
  <1>1. PICK entry : entry = ledger[at]
    OBVIOUS
  <1>2. /\ at \in Nat /\ at <= Len(ledger) /\ Len(ledger) <= MaxEntries
        /\ ledger \in Seq(Targets) /\ MaxEntries \in Nat
    BY ErasureAssumption DEF ErasureInv, ErasureTypeOK, Replays
  <1>3. Sound(db') /\ \A g \in Targets : Skips(db, g) => Skips(db', g)
    <2>1. CASE db' = db
      BY <2>1, ErasureSound
    <2>2. CASE ~Skips(db, entry) /\ Replayable(db, entry) /\ db' = Erased(db, entry)
      <3>1. CASE at >= 1
        <4>1. entry \in Targets
          BY <1>1, <1>2, <3>1
        <4>2. Alters(db, db', entry)
          BY <2>2, <4>1, ErasureSound, ErasedEffect
        <4>3. Sound(db')
          BY <4>2 DEF Alters
        <4> QED
          BY <4>2, <4>3, SkipsStay
      <3> QED
        BY <1>2, <3>1 DEF ErasureInv, Replays
    <2> QED
      BY <1>1, <2>1, <2>2 DEF Replays
  <1>4. /\ mode = "restored" /\ mode' = mode /\ at' = at + 1
        /\ UNCHANGED <<backups, ledger, archived, step, disasters, executed>>
    BY DEF Replays
  <1>5. Skips(db', entry)
    <2>1. entry \in Targets
      BY <1>1, <1>2, <1>4 DEF ErasureInv
    <2>2. CASE Skips(db, entry)
      BY <1>3, <2>1, <2>2
    <2>3. CASE Replayable(db, entry) /\ db' = Erased(db, entry)
      BY <2>1, <2>3, ErasureSound, ErasedSkips
    <2> QED
      BY <1>1, <2>2, <2>3 DEF Replays
  <1>6. \A i \in DOMAIN ledger : i < at + 1 => Skips(db', ledger[i])
    <2> SUFFICES ASSUME NEW i \in DOMAIN ledger, i < at + 1 PROVE Skips(db', ledger[i])
      OBVIOUS
    <2>1. i \in Nat /\ ledger[i] \in Targets
      BY <1>2
    <2>2. CASE i = at
      BY <1>1, <1>5, <2>2
    <2>3. CASE i < at
      BY <1>3, <1>4, <2>1, <2>3 DEF ErasureInv
    <2> QED
      BY <1>2, <2>1, <2>2, <2>3
  <1>7. ErasureTypeOK'
    BY <1>2, <1>3, <1>4 DEF ErasureInv, ErasureTypeOK, Sound
  <1>8. at' >= 1
    BY <1>2, <1>4 DEF ErasureInv
  <1> QED
    BY <1>4, <1>6, <1>7, <1>8 DEF ErasureInv

LEMMA ReplayStopsStep == ASSUME ErasureInv, ReplayStops PROVE ErasureInv'
  <1>1. MaxEntries \in Nat
    BY ErasureAssumption
  <1>2. ErasureTypeOK'
    BY <1>1 DEF ReplayStops, ErasureInv, ErasureTypeOK
  <1>3. \A i \in DOMAIN ledger : ~(i < 1)
    BY DEF ErasureInv, ErasureTypeOK
  <1> QED
    BY <1>2, <1>3 DEF ReplayStops, ErasureInv

LEMMA ReplayEndsStep == ASSUME ErasureInv, ReplayEnds PROVE ErasureInv'
  <1>1. MaxEntries \in Nat
    BY ErasureAssumption
  <1>2. ErasureTypeOK'
    BY <1>1 DEF ReplayEnds, ErasureInv, ErasureTypeOK
  <1>3. \A i \in DOMAIN ledger : i < at
    BY DEF ReplayEnds, ErasureInv, ErasureTypeOK
  <1> QED
    BY <1>2, <1>3 DEF ReplayEnds, ErasureInv

LEMMA ErasureStep == ErasureInv /\ [ErasureNext]_erasureVars => ErasureInv'
  <1> SUFFICES ASSUME ErasureInv, [ErasureNext]_erasureVars PROVE ErasureInv'
    OBVIOUS
  <1>1. ASSUME NEW t \in Tenants, Opens(t) PROVE ErasureInv'
    BY <1>1, OpensStep
  <1>2. ASSUME NEW t \in Tenants, Disconnects(t) PROVE ErasureInv'
    BY <1>2, DisconnectsStep
  <1>3. ASSUME NEW t \in Tenants, TenantAuditExpires(t) PROVE ErasureInv'
    BY <1>3, TenantAuditExpiresStep
  <1>4. ASSUME NEW t \in Tenants, NEW u \in People, Joins(t, u) PROVE ErasureInv'
    BY <1>4, JoinsStep
  <1>5. ASSUME NEW t \in Tenants, NEW u \in People, Acts(t, u) PROVE ErasureInv'
    BY <1>5, ActsStep
  <1>6. ASSUME NEW t \in Tenants, NEW u \in People, Leaves(t, u) PROVE ErasureInv'
    BY <1>6, LeavesStep
  <1>7. ASSUME NEW t \in Tenants, NEW u \in People, AuditExpires(t, u) PROVE ErasureInv'
    BY <1>7, AuditExpiresStep
  <1>8. ASSUME NEW entry \in Erasures, Prepares(entry) PROVE ErasureInv'
    BY <1>8, PreparesStep
  <1>9. CASE UNCHANGED erasureVars
    BY <1>9 DEF erasureVars, ErasureInv, ErasureTypeOK
  <1> QED
    BY <1>1, <1>2, <1>3, <1>4, <1>5, <1>6, <1>7, <1>8, <1>9, BacksUpStep, StopsStep,
       ResumesStep, ArchivesStep, ErasesStep, RestoresStep, ReplaysStep,
       ReplayStopsStep, ReplayEndsStep DEF ErasureNext

LEMMA ErasureInvariant == ErasureSpec => []ErasureInv
  BY ErasureInvInit, ErasureStep, PTL DEF ErasureSpec

\* The ledger, its archive, the backups and the erasure in hand keep their types.
THEOREM ErasureTypeCorrect == ErasureSpec => []ErasureTypeOK
  <1>1. ErasureInv => ErasureTypeOK
    BY DEF ErasureInv
  <1> QED
    BY <1>1, ErasureInvariant, PTL

\* Whatever backup is restored, with the ledger or with its archive, and wherever
\* an erasure or a replay broke off: when the application serves again, what was
\* executed is gone (pilot-account.service.ts, pilot-data.cli.ts).
THEOREM WhatIsErasedStaysErased == ErasureSpec => []ErasedStaysErased
  <1>1. ErasureInv => ErasedStaysErased
    BY DEF ErasureInv, ErasedStaysErased
  <1> QED
    BY <1>1, ErasureInvariant, PTL

\* Once replayLedger has come to its end, it finds nothing to do in any entry:
\* what it did for a later one has not undone an earlier one.
THEOREM ReplaysConverge == ErasureSpec => []ReplayConverges
  <1>1. ErasureInv => ReplayConverges
    BY DEF ErasureInv, ReplayConverges
  <1> QED
    BY <1>1, ErasureInvariant, PTL

\* An erasure anonymises only those whom no other tenant has.
LEMMA EffectKeepsUsers ==
    ASSUME NEW d, NEW e, NEW entry, Alters(d, e, entry), NEW u \in e.anonymous \ d.anonymous,
           NEW t \in Tenants
    PROVE  e.part[t][u].is # "live"
  <1>1. PICK t2 \in Tenants : Touches(d, e, t2, u) /\ ~Shared(d, t2, u)
    BY DEF Alters
  <1>2. CASE t = t2
    <2>1. e.part[t][u].is = "dead"
      BY <1>1, <1>2 DEF Touches
    <2> QED
      BY <2>1
  <1>3. CASE t # t2
    <2>1. d.part[t][u].is = "none"
      BY <1>1, <1>3 DEF Shared
    <2>2. e.part[t][u] = d.part[t][u]
      BY <2>1 DEF Alters, Touches, Sound, Database
    <2> QED
      BY <2>1, <2>2
  <1> QED
    BY <1>2, <1>3

\* Whom another tenant still has as a member, no erasure of one tenant, of one
\* identity, or of a replayed ledger anonymises (eraseIdentityInTransaction,
\* eraseTenant); only a restored backup may bring such a state back.
THEOREM OthersKeepTheirUsers == ErasureSpec => OthersKeepTheirUser
  <1> DEFINE A == \A u \in db'.anonymous \ db.anonymous :
                     db' \notin {backups[i] : i \in DOMAIN backups} =>
                        \A t \in Tenants : db'.part[t][u].is # "live"
  <1>1. ASSUME ErasureInv, ErasureNext PROVE A
    <2>1. CASE Erases
      <3>1. PICK entry \in Targets : Replayable(db, entry) /\ db' = Erased(db, entry)
        BY <1>1, <2>1 DEF Erases, Replayable, ErasureInv, ErasureTypeOK
      <3>2. Alters(db, db', entry)
        BY <1>1, <3>1, ErasureSound, ErasedEffect
      <3> QED
        BY <3>2, EffectKeepsUsers
    <2>2. CASE Replays
      <3>1. CASE db' = db
        BY <3>1
      <3>2. CASE Replayable(db, ledger[at]) /\ db' = Erased(db, ledger[at])
        <4>1. ledger[at] \in Targets
          BY <1>1, <2>2 DEF Replays, ErasureInv, ErasureTypeOK
        <4>2. Alters(db, db', ledger[at])
          BY <1>1, <3>2, <4>1, ErasureSound, ErasedEffect
        <4> QED
          BY <4>2, EffectKeepsUsers
      <3> QED
        BY <2>2, <3>1, <3>2 DEF Replays
    <2>3. CASE Restores
      BY <2>3 DEF Restores
    <2>4. CASE db' = db
      BY <2>4
    <2>5. ASSUME NEW t \in Tenants, NEW u \in People,
                 Joins(t, u) \/ Acts(t, u) \/ Leaves(t, u) \/ AuditExpires(t, u)
          PROVE  A
      <3>1. db = [part |-> db.part, anonymous |-> db.anonymous, store |-> db.store,
                  tenant |-> db.tenant]
        BY <1>1, AsRecords
      <3>2. CASE Joins(t, u)
        <4>1. db' = [db EXCEPT !.part[t][u].is = "live", !.part[t][u].proof = "none"]
          BY <3>2 DEF Joins, Serving
        <4> QED
          BY <3>1, <4>1
      <3>3. CASE Acts(t, u)
        <4>1. db' = [db EXCEPT !.part[t][u].traces = TRUE]
          BY <3>3 DEF Acts, Serving
        <4> QED
          BY <1>1, <4>1, TracesSet DEF PartChanges
      <3>4. CASE Leaves(t, u)
        <4>1. db' = [db EXCEPT !.part[t][u].is = "dead"]
          BY <3>4 DEF Leaves, Serving
        <4> QED
          BY <3>1, <4>1
      <3>5. CASE AuditExpires(t, u)
        <4>1. db' = [db EXCEPT !.part[t][u].proof = "none"]
          BY <3>5 DEF AuditExpires, Serving
        <4> QED
          BY <3>1, <4>1
      <3> QED
        BY <2>5, <3>2, <3>3, <3>4, <3>5
    <2>6. ASSUME NEW t \in Tenants,
                 Opens(t) \/ Disconnects(t) \/ TenantAuditExpires(t)
          PROVE  A
      <3>1. db = [part |-> db.part, anonymous |-> db.anonymous, store |-> db.store,
                  tenant |-> db.tenant]
        BY <1>1, DatabaseFields DEF ErasureInv, ErasureTypeOK
      <3>2. CASE Opens(t)
        <4>1. db' = [db EXCEPT !.store[t] = "open"]
          BY <3>2 DEF Opens, Serving
        <4> QED
          BY <3>1, <4>1
      <3>3. CASE Disconnects(t)
        <4>1. db' = [db EXCEPT !.store[t] = "disconnected"]
          BY <3>3 DEF Disconnects
        <4> QED
          BY <3>1, <4>1
      <3>4. CASE TenantAuditExpires(t)
        <4>1. db' = [db EXCEPT !.tenant[t] = "unproven"]
          BY <3>4 DEF TenantAuditExpires, Serving
        <4> QED
          BY <3>1, <4>1
      <3> QED
        BY <2>6, <3>2, <3>3, <3>4
    <2>7. CASE \E entry \in Erasures : Prepares(entry)
      BY <2>4, <2>7 DEF Prepares
    <2>8. CASE BacksUp \/ Stops \/ Resumes \/ Archives \/ ReplayStops \/ ReplayEnds
      BY <2>4, <2>8 DEF BacksUp, Stops, Resumes, Archives, ReplayStops, ReplayEnds
    <2> QED
      BY <1>1, <2>1, <2>2, <2>3, <2>5, <2>6, <2>7, <2>8 DEF ErasureNext
  <1>2. ErasureInv /\ [ErasureNext]_erasureVars => [A]_erasureVars
    BY <1>1
  <1> QED
    BY <1>2, ErasureInvariant, PTL DEF ErasureSpec, OthersKeepTheirUser

-----------------------------------------------------------------------------
(* The parts together.                                                     *)

\* Whatever a tenancy is made of keeps its types, with what these say of one another:
\* a live membership has its record, a SaaS user has one Telegram identity, a store is
\* ACTIVE while it has a plugin's credential, and the ledger's entries are in order.
THEOREM TenancyTypeCorrect == MCSpec => []MCTypeOK
  <1> DEFINE Inv == /\ MemberInv /\ AliveInv /\ LinkInv /\ RepeatInv
                    /\ RegistrationInv /\ DrawnInv /\ ErasureInv
  <1>1. MCInit => Inv
    BY MemberInit, AliveInitial, LinkInitial, RepeatInitial, RegistrationInitial,
       DrawnInitial, ErasureInvInit DEF MCInit
  <1>2. Inv /\ [MCNext]_<<focus, membershipVars, botVars, linkVars,
                          registrationVars, erasureVars, listVars>> => Inv'
    <2> SUFFICES ASSUME Inv, [MCNext]_<<focus, membershipVars, botVars, linkVars,
                                        registrationVars, erasureVars, listVars>>
                 PROVE  Inv'
      OBVIOUS
    <2>1. /\ [MembershipsNext]_membershipVars /\ [LinkNext]_<<botVars, linkVars>>
          /\ [RegistrationNext]_registrationVars /\ [ErasureNext]_erasureVars
      BY DEF MCNext
    <2> QED
      BY <2>1, MemberStep, AliveStep, LinkStep, RepeatStep, RegistrationStep, DrawnStep,
         ErasureStep
  <1>3. Inv => MCTypeOK
    BY MembersTypes, LinkTypes, RegistrationTypes DEF MCTypeOK, ErasureInv
  <1> QED
    BY <1>1, <1>2, <1>3, PTL DEF MCSpec
=============================================================================
