---------------------------- MODULE TelegramLinking ----------------------------
(***************************************************************************)
(* Telegram identities of SaaS users (backend/src/telegram/                *)
(* telegram-linking.service.ts) under the bot's delivery of updates.  Each *)
(* of redeem and unlink is one serializable transaction and so one step;   *)
(* one that loses a conflict changes nothing.  The private chat of a       *)
(* Telegram user has the number of the user, so that an account and its    *)
(* chat authorization are one record here.                                 *)
(***************************************************************************)
EXTENDS BotUpdates

CONSTANTS SaasUsers, LinkTokens, NoAccount,
          MaxEligibilityChanges   \* memberships, stores, entitlements (bound)

ASSUME LinkingAssumption == MaxEligibilityChanges \in Nat

VARIABLES
    account,       \* TelegramAccount and TelegramChatAuthorization
    linkToken,     \* TelegramLinkToken
    eligible,      \* users with one tenant, one healthy store and an ACTIVE
                   \* entitlement
    eligibilityChanges,
    effects        \* history: how often an update changed the database

linkVars == <<account, linkToken, eligible, eligibilityChanges, effects>>

\* redeem and unlink are lastRedeemUpdateId and lastUnlinkUpdateId, 0 for null;
\* live: deletedAt is null and the chat is not revoked.
Account == [user : SaasUsers, live : BOOLEAN, redeem : 0 .. MaxUpdates,
            unlink : 0 .. MaxUpdates]
LinkToken == [user : SaasUsers, age : {"fresh", "expired", "consumed"}]
NotIssued == [user |-> NoAccount, age |-> "unissued"]

ASSUME IdentityAssumption == NoAccount \notin Account /\ "unlink" \notin LinkTokens

LinkInit ==
    /\ BotInit
    /\ account = [t \in TelegramUsers |-> NoAccount]
    /\ linkToken = [k \in LinkTokens |-> NotIssued]
    /\ eligible = SaasUsers
    /\ eligibilityChanges = 0
    /\ effects = [i \in UpdateIds |-> 0]

-----------------------------------------------------------------------------
IssueToken(k, u) ==
    /\ linkToken[k] = NotIssued /\ u \in eligible
    /\ linkToken' = [linkToken EXCEPT ![k] = [user |-> u, age |-> "fresh"]]
    /\ UNCHANGED <<botVars, account, eligible, eligibilityChanges, effects>>

TokenExpires(k) ==
    /\ linkToken[k].age = "fresh"
    /\ linkToken' = [linkToken EXCEPT ![k].age = "expired"]
    /\ UNCHANGED <<botVars, account, eligible, eligibilityChanges, effects>>

EligibilityChanges(u) ==
    /\ eligibilityChanges < MaxEligibilityChanges
    /\ eligibilityChanges' = eligibilityChanges + 1
    /\ eligible' = IF u \in eligible THEN eligible \ {u} ELSE eligible \cup {u}
    /\ UNCHANGED <<botVars, account, linkToken, effects>>

Linked(t) == account[t] # NoAccount

\* Mutant: a Telegram identity that is in use is released for another user.
ConflictsSaasOnly(t, u) ==
    \E s \in TelegramUsers : Linked(s) /\ account[s].user = u /\ s # t

\* "Unlink revokes every chat first; only that explicit state may release the
\* Telegram identity for a different SaaS User", one without an account.
Conflicts(t, u) ==
    \/ Linked(t) /\ account[t].user # u /\ account[t].live
    \/ \E s \in TelegramUsers : Linked(s) /\ account[s].user = u /\ s # t

\* An update that was redeemed is answered once more.
Redeemed(t, i, k) ==
    /\ linkToken[k].age = "consumed"
    /\ Linked(t) /\ account[t].user = linkToken[k].user
    /\ account[t].redeem = i /\ account[t].live

Effect(i) == effects' = [effects EXCEPT ![i] = @ + 1]
NoEffect == UNCHANGED <<account, linkToken, effects>>

\* Mutant: a replay links once more what has been unlinked since.
RedeemRevives(t, i, k) ==
    IF /\ ~Conflicts(t, linkToken[k].user)
       /\ \/ linkToken[k].age = "fresh" /\ linkToken[k].user \in eligible
          \/ /\ linkToken[k].age = "consumed" /\ Linked(t)
             /\ account[t].redeem = i /\ ~account[t].live
    THEN /\ linkToken' = [linkToken EXCEPT ![k].age = "consumed"]
         /\ account' = [account EXCEPT ![t] =
                [user |-> linkToken[k].user, live |-> TRUE, redeem |-> i,
                 unlink |-> IF Linked(t) THEN account[t].unlink ELSE 0]]
         /\ Effect(i)
    ELSE NoEffect

\* redeemInTransaction.
Redeem(t, i, k) ==
    IF /\ ~Conflicts(t, linkToken[k].user) /\ ~Redeemed(t, i, k)
       /\ linkToken[k].age = "fresh" /\ linkToken[k].user \in eligible
    THEN /\ linkToken' = [linkToken EXCEPT ![k].age = "consumed"]
         /\ account' = [account EXCEPT ![t] =
                [user |-> linkToken[k].user, live |-> TRUE, redeem |-> i,
                 unlink |-> IF Linked(t) THEN account[t].unlink ELSE 0]]
         /\ Effect(i)
    ELSE NoEffect

\* A repeated unlink is recognised while the account is still unlinked.
Unlink(t, i) ==
    IF Linked(t) /\ account[t].live
    THEN /\ account' = [account EXCEPT ![t].live = FALSE, ![t].unlink = i]
         /\ Effect(i) /\ UNCHANGED linkToken
    ELSE NoEffect

\* The backend serves a request, or fails and changes nothing.
Serve(i) ==
    LET t == sent[i].from
        what == sent[i].what
    IN  /\ Serves(i)
        /\ \/ what \in LinkTokens /\ Redeem(t, i, what)
           \/ what = "unlink" /\ Unlink(t, i)
           \/ NoEffect
        /\ UNCHANGED <<eligible, eligibilityChanges>>

LinkNext ==
    \/ \E t \in TelegramUsers :
          /\ \/ \E k \in LinkTokens : linkToken[k].age = "fresh" /\ Sends(t, k)
             \/ Linked(t) /\ Sends(t, "unlink")
          /\ UNCHANGED linkVars
    \/ BotSteps /\ UNCHANGED linkVars
    \/ \E i \in UpdateIds : Serve(i)
    \/ \E k \in LinkTokens : TokenExpires(k)
    \/ \E u \in SaasUsers :
          EligibilityChanges(u) \/ \E k \in LinkTokens : IssueToken(k, u)

LinkSpec == LinkInit /\ [][LinkNext]_<<botVars, linkVars>>

-----------------------------------------------------------------------------
(* Properties.                                                             *)

\* A SaaS user has one Telegram identity at most; a token that is consumed
\* was consumed by an update.
LinkTypeOK ==
    /\ BotTypeOK
    /\ account \in [TelegramUsers -> Account \cup {NoAccount}]
    /\ linkToken \in [LinkTokens -> LinkToken \cup {NotIssued}]
    /\ eligible \subseteq SaasUsers
    /\ \A s, t \in TelegramUsers :
          Linked(s) /\ Linked(t) /\ account[s].user = account[t].user => s = t

\* A redemption takes effect once, however often its update is delivered, its
\* request served late, and whatever was unlinked in between.
RedeemedOnce ==
    \A i \in DOMAIN sent : sent[i].what \in LinkTokens => effects[i] <= 1

\* A Telegram identity passes from one SaaS user to another only if it was
\* unlinked before.
OnlyUnlinkReleases ==
    [][\A t \in TelegramUsers :
          Linked(t) /\ account[t].live => /\ account'[t] # NoAccount
                                          /\ account'[t].user = account[t].user
      ]_<<botVars, linkVars>>
=============================================================================
