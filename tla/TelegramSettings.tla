----------------------------- MODULE TelegramSettings -----------------------------
(***************************************************************************)
(* The settings dialogue of one private chat (backend/src/telegram/        *)
(* telegram-settings.service.ts).  A summary hands out references, each    *)
(* for one desired change or for one value to be typed; a tap or a typed   *)
(* value comes back with its reference, possibly twice, late, or after the *)
(* tenant's store was replaced.  Every request resolves its context,       *)
(* checks its reference, applies the change in one serializable            *)
(* transaction together with its audit entry, and ends with a summary.     *)
(*                                                                         *)
(* The stores are those of one tenant, of which one at most is active; the *)
(* language and the timezone are the tenant's own.  An operator erases     *)
(* people while the application is stopped (pilot-account.service.ts), and *)
(* purges old audit entries (scripts/ops/postgres-retention.sql).          *)
(*                                                                         *)
(* withMutation tries its transaction three times; one that is given up,   *)
(* like any other error, is a request that ends (Breaks).  Moving the      *)
(* threshold also rebaselines the items: InventoryProjection, and starts   *)
(* the scan when stock alerts are on: InventoryBootstrap.                  *)
(***************************************************************************)
EXTENDS NotificationPolicy, Sequences, FiniteSets

CONSTANTS Stores,
          Tenant,        \* what has settings besides the stores
          NoStore,
          Tokens,        \* settings references (bound)
          NoToken,
          Forms,         \* requests of the bot (bound)
          Asked,         \* the desired changes that are handed out or typed
          MaxSettingsChanges,   \* audit entries of a store, or the tenant (bound)
          MaxContextChanges     \* what others do meanwhile (bound)

Owners == Stores \cup {Tenant}
Typed == {"timezone", "threshold"}

\* A reference for an ACTION names the change, one for an input the setting.
Token == [store : Stores, use : {"action"}, want : Asked, age : {"fresh", "expired"}]
    \cup [store : Stores, use : Typed, age : {"fresh", "consumed", "expired"}]

ASSUME SettingsAssumption ==
    /\ {NoStore, Tenant} \cap Stores = {} /\ NoToken \notin Tokens \cup Token
    /\ Asked \subseteq Desires
    /\ {MaxSettingsChanges, MaxContextChanges} \subseteq Nat

VARIABLES
    settings,     \* of each store, and of the tenant
    context,      \* the tenant's one active store, or NoStore
    role,         \* of the chat's one membership, or "NONE"
    editing,      \* the tenant's entitlement is active
    staff,        \* active memberships with a role that is allowed
    token,        \* TelegramSettingsReference records
    form,         \* what each request is doing
    journal,      \* AuditLog entries "telegram.settings.updated", of each owner
    purged,       \* history: owners some of whose entries are purged
    erased,       \* history: owners who lost a recipient by an erasure
    contextChanges

contextVars == <<context, role, editing, staff>>
pastVars == <<purged, erased, contextChanges>>
settingsVars == <<settings, contextVars, token, form, journal, pastVars>>

Kind == {"summary", "start", "input", "action"}

NoForm == [step |-> "off", kind |-> "summary", token |-> NoToken, store |-> NoStore,
           manages |-> FALSE]

SettingsInit ==
    /\ settings = [o \in Owners |-> DefaultSettings]
    /\ context \in Stores
    /\ role = "OWNER" /\ editing = TRUE /\ staff = Members
    /\ token = [t \in Tokens |-> NoToken]
    /\ form = [f \in Forms |-> NoForm]
    /\ journal = [o \in Owners |-> <<>>]
    /\ purged = {} /\ erased = {} /\ contextChanges = 0

-----------------------------------------------------------------------------
(* A request.                                                              *)

Becomes(f, to) == form' = [form EXCEPT ![f] = to]

Answered(f) == Becomes(f, NoForm)

\* resolveContext; a member may look, and nothing else.
Resolves(f, kind, t) ==
    /\ form[f].step = "off"
    /\ context # NoStore /\ role # "NONE"
    /\ kind = "summary" \/ (token[t] # NoToken /\ role # "MEMBER")
    /\ Becomes(f, [step |-> IF kind = "summary" THEN "summary" ELSE "check",
                   kind |-> kind, token |-> IF kind = "summary" THEN NoToken ELSE t,
                   store |-> context, manages |-> role # "MEMBER"])
    /\ UNCHANGED <<settings, contextVars, token, journal, pastVars>>

\* Mutant: whoever issued it, a reference is a reference.
ValidAnywhere(t, s) == token[t].age # "expired"

\* validateReference.
Valid(t, s) == token[t].age # "expired" /\ token[t].store = s

\* An ACTION may be tapped again and again; a typed value takes its reference
\* with it.
CheckReference(f) ==
    LET r == form[f]
        t == r.token
        usable == /\ Valid(t, r.store) /\ token[t].age # "consumed"
                  /\ (r.kind = "action") = (token[t].use = "action")
    IN  /\ r.step = "check"
        /\ IF usable /\ r.kind # "start"
           THEN Becomes(f, [r EXCEPT !.step = "apply"]) ELSE Answered(f)
        /\ UNCHANGED <<settings, contextVars, token, journal, pastVars>>

\* Whose setting is it, for a request in store s?
Owner(s, want) == IF want.setting \in {"language", "timezone"} THEN Tenant ELSE s

\* loadStore, and a membership that is one; everything may be removed.  A typed
\* timezone does not ask for the store.
Permitted(s, want) ==
    /\ want.setting = "timezone" \/ s = context
    /\ want.setting = "recipient" /\ want.value = "on" => want.of \in staff

Old(s, want) ==
    CASE want.setting = "category"  -> IF want.of \in s.categories THEN "on" ELSE "off"
      [] want.setting = "recipient" -> Cardinality(s.selected)
      [] OTHER -> s[want.setting]

\* The entry for a recipient says how many there are, not who; how many there
\* were follows from what was done.
Entry(s, want, t) ==
    [setting |-> want.setting, of |-> IF want.setting = "category" THEN want.of ELSE "",
     was |-> Old(s, want), is |-> Old(Applied(s, want), want), token |-> t]

\* The settings of o become what is wanted, with an entry.
WritesSetting(o, want, t) ==
    /\ Len(journal[o]) < MaxSettingsChanges
    /\ settings' = [settings EXCEPT ![o] = Applied(@, want)]
    /\ journal' = [journal EXCEPT ![o] = Append(@, Entry(settings[o], want, t))]

\* Mutant: what is desired is written and logged whether or not it is so.
ChangeAnyway(s, want, t) == WritesSetting(Owner(s, want), want, t)

\* What is so already is not written.
Change(s, want, t) ==
    IF Permitted(s, want) /\ Changes(settings[Owner(s, want)], want)
    THEN WritesSetting(Owner(s, want), want, t)
    ELSE UNCHANGED <<settings, journal>>

\* Mutant: the reference was looked at before, and that is good enough.
ConsumableStill(t) == token[t].age # "expired"

\* consumeReference, in the transaction.
Consumable(t) == token[t].age = "fresh"

\* The transaction of applyInput for a typed value that makes sense.  The summary
\* it ends with finds no store that has gone.
ApplyInput(f, want) ==
    LET r == form[f] IN
    /\ r.step = "apply" /\ r.kind = "input"
    /\ want.setting = token[r.token].use
    /\ want.setting = "threshold" => want.value # "unset"
    /\ editing
    /\ IF Consumable(r.token)
       THEN /\ token' = [token EXCEPT ![r.token].age = "consumed"]
            /\ Change(r.store, want, r.token)
            /\ Becomes(f, [r EXCEPT !.step = "summary"])
       ELSE /\ Answered(f) /\ UNCHANGED <<settings, journal, token>>
    /\ UNCHANGED <<contextVars, pastVars>>

\* The transaction of applyDesiredAction, which does not look at the reference
\* again.
ApplyDesiredAction(f) ==
    LET r == form[f] IN
    /\ r.step = "apply" /\ r.kind = "action"
    /\ editing
    /\ Change(r.store, token[r.token].want, r.token)
    /\ IF Permitted(r.store, token[r.token].want)
       THEN Becomes(f, [r EXCEPT !.step = "summary"]) ELSE Answered(f)
    /\ UNCHANGED <<token, contextVars, pastVars>>

\* What a summary offers; a recipient the other of what it is.
Offered(s, use, want) ==
    IF use \in Typed THEN TRUE
    ELSE /\ want.setting # "timezone"
         /\ want.setting = "threshold" => want.value = "unset"
         /\ want.setting = "recipient" =>
               /\ want.value = (IF want.of \in settings[s].selected THEN "off" ELSE "on")
               /\ want.of \in settings[s].selected \cup staff

\* buildSummary, of the references that will be used: for a manager as of the
\* request's start, while the entitlement and the store are active.
BuildSummary(f) ==
    LET r == form[f] IN
    /\ r.step = "summary"
    /\ \/ /\ r.manages /\ editing /\ r.store = context
          /\ \E t \in Tokens : token[t] = NoToken
             /\ \/ \E want \in Asked :
                      /\ Offered(r.store, "action", want)
                      /\ token' = [token EXCEPT ![t] = [store |-> r.store,
                             use |-> "action", want |-> want, age |-> "fresh"]]
                \/ \E use \in Typed :
                      token' = [token EXCEPT ![t] = [store |-> r.store, use |-> use,
                                                     age |-> "fresh"]]
       \/ UNCHANGED token
    /\ Answered(f)
    /\ UNCHANGED <<settings, contextVars, journal, pastVars>>

\* An inactive entitlement, a transaction that is given up, a process that dies.
Breaks(f) ==
    /\ form[f].step # "off"
    /\ Answered(f)
    /\ UNCHANGED <<settings, contextVars, token, journal, pastVars>>

-----------------------------------------------------------------------------
(* Meanwhile.                                                              *)

Meanwhile == contextChanges < MaxContextChanges /\ contextChanges' = contextChanges + 1

\* The store is replaced; the membership ends, returns or changes its role; the
\* entitlement lapses or comes back; a colleague leaves, and stays selected.
ContextChanges ==
    /\ Meanwhile
    /\ \/ /\ context' \in (Stores \cup {NoStore}) \ {context}
          /\ UNCHANGED <<role, editing, staff>>
       \/ /\ role' \in {"OWNER", "MEMBER", "NONE"} \ {role}
          /\ UNCHANGED <<context, editing, staff>>
       \/ editing' = ~editing /\ UNCHANGED <<context, role, staff>>
       \/ /\ \E m \in staff : staff' = staff \ {m}
          /\ UNCHANGED <<context, role, editing>>
    /\ UNCHANGED <<settings, token, form, journal, purged, erased>>

\* The references that are about a member.
AreAbout(m) ==
    {t \in Tokens : /\ token[t] # NoToken /\ token[t].use = "action"
                    /\ token[t].want.setting = "recipient" /\ token[t].want.of = m}

\* eraseIdentityInTransaction: without requests, and without an entry.
ErasesIdentity(m) ==
    /\ Meanwhile
    /\ form' = [f \in Forms |-> NoForm]
    /\ settings' = [o \in Owners |-> [settings[o] EXCEPT !.selected = @ \ {m}]]
    /\ erased' = erased \cup {o \in Owners : m \in settings[o].selected}
    /\ staff' = staff \ {m}
    /\ token' = [t \in Tokens |->
                     IF t \in AreAbout(m) THEN [token[t] EXCEPT !.age = "expired"]
                     ELSE token[t]]
    /\ UNCHANGED <<context, role, editing, journal, purged>>

\* The oldest entry is purged.
Purges(o) ==
    /\ Meanwhile
    /\ journal[o] # <<>>
    /\ journal' = [journal EXCEPT ![o] = Tail(@)]
    /\ purged' = purged \cup {o}
    /\ UNCHANGED <<settings, contextVars, token, form, erased>>

Expires(t) ==
    /\ token[t] # NoToken /\ token[t].age = "fresh"
    /\ token' = [token EXCEPT ![t].age = "expired"]
    /\ UNCHANGED <<settings, contextVars, form, journal, pastVars>>

SettingsNext ==
    \/ \E f \in Forms :
          \/ \E kind \in Kind, t \in Tokens : Resolves(f, kind, t)
          \/ CheckReference(f) \/ ApplyDesiredAction(f) \/ BuildSummary(f) \/ Breaks(f)
          \/ \E want \in Asked : ApplyInput(f, want)
    \/ ContextChanges
    \/ \E m \in Members : ErasesIdentity(m)
    \/ \E o \in Owners : Purges(o)
    \/ \E t \in Tokens : Expires(t)

SettingsSpec == SettingsInit /\ [][SettingsNext]_settingsVars

-----------------------------------------------------------------------------
(* Properties.                                                             *)

\* A request that applies a change has a reference; who never had a change has the
\* default settings.
SettingsTypeOK ==
    /\ settings \in [Owners -> Settings]
    /\ context \in Stores \cup {NoStore} /\ role \in {"OWNER", "ADMIN", "MEMBER", "NONE"}
    /\ editing \in BOOLEAN /\ staff \subseteq Members
    /\ purged \subseteq Owners /\ erased \subseteq Owners
    /\ token \in [Tokens -> Token \cup {NoToken}]
    /\ form \in [Forms -> [step : {"off", "check", "apply", "summary"}, kind : Kind,
                           token : Tokens \cup {NoToken},
                           store : Stores \cup {NoStore}, manages : BOOLEAN]]
    /\ \A f \in Forms : form[f].step \in {"check", "apply"} => form[f].token # NoToken
    /\ \A o \in Owners : journal[o] = <<>> /\ o \notin purged => settings[o] = DefaultSettings

\* The settings of a store change only through a reference that was issued for
\* that store, also when the store is replaced between the reference's issue, its
\* check and the transaction.
OwnStoreOnly ==
    \A s \in Stores : \A i \in DOMAIN journal[s] : token[journal[s][i].token].store = s

\* However often it is submitted, a reference for a typed value changes the
\* settings once at most.
InputUsedOnce ==
    \A o \in Owners : \A i, j \in DOMAIN journal[o] :
        /\ i # j /\ journal[o][i].token = journal[o][j].token
        => token[journal[o][i].token].use = "action"

\* An entry about what is desired here, whatever value it has.
IsAbout(entry, want) ==
    /\ entry.setting = want.setting
    /\ entry.of = IF want.setting = "category" THEN want.of ELSE ""

\* A log explains the settings: of each setting, an entry is a change, each next one
\* begins where the one before ended, and the last one leads to what is stored; and
\* if the log is whole, the first begins at the default.
Explains(log, s, want, whole) ==
    LET entries == {i \in DOMAIN log : IsAbout(log[i], want)}
    IN  /\ \A i \in entries : log[i].was # log[i].is
        /\ \A i, j \in entries :
              i < j /\ (\A k \in entries : k <= i \/ k >= j) => log[j].was = log[i].is
        /\ \A i \in entries : (\A k \in entries : k <= i) => log[i].is = Old(s, want)
        /\ whole =>
              /\ \A i \in entries : (\A k \in entries : k >= i) =>
                    log[i].was = Old(DefaultSettings, want)
              /\ entries = {} => Old(s, want) = Old(DefaultSettings, want)

\* The erasure of a recipient leaves no entry.
JournalExplains ==
    \A o \in Owners, want \in Asked :
        ~(want.setting = "recipient" /\ o \in erased)
            => Explains(journal[o], settings[o], want, o \notin purged)

\* The settings of a store, and those of the tenant, are the outcome of what is
\* left of their journal, but for the recipients an erasure has taken; each of its
\* entries came through a reference that could still be used, and of a store
\* through one of that store.
SettingsAreExplained == OwnStoreOnly /\ InputUsedOnce /\ JournalExplains
=============================================================================
