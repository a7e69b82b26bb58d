---------------------------- MODULE StoreRegistration ----------------------------
(***************************************************************************)
(* One store between its owner, the WordPress plugin and WooCommerce       *)
(* (backend/src/store/store-registration.service.ts, with the store's      *)
(* deletion and disconnection, and wc-telegram-connector.php).  The plugin *)
(* trades a registration token for a credential of its own and, if there   *)
(* are none yet, for webhook credentials; it installs the webhooks and     *)
(* confirms them.  A request reads, asks WooCommerce, and writes under a   *)
(* condition that PostgreSQL looks at again (READ COMMITTED).  Secrets are *)
(* numbered as they are drawn, 0 for none; a hash names what was hashed.   *)
(***************************************************************************)
EXTENDS Naturals, Sequences

CONSTANTS Visits,       \* requests that may be under way at once
          NoVisit,
          ApiCalls,     \* what the owner asks of the API: provision, rotate
          MaxRegistrationTokens, MaxWebhookKeys   \* drawn at most (bounds)

ASSUME RegistrationAssumption ==
    /\ NoVisit \notin Visits
    /\ ApiCalls \subseteq {"provision", "rotate"}
    /\ {MaxRegistrationTokens, MaxWebhookKeys} \subseteq Nat

VARIABLES
    shop,        \* the Store
    keys,        \* webhook credentials drawn
    registered,  \* history: the token of each plugin credential
    rotated,     \* history: the owner has rotated
    plugin,      \* options of the plugin, and the last credential it was told
    hooks,       \* the endpoint key of its webhooks in WooCommerce
    awaited,    \* the request whose answer the plugin awaits
    visit        \* what each request is doing

shopVars == <<shop, keys, registered, rotated>>
pluginVars == <<plugin, hooks, awaited>>
registrationVars == <<shopVars, pluginVars, visit>>

RegistrationToken == 0 .. MaxRegistrationTokens
WebhookKey == 0 .. MaxWebhookKeys

\* token and consumed, expired are the registrationToken fields, secret and key
\* stand for pluginSecretHash and the webhook credentials; healthy is the secret
\* and key that were confirmed when lastHealthyAt was written.
Shop == [deleted : BOOLEAN, status : {"PENDING", "ACTIVE", "DISCONNECTED"},
         token : RegistrationToken, consumed : BOOLEAN, expired : BOOLEAN,
         secret : Nat, key : WebhookKey, healthy : Nat \X WebhookKey]
NoOptions == [secret |-> 0, key |-> 0, told |-> 0]
NoVisitor == [step |-> "off", kind |-> "confirm", with |-> 0, key |-> 0]

RegistrationInit ==
    /\ shop = [deleted |-> FALSE, status |-> "PENDING", token |-> 0,
               consumed |-> FALSE, expired |-> FALSE, secret |-> 0, key |-> 0,
               healthy |-> <<0, 0>>]
    /\ keys = 0 /\ registered = <<>> /\ rotated = FALSE
    /\ plugin = NoOptions /\ hooks = 0 /\ awaited = NoVisit
    /\ visit = [v \in Visits |-> NoVisitor]

-----------------------------------------------------------------------------
(* The owner, and the clock.                                               *)

\* A new token takes the place of the one before.
IssueRegistrationToken ==
    /\ ~shop.deleted /\ shop.token < MaxRegistrationTokens
    /\ shop' = [shop EXCEPT !.token = @ + 1, !.consumed = FALSE, !.expired = FALSE]
    /\ UNCHANGED <<keys, registered, rotated, pluginVars, visit>>

RegistrationExpires ==
    /\ shop.token # 0 /\ ~shop.expired /\ ~shop.consumed
    /\ shop' = [shop EXCEPT !.expired = TRUE]
    /\ UNCHANGED <<keys, registered, rotated, pluginVars, visit>>

SoftDelete ==
    /\ ~shop.deleted
    /\ shop' = [shop EXCEPT !.deleted = TRUE]
    /\ UNCHANGED <<keys, registered, rotated, pluginVars, visit>>

\* PilotDataService.disconnect, of a store that is deleted or not.  Tokens are
\* numbered on, so that the null hash is told by consumed.
DisconnectShop ==
    /\ shop.status # "DISCONNECTED"
    /\ shop' = [shop EXCEPT !.status = "DISCONNECTED", !.deleted = TRUE,
                            !.consumed = TRUE, !.secret = 0, !.key = 0]
    /\ UNCHANGED <<keys, registered, rotated, pluginVars, visit>>

-----------------------------------------------------------------------------
(* The plugin.                                                             *)

Visitor(v, kind, with) ==
    /\ visit[v].step = "off"
    /\ visit' = [visit EXCEPT ![v] = [NoVisitor EXCEPT !.step = "begin",
                                          !.kind = kind, !.with = with]]

\* handle_connect: somebody enters a token that was issued at some time.
Connects(v) ==
    /\ awaited = NoVisit
    /\ \E token \in 1 .. shop.token : Visitor(v, "register", token)
    /\ awaited' = v
    /\ UNCHANGED <<shopVars, plugin, hooks>>

\* What the plugin keeps of an answer: nothing, unless it has webhook
\* credentials from this answer or from before.
Persisted(secret, key) ==
    LET known == IF key = 0 THEN plugin.key ELSE key
    IN  IF known = 0 THEN [plugin EXCEPT !.told = secret]
        ELSE [secret |-> secret, key |-> known, told |-> secret]

Installs ==
    /\ plugin.key # 0 /\ hooks # plugin.key /\ awaited = NoVisit
    /\ hooks' = plugin.key
    /\ UNCHANGED <<shopVars, plugin, awaited, visit>>

\* install_and_confirm, once the webhooks are there; also the retry button.
ConfirmsHealth(v) ==
    /\ awaited = NoVisit /\ plugin.secret # 0 /\ hooks = plugin.key
    /\ Visitor(v, "confirm", plugin.secret)
    /\ awaited' = v
    /\ UNCHANGED <<shopVars, plugin, hooks>>

\* 20 seconds.
PluginGivesUp ==
    /\ awaited # NoVisit
    /\ awaited' = NoVisit
    /\ UNCHANGED <<shopVars, plugin, hooks, visit>>

Uninstalls ==
    /\ awaited = NoVisit /\ plugin # NoOptions
    /\ plugin' = NoOptions /\ hooks' = 0
    /\ UNCHANGED <<shopVars, awaited, visit>>

-----------------------------------------------------------------------------
(* The backend.                                                            *)

AsksApi(v, kind) ==
    /\ Visitor(v, kind, 0)
    /\ UNCHANGED <<shopVars, pluginVars>>

Leave(v) ==
    /\ visit' = [visit EXCEPT ![v] = NoVisitor]
    /\ awaited' = IF awaited = v THEN NoVisit ELSE awaited

\* A condition does not hold; WooCommerce, the limiter or the entitlement says
\* no; or the process dies.
TurnedAway(v) ==
    /\ visit[v].step # "off"
    /\ Leave(v)
    /\ UNCHANGED <<shopVars, plugin, hooks>>

Onward(v, step) ==
    /\ visit' = [visit EXCEPT ![v].step = step, ![v].key = shop.key]
    /\ UNCHANGED <<shopVars, pluginVars>>

\* finalize finds the store by the hash of the token.
FinalizeReads(v) ==
    /\ visit[v].step = "begin" /\ visit[v].kind = "register"
    /\ shop.token = visit[v].with /\ ~shop.consumed /\ ~shop.expired
    /\ ~shop.deleted
    /\ Onward(v, "write")

\* Mutant: the update does not ask whether the token has been consumed.
FinalizableTwice(v) ==
    shop.token = visit[v].with /\ shop.status # "DISCONNECTED" /\ ~shop.deleted

\* The condition of the update, after testConnection.
Finalizable(v) ==
    /\ shop.token = visit[v].with /\ ~shop.consumed /\ ~shop.expired
    /\ ~shop.deleted

\* The answer may be lost, or nobody waits for it any more.
FinalizeWrites(v) ==
    LET secret == Len(registered) + 1
        draws == visit[v].key = 0
    IN  /\ visit[v].step = "write" /\ visit[v].kind = "register"
        /\ Finalizable(v)
        /\ draws => keys < MaxWebhookKeys
        /\ keys' = IF draws THEN keys + 1 ELSE keys
        /\ registered' = Append(registered, visit[v].with)
        /\ shop' = [shop EXCEPT !.secret = secret, !.consumed = TRUE,
                                !.status = "ACTIVE",
                                !.key = IF draws THEN keys' ELSE @]
        /\ \E heard \in {FALSE, awaited = v} :
              plugin' = IF heard THEN Persisted(secret, IF draws THEN keys' ELSE 0)
                        ELSE plugin
        /\ Leave(v)
        /\ UNCHANGED <<rotated, hooks>>

\* confirmPluginConnection, up to what WooCommerce says of the webhooks.
ConfirmReads(v) ==
    /\ visit[v].step = "begin" /\ visit[v].kind = "confirm"
    /\ shop.secret = visit[v].with /\ shop.status = "ACTIVE" /\ ~shop.deleted
    /\ shop.key # 0
    /\ Onward(v, "http")

WebhooksVerified(v) ==
    /\ visit[v].step = "http"
    /\ hooks = visit[v].key
    /\ visit' = [visit EXCEPT ![v].step = "write"]
    /\ UNCHANGED <<shopVars, pluginVars>>

\* Mutant: the update names the store only.
ConfirmableById(v) == ~shop.deleted

Confirmable(v) ==
    shop.secret = visit[v].with /\ shop.status = "ACTIVE" /\ ~shop.deleted

ConfirmWrites(v) ==
    /\ visit[v].step = "write" /\ visit[v].kind = "confirm"
    /\ Confirmable(v)
    /\ shop' = [shop EXCEPT !.healthy = <<visit[v].with, visit[v].key>>]
    /\ Leave(v)
    /\ UNCHANGED <<keys, registered, rotated, plugin, hooks>>

\* provisionWebhookCredentials; what exists is left alone and not repeated.
ProvisionReads(v) ==
    /\ visit[v].step = "begin" /\ visit[v].kind \in {"provision", "rotate"}
    /\ ~shop.deleted
    /\ visit[v].kind = "provision" => shop.key = 0
    /\ Onward(v, "write")

\* Mutant: what the transaction has read is not asked for once more.
ProvisionableStill(v) == ~shop.deleted

Provisionable(v) ==
    ~shop.deleted /\ (visit[v].kind = "provision" => shop.key = 0)

ProvisionWrites(v) ==
    /\ visit[v].step = "write" /\ visit[v].kind \in {"provision", "rotate"}
    /\ Provisionable(v)
    /\ keys < MaxWebhookKeys
    /\ keys' = keys + 1
    /\ shop' = [shop EXCEPT !.key = keys']
    /\ rotated' = (rotated \/ visit[v].kind = "rotate")
    /\ Leave(v)
    /\ UNCHANGED <<registered, plugin, hooks>>

RegistrationNext ==
    \/ IssueRegistrationToken \/ RegistrationExpires \/ SoftDelete \/ DisconnectShop
    \/ Installs \/ PluginGivesUp \/ Uninstalls
    \/ \E v \in Visits :
          \/ Connects(v) \/ ConfirmsHealth(v)
          \/ \E kind \in ApiCalls : AsksApi(v, kind)
          \/ FinalizeReads(v) \/ FinalizeWrites(v)
          \/ ConfirmReads(v) \/ WebhooksVerified(v) \/ ConfirmWrites(v)
          \/ ProvisionReads(v) \/ ProvisionWrites(v)
          \/ TurnedAway(v)

RegistrationSpec == RegistrationInit /\ [][RegistrationNext]_registrationVars

-----------------------------------------------------------------------------
(* Properties.                                                             *)

\* A store is ACTIVE exactly while it has the credential of a plugin, and then
\* it has webhook credentials, too.
RegistrationTypeOK ==
    /\ shop \in Shop
    /\ keys \in WebhookKey /\ rotated \in BOOLEAN
    /\ plugin \in [secret : 0 .. Len(registered), key : 0 .. keys,
                   told : 0 .. Len(registered)]
    /\ hooks \in 0 .. keys /\ awaited \in Visits \cup {NoVisit}
    /\ visit \in [Visits -> [step : {"off", "begin", "http", "write"},
                             kind : {"register", "confirm", "provision", "rotate"},
                             with : Nat, key : WebhookKey]]
    /\ shop.status = "ACTIVE" <=> shop.secret # 0
    /\ shop.status = "ACTIVE" => shop.secret = Len(registered) /\ shop.key # 0

\* "One-time": no two credentials come of one token, and none of a token after
\* a newer one has been issued and used, however their requests overlap.
TokenRegistersOnce ==
    \A a, b \in DOMAIN registered : a < b => registered[a] < registered[b]

\* Health is what the plugin of the present registration has confirmed: a
\* confirmation that began before a new registration comes to nothing.
HealthIsThePlugins ==
    [][shop'.healthy # shop.healthy =>
          /\ shop'.healthy[1] = Len(registered)
          /\ shop.status = "ACTIVE" /\ ~shop.deleted]_registrationVars

\* The webhook credentials a plugin was given stay the store's until the owner
\* rotates them, whoever else provisions some at the same time.
PluginKeyStands ==
    plugin.key # 0 /\ ~rotated /\ shop.status # "DISCONNECTED" =>
        plugin.key = shop.key

\* What a store authenticates with is what its plugin was given last, by one
\* request per token.
CredentialsStand == TokenRegistersOnce /\ PluginKeyStands

\* docs/HANDOFF.md:418: "Lost-response recovery is OWNER/ADMIN token reissue
\* followed by successful credential replacement": a plugin that was answered holds
\* the credential of the store.
AnsweredIsConnected ==
    shop.status = "ACTIVE" /\ plugin.told = shop.secret => plugin.secret = shop.secret
=============================================================================
