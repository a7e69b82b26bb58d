--------------------------- MODULE NotificationPolicy ---------------------------
(***************************************************************************)
(* The settings of a Store as backend/src/telegram/                        *)
(* telegram-settings.service.ts changes them, and what they say about who  *)
(* is told of low stock.  A component without a behaviour of its own: the  *)
(* dialogue that changes the settings (TelegramSettings) and the alerts    *)
(* that are sent under them (InventoryDelivery) share it.                  *)
(***************************************************************************)
EXTENDS Naturals

CONSTANT Members      \* memberships of the tenant

Categories == {"ORDER_CREATED", "LOW_STOCK"}
Modes == {"ALL_ELIGIBLE", "SELECTED"}
Languages == {"FA", "EN"}
Thresholds == {"unset", "low", "high"}
Timezones == {"UTC", "Asia/Tehran"}

\* inventoryNotificationPolicyVersion is version here.
Settings == [language : Languages, timezone : Timezones,
             threshold : Thresholds, categories : SUBSET Categories,
             mode : Modes, selected : SUBSET Members, version : Nat]

DefaultSettings == [language |-> "FA", timezone |-> "UTC",
                    threshold |-> "unset", categories |-> {"ORDER_CREATED"},
                    mode |-> "ALL_ELIGIBLE", selected |-> {}, version |-> 0]

\* What a reference asks for.
Desires ==
    [setting : {"language"}, value : Languages]
        \cup [setting : {"timezone"}, value : Timezones]
        \cup [setting : {"threshold"}, value : Thresholds]
        \cup [setting : {"mode"}, value : Modes]
        \cup [setting : {"category"}, value : {"on", "off"}, of : Categories]
        \cup [setting : {"recipient"}, value : {"on", "off"}, of : Members]

\* Does the setting have another value than the desired one?
Changes(s, want) ==
    CASE want.setting = "category"  -> (want.of \in s.categories) # (want.value = "on")
      [] want.setting = "recipient" -> (want.of \in s.selected) # (want.value = "on")
      [] OTHER -> s[want.setting] # want.value

Put(set, x, value) == IF value = "on" THEN set \cup {x} ELSE set \ {x}

\* applyDesiredAction and applyInput, of a change.
Applied(s, want) ==
    CASE want.setting = "category" ->
           [s EXCEPT !.categories = Put(@, want.of, want.value),
                     !.version = IF want.of = "LOW_STOCK" THEN @ + 1 ELSE @]
      [] want.setting = "recipient" ->
           [s EXCEPT !.selected = Put(@, want.of, want.value), !.version = @ + 1]
      [] want.setting = "mode" ->
           [s EXCEPT !.mode = want.value, !.version = @ + 1]
      [] OTHER -> [s EXCEPT ![want.setting] = want.value]

\* Is this member told of low stock, if eligible?
Tells(s, m) ==
    /\ "LOW_STOCK" \in s.categories
    /\ s.mode = "ALL_ELIGIBLE" \/ m \in s.selected

\* Whom the settings name, whoever is eligible.
Told(s) == {m \in Members : Tells(s, m)}
=============================================================================
