------------------------------- MODULE MCTelegram -------------------------------
(***************************************************************************)
(* Instances of OrderProjection, TelegramSettings, OrderNotes and          *)
(* DailyReport for TLC.  They share no state: a behaviour is one of        *)
(* either, which the focus of its initial state tells.                     *)
(* Interchangeable values of different modules have the same names, so     *)
(* that one permutation serves all of them.                                *)
(***************************************************************************)
EXTENDS OrderProjection, TelegramSettings, OrderNotes, DailyReport, TLC

VARIABLE focus

MCAsked ==
    [setting : {"timezone"}, value : {"UTC", "Asia/Tehran"}]
    \cup [setting : {"threshold"}, value : {"unset", "low", "high"}]
    \cup [setting : {"mode"}, value : {"SELECTED"}]
    \cup [setting : {"category"}, value : {"on"}, of : {"LOW_STOCK"}]
    \cup [setting : {"recipient"}, value : {"on", "off"}, of : Members]

\* Zones around the world whose offsets change by an hour, or by a day.
MCZones == [base : {-12, 0, 14}, change : {9, 10, 24}, by : {-1, 1, 24}]
MCInstants ==
    {-40, -20, -2, -1} \cup (-15 .. -10) \cup (8 .. 14) \cup (22 .. 26) \cup (33 .. 39)

MCInit ==
    /\ focus \in {"projection", "settings", "notes", "report"}
    /\ Init /\ SettingsInit /\ NotesInit /\ ReportInit
    /\ focus # "settings" => context = CHOOSE store \in Stores : TRUE
    /\ focus # "report" => zone = CHOOSE z \in Zones : TRUE

MCNext ==
    \/ /\ focus = "projection" /\ Next
       /\ UNCHANGED <<focus, settingsVars, noteVars, reportVars>>
    \/ /\ focus = "settings" /\ SettingsNext
       /\ UNCHANGED <<focus, vars, noteVars, reportVars>>
    \/ /\ focus = "notes" /\ NotesNext
       /\ UNCHANGED <<focus, vars, settingsVars, reportVars>>
    \/ /\ focus = "report" /\ ReportNext
       /\ UNCHANGED <<focus, vars, settingsVars, noteVars>>

MCSpec ==
    MCInit /\ [][MCNext]_<<focus, vars, settingsVars, noteVars, reportVars>>

MCSymmetry ==
    Permutations(Tokens) \cup Permutations(Forms) \cup Permutations(Stores)

\* The variables of every part keep their types; a note is claimed exactly when
\* its action exists, and settings without journal are those of a new store.
MCTypeOK == TypeOK /\ SettingsTypeOK /\ NotesTypeOK
=============================================================================
