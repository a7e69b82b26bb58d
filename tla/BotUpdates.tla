------------------------------ MODULE BotUpdates ------------------------------
(***************************************************************************)
(* How updates of Telegram users reach the backend (telegram-bot/src:      *)
(* bot.ts, update-deduplicator.ts and internal-backend.client.ts over      *)
(* grammY's long polling).  Updates are numbered in the order they are     *)
(* sent; the bot takes one after the other, makes one request of it and    *)
(* waits for the answer, but not for ever; Telegram hears of what has been *)
(* taken when the bot polls again, and sends the rest once more to a bot   *)
(* that was restarted in between.  A part of modules that say what the     *)
(* requests do.                                                            *)
(***************************************************************************)
EXTENDS Naturals, Sequences, FiniteSets

CONSTANTS TelegramUsers,
          MaxUpdates,      \* updates that are sent (bound)
          MaxTracked,      \* DEFAULT_MAX_TRACKED_UPDATES
          MaxRestarts      \* of the bot (bound)

ASSUME BotAssumption == {MaxUpdates, MaxTracked, MaxRestarts} \subseteq Nat

VARIABLES
    sent,        \* updates, each at its number
    confirmed,   \* those Telegram will not send again
    tried,       \* those grammY has passed on
    seen,        \* those the deduplicator remembers
    waiting,     \* the update whose answer the bot awaits, or 0
    wire,        \* requests per update that the backend has yet to serve
    restarts

botVars == <<sent, confirmed, tried, seen, waiting, wire, restarts>>

UpdateIds == 1 .. MaxUpdates

BotInit ==
    /\ sent = <<>>
    /\ confirmed = 0 /\ tried = 0 /\ seen = {} /\ waiting = 0
    /\ wire = [i \in UpdateIds |-> 0]
    /\ restarts = 0

\* A user does something in the private chat.
Sends(t, what) ==
    /\ Len(sent) < MaxUpdates
    /\ sent' = Append(sent, [from |-> t, what |-> what])
    /\ UNCHANGED <<confirmed, tried, seen, waiting, wire, restarts>>

\* UpdateDeduplicator.accept: the oldest is forgotten first.
Remembered(i) ==
    LET all == seen \cup {i}
    IN  IF Cardinality(all) > MaxTracked
        THEN all \ {CHOOSE x \in all : \A y \in all : x <= y} ELSE all

\* An update is accepted before it is handled.
Accepts ==
    /\ waiting = 0 /\ tried < Len(sent)
    /\ tried' = tried + 1
    /\ IF tried' \in seen THEN UNCHANGED <<seen, waiting, wire>>
       ELSE /\ seen' = Remembered(tried')
            /\ waiting' = tried'
            /\ wire' = [wire EXCEPT ![tried'] = @ + 1]
    /\ UNCHANGED <<sent, confirmed, restarts>>

\* The answer, an error, or BOT_BACKEND_TIMEOUT_MS: then the request may be
\* served later than those of the updates that follow.
Replies ==
    /\ waiting # 0
    /\ waiting' = 0
    /\ UNCHANGED <<sent, confirmed, tried, seen, wire, restarts>>

Polls ==
    /\ waiting = 0 /\ confirmed # tried
    /\ confirmed' = tried
    /\ UNCHANGED <<sent, tried, seen, waiting, wire, restarts>>

Restarts ==
    /\ restarts < MaxRestarts
    /\ restarts' = restarts + 1
    /\ tried' = confirmed /\ seen' = {} /\ waiting' = 0
    /\ UNCHANGED <<sent, confirmed, wire>>

BotSteps == Accepts \/ Replies \/ Polls \/ Restarts

\* What serving a request, or losing it, does to the wire.
Serves(i) ==
    /\ wire[i] > 0
    /\ wire' = [wire EXCEPT ![i] = @ - 1]
    /\ UNCHANGED <<sent, confirmed, tried, seen, waiting, restarts>>

BotTypeOK ==
    /\ Len(sent) <= MaxUpdates
    /\ confirmed <= tried /\ tried <= Len(sent)
    /\ seen \subseteq UpdateIds /\ Cardinality(seen) <= MaxTracked
    /\ waiting \in {0, tried}
    /\ wire \in [UpdateIds -> 0 .. MaxRestarts + 1]
    /\ restarts \in 0 .. MaxRestarts
=============================================================================
