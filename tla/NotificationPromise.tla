-------------------------- MODULE NotificationPromise --------------------------
(***************************************************************************)
(* What the backend promises about a notification record, whichever        *)
(* processor delivers it: at most one Telegram message per record, a       *)
(* verdict that never changes, and a verdict that tells the truth - a      *)
(* delivered record has its message, a failed one never has one.  Only a   *)
(* verdict of "unknown" leaves open whether the message was or will be     *)
(* delivered (docs/DECISIONS.md, D-023).                                   *)
(***************************************************************************)
EXTENDS Naturals

CONSTANT Records

VARIABLES verdict,   \* what the database says of each record
          messages   \* Telegram messages the recipient got for it

promiseVars == <<verdict, messages>>

Verdict == {"none", "undecided", "delivered", "failed", "unknown"}

PromiseInit ==
    /\ verdict = [d \in Records |-> "none"]
    /\ messages = [d \in Records |-> 0]

\* A transaction makes one record, or all that are new.
Record(new) ==
    /\ \A d \in new : verdict[d] = "none"
    /\ verdict' = [d \in Records |-> IF d \in new THEN "undecided" ELSE verdict[d]]
    /\ UNCHANGED messages

\* A message may still arrive after the backend gave up on knowing.
Arrive(d) ==
    /\ verdict[d] \in {"undecided", "unknown"}
    /\ messages[d] = 0
    /\ messages' = [messages EXCEPT ![d] = 1]
    /\ UNCHANGED verdict

Conclude(d, v) ==
    /\ verdict[d] = "undecided"
    /\ v = "delivered" => messages[d] = 1
    /\ v = "failed" => messages[d] = 0
    /\ verdict' = [verdict EXCEPT ![d] = v]
    /\ UNCHANGED messages

PromiseNext ==
    \/ \E new \in SUBSET Records : Record(new)
    \/ \E d \in Records :
          \/ Arrive(d)
          \/ \E v \in {"delivered", "failed", "unknown"} : Conclude(d, v)

PromiseSpec == PromiseInit /\ [][PromiseNext]_promiseVars
=============================================================================
