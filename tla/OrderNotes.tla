------------------------------- MODULE OrderNotes -------------------------------
(***************************************************************************)
(* A note on an order from Telegram                                        *)
(* (backend/src/telegram/telegram-order.service.ts): startNote hands out a *)
(* reference, prepareNote stores the text with it and shows a preview,     *)
(* cancelNote withdraws it, confirmNote posts it to the store and records  *)
(* the outcome in the note's action.  References share nothing, and the    *)
(* module is about one of them.  A request may fail or die at any await.   *)
(***************************************************************************)
EXTENDS Naturals, Sequences, FiniteSets

CONSTANTS NoteRequests, Texts, NoText

ASSUME NotesAssumption == NoText \notin Texts

VARIABLES
    note,        \* the TelegramCallbackReference
    action,      \* its TelegramOrderNoteAction
    old,         \* the action started more than a minute ago
    request,
    wire,        \* POSTs on their way, by request
    notes,       \* what the store has on the order, in the order of arrival
    previews,    \* history: the texts of previews
    cancelled,   \* history: CANCELLED was answered
    audits       \* history: audit entries

noteVars == <<note, action, old, request, wire, notes, previews, cancelled, audits>>

Text == Texts \cup {NoText}

\* print is noteContentFingerprint, claimed noteClaimedAt, expired expiresAt.
NoteReference == [purpose : {"NOTE_INPUT", "NOTE_CONFIRM"}, body : Text, print : Text,
                  claimed : BOOLEAN, expired : BOOLEAN]

Action == {"none", "IN_FLIGHT", "SUCCEEDED", "FAILED", "AMBIGUOUS"}

Step == {"idle", "prepare", "store", "look", "cancel", "unless", "withdraw", "settled",
         "confirm", "once", "fetch", "claim", "post", "wait", "created", "refused",
         "unknown", "overdue"}

\* text is what a request was sent, or has read; expired what it has read.
Request == [at : Step, text : Text, expired : BOOLEAN]
NoRequest == [at |-> "idle", text |-> NoText, expired |-> FALSE]

NotesInit ==
    /\ note = [purpose |-> "NOTE_INPUT", body |-> NoText, print |-> NoText,
               claimed |-> FALSE, expired |-> FALSE]
    /\ action = "none" /\ old = FALSE
    /\ request = [r \in NoteRequests |-> NoRequest]
    /\ wire = [r \in NoteRequests |-> NoText]
    /\ notes = <<>> /\ previews = {} /\ cancelled = FALSE /\ audits = 0

-----------------------------------------------------------------------------
At(r, step) == request[r].at = step

GoesTo(r, step) == request' = [request EXCEPT ![r].at = step]

Ends(r) == request' = [request EXCEPT ![r] = NoRequest]

Stays == UNCHANGED <<note, action, old, wire, notes, previews, cancelled, audits>>

\* Every request begins with clearExpiredNoteBodies.
Begins(r, step, text) ==
    /\ At(r, "idle")
    /\ request' = [request EXCEPT ![r] = [at |-> step, text |-> text, expired |-> FALSE]]
    /\ note' = IF /\ note.purpose = "NOTE_CONFIRM" /\ note.expired
                  /\ ~note.claimed
               THEN [note EXCEPT !.body = NoText] ELSE note
    /\ UNCHANGED <<action, old, wire, notes, previews, cancelled, audits>>

\* Some check of a request fails, its entitlement has lapsed, or its process dies.
GivesUp(r) == ~At(r, "idle") /\ Ends(r) /\ Stays

NoteExpires ==
    /\ ~note.expired /\ note' = [note EXCEPT !.expired = TRUE]
    /\ UNCHANGED <<action, old, request, wire, notes, previews, cancelled, audits>>

MinutePasses ==
    /\ action = "IN_FLIGHT" /\ ~old /\ old' = TRUE
    /\ UNCHANGED <<note, action, request, wire, notes, previews, cancelled, audits>>

-----------------------------------------------------------------------------
(* prepareNote.                                                            *)

PrepareReads(r) ==
    /\ At(r, "prepare")
    /\ IF note.expired THEN Ends(r) ELSE GoesTo(r, "store")
    /\ Stays

Previewed(r) == Ends(r) /\ previews' = previews \cup {request[r].text}

\* Mutant: a text may be replaced until it is confirmed.
PreparesAgain(r) ==
    /\ At(r, "store")
    /\ IF ~note.expired /\ ~note.claimed
       THEN /\ note' = [note EXCEPT !.purpose = "NOTE_CONFIRM",
                                    !.body = request[r].text, !.print = request[r].text]
            /\ Previewed(r)
       ELSE GoesTo(r, "look") /\ UNCHANGED <<note, previews>>
    /\ UNCHANGED <<action, old, wire, notes, cancelled, audits>>

Prepares(r) ==
    /\ At(r, "store")
    /\ IF note.purpose = "NOTE_INPUT" /\ ~note.expired
       THEN /\ note' = [note EXCEPT !.purpose = "NOTE_CONFIRM",
                                    !.body = request[r].text, !.print = request[r].text]
            /\ Previewed(r)
       ELSE GoesTo(r, "look") /\ UNCHANGED <<note, previews>>
    /\ UNCHANGED <<action, old, wire, notes, cancelled, audits>>

\* Another request was faster, maybe with the same text.
PrepareLooks(r) ==
    /\ At(r, "look")
    /\ IF note.purpose = "NOTE_CONFIRM" /\ note.print = request[r].text
       THEN Previewed(r) ELSE Ends(r) /\ UNCHANGED previews
    /\ UNCHANGED <<note, action, old, wire, notes, cancelled, audits>>

-----------------------------------------------------------------------------
(* The outcome of an action.                                               *)

\* Mutant: the text stays with the reference.
CompletesKeepsBody(outcome) ==
    /\ action' = outcome
    /\ UNCHANGED note

\* completeNoteAction, whatever the action's state.
Completes(outcome) ==
    /\ action' = outcome
    /\ note' = [note EXCEPT !.body = NoText]

\* noteActionReplay of a request that is to go on only if there is no action.
Replays(r, step, next) ==
    /\ At(r, step)
    /\ IF action = "none" THEN GoesTo(r, next)
       ELSE IF action = "IN_FLIGHT" /\ old THEN GoesTo(r, "overdue")
       ELSE Ends(r)
    /\ Stays

CallsAmbiguous(r) ==
    /\ At(r, "overdue") /\ Completes("AMBIGUOUS") /\ Ends(r)
    /\ UNCHANGED <<old, wire, notes, previews, cancelled, audits>>

-----------------------------------------------------------------------------
(* cancelNote.                                                             *)

CancelReads(r) ==
    /\ At(r, "cancel")
    /\ IF note.expired THEN Ends(r) ELSE GoesTo(r, "unless")
    /\ Stays

Withdraws(r) ==
    /\ At(r, "withdraw")
    /\ IF ~note.claimed /\ ~note.expired
       THEN /\ note' = [note EXCEPT !.expired = TRUE, !.body = NoText]
            /\ cancelled' = TRUE /\ Ends(r)
       ELSE GoesTo(r, "settled") /\ UNCHANGED <<note, cancelled>>
    /\ UNCHANGED <<action, old, wire, notes, previews, audits>>

-----------------------------------------------------------------------------
(* confirmNote.                                                            *)

ConfirmReads(r) ==
    /\ At(r, "confirm") /\ note.purpose = "NOTE_CONFIRM"
    /\ request' = [request EXCEPT ![r] = [at |-> "once", text |-> note.body,
                                          expired |-> note.expired]]
    /\ Stays

\* The order is fetched from the store and reconciled.
Fetches(r) ==
    /\ At(r, "fetch") /\ ~request[r].expired /\ request[r].text # NoText
    /\ GoesTo(r, "claim")
    /\ Stays

\* Mutant: what has expired since it was read can still be claimed.
ClaimableStill == note.purpose = "NOTE_CONFIRM" /\ ~note.claimed

Claimable == note.purpose = "NOTE_CONFIRM" /\ ~note.claimed /\ ~note.expired

\* Mutant: the action is created without claiming the reference.
ClaimsUnmarked(r) ==
    /\ At(r, "claim")
    /\ IF Claimable
       THEN action' = "IN_FLIGHT" /\ GoesTo(r, "post") /\ UNCHANGED note
       ELSE GoesTo(r, "settled") /\ UNCHANGED <<note, action>>
    /\ UNCHANGED <<old, wire, notes, previews, cancelled, audits>>

\* One serializable transaction.
Claims(r) ==
    /\ At(r, "claim")
    /\ IF Claimable
       THEN /\ note' = [note EXCEPT !.claimed = TRUE]
            /\ action' = "IN_FLIGHT" /\ GoesTo(r, "post")
       ELSE GoesTo(r, "settled") /\ UNCHANGED <<note, action>>
    /\ UNCHANGED <<old, wire, notes, previews, cancelled, audits>>

\* Or the entitlement has lapsed, which is called ambiguous, too.
Posts(r) ==
    /\ At(r, "post")
    /\ \/ /\ wire' = [wire EXCEPT ![r] = request[r].text]
          /\ GoesTo(r, "wait")
       \/ GoesTo(r, "unknown") /\ UNCHANGED wire
    /\ UNCHANGED <<note, action, old, notes, previews, cancelled, audits>>

\* A POST arrives, whether or not its request still waits; the answer may be lost.
StoreCreates(r) ==
    /\ wire[r] # NoText
    /\ notes' = Append(notes, wire[r])
    /\ wire' = [wire EXCEPT ![r] = NoText]
    /\ \/ At(r, "wait") /\ \E step \in {"created", "unknown"} : GoesTo(r, step)
       \/ ~At(r, "wait") /\ UNCHANGED request
    /\ UNCHANGED <<note, action, old, previews, cancelled, audits>>

\* An HTTP error status: the store has not created the note.
StoreRefuses(r) ==
    /\ wire[r] # NoText
    /\ wire' = [wire EXCEPT ![r] = NoText]
    /\ \/ At(r, "wait") /\ GoesTo(r, "refused")
       \/ ~At(r, "wait") /\ UNCHANGED request
    /\ UNCHANGED <<note, action, old, notes, previews, cancelled, audits>>

\* Mutant: no answer in time is a failure.
TimesOutRefused(r) == At(r, "wait") /\ GoesTo(r, "refused") /\ Stays

TimesOut(r) == At(r, "wait") /\ GoesTo(r, "unknown") /\ Stays

\* Action, text and audit entry in one transaction; if it fails, the outcome is
\* ambiguous.
Succeeds(r) ==
    /\ At(r, "created")
    /\ \/ Completes("SUCCEEDED") /\ audits' = audits + 1 /\ Ends(r)
       \/ GoesTo(r, "unknown") /\ UNCHANGED <<note, action, audits>>
    /\ UNCHANGED <<old, wire, notes, previews, cancelled>>

Concludes(r) ==
    /\ \/ At(r, "refused") /\ Completes("FAILED")
       \/ At(r, "unknown") /\ Completes("AMBIGUOUS")
    /\ Ends(r)
    /\ UNCHANGED <<old, wire, notes, previews, cancelled, audits>>

NotesNext ==
    \/ NoteExpires \/ MinutePasses
    \/ \E r \in NoteRequests :
          \/ \E text \in Texts : Begins(r, "prepare", text)
          \/ Begins(r, "cancel", NoText) \/ Begins(r, "confirm", NoText)
          \/ GivesUp(r)
          \/ PrepareReads(r) \/ Prepares(r) \/ PrepareLooks(r)
          \/ CancelReads(r) \/ Replays(r, "unless", "withdraw") \/ Withdraws(r)
          \/ ConfirmReads(r) \/ Replays(r, "once", "fetch") \/ Fetches(r) \/ Claims(r)
          \/ Replays(r, "settled", "idle") \/ CallsAmbiguous(r)
          \/ Posts(r) \/ StoreCreates(r) \/ StoreRefuses(r) \/ TimesOut(r)
          \/ Succeeds(r) \/ Concludes(r)

NotesSpec == NotesInit /\ [][NotesNext]_noteVars

-----------------------------------------------------------------------------
(* Properties.                                                             *)

Sent == {notes[i] : i \in DOMAIN notes} \cup ({wire[r] : r \in NoteRequests} \ {NoText})

\* A reference is claimed if and only if it has its action, one request at most
\* is posting under it, and a text goes with a fingerprint.
NotesTypeOK ==
    /\ note \in NoteReference /\ action \in Action /\ old \in BOOLEAN
    /\ request \in [NoteRequests -> Request] /\ wire \in [NoteRequests -> Text]
    /\ notes \in Seq(Texts) /\ previews \subseteq Texts
    /\ cancelled \in BOOLEAN /\ audits \in Nat
    /\ note.claimed <=> action # "none"
    /\ note.body \in {NoText, note.print}
    /\ Cardinality({r \in NoteRequests : request[r].at \in
           {"post", "wait", "created", "refused", "unknown"}}) <= 1

\* However often and with whatever texts a note is prepared and confirmed, it is
\* posted once at most, with the text of every preview that was shown.
PostedAsPreviewed ==
    /\ Len(notes) + Cardinality({r \in NoteRequests : wire[r] # NoText}) <= 1
    /\ \A text \in Sent : previews = {text}

\* A note whose cancellation was confirmed is never posted.
CancelledIsUnsent == cancelled => Sent = {}

\* A success was created in the store and is audited at most once; what has failed
\* is neither there nor on its way.
NoteOutcomesAreTrue ==
    /\ action = "SUCCEEDED" => notes # <<>> /\ audits = 1
    /\ action = "FAILED" => Sent = {} /\ audits = 0
    /\ audits <= Len(notes)

\* With its outcome, or its cancellation, the text is erased from the reference.
NoteBodiesErased ==
    action \in {"SUCCEEDED", "FAILED", "AMBIGUOUS"} \/ cancelled => note.body = NoText

\* At most one note is sent, and only what its author saw and did not cancel.
SentAsConfirmed == PostedAsPreviewed /\ CancelledIsUnsent

\* Every end of a dialogue tells the truth and leaves no text behind.
NoteEndsAreTrue == NoteOutcomesAreTrue /\ NoteBodiesErased
=============================================================================
